---------------------------- MODULE Interpreter ----------------------------
(***************************************************************************)
(* jepsen.generator.interpreter: the main loop (run!) that draws           *)
(* operations from a generator, hands them to worker threads through       *)
(* queues of capacity one, collects their completions from a shared queue, *)
(* and journals both to the history; the workers (spawn-worker), which     *)
(* apply operations through a client or the nemesis; and both ways to      *)
(* stop: the exit message of a normal end and the cancellation of an       *)
(* abnormal one.                                                           *)
(*                                                                         *)
(* The generator, the clients and the nemesis are the test author's: they  *)
(* are choices over everything the interpreter's validators let through.   *)
(* A generator names only processes of the context it is given, as every   *)
(* generator of jepsen.generator does.                                     *)
(***************************************************************************)
EXTENDS Context, Sequences

CONSTANTS MaxOps,     \* bound: operations the generator produces
          MaxTime,    \* bound: ticks of the relative clock
          Reusable,   \* what (client/reusable? client test) answers
          Controls,   \* which of "sleep", "log" the generator emits
          EndProcess, \* may a completion carry :end-process? true
          Faults      \* which calls may throw: see FaultNames

FaultNames == {"generator", "open", "close", "invoke", "sleep"}

ASSUME InterpreterAssumption ==
    /\ MaxOps \in Nat
    /\ MaxTime \in Nat
    /\ Reusable \in BOOLEAN
    /\ Controls \subseteq {"sleep", "log"}
    /\ EndProcess \in BOOLEAN
    /\ Faults \subseteq FaultNames

VARIABLES
    \* the main thread
    ctx,          \* the context
    loop,         \* where the main thread is
    staged,       \* the operation journaled and about to be put, or None
    budget,       \* operations the generator has left
    opIndex,      \* index of the next op in the history
    outstanding,  \* number of in-flight ops
    unsignalled,  \* threads still to be sent :exit, or to be cancelled
    history,      \* the journal, in the order it is written
    now,          \* the relative clock
    \* the queues
    inbox,        \* thread -> the operation in its queue, or None
    completions,  \* the completion queue
    \* the workers
    wpc,          \* thread -> where the worker is
    held,         \* thread -> the operation the worker is evaluating, or None
    wprocess,     \* thread -> the process field of its ClientWorker
    client,       \* thread -> the process its client was opened for, or None
    conns,        \* connections open at the database: <<thread, process>>
    interrupted,  \* thread -> its interrupt flag
    cancelled     \* thread -> its future was cancelled

mainVars   == <<ctx, loop, staged, budget, opIndex, outstanding, unsignalled,
                history>>
clientVars == <<wprocess, client, conns>>
workerVars == <<wpc, held, wprocess, client, conns, interrupted, cancelled>>
vars       == <<mainVars, now, inbox, completions, workerVars>>

-----------------------------------------------------------------------------
(* Operations. *)

OpTypes == {"invoke", "info", "sleep", "log", "ok", "fail"}

Ops == [process : Processes, type : OpTypes, time : Nat, end : BOOLEAN]

ASSUME NoneIsNoOp == None \notin Ops

Op(process, type, time) ==
    [process |-> process, type |-> type, time |-> time, end |-> FALSE]

Exit == Op(None, "exit", 0)

\* The types a generator may give an operation: clients are sent :invoke, the
\* nemesis :info, and anyone a control operation.
InvocationTypes(process) ==
    Controls \cup (IF process = Nemesis THEN {"info"} ELSE {"invoke"})

GoesInHistory(op) == op.type \notin {"sleep", "log"}

\* Mutant of Journal: a completion keeps the time of its invocation.
JournalWithOpTime(op, time) ==
    IF GoesInHistory(op)
    THEN /\ history' = Append(history, [index   |-> opIndex,
                                        process |-> op.process,
                                        type    |-> op.type,
                                        time    |-> op.time,
                                        end     |-> op.end])
         /\ opIndex' = opIndex + 1
    ELSE UNCHANGED <<history, opIndex>>

\* Appends an operation to the history with the next index.
Journal(op, time) ==
    IF GoesInHistory(op)
    THEN /\ history' = Append(history, [index   |-> opIndex,
                                        process |-> op.process,
                                        type    |-> op.type,
                                        time    |-> time,
                                        end     |-> op.end])
         /\ opIndex' = opIndex + 1
    ELSE UNCHANGED <<history, opIndex>>

Init ==
    /\ ctx = InitialContext
    /\ loop = "poll"
    /\ staged = None
    /\ budget = MaxOps
    /\ opIndex = 0
    /\ outstanding = 0
    /\ unsignalled = {}
    /\ history = << >>
    /\ now = 0
    /\ inbox = [t \in Threads |-> None]
    /\ completions = << >>
    /\ wpc = [t \in Threads |-> "take"]
    /\ held = [t \in Threads |-> None]
    /\ wprocess = [t \in Threads |-> None]
    /\ client = [t \in Threads |-> None]
    /\ conns = {}
    /\ interrupted = [t \in Threads |-> FALSE]
    /\ cancelled = [t \in Threads |-> FALSE]

-----------------------------------------------------------------------------
(* The main thread: completions. *)

\* Mutant of Retires: a crashed process goes on.
RetiresOnRequest(op, thread) == thread # Nemesis /\ op.end

\* A completion retires its process if it crashed or asks for a new one.
Retires(op, thread) == thread # Nemesis /\ (op.type = "info" \/ op.end)

\* Poll returns a completion: free its thread, tell the generator, give the
\* thread a new process if this one is retired, journal the completion.
PollCompletion ==
    /\ loop = "poll"
    /\ completions # << >>
    /\ LET op     == Head(completions)
           thread == ProcessToThread(ctx, op.process)
           freed  == FreeThread(ctx, now, thread)
       IN /\ ctx' = IF Retires(op, thread) THEN WithNextProcess(freed, thread)
                                           ELSE freed
          /\ Journal(op, now)
    /\ completions' = Tail(completions)
    /\ outstanding' = outstanding - 1
    /\ UNCHANGED <<loop, staged, budget, unsignalled, now, inbox, workerVars>>

PollEmpty ==
    /\ loop = "poll"
    /\ completions = << >>
    /\ loop' = "ask"
    /\ UNCHANGED <<ctx, staged, budget, opIndex, outstanding, unsignalled,
                   history, now, inbox, completions, workerVars>>

\* Control leaves the loop for the catch block.
Abort == loop' = "cancel" /\ unsignalled' = Threads

\* The generator throws as it is told of a completion, which is then lost.
PollThrows ==
    /\ loop = "poll"
    /\ completions # << >>
    /\ "generator" \in Faults
    /\ completions' = Tail(completions)
    /\ Abort
    /\ UNCHANGED <<ctx, staged, budget, opIndex, outstanding, history, now,
                   inbox, workerVars>>

-----------------------------------------------------------------------------
(* The main thread: asking the generator. *)

\* The generator is exhausted with operations outstanding, is :pending, or
\* gives an operation whose time has not come: poll again, with the generator
\* as it was.
AskAgain ==
    /\ loop = "ask"
    /\ ctx' = WithTime(ctx, now)
    /\ loop' = "poll"
    /\ UNCHANGED <<staged, budget, opIndex, outstanding, unsignalled, history,
                   now, inbox, completions, workerVars>>

\* The generator gives an operation that is due, for a free process: journal
\* it, and go on to put it in the queue of its thread.  It bears the time its
\* generator gave it, which may lie in the past.
AskOp ==
    /\ loop = "ask"
    /\ budget > 0
    /\ \E process \in DOMAIN ctx.processThread :
         /\ ValidProcess(ctx, process)
         /\ \E type \in InvocationTypes(process), time \in 0 .. now :
              /\ staged' = Op(process, type, time)
              /\ Journal(Op(process, type, time), time)
    /\ ctx' = WithTime(ctx, now)
    /\ budget' = budget - 1
    /\ loop' = "put"
    /\ UNCHANGED <<outstanding, unsignalled, now, inbox, completions,
                   workerVars>>

\* Mutant of Quiescent: the last operation is not waited for.
AlmostQuiescent == outstanding <= 1

\* No operation is in flight.
Quiescent == outstanding = 0

\* The generator is exhausted and nothing is outstanding: tell everyone to exit.
AskExit ==
    /\ loop = "ask"
    /\ Quiescent
    /\ ctx' = WithTime(ctx, now)
    /\ loop' = "exit"
    /\ unsignalled' = Threads
    /\ UNCHANGED <<staged, budget, opIndex, outstanding, history, now, inbox,
                   completions, workerVars>>

\* The generator, or its validation, throws.
AskThrows ==
    /\ loop = "ask"
    /\ "generator" \in Faults
    /\ Abort
    /\ UNCHANGED <<ctx, staged, budget, opIndex, outstanding, history, now,
                   inbox, completions, workerVars>>

StagedThread == ProcessToThread(ctx, staged.process)

\* .put on the queue of the thread, which blocks while the queue is full.
PutStaged ==
    /\ loop = "put"
    /\ inbox[StagedThread] = None
    /\ inbox' = [inbox EXCEPT ![StagedThread] = staged]
    /\ staged' = None

\* The operation is dispatched and the generator told of it.
Dispatch ==
    /\ PutStaged
    /\ ctx' = BusyThread(ctx, staged.time, StagedThread)
    /\ outstanding' = outstanding + 1
    /\ loop' = "poll"
    /\ UNCHANGED <<budget, opIndex, unsignalled, history, now, completions,
                   workerVars>>

\* The operation is dispatched, and the generator throws when told of it.
DispatchThrows ==
    /\ PutStaged
    /\ "generator" \in Faults
    /\ Abort
    /\ UNCHANGED <<ctx, budget, opIndex, outstanding, history, now,
                   completions, workerVars>>

-----------------------------------------------------------------------------
(* The main thread: stopping. *)

Finished(t) == wpc[t] \in {"done", "failed"}

\* .put of {:type :exit} on one queue after the other.
SendExit ==
    /\ loop = "exit"
    /\ \E t \in unsignalled :
         /\ inbox[t] = None
         /\ inbox' = [inbox EXCEPT ![t] = Exit]
         /\ unsignalled' = unsignalled \ {t}
         /\ loop' = IF unsignalled' = {} THEN "join" ELSE "exit"
    /\ UNCHANGED <<ctx, staged, budget, opIndex, outstanding, history, now,
                   completions, workerVars>>

\* Mutant of JoinAll: the workers are not waited for.
JoinNobody ==
    /\ loop = "join"
    /\ loop' = "returned"
    /\ UNCHANGED <<ctx, staged, budget, opIndex, outstanding, unsignalled,
                   history, now, inbox, completions, workerVars>>

\* Every future has been dereferenced: close the history and return.
JoinAll ==
    /\ loop = "join"
    /\ \A t \in Threads : wpc[t] = "done"
    /\ loop' = "returned"
    /\ UNCHANGED <<ctx, staged, budget, opIndex, outstanding, unsignalled,
                   history, now, inbox, completions, workerVars>>

\* Dereferencing the future of a worker that threw as it closed rethrows here.
JoinThrows ==
    /\ loop = "join"
    /\ \E t \in Threads : wpc[t] = "failed"
    /\ Abort
    /\ UNCHANGED <<ctx, staged, budget, opIndex, outstanding, history, now,
                   inbox, completions, workerVars>>

\* future-cancel on one worker: interrupts it, unless it has finished.
Cancel ==
    /\ loop = "cancel"
    /\ \E t \in unsignalled :
         /\ cancelled' = [cancelled EXCEPT ![t] = ~Finished(t)]
         /\ interrupted' = [interrupted EXCEPT ![t] = ~Finished(t)]
         /\ unsignalled' = unsignalled \ {t}
         /\ loop' = IF unsignalled' = {} THEN "reap" ELSE "cancel"
    /\ UNCHANGED <<ctx, staged, budget, opIndex, outstanding, history, now,
                   inbox, completions, wpc, held, clientVars>>

\* future-done?, true as soon as a future is cancelled, whatever its thread
\* still does.
FutureDone(t) == cancelled[t] \/ Finished(t)

\* One pass over the unfinished workers: offer :exit to those whose future is
\* not done; rethrow once all are.
Reap ==
    /\ loop = "reap"
    /\ inbox' = [t \in Threads |-> IF ~FutureDone(t) /\ inbox[t] = None
                                   THEN Exit ELSE inbox[t]]
    /\ loop' = IF \A t \in Threads : FutureDone(t) THEN "threw" ELSE "reap"
    /\ UNCHANGED <<ctx, staged, budget, opIndex, outstanding, unsignalled,
                   history, now, completions, workerVars>>

-----------------------------------------------------------------------------
(* The workers. *)

\* The completion queue holds as many operations as there are workers.
Capacity == Concurrency + 1

\* A call throws: by a fault of its own, or because the thread is interrupted,
\* which clears the interrupt flag.
Throws(t, fault) ==
    \/ fault \in Faults /\ UNCHANGED interrupted
    \/ interrupted[t] /\ interrupted' = [interrupted EXCEPT ![t] = FALSE]

\* .take on the inbox.
Take(t) ==
    /\ wpc[t] = "take"
    /\ ~interrupted[t]
    /\ inbox[t] # None
    /\ inbox' = [inbox EXCEPT ![t] = None]
    /\ IF inbox[t].type = "exit"
       THEN wpc' = [wpc EXCEPT ![t] = "close"] /\ UNCHANGED held
       ELSE /\ wpc' = [wpc EXCEPT ![t] = "eval"]
            /\ held' = [held EXCEPT ![t] = inbox[t]]
    /\ UNCHANGED <<mainVars, now, completions, clientVars, interrupted,
                   cancelled>>

\* .take throws InterruptedException, which leaves the loop.
TakeInterrupted(t) ==
    /\ wpc[t] = "take"
    /\ interrupted[t]
    /\ wpc' = [wpc EXCEPT ![t] = "close"]
    /\ interrupted' = [interrupted EXCEPT ![t] = FALSE]
    /\ UNCHANGED <<mainVars, now, inbox, completions, held, clientVars,
                   cancelled>>

\* The worker has its answer, and goes on to put it in the completion queue.
Answer(t, type, end) ==
    /\ held' = [held EXCEPT ![t].type = type, ![t].end = end]
    /\ wpc' = [wpc EXCEPT ![t] = "reply"]

Control(t) ==
    /\ wpc[t] = "eval"
    /\ held[t].type \in {"sleep", "log"}
    /\ wpc' = [wpc EXCEPT ![t] = "reply"]
    /\ UNCHANGED <<mainVars, now, inbox, completions, held, clientVars,
                   interrupted, cancelled>>

ControlThrows(t) ==
    /\ wpc[t] = "eval"
    /\ held[t].type \in {"sleep", "log"}
    /\ Throws(t, "sleep")
    /\ wpc' = [wpc EXCEPT ![t] = "crash"]
    /\ UNCHANGED <<mainVars, now, inbox, completions, held, clientVars,
                   cancelled>>

\* Mutant of IsReusable: nil counts as a reusable client.
IsReusableNil(t) == Reusable

\* client/is-reusable?, which is false of nil.
IsReusable(t) == client[t] # None /\ Reusable

\* Mutant of NeedsClient: a client is kept whatever the process.
NeedsFirstClient(t) == t # Nemesis /\ client[t] = None

\* A client operation by a process the worker's client was not opened for.
NeedsClient(t) ==
    /\ t # Nemesis
    /\ held[t].process # wprocess[t]
    /\ ~IsReusable(t)

\* The worker is in invoke!.
Invoking(t) == wpc[t] = "eval" /\ held[t].type \in {"invoke", "info"}

\* Mutant of CloseClient: the client is forgotten and not closed.
ForgetClient(t) == client' = [client EXCEPT ![t] = None] /\ UNCHANGED conns

\* ClientWorker's close!, without an error.
CloseClient(t) ==
    /\ conns' = conns \ {<<t, client[t]>>}
    /\ client' = [client EXCEPT ![t] = None]

\* invoke! first closes the client of the process before.
CloseOld(t) ==
    /\ Invoking(t)
    /\ NeedsClient(t)
    /\ client[t] # None
    /\ CloseClient(t)
    /\ UNCHANGED <<mainVars, now, inbox, completions, wpc, held, wprocess,
                   interrupted, cancelled>>

\* close! throws: the client stays, and the operation crashes.
CloseOldThrows(t) ==
    /\ Invoking(t)
    /\ NeedsClient(t)
    /\ client[t] # None
    /\ Throws(t, "close")
    /\ wpc' = [wpc EXCEPT ![t] = "crash"]
    /\ UNCHANGED <<mainVars, now, inbox, completions, held, clientVars,
                   cancelled>>

\* ... then opens one for this process.
OpenClient(t) ==
    /\ Invoking(t)
    /\ NeedsClient(t)
    /\ client[t] = None
    /\ client' = [client EXCEPT ![t] = held[t].process]
    /\ wprocess' = [wprocess EXCEPT ![t] = held[t].process]
    /\ conns' = conns \cup {<<t, held[t].process>>}
    /\ UNCHANGED <<mainVars, now, inbox, completions, wpc, held, interrupted,
                   cancelled>>

\* open! throws an Exception: the operation fails, for it was never attempted.
OpenFails(t) ==
    /\ Invoking(t)
    /\ NeedsClient(t)
    /\ client[t] = None
    /\ Throws(t, "open")
    /\ Answer(t, "fail", FALSE)
    /\ UNCHANGED <<mainVars, now, inbox, completions, clientVars, cancelled>>

\* open! throws an Error, which is no Exception: the operation crashes.
OpenCrashes(t) ==
    /\ Invoking(t)
    /\ NeedsClient(t)
    /\ client[t] = None
    /\ "open" \in Faults
    /\ wpc' = [wpc EXCEPT ![t] = "crash"]
    /\ UNCHANGED <<mainVars, now, inbox, completions, held, clientVars,
                   interrupted, cancelled>>

\* client/invoke! or nemesis/invoke! returns a completion its validator allows.
Invoke(t) ==
    /\ Invoking(t)
    /\ ~NeedsClient(t)
    /\ \E type \in IF t = Nemesis THEN {"info"} ELSE {"ok", "fail", "info"},
          end \in {FALSE, EndProcess} :
         Answer(t, type, end)
    /\ UNCHANGED <<mainVars, now, inbox, completions, clientVars, interrupted,
                   cancelled>>

InvokeThrows(t) ==
    /\ Invoking(t)
    /\ ~NeedsClient(t)
    /\ Throws(t, "invoke")
    /\ wpc' = [wpc EXCEPT ![t] = "crash"]
    /\ UNCHANGED <<mainVars, now, inbox, completions, held, clientVars,
                   cancelled>>

\* Mutant of PutCompletion: the worker answers and answers again.
PutCompletionAgain(t, op) ==
    /\ ~interrupted[t]
    /\ Len(completions) < Capacity
    /\ completions' = Append(completions, op)
    /\ UNCHANGED <<mainVars, now, inbox, workerVars>>

\* .put on the completion queue, which blocks while it is full.
PutCompletion(t, op) ==
    /\ ~interrupted[t]
    /\ Len(completions) < Capacity
    /\ completions' = Append(completions, op)
    /\ held' = [held EXCEPT ![t] = None]
    /\ wpc' = [wpc EXCEPT ![t] = "take"]
    /\ UNCHANGED <<mainVars, now, inbox, clientVars, interrupted, cancelled>>

Reply(t) == wpc[t] = "reply" /\ PutCompletion(t, held[t])

\* Mutant of ReplyCrash: a crash is not reported.
CrashUnreported(t) ==
    /\ wpc[t] = "crash"
    /\ held' = [held EXCEPT ![t] = None]
    /\ wpc' = [wpc EXCEPT ![t] = "take"]
    /\ UNCHANGED <<mainVars, now, inbox, completions, clientVars, interrupted,
                   cancelled>>

\* The catch block: the operation becomes an :info.
ReplyCrash(t) ==
    /\ wpc[t] = "crash"
    /\ PutCompletion(t, [held[t] EXCEPT !.type = "info", !.end = FALSE])

\* An interrupted .put throws: inside the try it is caught like any other
\* error, inside the catch block it leaves the loop.
ReplyInterrupted(t) ==
    /\ wpc[t] \in {"reply", "crash"}
    /\ interrupted[t]
    /\ interrupted' = [interrupted EXCEPT ![t] = FALSE]
    /\ IF wpc[t] = "reply"
       THEN wpc' = [wpc EXCEPT ![t] = "crash"] /\ UNCHANGED held
       ELSE /\ wpc' = [wpc EXCEPT ![t] = "close"]
            /\ held' = [held EXCEPT ![t] = None]
    /\ UNCHANGED <<mainVars, now, inbox, completions, clientVars, cancelled>>

\* The finally block closes the client, if there is one.
Close(t) ==
    /\ wpc[t] = "close"
    /\ CloseClient(t)
    /\ wpc' = [wpc EXCEPT ![t] = "done"]
    /\ UNCHANGED <<mainVars, now, inbox, completions, held, wprocess,
                   interrupted, cancelled>>

CloseThrows(t) ==
    /\ wpc[t] = "close"
    /\ client[t] # None
    /\ Throws(t, "close")
    /\ wpc' = [wpc EXCEPT ![t] = "failed"]
    /\ UNCHANGED <<mainVars, now, inbox, completions, held, clientVars,
                   cancelled>>

-----------------------------------------------------------------------------
Tick ==
    /\ now < MaxTime
    /\ loop \in {"poll", "ask", "put"}
    /\ now' = now + 1
    /\ UNCHANGED <<mainVars, inbox, completions, workerVars>>

Main ==
    \/ PollCompletion \/ PollEmpty \/ PollThrows
    \/ AskAgain \/ AskOp \/ AskExit \/ AskThrows
    \/ Dispatch \/ DispatchThrows
    \/ SendExit \/ JoinAll \/ JoinThrows \/ Cancel \/ Reap

Worker(t) ==
    \/ Take(t) \/ TakeInterrupted(t)
    \/ Control(t) \/ ControlThrows(t)
    \/ CloseOld(t) \/ CloseOldThrows(t)
    \/ OpenClient(t) \/ OpenFails(t) \/ OpenCrashes(t)
    \/ Invoke(t) \/ InvokeThrows(t)
    \/ Reply(t) \/ ReplyCrash(t) \/ ReplyInterrupted(t)
    \/ Close(t) \/ CloseThrows(t)

\* run! has returned or thrown: a state where stopping is no deadlock.
Stopped == loop \in {"returned", "threw"} /\ UNCHANGED vars

Next == Main \/ (\E t \in Threads : Worker(t)) \/ Tick \/ Stopped

Spec == Init /\ [][Next]_vars

\* The scheduler runs every thread that can run; a client or nemesis call
\* returns or throws; and a generator asked again and again neither stays
\* :pending nor keeps returning operations for the future for ever.
Fairness ==
    /\ WF_vars(Main)
    /\ \A t \in Threads : WF_vars(Worker(t))
    /\ SF_vars(AskOp \/ AskExit)

FairSpec == Spec /\ Fairness
=============================================================================
