----------------------- MODULE InterpreterProperties -----------------------
(***************************************************************************)
(* What makes the interpreter correct: the type invariant, the safety      *)
(* invariants, the refinement of ProcessHistory and termination.           *)
(***************************************************************************)
EXTENDS Interpreter

Entries == [index : Nat, process : Processes, type : OpTypes, time : Nat,
            end : BOOLEAN]

LoopStates   == {"poll", "ask", "put", "exit", "join", "returned", "cancel",
                 "reap", "threw"}
WorkerStates == {"take", "eval", "reply", "crash", "close", "done", "failed"}

\* Type invariant of the main loop, the queues and the workers.
TypeOK ==
    /\ IsContext(ctx)
    /\ loop \in LoopStates
    /\ staged \in Ops \cup {None}
    /\ budget \in 0 .. MaxOps
    /\ opIndex \in Nat
    /\ outstanding \in Int
    /\ unsignalled \subseteq Threads
    /\ history \in Seq(Entries)
    /\ now \in Nat
    /\ inbox \in [Threads -> Ops \cup {None, Exit}]
    /\ completions \in Seq(Ops)
    /\ wpc \in [Threads -> WorkerStates]
    /\ held \in [Threads -> Ops \cup {None}]
    /\ wprocess \in [Threads -> Processes \cup {None}]
    /\ client \in [Threads -> Processes \cup {None}]
    /\ conns \subseteq Threads \X Processes
    /\ interrupted \in [Threads -> BOOLEAN]
    /\ cancelled \in [Threads -> BOOLEAN]

-----------------------------------------------------------------------------
(* The main thread's picture of the workers. *)

\* The main thread is drawing operations: ctx and outstanding are in use.
Scheduling == loop \in {"poll", "ask", "put"}

ProcessOf(t) == ThreadToProcess(ctx, t)

\* The two maps of a context are inverse to each other, so no two threads ever
\* share a process and the process of every completion is found: what
\* with-next-process must keep true as it renumbers a crashed thread.
ProcessMapsAgree ==
    Scheduling =>
      /\ DOMAIN ctx.processThread = {ctx.threadProcess[i] : i \in Indices}
      /\ \A t \in Threads : ctx.processThread[ProcessOf(t)] = t

InInbox(t)       == inbox[t] # None
InWorker(t)      == held[t] # None
InCompletions(t) == \E i \in DOMAIN completions :
                       completions[i].process = ProcessOf(t)

\* A free thread has no operation; a busy thread has exactly one, in its inbox,
\* at its worker or among the completions, under the thread's process.
OneCarrier(t) ==
    /\ InInbox(t)       => ~InWorker(t) /\ ~InCompletions(t)
    /\ InWorker(t)      => ~InCompletions(t)
    /\ ThreadFree(ctx, t) <=> ~InInbox(t) /\ ~InWorker(t) /\ ~InCompletions(t)
    /\ InInbox(t)  => inbox[t].process = ProcessOf(t)
    /\ InWorker(t) => held[t].process = ProcessOf(t)

CompletionsOwned ==
    /\ \A i, j \in DOMAIN completions :
         completions[i].process = completions[j].process => i = j
    /\ \A i \in DOMAIN completions :
         \E t \in Threads : completions[i].process = ProcessOf(t)

\* Operations are neither lost nor duplicated on their way through the queues,
\* and always bear the process their thread has in the context: the main
\* loop's set of free threads is exact although workers take and answer
\* operations concurrently with it.
OneOpPerBusyThread ==
    Scheduling => CompletionsOwned /\ \A t \in Threads : OneCarrier(t)

\* The counter that decides when the run may end is exact: the number of busy
\* threads, so "exhausted and nothing outstanding" cannot be believed early.
OutstandingExact ==
    Scheduling => outstanding = Cardinality(Indices \ ctx.free)

\* No .put of the main thread ever blocks: the inbox it dispatches to is empty,
\* and so are all inboxes when it sends the exit messages.
MainPutsNeverBlock ==
    /\ loop = "put"  => inbox[StagedThread] = None
    /\ loop = "exit" => \A t \in unsignalled : inbox[t] = None

-----------------------------------------------------------------------------
(* The inductive invariant the proofs rest on. *)

\* A worker holds an operation exactly while it evaluates or answers it.
HeldWhileEvaluating ==
    \A t \in Threads :
      held[t] # None <=> wpc[t] \in {"eval", "reply", "crash"}

\* The operation about to be put is for a process of a free thread.
StagedIsDispatchable ==
    loop = "put" => /\ staged # None
                    /\ staged.process \in DOMAIN ctx.processThread
                    /\ ThreadFree(ctx, StagedThread)

\* A client thread runs processes congruent to its own number, which is why
\* renumbering one thread never collides with another.
ProcessNumbering ==
    Scheduling =>
      /\ ProcessOf(Nemesis) = Nemesis
      /\ \A t \in ClientThreads :
           /\ ProcessOf(t) \in Nat
           /\ \E k \in 0 .. ProcessOf(t) : ProcessOf(t) = t + k * Concurrency

\* Nobody is interrupted before the catch block is reached.
NoInterruptsYet == Scheduling => \A t \in Threads : ~interrupted[t]

SchedulingInv ==
    /\ TypeOK
    /\ HeldWhileEvaluating
    /\ StagedIsDispatchable
    /\ ProcessNumbering
    /\ NoInterruptsYet
    /\ ProcessMapsAgree
    /\ OneOpPerBusyThread
    /\ OutstandingExact
    /\ MainPutsNeverBlock

-----------------------------------------------------------------------------
(* Clients. *)

\* A client is invoked only while open, and only by the process it was opened
\* for unless it is reusable: whatever mix of failed opens, failed closes and
\* crashes came before, no operation reaches a nil or a stranger's client.
ClientsBelongToProcesses ==
    \A t \in ClientThreads :
      Invoking(t) /\ ~NeedsClient(t) =>
        /\ client[t] # None
        /\ <<t, client[t]>> \in conns
        /\ Reusable \/ client[t] = held[t].process

\* Every connection open at the database is the client of the worker that
\* opened it, so the worker's finally block can close it; and once run! has
\* returned none is open.
NoConnectionLeaks ==
    /\ conns = {<<t, client[t]>> : t \in {u \in Threads : client[u] # None}}
    /\ loop = "returned" => conns = {}

-----------------------------------------------------------------------------
(* The inductive invariants for the clients and for the end of a run. *)

\* A worker is handed and evaluates operations of the process its thread has
\* in the context, also when nothing is scheduled any more.
WorksForItsProcess(t) ==
    /\ inbox[t] \notin {None, Exit} => inbox[t].process = ProcessOf(t)
    /\ held[t] # None => held[t].process = ProcessOf(t)

\* The process field of a ClientWorker is the last process a client was opened
\* for.  It never runs ahead of the thread's process, and a worker that has
\* lost its client is still behind: the next operation opens one.
ProcessFieldLags(t) ==
    /\ client[t] # None => client[t] = wprocess[t]
    /\ wpc[t] = "done" => client[t] = None
    /\ t # Nemesis => ProcessOf(t) \in Nat
    /\ wprocess[t] # None => wprocess[t] \in 0 .. ProcessOf(t)
    /\ wprocess[t] # None /\ client[t] = None /\ wpc[t] # "done" =>
         wprocess[t] # ProcessOf(t)

ClientInv ==
    /\ \A t \in Threads : WorksForItsProcess(t) /\ ProcessFieldLags(t)
    /\ client[Nemesis] = None /\ wprocess[Nemesis] = None
    /\ conns = {<<t, client[t]>> : t \in {u \in Threads : client[u] # None}}

\* No worker leaves its loop before the main thread sends the exit messages,
\* and from then on nothing is under way: a worker waits for its message or
\* has taken it.
LeavingInOrder ==
    /\ Scheduling => \A t \in Threads : wpc[t] \notin {"close", "done", "failed"}
    /\ loop \in {"exit", "join", "returned"} =>
         /\ completions = << >>
         /\ \A t \in Threads :
              /\ held[t] = None
              /\ ~interrupted[t]
              /\ t \in unsignalled => wpc[t] = "take"
              /\ inbox[t] # None =>
                   inbox[t] = Exit /\ wpc[t] = "take" /\ t \notin unsignalled
    /\ loop = "returned" => \A t \in Threads : wpc[t] = "done"

-----------------------------------------------------------------------------
(* The history. *)

\* A client's completion, as the history shows it.
CompletesClientOp(entry) == entry.process # Nemesis /\ entry.type # "invoke"

\* The journal's indices are 0, 1, 2 ..., which the :dense-indices? history
\* built from it relies on; and a client's completion is dated when it is
\* journaled: no entry before it is of a later time, so no operation takes a
\* negative time, although an invocation bears the time its generator gave it
\* and may be older than its predecessors.
HistoryDenseAndTimed ==
    /\ opIndex = Len(history)
    /\ \A i \in DOMAIN history : history[i].index = i - 1
    /\ \A i, j \in DOMAIN history :
         i < j /\ CompletesClientOp(history[j]) =>
           history[i].time <= history[j].time

\* The inductive form: no entry is of a time the clock has not reached.
JournalInv ==
    /\ HistoryDenseAndTimed
    /\ \A i \in DOMAIN history : history[i].time <= now

\* The state of each process as the history alone shows it.
EntriesOf(p)  == {i \in DOMAIN history : history[i].process = p}
Seen          == {history[i].process : i \in DOMAIN history}
LastOf(p)     == history[CHOOSE i \in EntriesOf(p) :
                           \A j \in EntriesOf(p) : j <= i]
RunningIn(p)  == IF p = Nemesis THEN Cardinality(EntriesOf(p)) % 2 = 1
                                ELSE LastOf(p).type = "invoke"
RetiredIn(p)  == p # Nemesis /\ \E i \in EntriesOf(p) :
                   history[i].type = "info" \/ history[i].end
HRunning      == {p \in Seen : RunningIn(p)}
HRetired      == {p \in Seen : RetiredIn(p)}
HIdle         == (Threads \cup {p + Concurrency : p \in HRetired})
                   \ (HRunning \cup HRetired)

\* The history the main loop writes is a behaviour of ProcessHistory: each
\* process alternates invocations and completions, and a client process is
\* silent for ever after an :info completion.
HistoryOfProcesses == INSTANCE ProcessHistory
                        WITH idle <- HIdle, running <- HRunning,
                             retired <- HRetired
RefinesProcessHistory == HistoryOfProcesses!Spec

\* When run! returns, every invocation in the history has its completion and
\* every worker has finished.
NothingPendingOnReturn ==
    loop = "returned" =>
      /\ HRunning = {}
      /\ completions = << >>
      /\ \A t \in Threads : inbox[t] = None /\ wpc[t] = "done"

-----------------------------------------------------------------------------
(* The inductive invariant that links the history to the queues. *)

IsInvocation(op) == op.type \in InvocationTypes(op.process) /\ ~op.end
IsCompletion(op) == op.type # "invoke" /\ (GoesInHistory(op) \/ ~op.end)

\* What the link needs: no control operation crashes, for its :info would be
\* the completion of an invocation the history does not have.
ControlsDoNotCrash == Controls = {} \/ "sleep" \notin Faults

\* While operations are scheduled, what travels to a worker is an invocation
\* and what travels back a completion; only what was journaled can crash.
OpsKeepTheirKind ==
    Scheduling =>
      /\ loop = "put" => IsInvocation(staged)
      /\ \A t \in Threads :
           /\ inbox[t] # None   => IsInvocation(inbox[t])
           /\ wpc[t] = "eval"   => IsInvocation(held[t])
           /\ wpc[t] = "reply"  => IsCompletion(held[t])
           /\ wpc[t] = "crash"  => GoesInHistory(held[t])
      /\ \A i \in DOMAIN completions : IsCompletion(completions[i])

\* The invocation a thread is busy with, wherever it is, was journaled.
Journaled(t) ==
    \/ loop = "put" /\ staged.process = ProcessOf(t) /\ GoesInHistory(staged)
    \/ inbox[t] # None /\ GoesInHistory(inbox[t])
    \/ held[t] # None /\ GoesInHistory(held[t])
    \/ \E i \in DOMAIN completions : /\ completions[i].process = ProcessOf(t)
                                    /\ GoesInHistory(completions[i])

\* The history shows a process running exactly when its thread is busy with a
\* journaled invocation; the current process of a thread is not retired and
\* follows on retired ones; and no later process of a thread has been seen.
HistoryMatchesThreads ==
    Scheduling =>
      /\ \A t \in Threads : ProcessOf(t) \in HRunning <=> Journaled(t)
      /\ HRunning \subseteq {ProcessOf(t) : t \in Threads}
      /\ \A t \in Threads :
           /\ ProcessOf(t) \notin HRetired
           /\ ProcessOf(t) \in Threads \cup {p + Concurrency : p \in HRetired}
      /\ \A p \in Seen \ {Nemesis} : \E t \in ClientThreads :
           p <= ProcessOf(t) /\ \E k \in 0 .. p : p = t + k * Concurrency

\* Every process of the history has a last entry.
LastEntriesExist ==
    \A p \in Seen : \E i \in EntriesOf(p) : \A j \in EntriesOf(p) : j <= i

HistoryInv ==
    /\ LastEntriesExist
    /\ OpsKeepTheirKind
    /\ HistoryMatchesThreads
    /\ loop \in {"exit", "join", "returned"} => HRunning = {}

-----------------------------------------------------------------------------
(* Progress. *)

\* The run ends: run! returns, or throws when something it called threw.
RunEnds == <>(loop \in {"returned", "threw"})

\* "We've thrown, but we still need to ensure the workers exit": after run!
\* has thrown, every worker's thread ends.
WorkersExitAfterThrow ==
    (loop = "threw") ~> (\A t \in Threads : Finished(t))
=============================================================================
