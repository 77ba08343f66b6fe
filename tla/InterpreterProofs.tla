------------------------- MODULE InterpreterProofs -------------------------
(***************************************************************************)
(* Proofs, for every number of clients and every behaviour of the          *)
(* generator, the clients and the nemesis: the interpreter keeps an exact  *)
(* picture of its workers; their clients belong to the processes they are  *)
(* invoked by, and no connection is leaked; a run that returns has left    *)
(* nothing under way; the history's indices are dense and a client's       *)
(* completion is dated no earlier than the entries before it; and, unless  *)
(* a control operation crashes, the history is a behaviour of              *)
(* ProcessHistory.                                                         *)
(***************************************************************************)
EXTENDS InterpreterProperties, ContextProofs, FiniteSetTheorems, TLAPS

(***************************************************************************)
(* Part 1: the main loop and the workers.                                  *)
(***************************************************************************)

-----------------------------------------------------------------------------
(* The initial states. *)

LEMMA InitSchedulingInv == Init => SchedulingInv
<1>. SUFFICES ASSUME Init PROVE SchedulingInv
  OBVIOUS
<1>c. /\ IsContext(ctx)
      /\ ctx.free = Indices
      /\ ctx.processThread = [p \in Threads |-> p]
      /\ \A t \in Threads : ProcessOf(t) = t
  BY InitialContextFields DEF Init, ProcessOf
<1>1. TypeOK
  BY <1>c, InterpreterAssumption
     DEF Init, TypeOK, LoopStates, WorkerStates
<1>2. HeldWhileEvaluating /\ StagedIsDispatchable /\ NoInterruptsYet
      /\ MainPutsNeverBlock
  BY DEF Init, HeldWhileEvaluating, StagedIsDispatchable, NoInterruptsYet,
         MainPutsNeverBlock, Scheduling
<1>3. ProcessNumbering
  <2>1. Nemesis \in Threads /\ ClientThreads \subseteq Threads
    BY DEF Threads
  <2>2. \A t \in ClientThreads : t \in Nat /\ 0 \in 0 .. t
                                 /\ t = t + 0 * Concurrency
    BY ContextAssumption DEF ClientThreads
  <2>. QED  BY <1>c, <2>1, <2>2 DEF ProcessNumbering
<1>4. ProcessMapsAgree
  <2>1. {ctx.threadProcess[i] : i \in Indices} = Threads
    BY <1>c, ThreadIndices DEF ProcessOf, ThreadToProcess
  <2>. QED  BY <1>c, <2>1 DEF ProcessMapsAgree
<1>5. OneOpPerBusyThread
  BY <1>c, ThreadIndices
     DEF Init, OneOpPerBusyThread, OneCarrier, CompletionsOwned, InInbox,
         InWorker, InCompletions, ThreadFree
<1>6. OutstandingExact
  <2>1. Indices \ ctx.free = {}
    BY <1>c
  <2>. QED  BY <2>1, FS_EmptySet DEF Init, OutstandingExact
<1>. QED
  BY <1>1, <1>2, <1>3, <1>4, <1>5, <1>6 DEF SchedulingInv

-----------------------------------------------------------------------------
(* Looking up threads and processes. *)

\* While scheduling, the maps of the context are inverse to each other.
LEMMA ContextIsNumbered ==
    ASSUME SchedulingInv, Scheduling
    PROVE  Numbered(ctx)
  BY DEF SchedulingInv, TypeOK, ProcessNumbering, ProcessMapsAgree, ProcessOf, Numbered

\* While scheduling, processes and threads are in one-to-one correspondence.
LEMMA ProcessOwners ==
    ASSUME SchedulingInv, Scheduling
    PROVE  /\ \A t \in Threads : /\ ProcessOf(t) \in DOMAIN ctx.processThread
                                 /\ ProcessOf(t) \in Processes
                                 /\ ProcessToThread(ctx, ProcessOf(t)) = t
           /\ \A p \in DOMAIN ctx.processThread :
                /\ ProcessToThread(ctx, p) \in Threads
                /\ ProcessOf(ProcessToThread(ctx, p)) = p
<1>1. /\ DOMAIN ctx.processThread = {ctx.threadProcess[i] : i \in Indices}
      /\ \A t \in Threads : ctx.processThread[ProcessOf(t)] = t
  BY DEF SchedulingInv, ProcessMapsAgree
<1>2. \A t \in Threads : /\ ProcessOf(t) \in DOMAIN ctx.processThread
                         /\ ProcessOf(t) \in Processes
  BY <1>1, ThreadIndices
     DEF ProcessOf, ThreadToProcess, SchedulingInv, TypeOK, IsContext
<1>3. ASSUME NEW p \in DOMAIN ctx.processThread
      PROVE  \E t \in Threads : p = ProcessOf(t)
  <2>1. PICK i \in Indices : p = ctx.threadProcess[i]
    BY <1>1
  <2>. QED
    BY <2>1, ThreadIndices DEF ProcessOf, ThreadToProcess
<1>. QED
  BY <1>1, <1>2, <1>3 DEF ProcessToThread

\* A completion's process is found, and is the one its thread is running.
LEMMA CompletionOwner ==
    ASSUME SchedulingInv, loop = "poll", completions # << >>
    PROVE  LET op == Head(completions)
               t  == ProcessToThread(ctx, op.process)
           IN /\ op \in Ops
              /\ t \in Threads
              /\ op.process = ProcessOf(t)
              /\ op = completions[1] /\ 1 \in DOMAIN completions
<1>1. Scheduling
  BY DEF Scheduling
<1>2. /\ Head(completions) \in Ops
      /\ Head(completions) = completions[1]
      /\ 1 \in DOMAIN completions
  BY DEF SchedulingInv, TypeOK
<1>3. PICK t \in Threads : completions[1].process = ProcessOf(t)
  BY <1>1, <1>2 DEF SchedulingInv, OneOpPerBusyThread, CompletionsOwned
<1>. QED
  BY <1>1, <1>2, <1>3, ProcessOwners

\* So is the process of the operation that is about to be put.
LEMMA StagedOwner ==
    ASSUME SchedulingInv, loop = "put"
    PROVE  /\ staged \in Ops
           /\ StagedThread \in Threads
           /\ staged.process = ProcessOf(StagedThread)
           /\ ThreadFree(ctx, StagedThread)
<1>1. Scheduling
  BY DEF Scheduling
<1>2. staged \in Ops /\ staged.process \in DOMAIN ctx.processThread
      /\ ThreadFree(ctx, StagedThread)
  BY DEF SchedulingInv, TypeOK, StagedIsDispatchable
<1>. QED
  BY <1>1, <1>2, ProcessOwners DEF StagedThread

\* The generator's operation is a well-formed one, for the process of a thread.
LEMMA GeneratedOp ==
    ASSUME SchedulingInv, loop = "ask",
           NEW p \in DOMAIN ctx.processThread, NEW type \in InvocationTypes(p),
           NEW time \in 0 .. now
    PROVE  Op(p, type, time) \in Ops
<1>1. p \in Processes
  BY ProcessOwners DEF Scheduling
<1>2. type \in OpTypes
  BY InterpreterAssumption DEF InvocationTypes, OpTypes
<1>3. time \in Nat
  BY DEF SchedulingInv, TypeOK
<1>. QED
  BY <1>1, <1>2, <1>3 DEF Op, Ops

\* Journalling an operation keeps the history and the index well typed.
LEMMA JournalTypes ==
    ASSUME TypeOK, NEW op \in Ops, NEW time \in Nat, Journal(op, time)
    PROVE  history' \in Seq(Entries) /\ opIndex' \in Nat
<1>1. history \in Seq(Entries) /\ opIndex \in Nat
  BY DEF TypeOK
<1>. DEFINE entry == [index |-> opIndex, process |-> op.process,
                      type |-> op.type, time |-> time, end |-> op.end]
<1>2. entry \in Entries
  BY <1>1 DEF Ops, Entries
<1>. HIDE DEF entry
<1>3. Append(history, entry) \in Seq(Entries)
  BY <1>1, <1>2
<1>4. \/ history' = Append(history, entry) /\ opIndex' = opIndex + 1
      \/ history' = history /\ opIndex' = opIndex
  BY Zenon DEF Journal, entry
<1>. QED
  BY <1>1, <1>3, <1>4

-----------------------------------------------------------------------------
(* Type correctness of a step. *)

\* Every step of the main thread keeps the types.
LEMMA MainTypes ==
    ASSUME SchedulingInv, Main
    PROVE  TypeOK' /\ HeldWhileEvaluating'
<1>. USE DEF SchedulingInv, mainVars, workerVars, clientVars
<1>1. CASE PollCompletion
  <2>. DEFINE op == Head(completions)
              t  == ProcessToThread(ctx, op.process)
              freed == FreeThread(ctx, now, t)
  <2>1. op \in Ops /\ t \in Threads
    BY <1>1, CompletionOwner DEF PollCompletion
  <2>2. IsContext(freed)
    BY <2>1, FreeFields DEF TypeOK
  <2>3. IsContext(WithNextProcess(freed, t))
    BY <2>1, <2>2, NextProcessFields
  <2>4. IsContext(ctx')
    BY <1>1, <2>2, <2>3 DEF PollCompletion
  <2>5. history' \in Seq(Entries) /\ opIndex' \in Nat
    BY <1>1, <2>1, JournalTypes DEF PollCompletion, TypeOK
  <2>6. completions' \in Seq(Ops)
    BY <1>1 DEF PollCompletion, TypeOK
  <2>. QED
    BY <1>1, <2>4, <2>5, <2>6 DEF PollCompletion, TypeOK, HeldWhileEvaluating
<1>2. CASE PollEmpty
  BY <1>2 DEF PollEmpty, TypeOK, HeldWhileEvaluating, LoopStates
<1>3. CASE PollThrows
  <2>1. completions' \in Seq(Ops)
    BY <1>3 DEF PollThrows, TypeOK
  <2>. QED
    BY <1>3, <2>1
       DEF PollThrows, Abort, TypeOK, HeldWhileEvaluating, LoopStates
<1>4. CASE AskAgain
  <2>1. IsContext(ctx')
    BY <1>4, TimeFields DEF AskAgain, TypeOK
  <2>. QED
    BY <1>4, <2>1 DEF AskAgain, TypeOK, HeldWhileEvaluating, LoopStates
<1>5. CASE AskOp
  <2>0. PICK p \in DOMAIN ctx.processThread :
          \E type \in InvocationTypes(p), time \in 0 .. now :
            staged' = Op(p, type, time) /\ Journal(Op(p, type, time), time)
    BY <1>5 DEF AskOp
  <2>1. PICK type \in InvocationTypes(p), time \in 0 .. now :
          staged' = Op(p, type, time) /\ Journal(Op(p, type, time), time)
    BY <2>0
  <2>2. Op(p, type, time) \in Ops /\ time \in Nat
    BY <1>5, GeneratedOp DEF AskOp
  <2>3. history' \in Seq(Entries) /\ opIndex' \in Nat
    BY <2>1, <2>2, JournalTypes DEF TypeOK
  <2>4. IsContext(ctx')
    BY <1>5, TimeFields DEF AskOp, TypeOK
  <2>5. budget' \in 0 .. MaxOps
    BY <1>5, InterpreterAssumption DEF AskOp, TypeOK
  <2>6. staged' \in Ops
    BY <2>1, <2>2
  <2>. QED
    BY <1>5, <2>3, <2>4, <2>5, <2>6
       DEF AskOp, TypeOK, HeldWhileEvaluating, LoopStates
<1>6. CASE AskExit
  <2>1. IsContext(ctx')
    BY <1>6, TimeFields DEF AskExit, TypeOK
  <2>. QED
    BY <1>6, <2>1 DEF AskExit, TypeOK, HeldWhileEvaluating, LoopStates
<1>7. CASE AskThrows
  BY <1>7 DEF AskThrows, Abort, TypeOK, HeldWhileEvaluating, LoopStates
<1>8. ASSUME PutStaged
      PROVE  /\ inbox' \in [Threads -> Ops \cup {None, Exit}]
             /\ staged' \in Ops \cup {None}
             /\ IsContext(BusyThread(ctx, staged.time, StagedThread))
  <2>1. staged \in Ops /\ StagedThread \in Threads
    BY <1>8, StagedOwner DEF PutStaged
  <2>2. staged.time \in Nat
    BY <2>1 DEF Ops
  <2>. QED
    BY <1>8, <2>1, <2>2, BusyFields DEF PutStaged, TypeOK
<1>9. CASE Dispatch
  BY <1>8, <1>9 DEF Dispatch, TypeOK, HeldWhileEvaluating, LoopStates
<1>10. CASE DispatchThrows
  BY <1>8, <1>10
     DEF DispatchThrows, Abort, TypeOK, HeldWhileEvaluating, LoopStates
<1>11. CASE SendExit
  BY <1>11 DEF SendExit, TypeOK, HeldWhileEvaluating, LoopStates
<1>12. CASE JoinAll
  BY <1>12 DEF JoinAll, TypeOK, HeldWhileEvaluating, LoopStates
<1>13. CASE JoinThrows
  BY <1>13 DEF JoinThrows, Abort, TypeOK, HeldWhileEvaluating, LoopStates
<1>14. CASE Cancel
  BY <1>14 DEF Cancel, Finished, TypeOK, HeldWhileEvaluating, LoopStates
<1>15. CASE Reap
  BY <1>15 DEF Reap, TypeOK, HeldWhileEvaluating, LoopStates
<1>. QED
  BY <1>1, <1>2, <1>3, <1>4, <1>5, <1>6, <1>7, <1>9, <1>10, <1>11, <1>12,
     <1>13, <1>14, <1>15 DEF Main

\* Every step of a worker keeps the types.
LEMMA WorkerTypes ==
    ASSUME SchedulingInv, NEW t \in Threads, Worker(t)
    PROVE  TypeOK' /\ HeldWhileEvaluating'
<1>. USE DEF SchedulingInv, mainVars, workerVars, clientVars
<1>h. /\ held[t] # None => held[t] \in Ops
      /\ inbox[t] # None => inbox[t] = Exit \/ inbox[t] \in Ops
      /\ Exit.type = "exit"
      /\ \A op \in Ops : op.type # "exit" /\ op.process \in Processes
      /\ \A op \in Ops, type \in OpTypes, end \in BOOLEAN :
           [op EXCEPT !.type = type, !.end = end] \in Ops
  BY DEF TypeOK, Exit, Op, Ops, OpTypes
<1>i. ASSUME NEW fault, Throws(t, fault)
      PROVE  interrupted' \in [Threads -> BOOLEAN]
  BY <1>i DEF Throws, TypeOK
<1>1. CASE Take(t)
  <2>1. CASE inbox[t].type = "exit"
    BY <1>1, <2>1, <1>h
       DEF Take, TypeOK, HeldWhileEvaluating, WorkerStates
  <2>2. CASE inbox[t].type # "exit"
    <3>1. inbox[t] \in Ops /\ inbox[t] # None
      BY <1>1, <2>2, <1>h DEF Take
    <3>. QED
      BY <1>1, <2>2, <3>1
         DEF Take, TypeOK, HeldWhileEvaluating, WorkerStates
  <2>. QED  BY <2>1, <2>2
<1>2. CASE TakeInterrupted(t)
  BY <1>2 DEF TakeInterrupted, TypeOK, HeldWhileEvaluating, WorkerStates
<1>3. CASE Control(t)
  BY <1>3 DEF Control, TypeOK, HeldWhileEvaluating, WorkerStates
<1>4. CASE ControlThrows(t)
  BY <1>4, <1>i DEF ControlThrows, TypeOK, HeldWhileEvaluating, WorkerStates
<1>5. CASE CloseOld(t)
  BY <1>5 DEF CloseOld, CloseClient, TypeOK, HeldWhileEvaluating
<1>6. CASE CloseOldThrows(t)
  BY <1>6, <1>i
     DEF CloseOldThrows, Invoking, TypeOK, HeldWhileEvaluating, WorkerStates
<1>7. CASE OpenClient(t)
  <2>1. held[t] \in Ops /\ held[t].process \in Processes
    BY <1>7, <1>h DEF OpenClient, Invoking, HeldWhileEvaluating
  <2>. QED
    BY <1>7, <2>1 DEF OpenClient, TypeOK, HeldWhileEvaluating
<1>8. ASSUME NEW type \in OpTypes, NEW end \in BOOLEAN,
             wpc[t] = "eval", Answer(t, type, end)
      PROVE  /\ held' \in [Threads -> Ops \cup {None}]
             /\ wpc' \in [Threads -> WorkerStates]
             /\ HeldWhileEvaluating'
  <2>1. held[t] \in Ops
    BY <1>8, <1>h DEF HeldWhileEvaluating
  <2>2. held' = [held EXCEPT ![t] = [held[t] EXCEPT !.type = type, !.end = end]]
    BY <1>8, <2>1 DEF Answer, TypeOK
  <2>3. held' = [held EXCEPT ![t] = held'[t]] /\ held'[t] \in Ops
    BY <2>1, <2>2, <1>h DEF TypeOK
  <2>4. held'[t] # None
    BY <2>3, NoneIsNoOp
  <2>. QED
    BY <1>8, <2>3, <2>4 DEF Answer, TypeOK, HeldWhileEvaluating, WorkerStates
<1>9. CASE OpenFails(t)
  <2>1. "fail" \in OpTypes /\ FALSE \in BOOLEAN
    BY DEF OpTypes
  <2>. QED
    BY <1>9, <1>8, <1>i, <2>1 DEF OpenFails, Invoking, TypeOK
<1>o. CASE OpenCrashes(t)
  BY <1>o DEF OpenCrashes, Invoking, TypeOK, HeldWhileEvaluating, WorkerStates
<1>10. CASE Invoke(t)
  <2>1. PICK type \in OpTypes, end \in BOOLEAN : Answer(t, type, end)
    BY <1>10, InterpreterAssumption DEF Invoke, OpTypes
  <2>. QED
    BY <1>10, <1>8, <2>1 DEF Invoke, Invoking, TypeOK
<1>11. CASE InvokeThrows(t)
  BY <1>11, <1>i
     DEF InvokeThrows, Invoking, TypeOK, HeldWhileEvaluating, WorkerStates
<1>12. ASSUME NEW op \in Ops, PutCompletion(t, op),
              wpc[t] \in {"reply", "crash"}
       PROVE  TypeOK' /\ HeldWhileEvaluating'
  BY <1>12 DEF PutCompletion, TypeOK, HeldWhileEvaluating, WorkerStates
<1>13. CASE Reply(t)
  <2>1. held[t] \in Ops
    BY <1>13, <1>h DEF Reply, HeldWhileEvaluating
  <2>. QED  BY <1>13, <1>12, <2>1 DEF Reply
<1>14. CASE ReplyCrash(t)
  <2>1. held[t] \in Ops /\ "info" \in OpTypes /\ FALSE \in BOOLEAN
    BY <1>14, <1>h DEF ReplyCrash, HeldWhileEvaluating, OpTypes
  <2>. QED  BY <1>14, <1>12, <1>h, <2>1 DEF ReplyCrash
<1>15. CASE ReplyInterrupted(t)
  BY <1>15 DEF ReplyInterrupted, TypeOK, HeldWhileEvaluating, WorkerStates
<1>16. CASE Close(t)
  BY <1>16 DEF Close, CloseClient, TypeOK, HeldWhileEvaluating, WorkerStates
<1>17. CASE CloseThrows(t)
  BY <1>17, <1>i DEF CloseThrows, TypeOK, HeldWhileEvaluating, WorkerStates
<1>. QED
  BY <1>1, <1>2, <1>3, <1>4, <1>5, <1>6, <1>7, <1>9, <1>o, <1>10, <1>11,
     <1>13, <1>14, <1>15, <1>16, <1>17 DEF Worker

-----------------------------------------------------------------------------
(* A step of a worker keeps the picture exact. *)

\* A step that moves no operation.
LEMMA LocalStep ==
    ASSUME SchedulingInv,
           UNCHANGED <<mainVars, inbox, completions>>,
           \A u \in Threads : /\ held'[u] # None <=> held[u] # None
                              /\ held[u] # None =>
                                   held'[u].process = held[u].process
    PROVE  OneOpPerBusyThread'
<1>. SUFFICES ASSUME Scheduling' PROVE OneOpPerBusyThread'
  BY DEF OneOpPerBusyThread
<1>1. Scheduling /\ ctx' = ctx
  BY DEF Scheduling, mainVars
<1>2. CompletionsOwned'
  BY <1>1
     DEF SchedulingInv, OneOpPerBusyThread, CompletionsOwned, ProcessOf
<1>3. ASSUME NEW u \in Threads PROVE OneCarrier(u)'
  BY <1>1
     DEF SchedulingInv, OneOpPerBusyThread, OneCarrier, InInbox, InWorker,
         InCompletions, ProcessOf
<1>. QED
  BY <1>2, <1>3 DEF OneOpPerBusyThread

\* A worker takes an operation.
LEMMA TakeStep ==
    ASSUME SchedulingInv, NEW t \in Threads, Take(t)
    PROVE  OneOpPerBusyThread'
<1>. SUFFICES ASSUME Scheduling' PROVE OneOpPerBusyThread'
  BY DEF OneOpPerBusyThread
<1>1. Scheduling /\ ctx' = ctx /\ completions' = completions
  BY DEF Take, Scheduling, mainVars
<1>2. inbox[t].process = ProcessOf(t) /\ inbox[t] # None
  BY <1>1 DEF Take, SchedulingInv, OneOpPerBusyThread, OneCarrier, InInbox
<1>3. inbox[t] \in Ops /\ inbox[t].type # "exit"
  <2>1. ProcessOf(t) \in Processes /\ None \notin Processes
    BY <1>1, ProcessOwners, ContextAssumption DEF Processes
  <2>2. inbox[t] # Exit
    BY <1>2, <2>1 DEF Exit, Op
  <2>3. inbox[t] \in Ops
    BY <1>2, <2>2 DEF SchedulingInv, TypeOK
  <2>. QED
    BY <2>3 DEF Ops, OpTypes
<1>4. /\ inbox' = [inbox EXCEPT ![t] = None]
      /\ held' = [held EXCEPT ![t] = inbox[t]]
  BY <1>3 DEF Take
<1>5. CompletionsOwned'
  BY <1>1
     DEF SchedulingInv, OneOpPerBusyThread, CompletionsOwned, ProcessOf
<1>6. ASSUME NEW u \in Threads PROVE OneCarrier(u)'
  BY <1>1, <1>2, <1>4
     DEF SchedulingInv, TypeOK, OneOpPerBusyThread, OneCarrier, InInbox,
         InWorker, InCompletions, ProcessOf
<1>. QED
  BY <1>5, <1>6 DEF OneOpPerBusyThread

\* A worker answers an operation.
LEMMA PutStep ==
    ASSUME SchedulingInv, NEW t \in Threads, NEW op \in Ops,
           held[t] # None, op.process = held[t].process, PutCompletion(t, op)
    PROVE  OneOpPerBusyThread'
<1>. SUFFICES ASSUME Scheduling' PROVE OneOpPerBusyThread'
  BY DEF OneOpPerBusyThread
<1>1. Scheduling /\ ctx' = ctx /\ inbox' = inbox
  BY DEF PutCompletion, Scheduling, mainVars
<1>2. op.process = ProcessOf(t) /\ ~InInbox(t) /\ ~InCompletions(t)
  BY <1>1 DEF SchedulingInv, OneOpPerBusyThread, OneCarrier, InWorker
<1>. DEFINE n == Len(completions) + 1
<1>3. /\ n \in Nat
      /\ DOMAIN completions = 1 .. n - 1 /\ n \notin DOMAIN completions
      /\ DOMAIN completions' = DOMAIN completions \cup {n}
      /\ completions'[n] = op
      /\ \A i \in DOMAIN completions : completions'[i] = completions[i]
  BY DEF PutCompletion, SchedulingInv, TypeOK
<1>. HIDE DEF n
<1>4. held' = [held EXCEPT ![t] = None]
  BY DEF PutCompletion
<1>5. CompletionsOwned'
  BY <1>1, <1>2, <1>3
     DEF SchedulingInv, OneOpPerBusyThread, CompletionsOwned, ProcessOf,
         InCompletions
<1>6. ASSUME NEW u \in Threads
      PROVE  InCompletions(u)' <=> InCompletions(u) \/ u = t
  BY <1>1, <1>2, <1>3, ProcessOwners DEF InCompletions, ProcessOf
<1>7. ASSUME NEW u \in Threads PROVE OneCarrier(u)'
  BY <1>1, <1>2, <1>4, <1>6
     DEF SchedulingInv, TypeOK, OneOpPerBusyThread, OneCarrier, InInbox,
         InWorker, ProcessOf
<1>. QED
  BY <1>5, <1>7 DEF OneOpPerBusyThread

\* Every step of a worker keeps the invariant.
LEMMA WorkerStep ==
    ASSUME SchedulingInv, NEW t \in Threads, Worker(t)
    PROVE  SchedulingInv'
<1>1. TypeOK' /\ HeldWhileEvaluating'
  BY WorkerTypes
<1>2. UNCHANGED mainVars
  BY DEF Worker, Take, TakeInterrupted, Control, ControlThrows, CloseOld,
         CloseOldThrows, OpenClient, OpenFails, OpenCrashes, Invoke,
         InvokeThrows, Reply, ReplyCrash, ReplyInterrupted, PutCompletion,
         Close, CloseThrows
<1>3. /\ ctx' = ctx /\ loop' = loop /\ staged' = staged
      /\ outstanding' = outstanding /\ unsignalled' = unsignalled
      /\ history' = history /\ opIndex' = opIndex
      /\ Scheduling' = Scheduling
  BY <1>2 DEF mainVars, Scheduling
<1>4. StagedIsDispatchable' /\ ProcessNumbering' /\ ProcessMapsAgree'
      /\ OutstandingExact'
  BY <1>3 DEF SchedulingInv, StagedIsDispatchable, StagedThread,
              ProcessNumbering, ProcessMapsAgree, OutstandingExact, ProcessOf
<1>5. \A u \in Threads : interrupted'[u] => interrupted[u]
  BY DEF Worker, Take, TakeInterrupted, Control, ControlThrows, CloseOld,
         CloseOldThrows, OpenClient, OpenFails, OpenCrashes, Invoke,
         InvokeThrows, Reply, ReplyCrash, ReplyInterrupted, PutCompletion,
         Close, CloseThrows, Throws, SchedulingInv, TypeOK
<1>6. NoInterruptsYet'
  BY <1>3, <1>5 DEF SchedulingInv, NoInterruptsYet
<1>7. \A u \in Threads : inbox[u] = None => inbox'[u] = None
  BY DEF Worker, Take, TakeInterrupted, Control, ControlThrows, CloseOld,
         CloseOldThrows, OpenClient, OpenFails, OpenCrashes, Invoke,
         InvokeThrows, Reply, ReplyCrash, ReplyInterrupted, PutCompletion,
         Close, CloseThrows, SchedulingInv, TypeOK
<1>8. MainPutsNeverBlock'
  <2>1. loop = "put" => StagedThread \in Threads /\ StagedThread' = StagedThread
    BY <1>3, StagedOwner DEF StagedThread
  <2>2. unsignalled \subseteq Threads
    BY DEF SchedulingInv, TypeOK
  <2>. QED
    BY <1>3, <1>7, <2>1, <2>2 DEF SchedulingInv, MainPutsNeverBlock
<1>9. OneOpPerBusyThread'
  <2>. USE DEF SchedulingInv
  <2>h. held[t] # None => held[t] \in Ops
    BY DEF TypeOK
  <2>1. CASE Take(t)
    BY <2>1, TakeStep
  <2>2. CASE Reply(t)
    <3>1. held[t] # None
      BY <2>2 DEF Reply, HeldWhileEvaluating
    <3>. QED  BY <2>2, <2>h, <3>1, PutStep DEF Reply
  <2>3. CASE ReplyCrash(t)
    <3>. DEFINE op == [held[t] EXCEPT !.type = "info", !.end = FALSE]
    <3>1. held[t] # None
      BY <2>3 DEF ReplyCrash, HeldWhileEvaluating
    <3>2. op \in Ops /\ op.process = held[t].process
      BY <2>h, <3>1 DEF Ops, OpTypes
    <3>. QED  BY <2>3, <3>1, <3>2, PutStep DEF ReplyCrash
  <2>4. CASE TakeInterrupted(t) \/ ReplyInterrupted(t)
    BY <1>3, <2>4
       DEF TakeInterrupted, ReplyInterrupted, NoInterruptsYet,
           OneOpPerBusyThread
  <2>5. CASE \/ Control(t) \/ ControlThrows(t) \/ CloseOld(t)
             \/ CloseOldThrows(t) \/ OpenClient(t) \/ OpenCrashes(t)
             \/ InvokeThrows(t) \/ Close(t) \/ CloseThrows(t)
    <3>1. UNCHANGED <<mainVars, inbox, completions, held>>
      BY <2>5, <1>2 DEF Control, ControlThrows, CloseOld, CloseOldThrows,
           OpenClient, OpenCrashes, InvokeThrows, Close, CloseThrows
    <3>. QED  BY <3>1, LocalStep
  <2>6. CASE OpenFails(t) \/ Invoke(t)
    <3>1. PICK type, end : Answer(t, type, end)
      BY <2>6 DEF OpenFails, Invoke
    <3>2. held[t] \in Ops
      BY <2>6, <2>h DEF OpenFails, Invoke, Invoking, HeldWhileEvaluating
    <3>3. held' = [held EXCEPT ![t] = [held[t] EXCEPT !.type = type, !.end = end]]
      BY <3>1, <3>2 DEF Answer, TypeOK
    <3>4. /\ held'[t].process = held[t].process
          /\ \A u \in Threads \ {t} : held'[u] = held[u]
      BY <3>2, <3>3 DEF TypeOK, Ops
    <3>5. wpc[t] = "eval" /\ wpc'[t] = "reply"
      BY <2>6, <3>1 DEF OpenFails, Invoke, Invoking, Answer, TypeOK
    <3>6. held[t] # None /\ held'[t] # None
      BY <1>1, <3>5 DEF HeldWhileEvaluating
    <3>7. UNCHANGED <<mainVars, inbox, completions>>
      BY <1>2, <2>6 DEF OpenFails, Invoke
    <3>. QED  BY <3>4, <3>6, <3>7, LocalStep
  <2>. QED
    BY <2>1, <2>2, <2>3, <2>4, <2>5, <2>6 DEF Worker
<1>. QED
  BY <1>1, <1>4, <1>6, <1>8, <1>9 DEF SchedulingInv

-----------------------------------------------------------------------------
(* A step of the main thread keeps the picture exact. *)

LEMMA BusyFinite ==
    IsFiniteSet(Indices \ ctx.free)
<1>1. IsFiniteSet(Indices)
  BY ContextAssumption, FS_Interval DEF Indices
<1>. QED
  BY <1>1, FS_Subset

\* The process that follows that of a thread belongs to no thread.
LEMMA NextProcessIsFresh ==
    ASSUME SchedulingInv, Scheduling, NEW t \in ClientThreads
    PROVE  /\ NextProcess(ProcessOf(t)) \in Nat
           /\ \A u \in Threads : NextProcess(ProcessOf(t)) # ProcessOf(u)
           /\ \E k \in 0 .. NextProcess(ProcessOf(t)) :
                NextProcess(ProcessOf(t)) = t + k * Concurrency
  BY ContextIsNumbered, NextIsFresh DEF ProcessOf

\* A context with a new time.
LEMMA TimeStep ==
    ASSUME SchedulingInv, Scheduling, ctx' = WithTime(ctx, now),
           UNCHANGED <<outstanding, inbox, completions, workerVars>>
    PROVE  /\ ProcessNumbering' /\ NoInterruptsYet' /\ ProcessMapsAgree'
           /\ OneOpPerBusyThread' /\ OutstandingExact'
           /\ ctx'.free = ctx.free /\ ctx'.processThread = ctx.processThread
<1>1. /\ ctx'.free = ctx.free
      /\ ctx'.threadProcess = ctx.threadProcess
      /\ ctx'.processThread = ctx.processThread
  BY TimeFields DEF SchedulingInv, TypeOK
<1>2. /\ \A t : ProcessOf(t)' = ProcessOf(t)
      /\ \A t : ThreadFree(ctx, t)' <=> ThreadFree(ctx, t)
  BY <1>1 DEF ProcessOf, ThreadToProcess, ThreadFree
<1>3. ProcessNumbering' /\ NoInterruptsYet' /\ ProcessMapsAgree'
      /\ OutstandingExact'
  BY <1>1, <1>2 DEF SchedulingInv, ProcessNumbering, NoInterruptsYet,
       ProcessMapsAgree, OutstandingExact, workerVars
<1>4. CompletionsOwned'
  BY <1>2 DEF SchedulingInv, OneOpPerBusyThread, CompletionsOwned
<1>5. ASSUME NEW u \in Threads PROVE OneCarrier(u)'
  BY <1>2 DEF SchedulingInv, OneOpPerBusyThread, OneCarrier, InInbox,
       InWorker, InCompletions, workerVars
<1>. QED
  BY <1>1, <1>3, <1>4, <1>5 DEF OneOpPerBusyThread

\* A completion is polled: its thread is freed and perhaps renumbered.
LEMMA CompletionStep ==
    ASSUME SchedulingInv, PollCompletion
    PROVE  /\ ProcessNumbering' /\ NoInterruptsYet' /\ ProcessMapsAgree'
           /\ OneOpPerBusyThread' /\ OutstandingExact'
<1>0. Scheduling /\ Scheduling'
  BY DEF PollCompletion, Scheduling
<1>a. PICK op \in Ops : op = Head(completions)
  BY CompletionOwner DEF PollCompletion
<1>b. PICK t \in Threads : t = ProcessToThread(ctx, op.process)
  BY <1>a, CompletionOwner DEF PollCompletion
<1>. DEFINE freed == FreeThread(ctx, now, t)
            old   == ProcessOf(t)
            new   == NextProcess(old)
<1>1. /\ op.process = old
      /\ op = completions[1] /\ 1 \in DOMAIN completions
  BY <1>a, <1>b, CompletionOwner DEF PollCompletion
<1>2. /\ IsContext(freed)
      /\ freed.free = ctx.free \cup {NameToIndex(t)}
      /\ freed.threadProcess = ctx.threadProcess
      /\ freed.processThread = ctx.processThread
  BY <1>1, FreeFields DEF SchedulingInv, TypeOK
<1>3. ThreadToProcess(freed, t) = old
  BY <1>2 DEF ThreadToProcess, ProcessOf
<1>4. ctx' = IF Retires(op, t) THEN WithNextProcess(freed, t) ELSE freed
  BY <1>a, <1>b DEF PollCompletion
<1>. HIDE DEF freed, old, new
<1>5. Retires(op, t) => t \in ClientThreads
  BY <1>1 DEF Retires, Threads
<1>6. Retires(op, t) =>
        /\ ctx'.free = ctx.free \cup {NameToIndex(t)}
        /\ ctx'.threadProcess = [ctx.threadProcess EXCEPT ![NameToIndex(t)] = new]
        /\ DOMAIN ctx'.processThread = (DOMAIN ctx.processThread \ {old}) \cup {new}
        /\ ctx'.processThread[new] = t
        /\ \A p \in DOMAIN ctx.processThread \ {old, new} :
             ctx'.processThread[p] = ctx.processThread[p]
  BY <1>1, <1>2, <1>3, <1>4, NextProcessFields DEF new
<1>7. ~Retires(op, t) =>
        /\ ctx'.free = ctx.free \cup {NameToIndex(t)}
        /\ ctx'.threadProcess = ctx.threadProcess
        /\ ctx'.processThread = ctx.processThread
  BY <1>2, <1>4
<1>8. /\ ctx.threadProcess \in [Indices -> Processes]
      /\ NameToIndex(t) \in Indices
      /\ \A u \in Threads \ {t} : NameToIndex(u) # NameToIndex(t)
  BY <1>1, ThreadIndices DEF SchedulingInv, TypeOK, IsContext
<1>9. \A u \in Threads \ {t} : /\ ThreadToProcess(ctx', u) = ProcessOf(u)
                               /\ ThreadFree(ctx', u) <=> ThreadFree(ctx, u)
  BY <1>6, <1>7, <1>8, ThreadIndices DEF ProcessOf, ThreadToProcess, ThreadFree
<1>10. /\ ThreadToProcess(ctx', t) = IF Retires(op, t) THEN new ELSE old
       /\ ThreadFree(ctx', t)
  BY <1>6, <1>7, <1>8 DEF ProcessOf, ThreadToProcess, ThreadFree, old
<1>11. Retires(op, t) => /\ new \in Nat
                         /\ \A u \in Threads : new # ProcessOf(u)
                         /\ \E k \in 0 .. new : new = t + k * Concurrency
  BY <1>0, <1>5, NextProcessIsFresh DEF new, old
<1>12. ProcessNumbering'
  <2>1. ThreadToProcess(ctx', Nemesis) = Nemesis
    <3>1. ProcessOf(Nemesis) = Nemesis /\ Nemesis \in Threads
      BY <1>0 DEF SchedulingInv, ProcessNumbering, Threads
    <3>. QED  BY <3>1, <1>9, <1>10 DEF old, Retires
  <2>2. ASSUME NEW u \in ClientThreads
        PROVE  /\ ThreadToProcess(ctx', u) \in Nat
               /\ \E k \in 0 .. ThreadToProcess(ctx', u) :
                    ThreadToProcess(ctx', u) = u + k * Concurrency
    <3>1. /\ ProcessOf(u) \in Nat
          /\ \E k \in 0 .. ProcessOf(u) : ProcessOf(u) = u + k * Concurrency
          /\ u \in Threads
      BY <1>0 DEF SchedulingInv, ProcessNumbering, Threads
    <3>2. CASE u = t /\ Retires(op, t)
      BY <3>2, <1>10, <1>11
    <3>3. CASE ~(u = t /\ Retires(op, t))
      <4>1. ThreadToProcess(ctx', u) = ProcessOf(u)
        BY <3>1, <3>3, <1>9, <1>10 DEF old
      <4>. QED  BY <3>1, <4>1
    <3>. QED  BY <3>2, <3>3
  <2>. QED  BY <2>1, <2>2 DEF ProcessNumbering, ProcessOf
<1>13. ProcessMapsAgree'
  <2>1. /\ DOMAIN ctx.processThread = {ctx.threadProcess[i] : i \in Indices}
        /\ \A u \in Threads : /\ ctx.processThread[ProcessOf(u)] = u
                              /\ ProcessOf(u) \in DOMAIN ctx.processThread
    BY <1>0, ProcessOwners DEF SchedulingInv, ProcessMapsAgree
  <2>2. {ctx.threadProcess[i] : i \in Indices} = {ProcessOf(u) : u \in Threads}
    BY ThreadIndices DEF ProcessOf, ThreadToProcess
  <2>3. {ctx'.threadProcess[i] : i \in Indices} = {ThreadToProcess(ctx', u) : u \in Threads}
    BY ThreadIndices DEF ProcessOf, ThreadToProcess
  <2>4. CASE Retires(op, t)
    <3>1. {ThreadToProcess(ctx', u) : u \in Threads}
            = ({ProcessOf(u) : u \in Threads} \ {old}) \cup {new}
      <4>1. \A u \in Threads \ {t} : ProcessOf(u) # old
        BY <1>1, <2>1 DEF old
      <4>. QED  BY <1>1, <1>9, <1>10, <2>4, <4>1 DEF old
    <3>2. \A u \in Threads : ctx'.processThread[ThreadToProcess(ctx', u)] = u
      BY <1>1, <1>6, <1>9, <1>10, <1>11, <2>1, <2>4 DEF old
    <3>. QED
      BY <1>6, <2>1, <2>2, <2>3, <2>4, <3>1, <3>2 DEF ProcessMapsAgree, ProcessOf
  <2>5. CASE ~Retires(op, t)
    <3>1. \A u \in Threads : ThreadToProcess(ctx', u) = ProcessOf(u)
      BY <1>9, <1>10, <2>5 DEF old
    <3>. QED
      BY <1>7, <2>1, <2>5, <3>1 DEF ProcessMapsAgree, ProcessOf, ThreadToProcess
  <2>. QED  BY <2>4, <2>5
<1>14. NoInterruptsYet'
  BY <1>0 DEF PollCompletion, workerVars, SchedulingInv, NoInterruptsYet
<1>15. OutstandingExact'
  <2>1. ~ThreadFree(ctx, t)
    BY <1>0, <1>1
       DEF SchedulingInv, OneOpPerBusyThread, OneCarrier, InCompletions, old
  <2>2. /\ Indices \ ctx'.free = (Indices \ ctx.free) \ {NameToIndex(t)}
        /\ NameToIndex(t) \in Indices \ ctx.free
    BY <1>6, <1>7, <1>8, <2>1 DEF ThreadFree
  <2>3. Cardinality(Indices \ ctx'.free) = Cardinality(Indices \ ctx.free) - 1
    <3>. DEFINE Busy == Indices \ ctx.free
                x    == NameToIndex(t)
    <3>1. IsFiniteSet(Busy) /\ x \in Busy /\ Indices \ ctx'.free = Busy \ {x}
      BY <2>2, BusyFinite
    <3>. HIDE DEF Busy, x
    <3>2. Cardinality(Busy \ {x}) = Cardinality(Busy) - 1
      BY <3>1, FS_RemoveElement
    <3>. QED  BY <3>1, <3>2 DEF Busy
  <2>4. outstanding' = outstanding - 1
    BY DEF PollCompletion
  <2>. QED
    BY <1>0, <2>3, <2>4 DEF SchedulingInv, OutstandingExact
<1>16. OneOpPerBusyThread'
  <2>1. /\ \A i \in DOMAIN completions' : /\ i + 1 \in DOMAIN completions
                                          /\ i + 1 # 1
                                          /\ completions'[i] = completions[i + 1]
        /\ \A i \in DOMAIN completions : i # 1 =>
             /\ i - 1 \in DOMAIN completions'
             /\ completions'[i - 1] = completions[i]
        /\ DOMAIN completions \subseteq Nat /\ DOMAIN completions' \subseteq Nat
    BY DEF PollCompletion, SchedulingInv, TypeOK
  <2>2. /\ \A i, j \in DOMAIN completions :
             completions[i].process = completions[j].process => i = j
        /\ \A i \in DOMAIN completions :
             \E u \in Threads : completions[i].process = ProcessOf(u)
        /\ \A u \in Threads : OneCarrier(u)
    BY <1>0 DEF SchedulingInv, OneOpPerBusyThread, CompletionsOwned
  <2>3. \A i \in DOMAIN completions' : completions'[i].process # old
    BY <1>1, <2>1, <2>2
  <2>4. CompletionsOwned'
    <3>1. \A i, j \in DOMAIN completions' :
            completions'[i].process = completions'[j].process => i = j
      BY <2>1, <2>2
    <3>2. ASSUME NEW i \in DOMAIN completions'
          PROVE  \E u \in Threads : completions'[i].process = ThreadToProcess(ctx', u)
      <4>1. PICK u \in Threads : completions'[i].process = ProcessOf(u)
        BY <2>1, <2>2
      <4>2. u # t
        BY <2>3, <4>1 DEF old
      <4>. QED  BY <1>9, <4>1, <4>2
    <3>. QED  BY <3>1, <3>2 DEF CompletionsOwned, ProcessOf
  <2>5. ASSUME NEW u \in Threads, u # t
        PROVE  InCompletions(u)' <=> InCompletions(u)
    <3>1. ProcessOf(u) # old
      BY <1>0, <1>1, <2>5, ProcessOwners DEF old
    <3>2. ThreadToProcess(ctx', u) = ProcessOf(u)
      BY <1>9, <2>5
    <3>. QED  BY <1>1, <2>1, <3>1, <3>2 DEF InCompletions, ProcessOf
  <2>6. ~InCompletions(t)'
    <3>1. \A i \in DOMAIN completions' :
            \E u \in Threads : completions'[i].process = ProcessOf(u)
      BY <2>1, <2>2
    <3>. QED  BY <1>10, <1>11, <2>3, <3>1 DEF InCompletions, ProcessOf
  <2>7. inbox' = inbox /\ held' = held
    BY DEF PollCompletion, workerVars
  <2>8. ~InInbox(t) /\ ~InWorker(t)
    BY <1>1, <2>2 DEF OneCarrier, InCompletions, old
  <2>9. ASSUME NEW u \in Threads PROVE OneCarrier(u)'
    <3>1. CASE u = t
      BY <1>10, <2>6, <2>7, <2>8, <3>1
         DEF OneCarrier, InInbox, InWorker, ProcessOf
    <3>2. CASE u # t
      BY <1>9, <2>2, <2>5, <2>7, <3>2
         DEF OneCarrier, InInbox, InWorker, ProcessOf
    <3>. QED  BY <3>1, <3>2
  <2>. QED  BY <2>4, <2>9 DEF OneOpPerBusyThread
<1>. QED
  BY <1>12, <1>13, <1>14, <1>15, <1>16

\* An operation is put: its thread becomes busy.
LEMMA DispatchStep ==
    ASSUME SchedulingInv, Dispatch
    PROVE  /\ ProcessNumbering' /\ NoInterruptsYet' /\ ProcessMapsAgree'
           /\ OneOpPerBusyThread' /\ OutstandingExact'
<1>0. Scheduling /\ Scheduling'
  BY DEF Dispatch, PutStaged, Scheduling
<1>1. PICK t \in Threads : t = StagedThread
  BY StagedOwner DEF Dispatch, PutStaged
<1>2. /\ staged \in Ops /\ staged # None /\ staged.time \in Nat
      /\ staged.process = ProcessOf(t)
      /\ ThreadFree(ctx, t)
  <2>1. staged \in Ops /\ staged.process = ProcessOf(t) /\ ThreadFree(ctx, t)
    BY <1>1, StagedOwner DEF Dispatch, PutStaged
  <2>. QED  BY <2>1, NoneIsNoOp DEF Ops
<1>3. /\ inbox' = [inbox EXCEPT ![t] = staged]
      /\ ctx' = BusyThread(ctx, staged.time, t)
      /\ outstanding' = outstanding + 1
      /\ completions' = completions /\ held' = held
      /\ interrupted' = interrupted
  BY <1>1 DEF Dispatch, PutStaged, workerVars
<1>4. /\ ctx'.free = ctx.free \ {NameToIndex(t)}
      /\ ctx'.threadProcess = ctx.threadProcess
      /\ ctx'.processThread = ctx.processThread
  BY <1>2, <1>3, BusyFields DEF SchedulingInv, TypeOK
<1>5. \A u \in Threads :
        /\ ThreadToProcess(ctx', u) = ThreadToProcess(ctx, u)
        /\ ThreadFree(ctx', u) <=> ThreadFree(ctx, u) /\ u # t
  BY <1>4, ThreadIndices DEF ThreadToProcess, ThreadFree
<1>6. ProcessNumbering' /\ NoInterruptsYet' /\ ProcessMapsAgree'
  <2>1. Nemesis \in Threads /\ ClientThreads \subseteq Threads
    BY DEF Threads
  <2>. QED
    BY <1>0, <1>3, <1>4, <1>5, <2>1
       DEF SchedulingInv, ProcessNumbering, NoInterruptsYet, ProcessMapsAgree,
           ProcessOf
<1>7. OutstandingExact'
  <2>. DEFINE Busy == Indices \ ctx.free
              x    == NameToIndex(t)
  <2>1. /\ IsFiniteSet(Busy) /\ x \notin Busy
        /\ Indices \ ctx'.free = Busy \cup {x}
    BY <1>2, <1>4, BusyFinite, ThreadIndices DEF ThreadFree
  <2>2. outstanding = Cardinality(Busy)
    BY <1>0 DEF SchedulingInv, OutstandingExact
  <2>. HIDE DEF Busy, x
  <2>3. Cardinality(Busy \cup {x}) = Cardinality(Busy) + 1
    BY <2>1, FS_AddElement
  <2>. QED  BY <1>3, <2>1, <2>2, <2>3 DEF OutstandingExact
<1>8. CompletionsOwned'
  BY <1>0, <1>3, <1>5
     DEF SchedulingInv, OneOpPerBusyThread, CompletionsOwned, ProcessOf
<1>9. ASSUME NEW u \in Threads PROVE OneCarrier(u)'
  <2>1. OneCarrier(u) /\ OneCarrier(t)
    BY <1>0 DEF SchedulingInv, OneOpPerBusyThread
  <2>2. inbox'[u] = IF u = t THEN staged ELSE inbox[u]
    BY <1>3 DEF SchedulingInv, TypeOK
  <2>. QED
    BY <1>2, <1>3, <1>5, <2>1, <2>2
       DEF OneCarrier, InInbox, InWorker, InCompletions, ProcessOf
<1>. QED
  BY <1>6, <1>7, <1>8, <1>9 DEF OneOpPerBusyThread

\* Every step of the main thread keeps the invariant.
LEMMA MainStep ==
    ASSUME SchedulingInv, Main
    PROVE  SchedulingInv'
<1>. DEFINE Rest == /\ StagedIsDispatchable /\ ProcessNumbering
                    /\ NoInterruptsYet /\ ProcessMapsAgree
                    /\ OneOpPerBusyThread /\ OutstandingExact
                    /\ MainPutsNeverBlock
<1>. SUFFICES Rest'
  BY MainTypes DEF SchedulingInv
<1>1. ASSUME loop' \notin {"poll", "ask", "put", "exit"} PROVE Rest'
  BY <1>1 DEF Scheduling, StagedIsDispatchable, ProcessNumbering,
       NoInterruptsYet, ProcessMapsAgree, OneOpPerBusyThread,
       OutstandingExact, MainPutsNeverBlock
<1>2. CASE PollCompletion
  BY <1>2, CompletionStep
     DEF PollCompletion, StagedIsDispatchable, MainPutsNeverBlock
<1>3. CASE PollEmpty
  <2>1. Scheduling /\ Scheduling' /\ loop' = "ask"
        /\ UNCHANGED <<ctx, outstanding, inbox, completions, held, interrupted>>
    BY <1>3 DEF PollEmpty, Scheduling, workerVars
  <2>2. CompletionsOwned' /\ \A u \in Threads : OneCarrier(u)'
    BY <2>1 DEF SchedulingInv, OneOpPerBusyThread, CompletionsOwned,
         OneCarrier, InInbox, InWorker, InCompletions, ProcessOf
  <2>. QED
    BY <2>1, <2>2
       DEF SchedulingInv, StagedIsDispatchable, ProcessNumbering,
           NoInterruptsYet, ProcessMapsAgree, OutstandingExact,
           OneOpPerBusyThread, MainPutsNeverBlock, ProcessOf
<1>4. CASE AskAgain
  <2>1. Scheduling /\ loop' = "poll"
    BY <1>4 DEF AskAgain, Scheduling
  <2>2. /\ ProcessNumbering' /\ NoInterruptsYet' /\ ProcessMapsAgree'
        /\ OneOpPerBusyThread' /\ OutstandingExact'
    BY <1>4, <2>1, TimeStep DEF AskAgain
  <2>. QED
    BY <2>1, <2>2 DEF StagedIsDispatchable, MainPutsNeverBlock
<1>5. CASE AskOp
  <2>1. Scheduling /\ loop' = "put" /\ inbox' = inbox
    BY <1>5 DEF AskOp, Scheduling
  <2>2. /\ ProcessNumbering' /\ NoInterruptsYet' /\ ProcessMapsAgree'
        /\ OneOpPerBusyThread' /\ OutstandingExact'
        /\ ctx'.free = ctx.free /\ ctx'.processThread = ctx.processThread
    BY <1>5, <2>1, TimeStep DEF AskOp
  <2>3. PICK p \in DOMAIN ctx.processThread :
          /\ ValidProcess(ctx, p)
          /\ \E type \in InvocationTypes(p), time \in 0 .. now :
               staged' = Op(p, type, time)
    BY <1>5 DEF AskOp
  <2>4. staged' # None /\ staged'.process = p
    BY <1>5, <2>3, GeneratedOp, NoneIsNoOp DEF AskOp, Op
  <2>5. PICK t \in Threads : t = ProcessToThread(ctx, p) /\ ThreadFree(ctx, t)
    BY <2>1, <2>3, ProcessOwners DEF ValidProcess
  <2>6. StagedThread' = t /\ ThreadFree(ctx', t)
    BY <2>2, <2>4, <2>5 DEF StagedThread, ProcessToThread, ThreadFree
  <2>7. StagedIsDispatchable'
    BY <2>2, <2>4, <2>6 DEF StagedIsDispatchable
  <2>8. inbox'[t] = None
    BY <2>1, <2>5
       DEF SchedulingInv, OneOpPerBusyThread, OneCarrier, InInbox
  <2>. QED
    BY <2>1, <2>2, <2>6, <2>7, <2>8 DEF MainPutsNeverBlock
<1>6. CASE AskExit
  <2>1. Scheduling /\ outstanding = 0 /\ loop' = "exit" /\ inbox' = inbox
        /\ unsignalled' = Threads
    BY <1>6 DEF AskExit, Quiescent, Scheduling
  <2>2. Indices \ ctx.free = {}
    BY <2>1, BusyFinite, FS_EmptySet DEF SchedulingInv, OutstandingExact
  <2>3. \A t \in Threads : inbox[t] = None
    BY <2>1, <2>2, ThreadIndices
       DEF SchedulingInv, OneOpPerBusyThread, OneCarrier, InInbox, ThreadFree
  <2>. QED
    BY <2>1, <2>3 DEF Scheduling, StagedIsDispatchable, ProcessNumbering,
         NoInterruptsYet, ProcessMapsAgree, OneOpPerBusyThread,
         OutstandingExact, MainPutsNeverBlock
<1>7. CASE Dispatch
  BY <1>7, DispatchStep
     DEF Dispatch, StagedIsDispatchable, MainPutsNeverBlock
<1>8. CASE SendExit
  <2>1. CASE loop' = "join"
    BY <1>1, <2>1
  <2>2. CASE loop' = "exit"
    <3>1. PICK t \in unsignalled : /\ inbox' = [inbox EXCEPT ![t] = Exit]
                                   /\ unsignalled' = unsignalled \ {t}
      BY <1>8 DEF SendExit
    <3>2. \A u \in unsignalled : inbox[u] = None
      BY <1>8 DEF SendExit, SchedulingInv, MainPutsNeverBlock
    <3>3. \A u \in unsignalled' : inbox'[u] = None
      BY <3>1, <3>2 DEF SchedulingInv, TypeOK
    <3>. QED
      BY <2>2, <3>3 DEF Scheduling, StagedIsDispatchable, ProcessNumbering,
           NoInterruptsYet, ProcessMapsAgree, OneOpPerBusyThread,
           OutstandingExact, MainPutsNeverBlock
  <2>. QED  BY <1>8, <2>1, <2>2 DEF SendExit
<1>9. CASE PollThrows \/ AskThrows \/ DispatchThrows \/ JoinThrows
  BY <1>1, <1>9 DEF PollThrows, AskThrows, DispatchThrows, JoinThrows, Abort
<1>10. CASE JoinAll \/ Cancel \/ Reap
  BY <1>1, <1>10 DEF JoinAll, Cancel, Reap
<1>. QED
  BY <1>2, <1>3, <1>4, <1>5, <1>6, <1>7, <1>8, <1>9, <1>10 DEF Main

-----------------------------------------------------------------------------
(* The theorems. *)

\* The clock, or nothing, moves.
LEMMA OtherStep ==
    ASSUME SchedulingInv, Tick \/ UNCHANGED vars
    PROVE  SchedulingInv'
<1>1. UNCHANGED <<mainVars, inbox, completions, workerVars>> /\ now' \in Nat
  BY DEF Tick, vars, SchedulingInv, TypeOK
<1>. USE <1>1 DEF mainVars, workerVars, SchedulingInv
<1>2. TypeOK' /\ HeldWhileEvaluating' /\ StagedIsDispatchable'
      /\ MainPutsNeverBlock'
  BY DEF TypeOK, HeldWhileEvaluating, StagedIsDispatchable, StagedThread,
         MainPutsNeverBlock
<1>3. Scheduling' <=> Scheduling
  BY DEF Scheduling
<1>4. ProcessNumbering' /\ NoInterruptsYet' /\ ProcessMapsAgree'
      /\ OutstandingExact'
  BY <1>3 DEF ProcessNumbering, NoInterruptsYet, ProcessMapsAgree,
              OutstandingExact, ProcessOf
<1>5. OneOpPerBusyThread'
  BY LocalStep
<1>. QED
  BY <1>2, <1>4, <1>5

\* The invariant holds in every state of every behaviour of the interpreter.
THEOREM SchedulingInvariant == Spec => []SchedulingInv
<1>1. Init => SchedulingInv
  BY InitSchedulingInv
<1>2. SchedulingInv /\ [Next]_vars => SchedulingInv'
  BY MainStep, WorkerStep, OtherStep DEF Next, Stopped
<1>. QED
  BY <1>1, <1>2, PTL DEF Spec

\* Type correctness of run!, its queues and its workers.
THEOREM TypeCorrectness == Spec => []TypeOK
  BY SchedulingInvariant, PTL DEF SchedulingInv

\* run! and with-next-process never give two threads one process, nor lose the
\* thread of a completion.
THEOREM ProcessesAreUnique == Spec => []ProcessMapsAgree
  BY SchedulingInvariant, PTL DEF SchedulingInv

\* No operation handed to a worker is lost or duplicated before its completion
\* is polled.
THEOREM OperationsAreConserved == Spec => []OneOpPerBusyThread
  BY SchedulingInvariant, PTL DEF SchedulingInv

\* run!'s outstanding counter is the number of busy threads.
THEOREM OutstandingIsExact == Spec => []OutstandingExact
  BY SchedulingInvariant, PTL DEF SchedulingInv

\* The main thread never waits in .put, on dispatch or on exit.
THEOREM MainNeverBlocks == Spec => []MainPutsNeverBlock
  BY SchedulingInvariant, PTL DEF SchedulingInv

(***************************************************************************)
(* Part 2: the clients, and how the workers leave.                         *)
(***************************************************************************)

-----------------------------------------------------------------------------
(* How the processes of the threads change. *)

\* A completion is polled: at most its own thread is renumbered.
LEMMA PolledProcess ==
    ASSUME SchedulingInv, PollCompletion
    PROVE  \E op \in Ops, t \in Threads :
             /\ op = Head(completions)
             /\ op = completions[1] /\ 1 \in DOMAIN completions
             /\ op.process = ProcessOf(t)
             /\ Journal(op, now)
             /\ ThreadFree(ctx', t)
             /\ \A u \in Threads :
                  ProcessOf(u)' = IF u = t /\ Retires(op, t)
                                  THEN NextProcess(ProcessOf(t))
                                  ELSE ProcessOf(u)
<1>a. PICK op \in Ops : op = Head(completions)
  BY CompletionOwner DEF PollCompletion
<1>b. PICK t \in Threads : t = ProcessToThread(ctx, op.process)
  BY <1>a, CompletionOwner DEF PollCompletion
<1>. DEFINE freed == FreeThread(ctx, now, t)
            new   == NextProcess(ProcessOf(t))
<1>1. /\ op.process = ProcessOf(t)
      /\ op = completions[1] /\ 1 \in DOMAIN completions
  BY <1>a, <1>b, CompletionOwner DEF PollCompletion
<1>2. /\ IsContext(freed) /\ freed.threadProcess = ctx.threadProcess
      /\ NameToIndex(t) \in freed.free
  BY FreeFields DEF SchedulingInv, TypeOK
<1>3. ThreadToProcess(freed, t) = ProcessOf(t)
  BY <1>2 DEF ThreadToProcess, ProcessOf
<1>4. /\ ctx' = IF Retires(op, t) THEN WithNextProcess(freed, t) ELSE freed
      /\ Journal(op, now)
  BY <1>a, <1>b DEF PollCompletion
<1>. HIDE DEF freed, new
<1>n. /\ WithNextProcess(freed, t).threadProcess =
           [ctx.threadProcess EXCEPT ![NameToIndex(t)] = new]
      /\ WithNextProcess(freed, t).free = freed.free
  <2>1. WithNextProcess(freed, t).threadProcess =
          [ctx.threadProcess EXCEPT ![NameToIndex(t)] = new]
    BY <1>2, <1>3, NextProcessFields DEF new
  <2>2. WithNextProcess(freed, t).free = freed.free
    BY <1>2, NextProcessFields
  <2>. QED  BY <2>1, <2>2
<1>5. ctx'.threadProcess = IF Retires(op, t)
                           THEN [ctx.threadProcess EXCEPT ![NameToIndex(t)] = new]
                           ELSE ctx.threadProcess
  BY <1>2, <1>4, <1>n
<1>6. /\ ctx.threadProcess \in [Indices -> Processes]
      /\ \A u \in Threads : NameToIndex(u) \in Indices
      /\ \A u \in Threads \ {t} : NameToIndex(u) # NameToIndex(t)
  BY ThreadIndices DEF SchedulingInv, TypeOK, IsContext
<1>7. ASSUME NEW u \in Threads
      PROVE  ProcessOf(u)' = IF u = t /\ Retires(op, t) THEN new ELSE ProcessOf(u)
  BY <1>5, <1>6 DEF ProcessOf, ThreadToProcess
<1>8. ThreadFree(ctx', t)
  BY <1>2, <1>4, <1>n DEF ThreadFree
<1>. QED
  BY <1>a, <1>1, <1>4, <1>7, <1>8 DEF new

\* No other step renumbers a thread.
LEMMA ProcessesStay ==
    ASSUME SchedulingInv, [Next]_vars, ~PollCompletion
    PROVE  \A u \in Threads : ProcessOf(u)' = ProcessOf(u)
<1>1. CASE ctx' = ctx
  BY <1>1 DEF ProcessOf
<1>2. CASE ctx' = WithTime(ctx, now)
  BY <1>2, TimeFields DEF ProcessOf, ThreadToProcess, SchedulingInv, TypeOK
<1>3. CASE Dispatch
  <2>1. staged.time \in Nat /\ StagedThread \in Threads
    BY <1>3, StagedOwner DEF Dispatch, PutStaged, Ops
  <2>. QED
    BY <1>3, <2>1, BusyFields
       DEF Dispatch, ProcessOf, ThreadToProcess, SchedulingInv, TypeOK
<1>4. CASE \E t \in Threads : Worker(t)
  BY <1>1, <1>4
     DEF mainVars, Worker, Take, TakeInterrupted, Control, ControlThrows,
         CloseOld, CloseOldThrows, OpenClient, OpenFails, OpenCrashes, Invoke,
         InvokeThrows, Reply, ReplyCrash, ReplyInterrupted, PutCompletion,
         Close, CloseThrows
<1>5. CASE Main
  BY <1>1, <1>2, <1>3, <1>5
     DEF Main, PollEmpty, PollThrows, AskAgain, AskOp, AskExit, AskThrows,
         DispatchThrows, SendExit, JoinAll, JoinThrows, Cancel, Reap
<1>6. CASE Tick \/ UNCHANGED vars
  BY <1>1, <1>6 DEF Tick, vars, mainVars
<1>. QED
  BY <1>4, <1>5, <1>6 DEF Next, Stopped

\* The processes of client threads are numbers.
LEMMA ClientProcess ==
    ASSUME SchedulingInv, Scheduling, NEW t \in Threads
    PROVE  /\ t # Nemesis => ProcessOf(t) \in Nat
                             /\ NextProcess(ProcessOf(t)) = ProcessOf(t) + Concurrency
           /\ Nemesis \notin ClientThreads
  BY ContextAssumption
     DEF SchedulingInv, ProcessNumbering, Threads, ClientThreads, NextProcess

-----------------------------------------------------------------------------
(* Clients. *)

LEMMA InitClientInv == Init => ClientInv
<1>. SUFFICES ASSUME Init PROVE ClientInv
  OBVIOUS
<1>1. \A t \in Threads : ProcessOf(t) = t /\ (t # Nemesis => t \in Nat)
  BY InitialContextFields, ContextAssumption
     DEF Init, ProcessOf, Threads, ClientThreads
<1>2. Nemesis \in Threads
  BY DEF Threads
<1>. QED
  BY <1>1, <1>2 DEF Init, ClientInv, WorksForItsProcess, ProcessFieldLags

\* A step that renumbers no thread and touches no client.
LEMMA ClientsUntouched ==
    ASSUME ClientInv,
           UNCHANGED clientVars,
           \A u \in Threads : /\ ProcessOf(u)' = ProcessOf(u)
                              /\ wpc'[u] = "done" <=> wpc[u] = "done"
                              /\ WorksForItsProcess(u)'
    PROVE  ClientInv'
<1>1. client' = client /\ wprocess' = wprocess /\ conns' = conns
  BY DEF clientVars
<1>2. ASSUME NEW u \in Threads PROVE ProcessFieldLags(u)'
  <2>1. ProcessFieldLags(u)
    BY DEF ClientInv
  <2>2. ProcessOf(u)' = ProcessOf(u) /\ (wpc'[u] = "done" <=> wpc[u] = "done")
    OBVIOUS
  <2>. QED
    BY <1>1, <2>1, <2>2 DEF ProcessFieldLags
<1>. QED
  BY <1>1, <1>2 DEF ClientInv

\* A completion is polled: a renumbered thread has nothing in its inbox and
\* nothing at its worker, and leaves the process field further behind.
LEMMA ClientPoll ==
    ASSUME SchedulingInv, ClientInv, PollCompletion
    PROVE  ClientInv'
<1>0. Scheduling
  BY DEF PollCompletion, Scheduling
<1>1. PICK op \in Ops, t \in Threads :
        /\ op = completions[1] /\ 1 \in DOMAIN completions
        /\ op.process = ProcessOf(t)
        /\ \A u \in Threads :
             ProcessOf(u)' = IF u = t /\ Retires(op, t)
                             THEN NextProcess(ProcessOf(t)) ELSE ProcessOf(u)
  BY PolledProcess
<1>2. /\ client' = client /\ wprocess' = wprocess /\ conns' = conns
      /\ inbox' = inbox /\ held' = held /\ wpc' = wpc
  BY DEF PollCompletion, workerVars
<1>3. inbox[t] = None /\ held[t] = None
  BY <1>0, <1>1
     DEF SchedulingInv, OneOpPerBusyThread, OneCarrier, InCompletions,
         InInbox, InWorker
<1>4. ASSUME NEW u \in Threads
      PROVE  WorksForItsProcess(u)' /\ ProcessFieldLags(u)'
  <2>0. WorksForItsProcess(u) /\ ProcessFieldLags(u)
    BY DEF ClientInv
  <2>1. CASE u = t /\ Retires(op, t)
    <3>1. /\ ProcessOf(u) \in Nat /\ ProcessOf(u)' = ProcessOf(u) + Concurrency
          /\ Concurrency \in Nat \ {0}
      BY <1>0, <1>1, <2>1, ClientProcess, ContextAssumption DEF Retires
    <3>2. WorksForItsProcess(u)'
      BY <1>2, <1>3, <2>1 DEF WorksForItsProcess
    <3>3. wprocess[u] # None =>
            /\ wprocess[u] \in 0 .. ProcessOf(u) + Concurrency
            /\ wprocess[u] # ProcessOf(u) + Concurrency
      <4>1. wprocess[u] # None => wprocess[u] \in 0 .. ProcessOf(u)
        BY <2>0 DEF ProcessFieldLags
      <4>. QED  BY <3>1, <4>1
    <3>4. ProcessFieldLags(u)'
      BY <1>2, <2>0, <3>1, <3>3 DEF ProcessFieldLags
    <3>. QED  BY <3>2, <3>4
  <2>2. CASE ~(u = t /\ Retires(op, t))
    <3>1. ProcessOf(u)' = ProcessOf(u)
      BY <1>1, <2>2
    <3>. QED  BY <1>2, <2>0, <3>1 DEF WorksForItsProcess, ProcessFieldLags
  <2>. QED  BY <2>1, <2>2
<1>. QED
  BY <1>2, <1>4 DEF ClientInv

\* The other steps of the main thread.
LEMMA ClientMain ==
    ASSUME SchedulingInv, ClientInv, Main, ~PollCompletion
    PROVE  ClientInv'
<1>1. /\ UNCHANGED <<clientVars, wpc, held>>
      /\ \A u \in Threads : ProcessOf(u)' = ProcessOf(u)
  <2>1. UNCHANGED <<clientVars, wpc, held>>
    BY DEF Main, PollEmpty, PollThrows, AskAgain, AskOp, AskExit, AskThrows,
           Dispatch, DispatchThrows, SendExit, JoinAll, JoinThrows, Cancel,
           Reap, workerVars, clientVars
  <2>. QED  BY <2>1, ProcessesStay DEF Next
<1>2. ASSUME NEW u \in Threads PROVE WorksForItsProcess(u)'
  <2>0. WorksForItsProcess(u) /\ inbox \in [Threads -> Ops \cup {None, Exit}]
    BY DEF ClientInv, SchedulingInv, TypeOK
  <2>1. CASE inbox'[u] \in {inbox[u], None, Exit}
    BY <1>1, <2>0, <2>1 DEF WorksForItsProcess
  <2>2. CASE PutStaged
    <3>1. StagedThread \in Threads /\ staged.process = ProcessOf(StagedThread)
      BY <2>2, StagedOwner DEF PutStaged
    <3>2. inbox'[u] = IF u = StagedThread THEN staged ELSE inbox[u]
      BY <2>0, <2>2, <3>1 DEF PutStaged
    <3>. QED  BY <1>1, <2>0, <3>1, <3>2 DEF WorksForItsProcess
  <2>3. CASE SendExit \/ Reap
    <3>1. inbox'[u] \in {inbox[u], Exit}
      BY <2>0, <2>3 DEF SendExit, Reap, SchedulingInv, TypeOK
    <3>. QED  BY <2>1, <3>1
  <2>. QED
    BY <2>1, <2>2, <2>3
       DEF Main, PollEmpty, PollThrows, AskAgain, AskOp, AskExit, AskThrows,
           Dispatch, DispatchThrows, JoinAll, JoinThrows, Cancel
<1>. QED
  BY <1>1, <1>2, ClientsUntouched

\* An answer bears the process of the operation it answers.
LEMMA AnswerProcess ==
    ASSUME SchedulingInv, NEW t \in Threads, NEW type, NEW end,
           wpc[t] = "eval", Answer(t, type, end)
    PROVE  /\ held[t] # None
           /\ held'[t].process = held[t].process
           /\ held'[t].type = type /\ held'[t].end = end
           /\ \A u \in Threads \ {t} : held'[u] = held[u]
<1>1. held[t] # None /\ held[t] \in Ops
  BY DEF SchedulingInv, HeldWhileEvaluating, TypeOK
<1>2. held' = [held EXCEPT ![t] = [held[t] EXCEPT !.type = type, !.end = end]]
  BY <1>1 DEF Answer, SchedulingInv, TypeOK
<1>3. held'[t] = [held[t] EXCEPT !.type = type, !.end = end]
  BY <1>2 DEF SchedulingInv, TypeOK
<1>4. \A u \in Threads \ {t} : held'[u] = held[u]
  BY <1>2 DEF SchedulingInv, TypeOK
<1>. QED
  BY <1>1, <1>3, <1>4 DEF Ops

\* The steps of a worker that touch no client.
LEMMA ClientWorkerLocal ==
    ASSUME SchedulingInv, ClientInv, NEW t \in Threads, Worker(t),
           ~CloseOld(t), ~OpenClient(t), ~Close(t)
    PROVE  ClientInv'
<1>1. \A u \in Threads : ProcessOf(u)' = ProcessOf(u)
  <2>1. ctx' = ctx
    BY DEF mainVars, Worker, Take, TakeInterrupted, Control, ControlThrows,
           CloseOldThrows, OpenFails, OpenCrashes, Invoke, InvokeThrows,
           Reply, ReplyCrash, ReplyInterrupted, PutCompletion, CloseThrows
  <2>. QED  BY <2>1 DEF ProcessOf
<1>2. UNCHANGED clientVars
  BY DEF Worker, Take, TakeInterrupted, Control, ControlThrows,
         CloseOldThrows, OpenFails, OpenCrashes, Invoke, InvokeThrows, Reply,
         ReplyCrash, ReplyInterrupted, PutCompletion, CloseThrows
<1>t. /\ wpc \in [Threads -> WorkerStates]
      /\ held \in [Threads -> Ops \cup {None}]
      /\ inbox \in [Threads -> Ops \cup {None, Exit}]
  BY DEF SchedulingInv, TypeOK
<1>3. ASSUME NEW u \in Threads
      PROVE  wpc'[u] = "done" <=> wpc[u] = "done"
  BY <1>t DEF Worker, Take, TakeInterrupted, Control, ControlThrows,
         CloseOldThrows, OpenFails, OpenCrashes, Invoke, InvokeThrows, Reply,
         ReplyCrash,
         ReplyInterrupted, PutCompletion, CloseThrows, Invoking, Answer
<1>4. ASSUME NEW u \in Threads PROVE WorksForItsProcess(u)'
  <2>0. WorksForItsProcess(u) /\ ProcessOf(u)' = ProcessOf(u)
    BY <1>1 DEF ClientInv
  <2>1. CASE inbox' = inbox /\ held'[u] \in {held[u], None}
    BY <2>0, <2>1 DEF WorksForItsProcess
  <2>2. CASE Take(t)
    <3>0. Exit.type = "exit"
      BY DEF Exit, Op
    <3>1. /\ inbox'[u] \in {inbox[u], None}
          /\ \/ held'[u] = held[u]
             \/ held'[u] = inbox[u] /\ inbox[u] \notin {None, Exit}
      BY <1>t, <2>2, <3>0 DEF Take
    <3>. QED  BY <2>0, <3>1 DEF WorksForItsProcess
  <2>3. CASE OpenFails(t) \/ Invoke(t)
    <3>1. inbox' = inbox /\ wpc[t] = "eval" /\ \E type, end : Answer(t, type, end)
      BY <2>3 DEF OpenFails, Invoke, Invoking
    <3>2. \/ held'[u] = held[u]
          \/ held[u] # None /\ held'[u].process = held[u].process
      BY <3>1, AnswerProcess
    <3>. QED  BY <2>0, <3>1, <3>2 DEF WorksForItsProcess
  <2>4. CASE Reply(t) \/ ReplyCrash(t) \/ ReplyInterrupted(t)
    <3>1. inbox' = inbox /\ held'[u] \in {held[u], None}
      BY <1>t, <2>4 DEF Reply, ReplyCrash, ReplyInterrupted, PutCompletion
    <3>. QED  BY <2>1, <3>1
  <2>. QED
    BY <2>1, <2>2, <2>3, <2>4
       DEF Worker, TakeInterrupted, Control, ControlThrows, CloseOldThrows,
           OpenCrashes, InvokeThrows, CloseThrows
<1>. QED
  BY <1>1, <1>2, <1>3, <1>4, ClientsUntouched

\* The connections after a worker has closed or opened its client.
LEMMA ConnectionsFollow ==
    ASSUME SchedulingInv, ClientInv, NEW t \in Threads,
           \/ CloseClient(t)
           \/ /\ client[t] = None
              /\ held[t].process # None
              /\ client' = [client EXCEPT ![t] = held[t].process]
              /\ conns' = conns \cup {<<t, held[t].process>>}
    PROVE  /\ conns' = {<<u, client'[u]>> : u \in {v \in Threads : client'[v] # None}}
           /\ \A u \in Threads \ {t} : client'[u] = client[u]
<1>1. /\ client \in [Threads -> Processes \cup {None}]
      /\ conns = {<<u, client[u]>> : u \in {v \in Threads : client[v] # None}}
  BY DEF SchedulingInv, TypeOK, ClientInv
<1>2. \A u \in Threads \ {t} : client'[u] = client[u]
  BY <1>1 DEF CloseClient
<1>3. CASE CloseClient(t)
  <2>1. client'[t] = None /\ conns' = conns \ {<<t, client[t]>>}
    BY <1>1, <1>3 DEF CloseClient
  <2>2. \A x : x \in conns' <=>
          \E u \in Threads : client'[u] # None /\ x = <<u, client'[u]>>
    BY <1>1, <1>2, <2>1
  <2>. QED  BY <1>2, <2>2
<1>4. CASE /\ client[t] = None
           /\ held[t].process # None
           /\ client' = [client EXCEPT ![t] = held[t].process]
           /\ conns' = conns \cup {<<t, held[t].process>>}
  <2>1. /\ client'[t] = held[t].process
        /\ conns' = conns \cup {<<t, client'[t]>>}
    BY <1>1, <1>4
  <2>2. \A x : x \in conns' <=>
          \E u \in Threads : client'[u] # None /\ x = <<u, client'[u]>>
    BY <1>1, <1>2, <1>4, <2>1
  <2>. QED  BY <1>2, <2>2
<1>. QED
  BY <1>3, <1>4

\* The steps of a worker that close or open its client.
LEMMA ClientWorkerOwn ==
    ASSUME SchedulingInv, ClientInv, NEW t \in Threads,
           CloseOld(t) \/ OpenClient(t) \/ Close(t)
    PROVE  ClientInv'
<1>1. /\ \A u \in Threads : ProcessOf(u)' = ProcessOf(u)
      /\ inbox' = inbox /\ held' = held
  BY DEF CloseOld, OpenClient, Close, mainVars, ProcessOf
<1>2. \A u \in Threads : WorksForItsProcess(u)'
  BY <1>1 DEF ClientInv, WorksForItsProcess
<1>h. wpc[t] = "eval" =>
        /\ held[t].process \in Processes /\ held[t].process # None
        /\ held[t].process = ProcessOf(t)
  <2>1. wpc[t] = "eval" => held[t] # None /\ held[t] \in Ops
    BY DEF SchedulingInv, TypeOK, HeldWhileEvaluating
  <2>2. None \notin Processes
    BY ContextAssumption DEF Processes
  <2>. QED  BY <2>1, <2>2 DEF Ops, ClientInv, WorksForItsProcess
<1>3. /\ conns' = {<<u, client'[u]>> : u \in {v \in Threads : client'[v] # None}}
      /\ \A u \in Threads \ {t} : client'[u] = client[u]
  BY <1>h, ConnectionsFollow DEF CloseOld, OpenClient, Close, Invoking
<1>t. /\ wpc \in [Threads -> WorkerStates]
      /\ client \in [Threads -> Processes \cup {None}]
      /\ wprocess \in [Threads -> Processes \cup {None}]
  BY DEF SchedulingInv, TypeOK
<1>4. \A u \in Threads \ {t} : wprocess'[u] = wprocess[u] /\ wpc'[u] = wpc[u]
  BY <1>t DEF CloseOld, OpenClient, Close
<1>5. ProcessFieldLags(t) /\ ProcessOf(t)' = ProcessOf(t)
  BY <1>1 DEF ClientInv
<1>6. ProcessFieldLags(t)'
  <2>1. CASE CloseOld(t)
    <3>1. /\ client'[t] = None /\ client[t] # None
          /\ wprocess' = wprocess /\ wpc' = wpc
          /\ held[t].process # wprocess[t] /\ wpc[t] = "eval"
      BY <2>1, <1>t DEF CloseOld, CloseClient, NeedsClient, Invoking
    <3>. QED  BY <3>1, <1>h, <1>5 DEF ProcessFieldLags
  <2>2. CASE OpenClient(t)
    <3>1. /\ client'[t] = held[t].process /\ wprocess'[t] = held[t].process
          /\ wpc' = wpc /\ wpc[t] = "eval" /\ t # Nemesis
      BY <2>2, <1>t DEF OpenClient, Invoking, NeedsClient
    <3>2. ProcessOf(t) \in Nat /\ wprocess'[t] = ProcessOf(t)
      BY <3>1, <1>h, <1>5 DEF ProcessFieldLags
    <3>3. wprocess'[t] \in 0 .. ProcessOf(t)
      BY <3>2
    <3>. QED  BY <3>1, <3>2, <3>3, <1>h, <1>5 DEF ProcessFieldLags
  <2>3. CASE Close(t)
    <3>1. client'[t] = None /\ wprocess' = wprocess /\ wpc'[t] = "done"
      BY <2>3, <1>t DEF Close, CloseClient
    <3>. QED  BY <3>1, <1>5 DEF ProcessFieldLags
  <2>. QED  BY <2>1, <2>2, <2>3
<1>7. \A u \in Threads : ProcessFieldLags(u)'
  BY <1>1, <1>3, <1>4, <1>6 DEF ClientInv, ProcessFieldLags
<1>8. client'[Nemesis] = None /\ wprocess'[Nemesis] = None
  <2>1. CASE t = Nemesis
    BY <2>1, <1>t
       DEF CloseOld, OpenClient, Close, NeedsClient, CloseClient, ClientInv
  <2>2. CASE t # Nemesis
    BY <2>2, <1>3, <1>4 DEF ClientInv, Threads
  <2>. QED  BY <2>1, <2>2
<1>. QED
  BY <1>2, <1>3, <1>7, <1>8 DEF ClientInv

\* The process fields of the workers and their clients match in every state.
THEOREM ClientInvariant == Spec => []ClientInv
<1>1. Init => ClientInv
  BY InitClientInv
<1>2. SchedulingInv /\ ClientInv /\ [Next]_vars => ClientInv'
  <2>. SUFFICES ASSUME SchedulingInv, ClientInv, [Next]_vars PROVE ClientInv'
    OBVIOUS
  <2>1. CASE Main
    BY <2>1, ClientPoll, ClientMain
  <2>2. CASE \E t \in Threads : Worker(t)
    BY <2>2, ClientWorkerLocal, ClientWorkerOwn
  <2>3. CASE Tick \/ UNCHANGED vars
    <3>1. UNCHANGED <<ctx, clientVars, wpc, inbox, held>>
      BY <2>3 DEF Tick, vars, mainVars, workerVars, clientVars
    <3>2. \A u \in Threads : ProcessOf(u)' = ProcessOf(u) /\ WorksForItsProcess(u)'
      BY <3>1 DEF ProcessOf, ClientInv, WorksForItsProcess
    <3>. QED  BY <3>1, <3>2, ClientsUntouched
  <2>. QED
    BY <2>1, <2>2, <2>3 DEF Next, Stopped
<1>. QED
  BY <1>1, <1>2, SchedulingInvariant, PTL DEF Spec

\* invoke! of a client worker never reaches a nil client, nor one that was
\* opened for another process unless it is reusable.
THEOREM ClientsAreTheirProcesses == Spec => []ClientsBelongToProcesses
<1>1. SchedulingInv /\ ClientInv => ClientsBelongToProcesses
  <2>. SUFFICES ASSUME SchedulingInv, ClientInv, NEW t \in ClientThreads,
                       Invoking(t), ~NeedsClient(t)
                PROVE  /\ client[t] # None
                       /\ <<t, client[t]>> \in conns
                       /\ Reusable \/ client[t] = held[t].process
    BY DEF ClientsBelongToProcesses
  <2>0. t \in Threads /\ t # Nemesis /\ wpc[t] = "eval"
    BY ContextAssumption DEF Threads, ClientThreads, Invoking
  <2>1. WorksForItsProcess(t) /\ ProcessFieldLags(t)
    BY <2>0 DEF ClientInv
  <2>2. held[t] # None /\ held[t].process \in Processes /\ held[t].process # None
    <3>1. held[t] # None /\ held[t] \in Ops /\ None \notin Processes
      BY <2>0, ContextAssumption
         DEF SchedulingInv, TypeOK, HeldWhileEvaluating, Processes
    <3>. QED  BY <3>1 DEF Ops
  <2>3. client[t] # None
    BY <2>0, <2>1, <2>2
       DEF NeedsClient, IsReusable, WorksForItsProcess, ProcessFieldLags
  <2>4. Reusable \/ client[t] = held[t].process
    BY <2>0, <2>1, <2>3 DEF NeedsClient, IsReusable, ProcessFieldLags
  <2>. QED  BY <2>0, <2>3, <2>4 DEF ClientInv
<1>. QED
  BY <1>1, SchedulingInvariant, ClientInvariant, PTL

-----------------------------------------------------------------------------
(* The end of a run. *)

LEMMA InitLeaving == Init => LeavingInOrder
  BY DEF Init, LeavingInOrder, Scheduling

\* A quiescent main thread has had every operation back.
LEMMA NothingInFlight ==
    ASSUME SchedulingInv, Scheduling, outstanding = 0
    PROVE  /\ completions = << >>
           /\ \A t \in Threads : inbox[t] = None /\ held[t] = None
<1>1. Indices \ ctx.free = {}
  BY BusyFinite, FS_EmptySet DEF SchedulingInv, OutstandingExact
<1>2. \A t \in Threads : ThreadFree(ctx, t)
  BY <1>1, ThreadIndices DEF ThreadFree
<1>3. \A t \in Threads : ~InInbox(t) /\ ~InWorker(t) /\ ~InCompletions(t)
  BY <1>2 DEF SchedulingInv, OneOpPerBusyThread, OneCarrier
<1>4. ASSUME completions # << >> PROVE FALSE
  <2>1. 1 \in DOMAIN completions
    BY <1>4 DEF SchedulingInv, TypeOK
  <2>2. PICK t \in Threads : completions[1].process = ProcessOf(t)
    BY <2>1 DEF SchedulingInv, OneOpPerBusyThread, CompletionsOwned
  <2>. QED  BY <1>3, <2>1, <2>2 DEF InCompletions
<1>. QED
  BY <1>3, <1>4 DEF InInbox, InWorker

LEMMA LeavingMain ==
    ASSUME SchedulingInv, LeavingInOrder, Main
    PROVE  LeavingInOrder'
<1>1. CASE loop' \in {"cancel", "reap", "threw"}
  BY <1>1 DEF LeavingInOrder, Scheduling
<1>2. CASE Scheduling /\ Scheduling' /\ wpc' = wpc
  BY <1>2 DEF LeavingInOrder, Scheduling
<1>3. CASE PollCompletion \/ PollEmpty \/ AskAgain \/ AskOp \/ Dispatch
  BY <1>2, <1>3
     DEF PollCompletion, PollEmpty, AskAgain, AskOp, Dispatch, PutStaged,
         Scheduling, workerVars
<1>4. CASE AskExit
  <2>1. Scheduling /\ loop' = "exit" /\ unsignalled' = Threads
        /\ UNCHANGED <<completions, inbox, held, wpc, interrupted>>
    BY <1>4 DEF AskExit, Scheduling, workerVars
  <2>2. completions = << >> /\ \A t \in Threads : inbox[t] = None /\ held[t] = None
    BY <1>4, <2>1, NothingInFlight DEF AskExit, Quiescent
  <2>3. \A t \in Threads : wpc[t] = "take" /\ ~interrupted[t]
    BY <2>1, <2>2
       DEF SchedulingInv, TypeOK, WorkerStates, HeldWhileEvaluating,
           NoInterruptsYet, LeavingInOrder
  <2>. QED  BY <2>1, <2>2, <2>3 DEF LeavingInOrder, Scheduling
<1>5. CASE SendExit
  <2>1. PICK t \in unsignalled : /\ inbox' = [inbox EXCEPT ![t] = Exit]
                                 /\ unsignalled' = unsignalled \ {t}
    BY <1>5 DEF SendExit
  <2>2. loop = "exit" /\ loop' \in {"exit", "join"}
        /\ UNCHANGED <<completions, held, wpc, interrupted>>
    BY <1>5 DEF SendExit, workerVars
  <2>3. \A u \in Threads : inbox'[u] # None => inbox[u] # None \/ u = t
    BY <2>1 DEF SchedulingInv, TypeOK
  <2>. QED  BY <2>1, <2>2, <2>3 DEF LeavingInOrder, Scheduling
<1>6. CASE JoinAll
  BY <1>6 DEF JoinAll, workerVars, LeavingInOrder, Scheduling
<1>7. CASE PollThrows \/ AskThrows \/ DispatchThrows \/ JoinThrows \/ Cancel
           \/ Reap
  BY <1>1, <1>7
     DEF PollThrows, AskThrows, DispatchThrows, JoinThrows, Abort, Cancel, Reap
<1>. QED
  BY <1>3, <1>4, <1>5, <1>6, <1>7 DEF Main

LEMMA LeavingWorker ==
    ASSUME SchedulingInv, LeavingInOrder, NEW t \in Threads, Worker(t)
    PROVE  LeavingInOrder'
<1>1. UNCHANGED mainVars
  BY DEF Worker, Take, TakeInterrupted, Control, ControlThrows, CloseOld,
         CloseOldThrows, OpenClient, OpenFails, OpenCrashes, Invoke,
         InvokeThrows, Reply, ReplyCrash, ReplyInterrupted, PutCompletion,
         Close, CloseThrows
<1>2. loop' = loop /\ unsignalled' = unsignalled /\ (Scheduling' <=> Scheduling)
  BY <1>1 DEF mainVars, Scheduling
<1>t. /\ wpc \in [Threads -> WorkerStates]
      /\ held \in [Threads -> Ops \cup {None}]
      /\ inbox \in [Threads -> Ops \cup {None, Exit}]
      /\ interrupted \in [Threads -> BOOLEAN]
      /\ HeldWhileEvaluating
  BY DEF SchedulingInv, TypeOK
<1>3. CASE Scheduling
  <2>1. ~interrupted[t] /\ wpc[t] \notin {"close", "done", "failed"}
    BY <1>3 DEF SchedulingInv, NoInterruptsYet, LeavingInOrder
  <2>2. ASSUME inbox[t] # None PROVE inbox[t].type # "exit"
    <3>1. inbox[t].process = ProcessOf(t) /\ ProcessOf(t) \in Processes
      BY <1>3, <2>2, ProcessOwners
         DEF SchedulingInv, OneOpPerBusyThread, OneCarrier, InInbox
    <3>2. inbox[t] # Exit
      BY <3>1, ContextAssumption DEF Exit, Op, Processes
    <3>. QED  BY <1>t, <2>2, <3>2 DEF Ops, OpTypes
  <2>3. wpc'[t] \notin {"close", "done", "failed"}
        /\ \A u \in Threads \ {t} : wpc'[u] = wpc[u]
    BY <1>t, <2>1, <2>2
       DEF Worker, Take, TakeInterrupted, Control, ControlThrows, CloseOld,
         CloseOldThrows, OpenClient, OpenFails, OpenCrashes, Invoke,
         InvokeThrows, Reply, ReplyCrash, ReplyInterrupted, PutCompletion,
         Close, CloseThrows, Answer
  <2>. QED  BY <1>2, <1>3, <2>3 DEF LeavingInOrder, Scheduling
<1>4. CASE loop \in {"exit", "join", "returned"}
  <2>0. /\ completions = << >>
        /\ \A u \in Threads : /\ held[u] = None /\ ~interrupted[u]
                              /\ u \in unsignalled => wpc[u] = "take"
                              /\ inbox[u] # None => /\ inbox[u] = Exit
                                                    /\ wpc[u] = "take"
                                                    /\ u \notin unsignalled
        /\ loop = "returned" => \A u \in Threads : wpc[u] = "done"
    BY <1>4 DEF LeavingInOrder
  <2>1. wpc[t] \notin {"eval", "reply", "crash"} /\ ~interrupted[t]
    BY <1>t, <2>0 DEF HeldWhileEvaluating
  <2>2. CASE Take(t)
    <3>1. inbox[t] = Exit /\ Exit.type = "exit" /\ wpc[t] = "take"
          /\ t \notin unsignalled
      BY <2>0, <2>2 DEF Take, Exit, Op
    <3>2. /\ inbox' = [inbox EXCEPT ![t] = None] /\ held' = held
          /\ wpc' = [wpc EXCEPT ![t] = "close"]
          /\ completions' = completions /\ interrupted' = interrupted
      BY <2>2, <3>1 DEF Take
    <3>3. \A u \in Threads :
            /\ u = t => inbox'[u] = None
            /\ u # t => inbox'[u] = inbox[u] /\ wpc'[u] = wpc[u]
      BY <1>t, <3>2
    <3>. QED
      BY <1>2, <1>4, <2>0, <3>1, <3>2, <3>3 DEF LeavingInOrder, Scheduling
  <2>3. CASE Close(t) \/ CloseThrows(t)
    <3>1. /\ wpc[t] = "close" /\ inbox' = inbox /\ held' = held
          /\ completions' = completions
          /\ \A u \in Threads \ {t} : wpc'[u] = wpc[u]
      BY <1>t, <2>3 DEF Close, CloseThrows
    <3>2. \A u \in Threads : ~interrupted'[u]
      BY <1>t, <2>0, <2>3 DEF Close, CloseThrows, Throws
    <3>. QED
      BY <1>2, <1>4, <2>0, <3>1, <3>2 DEF LeavingInOrder, Scheduling
  <2>. QED
    BY <2>1, <2>2, <2>3
       DEF Worker, TakeInterrupted, Control, ControlThrows, CloseOld,
           CloseOldThrows, OpenClient, OpenFails, OpenCrashes, Invoke,
           InvokeThrows, Reply, ReplyCrash, ReplyInterrupted, Invoking
<1>. QED
  BY <1>2, <1>3, <1>4 DEF LeavingInOrder

\* Workers leave their loops only when told to, and with empty hands.
THEOREM LeavingInvariant == Spec => []LeavingInOrder
<1>1. Init => LeavingInOrder
  BY InitLeaving
<1>2. SchedulingInv /\ LeavingInOrder /\ [Next]_vars => LeavingInOrder'
  <2>1. ASSUME SchedulingInv, LeavingInOrder, Tick \/ UNCHANGED vars
        PROVE  LeavingInOrder'
    BY <2>1
       DEF Tick, vars, mainVars, workerVars, LeavingInOrder, Scheduling
  <2>. QED
    BY <2>1, LeavingMain, LeavingWorker DEF Next, Stopped
<1>. QED
  BY <1>1, <1>2, SchedulingInvariant, PTL DEF Spec

\* Every connection a worker opened is closed by the time run! returns.
THEOREM NoConnectionIsLeaked == Spec => []NoConnectionLeaks
<1>1. ClientInv /\ LeavingInOrder => NoConnectionLeaks
  BY DEF ClientInv, LeavingInOrder, ProcessFieldLags, NoConnectionLeaks
<1>. QED
  BY <1>1, ClientInvariant, LeavingInvariant, PTL

(***************************************************************************)
(* Part 3: the history.                                                    *)
(***************************************************************************)

-----------------------------------------------------------------------------
(* The journal. *)

\* The entry Journal appends.
Entry(op, time) == [index |-> opIndex, process |-> op.process,
                    type |-> op.type, time |-> time, end |-> op.end]

\* What Journal does to the history.
LEMMA JournalEffect ==
    ASSUME SchedulingInv, NEW op \in Ops, NEW time \in Nat, Journal(op, time)
    PROVE  /\ Entry(op, time) \in Entries
           /\ GoesInHistory(op) => /\ history' = Append(history, Entry(op, time))
                                   /\ opIndex' = opIndex + 1
           /\ ~GoesInHistory(op) => history' = history /\ opIndex' = opIndex
<1>1. Entry(op, time) \in Entries
  BY DEF SchedulingInv, TypeOK, Ops, Entries, Entry
<1>. QED
  BY <1>1, Zenon DEF Journal, Entry

\* An entry is dated now or, if it is an invocation, earlier.
LEMMA JournalKeepsInv ==
    ASSUME SchedulingInv, JournalInv, now' = now,
           NEW op \in Ops, NEW time \in 0 .. now, Journal(op, time),
           op.process # Nemesis /\ op.type # "invoke" => time = now
    PROVE  JournalInv'
<1>1. now \in Nat /\ history \in Seq(Entries) /\ opIndex \in Nat
      /\ time \in Nat /\ time <= now
  BY DEF SchedulingInv, TypeOK
<1>2. CASE ~GoesInHistory(op)
  BY <1>1, <1>2, JournalEffect
     DEF JournalInv, HistoryDenseAndTimed, CompletesClientOp
<1>3. CASE GoesInHistory(op)
  <2>. DEFINE e == Entry(op, time)
              n == Len(history) + 1
  <2>1. /\ e \in Entries /\ e.index = opIndex /\ e.time = time
        /\ e.process = op.process /\ e.type = op.type
    BY <1>1, JournalEffect DEF Entry
  <2>2. history' = Append(history, e) /\ opIndex' = opIndex + 1
    BY <1>1, <1>3, JournalEffect
  <2>. HIDE DEF e
  <2>3. /\ n \in Nat \ {0} /\ Len(history') = n
        /\ DOMAIN history = 1 .. n - 1 /\ DOMAIN history' = 1 .. n
        /\ history'[n] = e
        /\ \A i \in 1 .. n - 1 : history'[i] = history[i]
    BY <1>1, <2>1, <2>2
  <2>4. /\ opIndex = n - 1
        /\ \A i \in 1 .. n - 1 : history[i].index = i - 1 /\ history[i].time <= now
        /\ \A i, j \in 1 .. n - 1 :
             i < j /\ CompletesClientOp(history[j]) =>
               history[i].time <= history[j].time
    BY <1>1, <2>3 DEF JournalInv, HistoryDenseAndTimed
  <2>. HIDE DEF n
  <2>5. opIndex' = n
    BY <2>2, <2>3, <2>4
  <2>6. \A i \in 1 .. n : history'[i].index = i - 1 /\ history'[i].time <= now
    <3>1. history'[n].index = n - 1 /\ history'[n].time <= now
      BY <1>1, <2>1, <2>3, <2>4
    <3>. QED  BY <2>3, <2>4, <3>1
  <2>7. ASSUME NEW i \in 1 .. n, NEW j \in 1 .. n,
               i < j, CompletesClientOp(history'[j])
        PROVE  history'[i].time <= history'[j].time
    <3>0. i \in 1 .. n - 1
      BY <2>3, <2>7
    <3>1. CASE j = n
      <4>1. history'[j].time = now
        BY <2>1, <2>3, <2>7, <3>1 DEF CompletesClientOp
      <4>. QED  BY <2>6, <3>0, <4>1
    <3>2. CASE j # n
      <4>1. j \in 1 .. n - 1
        BY <2>3, <3>2
      <4>. QED  BY <2>3, <2>4, <2>7, <3>0, <4>1
    <3>. QED  BY <3>1, <3>2
  <2>8. now' = now /\ Len(history') = n /\ DOMAIN history' = 1 .. n
    BY <2>3
  <2>. QED
    BY <2>5, <2>6, <2>7, <2>8
       DEF JournalInv, HistoryDenseAndTimed, CompletesClientOp
<1>. QED
  BY <1>2, <1>3

\* The journal and the clock in every state.
THEOREM JournalInvariant == Spec => []JournalInv
<1>1. Init => JournalInv
  BY DEF Init, JournalInv, HistoryDenseAndTimed
<1>2. SchedulingInv /\ JournalInv /\ [Next]_vars => JournalInv'
  <2>. SUFFICES ASSUME SchedulingInv, JournalInv, [Next]_vars
                PROVE  JournalInv'
    OBVIOUS
  <2>1. CASE history' = history /\ opIndex' = opIndex /\ now' = now
    BY <2>1 DEF JournalInv, HistoryDenseAndTimed
  <2>2. CASE Tick
    <3>1. history' = history /\ opIndex' = opIndex /\ now' = now + 1
          /\ now \in Nat
      BY <2>2 DEF Tick, mainVars, SchedulingInv, TypeOK
    <3>2. \A i \in DOMAIN history : history[i].time \in Nat
      <4>1. \A i \in DOMAIN history : history[i] \in Entries
        BY DEF SchedulingInv, TypeOK
      <4>. QED  BY <4>1 DEF Entries
    <3>3. \A i \in DOMAIN history : history[i].time <= now + 1
      BY <3>1, <3>2 DEF JournalInv
    <3>. QED  BY <3>1, <3>3 DEF JournalInv, HistoryDenseAndTimed
  <2>3. CASE PollCompletion
    <3>1. PICK op \in Ops : Journal(op, now)
      BY <2>3, PolledProcess
    <3>2. now' = now /\ now \in 0 .. now
      BY <2>3 DEF PollCompletion, SchedulingInv, TypeOK
    <3>. QED  BY <3>1, <3>2, JournalKeepsInv
  <2>4. CASE AskOp
    <3>0. now' = now /\ loop = "ask"
      BY <2>4 DEF AskOp
    <3>1. PICK p \in DOMAIN ctx.processThread :
            \E type \in InvocationTypes(p), time \in 0 .. now :
              Journal(Op(p, type, time), time)
      BY <2>4 DEF AskOp
    <3>2. PICK type \in InvocationTypes(p), time \in 0 .. now :
            Journal(Op(p, type, time), time)
      BY <3>1
    <3>. DEFINE op == Op(p, type, time)
    <3>3. op \in Ops /\ Journal(op, time) /\ op = Op(p, type, time)
      BY <3>0, <3>2, GeneratedOp
    <3>. HIDE DEF op
    <3>4. CASE GoesInHistory(op)
      <4>1. op.process = Nemesis \/ op.type = "invoke"
        BY <3>3, <3>4, InterpreterAssumption
           DEF Op, InvocationTypes, GoesInHistory
      <4>. QED  BY <3>0, <3>3, <4>1, JournalKeepsInv
    <3>5. CASE ~GoesInHistory(op)
      <4>1. history' = history /\ opIndex' = opIndex
        BY <3>3, <3>5 DEF Journal
      <4>. QED  BY <2>1, <3>0, <4>1
    <3>. QED  BY <3>4, <3>5
  <2>5. CASE \E t \in Threads : Worker(t)
    BY <2>1, <2>5
       DEF mainVars, Worker, Take, TakeInterrupted, Control, ControlThrows,
           CloseOld, CloseOldThrows, OpenClient, OpenFails, OpenCrashes,
           Invoke, InvokeThrows, Reply, ReplyCrash, ReplyInterrupted,
           PutCompletion, Close, CloseThrows
  <2>6. CASE Main /\ ~PollCompletion /\ ~AskOp
    BY <2>1, <2>6
       DEF Main, PollEmpty, PollThrows, AskAgain, AskExit, AskThrows, Dispatch,
           DispatchThrows, SendExit, JoinAll, JoinThrows, Cancel, Reap
  <2>7. CASE UNCHANGED vars
    BY <2>1, <2>7 DEF vars, mainVars
  <2>. QED
    BY <2>2, <2>3, <2>4, <2>5, <2>6, <2>7 DEF Next, Stopped
<1>. QED
  BY <1>1, <1>2, SchedulingInvariant, PTL DEF Spec

\* The indices of the history are dense, and a client's completion is dated no
\* earlier than any entry before it.
THEOREM HistoryIsDenseAndTimed == Spec => []HistoryDenseAndTimed
  BY JournalInvariant, PTL DEF JournalInv

-----------------------------------------------------------------------------
(* What an entry does to the processes the history shows. *)

\* The positions of a process, before and after an entry is appended.
LEMMA AppendEntries ==
    ASSUME history \in Seq(Entries), NEW e \in Entries,
           history' = Append(history, e)
    PROVE  LET n == Len(history) + 1
           IN /\ n \in Nat /\ history'[n] = e
              /\ \A i \in DOMAIN history : i < n /\ history'[i] = history[i]
              /\ EntriesOf(e.process)' = EntriesOf(e.process) \cup {n}
              /\ n \notin EntriesOf(e.process)
              /\ \A q : q # e.process => EntriesOf(q)' = EntriesOf(q)
              /\ Seen' = Seen \cup {e.process}
<1>. DEFINE n == Len(history) + 1
<1>1. /\ n \in Nat \ {0} /\ Len(history') = n
      /\ DOMAIN history = 1 .. n - 1 /\ DOMAIN history' = 1 .. n
      /\ history'[n] = e
      /\ \A i \in 1 .. n - 1 : history'[i] = history[i]
  OBVIOUS
<1>. HIDE DEF n
<1>2. /\ DOMAIN history' = DOMAIN history \cup {n} /\ n \notin DOMAIN history
      /\ \A i \in DOMAIN history : i < n /\ history'[i] = history[i]
  BY <1>1
<1>3. EntriesOf(e.process)' = EntriesOf(e.process) \cup {n}
  BY <1>1, <1>2 DEF EntriesOf
<1>4. \A q : q # e.process => EntriesOf(q)' = EntriesOf(q)
  BY <1>1, <1>2 DEF EntriesOf
<1>5. Seen' = Seen \cup {e.process}
  BY <1>1, <1>2 DEF Seen
<1>6. n \notin EntriesOf(e.process)
  BY <1>2 DEF EntriesOf
<1>. QED
  BY <1>1, <1>2, <1>3, <1>4, <1>5, <1>6 DEF n

\* A process is seen when it has an entry.
LEMMA SeenHaveEntries ==
    \A p : p \in Seen <=> EntriesOf(p) # {}
  BY DEF Seen, EntriesOf

\* An entry makes its process run or stop running, and may retire it.
LEMMA EntryEffect ==
    ASSUME history \in Seq(Entries), LastEntriesExist, NEW e \in Entries,
           history' = Append(history, e)
    PROVE  /\ LastEntriesExist'
           /\ Seen' = Seen \cup {e.process}
           /\ HRunning' = IF \/ e.process # Nemesis /\ e.type = "invoke"
                             \/ e.process = Nemesis /\ Nemesis \notin HRunning
                          THEN HRunning \cup {e.process}
                          ELSE HRunning \ {e.process}
           /\ HRetired' = IF e.process # Nemesis /\ (e.type = "info" \/ e.end)
                          THEN HRetired \cup {e.process}
                          ELSE HRetired
<1>. DEFINE n == Len(history) + 1
            p == e.process
<1>0. /\ n \in Nat /\ history'[n] = e
      /\ \A i \in DOMAIN history : i < n /\ history'[i] = history[i]
      /\ EntriesOf(p)' = EntriesOf(p) \cup {n}
      /\ n \notin EntriesOf(p)
      /\ \A q : q # p => EntriesOf(q)' = EntriesOf(q)
      /\ Seen' = Seen \cup {p}
  BY AppendEntries
<1>s. history' \in Seq(Entries)
  OBVIOUS
<1>e. \A q : EntriesOf(q) \subseteq DOMAIN history /\ DOMAIN history \subseteq Nat
  BY DEF EntriesOf
<1>. HIDE DEF n, p
<1>1. n \in EntriesOf(p)' /\ \A j \in EntriesOf(p)' : j <= n
  BY <1>0, <1>e
<1>2. LastEntriesExist'
  <2>1. \A q \in Seen \ {p} : \E i \in EntriesOf(q) : \A j \in EntriesOf(q) : j <= i
    BY DEF LastEntriesExist
  <2>2. \A q \in Seen' : \E i \in EntriesOf(q)' : \A j \in EntriesOf(q)' : j <= i
    BY <1>0, <1>1, <2>1
  <2>. QED  BY <2>2 DEF LastEntriesExist
<1>3. LastOf(p)' = e
  <2>1. LastOf(p)' = history'[CHOOSE i \in EntriesOf(p)' :
                                \A j \in EntriesOf(p)' : j <= i]
    BY DEF LastOf
  <2>2. \A i \in EntriesOf(p)' : (\A j \in EntriesOf(p)' : j <= i) => i = n
    BY <1>0, <1>1, <1>e
  <2>3. (CHOOSE i \in EntriesOf(p)' : \A j \in EntriesOf(p)' : j <= i) = n
    BY <1>1, <2>2
  <2>. QED  BY <1>0, <2>1, <2>3
<1>4. \A q \in Seen \ {p} : LastOf(q)' = LastOf(q)
  <2>. SUFFICES ASSUME NEW q \in Seen \ {p} PROVE LastOf(q)' = LastOf(q)
    OBVIOUS
  <2>. DEFINE c == CHOOSE i \in EntriesOf(q) : \A j \in EntriesOf(q) : j <= i
  <2>1. c \in EntriesOf(q)
    BY DEF LastEntriesExist
  <2>2. EntriesOf(q)' = EntriesOf(q)
    BY <1>0
  <2>3. LastOf(q) = history[c] /\ LastOf(q)' = history'[c]
    BY <2>2 DEF LastOf
  <2>. QED  BY <1>0, <1>e, <2>1, <2>3
<1>5. \A q \in Seen \ {p} : RunningIn(q)' <=> RunningIn(q)
  BY <1>0, <1>4 DEF RunningIn
<1>6. RunningIn(p)' <=> \/ p # Nemesis /\ e.type = "invoke"
                        \/ p = Nemesis /\ Nemesis \notin HRunning
  <2>1. CASE p # Nemesis
    BY <1>3, <2>1 DEF RunningIn
  <2>2. CASE p = Nemesis
    <3>. DEFINE E == EntriesOf(p)
    <3>1. IsFiniteSet(E)
      <4>1. Len(history) \in Nat /\ DOMAIN history = 1 .. Len(history)
        OBVIOUS
      <4>2. IsFiniteSet(DOMAIN history)
        BY <4>1, FS_Interval
      <4>. QED  BY <1>e, <4>2, FS_Subset
    <3>2. EntriesOf(p)' = E \cup {n} /\ n \notin E
      BY <1>0
    <3>3. E = {} => p \notin Seen /\ Cardinality(E) = 0
      BY SeenHaveEntries, FS_EmptySet
    <3>4. E # {} => p \in Seen
      BY SeenHaveEntries
    <3>5. RunningIn(p) <=> Cardinality(E) % 2 = 1
      BY <2>2 DEF RunningIn
    <3>6. RunningIn(p)' <=> Cardinality(EntriesOf(p)') % 2 = 1
      BY <2>2 DEF RunningIn
    <3>. HIDE DEF E
    <3>7. Cardinality(E) \in Nat /\ Cardinality(E \cup {n}) = Cardinality(E) + 1
      BY <3>1, <3>2, FS_AddElement, FS_CardinalityType
    <3>8. (Cardinality(E) + 1) % 2 = 1 <=> Cardinality(E) % 2 # 1
      BY <3>7
    <3>9. RunningIn(p)' <=> ~RunningIn(p)
      BY <3>2, <3>5, <3>6, <3>7, <3>8
    <3>10. p \in HRunning <=> RunningIn(p)
      <4>1. 0 % 2 # 1
        OBVIOUS
      <4>. QED  BY <3>3, <3>4, <3>5, <4>1 DEF HRunning
    <3>. QED  BY <2>2, <3>9, <3>10
  <2>. QED  BY <2>1, <2>2
<1>7. \A q \in Seen \ {p} : RetiredIn(q)' <=> RetiredIn(q)
  BY <1>0, <1>e DEF RetiredIn
<1>8. RetiredIn(p)' <=> p # Nemesis /\ (RetiredIn(p) \/ e.type = "info" \/ e.end)
  BY <1>0, <1>e DEF RetiredIn
<1>9. RetiredIn(p) => p \in Seen /\ p # Nemesis
  BY SeenHaveEntries DEF RetiredIn
<1>10. HRunning' = IF \/ p # Nemesis /\ e.type = "invoke"
                      \/ p = Nemesis /\ Nemesis \notin HRunning
                   THEN HRunning \cup {p} ELSE HRunning \ {p}
  <2>1. \A q : q \in HRunning' <=> q \in Seen' /\ RunningIn(q)'
    BY DEF HRunning
  <2>2. \A q : q \in HRunning <=> q \in Seen /\ RunningIn(q)
    BY DEF HRunning
  <2>. QED  BY <1>0, <1>5, <1>6, <2>1, <2>2
<1>11. HRetired' = IF p # Nemesis /\ (e.type = "info" \/ e.end)
                   THEN HRetired \cup {p} ELSE HRetired
  <2>1. \A q : q \in HRetired' <=> q \in Seen' /\ RetiredIn(q)'
    BY DEF HRetired
  <2>2. \A q : q \in HRetired <=> q \in Seen /\ RetiredIn(q)
    BY DEF HRetired
  <2>. QED  BY <1>0, <1>7, <1>8, <1>9, <2>1, <2>2
<1>. QED
  BY <1>0, <1>2, <1>10, <1>11 DEF p

\* A step that journals nothing changes nothing the history shows.
LEMMA HistoryUnchanged ==
    ASSUME history' = history
    PROVE  /\ HRunning' = HRunning /\ HRetired' = HRetired /\ HIdle' = HIdle
           /\ Seen' = Seen
           /\ LastEntriesExist' <=> LastEntriesExist
  BY DEF HRunning, HRetired, HIdle, Seen, RunningIn, RetiredIn, LastOf,
         EntriesOf, LastEntriesExist

-----------------------------------------------------------------------------
(* Invocations and completions. *)

\* A step of a worker leaves the main thread alone.
LEMMA WorkerLeavesMain ==
    ASSUME NEW t \in Threads, Worker(t)
    PROVE  /\ ctx' = ctx /\ loop' = loop /\ staged' = staged
           /\ history' = history
           /\ Scheduling' <=> Scheduling
           /\ \A u : ProcessOf(u)' = ProcessOf(u)
<1>1. UNCHANGED mainVars
  BY DEF Worker, Take, TakeInterrupted, Control, ControlThrows, CloseOld,
         CloseOldThrows, OpenClient, OpenFails, OpenCrashes, Invoke,
         InvokeThrows, Reply, ReplyCrash, ReplyInterrupted, PutCompletion,
         Close, CloseThrows
<1>. QED
  BY <1>1 DEF mainVars, Scheduling, ProcessOf

\* A worker that answers turns an invocation into a completion of the same
\* process, both in the history.
LEMMA AnswerKind ==
    ASSUME SchedulingInv, NEW t \in Threads, OpenFails(t) \/ Invoke(t)
    PROVE  /\ UNCHANGED <<inbox, completions>>
           /\ wpc[t] = "eval" /\ wpc'[t] = "reply" /\ held[t] # None
           /\ \A u \in Threads \ {t} : wpc'[u] = wpc[u] /\ held'[u] = held[u]
           /\ held'[t] # None
           /\ held'[t].process = held[t].process
           /\ GoesInHistory(held[t]) /\ GoesInHistory(held'[t])
           /\ IsCompletion(held'[t])
<1>1. /\ UNCHANGED <<inbox, completions>>
      /\ wpc[t] = "eval" /\ held[t].type \in {"invoke", "info"}
      /\ \E type \in {"ok", "fail", "info"}, end \in BOOLEAN : Answer(t, type, end)
  BY InterpreterAssumption DEF OpenFails, Invoke, Invoking
<1>2. PICK type \in {"ok", "fail", "info"}, end \in BOOLEAN : Answer(t, type, end)
  BY <1>1
<1>3. /\ held[t] # None
      /\ held'[t].process = held[t].process
      /\ held'[t].type = type
      /\ \A u \in Threads \ {t} : held'[u] = held[u]
  BY <1>1, <1>2, AnswerProcess
<1>4. wpc'[t] = "reply" /\ \A u \in Threads \ {t} : wpc'[u] = wpc[u]
  BY <1>2 DEF Answer, SchedulingInv, TypeOK
<1>5. held'[t] # None
  BY <1>4, WorkerTypes DEF Worker, HeldWhileEvaluating
<1>. QED
  BY <1>1, <1>3, <1>4, <1>5 DEF GoesInHistory, IsCompletion

\* A worker that puts a completion puts that of the operation it holds.
LEMMA PutKind ==
    ASSUME SchedulingInv, Scheduling, OpsKeepTheirKind,
           NEW t \in Threads, Reply(t) \/ ReplyCrash(t)
    PROVE  \E op \in Ops :
             /\ completions' = Append(completions, op)
             /\ IsCompletion(op)
             /\ op.process = held[t].process
             /\ GoesInHistory(op) <=> GoesInHistory(held[t])
             /\ inbox' = inbox /\ held[t] # None
             /\ held' = [held EXCEPT ![t] = None]
             /\ wpc' = [wpc EXCEPT ![t] = "take"]
<1>1. held[t] # None /\ held[t] \in Ops
  BY DEF SchedulingInv, HeldWhileEvaluating, TypeOK, Reply, ReplyCrash
<1>2. CASE Reply(t)
  BY <1>1, <1>2 DEF Reply, PutCompletion, OpsKeepTheirKind
<1>3. CASE ReplyCrash(t)
  <2>. DEFINE op == [held[t] EXCEPT !.type = "info", !.end = FALSE]
  <2>1. op \in Ops /\ op.process = held[t].process /\ op.type = "info"
        /\ op.end = FALSE
    BY <1>1 DEF Ops, OpTypes
  <2>2. GoesInHistory(held[t]) /\ PutCompletion(t, op)
    BY <1>3 DEF ReplyCrash, OpsKeepTheirKind
  <2>. HIDE DEF op
  <2>. QED
    BY <1>1, <2>1, <2>2 DEF PutCompletion, GoesInHistory, IsCompletion
<1>. QED
  BY <1>2, <1>3

\* Control operations do not crash while operations are scheduled.
LEMMA NoControlCrash ==
    ASSUME SchedulingInv, Scheduling, OpsKeepTheirKind, ControlsDoNotCrash,
           NEW t \in Threads
    PROVE  ~ControlThrows(t)
<1>. SUFFICES ASSUME ControlThrows(t) PROVE FALSE
  OBVIOUS
<1>1. ~interrupted[t] /\ IsInvocation(held[t]) /\ held[t].type \in {"sleep", "log"}
  BY DEF ControlThrows, SchedulingInv, NoInterruptsYet, OpsKeepTheirKind
<1>2. held[t].type \in Controls
  BY <1>1 DEF IsInvocation, InvocationTypes
<1>. QED
  BY <1>1, <1>2 DEF ControlThrows, Throws, ControlsDoNotCrash

LEMMA KindWorker ==
    ASSUME SchedulingInv, OpsKeepTheirKind, ControlsDoNotCrash,
           NEW t \in Threads, Worker(t)
    PROVE  OpsKeepTheirKind'
<1>. SUFFICES ASSUME Scheduling' PROVE OpsKeepTheirKind'
  BY DEF OpsKeepTheirKind
<1>0. Scheduling /\ loop' = loop /\ staged' = staged
  BY WorkerLeavesMain
<1>k. /\ loop = "put" => IsInvocation(staged)
      /\ \A u \in Threads : /\ inbox[u] # None   => IsInvocation(inbox[u])
                            /\ wpc[u] = "eval"   => IsInvocation(held[u])
                            /\ wpc[u] = "reply"  => IsCompletion(held[u])
                            /\ wpc[u] = "crash"  => GoesInHistory(held[u])
      /\ \A i \in DOMAIN completions : IsCompletion(completions[i])
      /\ \A u \in Threads : ~interrupted[u]
  BY <1>0 DEF OpsKeepTheirKind, SchedulingInv, NoInterruptsYet
<1>t. /\ wpc \in [Threads -> WorkerStates]
      /\ held \in [Threads -> Ops \cup {None}]
      /\ inbox \in [Threads -> Ops \cup {None, Exit}]
      /\ completions \in Seq(Ops)
  BY DEF SchedulingInv, TypeOK
<1>. DEFINE Kinds(u) == /\ inbox[u] # None   => IsInvocation(inbox[u])
                        /\ wpc[u] = "eval"   => IsInvocation(held[u])
                        /\ wpc[u] = "reply"  => IsCompletion(held[u])
                        /\ wpc[u] = "crash"  => GoesInHistory(held[u])
<1>q. SUFFICES /\ \A u \in Threads : Kinds(u)'
               /\ \A i \in DOMAIN completions' : IsCompletion(completions'[i])
  <2>1. loop' = "put" => IsInvocation(staged)'
    BY <1>0, <1>k DEF IsInvocation
  <2>2. \A i \in DOMAIN completions' : IsCompletion(completions[i])'
    BY DEF IsCompletion, GoesInHistory
  <2>. QED  BY <2>1, <2>2 DEF OpsKeepTheirKind
<1>1. CASE Take(t)
  <2>1. CASE inbox[t].type = "exit"
    <3>1. held' = held /\ completions' = completions
          /\ inbox' = [inbox EXCEPT ![t] = None]
          /\ wpc' = [wpc EXCEPT ![t] = "close"]
      BY <1>1, <2>1 DEF Take
    <3>. QED  BY <1>k, <1>t, <3>1 DEF IsInvocation, IsCompletion, GoesInHistory
  <2>2. CASE inbox[t].type # "exit"
    <3>1. held' = [held EXCEPT ![t] = inbox[t]] /\ completions' = completions
          /\ inbox' = [inbox EXCEPT ![t] = None] /\ inbox[t] # None
          /\ wpc' = [wpc EXCEPT ![t] = "eval"]
      BY <1>1, <2>2 DEF Take
    <3>2. ASSUME NEW u \in Threads PROVE Kinds(u)'
      <4>1. CASE u = t
        BY <1>k, <1>t, <3>1, <4>1 DEF IsInvocation, IsCompletion, GoesInHistory
      <4>2. CASE u # t
        BY <1>k, <1>t, <3>1, <4>2 DEF IsInvocation, IsCompletion, GoesInHistory
      <4>. QED  BY <4>1, <4>2
    <3>. QED  BY <1>k, <3>1, <3>2
  <2>. QED  BY <2>1, <2>2
<1>2. CASE TakeInterrupted(t) \/ ReplyInterrupted(t)
  BY <1>2, <1>k DEF TakeInterrupted, ReplyInterrupted
<1>3. CASE ControlThrows(t)
  BY <1>0, <1>3, NoControlCrash
<1>4. CASE /\ UNCHANGED <<inbox, held, completions>>
           /\ \/ wpc' = wpc
              \/ /\ wpc' = [wpc EXCEPT ![t] = wpc'[t]]
                 /\ wpc'[t] # "eval"
                 /\ wpc'[t] = "reply" => IsCompletion(held[t])
                 /\ wpc'[t] = "crash" => GoesInHistory(held[t])
  <2>1. ASSUME NEW u \in Threads PROVE Kinds(u)'
    <3>1. CASE wpc'[u] = wpc[u]
      BY <1>k, <1>4, <3>1 DEF IsInvocation, IsCompletion, GoesInHistory
    <3>2. CASE wpc'[u] # wpc[u]
      <4>1. /\ wpc'[u] # "eval"
            /\ wpc'[u] = "reply" => IsCompletion(held[u])
            /\ wpc'[u] = "crash" => GoesInHistory(held[u])
        BY <1>t, <1>4, <3>2
      <4>. QED  BY <1>k, <1>4, <4>1 DEF IsInvocation, IsCompletion, GoesInHistory
    <3>. QED  BY <3>1, <3>2
  <2>. QED  BY <1>k, <1>4, <2>1
<1>5. CASE Control(t)
  <2>1. IsCompletion(held[t])
    BY <1>5, <1>k DEF Control, IsInvocation, IsCompletion
  <2>. QED  BY <1>t, <1>4, <1>5, <2>1 DEF Control
<1>6. CASE \/ CloseOldThrows(t) \/ OpenCrashes(t) \/ InvokeThrows(t)
           \/ CloseThrows(t)
  <2>1. wpc[t] = "eval" => held[t].type \in {"invoke", "info"}
    BY <1>6
       DEF CloseOldThrows, OpenCrashes, InvokeThrows, CloseThrows, Invoking
  <2>. QED
    BY <1>t, <1>4, <1>6, <2>1
       DEF CloseOldThrows, OpenCrashes, InvokeThrows, CloseThrows, Invoking,
           GoesInHistory
<1>7. CASE CloseOld(t) \/ OpenClient(t)
  BY <1>4, <1>7 DEF CloseOld, OpenClient
<1>8. CASE Close(t)
  BY <1>t, <1>4, <1>8 DEF Close
<1>9. CASE OpenFails(t) \/ Invoke(t)
  <2>1. ASSUME NEW u \in Threads PROVE Kinds(u)'
    BY <1>9, <1>k, AnswerKind DEF IsInvocation, IsCompletion, GoesInHistory
  <2>. QED  BY <1>9, <1>k, <2>1, AnswerKind
<1>10. CASE Reply(t) \/ ReplyCrash(t)
  <2>1. PICK op \in Ops :
          /\ completions' = Append(completions, op) /\ IsCompletion(op)
          /\ inbox' = inbox /\ held' = [held EXCEPT ![t] = None]
          /\ wpc' = [wpc EXCEPT ![t] = "take"]
    BY <1>0, <1>10, PutKind
  <2>2. \A i \in DOMAIN completions' : IsCompletion(completions'[i])
    BY <1>k, <1>t, <2>1
  <2>3. ASSUME NEW u \in Threads PROVE Kinds(u)'
    BY <1>k, <1>t, <2>1 DEF IsInvocation, IsCompletion, GoesInHistory
  <2>. QED  BY <2>2, <2>3
<1>. QED
  BY <1>1, <1>2, <1>3, <1>5, <1>6, <1>7, <1>8, <1>9, <1>10 DEF Worker

\* The generator's operation is an invocation.
LEMMA GeneratedKind ==
    ASSUME NEW p, NEW type \in InvocationTypes(p), NEW time,
           NEW op, op = Op(p, type, time)
    PROVE  /\ IsInvocation(op) /\ op.process = p /\ op.end = FALSE
           /\ GoesInHistory(op) <=>
                type = IF p = Nemesis THEN "info" ELSE "invoke"
           /\ op.type = type
<1>1. type \in {"sleep", "log"} \/ type = IF p = Nemesis THEN "info" ELSE "invoke"
  BY InterpreterAssumption DEF InvocationTypes
<1>. QED
  BY <1>1 DEF IsInvocation, Op, GoesInHistory

LEMMA KindMain ==
    ASSUME SchedulingInv, OpsKeepTheirKind, Main
    PROVE  OpsKeepTheirKind'
<1>. SUFFICES ASSUME Scheduling' PROVE OpsKeepTheirKind'
  BY DEF OpsKeepTheirKind
<1>t. /\ inbox \in [Threads -> Ops \cup {None, Exit}]
      /\ completions \in Seq(Ops)
  BY DEF SchedulingInv, TypeOK
<1>0. Scheduling /\ UNCHANGED <<wpc, held>>
  BY DEF Scheduling, Main, PollCompletion, PollEmpty, PollThrows, AskAgain,
         AskOp, AskExit, AskThrows, Dispatch, DispatchThrows, PutStaged,
         SendExit, JoinAll, JoinThrows, Cancel, Reap, Abort, workerVars
<1>k. /\ loop = "put" => IsInvocation(staged)
      /\ \A u \in Threads : /\ inbox[u] # None   => IsInvocation(inbox[u])
                            /\ wpc[u] = "eval"   => IsInvocation(held[u])
                            /\ wpc[u] = "reply"  => IsCompletion(held[u])
                            /\ wpc[u] = "crash"  => GoesInHistory(held[u])
      /\ \A i \in DOMAIN completions : IsCompletion(completions[i])
  BY <1>0 DEF OpsKeepTheirKind
<1>h. \A u \in Threads : /\ wpc'[u] = "eval"   => IsInvocation(held[u])'
                         /\ wpc'[u] = "reply"  => IsCompletion(held[u])'
                         /\ wpc'[u] = "crash"  => GoesInHistory(held[u])'
  BY <1>0, <1>k DEF IsInvocation, IsCompletion, GoesInHistory
<1>q. ASSUME /\ loop' = "put" => IsInvocation(staged')
             /\ \A u \in Threads : inbox'[u] # None => IsInvocation(inbox'[u])
             /\ \A i \in DOMAIN completions' : IsCompletion(completions'[i])
      PROVE  OpsKeepTheirKind'
  BY <1>h, <1>q DEF OpsKeepTheirKind, IsInvocation, IsCompletion, GoesInHistory
<1>1. CASE PollCompletion
  <2>1. \A i \in DOMAIN completions' : /\ i + 1 \in DOMAIN completions
                                       /\ completions'[i] = completions[i + 1]
    BY <1>1, <1>t DEF PollCompletion
  <2>2. loop' = "poll" /\ inbox' = inbox
    BY <1>1 DEF PollCompletion
  <2>. QED  BY <1>k, <1>q, <2>1, <2>2
<1>2. CASE PollEmpty \/ AskAgain
  BY <1>2, <1>k, <1>q DEF PollEmpty, AskAgain
<1>3. CASE AskOp
  <2>0. PICK p \in DOMAIN ctx.processThread :
          \E type \in InvocationTypes(p), time \in 0 .. now :
            staged' = Op(p, type, time)
    BY <1>3 DEF AskOp
  <2>1. PICK type \in InvocationTypes(p), time \in 0 .. now :
          staged' = Op(p, type, time)
    BY <2>0
  <2>2. IsInvocation(staged')
    BY <2>1, GeneratedKind
  <2>. QED  BY <1>3, <1>k, <1>q, <2>2 DEF AskOp
<1>4. CASE Dispatch
  <2>1. \A u \in Threads : inbox'[u] # None => inbox'[u] \in {inbox[u], staged}
    BY <1>4, <1>t DEF Dispatch, PutStaged
  <2>2. loop = "put" /\ loop' = "poll" /\ completions' = completions
    BY <1>4 DEF Dispatch, PutStaged
  <2>3. ASSUME NEW u \in Threads, inbox'[u] # None PROVE IsInvocation(inbox'[u])
    <3>1. CASE inbox'[u] = staged
      BY <1>k, <2>2, <3>1
    <3>2. CASE inbox'[u] = inbox[u]
      BY <1>k, <2>3, <3>2
    <3>. QED  BY <2>1, <2>3, <3>1, <3>2
  <2>. QED  BY <1>k, <1>q, <2>2, <2>3
<1>5. CASE ~(PollCompletion \/ PollEmpty \/ AskAgain \/ AskOp \/ Dispatch)
  BY <1>5 DEF Scheduling, Main, PollThrows, AskExit, AskThrows,
       DispatchThrows, SendExit, JoinAll, JoinThrows, Cancel, Reap, Abort
<1>. QED
  BY <1>1, <1>2, <1>3, <1>4, <1>5

-----------------------------------------------------------------------------
(* The history and the threads. *)

\* A worker's step neither gains nor loses a journaled invocation.
LEMMA JournaledWorker ==
    ASSUME SchedulingInv, Scheduling, OpsKeepTheirKind, ControlsDoNotCrash,
           NEW t \in Threads, Worker(t), NEW u \in Threads
    PROVE  Journaled(u)' <=> Journaled(u)
<1>0. /\ loop' = loop /\ staged' = staged /\ ProcessOf(u)' = ProcessOf(u)
      /\ \A v \in Threads : ~interrupted[v]
  BY WorkerLeavesMain DEF SchedulingInv, NoInterruptsYet
<1>t. /\ held \in [Threads -> Ops \cup {None}]
      /\ inbox \in [Threads -> Ops \cup {None, Exit}]
      /\ completions \in Seq(Ops)
  BY DEF SchedulingInv, TypeOK
<1>. DEFINE Inbox(v) == inbox[v] # None /\ GoesInHistory(inbox[v])
            Held(v)  == held[v] # None /\ GoesInHistory(held[v])
            Done(v)  == \E i \in DOMAIN completions :
                          /\ completions[i].process = ProcessOf(v)
                          /\ GoesInHistory(completions[i])
<1>q. ASSUME (Inbox(u) \/ Held(u) \/ Done(u))' <=> Inbox(u) \/ Held(u) \/ Done(u)
      PROVE  Journaled(u)' <=> Journaled(u)
  BY <1>0, <1>q DEF Journaled, GoesInHistory
<1>1. CASE Take(t)
  <2>1. inbox[t].type # "exit" /\ inbox[t] # None
    <3>1. inbox[t] # None /\ IsInvocation(inbox[t])
      BY <1>1 DEF Take, OpsKeepTheirKind
    <3>. QED
      BY <3>1, InterpreterAssumption DEF IsInvocation, InvocationTypes
  <2>2. held' = [held EXCEPT ![t] = inbox[t]] /\ completions' = completions
        /\ inbox' = [inbox EXCEPT ![t] = None] /\ held[t] = None
    BY <1>1, <2>1 DEF Take, SchedulingInv, HeldWhileEvaluating
  <2>3. Done(u)' <=> Done(u)
    BY <1>0, <2>2 DEF GoesInHistory
  <2>4. (Inbox(u) \/ Held(u))' <=> Inbox(u) \/ Held(u)
    <3>1. CASE u = t
      BY <1>t, <2>1, <2>2, <3>1 DEF GoesInHistory
    <3>2. CASE u # t
      BY <1>t, <2>2, <3>2 DEF GoesInHistory
    <3>. QED  BY <3>1, <3>2
  <2>. QED  BY <1>q, <2>3, <2>4
<1>2. CASE TakeInterrupted(t) \/ ReplyInterrupted(t)
  BY <1>0, <1>2 DEF TakeInterrupted, ReplyInterrupted
<1>3. CASE UNCHANGED <<inbox, held, completions>>
  BY <1>0, <1>3, <1>q DEF GoesInHistory
<1>4. CASE \/ Control(t) \/ ControlThrows(t) \/ CloseOld(t)
           \/ CloseOldThrows(t) \/ OpenClient(t) \/ OpenCrashes(t)
           \/ InvokeThrows(t) \/ Close(t) \/ CloseThrows(t)
  BY <1>3, <1>4 DEF Control, ControlThrows, CloseOld, CloseOldThrows,
       OpenClient, OpenCrashes, InvokeThrows, Close, CloseThrows
<1>5. CASE OpenFails(t) \/ Invoke(t)
  <2>1. /\ UNCHANGED <<inbox, completions>>
        /\ held[t] # None /\ held'[t] # None
        /\ GoesInHistory(held[t]) /\ GoesInHistory(held'[t])
        /\ \A v \in Threads \ {t} : held'[v] = held[v]
    BY <1>5, AnswerKind
  <2>2. Held(u)' <=> Held(u)
    BY <2>1 DEF GoesInHistory
  <2>. QED  BY <1>0, <1>q, <2>1, <2>2 DEF GoesInHistory
<1>6. CASE Reply(t) \/ ReplyCrash(t)
  <2>1. PICK op \in Ops :
          /\ completions' = Append(completions, op)
          /\ op.process = held[t].process
          /\ GoesInHistory(op) <=> GoesInHistory(held[t])
          /\ inbox' = inbox /\ held[t] # None
          /\ held' = [held EXCEPT ![t] = None]
    BY <1>6, PutKind
  <2>. DEFINE n == Len(completions) + 1
  <2>2. /\ DOMAIN completions' = DOMAIN completions \cup {n}
        /\ n \notin DOMAIN completions
        /\ completions'[n] = op
        /\ \A i \in DOMAIN completions : completions'[i] = completions[i]
    BY <1>t, <2>1
  <2>. HIDE DEF n
  <2>3. Done(u)' <=> \/ Done(u)
                     \/ op.process = ProcessOf(u) /\ GoesInHistory(op)
    BY <1>0, <2>2 DEF GoesInHistory
  <2>4. op.process = ProcessOf(u) <=> u = t
    BY <2>1, ProcessOwners
       DEF SchedulingInv, OneOpPerBusyThread, OneCarrier, InWorker
  <2>5. Inbox(u)' <=> Inbox(u)
    BY <2>1 DEF GoesInHistory
  <2>6. Held(u)' <=> Held(u) /\ u # t
    BY <1>t, <2>1 DEF GoesInHistory
  <2>7. u = t => (Held(u) <=> GoesInHistory(op))
    BY <2>1
  <2>. QED  BY <1>q, <2>3, <2>4, <2>5, <2>6, <2>7
<1>. QED
  BY <1>1, <1>2, <1>4, <1>5, <1>6 DEF Worker

\* The process that follows that of a thread is not in the history.
LEMMA NextProcessUnseen ==
    ASSUME SchedulingInv, Scheduling, HistoryMatchesThreads,
           NEW t \in ClientThreads
    PROVE  /\ NextProcess(ProcessOf(t)) = ProcessOf(t) + Concurrency
           /\ NextProcess(ProcessOf(t)) \notin Seen
           /\ NextProcess(ProcessOf(t)) # ProcessOf(t)
<1>. DEFINE p == ProcessOf(t)
            new == NextProcess(p)
<1>1. p \in Nat /\ Concurrency \in Nat \ {0}
  BY ContextAssumption DEF SchedulingInv, ProcessNumbering
<1>2. new = p + Concurrency /\ new # p /\ new > p
  BY <1>1 DEF NextProcess
<1>3. PICK k \in 0 .. new : new = t + k * Concurrency
  BY NextProcessIsFresh
<1>4. ASSUME new \in Seen PROVE FALSE
  <2>1. new # Nemesis
    BY <1>1, <1>2, ContextAssumption
  <2>2. PICK u \in ClientThreads :
          new <= ProcessOf(u) /\ \E j \in 0 .. new : new = u + j * Concurrency
    BY <1>4, <2>1 DEF HistoryMatchesThreads
  <2>3. PICK j \in 0 .. new : new = u + j * Concurrency
    BY <2>2
  <2>4. k \in Nat /\ j \in Nat
    BY <1>1, <1>2, <1>3, <2>3
  <2>5. t = u
    BY <1>3, <2>3, <2>4, Congruence
  <2>6. new <= p
    BY <2>2, <2>5
  <2>. QED  BY <1>1, <1>2, <2>6
<1>. QED
  BY <1>2, <1>4

\* What the history shows when an operation is invoked.
LEMMA BeginEffect ==
    ASSUME SchedulingInv, LastEntriesExist, HistoryMatchesThreads, AskOp
    PROVE  \E t \in Threads, op \in Ops :
             /\ ProcessOf(t) \notin HRunning
             /\ \A u \in Threads :
                  /\ ProcessOf(u)' = ProcessOf(u)
                  /\ Journaled(u)' <=> Journaled(u) \/ (u = t /\ GoesInHistory(op))
             /\ LastEntriesExist'
             /\ ~GoesInHistory(op) => history' = history
             /\ GoesInHistory(op) =>
                  /\ Seen' = Seen \cup {ProcessOf(t)}
                  /\ HRunning' = HRunning \cup {ProcessOf(t)}
                  /\ HRetired' = HRetired
<1>0. Scheduling /\ loop = "ask" /\ loop' = "put" /\ now \in Nat
      /\ UNCHANGED <<inbox, held, completions>>
  BY DEF AskOp, Scheduling, workerVars, SchedulingInv, TypeOK
<1>1. PICK p \in DOMAIN ctx.processThread :
        /\ ValidProcess(ctx, p)
        /\ \E type \in InvocationTypes(p), time \in 0 .. now :
             staged' = Op(p, type, time) /\ Journal(Op(p, type, time), time)
  BY DEF AskOp
<1>2. PICK type \in InvocationTypes(p), time \in 0 .. now :
        staged' = Op(p, type, time) /\ Journal(Op(p, type, time), time)
  BY <1>1
<1>. DEFINE op == Op(p, type, time)
<1>3. /\ op \in Ops /\ op.process = p /\ op.end = FALSE /\ op.type = type
      /\ GoesInHistory(op) <=> type = IF p = Nemesis THEN "info" ELSE "invoke"
  <2>1. op \in Ops /\ op = Op(p, type, time)
    BY <1>0, GeneratedOp
  <2>. HIDE DEF op
  <2>. QED
    BY <2>1, InterpreterAssumption DEF Op, InvocationTypes, GoesInHistory
<1>. HIDE DEF op
<1>4. PICK t \in Threads : p = ProcessOf(t) /\ ThreadFree(ctx, t)
  BY <1>0, <1>1, ProcessOwners DEF ValidProcess
<1>5. ~Journaled(t)
  BY <1>0, <1>4 DEF Journaled, SchedulingInv, OneOpPerBusyThread, OneCarrier,
       InInbox, InWorker, InCompletions
<1>6. p \notin HRunning
  BY <1>0, <1>4, <1>5 DEF HistoryMatchesThreads
<1>7. \A u \in Threads : ProcessOf(u)' = ProcessOf(u)
  BY ProcessesStay, <1>0 DEF Next, Main, PollCompletion
<1>8. ASSUME NEW u \in Threads
      PROVE  Journaled(u)' <=> Journaled(u) \/ (u = t /\ GoesInHistory(op))
  <2>1. staged' = op /\ (op.process = ProcessOf(u) <=> u = t)
    BY <1>0, <1>2, <1>3, <1>4, ProcessOwners DEF op
  <2>2. ProcessOf(u)' = ProcessOf(u)
    BY <1>7
  <2>. QED  BY <1>0, <2>1, <2>2 DEF Journaled, GoesInHistory
<1>9. CASE ~GoesInHistory(op)
  <2>1. history' = history
    BY <1>0, <1>2, <1>3, <1>9, JournalEffect DEF op
  <2>. QED  BY <1>3, <1>4, <1>6, <1>7, <1>8, <1>9, <2>1, HistoryUnchanged
<1>10. CASE GoesInHistory(op)
  <2>. DEFINE e == Entry(op, time)
  <2>1. e \in Entries /\ history' = Append(history, e)
    BY <1>0, <1>2, <1>3, <1>10, JournalEffect DEF op
  <2>2. /\ e.process = p /\ e.end = FALSE
        /\ e.type = IF p = Nemesis THEN "info" ELSE "invoke"
    BY <1>3, <1>10 DEF Entry
  <2>3. history \in Seq(Entries)
    BY DEF SchedulingInv, TypeOK
  <2>. HIDE DEF e
  <2>4. /\ LastEntriesExist'
        /\ Seen' = Seen \cup {p}
        /\ HRunning' = HRunning \cup {p}
        /\ HRetired' = HRetired
    BY <1>6, <2>1, <2>2, <2>3, EntryEffect
  <2>. QED  BY <1>3, <1>4, <1>6, <1>7, <1>8, <1>10, <2>4
<1>. QED
  BY <1>9, <1>10

\* What the history shows when an operation is completed.
LEMMA EndEffect ==
    ASSUME SchedulingInv, LastEntriesExist, OpsKeepTheirKind,
           HistoryMatchesThreads, PollCompletion
    PROVE  \E t \in Threads, op \in Ops :
             /\ ProcessOf(t) \in HRunning <=> GoesInHistory(op)
             /\ Retires(op, t) => t \in ClientThreads /\ GoesInHistory(op)
             /\ ~Journaled(t)'
             /\ \A u \in Threads \ {t} : /\ ProcessOf(u)' = ProcessOf(u)
                                         /\ Journaled(u)' <=> Journaled(u)
             /\ ProcessOf(t)' = IF Retires(op, t) THEN ProcessOf(t) + Concurrency
                                                  ELSE ProcessOf(t)
             /\ LastEntriesExist'
             /\ ~GoesInHistory(op) => history' = history
             /\ GoesInHistory(op) =>
                  /\ Seen' = Seen \cup {ProcessOf(t)}
                  /\ HRunning' = HRunning \ {ProcessOf(t)}
                  /\ HRetired' = IF Retires(op, t)
                                 THEN HRetired \cup {ProcessOf(t)} ELSE HRetired
<1>0. /\ Scheduling /\ loop = "poll" /\ loop' = "poll" /\ now \in Nat
      /\ UNCHANGED <<inbox, held>> /\ completions' = Tail(completions)
      /\ completions \in Seq(Ops) /\ completions # << >>
  BY DEF PollCompletion, Scheduling, workerVars, SchedulingInv, TypeOK
<1>1. PICK op \in Ops, t \in Threads :
        /\ op = completions[1] /\ 1 \in DOMAIN completions
        /\ op.process = ProcessOf(t)
        /\ Journal(op, now)
        /\ ThreadFree(ctx', t)
        /\ \A u \in Threads :
             ProcessOf(u)' = IF u = t /\ Retires(op, t)
                             THEN NextProcess(ProcessOf(t)) ELSE ProcessOf(u)
  BY PolledProcess
<1>. DEFINE p == ProcessOf(t)
<1>2. IsCompletion(op)
  BY <1>0, <1>1 DEF OpsKeepTheirKind
<1>3. Retires(op, t) => t \in ClientThreads /\ GoesInHistory(op)
  BY <1>2 DEF Retires, IsCompletion, GoesInHistory, Threads
<1>c. p = Nemesis <=> t = Nemesis
  BY <1>0, ContextAssumption DEF SchedulingInv, ProcessNumbering, Threads
<1>u. /\ \A i, j \in DOMAIN completions :
           completions[i].process = completions[j].process => i = j
      /\ inbox[t] = None /\ held[t] = None
  BY <1>0, <1>1 DEF SchedulingInv, OneOpPerBusyThread, CompletionsOwned,
       OneCarrier, InInbox, InWorker, InCompletions
<1>4. Journaled(t) <=> GoesInHistory(op)
  <2>1. \A i \in DOMAIN completions : completions[i].process = p => completions[i] = op
    BY <1>1, <1>u
  <2>. QED  BY <1>0, <1>1, <1>u, <2>1 DEF Journaled
<1>5. p \in HRunning <=> GoesInHistory(op)
  BY <1>0, <1>4 DEF HistoryMatchesThreads
<1>6. ~Journaled(t)'
  <2>1. OneCarrier(t)'
    BY <1>0, CompletionStep DEF OneOpPerBusyThread, Scheduling
  <2>. QED
    BY <1>0, <1>1, <2>1 DEF OneCarrier, InInbox, InWorker, InCompletions, Journaled
<1>7. ASSUME NEW u \in Threads \ {t}
      PROVE  ProcessOf(u)' = ProcessOf(u) /\ (Journaled(u)' <=> Journaled(u))
  <2>1. ProcessOf(u)' = ProcessOf(u) /\ ProcessOf(u) # p
    BY <1>0, <1>1, ProcessOwners
  <2>2. /\ \A i \in DOMAIN completions' : /\ i + 1 \in DOMAIN completions
                                          /\ completions'[i] = completions[i + 1]
        /\ \A i \in DOMAIN completions : i # 1 =>
             i - 1 \in DOMAIN completions' /\ completions'[i - 1] = completions[i]
    BY <1>0
  <2>3. (\E i \in DOMAIN completions' : /\ completions'[i].process = ProcessOf(u)
                                        /\ GoesInHistory(completions'[i]))
        <=> \E i \in DOMAIN completions : /\ completions[i].process = ProcessOf(u)
                                          /\ GoesInHistory(completions[i])
    BY <1>1, <2>1, <2>2
  <2>. QED  BY <1>0, <2>1, <2>3 DEF Journaled, GoesInHistory
<1>8. ProcessOf(t)' = IF Retires(op, t) THEN p + Concurrency ELSE p
  BY <1>0, <1>1, <1>3, NextProcessUnseen
<1>9. CASE ~GoesInHistory(op)
  <2>1. history' = history
    BY <1>0, <1>1, <1>9, JournalEffect
  <2>. QED  BY <1>3, <1>5, <1>6, <1>7, <1>8, <1>9, <2>1, HistoryUnchanged
<1>10. CASE GoesInHistory(op)
  <2>. DEFINE e == Entry(op, now)
  <2>1. e \in Entries /\ history' = Append(history, e)
    BY <1>0, <1>1, <1>10, JournalEffect
  <2>2. e.process = p /\ e.end = op.end /\ e.type = op.type /\ e.type # "invoke"
    BY <1>1, <1>2 DEF Entry, IsCompletion
  <2>3. history \in Seq(Entries)
    BY DEF SchedulingInv, TypeOK
  <2>. HIDE DEF e
  <2>4. /\ LastEntriesExist'
        /\ Seen' = Seen \cup {p}
        /\ HRunning' = HRunning \ {p}
        /\ HRetired' = IF p # Nemesis /\ (e.type = "info" \/ e.end)
                       THEN HRetired \cup {p} ELSE HRetired
    BY <1>5, <1>10, <2>1, <2>2, <2>3, EntryEffect
  <2>5. (p # Nemesis /\ (e.type = "info" \/ e.end)) <=> Retires(op, t)
    BY <1>c, <2>2 DEF Retires
  <2>. QED  BY <1>3, <1>5, <1>6, <1>7, <1>8, <1>10, <2>4, <2>5
<1>. QED
  BY <1>9, <1>10

-----------------------------------------------------------------------------
(* The link between the history and the threads is kept. *)

LEMMA MatchBegin ==
    ASSUME SchedulingInv, LastEntriesExist, HistoryMatchesThreads, AskOp
    PROVE  HistoryMatchesThreads'
<1>0. Scheduling
  BY DEF AskOp, Scheduling
<1>1. PICK t \in Threads, op \in Ops :
        /\ ProcessOf(t) \notin HRunning
        /\ \A u \in Threads :
             /\ ProcessOf(u)' = ProcessOf(u)
             /\ Journaled(u)' <=> Journaled(u) \/ (u = t /\ GoesInHistory(op))
        /\ ~GoesInHistory(op) => history' = history
        /\ GoesInHistory(op) =>
             /\ Seen' = Seen \cup {ProcessOf(t)}
             /\ HRunning' = HRunning \cup {ProcessOf(t)}
             /\ HRetired' = HRetired
  BY BeginEffect
<1>m. /\ \A u \in Threads : ProcessOf(u) \in HRunning <=> Journaled(u)
      /\ HRunning \subseteq {ProcessOf(u) : u \in Threads}
      /\ \A u \in Threads :
           /\ ProcessOf(u) \notin HRetired
           /\ ProcessOf(u) \in Threads \cup {p + Concurrency : p \in HRetired}
      /\ \A p \in Seen \ {Nemesis} : \E u \in ClientThreads :
           p <= ProcessOf(u) /\ \E k \in 0 .. p : p = u + k * Concurrency
  BY <1>0 DEF HistoryMatchesThreads
<1>2. CASE ~GoesInHistory(op)
  <2>1. HRunning' = HRunning /\ HRetired' = HRetired /\ Seen' = Seen
    BY <1>1, <1>2, HistoryUnchanged
  <2>2. ClientThreads \subseteq Threads
    BY DEF Threads
  <2>. QED  BY <1>1, <1>2, <1>m, <2>1, <2>2 DEF HistoryMatchesThreads
<1>3. CASE GoesInHistory(op)
  <2>1. /\ Seen' = Seen \cup {ProcessOf(t)}
        /\ HRunning' = HRunning \cup {ProcessOf(t)}
        /\ HRetired' = HRetired
    BY <1>1, <1>3
  <2>2. \A u \in Threads : ProcessOf(u)' \in HRunning' <=> Journaled(u)'
    BY <1>0, <1>1, <1>3, <1>m, <2>1, ProcessOwners
  <2>3. \A p \in Seen' \ {Nemesis} : \E u \in ClientThreads :
          p <= ProcessOf(u) /\ \E k \in 0 .. p : p = u + k * Concurrency
    <3>1. ProcessOf(t) # Nemesis =>
            /\ t \in ClientThreads /\ ProcessOf(t) \in Nat
            /\ \E k \in 0 .. ProcessOf(t) : ProcessOf(t) = t + k * Concurrency
      BY <1>0 DEF SchedulingInv, ProcessNumbering, Threads
    <3>2. ProcessOf(t) # Nemesis => ProcessOf(t) <= ProcessOf(t)
      BY <3>1
    <3>. QED  BY <1>m, <2>1, <3>1, <3>2
  <2>4. ClientThreads \subseteq Threads
    BY DEF Threads
  <2>5. \A p \in Seen' \ {Nemesis} : \E u \in ClientThreads :
          p <= ProcessOf(u)' /\ \E k \in 0 .. p : p = u + k * Concurrency
    BY <1>1, <2>3, <2>4
  <2>6. HRunning' \subseteq {ProcessOf(u)' : u \in Threads}
    BY <1>1, <1>m, <2>1
  <2>7. \A u \in Threads :
          /\ ProcessOf(u)' \notin HRetired'
          /\ ProcessOf(u)' \in Threads \cup {p + Concurrency : p \in HRetired'}
    BY <1>1, <1>m, <2>1
  <2>. QED  BY <2>2, <2>5, <2>6, <2>7 DEF HistoryMatchesThreads
<1>. QED
  BY <1>2, <1>3

LEMMA MatchEnd ==
    ASSUME SchedulingInv, LastEntriesExist, OpsKeepTheirKind,
           HistoryMatchesThreads, PollCompletion
    PROVE  HistoryMatchesThreads'
<1>0. Scheduling
  BY DEF PollCompletion, Scheduling
<1>1. PICK t \in Threads, op \in Ops :
        /\ ProcessOf(t) \in HRunning <=> GoesInHistory(op)
        /\ Retires(op, t) => t \in ClientThreads /\ GoesInHistory(op)
        /\ ~Journaled(t)'
        /\ \A u \in Threads \ {t} : /\ ProcessOf(u)' = ProcessOf(u)
                                    /\ Journaled(u)' <=> Journaled(u)
        /\ ProcessOf(t)' = IF Retires(op, t) THEN ProcessOf(t) + Concurrency
                                             ELSE ProcessOf(t)
        /\ ~GoesInHistory(op) => history' = history
        /\ GoesInHistory(op) =>
             /\ Seen' = Seen \cup {ProcessOf(t)}
             /\ HRunning' = HRunning \ {ProcessOf(t)}
             /\ HRetired' = IF Retires(op, t)
                            THEN HRetired \cup {ProcessOf(t)} ELSE HRetired
  BY EndEffect
<1>. DEFINE p == ProcessOf(t)
<1>m. /\ \A u \in Threads : ProcessOf(u) \in HRunning <=> Journaled(u)
      /\ HRunning \subseteq {ProcessOf(u) : u \in Threads}
      /\ \A u \in Threads :
           /\ ProcessOf(u) \notin HRetired
           /\ ProcessOf(u) \in Threads \cup {q + Concurrency : q \in HRetired}
      /\ \A q \in Seen \ {Nemesis} : \E u \in ClientThreads :
           q <= ProcessOf(u) /\ \E k \in 0 .. q : q = u + k * Concurrency
  BY <1>0 DEF HistoryMatchesThreads
<1>d. \A u \in Threads \ {t} : ProcessOf(u) # p
  BY <1>0, ProcessOwners
<1>f. Retires(op, t) => ProcessOf(t)' \notin Seen /\ ProcessOf(t)' # p
  BY <1>0, <1>1, NextProcessUnseen
<1>s. HRunning \subseteq Seen /\ HRetired \subseteq Seen
  BY DEF HRunning, HRetired
<1>h. /\ HRunning' = HRunning \ {p}
      /\ HRetired' = IF Retires(op, t) THEN HRetired \cup {p} ELSE HRetired
      /\ Seen \subseteq Seen' /\ Seen' \subseteq Seen \cup {p}
  <2>1. CASE GoesInHistory(op)
    BY <1>1, <2>1
  <2>2. CASE ~GoesInHistory(op)
    BY <1>1, <2>2, HistoryUnchanged
  <2>. QED  BY <2>1, <2>2
<1>. HIDE DEF p
<1>2. \A u \in Threads : ProcessOf(u)' \in HRunning' <=> Journaled(u)'
  <2>1. ProcessOf(t)' \notin HRunning'
    BY <1>1, <1>f, <1>h, <1>s DEF p
  <2>2. \A u \in Threads \ {t} : ProcessOf(u)' \in HRunning' <=> Journaled(u)'
    BY <1>1, <1>d, <1>h, <1>m
  <2>. QED  BY <1>1, <2>1, <2>2
<1>3. HRunning' \subseteq {ProcessOf(u)' : u \in Threads}
  BY <1>1, <1>h, <1>m DEF p
<1>4. ASSUME NEW u \in Threads
      PROVE  /\ ProcessOf(u)' \notin HRetired'
             /\ ProcessOf(u)' \in Threads \cup {q + Concurrency : q \in HRetired'}
  <2>1. HRetired \subseteq HRetired'
    BY <1>h
  <2>2. CASE u # t
    BY <1>1, <1>d, <1>h, <1>m, <2>1, <2>2
  <2>3. CASE u = t /\ ~Retires(op, t)
    BY <1>1, <1>h, <1>m, <2>1, <2>3
  <2>4. CASE u = t /\ Retires(op, t)
    BY <1>1, <1>f, <1>h, <1>s, <2>4 DEF p
  <2>. QED  BY <2>2, <2>3, <2>4
<1>5. \A q \in Seen' \ {Nemesis} : \E u \in ClientThreads :
        q <= ProcessOf(u)' /\ \E k \in 0 .. q : q = u + k * Concurrency
  <2>1. \A u \in ClientThreads : /\ u \in Threads /\ ProcessOf(u) \in Nat
                                 /\ ProcessOf(u)' \in Nat
                                 /\ ProcessOf(u) <= ProcessOf(u)'
    <3>1. \A u \in ClientThreads : u \in Threads /\ ProcessOf(u) \in Nat
      BY <1>0 DEF SchedulingInv, ProcessNumbering, Threads
    <3>2. \A u \in ClientThreads :
            ProcessOf(u)' \in {ProcessOf(u), ProcessOf(u) + Concurrency}
      BY <1>1, <3>1
    <3>. QED  BY <3>1, <3>2, ContextAssumption
  <2>2. p # Nemesis =>
          /\ t \in ClientThreads
          /\ \E k \in 0 .. p : p = t + k * Concurrency
    BY <1>0 DEF SchedulingInv, ProcessNumbering, Threads, p
  <2>. SUFFICES ASSUME NEW q \in Seen' \ {Nemesis}
                PROVE  \E u \in ClientThreads :
                         q <= ProcessOf(u)' /\ \E k \in 0 .. q : q = u + k * Concurrency
    OBVIOUS
  <2>3. CASE q = p
    BY <2>1, <2>2, <2>3 DEF p
  <2>4. CASE q # p
    <3>1. PICK u \in ClientThreads :
            q <= ProcessOf(u) /\ \E k \in 0 .. q : q = u + k * Concurrency
      BY <1>h, <1>m, <2>4
    <3>2. q \in Int
      <4>1. PICK k \in 0 .. q : q = u + k * Concurrency
        BY <3>1
      <4>2. k \in Int /\ u \in Int
        BY DEF ClientThreads
      <4>. QED  BY <4>1, <4>2, ContextAssumption
    <3>3. q <= ProcessOf(u)'
      BY <2>1, <3>1, <3>2
    <3>. QED  BY <3>1, <3>3
  <2>. QED  BY <2>3, <2>4
<1>. QED
  BY <1>2, <1>3, <1>4, <1>5 DEF HistoryMatchesThreads

\* A step that journals nothing and moves no invocation.
LEMMA MatchSame ==
    ASSUME HistoryMatchesThreads, history' = history, Scheduling' => Scheduling,
           \A u \in Threads : /\ ProcessOf(u)' = ProcessOf(u)
                              /\ Scheduling' => (Journaled(u)' <=> Journaled(u))
    PROVE  HistoryMatchesThreads'
<1>1. HRunning' = HRunning /\ HRetired' = HRetired /\ Seen' = Seen
  BY HistoryUnchanged
<1>2. ClientThreads \subseteq Threads
  BY DEF Threads
<1>. QED
  BY <1>1, <1>2 DEF HistoryMatchesThreads

\* The other steps of the main thread.
LEMMA MatchMain ==
    ASSUME SchedulingInv, HistoryMatchesThreads, Main,
           ~PollCompletion, ~AskOp
    PROVE  HistoryMatchesThreads' /\ history' = history
<1>1. history' = history
  BY DEF Main, PollEmpty, PollThrows, AskAgain, AskExit, AskThrows, Dispatch,
         DispatchThrows, SendExit, JoinAll, JoinThrows, Cancel, Reap
<1>2. \A u \in Threads : ProcessOf(u)' = ProcessOf(u)
  BY ProcessesStay DEF Next
<1>3. CASE ~Scheduling'
  BY <1>1, <1>3, HistoryUnchanged DEF HistoryMatchesThreads
<1>4. CASE PollEmpty \/ AskAgain
  <2>1. Scheduling /\ loop # "put" /\ loop' # "put"
        /\ UNCHANGED <<inbox, held, completions>>
    BY <1>4 DEF PollEmpty, AskAgain, Scheduling, workerVars
  <2>2. \A u \in Threads : Journaled(u)' <=> Journaled(u)
    BY <1>2, <2>1 DEF Journaled, GoesInHistory
  <2>. QED  BY <1>1, <1>2, <2>1, <2>2, MatchSame
<1>5. CASE Dispatch
  <2>1. Scheduling /\ loop = "put" /\ loop' = "poll"
        /\ UNCHANGED <<held, completions>>
    BY <1>5 DEF Dispatch, PutStaged, Scheduling, workerVars
  <2>2. PICK t \in Threads : /\ t = StagedThread /\ staged \in Ops
                             /\ staged.process = ProcessOf(t)
                             /\ staged # None
    BY <2>1, StagedOwner, NoneIsNoOp
  <2>3. inbox[t] = None /\ inbox' = [inbox EXCEPT ![t] = staged]
    BY <1>5, <2>2 DEF Dispatch, PutStaged
  <2>4. ASSUME NEW u \in Threads PROVE Journaled(u)' <=> Journaled(u)
    <3>1. inbox'[u] = IF u = t THEN staged ELSE inbox[u]
      BY <2>3 DEF SchedulingInv, TypeOK
    <3>2. staged.process = ProcessOf(u) <=> u = t
      BY <2>1, <2>2, ProcessOwners
    <3>3. (inbox'[u] # None /\ GoesInHistory(inbox'[u])) <=>
            \/ inbox[u] # None /\ GoesInHistory(inbox[u])
            \/ staged.process = ProcessOf(u) /\ GoesInHistory(staged)
      BY <2>2, <2>3, <3>1, <3>2
    <3>. QED  BY <1>2, <2>1, <3>3 DEF Journaled, GoesInHistory
  <2>. QED  BY <1>1, <1>2, <2>1, <2>4, MatchSame
<1>6. CASE PollThrows \/ AskExit \/ AskThrows \/ DispatchThrows \/ SendExit
           \/ JoinAll \/ JoinThrows \/ Cancel \/ Reap
  BY <1>1, <1>3, <1>6
     DEF Scheduling, PollThrows, AskExit, AskThrows, DispatchThrows, SendExit,
         JoinAll, JoinThrows, Cancel, Reap, Abort
<1>. QED
  BY <1>1, <1>4, <1>5, <1>6 DEF Main

\* When everyone is told to exit, no process is running.
LEMMA NobodyRunning ==
    ASSUME SchedulingInv, HistoryMatchesThreads, AskExit
    PROVE  HRunning = {}
<1>1. Scheduling /\ loop = "ask" /\ outstanding = 0
  BY DEF AskExit, Scheduling, Quiescent
<1>2. completions = << >> /\ \A t \in Threads : inbox[t] = None /\ held[t] = None
  BY <1>1, NothingInFlight
<1>3. \A t \in Threads : ~Journaled(t)
  BY <1>1, <1>2 DEF Journaled
<1>. QED
  BY <1>1, <1>3 DEF HistoryMatchesThreads

LEMMA InitHistoryInv == Init => HistoryInv
<1>. SUFFICES ASSUME Init PROVE HistoryInv
  OBVIOUS
<1>1. /\ history = << >> /\ loop = "poll" /\ completions = << >>
      /\ \A t \in Threads : inbox[t] = None /\ held[t] = None /\ wpc[t] = "take"
  BY DEF Init
<1>2. Seen = {} /\ HRunning = {} /\ HRetired = {}
  BY <1>1 DEF Seen, HRunning, HRetired
<1>3. \A t \in Threads : ProcessOf(t) = t /\ ~Journaled(t)
  BY <1>1, InitialContextFields DEF Init, ProcessOf, Journaled
<1>4. LastEntriesExist
  BY <1>2 DEF LastEntriesExist
<1>5. OpsKeepTheirKind
  BY <1>1 DEF OpsKeepTheirKind
<1>6. HistoryMatchesThreads
  BY <1>2, <1>3 DEF HistoryMatchesThreads
<1>. QED
  BY <1>1, <1>4, <1>5, <1>6 DEF HistoryInv

\* Every step keeps the link.
LEMMA HistoryInvStep ==
    ASSUME ControlsDoNotCrash, SchedulingInv, HistoryInv, [Next]_vars
    PROVE  HistoryInv'
<1>. USE DEF HistoryInv
<1>1. CASE AskOp
  <2>1. LastEntriesExist'
    BY <1>1, BeginEffect
  <2>2. loop' = "put"
    BY <1>1 DEF AskOp
  <2>. QED  BY <1>1, <2>1, <2>2, MatchBegin, KindMain DEF Main
<1>2. CASE PollCompletion
  <2>1. LastEntriesExist'
    BY <1>2, EndEffect
  <2>2. loop' = "poll"
    BY <1>2 DEF PollCompletion
  <2>. QED  BY <1>2, <2>1, <2>2, MatchEnd, KindMain DEF Main
<1>3. CASE Main /\ ~AskOp /\ ~PollCompletion
  <2>1. HistoryMatchesThreads' /\ OpsKeepTheirKind' /\ history' = history
    BY <1>3, MatchMain, KindMain
  <2>2. loop' \in {"exit", "join", "returned"} =>
          AskExit \/ loop \in {"exit", "join", "returned"}
    BY <1>3 DEF Main, PollEmpty, PollThrows, AskAgain, AskThrows, Dispatch,
         DispatchThrows, SendExit, JoinAll, JoinThrows, Cancel, Reap, Abort
  <2>3. AskExit => HRunning = {}
    BY NobodyRunning
  <2>. QED  BY <2>1, <2>2, <2>3, HistoryUnchanged
<1>4. CASE \E t \in Threads : Worker(t)
  <2>1. PICK t \in Threads : Worker(t)
    BY <1>4
  <2>2. /\ loop' = loop /\ history' = history /\ (Scheduling' <=> Scheduling)
        /\ \A u \in Threads : ProcessOf(u)' = ProcessOf(u)
    BY <2>1, WorkerLeavesMain
  <2>3. \A u \in Threads : Scheduling => (Journaled(u)' <=> Journaled(u))
    BY <2>1, JournaledWorker
  <2>4. HistoryMatchesThreads'
    BY <2>2, <2>3, MatchSame
  <2>5. OpsKeepTheirKind'
    BY <2>1, KindWorker
  <2>. QED  BY <2>2, <2>4, <2>5, HistoryUnchanged
<1>5. CASE Tick \/ UNCHANGED vars
  <2>1. UNCHANGED <<ctx, loop, staged, history, inbox, held, completions, wpc>>
    BY <1>5 DEF Tick, vars, mainVars, workerVars
  <2>2. /\ Scheduling' <=> Scheduling
        /\ \A u \in Threads : ProcessOf(u)' = ProcessOf(u)
    BY <2>1 DEF Scheduling, ProcessOf
  <2>3. \A u \in Threads : Journaled(u)' <=> Journaled(u)
    BY <2>1, <2>2 DEF Journaled, GoesInHistory
  <2>4. HistoryMatchesThreads'
    BY <2>1, <2>2, <2>3, MatchSame
  <2>5. OpsKeepTheirKind'
    BY <2>1, <2>2
       DEF OpsKeepTheirKind, IsInvocation, IsCompletion, GoesInHistory
  <2>. QED  BY <2>1, <2>4, <2>5, HistoryUnchanged
<1>. QED
  BY <1>1, <1>2, <1>3, <1>4, <1>5 DEF Next, Stopped

\* The link between the history and the queues in every state, as long as no
\* control operation crashes.
THEOREM HistoryInvariant ==
    ASSUME ControlsDoNotCrash
    PROVE  Spec => []HistoryInv
<1>1. Init => HistoryInv
  BY InitHistoryInv
<1>2. SchedulingInv /\ HistoryInv /\ [Next]_vars => HistoryInv'
  BY HistoryInvStep
<1>. QED
  BY <1>1, <1>2, SchedulingInvariant, PTL DEF Spec

\* When run! returns every journaled invocation has its completion, the queues
\* are empty and every worker has finished.
THEOREM NothingIsPendingOnReturn ==
    ASSUME ControlsDoNotCrash
    PROVE  Spec => []NothingPendingOnReturn
<1>1. HistoryInv /\ LeavingInOrder => NothingPendingOnReturn
  BY DEF HistoryInv, LeavingInOrder, NothingPendingOnReturn
<1>. QED
  BY <1>1, HistoryInvariant, LeavingInvariant, PTL

-----------------------------------------------------------------------------
(* The refinement of ProcessHistory. *)

\* Every process of a thread that is not running is idle.
LEMMA IdleOrRunning ==
    ASSUME SchedulingInv, Scheduling, HistoryMatchesThreads, NEW t \in Threads,
           ProcessOf(t) \notin HRunning
    PROVE  ProcessOf(t) \in HIdle
  BY DEF HistoryMatchesThreads, HIdle

\* A step of the interpreter is a step of ProcessHistory or changes nothing
\* the history shows.
LEMMA RefinementStep ==
    ASSUME SchedulingInv, HistoryInv, [Next]_vars
    PROVE  \/ \E p \in HIdle : HistoryOfProcesses!Begin(p)
           \/ \E p \in HRunning :
                HistoryOfProcesses!End(p) \/ HistoryOfProcesses!Retire(p)
           \/ UNCHANGED <<HIdle, HRunning, HRetired>>
<1>. USE DEF HistoryInv
<1>1. CASE history' = history
  BY <1>1, HistoryUnchanged
<1>2. CASE AskOp /\ history' # history
  <2>0. Scheduling
    BY <1>2 DEF AskOp, Scheduling
  <2>1. PICK t \in Threads :
          /\ ProcessOf(t) \notin HRunning
          /\ HRunning' = HRunning \cup {ProcessOf(t)}
          /\ HRetired' = HRetired
    BY <1>2, BeginEffect
  <2>2. ProcessOf(t) \in HIdle
    BY <2>0, <2>1, IdleOrRunning
  <2>3. HIdle' = HIdle \ {ProcessOf(t)}
    BY <2>1 DEF HIdle
  <2>4. HistoryOfProcesses!Begin(ProcessOf(t))
    BY <2>1, <2>2, <2>3 DEF HistoryOfProcesses!Begin
  <2>. QED  BY <2>2, <2>4
<1>3. CASE PollCompletion /\ history' # history
  <2>0. Scheduling
    BY <1>3 DEF PollCompletion, Scheduling
  <2>1. PICK t \in Threads, op \in Ops :
          /\ ProcessOf(t) \in HRunning
          /\ Retires(op, t) => t \in ClientThreads
          /\ HRunning' = HRunning \ {ProcessOf(t)}
          /\ HRetired' = IF Retires(op, t)
                         THEN HRetired \cup {ProcessOf(t)} ELSE HRetired
    BY <1>3, EndEffect
  <2>. DEFINE p == ProcessOf(t)
              Started == Threads \cup {q + Concurrency : q \in HRetired}
  <2>2. p \in Started /\ p \notin HRetired
    BY <2>0 DEF HistoryMatchesThreads
  <2>i. /\ HIdle = Started \ (HRunning \cup HRetired)
        /\ HIdle' = (Threads \cup {q + Concurrency : q \in HRetired'})
                       \ (HRunning' \cup HRetired')
    BY DEF HIdle
  <2>3. CASE ~Retires(op, t)
    <3>1. HIdle' = HIdle \cup {p}
      BY <2>1, <2>2, <2>3, <2>i
    <3>2. HistoryOfProcesses!End(p)
      BY <2>1, <2>3, <3>1 DEF HistoryOfProcesses!End
    <3>. QED  BY <2>1, <3>2
  <2>4. CASE Retires(op, t)
    <3>1. p + Concurrency \notin Seen /\ p + Concurrency # p
      BY <2>0, <2>1, <2>4, NextProcessUnseen
    <3>2. p + Concurrency \notin HRunning \cup HRetired
      BY <3>1 DEF HRunning, HRetired
    <3>3. p # Nemesis
      BY <2>0, <2>1, <2>4, ContextAssumption DEF SchedulingInv, ProcessNumbering
    <3>4. {q + Concurrency : q \in HRetired'} =
            {q + Concurrency : q \in HRetired} \cup {p + Concurrency}
      BY <2>1, <2>4
    <3>. HIDE DEF p, Started
    <3>5. HIdle' = (Started \cup {p + Concurrency})
                     \ ((HRunning \ {p}) \cup HRetired \cup {p})
      BY <2>1, <2>4, <2>i, <3>4 DEF p, Started
    <3>6. HIdle' = HIdle \cup {p + Concurrency}
      BY <2>1, <2>i, <3>1, <3>2, <3>5 DEF p
    <3>7. HistoryOfProcesses!Retire(p)
      BY <2>1, <2>4, <3>3, <3>6 DEF HistoryOfProcesses!Retire, p
    <3>. QED  BY <2>1, <3>7 DEF p
  <2>. QED  BY <2>3, <2>4
<1>4. CASE Main
  BY <1>1, <1>2, <1>3, <1>4, MatchMain
<1>5. CASE \E t \in Threads : Worker(t)
  BY <1>1, <1>5, WorkerLeavesMain
<1>6. CASE Tick \/ UNCHANGED vars
  BY <1>1, <1>6 DEF Tick, vars, mainVars
<1>. QED
  BY <1>4, <1>5, <1>6 DEF Next, Stopped

\* The history run! writes is one of ProcessHistory: each process alternates
\* invocations and completions, and none acts after an :info completion, as
\* long as no control operation crashes.
THEOREM HistoryRefinement ==
    ASSUME ControlsDoNotCrash
    PROVE  Spec => RefinesProcessHistory
<1>1. Init => HistoryOfProcesses!Init
  <2>1. ASSUME Init PROVE HRunning = {} /\ HRetired = {} /\ HIdle = Threads
    BY <2>1 DEF Init, Seen, HRunning, HRetired, HIdle
  <2>. QED
    BY <2>1 DEF HistoryOfProcesses!Init, Threads, ClientThreads
<1>2. SchedulingInv /\ HistoryInv /\ [Next]_vars
        => [HistoryOfProcesses!Next]_(HistoryOfProcesses!phVars)
  BY RefinementStep DEF HistoryOfProcesses!Next, HistoryOfProcesses!phVars
<1>. QED
  BY <1>1, <1>2, SchedulingInvariant, HistoryInvariant, PTL
     DEF Spec, RefinesProcessHistory, HistoryOfProcesses!Spec
=============================================================================
