------------------------------ MODULE Context ------------------------------
(***************************************************************************)
(* The immutable scheduling context of jepsen.generator.context and the    *)
(* translation table (jepsen.generator.translation-table) it indexes       *)
(* threads with, as pure operators on records.                             *)
(*                                                                         *)
(* Threads are named 0 .. Concurrency-1 for clients and Nemesis for the    *)
(* nemesis.  A thread runs one process at a time: a client thread t runs   *)
(* t, then t + Concurrency, t + 2 * Concurrency ... as its processes       *)
(* crash, the nemesis thread always runs Nemesis.                          *)
(***************************************************************************)
EXTENDS Integers, FiniteSets

CONSTANTS Concurrency,   \* (:concurrency test), the number of client threads
          Nemesis,       \* the keyword :nemesis, a thread and a process
          None           \* nil

ASSUME ContextAssumption ==
    /\ Concurrency \in Nat \ {0}
    /\ Nemesis \notin Int
    /\ None \notin Int
    /\ None # Nemesis

ClientThreads == 0 .. Concurrency - 1
Threads       == ClientThreads \cup {Nemesis}
Indices       == 0 .. Concurrency
Processes     == Nat \cup {Nemesis}

-----------------------------------------------------------------------------
(* The translation table: the nemesis is the one named thread. *)

\* How many threads in all.
ThreadCount == Concurrency + 1

\* Thread name to index.  A name that is no integer gets the index
\* int-thread-count, whether or not the table knows it: the position looked up
\* in named-thread->index is not added.
NameToIndex(name) == IF name \in Int THEN name ELSE Concurrency

IndexToName(i) == IF i < Concurrency THEN i ELSE Nemesis

-----------------------------------------------------------------------------
(* Contexts. *)

\* A fresh context: time 0, every thread free and running itself.
InitialContext ==
    [time           |-> 0,
     nextThread     |-> 0,
     free           |-> Indices,
     threadProcess  |-> [i \in Indices |-> IndexToName(i)],
     processThread  |-> [p \in Threads |-> p]]

ProcessToThread(ctx, process) ==
    IF process \in DOMAIN ctx.processThread
    THEN ctx.processThread[process] ELSE None

ThreadToProcess(ctx, thread) == ctx.threadProcess[NameToIndex(thread)]

ThreadFree(ctx, thread) == NameToIndex(thread) \in ctx.free

\* (assoc ctx :time t)
WithTime(ctx, time) == [ctx EXCEPT !.time = time]

\* Mutants of BusyThread: the next thread index does not wrap; the thread stays
\* in the free set.
BusyThreadNoWrap(ctx, time, thread) ==
    [ctx EXCEPT !.time       = time,
                !.nextThread = @ + 1,
                !.free       = @ \ {NameToIndex(thread)}]
BusyThreadStillFree(ctx, time, thread) ==
    [ctx EXCEPT !.time = time, !.nextThread = (@ + 1) % ThreadCount]

\* Marks a thread busy, and moves the next thread to hand out on by one.
BusyThread(ctx, time, thread) ==
    [ctx EXCEPT !.time       = time,
                !.nextThread = (@ + 1) % ThreadCount,
                !.free       = @ \ {NameToIndex(thread)}]

\* Marks a thread free again.
FreeThread(ctx, time, thread) ==
    [ctx EXCEPT !.time = time,
                !.free = @ \cup {NameToIndex(thread)}]

\* Mutant of NextProcess: processes are numbered on by one.
NextProcessByOne(process) == IF process \in Int THEN process + 1 ELSE process

\* The process that follows a process on its thread.
NextProcess(process) == IF process \in Int THEN process + Concurrency ELSE process

\* Retires the process of a thread and gives the thread the next one.
WithNextProcess(ctx, thread) ==
    LET old == ThreadToProcess(ctx, thread)
        new == NextProcess(old)
    IN [ctx EXCEPT
          !.threadProcess[NameToIndex(thread)] = new,
          !.processThread = [p \in (DOMAIN @ \ {old}) \cup {new} |->
                               IF p = new THEN thread ELSE @[p]]]

\* The first free thread at or after nextThread, wrapping round; None when
\* every thread of the context is busy.
SomeFreeProcess(ctx) ==
    LET FirstOf(S) == CHOOSE i \in S : \A j \in S : i <= j
        after == {i \in ctx.free : i >= ctx.nextThread}
    IN CASE after # {}    -> ctx.threadProcess[FirstOf(after)]
         [] ctx.free = {} -> None
         [] OTHER         -> ctx.threadProcess[FirstOf(ctx.free)]

\* make-thread-filter: the same context with only the given threads in it.
FilterThreads(ctx, threads) ==
    [ctx EXCEPT !.free = @ \cap {NameToIndex(t) : t \in threads}]

\* What the Validate generator demands of the process of an operation: that
\* the thread it is looked up to is free.
ValidProcess(ctx, process) == ThreadFree(ctx, ProcessToThread(ctx, process))
-----------------------------------------------------------------------------
(* What is always true of a context. *)

\* A context; the domain of its map of processes changes as processes do.
IsContext(c) ==
    /\ c \in [time : Nat, nextThread : Indices, free : SUBSET Indices,
              threadProcess : [Indices -> Processes],
              processThread : {c.processThread}]
    /\ c.processThread \in [DOMAIN c.processThread -> Threads]

\* The two maps are inverse to each other, and a client thread runs processes
\* congruent to its own number.
Numbered(c) ==
    /\ IsContext(c)
    /\ DOMAIN c.processThread = {c.threadProcess[i] : i \in Indices}
    /\ \A t \in Threads : c.processThread[ThreadToProcess(c, t)] = t
    /\ ThreadToProcess(c, Nemesis) = Nemesis
    /\ \A t \in ClientThreads :
         /\ ThreadToProcess(c, t) \in Nat
         /\ \E k \in 0 .. ThreadToProcess(c, t) :
               ThreadToProcess(c, t) = t + k * Concurrency
=============================================================================
