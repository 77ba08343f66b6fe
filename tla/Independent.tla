---------------------------- MODULE Independent ----------------------------
(***************************************************************************)
(* The concurrent generator of jepsen.independent, as the interpreter      *)
(* drives it: client threads are split into groups of GroupSize, every     *)
(* group works on a key of its own until the key's generator is exhausted, *)
(* and then takes the next key.                                            *)
(*                                                                         *)
(* A generator is a value: asking it for an operation returns the          *)
(* operation and the generator to go on with, and whoever asks decides     *)
(* which generator it keeps.  The call is a loop over the free groups      *)
(* here, one action an iteration, on a copy of the generator's state; the  *)
(* copy replaces the state only when the call yields an operation.         *)
(* Nothing else happens during a call, which the interpreter's one thread  *)
(* makes.                                                                  *)
(***************************************************************************)
EXTENDS Context, SequencesExt

CONSTANTS Keys,         \* the keys, an infinite sequence in many tests
          KeyOrder,     \* the sequence keys are taken in
          MaxOps,       \* bound: operations of a key's generator
          SyncKeys,     \* keys whose last operation is a phase of its own
          NilKeys,      \* keys for which fgen returns nil, no generator
          GroupSize,    \* threads per key, n
          MaxCrashes,   \* bound: operations that crash their process
          Idle          \* no call of op is running

ASSUME IndependentAssumption ==
    /\ KeyOrder \in Seq(Keys) /\ IsInjective(KeyOrder)
    /\ ToSet(KeyOrder) = Keys
    /\ MaxOps \in Nat /\ MaxCrashes \in Nat
    /\ SyncKeys \subseteq Keys /\ NilKeys \subseteq Keys
    /\ GroupSize \in 1 .. Concurrency /\ Concurrency % GroupSize = 0
    /\ None \notin Keys

VARIABLES
    ctx,        \* the interpreter's context
    size,       \* fgen: how many operations the generator of a key has
    keys,       \* the keys no group has taken yet
    gens,       \* the generator of every group, None if it was left without
    call,       \* the loop of a call of op, or Idle
    flight,     \* the operation every client thread is running, or None
    crashes,    \* how many operations crashed
    ended,      \* the interpreter returned
    ran         \* history: how often a group was given a key's operations

vars == <<ctx, size, keys, gens, call, flight, crashes, ended, ran>>

Groups == 0 .. (Concurrency \div GroupSize) - 1

\* Threads are sorted and partitioned: groups are runs of GroupSize threads.
GroupOf(thread)  == thread \div GroupSize
ThreadsOf(group) == {t \in ClientThreads : GroupOf(t) = group}

\* The generator of a key, if it has one: what it has still to yield, and the
\* events it was told of.  Invocations and completions of the key's own
\* operations are counted, of other keys the key is kept.
KeyGens == [key : Keys, left : 0 .. MaxOps, invoked : Nat, completed : Nat,
            strays : SUBSET Keys]
KeyGen(k) ==
    IF k \in NilKeys THEN None
    ELSE [key |-> k, left |-> size[k], invoked |-> 0, completed |-> 0, strays |-> {}]

\* The operation a client thread is running.
Operations == [key : Keys, process : Nat]

\* nil is neither a generator nor an operation.
ASSUME NilAssumption == None \notin KeyGens \cup Operations

-----------------------------------------------------------------------------
(* The initial state: the first call of op gives every group a key, which    *)
(* depends on nothing that happens before it.                                *)

Init ==
    /\ ctx = InitialContext
    /\ size \in [Keys -> 0 .. MaxOps]
    /\ \A k \in NilKeys : size[k] = 0
    /\ keys = SubSeq(KeyOrder, Cardinality(Groups) + 1, Len(KeyOrder))
    /\ gens = [g \in Groups |-> IF g < Len(KeyOrder) THEN KeyGen(KeyOrder[g + 1])
                                                     ELSE None]
    /\ call = Idle
    /\ flight = [t \in ClientThreads |-> None]
    /\ crashes = 0
    /\ ended = FALSE
    /\ ran = [k \in Keys |-> [g \in Groups |-> 0]]

-----------------------------------------------------------------------------
(* A call of op. *)

FreeGroups == {g \in Groups : \E t \in ThreadsOf(g) : ThreadFree(ctx, t)}

\* The interpreter asks for an operation.  The order of the groups is that of
\* a hash set.
Ask ==
    /\ call = Idle
    /\ ~ended
    /\ \E order \in SetToSeqs(FreeGroups) :
          call' = [groups |-> order, keys |-> keys, gens |-> gens, soonest |-> None]
    /\ UNCHANGED <<ctx, size, keys, gens, flight, crashes, ended, ran>>

Considering == call # Idle /\ call.groups # <<>>
Considered  == call # Idle /\ call.groups = <<>>
Group       == Head(call.groups)
Exhausted   == IF call.gens[Group] = None THEN TRUE ELSE call.gens[Group].left = 0

\* The generator answers :pending until every thread it may use is free.
Waits ==
    /\ call.gens[Group].key \in SyncKeys
    /\ call.gens[Group].left = 1
    /\ \E t \in ThreadsOf(Group) : ~ThreadFree(ctx, t)

\* The next key, if there is one, has a generator.
Replaceable == IF call.keys = <<>> THEN FALSE ELSE KeyGen(Head(call.keys)) # None

InCall == UNCHANGED <<ctx, size, keys, gens, flight, crashes, ended, ran>>

\* The group offers an operation: it may be sooner than the soonest so far or
\* later, and a tie is drawn.
Offer ==
    /\ Considering /\ ~Exhausted /\ ~Waits
    /\ \E soonest \in {Group} \cup ({call.soonest} \ {None}) :
          call' = [call EXCEPT !.groups = Tail(@), !.soonest = soonest]
    /\ InCall

\* The group has nothing right now: anything else is sooner.
OfferPending ==
    /\ Considering /\ ~Exhausted /\ Waits
    /\ call' = [call EXCEPT !.groups = Tail(@)]
    /\ InCall

\* Mutant of Replace: the group is left with a generator that was never asked.
ReplaceOnce ==
    /\ Considering /\ Exhausted /\ Replaceable
    /\ call' = [call EXCEPT !.gens[Group] = KeyGen(Head(call.keys)),
                            !.keys        = Tail(@),
                            !.groups      = Tail(@)]
    /\ InCall

\* The group's generator is exhausted: it gets the next key's, which is asked
\* in turn.
Replace ==
    /\ Considering /\ Exhausted /\ Replaceable
    /\ call' = [call EXCEPT !.gens[Group] = KeyGen(Head(call.keys)),
                            !.keys        = Tail(@)]
    /\ InCall

\* Mutant of RunDry: a group that comes upon a key without a generator takes
\* all keys to be used up.
RunDryForGood ==
    /\ Considering /\ Exhausted /\ ~Replaceable
    /\ call' = [call EXCEPT !.groups = Tail(@), !.gens[Group] = None, !.keys = <<>>]
    /\ InCall

\* The group's generator is exhausted, and nothing replaces it: there are no
\* keys left, or the next one, which is taken all the same, has no generator.
\* Either way the call goes on to the next group.
RunDry ==
    /\ Considering /\ Exhausted /\ ~Replaceable
    /\ call' = [call EXCEPT !.groups = Tail(@), !.gens[Group] = None,
                            !.keys   = IF @ = <<>> THEN <<>> ELSE Tail(@)]
    /\ InCall

-----------------------------------------------------------------------------
(* What the interpreter does with the answer. *)

\* gen/update: the event goes to the generator of the group its process runs
\* in, whatever key that generator has.  The first case, in which the
\* code throws, does not occur: see EventsReachTheirGenerator.
Update(gs, c, process, key, counter) ==
    LET thread == ProcessToThread(c, process)
        g      == GroupOf(thread)
    IN IF thread = None THEN gs
       ELSE CASE gs[g] = None                       -> gs
              [] gs[g] # None /\ gs[g].key = key -> [gs EXCEPT ![g][counter] = @ + 1]
              [] gs[g] # None /\ gs[g].key # key -> [gs EXCEPT ![g].strays = @ \cup {key}]

\* Mutant of GensAfter: every generator asked moves on, also those whose
\* operation was not the soonest.
GensAfterAllOffers(g) ==
    [h \in Groups |-> IF h \in FreeGroups /\ call.gens[h] # None
                      THEN [call.gens[h] EXCEPT !.left = IF @ = 0 THEN 0 ELSE @ - 1]
                      ELSE call.gens[h]]

\* Only the group whose operation is yielded goes on with the generator it
\* returned.
GensAfter(g) == [call.gens EXCEPT ![g].left = @ - 1]

\* Mutant of ContextOf: the group's generator sees every free thread.
ContextOfAll(g) == FilterThreads(ctx, ClientThreads)

\* The context the generator of a group fills its operation in with.
ContextOf(g) == FilterThreads(ctx, ThreadsOf(g))

\* An operation: its thread becomes busy, and the generator hears of it.
Yield ==
    /\ Considered /\ call.soonest # None
    /\ LET g       == call.soonest
           key     == call.gens[g].key
           process == SomeFreeProcess(ContextOf(g))
           thread  == ProcessToThread(ctx, process)
           busy    == BusyThread(ctx, 0, thread)
       IN /\ ctx' = busy
          /\ keys' = call.keys
          /\ gens' = Update(GensAfter(g), busy, process, key, "invoked")
          /\ flight' = [flight EXCEPT ![thread] = [key |-> key, process |-> process]]
          /\ ran' = [ran EXCEPT ![key][GroupOf(thread)] = @ + 1]
    /\ call' = Idle
    /\ UNCHANGED <<size, crashes, ended>>

\* A group that was not free may still have operations to yield.
SomeGenerator == \E g \in Groups : call.gens[g] # None

\* An operation whose time has not come, :pending, or nothing while operations
\* are running: the interpreter keeps the generator it asked, and asks again.
AskAgain ==
    /\ Considered
    /\ call.soonest # None \/ SomeGenerator \/ \E t \in ClientThreads : flight[t] # None
    /\ call' = Idle
    /\ UNCHANGED <<ctx, size, keys, gens, flight, crashes, ended, ran>>

\* No generator has anything left and nothing is running: the test is over.
End ==
    /\ Considered /\ call.soonest = None
    /\ ~SomeGenerator /\ \A t \in ClientThreads : flight[t] = None
    /\ call' = Idle
    /\ ended' = TRUE
    /\ UNCHANGED <<ctx, size, keys, gens, flight, crashes, ran>>

\* Mutant of Complete: the process moves on before the generator hears of it.
CompleteAfterNextProcess(thread, crash) ==
    /\ call = Idle /\ ~ended /\ flight[thread] # None
    /\ crash => crashes < MaxCrashes
    /\ LET op    == flight[thread]
           freed == FreeThread(ctx, 0, thread)
           next  == IF crash THEN WithNextProcess(freed, thread) ELSE freed
       IN /\ gens' = Update(gens, next, op.process, op.key, "completed")
          /\ ctx' = next
    /\ flight' = [flight EXCEPT ![thread] = None]
    /\ crashes' = IF crash THEN crashes + 1 ELSE crashes
    /\ UNCHANGED <<size, keys, call, ended, ran>>

\* A completion: the thread is free, the generator hears of the completion,
\* and only then does a crashed process give way to the next.
Complete(thread, crash) ==
    /\ call = Idle /\ ~ended /\ flight[thread] # None
    /\ crash => crashes < MaxCrashes
    /\ LET op    == flight[thread]
           freed == FreeThread(ctx, 0, ProcessToThread(ctx, op.process))
       IN /\ gens' = Update(gens, freed, op.process, op.key, "completed")
          /\ ctx' = IF crash THEN WithNextProcess(freed, thread) ELSE freed
    /\ flight' = [flight EXCEPT ![thread] = None]
    /\ crashes' = IF crash THEN crashes + 1 ELSE crashes
    /\ UNCHANGED <<size, keys, call, ended, ran>>

-----------------------------------------------------------------------------
Call == Ask \/ Offer \/ OfferPending \/ Replace \/ RunDry \/ Yield \/ AskAgain \/ End

Next == Call \/ \E t \in ClientThreads, crash \in BOOLEAN : Complete(t, crash)

Spec == Init /\ [][Next]_vars

\* The interpreter always goes on, and takes a completion, once there is one,
\* before it asks again; and an operation it is offered again and again comes
\* due.
FairSpec ==
    /\ Spec
    /\ WF_vars(Call)
    /\ SF_vars(Yield)
    /\ \A t \in ClientThreads : SF_vars(\E crash \in BOOLEAN : Complete(t, crash))
============================================================================
