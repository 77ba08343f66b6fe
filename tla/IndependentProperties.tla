----------------------- MODULE IndependentProperties -----------------------
(***************************************************************************)
(* What a concurrent generator owes the test: every key is run by one      *)
(* group, whole, and every generator hears of its own operations.          *)
(***************************************************************************)
EXTENDS Independent

Calls == [groups : Seq(Groups), keys : Seq(Keys), gens : [Groups -> KeyGens \cup {None}],
          soonest : Groups \cup {None}]

\* The state of jepsen.independent's ConcurrentGenerator and of the
\* interpreter's loop has its type.
TypeOK ==
    /\ IsContext(ctx)
    /\ size \in [Keys -> 0 .. MaxOps]
    /\ keys \in Seq(Keys)
    /\ gens \in [Groups -> KeyGens \cup {None}]
    /\ call # Idle => call \in Calls
    /\ flight \in [ClientThreads -> Operations \cup {None}]
    /\ crashes \in 0 .. MaxCrashes
    /\ ended \in BOOLEAN
    /\ ran \in [Keys -> [Groups -> Nat]]

Working(g) == gens[g] # None
Given(k)   == k \notin ToSet(keys)

\* One group was given all operations of a key.
RunWhole(k) == \E g \in Groups : \A h \in Groups : ran[k][h] = IF h = g THEN size[k] ELSE 0
\* The keys without a generator that come before a key.
NilKeysBefore(k) ==
    {KeyOrder[i] : i \in {i \in DOMAIN KeyOrder :
                            /\ KeyOrder[i] \in NilKeys
                            /\ \E j \in DOMAIN KeyOrder : i < j /\ KeyOrder[j] = k}}

InFlight(k) == {t \in ClientThreads : flight[t] # None /\ flight[t].key = k}

\* Two groups never work on one key, now or one after the other: op takes a key
\* off the keys whenever it builds a generator for it, and the group's filtered
\* context keeps the generator's operations on the group's own threads.
OneGroupPerKey ==
    /\ \A k \in Keys : \A g, h \in Groups : ran[k][g] > 0 /\ ran[k][h] > 0 => g = h
    /\ \A g, h \in Groups : Working(g) /\ Working(h) /\ gens[g].key = gens[h].key
                               => g = h
    /\ \A g \in Groups : Working(g) =>
          /\ Given(gens[g].key)
          /\ \A h \in Groups \ {g} : ran[gens[g].key][h] = 0

\* No operation of a key is lost or issued twice: what a group's generator has
\* left and what it was run for make up the key, a key that was given out and
\* that no group works on was run whole, and one that was not given out was not
\* run.  op asks every free group and keeps what one of them returned.  When the
\* interpreter returns nothing is running, a group that is busy when the others
\* run dry being waited for, and a key is left out only behind as many keys
\* without a generator as there are groups, for op takes a group that comes
\* upon such a key to be out of keys.
EveryOperationOnce ==
    /\ \A k \in Keys :
          LET holders == {g \in Groups : Working(g) /\ gens[g].key = k}
          IN CASE ~Given(k)     -> \A g \in Groups : ran[k][g] = 0
               [] holders # {}  -> \A g \in holders : gens[g].left + ran[k][g] = size[k]
               [] OTHER         -> RunWhole(k)
    /\ ended => /\ \A t \in ClientThreads : flight[t] = None
                /\ \A k \in Keys :
                     RunWhole(k) \/ Cardinality(NilKeysBefore(k)) >= Cardinality(Groups)

\* Every key is run.  concurrent-generator's "once a key's generator is
\* exhausted, it obtains a new key, constructs a new generator from key, and
\* moves on", and op's "there's no replacement generator, because we're out of
\* keys"; but fgen may return nil, which is a valid generator.
EveryKeyIsRun == ended => \A k \in Keys : RunWhole(k)

\* A generator misses no event of its own key: it heard every invocation and
\* every completion but those still in flight, also of an operation that
\* crashed its process.  What it hears of other keys are late completions of
\* keys the same group worked on before.
EventsReachTheirGenerator ==
    \A g \in Groups : Working(g) =>
       LET k == gens[g].key
       IN /\ gens[g].invoked = ran[k][g]
          /\ gens[g].completed + Cardinality(InFlight(k)) = ran[k][g]
          /\ \A s \in gens[g].strays : ran[s][g] > 0

\* Every test ends: :pending answers, whose generator the interpreter throws
\* away, never repeat for ever, however many keys have no operations at all.
TestEnds == <>ended

-----------------------------------------------------------------------------
(* The inductive invariant. *)

(* Running operations are those of the busy threads, under the processes of    *)
(* these, and of keys that the thread's group was given.                       *)
FlightInv ==
    /\ Numbered(ctx)
    /\ \A t \in ClientThreads :
          IF flight[t] = None THEN ThreadFree(ctx, t)
          ELSE /\ ~ThreadFree(ctx, t)
               /\ flight[t].process = ThreadToProcess(ctx, t)
               /\ ran[flight[t].key][GroupOf(t)] > 0

(* What is true of a generator among the generators of all groups, while the   *)
(* keys ks are still to be taken: its key is nobody else's, and it accounts for*)
(* all that was run of it.                                                     *)
GeneratorInv(ks, gs, g) ==
    LET k == gs[g].key
    IN  /\ k \notin ToSet(ks)
        /\ \A h \in Groups \ {g} : ran[k][h] = 0 /\ (gs[h] # None => gs[h].key # k)
        /\ gs[g].left + ran[k][g] = size[k]
        /\ gs[g].invoked = ran[k][g]
        /\ gs[g].completed + Cardinality(InFlight(k)) = ran[k][g]
        /\ \A s \in gs[g].strays : ran[s][g] > 0

(* A group without a generator has come upon a key without one, unless all     *)
(* keys are taken: the last such key is f[g], another one for every group.     *)
CameUponNil(ks, gs, f) ==
    \A g \in Groups : gs[g] = None =>
      /\ f[g] \in NilKeys /\ f[g] \notin ToSet(ks)
      /\ \A h \in Groups \ {g} : gs[h] = None => f[h] # f[g]

(* The keys from the nth on. *)
KeysFrom(n) == SubSeq(KeyOrder, n, Len(KeyOrder))

(* This holds of the keys and generators that are kept, and of those that a    *)
(* call of op works on.                                                        *)
KeysInv(ks, gs) ==
    /\ \E n \in 1 .. Len(KeyOrder) + 1 : ks = KeysFrom(n)
    /\ ks # <<>> => \E f \in [Groups -> Keys] : CameUponNil(ks, gs, f)
    /\ \A g \in Groups : gs[g] # None => GeneratorInv(ks, gs, g)
    /\ \A k \in ToSet(ks), h \in Groups : ran[k][h] = 0
    /\ \A k \in Keys \ ToSet(ks) :
          (\A g \in Groups : gs[g] # None => gs[g].key # k) => RunWhole(k)

(* Groups are asked once each, while one of their threads is free, and the one *)
(* whose operation is the soonest has it.                                      *)
Asking(c) ==
    /\ IsInjective(c.groups)
    /\ ToSet(c.groups) \subseteq FreeGroups
    /\ c.soonest # None => /\ c.soonest \in FreeGroups \ ToSet(c.groups)
                           /\ c.gens[c.soonest] # None
                           /\ c.gens[c.soonest].left > 0
    /\ KeysInv(c.keys, c.gens)

CallInv == call # Idle => ~ended /\ Asking(call)

EndInv ==
    ended => /\ \A t \in ClientThreads : flight[t] = None
             /\ \A k \in Keys :
                  RunWhole(k) \/ Cardinality(NilKeysBefore(k)) >= Cardinality(Groups)

(* A key without a generator has no operations. *)
NilKeysAreEmpty == \A k \in NilKeys : size[k] = 0

IndependentInv ==
    /\ TypeOK /\ NilKeysAreEmpty
    /\ FlightInv /\ KeysInv(keys, gens) /\ CallInv /\ EndInv
============================================================================
