------------------------- MODULE IndependentProofs -------------------------
(***************************************************************************)
(* Proofs, for every number of threads and groups, every order of keys and *)
(* every number of operations and crashes, that the concurrent generator   *)
(* gives every key to one group, whole, unless as many keys without a      *)
(* generator as there are groups come before it, and that a key's          *)
(* generator hears of all its operations.                                  *)
(***************************************************************************)
EXTENDS IndependentProperties, ContextProofs, FiniteSetTheorems,
        SequenceTheorems, TLAPS

-----------------------------------------------------------------------------
(* Groups and threads. *)

LEMMA GroupFacts ==
    /\ Groups \subseteq Nat
    /\ 0 \in Groups
    /\ Cardinality(Groups) = Concurrency \div GroupSize
    /\ \A g \in Groups : g < Cardinality(Groups)
    /\ \A i \in Nat : i < Cardinality(Groups) => i \in Groups
    /\ \A t \in ClientThreads : GroupOf(t) \in Groups /\ t \in ThreadsOf(GroupOf(t))
<1>. DEFINE n == Concurrency \div GroupSize
            G == GroupSize
            C == Concurrency
<1>1. C \in Nat \ {0} /\ G \in 1 .. C /\ C % G = 0
  BY ContextAssumption, IndependentAssumption
<1>2. n \in Nat \ {0} /\ C = G * n
  BY <1>1
<1>3. Groups = 0 .. n - 1
  BY DEF Groups
<1>4. \A t \in 0 .. C - 1 : t \div G \in 0 .. n - 1
  <2>. SUFFICES ASSUME NEW t \in 0 .. C - 1 PROVE t \div G \in 0 .. n - 1
    OBVIOUS
  <2>. DEFINE q == t \div G
  <2>1. q \in Nat /\ t = G * q + (t % G) /\ t % G \in Nat
    BY <1>1
  <2>. HIDE DEF q, n
  <2>2. G * q < G * n
    BY <1>1, <1>2, <2>1
  <2>3. q < n
    <3>1. CASE q >= n
      <4>1. G * q >= G * n
        BY <1>1, <1>2, <2>1, <3>1
      <4>. QED  BY <1>1, <1>2, <2>1, <2>2, <4>1
    <3>. QED  BY <1>2, <2>1, <3>1
  <2>. QED  BY <1>2, <2>1, <2>3 DEF q
<1>. HIDE DEF n
<1>5. Cardinality(Groups) = n
  BY <1>2, <1>3, FS_Interval
<1>6. \A t \in ClientThreads : GroupOf(t) \in Groups
  BY <1>3, <1>4 DEF ClientThreads, GroupOf
<1>7. \A t \in ClientThreads : t \in ThreadsOf(GroupOf(t))
  BY DEF ThreadsOf
<1>. QED  BY <1>2, <1>3, <1>5, <1>6, <1>7 DEF n

\* The index of a client thread is its number.
LEMMA ClientIndices ==
    \A t \in ClientThreads : t \in Threads /\ t \in Nat /\ NameToIndex(t) = t
                             /\ t \in Indices
  BY ContextAssumption DEF ClientThreads, Threads, NameToIndex, Indices

LEMMA InFlightFinite ==
    ASSUME NEW k
    PROVE  IsFiniteSet(InFlight(k)) /\ Cardinality(InFlight(k)) \in Nat
<1>1. IsFiniteSet(ClientThreads)
  BY ContextAssumption, FS_Interval DEF ClientThreads
<1>2. InFlight(k) \in SUBSET ClientThreads
  BY DEF InFlight
<1>. QED  BY <1>1, <1>2, FS_Subset, FS_CardinalityType

\* The keys of a non-empty sequence are its first and those of its tail.
LEMMA TailKeys ==
    ASSUME NEW S, NEW s \in Seq(S), s # <<>>, IsInjective(s)
    PROVE  /\ Head(s) \in S /\ Tail(s) \in Seq(S)
           /\ IsInjective(Tail(s))
           /\ ToSet(s) = ToSet(Tail(s)) \cup {Head(s)}
           /\ Head(s) \notin ToSet(Tail(s))
<1>1. Head(s) \in S /\ Tail(s) \in Seq(S) /\ Head(s) = s[1]
  OBVIOUS
<1>2. /\ Len(s) \in Nat \ {0} /\ DOMAIN s = 1 .. Len(s)
      /\ DOMAIN Tail(s) = 1 .. Len(s) - 1
      /\ \A i \in 1 .. Len(s) - 1 : Tail(s)[i] = s[i + 1]
  OBVIOUS
<1>3. \A i, j \in 1 .. Len(s) : s[i] = s[j] => i = j
  BY <1>2 DEF IsInjective
<1>4. IsInjective(Tail(s))
  <2>. SUFFICES ASSUME NEW i \in 1 .. Len(s) - 1, NEW j \in 1 .. Len(s) - 1,
                       Tail(s)[i] = Tail(s)[j]
                PROVE  i = j
    BY <1>2 DEF IsInjective
  <2>1. s[i + 1] = s[j + 1] /\ i + 1 \in 1 .. Len(s) /\ j + 1 \in 1 .. Len(s)
    BY <1>2
  <2>2. i + 1 = j + 1
    BY <1>3, <2>1
  <2>. QED  BY <2>2
<1>5. Head(s) \notin ToSet(Tail(s))
  <2>. SUFFICES ASSUME NEW i \in 1 .. Len(s) - 1, Tail(s)[i] = Head(s) PROVE FALSE
    BY <1>2 DEF ToSet
  <2>1. s[i + 1] = s[1] /\ i + 1 \in 1 .. Len(s) /\ 1 \in 1 .. Len(s)
    BY <1>1, <1>2
  <2>2. i + 1 = 1
    BY <1>3, <2>1
  <2>. QED  BY <2>2
<1>6. ASSUME NEW x PROVE x \in ToSet(s) <=> x \in ToSet(Tail(s)) \cup {Head(s)}
  <2>1. ASSUME x \in ToSet(s) PROVE x \in ToSet(Tail(s)) \cup {Head(s)}
    <3>1. PICK i \in 1 .. Len(s) : x = s[i]
      BY <1>2, <2>1 DEF ToSet
    <3>2. CASE i = 1
      BY <1>1, <3>1, <3>2
    <3>3. CASE i # 1
      <4>1. i - 1 \in 1 .. Len(s) - 1 /\ (i - 1) + 1 = i
        BY <1>2, <3>1, <3>3
      <4>2. x = Tail(s)[i - 1]
        BY <1>2, <3>1, <4>1
      <4>. QED  BY <1>2, <4>1, <4>2 DEF ToSet
    <3>. QED  BY <3>2, <3>3
  <2>2. ASSUME x \in ToSet(Tail(s)) PROVE x \in ToSet(s)
    <3>1. PICK i \in 1 .. Len(s) - 1 : x = Tail(s)[i]
      BY <1>2, <2>2 DEF ToSet
    <3>2. i + 1 \in 1 .. Len(s) /\ x = s[i + 1]
      BY <1>2, <3>1
    <3>. QED  BY <1>2, <3>2 DEF ToSet
  <2>3. Head(s) \in ToSet(s)
    BY <1>1, <1>2 DEF ToSet
  <2>. QED  BY <2>1, <2>2, <2>3
<1>. QED  BY <1>1, <1>4, <1>5, <1>6

\* The keys that are still to be taken are the last ones of the order.
LEMMA KeysFromFacts ==
    ASSUME NEW n \in 1 .. Len(KeyOrder) + 1, NEW ks, ks = KeysFrom(n)
    PROVE  /\ ks \in Seq(Keys) /\ IsInjective(ks)
           /\ ToSet(ks) = {KeyOrder[i] : i \in n .. Len(KeyOrder)}
           /\ ks = <<>> <=> n = Len(KeyOrder) + 1
           /\ ks # <<>> => n + 1 \in 1 .. Len(KeyOrder) + 1
                           /\ Tail(ks) = KeysFrom(n + 1)
<1>. DEFINE len == Len(KeyOrder)
<1>1. /\ KeyOrder \in Seq(Keys) /\ len \in Nat /\ DOMAIN KeyOrder = 1 .. len
      /\ \A i, j \in 1 .. len : KeyOrder[i] = KeyOrder[j] => i = j
      /\ \A i \in 1 .. len : KeyOrder[i] \in Keys
  BY IndependentAssumption DEF IsInjective
<1>2. n \in Nat /\ n >= 1 /\ n <= len + 1 /\ ks = SubSeq(KeyOrder, n, len)
  BY <1>1 DEF KeysFrom
<1>. HIDE DEF len
<1>3. /\ ks \in Seq(Keys)
      /\ Len(ks) = IF n <= len THEN len - n + 1 ELSE 0
      /\ \A i \in 1 .. len - n + 1 : ks[i] = KeyOrder[n + i - 1]
  <2>1. \A i \in n .. len : KeyOrder[i] \in Keys
    BY <1>1, <1>2
  <2>2. n \in Int /\ len \in Int
    BY <1>1, <1>2
  <2>. QED  BY <1>2, <2>1, <2>2, SubSeqProperties
<1>4. Len(ks) = len - n + 1 /\ Len(ks) \in Nat /\ DOMAIN ks = 1 .. Len(ks)
  BY <1>1, <1>2, <1>3
<1>5. IsInjective(ks)
  <2>. SUFFICES ASSUME NEW i \in 1 .. Len(ks), NEW j \in 1 .. Len(ks), ks[i] = ks[j]
                PROVE  i = j
    BY <1>4 DEF IsInjective
  <2>1. /\ KeyOrder[n + i - 1] = KeyOrder[n + j - 1]
        /\ n + i - 1 \in 1 .. len /\ n + j - 1 \in 1 .. len
    BY <1>1, <1>2, <1>3, <1>4
  <2>2. n + i - 1 = n + j - 1
    BY <1>1, <2>1
  <2>. QED  BY <1>2, <2>2
<1>6. ToSet(ks) = {KeyOrder[i] : i \in n .. len}
  <2>1. ASSUME NEW i \in n .. len PROVE KeyOrder[i] \in ToSet(ks)
    <3>1. i - n + 1 \in 1 .. Len(ks) /\ n + (i - n + 1) - 1 = i
      BY <1>1, <1>2, <1>4, <2>1
    <3>2. ks[i - n + 1] = KeyOrder[i]
      BY <1>3, <1>4, <3>1
    <3>. QED  BY <1>4, <3>1, <3>2 DEF ToSet
  <2>2. ASSUME NEW i \in 1 .. Len(ks) PROVE ks[i] \in {KeyOrder[j] : j \in n .. len}
    <3>1. n + i - 1 \in n .. len /\ ks[i] = KeyOrder[n + i - 1]
      BY <1>1, <1>2, <1>3, <1>4
    <3>. QED  BY <3>1
  <2>. QED  BY <1>4, <2>1, <2>2 DEF ToSet
<1>7. ks = <<>> <=> n = len + 1
  BY <1>1, <1>2, <1>3, <1>4
<1>8. ASSUME ks # <<>> PROVE n + 1 \in 1 .. len + 1 /\ Tail(ks) = KeysFrom(n + 1)
  <2>1. n \in 1 .. len /\ len \in n .. len
    BY <1>1, <1>2, <1>7, <1>8
  <2>2. Tail(SubSeq(KeyOrder, n, len)) = SubSeq(KeyOrder, n + 1, len)
    BY <1>1, <2>1, HeadTailOfSubSeq DEF len
  <2>. QED  BY <1>2, <2>1, <2>2 DEF KeysFrom, len
<1>. QED  BY <1>3, <1>5, <1>6, <1>7, <1>8 DEF len

\* So are those that remain when the first of them is taken.
LEMMA NextKeys ==
    ASSUME NEW ks, \E n \in 1 .. Len(KeyOrder) + 1 : ks = KeysFrom(n), ks # <<>>
    PROVE  /\ \E n \in 1 .. Len(KeyOrder) + 1 : Tail(ks) = KeysFrom(n)
           /\ Head(ks) \in Keys /\ Tail(ks) \in Seq(Keys)
           /\ ToSet(ks) = ToSet(Tail(ks)) \cup {Head(ks)}
           /\ Head(ks) \notin ToSet(Tail(ks))
<1>1. PICK n \in 1 .. Len(KeyOrder) + 1 : ks = KeysFrom(n)
  OBVIOUS
<1>2. /\ ks \in Seq(Keys) /\ IsInjective(ks)
      /\ n + 1 \in 1 .. Len(KeyOrder) + 1 /\ Tail(ks) = KeysFrom(n + 1)
  BY <1>1, KeysFromFacts
<1>3. /\ Head(ks) \in Keys /\ Tail(ks) \in Seq(Keys)
      /\ ToSet(ks) = ToSet(Tail(ks)) \cup {Head(ks)}
      /\ Head(ks) \notin ToSet(Tail(ks))
  BY <1>2, TailKeys
<1>. QED  BY <1>2, <1>3

-----------------------------------------------------------------------------
(* The generators of the groups, as a call of op replaces them. *)

Generators == [Groups -> KeyGens \cup {None}]

LEMMA NilFacts ==
    /\ \A gs \in Generators, g \in Groups : gs[g] # None => gs[g] \in KeyGens
    /\ \A gen \in KeyGens : gen # None
    /\ \A op \in Operations : op # None
  BY NilAssumption DEF Generators

\* No operation of a key that nobody was given is running.
LEMMA NotGivenNotRunning ==
    ASSUME FlightInv, NEW k, \A h \in Groups : ran[k][h] = 0
    PROVE  Cardinality(InFlight(k)) = 0
<1>1. InFlight(k) = {}
  <2>. SUFFICES ASSUME NEW t \in InFlight(k) PROVE FALSE
    OBVIOUS
  <2>1. t \in ClientThreads /\ flight[t] # None /\ flight[t].key = k
    BY DEF InFlight
  <2>2. ran[k][GroupOf(t)] > 0
    BY <2>1 DEF FlightInv
  <2>3. GroupOf(t) \in Groups
    BY <2>1, GroupFacts
  <2>4. ran[k][GroupOf(t)] = 0
    BY <2>3
  <2>. QED  BY <2>2, <2>4
<1>. QED  BY <1>1, FS_EmptySet

\* An exhausted generator was run whole.
LEMMA ExhaustedIsWhole ==
    ASSUME TypeOK, NEW ks, NEW gs \in Generators, KeysInv(ks, gs),
           NEW g \in Groups, gs[g] # None, gs[g].left = 0
    PROVE  RunWhole(gs[g].key)
<1>. DEFINE k == gs[g].key
<1>1. gs[g] \in KeyGens
  BY NilFacts
<1>2. k \in Keys /\ ran[k][g] \in Nat /\ size[k] \in Nat
  BY <1>1 DEF KeyGens, TypeOK
<1>3. GeneratorInv(ks, gs, g)
  BY DEF KeysInv
<1>4. 0 + ran[k][g] = size[k] /\ \A h \in Groups \ {g} : ran[k][h] = 0
  BY <1>3 DEF GeneratorInv
<1>5. ran[k][g] = size[k]
  BY <1>2, <1>4
<1>6. \A h \in Groups : ran[k][h] = IF h = g THEN size[k] ELSE 0
  BY <1>4, <1>5
<1>. QED  BY <1>6 DEF RunWhole

\* The group of an exhausted generator gets the next key's.
LEMMA ReplaceKeys ==
    ASSUME TypeOK, FlightInv, NEW ks \in Seq(Keys), NEW gs \in Generators,
           KeysInv(ks, gs), NEW g \in Groups, ks # <<>>, Head(ks) \notin NilKeys,
           gs[g] = None \/ gs[g].left = 0,
           NEW gs2, gs2 = [gs EXCEPT ![g] = KeyGen(Head(ks))]
    PROVE  gs2 \in Generators /\ KeysInv(Tail(ks), gs2)
<1>. DEFINE k0 == Head(ks)
            ts == Tail(ks)
<1>1. /\ k0 \in Keys /\ ts \in Seq(Keys) /\ k0 \notin NilKeys
      /\ \E n \in 1 .. Len(KeyOrder) + 1 : ts = KeysFrom(n)
      /\ ToSet(ks) = ToSet(ts) \cup {k0} /\ k0 \notin ToSet(ts)
  BY NextKeys DEF KeysInv
<1>3. /\ KeyGen(k0) \in KeyGens /\ KeyGen(k0).key = k0 /\ KeyGen(k0).left = size[k0]
      /\ KeyGen(k0).invoked = 0 /\ KeyGen(k0).completed = 0 /\ KeyGen(k0).strays = {}
      /\ size[k0] \in Nat
  BY <1>1 DEF KeyGen, KeyGens, TypeOK
<1>2. ts # <<>> => \E f \in [Groups -> Keys] : CameUponNil(ks, gs, f)
  BY DEF KeysInv
<1>. HIDE DEF k0, ts
<1>4. /\ gs2 \in Generators
      /\ gs2[g] = KeyGen(k0) /\ gs2[g] # None
      /\ \A h \in Groups \ {g} : gs2[h] = gs[h]
  BY <1>3, NilFacts DEF Generators, k0
<1>5. \A h \in Groups : gs[h] # None => GeneratorInv(ks, gs, h)
  BY DEF KeysInv
<1>6. \A h \in Groups : gs[h] # None => gs[h].key \notin ToSet(ks)
  BY <1>5 DEF GeneratorInv
<1>7. \A h \in Groups : ran[k0][h] = 0
  BY <1>1 DEF KeysInv
<1>8. GeneratorInv(ts, gs2, g)
  <2>1. gs2[g].key = k0 /\ gs2[g].left + ran[k0][g] = size[k0]
    BY <1>3, <1>4, <1>7
  <2>2. \A h \in Groups \ {g} : gs2[h] # None => gs2[h].key # k0
    BY <1>1, <1>4, <1>6
  <2>3. Cardinality(InFlight(k0)) = 0
    BY <1>7, NotGivenNotRunning
  <2>4. gs2[g].invoked = 0 /\ gs2[g].completed = 0 /\ gs2[g].strays = {}
    BY <1>3, <1>4
  <2>. QED  BY <1>1, <1>7, <2>1, <2>2, <2>3, <2>4 DEF GeneratorInv
<1>9. ASSUME NEW h \in Groups \ {g}, gs2[h] # None PROVE GeneratorInv(ts, gs2, h)
  <2>1. gs[h] # None /\ GeneratorInv(ks, gs, h) /\ gs2[h] = gs[h]
    BY <1>4, <1>5, <1>9
  <2>2. gs2[g].key # gs[h].key /\ gs[h].key \notin ToSet(ts)
    BY <1>1, <1>3, <1>4, <1>6, <2>1
  <2>3. \A j \in Groups \ {h} : gs2[j] # None => gs2[j].key # gs[h].key
    BY <1>4, <2>1, <2>2 DEF GeneratorInv
  <2>. QED  BY <2>1, <2>2, <2>3 DEF GeneratorInv
<1>10. ASSUME NEW k \in Keys \ ToSet(ts), \A h \in Groups : gs2[h] # None => gs2[h].key # k
       PROVE  RunWhole(k)
  <2>1. k # k0
    BY <1>3, <1>4, <1>10
  <2>2. k \notin ToSet(ks)
    BY <1>1, <2>1
  <2>3. CASE gs[g] # None /\ k = gs[g].key
    BY <2>3, ExhaustedIsWhole
  <2>4. CASE gs[g] = None \/ k # gs[g].key
    <3>1. \A h \in Groups : gs[h] # None => gs[h].key # k
      BY <1>4, <1>10, <2>4
    <3>. QED  BY <2>2, <3>1 DEF KeysInv
  <2>. QED  BY <2>3, <2>4
<1>11. \A k \in ToSet(ts), h \in Groups : ran[k][h] = 0
  BY <1>1 DEF KeysInv
<1>12. \A h \in Groups : gs2[h] # None => GeneratorInv(ts, gs2, h)
  BY <1>8, <1>9
<1>13. ASSUME ts # <<>> PROVE \E f \in [Groups -> Keys] : CameUponNil(ts, gs2, f)
  <2>1. PICK f \in [Groups -> Keys] : CameUponNil(ks, gs, f)
    BY <1>2, <1>13
  <2>2. CameUponNil(ts, gs2, f)
    BY <1>1, <1>4, <2>1 DEF CameUponNil
  <2>. QED  BY <2>2
<1>. QED  BY <1>1, <1>4, <1>10, <1>11, <1>12, <1>13 DEF KeysInv, ts

\* The group of an exhausted generator finds no more keys, or comes upon a key
\* without a generator.
LEMMA RunDryKeys ==
    ASSUME TypeOK, NilKeysAreEmpty,
           NEW ks \in Seq(Keys), NEW gs \in Generators, KeysInv(ks, gs),
           NEW g \in Groups, gs[g] = None \/ gs[g].left = 0,
           ks # <<>> => Head(ks) \in NilKeys,
           NEW ts, ts = IF ks = <<>> THEN <<>> ELSE Tail(ks),
           NEW gs2, gs2 = [gs EXCEPT ![g] = None]
    PROVE  gs2 \in Generators /\ ts \in Seq(Keys) /\ KeysInv(ts, gs2)
<1>1. /\ gs2 \in Generators /\ gs2[g] = None
      /\ \A h \in Groups \ {g} : gs2[h] = gs[h]
  BY DEF Generators
<1>. DEFINE k0 == Head(ks)
<1>2. ks # <<>> => /\ k0 \in Keys /\ k0 \in NilKeys
                   /\ ToSet(ks) = ToSet(ts) \cup {k0} /\ k0 \notin ToSet(ts)
                   /\ \A h \in Groups : ran[k0][h] = 0
  BY NextKeys DEF KeysInv
<1>3. /\ ts \in Seq(Keys) /\ ToSet(ts) \subseteq ToSet(ks)
      /\ \E n \in 1 .. Len(KeyOrder) + 1 : ts = KeysFrom(n)
      /\ ts # <<>> => ks # <<>>
  <2>1. CASE ks = <<>>
    BY <2>1 DEF KeysInv
  <2>2. CASE ks # <<>>
    <3>1. \E n \in 1 .. Len(KeyOrder) + 1 : ks = KeysFrom(n)
      BY DEF KeysInv
    <3>2. /\ \E n \in 1 .. Len(KeyOrder) + 1 : Tail(ks) = KeysFrom(n)
          /\ Tail(ks) \in Seq(Keys) /\ ToSet(ks) = ToSet(Tail(ks)) \cup {Head(ks)}
      BY <2>2, <3>1, NextKeys
    <3>. QED  BY <2>2, <3>2
  <2>. QED  BY <2>1, <2>2
<1>. HIDE DEF k0
<1>4. ASSUME NEW h \in Groups, gs2[h] # None PROVE GeneratorInv(ts, gs2, h)
  <2>1. h # g /\ gs2[h] = gs[h] /\ GeneratorInv(ks, gs, h)
    BY <1>1, <1>4 DEF KeysInv
  <2>2. \A j \in Groups \ {h} : gs2[j] # None => gs2[j].key # gs[h].key
    BY <1>1, <2>1 DEF GeneratorInv
  <2>. QED  BY <1>3, <2>1, <2>2 DEF GeneratorInv
<1>5. ASSUME NEW k \in Keys \ ToSet(ts), \A h \in Groups : gs2[h] # None => gs2[h].key # k
      PROVE  RunWhole(k)
  <2>1. CASE gs[g] # None /\ k = gs[g].key
    BY <2>1, ExhaustedIsWhole
  <2>2. CASE (gs[g] = None \/ k # gs[g].key) /\ k \notin ToSet(ks)
    <3>1. \A h \in Groups : gs[h] # None => gs[h].key # k
      BY <1>1, <1>5, <2>2
    <3>. QED  BY <2>2, <3>1 DEF KeysInv
  <2>3. CASE k \in ToSet(ks)
    <3>1. ks # <<>>
      BY <2>3 DEF ToSet
    <3>2. k = k0 /\ size[k] = 0 /\ \A h \in Groups : ran[k][h] = 0
      BY <1>2, <1>5, <2>3, <3>1 DEF NilKeysAreEmpty
    <3>. QED  BY <3>2 DEF RunWhole
  <2>. QED  BY <2>1, <2>2, <2>3
<1>6. ASSUME ts # <<>> PROVE \E f \in [Groups -> Keys] : CameUponNil(ts, gs2, f)
  <2>0. ks # <<>>
    BY <1>3, <1>6
  <2>1. PICK f \in [Groups -> Keys] : CameUponNil(ks, gs, f)
    BY <2>0 DEF KeysInv
  <2>. DEFINE f2 == [f EXCEPT ![g] = k0]
  <2>2. f2 \in [Groups -> Keys] /\ f2[g] = k0 /\ \A h \in Groups \ {g} : f2[h] = f[h]
    BY <1>2, <2>0
  <2>. HIDE DEF f2
  <2>3. \A h \in Groups \ {g} : gs2[h] = None =>
           /\ gs[h] = None /\ f[h] \in NilKeys /\ f[h] \notin ToSet(ks)
           /\ \A j \in Groups \ {h} : gs[j] = None => f[j] # f[h]
    BY <1>1, <2>1 DEF CameUponNil
  <2>4. \A h \in Groups \ {g} : gs2[h] = None => f2[h] # k0 /\ f2[h] \notin ToSet(ts)
    BY <1>2, <2>0, <2>2, <2>3
  <2>5. \A h, j \in Groups : gs2[h] = None /\ gs2[j] = None /\ h # j => f2[h] # f2[j]
    <3>. SUFFICES ASSUME NEW h \in Groups, NEW j \in Groups, gs2[h] = None,
                         gs2[j] = None, h # j
                  PROVE  f2[h] # f2[j]
      OBVIOUS
    <3>1. CASE h = g \/ j = g
      BY <2>2, <2>4, <3>1
    <3>2. CASE h # g /\ j # g
      BY <2>2, <2>3, <3>2
    <3>. QED  BY <3>1, <3>2
  <2>6. \A h \in Groups : gs2[h] = None => f2[h] \in NilKeys /\ f2[h] \notin ToSet(ts)
    BY <1>2, <2>0, <2>2, <2>3, <2>4
  <2>7. CameUponNil(ts, gs2, f2)
    BY <2>5, <2>6 DEF CameUponNil
  <2>. QED  BY <2>2, <2>7
<1>7. \A k \in ToSet(ts), h \in Groups : ran[k][h] = 0
  BY <1>3 DEF KeysInv
<1>. QED  BY <1>1, <1>3, <1>4, <1>5, <1>6, <1>7 DEF KeysInv

-----------------------------------------------------------------------------
(* The generators of the groups, as operations are yielded and complete. *)

\* A group's generator yields an operation, to a free thread of the group, and
\* hears of it.
LEMMA YieldKeys ==
    ASSUME TypeOK, NEW ks, NEW gs \in Generators, KeysInv(ks, gs),
           NEW g \in Groups, gs[g] # None, gs[g].left > 0,
           NEW k, k = gs[g].key, NEW t \in ClientThreads, flight[t] = None,
           NEW op \in Operations, op.key = k,
           flight' = [flight EXCEPT ![t] = op],
           ran' = [ran EXCEPT ![k][g] = @ + 1], size' = size,
           NEW gen, gen = [gs[g] EXCEPT !.left = @ - 1, !.invoked = @ + 1],
           NEW gs2, gs2 = [gs EXCEPT ![g] = gen]
    PROVE  gs2 \in Generators /\ KeysInv(ks, gs2)'
<1>1. gs[g] \in KeyGens /\ k \in Keys
  BY NilFacts DEF KeyGens
<1>2. /\ gen \in KeyGens /\ gen.key = k /\ gen.left = gs[g].left - 1
      /\ gen.invoked = gs[g].invoked + 1 /\ gen.completed = gs[g].completed
      /\ gen.strays = gs[g].strays
  <2>1. gs[g].left - 1 \in 0 .. MaxOps /\ gs[g].invoked + 1 \in Nat
    BY <1>1, IndependentAssumption DEF KeyGens
  <2>. QED  BY <1>1, <2>1 DEF KeyGens
<1>3. /\ gs2 \in Generators /\ gs2[g] = gen /\ gs2[g] # None
      /\ \A h \in Groups \ {g} : gs2[h] = gs[h]
  BY <1>2, NilFacts DEF Generators
<1>4. /\ ran'[k][g] = ran[k][g] + 1
      /\ \A h \in Groups \ {g} : ran'[k][h] = ran[k][h]
      /\ \A j \in Keys \ {k} : ran'[j] = ran[j]
      /\ \A j \in Keys, h \in Groups : ran[j][h] \in Nat
  BY <1>1 DEF TypeOK
<1>5. op # None
  BY NilFacts
<1>6. /\ t \notin InFlight(k)
      /\ InFlight(k)' = InFlight(k) \cup {t}
      /\ \A j : j # k => InFlight(j)' = InFlight(j)
  BY <1>5 DEF InFlight, TypeOK
<1>7. Cardinality(InFlight(k)') = Cardinality(InFlight(k)) + 1
  <2>1. IsFiniteSet(InFlight(k))
    BY InFlightFinite
  <2>. QED  BY <1>6, <2>1, FS_AddElement
<1>8. GeneratorInv(ks, gs, g)
  BY DEF KeysInv
<1>9. GeneratorInv(ks, gs2, g)'
  <2>1. k \notin ToSet(ks) /\ gs2[g].key = k
    BY <1>2, <1>3, <1>8 DEF GeneratorInv
  <2>2. \A h \in Groups \ {g} : ran'[k][h] = 0 /\ (gs2[h] # None => gs2[h].key # k)
    BY <1>3, <1>4, <1>8 DEF GeneratorInv
  <2>3. /\ gs2[g].left + ran'[k][g] = size'[k]
        /\ gs2[g].invoked = ran'[k][g]
    <3>1. gs[g].left + ran[k][g] = size[k] /\ gs[g].invoked = ran[k][g]
      BY <1>8 DEF GeneratorInv
    <3>2. gs[g].left \in Nat /\ ran[k][g] \in Nat
      BY <1>1, <1>4 DEF KeyGens
    <3>3. /\ gs2[g].left = gs[g].left - 1
          /\ gs2[g].invoked = gs[g].invoked + 1
      BY <1>2, <1>3
    <3>4. size'[k] = size[k] /\ ran'[k][g] = ran[k][g] + 1
      BY <1>4
    <3>. QED  BY <3>1, <3>2, <3>3, <3>4
  <2>4. gs2[g].completed + Cardinality(InFlight(k)') = ran'[k][g]
    <3>1. gs[g].completed + Cardinality(InFlight(k)) = ran[k][g]
      BY <1>8 DEF GeneratorInv
    <3>2. gs[g].completed \in Nat /\ Cardinality(InFlight(k)) \in Nat /\ ran[k][g] \in Nat
      BY <1>1, <1>4, InFlightFinite DEF KeyGens
    <3>3. gs2[g].completed = gs[g].completed
      BY <1>2, <1>3
    <3>. QED  BY <1>4, <1>7, <3>1, <3>2, <3>3
  <2>5. \A s \in gs2[g].strays : ran'[s][g] > 0
    <3>. SUFFICES ASSUME NEW s \in gs2[g].strays PROVE ran'[s][g] > 0
      OBVIOUS
    <3>1. s \in gs[g].strays /\ s \in Keys /\ ran[s][g] > 0
      BY <1>1, <1>2, <1>3, <1>8 DEF GeneratorInv, KeyGens
    <3>. QED  BY <1>4, <3>1
  <2>. QED  BY <2>1, <2>2, <2>3, <2>4, <2>5 DEF GeneratorInv
<1>10. ASSUME NEW h \in Groups \ {g}, gs2[h] # None PROVE GeneratorInv(ks, gs2, h)'
  <2>. DEFINE j == gs[h].key
  <2>1. gs2[h] = gs[h] /\ GeneratorInv(ks, gs, h) /\ gs[h] \in KeyGens
    BY <1>3, <1>10, NilFacts DEF KeysInv
  <2>2. j \in Keys \ {k}
    BY <1>8, <1>10, <2>1 DEF GeneratorInv, KeyGens
  <2>3. ran'[j] = ran[j] /\ InFlight(j)' = InFlight(j)
    BY <1>4, <1>6, <2>2
  <2>4. \A f \in Groups \ {h} : gs2[f] # None => gs2[f].key # j
    BY <1>2, <1>3, <2>1, <2>2 DEF GeneratorInv
  <2>5. \A s \in gs[h].strays : ran'[s][h] > 0
    BY <1>4, <2>1 DEF GeneratorInv, KeyGens
  <2>. QED  BY <2>1, <2>3, <2>4, <2>5 DEF GeneratorInv
<1>11. ASSUME NEW j \in Keys \ ToSet(ks), \A h \in Groups : gs2[h] # None => gs2[h].key # j
       PROVE  RunWhole(j)'
  <2>1. j # k
    BY <1>2, <1>3, <1>11
  <2>2. \A h \in Groups : gs[h] # None => gs[h].key # j
    BY <1>3, <1>11, <2>1
  <2>3. RunWhole(j)
    BY <2>2 DEF KeysInv
  <2>. QED  BY <1>4, <2>1, <2>3 DEF RunWhole
<1>12. \A j \in ToSet(ks), h \in Groups : ran'[j][h] = 0
  <2>. SUFFICES ASSUME NEW j \in ToSet(ks), NEW h \in Groups PROVE ran'[j][h] = 0
    OBVIOUS
  <2>1. ran[j][h] = 0 /\ j # k
    BY <1>8 DEF KeysInv, GeneratorInv
  <2>2. ran'[j] = ran[j]
    BY <2>1 DEF TypeOK
  <2>. QED  BY <2>1, <2>2
<1>13. \A h \in Groups : gs2[h] # None => GeneratorInv(ks, gs2, h)'
  BY <1>3, <1>9, <1>10
<1>14. \A f : CameUponNil(ks, gs, f) => CameUponNil(ks, gs2, f)
  BY <1>3 DEF CameUponNil
<1>. QED  BY <1>3, <1>11, <1>12, <1>13, <1>14 DEF KeysInv, CameUponNil

\* What a generator becomes that hears of the completion of an operation of a
\* key.
Heard(gen, k) ==
    IF gen = None THEN None
    ELSE IF gen.key = k THEN [gen EXCEPT !.completed = @ + 1]
    ELSE [gen EXCEPT !.strays = @ \cup {k}]

LEMMA HeardFacts ==
    ASSUME NEW gen \in KeyGens, NEW k \in Keys, NEW new, new = Heard(gen, k)
    PROVE  /\ new \in KeyGens /\ new # None
           /\ new.key = gen.key /\ new.left = gen.left /\ new.invoked = gen.invoked
           /\ new.completed = IF gen.key = k THEN gen.completed + 1 ELSE gen.completed
           /\ new.strays = IF gen.key = k THEN gen.strays ELSE gen.strays \cup {k}
<1>1. gen # None
  BY NilFacts
<1>2. CASE gen.key = k
  <2>1. new = [gen EXCEPT !.completed = @ + 1]
    BY <1>1, <1>2 DEF Heard
  <2>2. new \in KeyGens
    BY <2>1 DEF KeyGens
  <2>. QED  BY <1>2, <2>1, <2>2, NilFacts DEF KeyGens
<1>3. CASE gen.key # k
  <2>1. new = [gen EXCEPT !.strays = @ \cup {k}]
    BY <1>1, <1>3 DEF Heard
  <2>2. new \in KeyGens
    BY <2>1 DEF KeyGens
  <2>. QED  BY <1>3, <2>1, <2>2, NilFacts DEF KeyGens
<1>. QED  BY <1>2, <1>3

\* An operation completes, and the generator of its thread's group hears of it.
LEMMA CompleteKeys ==
    ASSUME TypeOK, FlightInv, NEW ks, NEW gs \in Generators, KeysInv(ks, gs),
           NEW t \in ClientThreads, flight[t] # None,
           NEW k, k = flight[t].key, NEW g, g = GroupOf(t),
           flight' = [flight EXCEPT ![t] = None], ran' = ran, size' = size,
           NEW gs2, gs2 = [gs EXCEPT ![g] = Heard(gs[g], k)]
    PROVE  gs2 \in Generators /\ KeysInv(ks, gs2)'
<1>1. /\ g \in Groups /\ k \in Keys
      /\ \A j \in Keys, h \in Groups : ran[j][h] \in Nat
  <2>1. g \in Groups
    BY GroupFacts
  <2>2. flight[t] \in Operations
    BY DEF TypeOK
  <2>. QED  BY <2>1, <2>2 DEF TypeOK, Operations
<1>2. ran[k][g] > 0
  BY DEF FlightInv
<1>3. /\ gs[g] = None => gs2[g] = None
      /\ \A h \in Groups \ {g} : gs2[h] = gs[h]
      /\ gs2[g] = Heard(gs[g], k)
  BY <1>1 DEF Generators, Heard
<1>4. gs[g] # None =>
         /\ gs[g] \in KeyGens /\ gs2[g] \in KeyGens /\ gs2[g] # None
         /\ gs2[g].key = gs[g].key /\ gs2[g].left = gs[g].left
         /\ gs2[g].invoked = gs[g].invoked
         /\ gs2[g].completed = IF gs[g].key = k THEN gs[g].completed + 1 ELSE gs[g].completed
         /\ gs2[g].strays = IF gs[g].key = k THEN gs[g].strays ELSE gs[g].strays \cup {k}
  BY <1>1, <1>3, NilFacts, HeardFacts
<1>5. gs2 \in Generators
  BY <1>1, <1>3, <1>4 DEF Generators
<1>6. \A h \in Groups : /\ gs2[h] = None <=> gs[h] = None
                        /\ gs[h] # None => gs2[h].key = gs[h].key
                                           /\ gs2[h].left = gs[h].left
                                           /\ gs2[h].invoked = gs[h].invoked
  BY <1>3, <1>4
<1>7. /\ t \in InFlight(k)
      /\ InFlight(k)' = InFlight(k) \ {t}
      /\ \A j : j # k => InFlight(j)' = InFlight(j)
  BY DEF InFlight, TypeOK
<1>8. Cardinality(InFlight(k)') = Cardinality(InFlight(k)) - 1
  <2>1. IsFiniteSet(InFlight(k))
    BY InFlightFinite
  <2>. QED  BY <1>7, <2>1, FS_RemoveElement
<1>9. ASSUME NEW h \in Groups, gs2[h] # None PROVE GeneratorInv(ks, gs2, h)'
  <2>. DEFINE j == gs[h].key
  <2>1. gs[h] # None /\ GeneratorInv(ks, gs, h) /\ gs[h] \in KeyGens
    BY <1>6, <1>9, NilFacts DEF KeysInv
  <2>2. j \in Keys
    BY <2>1 DEF KeyGens
  <2>3. j = k => h = g
    BY <1>1, <1>2, <2>1 DEF GeneratorInv
  <2>4. gs2[h].completed + Cardinality(InFlight(j)') = ran[j][h]
    <3>1. /\ gs[h].completed + Cardinality(InFlight(j)) = ran[j][h]
          /\ gs[h].completed \in Nat /\ Cardinality(InFlight(j)) \in Nat
          /\ ran[j][h] \in Nat
      BY <1>1, <2>1, <2>2, InFlightFinite DEF GeneratorInv, KeyGens
    <3>2. CASE j = k
      <4>1. gs2[h].completed = gs[h].completed + 1
        BY <1>4, <2>1, <2>3, <3>2
      <4>2. Cardinality(InFlight(j)') = Cardinality(InFlight(j)) - 1
        BY <1>8, <3>2
      <4>. QED  BY <3>1, <4>1, <4>2
    <3>3. CASE j # k
      <4>1. gs2[h].completed = gs[h].completed
        BY <1>3, <1>4, <2>1, <3>3
      <4>2. InFlight(j)' = InFlight(j)
        BY <1>7, <3>3
      <4>. QED  BY <3>1, <4>1, <4>2
    <3>. QED  BY <3>2, <3>3
  <2>5. \A s \in gs2[h].strays : ran[s][h] > 0
    <3>1. \A s \in gs[h].strays : ran[s][h] > 0
      BY <2>1 DEF GeneratorInv
    <3>2. gs2[h].strays \subseteq gs[h].strays \cup (IF h = g THEN {k} ELSE {})
      BY <1>3, <1>4, <2>1
    <3>. QED  BY <1>2, <3>1, <3>2
  <2>6. /\ gs2[h].key = j /\ j \notin ToSet(ks)
        /\ \A f \in Groups \ {h} : ran[j][f] = 0 /\ (gs2[f] # None => gs2[f].key # j)
        /\ gs2[h].left + ran[j][h] = size[j]
        /\ gs2[h].invoked = ran[j][h]
    BY <1>6, <2>1 DEF GeneratorInv
  <2>. HIDE DEF j
  <2>. QED  BY <2>4, <2>5, <2>6 DEF GeneratorInv
<1>10. ASSUME NEW j \in Keys \ ToSet(ks), \A h \in Groups : gs2[h] # None => gs2[h].key # j
       PROVE  RunWhole(j)'
  <2>1. \A h \in Groups : gs[h] # None => gs[h].key # j
    BY <1>6, <1>10
  <2>2. RunWhole(j)
    BY <2>1 DEF KeysInv
  <2>. QED  BY <2>2 DEF RunWhole
<1>11. \A h \in Groups : gs2[h] # None => GeneratorInv(ks, gs2, h)'
  BY <1>9
<1>12. \A f : CameUponNil(ks, gs, f) => CameUponNil(ks, gs2, f)
  BY <1>6 DEF CameUponNil
<1>. QED  BY <1>5, <1>10, <1>11, <1>12 DEF KeysInv, CameUponNil

\* A step that runs nothing and completes nothing changes nothing of this.
LEMMA SameKeys ==
    ASSUME NEW ks, NEW gs, KeysInv(ks, gs), UNCHANGED <<ran, size, flight>>
    PROVE  KeysInv(ks, gs)'
<1>1. \A k : InFlight(k)' = InFlight(k)
  BY DEF InFlight
<1>2. \A k : RunWhole(k)' <=> RunWhole(k)
  BY DEF RunWhole
<1>3. \A g : GeneratorInv(ks, gs, g)' <=> GeneratorInv(ks, gs, g)
  BY <1>1 DEF GeneratorInv
<1>. QED  BY <1>2, <1>3 DEF KeysInv, CameUponNil

-----------------------------------------------------------------------------
(* The initial states. *)

LEMMA InitialKeys ==
    ASSUME Init
    PROVE  gens \in Generators /\ keys \in Seq(Keys) /\ KeysInv(keys, gens)
<1>. DEFINE n == Cardinality(Groups)
            len == Len(KeyOrder)
<1>1. /\ KeyOrder \in Seq(Keys) /\ len \in Nat /\ DOMAIN KeyOrder = 1 .. len
      /\ \A i, j \in 1 .. len : KeyOrder[i] = KeyOrder[j] => i = j
      /\ \A i \in 1 .. len : KeyOrder[i] \in Keys
      /\ \A k \in Keys : \E i \in 1 .. len : KeyOrder[i] = k
  BY IndependentAssumption DEF IsInjective, ToSet
<1>2. /\ n \in Nat /\ \A g \in Groups : g \in Nat /\ g < n
      /\ \A i \in Nat : i < n => i \in Groups
  <2>1. n \in Nat
    BY GroupFacts, FS_Interval, FS_CardinalityType, ContextAssumption, IndependentAssumption
       DEF Groups
  <2>. QED  BY <2>1, GroupFacts
<1>3. keys = SubSeq(KeyOrder, n + 1, len)
  BY DEF Init
<1>4. \A g \in Groups : gens[g] = IF g < len THEN KeyGen(KeyOrder[g + 1]) ELSE None
  BY DEF Init
<1>5. /\ \A k \in Keys \ NilKeys :
            /\ KeyGen(k) \in KeyGens /\ KeyGen(k).key = k
            /\ KeyGen(k).left = size[k] /\ KeyGen(k).invoked = 0
            /\ KeyGen(k).completed = 0 /\ KeyGen(k).strays = {}
      /\ \A k \in NilKeys : KeyGen(k) = None /\ size[k] = 0
      /\ \A k \in Keys : size[k] \in Nat
  BY DEF Init, KeyGen, KeyGens
<1>6. gens \in Generators
  <2>1. \A g \in Groups : g < len => KeyOrder[g + 1] \in Keys
    BY <1>1, <1>2
  <2>2. \A g \in Groups : gens[g] \in KeyGens \cup {None}
    BY <1>4, <1>5, <2>1
  <2>. QED  BY <2>2 DEF Init, Generators
<1>. HIDE DEF n, len
<1>7. \E m \in 1 .. len + 1 : keys = KeysFrom(m) /\ (n < len => m = n + 1)
                            /\ (n >= len => m = len + 1)
  <2>1. CASE n < len
    <3>1. n + 1 \in 1 .. len + 1 /\ keys = KeysFrom(n + 1)
      BY <1>1, <1>2, <1>3, <2>1 DEF KeysFrom, len
    <3>. QED  BY <1>1, <1>2, <2>1, <3>1
  <2>2. CASE n >= len
    <3>1. len + 1 \in 1 .. len + 1 /\ len + 1 > len /\ n + 1 > len
      BY <1>1, <1>2, <2>2
    <3>2. SubSeq(KeyOrder, n + 1, len) = <<>> /\ SubSeq(KeyOrder, len + 1, len) = <<>>
      BY <1>1, <1>2, <3>1, SubSeqEmpty
    <3>3. keys = KeysFrom(len + 1)
      BY <1>3, <3>2 DEF KeysFrom, len
    <3>. QED  BY <1>1, <1>2, <2>2, <3>1, <3>3
  <2>. QED  BY <1>1, <1>2, <2>1, <2>2
<1>8. PICK m \in 1 .. len + 1 : keys = KeysFrom(m) /\ (n < len => m = n + 1)
                             /\ (n >= len => m = len + 1)
  BY <1>7
<1>9. /\ keys \in Seq(Keys) /\ ToSet(keys) = {KeyOrder[i] : i \in m .. len}
      /\ keys = <<>> <=> m = len + 1
  BY <1>8, KeysFromFacts DEF len
<1>10. \A i \in 1 .. len : i <= n => KeyOrder[i] \notin ToSet(keys)
  <2>. SUFFICES ASSUME NEW i \in 1 .. len, i <= n, NEW j \in m .. len,
                       KeyOrder[i] = KeyOrder[j]
                PROVE  FALSE
    BY <1>9
  <2>1. j \in 1 .. len /\ j > n
    BY <1>1, <1>2, <1>8
  <2>2. i = j
    BY <1>1, <2>1
  <2>. QED  BY <1>1, <1>2, <2>1, <2>2
<1>11. /\ \A k \in Keys, h \in Groups : ran[k][h] = 0
       /\ \A k : InFlight(k) = {}
  BY DEF Init, InFlight
<1>12. ASSUME NEW g \in Groups, gens[g] # None PROVE GeneratorInv(keys, gens, g)
  <2>1. g + 1 \in 1 .. len /\ g < n /\ g < len /\ g \in Nat
    BY <1>1, <1>2, <1>4, <1>12
  <2>. DEFINE k == KeyOrder[g + 1]
  <2>2. k \in Keys \ NilKeys /\ gens[g] = KeyGen(k)
    BY <1>1, <1>4, <1>5, <1>12, <2>1
  <2>3. k \notin ToSet(keys)
    <3>1. g + 1 <= n
      BY <1>2, <2>1
    <3>. QED  BY <1>10, <2>1, <3>1
  <2>4. ASSUME NEW h \in Groups \ {g}, gens[h] # None PROVE gens[h].key # k
    <3>1. h + 1 \in 1 .. len /\ h < len /\ h \in Nat
      BY <1>1, <1>2, <1>4, <2>4
    <3>2. KeyOrder[h + 1] # k
      <4>1. CASE KeyOrder[h + 1] = k
        <5>1. h + 1 = g + 1
          BY <1>1, <2>1, <3>1, <4>1
        <5>. QED  BY <2>1, <3>1, <5>1
      <4>. QED  BY <4>1
    <3>3. gens[h].key = KeyOrder[h + 1]
      BY <1>1, <1>4, <1>5, <2>4, <3>1
    <3>. QED  BY <3>2, <3>3
  <2>. HIDE DEF k
  <2>5. gens[g].key = k /\ gens[g].left + 0 = size[k] /\ gens[g].invoked = 0
        /\ gens[g].completed + 0 = 0 /\ gens[g].strays = {}
    BY <1>5, <2>2
  <2>6. Cardinality(InFlight(k)) = 0
    BY <1>11, FS_EmptySet
  <2>7. \A h \in Groups : ran[k][h] = 0
    BY <1>11, <2>2
  <2>. QED  BY <2>3, <2>4, <2>5, <2>6, <2>7 DEF GeneratorInv
<1>13. ASSUME keys # <<>> PROVE \E f \in [Groups -> Keys] : CameUponNil(keys, gens, f)
  <2>. DEFINE f == [g \in Groups |-> KeyOrder[g + 1]]
  <2>1. n < len
    BY <1>1, <1>2, <1>8, <1>9, <1>13
  <2>2. \A g \in Groups : g + 1 \in 1 .. len /\ g + 1 <= n /\ g < len /\ g \in Nat
    BY <1>1, <1>2, <2>1
  <2>3. f \in [Groups -> Keys] /\ \A g \in Groups : f[g] = KeyOrder[g + 1]
    BY <1>1, <2>2
  <2>. HIDE DEF f
  <2>4. \A g \in Groups : f[g] \notin ToSet(keys)
    BY <1>10, <2>2, <2>3
  <2>5. \A g, h \in Groups : f[g] = f[h] => g = h
    <3>. SUFFICES ASSUME NEW g \in Groups, NEW h \in Groups, f[g] = f[h] PROVE g = h
      OBVIOUS
    <3>1. g + 1 = h + 1
      BY <1>1, <2>2, <2>3
    <3>. QED  BY <2>2, <3>1
  <2>6. \A g \in Groups : gens[g] = None => f[g] \in NilKeys
    BY <1>4, <1>5, <2>2, <2>3, NilFacts
  <2>7. CameUponNil(keys, gens, f)
    BY <2>4, <2>5, <2>6 DEF CameUponNil
  <2>. QED  BY <2>3, <2>7
<1>14. ASSUME NEW k \in Keys \ ToSet(keys),
              \A g \in Groups : gens[g] # None => gens[g].key # k
       PROVE  RunWhole(k)
  <2>1. PICK i \in 1 .. len : KeyOrder[i] = k
    BY <1>1
  <2>2. i <= n
    BY <1>1, <1>2, <1>8, <1>9, <1>14, <2>1
  <2>3. i - 1 \in Groups /\ i - 1 < len /\ (i - 1) + 1 = i
    BY <1>1, <1>2, <2>1, <2>2
  <2>4. gens[i - 1] = KeyGen(k)
    BY <1>4, <2>1, <2>3
  <2>5. k \in NilKeys
    BY <1>5, <1>14, <2>3, <2>4, NilFacts
  <2>6. size[k] = 0 /\ \A h \in Groups : ran[k][h] = 0
    BY <1>5, <1>11, <2>5
  <2>. QED  BY <2>3, <2>6 DEF RunWhole
<1>15. \A k \in ToSet(keys), h \in Groups : ran[k][h] = 0
  <2>1. ToSet(keys) \subseteq Keys
    BY <1>1, <1>8, <1>9
  <2>. QED  BY <1>11, <2>1
<1>16. \E j \in 1 .. Len(KeyOrder) + 1 : keys = KeysFrom(j)
  BY <1>8 DEF len
<1>. QED  BY <1>6, <1>9, <1>12, <1>13, <1>14, <1>15, <1>16 DEF KeysInv

LEMMA InitialInv == Init => IndependentInv
<1>. SUFFICES ASSUME Init PROVE IndependentInv
  OBVIOUS
<1>1. gens \in Generators /\ keys \in Seq(Keys) /\ KeysInv(keys, gens)
  BY InitialKeys
<1>2. Numbered(ctx) /\ IsContext(ctx) /\ ctx.free = Indices
  BY InitialIsNumbered, InitialContextFields DEF Init
<1>3. TypeOK
  <2>1. 0 \in 0 .. MaxCrashes
    BY IndependentAssumption
  <2>2. ran \in [Keys -> [Groups -> Nat]] /\ flight \in [ClientThreads -> Operations \cup {None}]
    BY DEF Init
  <2>. QED  BY <1>1, <1>2, <2>1, <2>2 DEF Init, TypeOK, Generators
<1>4. FlightInv
  BY <1>2, ClientIndices DEF Init, FlightInv, ThreadFree
<1>. QED  BY <1>1, <1>3, <1>4 DEF IndependentInv, CallInv, EndInv, Init, NilKeysAreEmpty

-----------------------------------------------------------------------------
(* A call of op. *)

\* A step of a call changes the call alone.
LEMMA CallStep ==
    ASSUME IndependentInv, InCall, ~ended,
           NEW c, call' = c, c \in Calls, Asking(c)
    PROVE  IndependentInv'
<1>1. TypeOK'
  BY DEF IndependentInv, InCall, TypeOK
<1>2. FlightInv' /\ EndInv'
  BY DEF IndependentInv, InCall, FlightInv, EndInv, RunWhole
<1>3. KeysInv(keys, gens)'
  <2>1. PICK ks, gs : ks = keys /\ gs = gens
    OBVIOUS
  <2>2. KeysInv(ks, gs)
    BY <2>1 DEF IndependentInv
  <2>3. KeysInv(ks, gs)'
    BY <2>2, SameKeys DEF InCall
  <2>4. ks = keys' /\ gs = gens'
    BY <2>1 DEF InCall
  <2>. QED  BY <2>3, <2>4
<1>4. CallInv'
  <2>1. PICK ks, gs : ks = c.keys /\ gs = c.gens
    OBVIOUS
  <2>2. KeysInv(ks, gs)
    BY <2>1 DEF Asking
  <2>3. KeysInv(ks, gs)'
    BY <2>2, SameKeys DEF InCall
  <2>4. KeysInv(c.keys, c.gens)'
    BY <2>1, <2>3
  <2>5. FreeGroups' = FreeGroups
    BY DEF InCall, FreeGroups
  <2>6. Asking(c)'
    BY <2>4, <2>5 DEF Asking
  <2>7. ~ended'
    BY DEF InCall
  <2>. QED  BY <2>6, <2>7 DEF CallInv
<1>5. NilKeysAreEmpty'
  BY DEF IndependentInv, NilKeysAreEmpty, InCall
<1>. QED  BY <1>1, <1>2, <1>3, <1>4, <1>5 DEF IndependentInv

LEMMA AskStep ==
    ASSUME IndependentInv, Ask PROVE IndependentInv'
<1>1. PICK order \in SetToSeqs(FreeGroups) :
         call' = [groups |-> order, keys |-> keys, gens |-> gens, soonest |-> None]
  BY DEF Ask
<1>. DEFINE c == [groups |-> order, keys |-> keys, gens |-> gens, soonest |-> None]
            n == Cardinality(FreeGroups)
<1>2. n \in Nat
  <2>1. IsFiniteSet(Groups)
    BY FS_Interval, ContextAssumption, IndependentAssumption DEF Groups
  <2>2. FreeGroups \in SUBSET Groups
    BY DEF FreeGroups
  <2>. QED  BY <2>1, <2>2, FS_Subset, FS_CardinalityType
<1>3. order \in [1 .. n -> FreeGroups] /\ \A i, j \in 1 .. n : i # j => order[i] # order[j]
  BY DEF SetToSeqs
<1>. HIDE DEF n
<1>4. DOMAIN order = 1 .. n /\ ToSet(order) \subseteq FreeGroups /\ IsInjective(order)
  BY <1>3 DEF ToSet, IsInjective
<1>5. order \in Seq(Groups)
  <2>1. order \in [1 .. n -> Groups]
    BY <1>3 DEF FreeGroups
  <2>. QED  BY <1>2, <2>1
<1>6. c \in Calls
  BY <1>5 DEF Calls, IndependentInv, TypeOK
<1>7. Asking(c)
  BY <1>4 DEF Asking, IndependentInv
<1>8. InCall /\ ~ended
  BY DEF Ask, InCall
<1>. HIDE DEF c
<1>9. call' = c
  BY <1>1 DEF c
<1>. QED  BY <1>6, <1>7, <1>8, <1>9, CallStep

\* While groups are left to be asked, the first of them is a free one, which is
\* not asked again.
LEMMA GroupIsFree ==
    ASSUME IndependentInv, Considering
    PROVE  /\ call \in Calls /\ Asking(call) /\ ~ended
           /\ Group \in FreeGroups /\ Group \in Groups
           /\ Tail(call.groups) \in Seq(Groups) /\ IsInjective(Tail(call.groups))
           /\ ToSet(Tail(call.groups)) \subseteq FreeGroups
           /\ Group \notin ToSet(Tail(call.groups))
           /\ ToSet(Tail(call.groups)) \subseteq ToSet(call.groups)
           /\ Group \in ToSet(call.groups)
<1>1. call \in Calls /\ Asking(call) /\ ~ended /\ call.groups # <<>>
  BY DEF IndependentInv, TypeOK, CallInv, Considering
<1>2. call.groups \in Seq(Groups) /\ IsInjective(call.groups)
      /\ ToSet(call.groups) \subseteq FreeGroups
  BY <1>1 DEF Calls, Asking
<1>. DEFINE gs == call.groups
<1>3. /\ Head(gs) \in Groups /\ Tail(gs) \in Seq(Groups)
      /\ IsInjective(Tail(gs))
      /\ ToSet(gs) = ToSet(Tail(gs)) \cup {Head(gs)}
      /\ Head(gs) \notin ToSet(Tail(gs))
  BY <1>1, <1>2, TailKeys
<1>. QED  BY <1>1, <1>2, <1>3 DEF Group

LEMMA OfferStep ==
    ASSUME IndependentInv, Offer PROVE IndependentInv'
<1>1. PICK s \in {Group} \cup ({call.soonest} \ {None}) :
         call' = [call EXCEPT !.groups = Tail(@), !.soonest = s]
  BY DEF Offer
<1>. DEFINE c == [call EXCEPT !.groups = Tail(@), !.soonest = s]
<1>2. Considering /\ ~Exhausted /\ InCall
  BY DEF Offer
<1>3. /\ call \in Calls /\ Asking(call) /\ ~ended
      /\ Group \in FreeGroups /\ Group \in Groups
      /\ Tail(call.groups) \in Seq(Groups) /\ IsInjective(Tail(call.groups))
      /\ ToSet(Tail(call.groups)) \subseteq FreeGroups
      /\ Group \notin ToSet(Tail(call.groups))
      /\ ToSet(Tail(call.groups)) \subseteq ToSet(call.groups)
  BY <1>2, GroupIsFree
<1>4. call.gens[Group] # None /\ call.gens[Group].left > 0
  <2>1. call.gens[Group] # None /\ call.gens[Group].left # 0
    BY <1>2 DEF Exhausted
  <2>2. call.gens[Group] \in KeyGens
    BY <1>3, <2>1 DEF Calls
  <2>3. call.gens[Group].left \in Nat
    BY <2>2 DEF KeyGens
  <2>. QED  BY <2>1, <2>3
<1>5. /\ s \in FreeGroups \ ToSet(Tail(call.groups))
      /\ call.gens[s] # None /\ call.gens[s].left > 0
  BY <1>3, <1>4 DEF Asking
<1>6. s \in Groups
  BY <1>5 DEF FreeGroups
<1>7. /\ c \in Calls /\ c.groups = Tail(call.groups) /\ c.soonest = s
      /\ c.keys = call.keys /\ c.gens = call.gens
  BY <1>3, <1>6 DEF Calls
<1>. HIDE DEF c
<1>8. Asking(c)
  BY <1>3, <1>5, <1>7 DEF Asking
<1>9. call' = c
  BY <1>1 DEF c
<1>. QED  BY <1>2, <1>3, <1>7, <1>8, <1>9, CallStep

LEMMA OfferPendingStep ==
    ASSUME IndependentInv, OfferPending PROVE IndependentInv'
<1>. DEFINE c == [call EXCEPT !.groups = Tail(@)]
<1>2. Considering /\ InCall /\ call' = c
  BY DEF OfferPending
<1>3. /\ call \in Calls /\ Asking(call) /\ ~ended
      /\ Tail(call.groups) \in Seq(Groups) /\ IsInjective(Tail(call.groups))
      /\ ToSet(Tail(call.groups)) \subseteq FreeGroups
      /\ ToSet(Tail(call.groups)) \subseteq ToSet(call.groups)
  BY <1>2, GroupIsFree
<1>7. /\ c \in Calls /\ c.groups = Tail(call.groups) /\ c.soonest = call.soonest
      /\ c.keys = call.keys /\ c.gens = call.gens
  BY <1>3 DEF Calls
<1>. HIDE DEF c
<1>8. Asking(c)
  BY <1>3, <1>7 DEF Asking
<1>. QED  BY <1>2, <1>3, <1>7, <1>8, CallStep

LEMMA ReplaceStep ==
    ASSUME IndependentInv, Replace PROVE IndependentInv'
<1>. DEFINE gs2 == [call.gens EXCEPT ![Group] = KeyGen(Head(call.keys))]
            c   == [call EXCEPT !.gens[Group] = KeyGen(Head(call.keys)), !.keys = Tail(@)]
<1>1. /\ Considering /\ Exhausted /\ InCall /\ call' = c
      /\ call.keys # <<>> /\ Head(call.keys) \notin NilKeys
  BY DEF Replace, Replaceable, KeyGen
<1>2. /\ call \in Calls /\ Asking(call) /\ ~ended /\ Group \in Groups
      /\ Group \in ToSet(call.groups)
  BY <1>1, GroupIsFree
<1>3. call.keys \in Seq(Keys) /\ call.gens \in Generators /\ KeysInv(call.keys, call.gens)
  BY <1>2 DEF Calls, Generators, Asking
<1>4. call.gens[Group] = None \/ call.gens[Group].left = 0
  BY <1>1 DEF Exhausted
<1>5. gs2 \in Generators /\ KeysInv(Tail(call.keys), gs2)
  BY <1>1, <1>2, <1>3, <1>4, ReplaceKeys DEF IndependentInv
<1>6. Tail(call.keys) \in Seq(Keys)
  BY <1>1, <1>3
<1>7. /\ c.groups = call.groups /\ c.soonest = call.soonest
      /\ c.keys = Tail(call.keys) /\ c.gens = gs2
      /\ c \in Calls
  BY <1>2, <1>5, <1>6 DEF Calls, Generators
<1>8. \A g \in Groups : g # Group => gs2[g] = call.gens[g]
  BY <1>3 DEF Generators
<1>. HIDE DEF c, gs2
<1>9. Asking(c)
  <2>1. c.soonest # None =>
           /\ c.soonest \in FreeGroups \ ToSet(c.groups)
           /\ c.gens[c.soonest] # None
           /\ c.gens[c.soonest].left > 0
    <3>. SUFFICES ASSUME c.soonest # None
                  PROVE  /\ c.soonest \in FreeGroups \ ToSet(c.groups)
                         /\ c.gens[c.soonest] # None
                         /\ c.gens[c.soonest].left > 0
      OBVIOUS
    <3>1. /\ call.soonest \in FreeGroups \ ToSet(call.groups)
          /\ call.gens[call.soonest] # None
          /\ call.gens[call.soonest].left > 0
      BY <1>2, <1>7 DEF Asking
    <3>2. call.soonest \in Groups /\ call.soonest # Group
      BY <1>2, <3>1 DEF FreeGroups
    <3>. QED  BY <1>7, <1>8, <3>1, <3>2
  <2>. QED  BY <1>2, <1>5, <1>7, <2>1 DEF Asking
<1>. QED  BY <1>1, <1>2, <1>7, <1>9, CallStep

LEMMA RunDryStep ==
    ASSUME IndependentInv, RunDry PROVE IndependentInv'
<1>. DEFINE gs2 == [call.gens EXCEPT ![Group] = None]
            ts  == IF call.keys = <<>> THEN <<>> ELSE Tail(call.keys)
            c   == [call EXCEPT !.groups = Tail(@), !.gens[Group] = None,
                                !.keys   = IF @ = <<>> THEN <<>> ELSE Tail(@)]
<1>1. Considering /\ Exhausted /\ ~Replaceable /\ InCall /\ call' = c
  BY DEF RunDry
<1>2. /\ call \in Calls /\ Asking(call) /\ ~ended /\ Group \in Groups
      /\ Group \in ToSet(call.groups)
      /\ Tail(call.groups) \in Seq(Groups) /\ IsInjective(Tail(call.groups))
      /\ ToSet(Tail(call.groups)) \subseteq FreeGroups
      /\ ToSet(Tail(call.groups)) \subseteq ToSet(call.groups)
  BY <1>1, GroupIsFree
<1>3. call.keys \in Seq(Keys) /\ call.gens \in Generators /\ KeysInv(call.keys, call.gens)
  BY <1>2 DEF Calls, Generators, Asking
<1>4. call.gens[Group] = None \/ call.gens[Group].left = 0
  BY <1>1 DEF Exhausted
<1>5. gs2 \in Generators /\ ts \in Seq(Keys) /\ KeysInv(ts, gs2)
  <2>1. call.keys # <<>> => Head(call.keys) \in NilKeys
    <3>. SUFFICES ASSUME call.keys # <<>>, Head(call.keys) \notin NilKeys PROVE FALSE
      OBVIOUS
    <3>1. Head(call.keys) \in Keys
      BY <1>3
    <3>2. KeyGen(Head(call.keys)) \in KeyGens
      BY <3>1 DEF KeyGen, KeyGens, IndependentInv, TypeOK
    <3>. QED  BY <1>1, <3>2, NilFacts DEF Replaceable
  <2>. QED  BY <1>2, <1>3, <1>4, <2>1, RunDryKeys DEF IndependentInv
<1>7. /\ c.groups = Tail(call.groups) /\ c.soonest = call.soonest
      /\ c.keys = ts /\ c.gens = gs2
      /\ c \in Calls
  BY <1>2, <1>5 DEF Calls, Generators
<1>8. \A g \in Groups : g # Group => gs2[g] = call.gens[g]
  BY <1>3 DEF Generators
<1>. HIDE DEF c, gs2, ts
<1>9. Asking(c)
  <2>1. c.soonest # None =>
           /\ c.soonest \in FreeGroups \ ToSet(c.groups)
           /\ c.gens[c.soonest] # None
           /\ c.gens[c.soonest].left > 0
    <3>. SUFFICES ASSUME c.soonest # None
                  PROVE  /\ c.soonest \in FreeGroups \ ToSet(c.groups)
                         /\ c.gens[c.soonest] # None
                         /\ c.gens[c.soonest].left > 0
      OBVIOUS
    <3>1. /\ call.soonest \in FreeGroups \ ToSet(call.groups)
          /\ call.gens[call.soonest] # None
          /\ call.gens[call.soonest].left > 0
      BY <1>2, <1>7 DEF Asking
    <3>2. call.soonest \in Groups /\ call.soonest # Group
      BY <1>2, <3>1 DEF FreeGroups
    <3>. QED  BY <1>2, <1>7, <1>8, <3>1, <3>2
  <2>. QED  BY <1>2, <1>5, <1>7, <2>1 DEF Asking
<1>. QED  BY <1>1, <1>2, <1>7, <1>9, CallStep

-----------------------------------------------------------------------------
(* What the interpreter does with the answer. *)

\* The generator of a thread's group hears of an invocation of its own key.
LEMMA InvokedEffect ==
    ASSUME NEW gs, NEW c, NEW p, NEW t \in ClientThreads, ProcessToThread(c, p) = t,
           NEW g, g = GroupOf(t), gs[g] # None, NEW k, k = gs[g].key
    PROVE  Update(gs, c, p, k, "invoked") =
              [gs EXCEPT ![g] = [gs[g] EXCEPT !.invoked = @ + 1]]
<1>1. t # None
  BY ContextAssumption DEF ClientThreads
<1>. QED  BY <1>1 DEF Update

\* So it does of a completion, of whatever key.
LEMMA CompletedEffect ==
    ASSUME NEW gs \in Generators, NEW c, NEW p, NEW t \in ClientThreads,
           ProcessToThread(c, p) = t, NEW g, g = GroupOf(t), NEW k
    PROVE  Update(gs, c, p, k, "completed") = [gs EXCEPT ![g] = Heard(gs[g], k)]
<1>1. t # None
  BY ContextAssumption DEF ClientThreads
<1>2. g \in Groups
  BY GroupFacts
<1>3. CASE gs[g] = None
  <2>1. Update(gs, c, p, k, "completed") = gs
    BY <1>1, <1>3 DEF Update
  <2>2. Heard(gs[g], k) = gs[g]
    BY <1>3 DEF Heard
  <2>3. [gs EXCEPT ![g] = gs[g]] = gs
    BY <1>2 DEF Generators
  <2>. QED  BY <2>1, <2>2, <2>3
<1>4. CASE gs[g] # None /\ gs[g].key = k
  BY <1>1, <1>4 DEF Update, Heard
<1>5. CASE gs[g] # None /\ gs[g].key # k
  BY <1>1, <1>5 DEF Update, Heard
<1>. QED  BY <1>3, <1>4, <1>5

LEMMA YieldStep ==
    ASSUME IndependentInv, Yield PROVE IndependentInv'
<1>. DEFINE g       == call.soonest
            k       == call.gens[g].key
            process == SomeFreeProcess(ContextOf(g))
            thread  == ProcessToThread(ctx, process)
            busy    == BusyThread(ctx, 0, thread)
            op      == [key |-> k, process |-> process]
<1>1. /\ ctx' = busy /\ keys' = call.keys
      /\ gens' = Update(GensAfter(g), busy, process, k, "invoked")
      /\ flight' = [flight EXCEPT ![thread] = op]
      /\ ran' = [ran EXCEPT ![k][GroupOf(thread)] = @ + 1]
      /\ call' = Idle /\ UNCHANGED <<size, crashes, ended>>
  BY DEF Yield
<1>2. call \in Calls /\ Asking(call) /\ ~ended /\ TypeOK /\ FlightInv /\ Numbered(ctx)
      /\ IsContext(ctx)
  BY DEF Yield, Considered, IndependentInv, CallInv, TypeOK, FlightInv
<1>3. /\ g \in FreeGroups /\ g \in Groups /\ call.gens[g] # None /\ call.gens[g].left > 0
      /\ KeysInv(call.keys, call.gens) /\ call.gens \in Generators
      /\ call.keys \in Seq(Keys)
  BY <1>2 DEF Yield, Asking, FreeGroups, Calls, Generators
<1>4. /\ thread \in ClientThreads /\ GroupOf(thread) = g /\ ThreadFree(ctx, thread)
      /\ process = ThreadToProcess(ctx, thread)
  <2>. DEFINE free == ContextOf(g).free
  <2>1. free = ctx.free \cap {NameToIndex(t) : t \in ThreadsOf(g)}
    BY <1>2 DEF ContextOf, FilterThreads, IsContext
  <2>2. {NameToIndex(t) : t \in ThreadsOf(g)} = ThreadsOf(g)
    BY ClientIndices DEF ThreadsOf
  <2>3. free = ctx.free \cap ThreadsOf(g)
    BY <2>1, <2>2
  <2>4. free # {}
    <3>1. PICK t \in ThreadsOf(g) : ThreadFree(ctx, t)
      BY <1>3 DEF FreeGroups
    <3>2. NameToIndex(t) = t
      BY ClientIndices DEF ThreadsOf
    <3>. QED  BY <2>3, <3>1, <3>2 DEF ThreadFree
  <2>5. free \in SUBSET Nat
    BY <2>3, ClientIndices DEF ThreadsOf
  <2>6. ContextOf(g).threadProcess = ctx.threadProcess
    BY <1>2 DEF ContextOf, FilterThreads, IsContext
  <2>. HIDE DEF free, process
  <2>7. PICK i \in free : process = ContextOf(g).threadProcess[i]
    BY <2>4, <2>5, SomeFreeProcessIsFree DEF free, process
  <2>8. i \in ctx.free /\ i \in ClientThreads /\ GroupOf(i) = g /\ NameToIndex(i) = i
        /\ i \in Threads
    BY <2>3, <2>7, ClientIndices DEF ThreadsOf
  <2>9. process = ThreadToProcess(ctx, i)
    BY <2>6, <2>7, <2>8 DEF ThreadToProcess
  <2>10. thread = i
    BY <1>2, <2>8, <2>9, OwnerOf
  <2>. QED  BY <2>8, <2>9, <2>10 DEF ThreadFree
<1>. HIDE DEF process, thread
<1>5. /\ IsContext(busy) /\ busy.free = ctx.free \ {thread}
      /\ busy.threadProcess = ctx.threadProcess
      /\ busy.processThread = ctx.processThread
  <2>1. thread \in Threads /\ NameToIndex(thread) = thread
    BY <1>4, ClientIndices
  <2>2. busy.free = ctx.free \ {NameToIndex(thread)}
    BY <1>2, <2>1, BusyFields
  <2>3. /\ IsContext(busy) /\ busy.threadProcess = ctx.threadProcess
        /\ busy.processThread = ctx.processThread
    BY <1>2, <2>1, BusyFields
  <2>. HIDE DEF busy
  <2>. QED  BY <2>1, <2>2, <2>3
<1>6. /\ Numbered(busy)
      /\ \A t : ThreadToProcess(busy, t) = ThreadToProcess(ctx, t)
      /\ \A p : ProcessToThread(busy, p) = ProcessToThread(ctx, p)
  BY <1>2, <1>5, SameMapsAreNumbered
<1>. HIDE DEF busy
<1>7. op \in Operations /\ op.key = k /\ op.process = process /\ k \in Keys /\ op # None
  <2>1. k \in Keys
    BY <1>3, NilFacts DEF KeyGens
  <2>2. process \in Nat
    BY <1>2, <1>4 DEF Numbered
  <2>. QED  BY <2>1, <2>2, NilFacts DEF Operations
<1>8. flight[thread] = None
  BY <1>2, <1>4 DEF FlightInv
<1>. DEFINE gen == [call.gens[g] EXCEPT !.left = @ - 1, !.invoked = @ + 1]
            gs2 == [call.gens EXCEPT ![g] = gen]
<1>9. gens' = gs2
  <2>. DEFINE gs1 == GensAfter(g)
  <2>1. call.gens[g] \in KeyGens /\ DOMAIN call.gens = Groups
    BY <1>3, NilFacts DEF Generators
  <2>2. gs1 = [call.gens EXCEPT ![g] = [call.gens[g] EXCEPT !.left = @ - 1]]
    BY DEF GensAfter
  <2>3. gs1[g] = [call.gens[g] EXCEPT !.left = @ - 1]
    BY <1>3, <2>1, <2>2
  <2>4. gs1[g] \in KeyGens /\ gs1[g].key = k
    <3>1. call.gens[g].left - 1 \in 0 .. MaxOps
      BY <1>3, <2>1, IndependentAssumption DEF KeyGens
    <3>. QED  BY <2>1, <2>3, <3>1 DEF KeyGens
  <2>5. gs1[g] # None
    BY <2>4, NilFacts
  <2>6. ProcessToThread(busy, process) = thread
    BY <1>6 DEF thread
  <2>. HIDE DEF gs1, g, k
  <2>7. gens' = [gs1 EXCEPT ![g] = [gs1[g] EXCEPT !.invoked = @ + 1]]
    BY <1>1, <1>4, <2>4, <2>5, <2>6, InvokedEffect DEF gs1
  <2>8. gs1[g].invoked = call.gens[g].invoked
    BY <2>1, <2>3 DEF KeyGens
  <2>9. [gs1[g] EXCEPT !.invoked = @ + 1] = gen
    BY <2>3, <2>8
  <2>. QED  BY <2>2, <2>7, <2>9
<1>. HIDE DEF gen, op
<1>10. gs2 \in Generators /\ KeysInv(keys, gens)'
  <2>1. PICK ks, gs, n, j, new : /\ ks = call.keys /\ gs = call.gens /\ n = g /\ j = k
                                /\ new = gs2
    OBVIOUS
  <2>2. PICK t, o, ge : t = thread /\ o = op /\ ge = gen
    OBVIOUS
  <2>. HIDE DEF g, k, gs2
  <2>3. gs \in Generators /\ KeysInv(ks, gs) /\ n \in Groups /\ gs[n] # None /\ gs[n].left > 0
        /\ j = gs[n].key
    BY <1>3, <2>1 DEF k
  <2>4. t \in ClientThreads /\ flight[t] = None /\ o \in Operations /\ o.key = j
    BY <1>4, <1>7, <1>8, <2>1, <2>2
  <2>5. flight' = [flight EXCEPT ![t] = o] /\ ran' = [ran EXCEPT ![j][n] = @ + 1]
        /\ size' = size
    BY <1>1, <1>4, <2>1, <2>2
  <2>6. ge = [gs[n] EXCEPT !.left = @ - 1, !.invoked = @ + 1] /\ new = [gs EXCEPT ![n] = ge]
    BY <2>1, <2>2 DEF gen, gs2
  <2>7. new \in Generators /\ KeysInv(ks, new)'
    BY <1>2, <2>3, <2>4, <2>5, <2>6, YieldKeys
  <2>8. keys' = ks /\ gens' = new
    BY <1>1, <1>9, <2>1
  <2>. QED  BY <2>1, <2>7, <2>8
<1>11. TypeOK'
  <2>1. flight' \in [ClientThreads -> Operations \cup {None}]
    BY <1>1, <1>2, <1>7 DEF TypeOK
  <2>2. ran' \in [Keys -> [Groups -> Nat]]
    <3>1. ran[k] \in [Groups -> Nat] /\ ran' = [ran EXCEPT ![k][g] = @ + 1]
      BY <1>1, <1>2, <1>4, <1>7 DEF TypeOK
    <3>2. [ran[k] EXCEPT ![g] = @ + 1] \in [Groups -> Nat]
      BY <1>3, <3>1
    <3>. QED  BY <1>2, <1>7, <3>1, <3>2 DEF TypeOK
  <2>. HIDE DEF g, k, gs2
  <2>3. keys' \in Seq(Keys) /\ gens' \in [Groups -> KeyGens \cup {None}]
    BY <1>1, <1>3, <1>9, <1>10 DEF Generators
  <2>. QED  BY <1>1, <1>2, <1>5, <2>1, <2>2, <2>3 DEF TypeOK
<1>12. FlightInv'
  <2>1. ASSUME NEW t \in ClientThreads
        PROVE  IF flight'[t] = None THEN ThreadFree(busy, t)
               ELSE /\ ~ThreadFree(busy, t)
                    /\ flight'[t].process = ThreadToProcess(busy, t)
                    /\ ran'[flight'[t].key][GroupOf(t)] > 0
    <3>0. NameToIndex(t) = t
      BY ClientIndices
    <3>1. CASE t = thread
      <4>1. flight'[t] = op
        BY <1>1, <1>2, <1>4, <3>1 DEF TypeOK
      <4>2. ~ThreadFree(busy, t)
        BY <1>5, <3>0, <3>1 DEF ThreadFree
      <4>3. ran'[k][GroupOf(t)] = ran[k][g] + 1 /\ ran[k][g] \in Nat
        BY <1>1, <1>2, <1>3, <1>4, <1>7, <3>1 DEF TypeOK
      <4>. QED  BY <1>4, <1>6, <1>7, <3>1, <4>1, <4>2, <4>3
    <3>2. CASE t # thread
      <4>1. flight'[t] = flight[t]
        BY <1>1, <1>2, <3>2 DEF TypeOK
      <4>2. ThreadFree(busy, t) <=> ThreadFree(ctx, t)
        BY <1>5, <3>0, <3>2 DEF ThreadFree
      <4>3. ASSUME flight[t] # None PROVE ran'[flight[t].key][GroupOf(t)] > 0
        <5>1. flight[t].key \in Keys /\ GroupOf(t) \in Groups
          BY <1>2, <4>3, GroupFacts DEF TypeOK, Operations
        <5>2. ran[flight[t].key][GroupOf(t)] > 0
          BY <1>2, <4>3 DEF FlightInv
        <5>3. ran'[flight[t].key][GroupOf(t)] >= ran[flight[t].key][GroupOf(t)]
          BY <1>1, <1>2, <1>3, <1>4, <1>7, <5>1 DEF TypeOK
        <5>4. /\ ran[flight[t].key][GroupOf(t)] \in Nat
              /\ ran'[flight[t].key][GroupOf(t)] \in Nat
          BY <1>2, <1>11, <5>1 DEF TypeOK
        <5>. QED  BY <5>2, <5>3, <5>4
      <4>. QED  BY <1>2, <1>6, <4>1, <4>2, <4>3 DEF FlightInv
    <3>. QED  BY <3>1, <3>2
  <2>. QED  BY <1>1, <1>6, <2>1 DEF FlightInv
<1>13. CallInv' /\ EndInv'
  BY <1>1, <1>2 DEF CallInv, EndInv
<1>14. NilKeysAreEmpty'
  BY <1>1 DEF IndependentInv, NilKeysAreEmpty
<1>. QED  BY <1>10, <1>11, <1>12, <1>13, <1>14 DEF IndependentInv

\* The generator that was asked is thrown away.
LEMMA AskAgainStep ==
    ASSUME IndependentInv, AskAgain PROVE IndependentInv'
<1>1. UNCHANGED <<ctx, size, keys, gens, flight, crashes, ended, ran>> /\ call' = Idle
  BY DEF AskAgain
<1>2. PICK ks, gs : ks = keys /\ gs = gens
  OBVIOUS
<1>3. KeysInv(ks, gs)'
  BY <1>1, <1>2, SameKeys DEF IndependentInv
<1>4. KeysInv(keys, gens)'
  BY <1>1, <1>2, <1>3
<1>5. TypeOK' /\ CallInv'
  BY <1>1 DEF IndependentInv, TypeOK, CallInv
<1>6. FlightInv' /\ EndInv'
  BY <1>1 DEF IndependentInv, FlightInv, EndInv, RunWhole
<1>7. NilKeysAreEmpty'
  BY <1>1 DEF IndependentInv, NilKeysAreEmpty
<1>. QED  BY <1>4, <1>5, <1>6, <1>7 DEF IndependentInv

\* The keys are finitely many.
LEMMA FiniteKeys ==
    /\ IsFiniteSet(Keys) /\ IsFiniteSet(NilKeys)
    /\ \A k : IsFiniteSet(NilKeysBefore(k)) /\ NilKeysBefore(k) \subseteq NilKeys
<1>1. KeyOrder \in Seq(Keys) /\ ToSet(KeyOrder) = Keys /\ NilKeys \subseteq Keys
  BY IndependentAssumption
<1>2. KeyOrder \in Surjection(1 .. Len(KeyOrder), Keys)
  <2>1. KeyOrder \in [1 .. Len(KeyOrder) -> Keys]
    BY <1>1
  <2>2. \A k \in Keys : \E i \in 1 .. Len(KeyOrder) : KeyOrder[i] = k
    BY <1>1 DEF ToSet
  <2>. QED  BY <2>1, <2>2 DEF Surjection
<1>3. IsFiniteSet(1 .. Len(KeyOrder))
  BY <1>1, FS_Interval
<1>4. IsFiniteSet(Keys)
  BY <1>2, <1>3, FS_Surjection
<1>5. IsFiniteSet(NilKeys)
  BY <1>1, <1>4, FS_Subset
<1>6. \A k : NilKeysBefore(k) \in SUBSET NilKeys
  BY DEF NilKeysBefore
<1>. QED  BY <1>4, <1>5, <1>6, FS_Subset

\* When no group has a generator, a key that is left comes after a key without a
\* generator for every group.
LEMMA LeftBehind ==
    ASSUME NEW ks, NEW gs, KeysInv(ks, gs), \A g \in Groups : gs[g] = None,
           NEW k \in ToSet(ks)
    PROVE  Cardinality(NilKeysBefore(k)) >= Cardinality(Groups)
<1>. DEFINE len == Len(KeyOrder)
<1>1. /\ len \in Nat /\ DOMAIN KeyOrder = 1 .. len
      /\ \A j \in Keys : \E i \in 1 .. len : KeyOrder[i] = j
  BY IndependentAssumption DEF ToSet
<1>2. PICK n \in 1 .. len + 1 : ks = KeysFrom(n)
  BY DEF KeysInv
<1>3. ToSet(ks) = {KeyOrder[i] : i \in n .. len}
  BY <1>2, KeysFromFacts
<1>4. PICK i \in n .. len : KeyOrder[i] = k
  BY <1>3
<1>5. ks # <<>>
  BY DEF ToSet
<1>6. PICK f \in [Groups -> Keys] : CameUponNil(ks, gs, f)
  BY <1>5 DEF KeysInv
<1>. HIDE DEF len
<1>7. ASSUME NEW g \in Groups PROVE f[g] \in NilKeysBefore(k)
  <2>1. f[g] \in NilKeys /\ f[g] \notin ToSet(ks) /\ f[g] \in Keys
    BY <1>6 DEF CameUponNil
  <2>2. PICK j \in 1 .. len : KeyOrder[j] = f[g]
    BY <1>1, <2>1
  <2>3. j < i
    BY <1>1, <1>2, <1>3, <2>1, <2>2
  <2>4. i \in 1 .. len
    BY <1>1, <1>2
  <2>. QED  BY <1>1, <1>4, <2>1, <2>2, <2>3, <2>4 DEF NilKeysBefore
<1>8. f \in Injection(Groups, NilKeysBefore(k))
  <2>1. f \in [Groups -> NilKeysBefore(k)]
    BY <1>7
  <2>2. \A g, h \in Groups : f[g] = f[h] => g = h
    BY <1>6 DEF CameUponNil
  <2>. QED  BY <2>1, <2>2 DEF Injection, IsInjective
<1>9. /\ IsFiniteSet(Groups)
      /\ Cardinality(Groups) <= Cardinality(NilKeysBefore(k))
  BY <1>8, FiniteKeys, FS_Injection
<1>. QED  BY <1>9, FiniteKeys, FS_CardinalityType

\* The interpreter returns: no group has a generator.
LEMMA EndStep ==
    ASSUME IndependentInv, End PROVE IndependentInv'
<1>1. /\ UNCHANGED <<ctx, size, keys, gens, flight, crashes, ran>> /\ call' = Idle
      /\ ended' = TRUE
      /\ \A g \in Groups : call.gens[g] = None
      /\ \A t \in ClientThreads : flight[t] = None
      /\ call # Idle
  BY DEF End, SomeGenerator, Considered
<1>2. PICK ks, gs : ks = keys /\ gs = gens
  OBVIOUS
<1>3. KeysInv(ks, gs)'
  BY <1>1, <1>2, SameKeys DEF IndependentInv
<1>4. KeysInv(keys, gens)'
  BY <1>1, <1>2, <1>3
<1>5. TypeOK' /\ CallInv'
  BY <1>1 DEF IndependentInv, TypeOK, CallInv
<1>6. FlightInv'
  BY <1>1 DEF IndependentInv, FlightInv
<1>7. KeysInv(call.keys, call.gens)
  BY <1>1 DEF IndependentInv, CallInv, Asking
<1>8. ASSUME NEW k \in Keys
      PROVE  RunWhole(k) \/ Cardinality(NilKeysBefore(k)) >= Cardinality(Groups)
  <2>1. CASE k \in ToSet(call.keys)
    BY <1>1, <1>7, <2>1, LeftBehind
  <2>2. CASE k \notin ToSet(call.keys)
    BY <1>1, <1>7, <2>2 DEF KeysInv
  <2>. QED  BY <2>1, <2>2
<1>9. EndInv'
  BY <1>1, <1>8 DEF EndInv, RunWhole
<1>10. NilKeysAreEmpty'
  BY <1>1 DEF IndependentInv, NilKeysAreEmpty
<1>. QED  BY <1>1, <1>4, <1>5, <1>6, <1>9, <1>10 DEF IndependentInv

LEMMA CompleteStep ==
    ASSUME IndependentInv, NEW thread \in ClientThreads, NEW crash \in BOOLEAN,
           Complete(thread, crash)
    PROVE  IndependentInv'
<1>. DEFINE op    == flight[thread]
            freed == FreeThread(ctx, 0, ProcessToThread(ctx, op.process))
            next  == IF crash THEN WithNextProcess(freed, thread) ELSE freed
<1>1. /\ call = Idle /\ ~ended /\ flight[thread] # None
      /\ crash => crashes < MaxCrashes
      /\ gens' = Update(gens, freed, op.process, op.key, "completed")
      /\ ctx' = next
      /\ flight' = [flight EXCEPT ![thread] = None]
      /\ crashes' = IF crash THEN crashes + 1 ELSE crashes
      /\ UNCHANGED <<size, keys, call, ended, ran>>
  BY DEF Complete
<1>2. TypeOK /\ FlightInv /\ Numbered(ctx) /\ IsContext(ctx) /\ KeysInv(keys, gens)
  BY DEF IndependentInv, TypeOK, FlightInv
<1>3. /\ op.process = ThreadToProcess(ctx, thread) /\ thread \in Threads
      /\ ProcessToThread(ctx, op.process) = thread
      /\ NameToIndex(thread) = thread
  <2>1. op.process = ThreadToProcess(ctx, thread)
    BY <1>1, <1>2 DEF FlightInv
  <2>2. thread \in Threads /\ NameToIndex(thread) = thread
    BY ClientIndices
  <2>. HIDE DEF op
  <2>. QED  BY <1>2, <2>1, <2>2, OwnerOf
<1>4. freed = FreeThread(ctx, 0, thread)
  BY <1>3
<1>. HIDE DEF freed, op
<1>5. /\ IsContext(freed) /\ freed.free = ctx.free \cup {thread}
      /\ freed.threadProcess = ctx.threadProcess
      /\ freed.processThread = ctx.processThread
  <2>1. freed.free = ctx.free \cup {NameToIndex(thread)}
    BY <1>2, <1>3, <1>4, FreeFields
  <2>2. /\ IsContext(freed) /\ freed.threadProcess = ctx.threadProcess
        /\ freed.processThread = ctx.processThread
    BY <1>2, <1>3, <1>4, FreeFields
  <2>. QED  BY <1>3, <2>1, <2>2
<1>6. /\ Numbered(freed)
      /\ \A t : ThreadToProcess(freed, t) = ThreadToProcess(ctx, t)
      /\ \A p : ProcessToThread(freed, p) = ProcessToThread(ctx, p)
  BY <1>2, <1>5, SameMapsAreNumbered
<1>7. /\ Numbered(next) /\ next.free = freed.free
      /\ \A t \in Threads \ {thread} : ThreadToProcess(next, t) = ThreadToProcess(ctx, t)
  <2>1. CASE crash
    <3>1. next = WithNextProcess(freed, thread)
      BY <2>1
    <3>. HIDE DEF next
    <3>. QED  BY <1>6, <3>1, NextProcessIsNumbered
  <2>2. CASE ~crash
    BY <1>6, <2>2
  <2>. QED  BY <2>1, <2>2
<1>. HIDE DEF next
<1>8. gens' \in Generators /\ KeysInv(keys, gens)'
  <2>1. PICK ks, gs, k, g, new : /\ ks = keys /\ gs = gens /\ k = op.key
                                /\ g = GroupOf(thread) /\ new = gens'
    OBVIOUS
  <2>2. gs \in Generators /\ KeysInv(ks, gs)
    BY <1>2, <2>1 DEF TypeOK, Generators
  <2>3. new = [gs EXCEPT ![g] = Heard(gs[g], k)]
    <3>1. ProcessToThread(freed, op.process) = thread
      BY <1>3, <1>6
    <3>2. Update(gs, freed, op.process, k, "completed") = [gs EXCEPT ![g] = Heard(gs[g], k)]
      BY <2>1, <2>2, <3>1, CompletedEffect
    <3>. QED  BY <1>1, <2>1, <3>2
  <2>4. k = flight[thread].key
    BY <2>1 DEF op
  <2>5. new \in Generators /\ KeysInv(ks, new)'
    <3>1. flight[thread] # None /\ flight' = [flight EXCEPT ![thread] = None]
          /\ ran' = ran /\ size' = size /\ g = GroupOf(thread)
      BY <1>1, <2>1
    <3>. QED  BY <1>2, <2>2, <2>3, <2>4, <3>1, CompleteKeys
  <2>6. ks = keys' /\ new = gens'
    BY <1>1, <2>1
  <2>. QED  BY <2>5, <2>6
<1>9. TypeOK'
  <2>1. flight' \in [ClientThreads -> Operations \cup {None}]
    BY <1>1, <1>2 DEF TypeOK
  <2>2. crashes' \in 0 .. MaxCrashes
    BY <1>1, <1>2, IndependentAssumption DEF TypeOK
  <2>3. IsContext(next)
    BY <1>7 DEF Numbered
  <2>. QED  BY <1>1, <1>2, <1>8, <2>1, <2>2, <2>3 DEF TypeOK, Generators
<1>10. FlightInv'
  <2>1. ASSUME NEW t \in ClientThreads
        PROVE  IF flight'[t] = None THEN ThreadFree(next, t)
               ELSE /\ ~ThreadFree(next, t)
                    /\ flight'[t].process = ThreadToProcess(next, t)
                    /\ ran[flight'[t].key][GroupOf(t)] > 0
    <3>0. NameToIndex(t) = t /\ t \in Threads
      BY ClientIndices
    <3>1. CASE t = thread
      <4>1. flight'[t] = None
        BY <1>1, <1>2, <3>1 DEF TypeOK
      <4>2. ThreadFree(next, t)
        BY <1>5, <1>7, <3>0, <3>1 DEF ThreadFree
      <4>. QED  BY <4>1, <4>2
    <3>2. CASE t # thread
      <4>1. flight'[t] = flight[t]
        BY <1>1, <1>2, <3>2 DEF TypeOK
      <4>2. ThreadFree(next, t) <=> ThreadFree(ctx, t)
        BY <1>5, <1>7, <3>0, <3>2 DEF ThreadFree
      <4>3. ThreadToProcess(next, t) = ThreadToProcess(ctx, t)
        BY <1>7, <3>0, <3>2
      <4>. QED  BY <1>2, <4>1, <4>2, <4>3 DEF FlightInv
    <3>. QED  BY <3>1, <3>2
  <2>. QED  BY <1>1, <1>7, <2>1 DEF FlightInv
<1>11. CallInv' /\ EndInv'
  BY <1>1 DEF CallInv, EndInv
<1>12. NilKeysAreEmpty'
  BY <1>1 DEF IndependentInv, NilKeysAreEmpty
<1>. QED  BY <1>8, <1>9, <1>10, <1>11, <1>12 DEF IndependentInv

-----------------------------------------------------------------------------
(* The theorems. *)

\* Every call of op, and every step of the interpreter, keeps the invariant:
\* the generators account for everything that was run of their keys.
THEOREM KeysAreAccountedFor == Spec => []IndependentInv
<1>1. IndependentInv /\ [Next]_vars => IndependentInv'
  <2>. SUFFICES ASSUME IndependentInv, [Next]_vars PROVE IndependentInv'
    OBVIOUS
  <2>1. CASE Call
    BY <2>1, AskStep, OfferStep, OfferPendingStep, ReplaceStep, RunDryStep, YieldStep,
       AskAgainStep, EndStep DEF Call
  <2>2. CASE \E t \in ClientThreads, crash \in BOOLEAN : Complete(t, crash)
    BY <2>2, CompleteStep
  <2>3. CASE UNCHANGED vars
    <3>1. PICK ks, gs : ks = keys /\ gs = gens
      OBVIOUS
    <3>2. KeysInv(ks, gs)'
      BY <2>3, <3>1, SameKeys DEF IndependentInv, vars
    <3>3. KeysInv(keys, gens)'
      BY <2>3, <3>1, <3>2 DEF vars
    <3>4. PICK c : c = call
      OBVIOUS
    <3>5. call # Idle => KeysInv(c.keys, c.gens)'
      <4>1. PICK js, hs : js = c.keys /\ hs = c.gens
        OBVIOUS
      <4>2. call # Idle => KeysInv(js, hs)
        BY <3>4, <4>1 DEF IndependentInv, CallInv, Asking
      <4>3. call # Idle => KeysInv(js, hs)'
        BY <2>3, <4>2, SameKeys DEF vars
      <4>. QED  BY <4>1, <4>3
    <3>6. FreeGroups' = FreeGroups /\ call' = c
      BY <2>3, <3>4 DEF FreeGroups, vars
    <3>7. call # Idle => ~ended' /\ Asking(c)'
      BY <2>3, <3>4, <3>5, <3>6 DEF IndependentInv, CallInv, Asking, vars
    <3>8. CallInv'
      BY <2>3, <3>6, <3>7 DEF CallInv, vars
    <3>9. TypeOK'
      BY <2>3 DEF IndependentInv, TypeOK, vars
    <3>10. FlightInv' /\ EndInv'
      BY <2>3 DEF IndependentInv, FlightInv, EndInv, RunWhole, vars
    <3>11. NilKeysAreEmpty'
      BY <2>3 DEF IndependentInv, NilKeysAreEmpty, vars
    <3>. QED  BY <3>3, <3>8, <3>9, <3>10, <3>11 DEF IndependentInv
  <2>. QED  BY <2>1, <2>2, <2>3 DEF Next
<1>. QED  BY InitialInv, <1>1, PTL DEF Spec

THEOREM TypeCorrectness == Spec => []TypeOK
<1>1. IndependentInv => TypeOK
  BY DEF IndependentInv
<1>. QED  BY <1>1, KeysAreAccountedFor, PTL

\* A key's operations are given to one group, however often groups are busy, and
\* however many processes crash.
THEOREM EveryKeyHasOneGroup == Spec => []OneGroupPerKey
<1>1. ASSUME IndependentInv PROVE OneGroupPerKey
  <2>1. TypeOK /\ KeysInv(keys, gens) /\ gens \in Generators
    BY <1>1 DEF IndependentInv, TypeOK, Generators
  <2>2. \A g \in Groups : Working(g) => GeneratorInv(keys, gens, g) /\ gens[g].key \in Keys
    BY <2>1, NilFacts DEF KeysInv, Working, KeyGens
  <2>3. \A g \in Groups : Working(g) =>
           /\ Given(gens[g].key)
           /\ \A h \in Groups \ {g} : ran[gens[g].key][h] = 0
    BY <2>2 DEF GeneratorInv, Given
  <2>4. \A g, h \in Groups : Working(g) /\ Working(h) /\ gens[g].key = gens[h].key => g = h
    BY <2>2 DEF GeneratorInv, Working
  <2>5. ASSUME NEW k \in Keys, NEW g \in Groups, NEW h \in Groups,
               ran[k][g] > 0, ran[k][h] > 0
        PROVE  g = h
    <3>1. CASE k \in ToSet(keys)
      BY <2>1, <2>5, <3>1 DEF KeysInv
    <3>2. CASE \E f \in Groups : Working(f) /\ gens[f].key = k
      BY <2>3, <2>5, <3>2
    <3>3. CASE k \notin ToSet(keys) /\ ~\E f \in Groups : Working(f) /\ gens[f].key = k
      <4>1. RunWhole(k)
        BY <2>1, <3>3 DEF KeysInv, Working
      <4>. QED  BY <2>5, <4>1 DEF RunWhole
    <3>. QED  BY <3>1, <3>2, <3>3
  <2>. QED  BY <2>3, <2>4, <2>5 DEF OneGroupPerKey
<1>. QED  BY <1>1, KeysAreAccountedFor, PTL

\* No operation of a key is lost or issued twice, whatever op's loop throws away,
\* and a key is left out only behind a key without a generator for every group.
THEOREM OperationsAreRunOnce == Spec => []EveryOperationOnce
<1>1. ASSUME IndependentInv PROVE EveryOperationOnce
  <2>1. KeysInv(keys, gens) /\ EndInv
    BY <1>1 DEF IndependentInv
  <2>2. ASSUME NEW k \in Keys, ~Given(k) PROVE \A g \in Groups : ran[k][g] = 0
    BY <2>1, <2>2 DEF KeysInv, Given
  <2>3. ASSUME NEW k \in Keys, NEW g \in Groups, Working(g), gens[g].key = k
        PROVE  gens[g].left + ran[k][g] = size[k] /\ Given(k)
    <3>1. GeneratorInv(keys, gens, g)
      BY <2>1, <2>3 DEF KeysInv, Working
    <3>. QED  BY <2>3, <3>1 DEF GeneratorInv, Given
  <2>4. ASSUME NEW k \in Keys, Given(k),
               {g \in Groups : Working(g) /\ gens[g].key = k} = {}
        PROVE  RunWhole(k)
    <3>1. \A g \in Groups : gens[g] # None => gens[g].key # k
      BY <2>4 DEF Working
    <3>. QED  BY <2>1, <2>4, <3>1 DEF KeysInv, Given
  <2>5. ASSUME NEW k \in Keys
        PROVE  LET holders == {g \in Groups : Working(g) /\ gens[g].key = k}
               IN CASE ~Given(k)     -> \A g \in Groups : ran[k][g] = 0
                    [] holders # {}  -> \A g \in holders : gens[g].left + ran[k][g] = size[k]
                    [] OTHER         -> RunWhole(k)
    BY <2>2, <2>3, <2>4
  <2>. QED  BY <2>1, <2>5 DEF EveryOperationOnce, EndInv
<1>. QED  BY <1>1, KeysAreAccountedFor, PTL

\* Every key is run whole when fewer keys than there are groups have no
\* generator: in particular when fgen never returns nil.
THEOREM EveryKeyIsRunWhole ==
    ASSUME Cardinality(NilKeys) < Cardinality(Groups)
    PROVE  Spec => []EveryKeyIsRun
<1>1. ASSUME EveryOperationOnce PROVE EveryKeyIsRun
  <2>. SUFFICES ASSUME ended, NEW k \in Keys PROVE RunWhole(k)
    BY DEF EveryKeyIsRun
  <2>1. RunWhole(k) \/ Cardinality(NilKeysBefore(k)) >= Cardinality(Groups)
    BY <1>1 DEF EveryOperationOnce
  <2>2. /\ Cardinality(NilKeysBefore(k)) <= Cardinality(NilKeys)
        /\ Cardinality(NilKeysBefore(k)) \in Nat /\ Cardinality(NilKeys) \in Nat
    BY FiniteKeys, FS_Subset, FS_CardinalityType
  <2>3. Cardinality(Groups) \in Nat
    BY FS_Interval, FS_CardinalityType, ContextAssumption, IndependentAssumption
       DEF Groups
  <2>. QED  BY <2>1, <2>2, <2>3
<1>. QED  BY <1>1, OperationsAreRunOnce, PTL

\* A generator hears of every invocation and completion of its key, and of no
\* key that its group was not given.
THEOREM NoEventIsMissed == Spec => []EventsReachTheirGenerator
<1>1. ASSUME IndependentInv PROVE EventsReachTheirGenerator
  <2>1. \A g \in Groups : Working(g) => GeneratorInv(keys, gens, g)
    BY <1>1 DEF IndependentInv, KeysInv, Working
  <2>. QED  BY <2>1 DEF EventsReachTheirGenerator, GeneratorInv
<1>. QED  BY <1>1, KeysAreAccountedFor, PTL
============================================================================
