--------------------------- MODULE ContextProofs ---------------------------
(***************************************************************************)
(* What the operations of jepsen.generator.context change and keep, for    *)
(* every number of client threads.                                         *)
(***************************************************************************)
EXTENDS Context, WellFoundedInduction, TLAPS

\* Thread names and thread indices correspond one to one.
LEMMA ThreadIndices ==
    /\ \A t \in Threads : NameToIndex(t) \in Indices
                          /\ IndexToName(NameToIndex(t)) = t
    /\ \A i \in Indices : IndexToName(i) \in Threads
                          /\ NameToIndex(IndexToName(i)) = i
  BY ContextAssumption
     DEF Threads, ClientThreads, Indices, NameToIndex, IndexToName

\* Numbers t + k * Concurrency determine t.
LEMMA Congruence ==
    ASSUME NEW t \in ClientThreads, NEW u \in ClientThreads,
           NEW k \in Nat, NEW j \in Nat,
           t + k * Concurrency = u + j * Concurrency
    PROVE  t = u
<1>. DEFINE C == Concurrency
<1>0. C \in Nat \ {0} /\ t \in 0 .. C - 1 /\ u \in 0 .. C - 1
  BY ContextAssumption DEF ClientThreads
<1>h. t + k * C = u + j * C
  OBVIOUS
<1>. HIDE DEF C
<1>1. CASE k = j
  BY <1>0, <1>1, <1>h
<1>2. CASE k > j
  <2>1. (k - j) * C >= C
    BY <1>0, <1>2
  <2>2. k * C = (k - j) * C + j * C
    BY <1>0
  <2>. QED  BY <1>0, <1>h, <2>1, <2>2
<1>3. CASE k < j
  <2>1. (j - k) * C >= C
    BY <1>0, <1>3
  <2>2. j * C = (j - k) * C + k * C
    BY <1>0
  <2>. QED  BY <1>0, <1>h, <2>1, <2>2
<1>. QED  BY <1>1, <1>2, <1>3

\* The fresh context is a context in which every thread is free.
LEMMA InitialContextFields ==
    /\ IsContext(InitialContext)
    /\ InitialContext.free = Indices
    /\ InitialContext.processThread = [p \in Threads |-> p]
    /\ \A t \in Threads : ThreadToProcess(InitialContext, t) = t
<1>1. Threads \subseteq Processes
  BY DEF Threads, ClientThreads, Processes
<1>. QED
  BY <1>1, ThreadIndices, ContextAssumption
     DEF IsContext, InitialContext, ThreadToProcess, Indices

\* What assoc :time, busy-thread and free-thread change.
LEMMA TimeFields ==
    ASSUME NEW c, IsContext(c), NEW time \in Nat
    PROVE  /\ IsContext(WithTime(c, time))
           /\ WithTime(c, time).free = c.free
           /\ WithTime(c, time).threadProcess = c.threadProcess
           /\ WithTime(c, time).processThread = c.processThread
  BY DEF IsContext, WithTime

LEMMA BusyFields ==
    ASSUME NEW c, IsContext(c), NEW time \in Nat, NEW t \in Threads
    PROVE  /\ IsContext(BusyThread(c, time, t))
           /\ BusyThread(c, time, t).free = c.free \ {NameToIndex(t)}
           /\ BusyThread(c, time, t).threadProcess = c.threadProcess
           /\ BusyThread(c, time, t).processThread = c.processThread
<1>1. (c.nextThread + 1) % ThreadCount \in Indices
  BY ContextAssumption DEF IsContext, ThreadCount, Indices
<1>. QED
  BY <1>1 DEF IsContext, BusyThread

LEMMA FreeFields ==
    ASSUME NEW c, IsContext(c), NEW time \in Nat, NEW t \in Threads
    PROVE  /\ IsContext(FreeThread(c, time, t))
           /\ FreeThread(c, time, t).free = c.free \cup {NameToIndex(t)}
           /\ FreeThread(c, time, t).threadProcess = c.threadProcess
           /\ FreeThread(c, time, t).processThread = c.processThread
  BY ThreadIndices DEF IsContext, FreeThread

\* What with-next-process changes: the process of one thread.
LEMMA NextProcessFields ==
    ASSUME NEW c, IsContext(c), NEW t \in Threads
    PROVE  LET d   == WithNextProcess(c, t)
               old == ThreadToProcess(c, t)
               new == NextProcess(old)
           IN /\ IsContext(d)
              /\ d.free = c.free
              /\ d.threadProcess =
                   [c.threadProcess EXCEPT ![NameToIndex(t)] = new]
              /\ DOMAIN d.processThread =
                   (DOMAIN c.processThread \ {old}) \cup {new}
              /\ d.processThread[new] = t
              /\ \A p \in DOMAIN c.processThread \ {old, new} :
                   d.processThread[p] = c.processThread[p]
<1>. DEFINE old == ThreadToProcess(c, t)
            new == NextProcess(old)
            D   == (DOMAIN c.processThread \ {old}) \cup {new}
            pt  == [p \in D |-> IF p = new THEN t ELSE c.processThread[p]]
<1>1. old \in Processes
  BY ThreadIndices DEF IsContext, ThreadToProcess
<1>2. new \in Processes
  BY <1>1, ContextAssumption DEF NextProcess, Processes
<1>3. pt \in [D -> Threads]
  BY DEF IsContext
<1>4. WithNextProcess(c, t) =
        [c EXCEPT !.threadProcess[NameToIndex(t)] = new, !.processThread = pt]
  BY DEF WithNextProcess
<1>5. [c.threadProcess EXCEPT ![NameToIndex(t)] = new] \in [Indices -> Processes]
  BY <1>2 DEF IsContext
<1>. HIDE DEF pt, D, new, old
<1>6. /\ WithNextProcess(c, t).free = c.free
      /\ WithNextProcess(c, t).threadProcess =
           [c.threadProcess EXCEPT ![NameToIndex(t)] = new]
      /\ WithNextProcess(c, t).processThread = pt
      /\ WithNextProcess(c, t) \in
           [time : Nat, nextThread : Indices, free : SUBSET Indices,
            threadProcess : [Indices -> Processes], processThread : {pt}]
  BY <1>4, <1>5 DEF IsContext
<1>7. DOMAIN pt = D /\ pt \in [DOMAIN pt -> Threads]
  BY <1>3
<1>8. IsContext(WithNextProcess(c, t))
  BY <1>6, <1>7 DEF IsContext
<1>. QED
  BY <1>6, <1>7, <1>8 DEF pt, D, new, old

-----------------------------------------------------------------------------
(* The maps of a context. *)

\* Processes and threads are in one-to-one correspondence.
LEMMA OwnerOf ==
    ASSUME NEW c, Numbered(c), NEW t \in Threads
    PROVE  /\ ThreadToProcess(c, t) \in DOMAIN c.processThread
           /\ ProcessToThread(c, ThreadToProcess(c, t)) = t
<1>1. NameToIndex(t) \in Indices
  BY ThreadIndices
<1>2. ThreadToProcess(c, t) \in DOMAIN c.processThread
  BY <1>1 DEF Numbered, ThreadToProcess
<1>. QED  BY <1>2 DEF Numbered, ProcessToThread

\* A fresh context is numbered, and one whose maps are the same stays so.
LEMMA InitialIsNumbered == Numbered(InitialContext)
<1>. DEFINE c == InitialContext
<1>1. /\ IsContext(c) /\ c.processThread = [p \in Threads |-> p]
      /\ \A t \in Threads : ThreadToProcess(c, t) = t
  BY InitialContextFields
<1>2. \A t \in ClientThreads : t \in Nat /\ 0 \in 0 .. t /\ t = t + 0 * Concurrency
  BY ContextAssumption DEF ClientThreads
<1>3. {c.threadProcess[i] : i \in Indices} = Threads
  BY <1>1, ThreadIndices DEF ThreadToProcess
<1>4. Nemesis \in Threads /\ ClientThreads \subseteq Threads
  BY DEF Threads
<1>. HIDE DEF c
<1>5. DOMAIN c.processThread = Threads /\ \A t \in Threads : c.processThread[t] = t
  BY <1>1
<1>6. \A t \in ClientThreads : \E k \in 0 .. t : t = t + k * Concurrency
  BY <1>2
<1>7. \A t \in Threads : c.processThread[ThreadToProcess(c, t)] = t
  BY <1>1, <1>5
<1>8. /\ ThreadToProcess(c, Nemesis) = Nemesis
      /\ \A t \in ClientThreads : ThreadToProcess(c, t) = t
  BY <1>1, <1>4
<1>9. \A t \in ClientThreads :
         /\ ThreadToProcess(c, t) \in Nat
         /\ \E k \in 0 .. ThreadToProcess(c, t) :
               ThreadToProcess(c, t) = t + k * Concurrency
  BY <1>2, <1>6, <1>8
<1>10. DOMAIN c.processThread = {c.threadProcess[i] : i \in Indices}
  BY <1>3, <1>5
<1>. QED  BY <1>1, <1>7, <1>8, <1>9, <1>10 DEF Numbered, c

LEMMA SameMapsAreNumbered ==
    ASSUME NEW c, NEW d, Numbered(c), IsContext(d),
           d.threadProcess = c.threadProcess, d.processThread = c.processThread
    PROVE  /\ Numbered(d)
           /\ \A t : ThreadToProcess(d, t) = ThreadToProcess(c, t)
           /\ \A p : ProcessToThread(d, p) = ProcessToThread(c, p)
<1>1. /\ \A t : ThreadToProcess(d, t) = ThreadToProcess(c, t)
      /\ \A p : ProcessToThread(d, p) = ProcessToThread(c, p)
  BY DEF ThreadToProcess, ProcessToThread
<1>. QED  BY <1>1 DEF Numbered

\* The process that follows that of a thread belongs to no thread.
LEMMA NextIsFresh ==
    ASSUME NEW c, Numbered(c), NEW t \in ClientThreads,
           NEW new, new = NextProcess(ThreadToProcess(c, t))
    PROVE  /\ new \in Nat
           /\ \A u \in Threads : new # ThreadToProcess(c, u)
           /\ \E k \in 0 .. new : new = t + k * Concurrency
<1>. DEFINE p == ThreadToProcess(c, t)
            C == Concurrency
<1>0. C \in Nat \ {0} /\ t \in Nat /\ p \in Nat
  BY ContextAssumption DEF ClientThreads, Numbered
<1>1. new = p + C
  BY <1>0 DEF NextProcess
<1>2. PICK k \in 0 .. p : p = t + k * C
  BY DEF Numbered
<1>3. k + 1 \in Nat /\ (k + 1) * C = k * C + C
  BY <1>0, <1>2
<1>4. p + C = t + (k + 1) * C
  <2>1. k * C \in Nat
    BY <1>0, <1>2
  <2>. QED  BY <1>0, <1>2, <1>3, <2>1
<1>5. k + 1 \in 0 .. p + C
  BY <1>0, <1>2
<1>6. ASSUME NEW u \in Threads, p + C = ThreadToProcess(c, u) PROVE FALSE
  <2>. DEFINE q == ThreadToProcess(c, u)
  <2>1. u \in ClientThreads
    BY <1>0, <1>6, ContextAssumption DEF Threads, Numbered
  <2>2. PICK j \in 0 .. q : q = u + j * C
    BY <2>1 DEF Numbered
  <2>3. j \in Nat
    BY <1>0, <1>6, <2>2
  <2>4. u = t
    BY <1>3, <1>4, <1>6, <2>1, <2>2, <2>3, Congruence
  <2>. QED  BY <1>0, <1>6, <2>4
<1>. QED  BY <1>0, <1>1, <1>4, <1>5, <1>6

\* with-next-process keeps the maps inverse to each other.
LEMMA NextProcessIsNumbered ==
    ASSUME NEW c, Numbered(c), NEW t \in ClientThreads,
           NEW d, d = WithNextProcess(c, t)
    PROVE  /\ Numbered(d)
           /\ d.free = c.free
           /\ \A u \in Threads \ {t} : ThreadToProcess(d, u) = ThreadToProcess(c, u)
<1>. DEFINE old == ThreadToProcess(c, t)
            new == NextProcess(old)
            P(u) == ThreadToProcess(c, u)
<1>0. t \in Threads /\ IsContext(c)
  BY DEF Threads, Numbered
<1>1. /\ IsContext(d)
      /\ d.free = c.free
      /\ d.threadProcess = [c.threadProcess EXCEPT ![NameToIndex(t)] = new]
      /\ DOMAIN d.processThread = (DOMAIN c.processThread \ {old}) \cup {new}
      /\ d.processThread[new] = t
      /\ \A p \in DOMAIN c.processThread \ {old, new} :
            d.processThread[p] = c.processThread[p]
  BY <1>0, NextProcessFields
<1>2. /\ new \in Nat
      /\ \A u \in Threads : new # P(u)
      /\ \E k \in 0 .. new : new = t + k * Concurrency
  BY NextIsFresh
<1>3. \A u \in Threads \ {t} : P(u) # old
  <2>. SUFFICES ASSUME NEW u \in Threads \ {t}, P(u) = old PROVE FALSE
    OBVIOUS
  <2>1. c.processThread[P(u)] = u /\ c.processThread[old] = t
    BY <1>0 DEF Numbered
  <2>. QED  BY <2>1
<1>4. \A u \in Threads : P(u) \in DOMAIN c.processThread
  BY OwnerOf
<1>5. /\ ThreadToProcess(d, t) = new
      /\ \A u \in Threads \ {t} : ThreadToProcess(d, u) = P(u)
  <2>1. \A u \in Threads : NameToIndex(u) \in Indices /\ IndexToName(NameToIndex(u)) = u
    BY ThreadIndices
  <2>2. DOMAIN c.threadProcess = Indices
    BY <1>0 DEF IsContext
  <2>3. \A u \in Threads \ {t} : NameToIndex(u) # NameToIndex(t)
    BY <1>0, <2>1
  <2>. HIDE DEF new
  <2>. QED  BY <1>0, <1>1, <2>1, <2>2, <2>3 DEF ThreadToProcess
<1>. HIDE DEF old, new
<1>6. \A u \in Threads : d.processThread[ThreadToProcess(d, u)] = u
  <2>1. \A u \in Threads : c.processThread[P(u)] = u
    BY DEF Numbered
  <2>. QED  BY <1>1, <1>2, <1>3, <1>4, <1>5, <2>1
<1>7. DOMAIN d.processThread = {d.threadProcess[i] : i \in Indices}
  <2>1. {c.threadProcess[i] : i \in Indices} = {P(u) : u \in Threads}
    BY ThreadIndices DEF ThreadToProcess
  <2>2. DOMAIN c.processThread = {P(u) : u \in Threads}
    <3>1. DOMAIN c.processThread = {c.threadProcess[i] : i \in Indices}
      BY DEF Numbered
    <3>. QED  BY <2>1, <3>1
  <2>3. (DOMAIN c.processThread \ {old}) \cup {new} = {ThreadToProcess(d, u) : u \in Threads}
    <3>1. old = P(t)
      BY DEF old
    <3>. QED  BY <1>0, <1>3, <1>5, <2>2, <3>1
  <2>4. {d.threadProcess[i] : i \in Indices} = {ThreadToProcess(d, u) : u \in Threads}
    BY ThreadIndices DEF ThreadToProcess
  <2>. QED  BY <1>1, <2>3, <2>4
<1>8. ThreadToProcess(d, Nemesis) = Nemesis
  <2>1. Nemesis \in Threads \ {t}
    BY ContextAssumption DEF Threads, ClientThreads
  <2>. QED  BY <1>5, <2>1 DEF Numbered
<1>9. ASSUME NEW u \in ClientThreads
      PROVE  /\ ThreadToProcess(d, u) \in Nat
             /\ \E k \in 0 .. ThreadToProcess(d, u) :
                   ThreadToProcess(d, u) = u + k * Concurrency
  <2>1. CASE u = t
    BY <1>2, <1>5, <2>1
  <2>2. CASE u # t
    <3>1. ThreadToProcess(d, u) = P(u)
      BY <1>5, <2>2 DEF Threads
    <3>. QED  BY <3>1 DEF Numbered
  <2>. QED  BY <2>1, <2>2
<1>. QED  BY <1>1, <1>5, <1>6, <1>7, <1>8, <1>9 DEF Numbered

-----------------------------------------------------------------------------
(* Choosing a free thread. *)

LEMMA NaturalsHaveLeast ==
    ASSUME NEW S \in SUBSET Nat, S # {}
    PROVE  \E m \in S : \A i \in S : m <= i
<1>1. PICK m \in S : \A i \in S : ~(<<i, m>> \in OpToRel(<, Nat))
  BY NatLessThanWellFounded, WFMin, Zenon
<1>2. \A i \in S : ~(i < m)
  <2>. SUFFICES ASSUME NEW i \in S, i < m PROVE <<i, m>> \in OpToRel(<, Nat)
    BY <1>1
  <2>. QED  BY DEF OpToRel
<1>3. \A i \in S : m <= i
  BY <1>2
<1>. QED  BY <1>3

\* The process that is chosen is that of a free thread, as long as there is one.
LEMMA SomeFreeProcessIsFree ==
    ASSUME NEW c, NEW free \in SUBSET Nat, free # {}, c.free = free
    PROVE  \E i \in free : SomeFreeProcess(c) = c.threadProcess[i]
<1>. DEFINE first(S) == CHOOSE i \in S : \A j \in S : i <= j
            after    == {i \in free : i >= c.nextThread}
<1>1. first(free) \in free
  BY NaturalsHaveLeast
<1>2. after # {} => first(after) \in after
  <2>. SUFFICES ASSUME after # {} PROVE first(after) \in after
    OBVIOUS
  <2>1. \E m \in after : \A i \in after : m <= i
    <3>1. after \in SUBSET Nat
      OBVIOUS
    <3>. HIDE DEF after
    <3>. QED  BY <3>1, NaturalsHaveLeast
  <2>. HIDE DEF after
  <2>. QED  BY <2>1
<1>. QED  BY <1>1, <1>2 DEF SomeFreeProcess
=============================================================================
