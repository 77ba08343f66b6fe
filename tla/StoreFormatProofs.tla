------------------------- MODULE StoreFormatProofs -------------------------
(***************************************************************************)
(* Proofs, for every size of a chunk, every number of operations and of    *)
(* analyses, with failed writes and with gc!: whenever the process dies,   *)
(* what the test file names is there; what is lost of the history is       *)
(* bounded; a run reads back all that it wrote; and the file implements    *)
(* SavedTest.                                                              *)
(***************************************************************************)
EXTENDS StoreFormatProperties, FiniteSetTheorems, WellFoundedInduction, TLAPS

-----------------------------------------------------------------------------
(* The greatest element of a set of numbers. *)

LEMMA MaxIs ==
    ASSUME NEW S \in SUBSET Int, NEW m \in S, \A y \in S : y <= m
    PROVE  Max(S) = m
<1>1. m \in S /\ \A y \in S : m >= y
  OBVIOUS
<1>2. Max(S) \in S /\ \A y \in S : Max(S) >= y
  BY <1>1, Zenon DEF Max
<1>3. Max(S) \in Int /\ m \in Int /\ Max(S) >= m /\ m >= Max(S)
  BY <1>1, <1>2
<1> QED  BY <1>3

(* A set of numbers that is bounded has a greatest element: the one at the    *)
(* least distance from the bound.                                             *)
LEMMA BoundedHasGreatest ==
    ASSUME NEW S \in SUBSET Nat, S # {}, NEW n \in Nat, \A x \in S : x <= n
    PROVE  HasGreatest(S)
<1> DEFINE T == {n - x : x \in S}
<1>1. T \subseteq Nat
  OBVIOUS
<1>2. T # {}
  <2>1. PICK x \in S : TRUE
    OBVIOUS
  <2>2. n - x \in T
    OBVIOUS
  <2> QED  BY <2>2
<1>3. PICK z \in T : \A y \in T : ~(<<y, z>> \in OpToRel(<, Nat))
  BY <1>1, <1>2, NatLessThanWellFounded, WFMin, Zenon
<1>4. \A y \in T : ~(y < z)
  <2> SUFFICES ASSUME NEW y \in T, y < z PROVE <<y, z>> \in OpToRel(<, Nat)
    BY <1>3
  <2>1. y \in Nat /\ z \in Nat
    BY <1>1
  <2> QED  BY <2>1 DEF OpToRel
<1>5. PICK m \in S : z = n - m
  OBVIOUS
<1>6. \A y \in S : y <= m
  <2> SUFFICES ASSUME NEW y \in S PROVE y <= m
    OBVIOUS
  <2>1. n - y \in T
    OBVIOUS
  <2>2. ~(n - y < n - m)
    BY <1>4, <1>5, <2>1
  <2>3. y \in Nat /\ m \in Nat
    OBVIOUS
  <2> QED  BY <2>2, <2>3
<1> QED  BY <1>6 DEF HasGreatest

-----------------------------------------------------------------------------
(* The file. *)

(* A file, as TypeOK has it. *)
IsDisk(d) ==
    /\ d \in [header : BOOLEAN, pointer : Nat, file : {d.file}]
    /\ d.file \in Seq(Entries(d.file))

Entry(data, sealed) == [data |-> data, sealed |-> sealed]

(* What is complete in d is in e, and is the same. *)
Extends(d, e) ==
    \A i \in DOMAIN d.file : d.file[i].sealed =>
       i \in DOMAIN e.file /\ e.file[i] = d.file[i]

LEMMA DiskType == ASSUME TypeOK PROVE IsDisk(disk)
  BY DEF TypeOK, IsDisk

LEMMA FileFacts ==
    ASSUME NEW d, IsDisk(d)
    PROVE  /\ Len(d.file) \in Nat
           /\ DOMAIN d.file = 1 .. Len(d.file)
           /\ \A i \in DOMAIN d.file : /\ d.file[i].sealed \in BOOLEAN
                                       /\ d.file[i] = Entry(d.file[i].data, d.file[i].sealed)
<1>1. Len(d.file) \in Nat /\ DOMAIN d.file = 1 .. Len(d.file)
  BY DEF IsDisk
<1>2. ASSUME NEW i \in DOMAIN d.file PROVE d.file[i] \in Entries(d.file)
  BY <1>1 DEF IsDisk
<1>3. ASSUME NEW i \in DOMAIN d.file
      PROVE  /\ d.file[i].sealed \in BOOLEAN
             /\ d.file[i] = Entry(d.file[i].data, d.file[i].sealed)
  BY <1>2 DEF Entries, Entry
<1> QED  BY <1>1, <1>3

LEMMA FileType ==
    ASSUME NEW n \in Nat, NEW f, f = [i \in 1 .. n |-> f[i]],
           \A i \in 1 .. n : \E data, sealed : sealed \in BOOLEAN /\ f[i] = Entry(data, sealed)
    PROVE  f \in Seq(Entries(f)) /\ Len(f) = n /\ DOMAIN f = 1 .. n
<1>1. DOMAIN f = 1 .. n
  OBVIOUS
<1>2. ASSUME NEW i \in 1 .. n PROVE f[i] \in Entries(f)
  <2>1. PICK data, sealed : sealed \in BOOLEAN /\ f[i] = Entry(data, sealed)
    OBVIOUS
  <2>2. data \in {f[j].data : j \in DOMAIN f}
    <3>1. f[i].data = data
      BY <2>1 DEF Entry
    <3> QED  BY <1>1, <3>1
  <2> QED  BY <2>1, <2>2 DEF Entry, Entries
<1> HIDE DEF Entries
<1>3. [i \in 1 .. n |-> f[i]] \in Seq(Entries(f))
  BY <1>2
<1>4. f \in Seq(Entries(f))
  BY <1>3
<1>5. Len(f) = n
  BY <1>1, <1>4
<1> QED  BY <1>1, <1>4, <1>5

(* e is d after a write. *)
IsWrite(d, e, at, data, sealed) ==
    /\ IsDisk(e)
    /\ e.header = d.header /\ e.pointer = d.pointer
    /\ DOMAIN e.file = DOMAIN d.file \cup {at}
    /\ e.file[at] = Entry(data, sealed)
    /\ \A i \in DOMAIN d.file \ {at} : e.file[i] = d.file[i]

(* A write inside the file, or at its end. *)
LEMMA WriteEffect ==
    ASSUME TypeOK, NEW at, at \in DOMAIN disk.file \/ at = NextBlockOffset,
           NEW data, NEW sealed \in BOOLEAN
    PROVE  IsWrite(disk, WriteAt(at, data, sealed), at, data, sealed)
<1> DEFINE n == Len(disk.file)
           m == IF at = n + 1 THEN n + 1 ELSE n
           d == WriteAt(at, data, sealed)
           f == [i \in 1 .. m |-> IF i = at THEN Entry(data, sealed) ELSE disk.file[i]]
<1>1. n \in Nat /\ DOMAIN disk.file = 1 .. n
  BY DiskType, FileFacts
<1>2. at \in Nat /\ at \in 1 .. n + 1 /\ m \in Nat
  BY <1>1 DEF NextBlockOffset
<1>3. Max({n, at}) = m
  <2>1. {n, at} \in SUBSET Int /\ m \in {n, at} /\ \A y \in {n, at} : y <= m
    BY <1>1, <1>2
  <2> HIDE DEF m, n
  <2> QED  BY <2>1, MaxIs
<1>4. d = [disk EXCEPT !.file = f]
  BY <1>3 DEF WriteAt, Entry
<1>5. d.file = f /\ d.header = disk.header /\ d.pointer = disk.pointer
      /\ d \in [header : BOOLEAN, pointer : Nat, file : {d.file}]
  <2> HIDE DEF d, f
  <2> QED  BY <1>4 DEF TypeOK
<1>6. ASSUME NEW i \in 1 .. m
      PROVE  \E x, s : s \in BOOLEAN /\ f[i] = Entry(x, s)
  <2>1. CASE i = at
    BY <2>1
  <2>2. CASE i # at
    <3>1. i \in DOMAIN disk.file /\ f[i] = disk.file[i]
      BY <1>1, <1>2, <2>2
    <3> QED  BY <3>1, DiskType, FileFacts
  <2> QED  BY <2>1, <2>2
<1>7. f \in Seq(Entries(f)) /\ DOMAIN f = 1 .. m
  <2>1. f = [i \in 1 .. m |-> f[i]]
    OBVIOUS
  <2> HIDE DEF f, m
  <2> QED  BY <1>2, <1>6, <2>1, FileType
<1>8. 1 .. m = (1 .. n) \cup {at}
  BY <1>1, <1>2
<1>9. f[at] = Entry(data, sealed) /\ \A i \in (1 .. n) \ {at} : f[i] = disk.file[i]
  BY <1>1, <1>2, <1>8
<1> HIDE DEF f, d, m
<1>10. IsDisk(d)
  BY <1>5, <1>7 DEF IsDisk
<1>11. IsWrite(disk, d, at, data, sealed)
  BY <1>1, <1>5, <1>7, <1>8, <1>9, <1>10 DEF IsWrite
<1> QED  BY <1>11 DEF d

LEMMA OpenWrite ==
    ASSUME TypeOK, NEW at, at \in DOMAIN disk.file \/ at = NextBlockOffset, NEW data
    PROVE  IsWrite(disk, WriteAt(at, data, FALSE), at, data, FALSE)
  BY WriteEffect, Zenon

LEMMA SealedWrite ==
    ASSUME TypeOK, NEW at, at \in DOMAIN disk.file \/ at = NextBlockOffset, NEW data
    PROVE  IsWrite(disk, WriteAt(at, data, TRUE), at, data, TRUE)
  BY WriteEffect, Zenon

(* A write to a block that is not sealed leaves those that are. *)
LEMMA WriteExtends ==
    ASSUME NEW d, NEW e, NEW at, NEW data, NEW sealed, IsWrite(d, e, at, data, sealed),
           at \in DOMAIN d.file => ~d.file[at].sealed
    PROVE  Extends(d, e)
  BY DEF IsWrite, Extends

LEMMA SealEntry ==
    ASSUME NEW x, NEW s, NEW t
    PROVE  [Entry(x, s) EXCEPT !.sealed = t] = Entry(x, t)
  BY DEF Entry

(* The header of a block makes it complete. *)
LEMMA SealEffect ==
    ASSUME NEW e, IsDisk(e), NEW at \in DOMAIN e.file
    PROVE  IsWrite(e, Sealed(e, at), at, e.file[at].data, TRUE)
<1> DEFINE d == Sealed(e, at)
           x == e.file[at].data
           f == [i \in DOMAIN e.file |-> IF i = at THEN Entry(x, TRUE) ELSE e.file[i]]
           n == Len(e.file)
<1>1. n \in Nat /\ DOMAIN e.file = 1 .. n
  BY FileFacts
<1>2. e.file[at] = Entry(x, e.file[at].sealed)
  BY FileFacts
<1>3. [e.file[at] EXCEPT !.sealed = TRUE] = Entry(x, TRUE)
  <2> DEFINE yes == TRUE
             s   == e.file[at].sealed
  <2> HIDE DEF yes, s
  <2>1. [Entry(x, s) EXCEPT !.sealed = yes] = Entry(x, yes)
    BY SealEntry
  <2>2. [e.file[at] EXCEPT !.sealed = yes] = Entry(x, yes)
    BY <1>2, <2>1 DEF s
  <2> QED  BY <2>2 DEF yes
<1>4. [e.file EXCEPT ![at].sealed = TRUE] = f
  BY <1>3 DEF IsDisk
<1>5. d = [e EXCEPT !.file = f]
  BY <1>4 DEF Sealed
<1>6. d.file = f /\ d.header = e.header /\ d.pointer = e.pointer
      /\ d \in [header : BOOLEAN, pointer : Nat, file : {d.file}]
  <2> HIDE DEF d, f
  <2> QED  BY <1>5 DEF IsDisk
<1>7. ASSUME NEW i \in 1 .. n
      PROVE  \E y, s : s \in BOOLEAN /\ f[i] = Entry(y, s)
  <2>1. CASE i = at
    BY <1>1, <2>1
  <2>2. CASE i # at
    <3>1. i \in DOMAIN e.file /\ f[i] = e.file[i]
      BY <1>1, <2>2
    <3> QED  BY <3>1, FileFacts
  <2> QED  BY <2>1, <2>2
<1>8. f \in Seq(Entries(f)) /\ DOMAIN f = 1 .. n
  <2>1. f = [i \in 1 .. n |-> f[i]]
    BY <1>1
  <2> HIDE DEF f, n
  <2> QED  BY <1>1, <1>7, <2>1, FileType
<1>9. f[at] = Entry(x, TRUE) /\ \A i \in DOMAIN e.file \ {at} : f[i] = e.file[i]
  OBVIOUS
<1> HIDE DEF f, d
<1>10. IsDisk(d)
  BY <1>6, <1>8 DEF IsDisk
<1>11. DOMAIN f = DOMAIN e.file \cup {at}
  BY <1>1, <1>8
<1>12. IsWrite(e, d, at, x, TRUE)
  BY <1>6, <1>9, <1>10, <1>11 DEF IsWrite
<1> QED  BY <1>12 DEF d

-----------------------------------------------------------------------------
(* The block index in memory. *)

(* A handle, as TypeOK has it. *)
IsHandle(h) ==
    /\ h \in [root : Nat, blocks : {h.blocks}, written : BOOLEAN, read : BOOLEAN]
    /\ h.blocks \in [DOMAIN h.blocks -> Nat]
    /\ DOMAIN h.blocks \subseteq Nat \ {0}
    /\ DOMAIN h.blocks = {} \/ HasGreatest(DOMAIN h.blocks)

LEMMA HandleType == ASSUME TypeOK PROVE IsHandle(handle)
  BY DEF TypeOK, IsHandle

LEMMA AssocEffect ==
    ASSUME NEW h, IsHandle(h), NEW id \in Nat \ {0}, NEW at \in Nat,
           id \in DOMAIN h.blocks \/ \A j \in DOMAIN h.blocks : j <= id
    PROVE  LET g == AssocBlock(h, id, at)
           IN  /\ IsHandle(g)
               /\ g.root = h.root /\ g.written = h.written /\ g.read = h.read
               /\ DOMAIN g.blocks = DOMAIN h.blocks \cup {id}
               /\ g.blocks[id] = at
               /\ \A j \in DOMAIN h.blocks \ {id} : g.blocks[j] = h.blocks[j]
<1> DEFINE g == AssocBlock(h, id, at)
           b == [i \in DOMAIN h.blocks \cup {id} |-> IF i = id THEN at ELSE h.blocks[i]]
<1>1. g = [h EXCEPT !.blocks = b]
  BY DEF AssocBlock
<1>2. /\ g.blocks = b /\ g.root = h.root /\ g.written = h.written /\ g.read = h.read
      /\ g \in [root : Nat, blocks : {g.blocks}, written : BOOLEAN, read : BOOLEAN]
  <2> HIDE DEF g, b
  <2> QED  BY <1>1 DEF IsHandle
<1>3. /\ DOMAIN b = DOMAIN h.blocks \cup {id} /\ b[id] = at
      /\ \A j \in DOMAIN h.blocks \ {id} : b[j] = h.blocks[j]
  OBVIOUS
<1>4. b \in [DOMAIN b -> Nat]
  BY DEF IsHandle
<1>5. HasGreatest(DOMAIN b)
  <2>1. CASE id \in DOMAIN h.blocks
    <3>1. DOMAIN b = DOMAIN h.blocks
      BY <1>3, <2>1
    <3> QED  BY <2>1, <3>1 DEF IsHandle
  <2>2. CASE \A j \in DOMAIN h.blocks : j <= id
    <3>1. id \in DOMAIN b /\ \A j \in DOMAIN b : j <= id
      BY <2>2
    <3> QED  BY <3>1 DEF HasGreatest
  <2> QED  BY <2>1, <2>2
<1> HIDE DEF b, g
<1>6. IsHandle(g)
  BY <1>2, <1>3, <1>4, <1>5 DEF IsHandle
<1> QED  BY <1>2, <1>3, <1>6 DEF g

LEMMA WrittenFacts ==
    ASSUME NEW h
    PROVE  /\ DOMAIN Written(h) = {j \in DOMAIN h.blocks : h.blocks[j] # Reserved}
           /\ \A i \in DOMAIN Written(h) : Written(h)[i] = h.blocks[i]
  BY DEF Written

(* new-block-id! and the offset after the last block. *)
LEMMA NewBlockFacts ==
    ASSUME TypeOK
    PROVE  /\ NewBlock.id \in Nat \ {0}
           /\ NewBlock.id \notin DOMAIN handle.blocks
           /\ \A j \in DOMAIN handle.blocks : j <= NewBlock.id
           /\ NewBlock.at = NextBlockOffset
           /\ NewBlock.at \in Nat \ {0}
           /\ NewBlock \in Ios
           /\ NewBlock # NoIo
           /\ NextBlockOffset \notin DOMAIN disk.file
<1>1. NewBlock.id = NewBlockId(handle) /\ NewBlock.at = NextBlockOffset
  BY DEF NewBlock
<1>2. /\ NextBlockOffset \in Nat \ {0}
      /\ NextBlockOffset \notin DOMAIN disk.file
  BY DiskType, FileFacts DEF NextBlockOffset
<1>3. /\ NewBlockId(handle) \in Nat \ {0}
      /\ \A j \in DOMAIN handle.blocks : j < NewBlockId(handle)
  <2>1. CASE DOMAIN handle.blocks = {}
    BY <2>1 DEF NewBlockId
  <2>2. CASE DOMAIN handle.blocks # {}
    <3>1. PICK m \in DOMAIN handle.blocks : \A i \in DOMAIN handle.blocks : i <= m
      BY <2>2, HandleType DEF IsHandle, HasGreatest
    <3>2. DOMAIN handle.blocks \in SUBSET Int /\ DOMAIN handle.blocks \subseteq Nat
      BY HandleType DEF IsHandle
    <3>3. Max(DOMAIN handle.blocks) = m
      BY <3>1, <3>2, MaxIs
    <3>4. NewBlockId(handle) = m + 1
      BY <2>2, <3>3 DEF NewBlockId
    <3> QED  BY <3>1, <3>2, <3>4
  <2> QED  BY <2>1, <2>2
<1>4. NewBlockId(handle) \notin DOMAIN handle.blocks
      /\ \A j \in DOMAIN handle.blocks : j <= NewBlockId(handle)
  <2>1. DOMAIN handle.blocks \subseteq Nat
    BY HandleType DEF IsHandle
  <2> QED  BY <1>3, <2>1
<1>5. NewBlock \in Ios /\ NewBlock # NoIo
  BY <1>2, <1>3 DEF NewBlock, Ios, NoIo
<1> QED  BY <1>1, <1>2, <1>3, <1>4, <1>5

(* An id that is only reserved is not written to any index. *)
LEMMA ReservedIsNotWritten ==
    ASSUME NEW h, IsHandle(h), NEW id \in Nat \ {0},
           id \notin DOMAIN h.blocks, \A j \in DOMAIN h.blocks : j <= id
    PROVE  Written(AssocBlock(h, id, Reserved)) = Written(h)
<1> DEFINE g == AssocBlock(h, id, Reserved)
<1>1. Reserved \in Nat
  BY DEF Reserved
<1>2. /\ DOMAIN g.blocks = DOMAIN h.blocks \cup {id} /\ g.blocks[id] = Reserved
      /\ \A j \in DOMAIN h.blocks \ {id} : g.blocks[j] = h.blocks[j]
  BY <1>1, AssocEffect
<1> HIDE DEF g
<1>3. {j \in DOMAIN g.blocks : g.blocks[j] # Reserved}
      = {j \in DOMAIN h.blocks : h.blocks[j] # Reserved}
  BY <1>2
<1>4. \A j \in {j \in DOMAIN h.blocks : h.blocks[j] # Reserved} : g.blocks[j] = h.blocks[j]
  BY <1>2
<1>5. Written(g) = Written(h)
  BY <1>3, <1>4 DEF Written
<1> QED  BY <1>5 DEF g

(* One that is assigned is. *)
LEMMA AssignedIsWritten ==
    ASSUME NEW h, IsHandle(h), NEW id \in Nat \ {0}, NEW at \in Nat \ {0},
           id \in DOMAIN h.blocks \/ \A j \in DOMAIN h.blocks : j <= id
    PROVE  LET c == Written(AssocBlock(h, id, at))
               b == Written(h)
           IN  /\ DOMAIN c = DOMAIN b \cup {id}
               /\ c[id] = at
               /\ \A j \in DOMAIN b \ {id} : c[j] = b[j]
<1> DEFINE g == AssocBlock(h, id, at)
<1>1. at \in Nat /\ at # Reserved
  BY DEF Reserved
<1>2. /\ DOMAIN g.blocks = DOMAIN h.blocks \cup {id} /\ g.blocks[id] = at
      /\ \A j \in DOMAIN h.blocks \ {id} : g.blocks[j] = h.blocks[j]
  BY <1>1, AssocEffect
<1> HIDE DEF g
<1>3. DOMAIN Written(g) = DOMAIN Written(h) \cup {id}
  <2>1. DOMAIN Written(g) = {j \in DOMAIN g.blocks : g.blocks[j] # Reserved}
    BY WrittenFacts
  <2>2. DOMAIN Written(h) = {j \in DOMAIN h.blocks : h.blocks[j] # Reserved}
    BY WrittenFacts
  <2>3. {j \in DOMAIN g.blocks : g.blocks[j] # Reserved}
        = {j \in DOMAIN h.blocks : h.blocks[j] # Reserved} \cup {id}
    BY <1>1, <1>2
  <2> QED  BY <2>1, <2>2, <2>3
<1>4. Written(g)[id] = at
  BY <1>2, <1>3, WrittenFacts
<1>5. \A j \in DOMAIN Written(h) \ {id} : Written(g)[j] = Written(h)[j]
  BY <1>2, <1>3, WrittenFacts
<1> QED  BY <1>3, <1>4, <1>5 DEF g

-----------------------------------------------------------------------------
(* What an index says stays true while the file grows. *)

(* A block of b in d has the same use as a block of c in e. *)
Carries(d, b, e, c) ==
    \A id : /\ TestBlock(d, b, id)    => TestBlock(e, c, id)
            /\ HistoryBlock(d, b, id) => HistoryBlock(e, c, id)
            /\ StreamBlock(d, b, id)  => StreamBlock(e, c, id)
            /\ Results(d, b, id)      => Results(e, c, id)
            /\ LastResults(d, b, id)  => LastResults(e, c, id)

(* What a block refers to is there. *)
RefersWell(d, b, block) ==
    /\ block.type = "test" =>
          /\ HistoryBlock(d, b, block.history)
          /\ block.results # 0 => Results(d, b, block.results)
    /\ block.type = "partial" /\ block.rest # 0 => LastResults(d, b, block.rest)
    /\ block.type = "vector" =>
          \A k \in DOMAIN block.chunks : StreamBlock(d, b, block.chunks[k].id)

LEMMA WellFormedFacts ==
    ASSUME NEW d, NEW b
    PROVE  WellFormed(d, b) <=>
              /\ DOMAIN b \subseteq Nat \ {0}
              /\ \A id \in DOMAIN b : Sound(d, b[id]) /\ RefersWell(d, b, Data(d, b, id))
  BY DEF WellFormed, RefersWell

LEMMA RefersCarried ==
    ASSUME NEW d, NEW b, NEW e, NEW c, Carries(d, b, e, c), NEW block, RefersWell(d, b, block)
    PROVE  RefersWell(e, c, block)
  BY DEF Carries, RefersWell

(* The file grows, and the index stays. *)
LEMMA GrowthCarries ==
    ASSUME NEW d, NEW e, NEW b, WellFormed(d, b), Extends(d, e)
    PROVE  /\ WellFormed(e, b)
           /\ Carries(d, b, e, b)
           /\ \A id \in DOMAIN b : Data(e, b, id) = Data(d, b, id)
<1>1. ASSUME NEW id \in DOMAIN b
      PROVE  Sound(e, b[id]) /\ Data(e, b, id) = Data(d, b, id)
  <2>1. Sound(d, b[id])
    BY WellFormedFacts
  <2> QED  BY <2>1 DEF Sound, Extends, Data
<1>2. Carries(d, b, e, b)
  <2>1. ASSUME NEW id, LastResults(d, b, id) PROVE LastResults(e, b, id)
    BY <1>1, <2>1 DEF LastResults
  <2>2. ASSUME NEW id, Results(d, b, id) PROVE Results(e, b, id)
    BY <1>1, <2>1, <2>2 DEF Results
  <2> QED  BY <1>1, <2>1, <2>2 DEF Carries, TestBlock, HistoryBlock, StreamBlock
<1>3. WellFormed(e, b)
  <2>1. DOMAIN b \subseteq Nat \ {0} /\ \A id \in DOMAIN b : RefersWell(d, b, Data(d, b, id))
    BY WellFormedFacts
  <2>2. \A id \in DOMAIN b : RefersWell(e, b, Data(e, b, id))
    BY <1>1, <1>2, <2>1, RefersCarried
  <2> QED  BY <1>1, <2>1, <2>2, WellFormedFacts
<1> QED  BY <1>1, <1>2, <1>3

(* One block more, or a new version of the history. *)
LEMMA BlockCarries ==
    ASSUME NEW d, NEW e, NEW b, NEW c, WellFormed(d, b), Extends(d, e),
           NEW id \in Nat \ {0}, DOMAIN c = DOMAIN b \cup {id},
           \A j \in DOMAIN b \ {id} : c[j] = b[j],
           id \notin DOMAIN b \/ /\ HistoryBlock(d, b, id)
                                 /\ Data(e, c, id).type \in {"nil", "vector"}
    PROVE  /\ Carries(d, b, e, c)
           /\ Sound(e, c[id]) /\ RefersWell(e, c, Data(e, c, id)) => WellFormed(e, c)
<1>1. ASSUME NEW j \in DOMAIN b, j # id
      PROVE  Sound(e, c[j]) /\ Data(e, c, j) = Data(d, b, j)
  <2>1. Sound(d, b[j]) /\ c[j] = b[j]
    BY <1>1, WellFormedFacts
  <2> QED  BY <2>1 DEF Sound, Extends, Data
<1>2. ASSUME NEW j \in DOMAIN b, j = id
      PROVE  HistoryBlock(d, b, j) /\ Data(e, c, j).type \in {"nil", "vector"}
  BY <1>2
<1>3. ASSUME NEW j, LastResults(d, b, j) PROVE LastResults(e, c, j)
  <2>1. j \in DOMAIN b /\ j # id
    BY <1>2, <1>3 DEF LastResults, HistoryBlock
  <2> QED  BY <1>1, <1>3, <2>1 DEF LastResults
<1>4. ASSUME NEW j, Results(d, b, j) PROVE Results(e, c, j)
  <2>1. j \in DOMAIN b /\ j # id
    BY <1>2, <1>4 DEF Results, HistoryBlock
  <2> QED  BY <1>1, <1>3, <1>4, <2>1 DEF Results
<1>5. ASSUME NEW j, TestBlock(d, b, j) PROVE TestBlock(e, c, j)
  <2>1. j \in DOMAIN b /\ j # id
    BY <1>2, <1>5 DEF TestBlock, HistoryBlock
  <2> QED  BY <1>1, <1>5, <2>1 DEF TestBlock
<1>6. ASSUME NEW j, StreamBlock(d, b, j) PROVE StreamBlock(e, c, j)
  <2>1. j \in DOMAIN b /\ j # id
    BY <1>2, <1>6 DEF StreamBlock, HistoryBlock
  <2> QED  BY <1>1, <1>6, <2>1 DEF StreamBlock
<1>7. ASSUME NEW j, HistoryBlock(d, b, j) PROVE HistoryBlock(e, c, j)
  BY <1>1, <1>2, <1>7 DEF HistoryBlock
<1>8. Carries(d, b, e, c)
  BY <1>3, <1>4, <1>5, <1>6, <1>7 DEF Carries
<1>9. ASSUME Sound(e, c[id]), RefersWell(e, c, Data(e, c, id)) PROVE WellFormed(e, c)
  <2>1. DOMAIN b \subseteq Nat \ {0} /\ \A j \in DOMAIN b : RefersWell(d, b, Data(d, b, j))
    BY WellFormedFacts
  <2>2. ASSUME NEW j \in DOMAIN c
        PROVE  Sound(e, c[j]) /\ RefersWell(e, c, Data(e, c, j))
    <3>1. CASE j = id
      BY <1>9, <3>1
    <3>2. CASE j # id
      <4>1. j \in DOMAIN b
        BY <3>2
      <4>2. RefersWell(e, c, Data(d, b, j))
        BY <1>8, <2>1, <4>1, RefersCarried
      <4> QED  BY <1>1, <3>2, <4>1, <4>2
    <3> QED  BY <3>1, <3>2
  <2>3. DOMAIN c \subseteq Nat \ {0}
    BY <2>1
  <2> QED  BY <2>2, <2>3, WellFormedFacts
<1> QED  BY <1>8, <1>9

-----------------------------------------------------------------------------
(* Facts that several actions need. *)

LEMMA TypeFromParts ==
    ASSUME IsDisk(disk'), IsHandle(handle'), main' \in MainStates, writer' \in WriterStates,
           queue' \in Seq(Nat), ops' \in 0 .. MaxOps, analyses' \in 0 .. MaxAnalyses
    PROVE  TypeOK'
  BY DEF TypeOK, IsDisk, IsHandle

(* What stays the same when only the disk, the handle and a thread change. *)
LEMMA PlainTypes ==
    ASSUME TypeOK
    PROVE  /\ main \in MainStates /\ writer \in WriterStates /\ queue \in Seq(Nat)
           /\ ops \in 0 .. MaxOps /\ analyses \in 0 .. MaxAnalyses
  BY DEF TypeOK

(* While the main thread writes, the history writer does not. *)
LEMMA MainWrites ==
    ASSUME TypeOK, TakingTurns, main.pc \in MainBlocks \cup {"index", "prep", "load", "start"}
    PROVE  writer.pc \notin Working /\ writer.pc # "dead" /\ InUse
  BY DEF TakingTurns, MainBlocks, InUse

(* While the history writer writes, the main thread does not. *)
LEMMA WriterWrites ==
    ASSUME TypeOK, StoreInv, writer.pc \in Working
    PROVE  /\ main.pc \in {"run", "close", "join", "close again", "join again"}
           /\ main.io = NoIo
           /\ writer.pc # "dead"
           /\ InUse
<1>1. main.pc \in {"run", "close", "join", "close again", "join again"}
  BY DEF StoreInv, TakingTurns
<1>2. main.io = NoIo
  BY <1>1 DEF StoreInv, OpenBlocks, MainBlocks
<1>3. writer.pc # "dead"
  BY DEF Working
<1> QED  BY <1>1, <1>2, <1>3 DEF InUse

(* The index on disk stays good while the file grows and the pointer stays. *)
LEMMA DiskKept ==
    ASSUME DiskIsSound, Extends(disk, disk'), disk'.pointer = disk.pointer,
           disk.header => disk'.header,
           main'.pc = "history" => main.pc = "history",
           disk.pointer # 0 /\ main'.pc \notin {"history", "down", "close file"} =>
              /\ main.pc \notin {"history", "down", "close file"}
              /\ main'.history = main.history
    PROVE  DiskIsSound'
<1>1. CASE disk.pointer = 0
  BY <1>1 DEF DiskIsSound
<1>2. CASE disk.pointer # 0
  <2> DEFINE b == IndexOf(disk).blocks
  <2>1. /\ HasIndex(disk) /\ WellFormed(disk, b) /\ TestBlock(disk, b, IndexOf(disk).root)
        /\ HasGreatest(DOMAIN b) /\ b \in [DOMAIN b -> Nat]
        /\ main.pc \notin {"history", "down", "close file"} =>
              HistoryBlock(disk, b, main.history)
        /\ main.pc # "history"
    BY <1>2 DEF DiskIsSound
  <2>2. disk.pointer \in DOMAIN disk.file /\ disk.file[disk.pointer].sealed
    BY <2>1 DEF HasIndex, Sound
  <2>3. disk'.pointer \in DOMAIN disk'.file
        /\ disk'.file[disk'.pointer] = disk.file[disk.pointer]
    <3>1. disk.pointer \in DOMAIN disk'.file
          /\ disk'.file[disk.pointer] = disk.file[disk.pointer]
      BY <2>2, Zenon DEF Extends
    <3> QED  BY <3>1
  <2>4. IndexOf(disk') = IndexOf(disk)
    BY <2>3 DEF IndexOf
  <2>5. HasIndex(disk')
    BY <1>2, <2>1, <2>2, <2>3 DEF HasIndex, Sound
  <2> HIDE DEF b
  <2>6. WellFormed(disk', b) /\ Carries(disk, b, disk', b)
    BY <2>1, GrowthCarries
  <2>7. TestBlock(disk', b, IndexOf(disk').root)
    BY <2>1, <2>4, <2>6 DEF Carries
  <2>8. main'.pc \notin {"history", "down", "close file"} =>
           HistoryBlock(disk', b, main'.history)
    BY <1>2, <2>1, <2>6 DEF Carries
  <2>9. IndexOf(disk').blocks = b
    BY <2>4 DEF b
  <2>10. main'.pc # "history"
    BY <2>1
  <2> QED  BY <2>1, <2>5, <2>6, <2>7, <2>8, <2>9, <2>10 DEF DiskIsSound
<1> QED  BY <1>1, <1>2

(* So does the handle, when the main thread stays where it is. *)
LEMMA HandleKept ==
    ASSUME HandleIsSound, InUse,
           WellFormed(DiskWithIndex', Written(handle')),
           Carries(DiskWithIndex, Written(handle), DiskWithIndex', Written(handle')),
           handle'.root = handle.root, handle'.read = handle.read, main.pc # "prep",
           main'.pc = main.pc, main'.stage = main.stage, main'.history = main.history,
           main'.results = main.results,
           writer'.pc \in Working => writer.pc \in Working /\ writer'.chunks = writer.chunks
    PROVE  HandleIsSound'
<1> DEFINE d == DiskWithIndex
           b == Written(handle)
           e == DiskWithIndex'
           c == Written(handle')
<1>1. /\ handle.root # 0 => TestBlock(d, b, handle.root)
      /\ main.pc \in {"index", "start", "run", "close", "join", "load",
                      "close again", "join again"} => handle.root # 0
      /\ main.pc # "history" => HistoryBlock(d, b, main.history)
      /\ main.pc = "results" => LastResults(d, b, main.results)
      /\ main.pc \in {"test", "index"} /\ main.results # 0 =>
            main.stage = 2 /\ Results(d, b, main.results)
      /\ main.pc \notin {"results", "test", "index"} => main.results = 0
      /\ writer.pc \in Working =>
            \A k \in DOMAIN writer.chunks : StreamBlock(d, b, writer.chunks[k].id)
  BY DEF HandleIsSound
<1>2. WellFormed(e, c) /\ Carries(d, b, e, c)
  OBVIOUS
<1> HIDE DEF d, b, e, c
<1>3. /\ handle'.root # 0 => TestBlock(e, c, handle'.root)
      /\ main'.pc # "history" => HistoryBlock(e, c, main'.history)
      /\ main'.pc = "results" => LastResults(e, c, main'.results)
      /\ main'.pc \in {"test", "index"} /\ main'.results # 0 =>
            main'.stage = 2 /\ Results(e, c, main'.results)
      /\ writer'.pc \in Working =>
            \A k \in DOMAIN writer'.chunks : StreamBlock(e, c, writer'.chunks[k].id)
  BY <1>1, <1>2 DEF Carries
<1> QED  BY <1>1, <1>2, <1>3 DEF HandleIsSound, e, c

(* The first half of a block of the main thread. *)
LEMMA MainBeginStep ==
    ASSUME TypeOK, StoreInv, MainBegin
    PROVE  TypeOK' /\ StoreInv' /\ Extends(disk, disk')
<1>1. /\ main.pc \in MainBlocks /\ main.io = NoIo /\ main.pc # "index" /\ main.pc # "prep"
      /\ main.pc \notin {"down", "close file"}
  BY DEF MainBegin, MainBlocks
<1>2. writer.pc \notin Working /\ writer.pc # "dead" /\ writer.pc # "index" /\ InUse
      /\ writer.pc \notin {"open", "take", "seal"} /\ writer.pc # "vector"
  BY <1>1, MainWrites DEF StoreInv, Working
<1>3. /\ disk' = WriteAt(NewBlock.at, MainData, FALSE)
      /\ handle' = AssocBlock(handle, NewBlock.id, Reserved)
      /\ main' = [main EXCEPT !.io = NewBlock]
      /\ writer' = writer /\ queue' = queue /\ ops' = ops /\ analyses' = analyses
  BY DEF MainBegin
<1>4. /\ IsDisk(disk') /\ disk'.header = disk.header /\ disk'.pointer = disk.pointer
      /\ NewBlock.at \in DOMAIN disk'.file /\ ~disk'.file[NewBlock.at].sealed
      /\ Extends(disk, disk')
  <2>1. IsWrite(disk, disk', NewBlock.at, MainData, FALSE)
    BY <1>3, NewBlockFacts, OpenWrite
  <2>2. Extends(disk, disk')
    BY <2>1, NewBlockFacts, WriteExtends
  <2> QED  BY <2>1, <2>2 DEF IsWrite, Entry
<1>5. Extends(disk, disk')
  BY <1>4
<1>6. /\ IsHandle(handle') /\ handle'.root = handle.root /\ handle'.written = handle.written
      /\ handle'.read = handle.read
      /\ DOMAIN handle'.blocks = DOMAIN handle.blocks \cup {NewBlock.id}
      /\ handle'.blocks[NewBlock.id] = Reserved
  BY <1>3, NewBlockFacts, HandleType, AssocEffect DEF Reserved
<1>7. Written(handle') = Written(handle)
  BY <1>3, NewBlockFacts, HandleType, ReservedIsNotWritten
<1>8. /\ main' \in MainStates /\ main'.io = NewBlock /\ main'.pc = main.pc
      /\ main'.stage = main.stage /\ main'.history = main.history
      /\ main'.results = main.results
  BY <1>3, NewBlockFacts, PlainTypes DEF MainStates
<1>9. TypeOK'
  BY <1>3, <1>4, <1>6, <1>8, PlainTypes, TypeFromParts
<1>10. IndexIo = NoIo /\ IndexIo' = NoIo
  BY <1>1, <1>2, <1>3, <1>8 DEF IndexIo
<1>11. DiskWithIndex = disk /\ DiskWithIndex' = disk'
  BY <1>10 DEF DiskWithIndex
<1>12. HandleIsSound'
  <2>1. WellFormed(disk, Written(handle))
    BY <1>2, <1>11 DEF StoreInv, HandleIsSound
  <2>2. WellFormed(disk', Written(handle)) /\ Carries(disk, Written(handle), disk', Written(handle))
    BY <1>5, <2>1, GrowthCarries
  <2> QED  BY <1>1, <1>2, <1>3, <1>6, <1>7, <1>8, <1>11, <2>2, HandleKept DEF StoreInv
<1>13. TakingTurns'
  BY <1>3, <1>8 DEF StoreInv, TakingTurns
<1>14. OpenBlocks'
  <2>1. NewBlock.id \in DOMAIN handle'.blocks
    BY <1>6
  <2> QED  BY <1>1, <1>2, <1>3, <1>4, <1>6, <1>8, <2>1 DEF OpenBlocks
<1>15. OpenIndex'
  BY <1>4, <1>6, <1>10 DEF StoreInv, OpenIndex
<1>16. DiskIsSound'
  BY <1>1, <1>4, <1>5, <1>8, DiskKept DEF StoreInv
<1>17. ReadBack'
  BY <1>1, <1>6, <1>8 DEF StoreInv, ReadBack, MainBlocks
<1> QED  BY <1>5, <1>9, <1>12, <1>13, <1>14, <1>15, <1>16, <1>17 DEF StoreInv

(* The block that the main thread completes refers to blocks that are there. *)
LEMMA MainDataRefersWell ==
    ASSUME TypeOK, StoreInv, main.pc \in MainBlocks, NEW e, NEW c,
           Carries(disk, Written(handle), e, c), DiskWithIndex = disk, InUse
    PROVE  RefersWell(e, c, MainData)
<1> DEFINE b == Written(handle)
<1>1. /\ main.pc = "test" => HistoryBlock(disk, b, main.history)
      /\ main.pc = "test" /\ main.results # 0 => Results(disk, b, main.results)
      /\ main.pc = "results" => LastResults(disk, b, main.results)
  BY DEF StoreInv, HandleIsSound
<1> HIDE DEF b
<1>2. /\ main.pc = "test" => HistoryBlock(e, c, main.history)
      /\ main.pc = "test" /\ main.results # 0 => Results(e, c, main.results)
      /\ main.pc = "results" => LastResults(e, c, main.results)
  BY <1>1 DEF Carries, b
<1>3. CASE main.pc = "history"
  <2>1. MainData = NilHistory
    BY <1>3 DEF MainData
  <2> QED  BY <2>1 DEF NilHistory, RefersWell
<1>4. CASE main.pc = "more"
  <2>1. MainData = PartialMap(0)
    BY <1>4 DEF MainData
  <2> QED  BY <2>1 DEF PartialMap, RefersWell
<1>5. CASE main.pc = "results"
  <2>1. MainData = PartialMap(main.results)
    BY <1>5 DEF MainData
  <2> QED  BY <1>2, <1>5, <2>1 DEF PartialMap, RefersWell
<1>6. CASE main.pc = "test"
  <2>1. MainData = Test(main.stage, main.history, main.results)
    BY <1>6 DEF MainData
  <2> QED  BY <1>2, <1>6, <2>1 DEF Test, RefersWell
<1> QED  BY <1>3, <1>4, <1>5, <1>6 DEF MainBlocks

(* The second half of a block of the main thread. *)
LEMMA MainSealStep ==
    ASSUME TypeOK, StoreInv, MainSeal
    PROVE  TypeOK' /\ StoreInv' /\ Extends(disk, disk')
<1> DEFINE id == main.io.id
           at == main.io.at
           b  == Written(handle)
           c  == Written(handle')
<1>1. /\ main.pc \in MainBlocks /\ main.io # NoIo /\ main.pc # "index" /\ main.pc # "prep"
      /\ main.pc \notin {"down", "close file"}
  BY DEF MainSeal, MainBlocks
<1>2. writer.pc \notin Working /\ writer.pc # "dead" /\ writer.pc # "index" /\ InUse
      /\ writer.pc \notin {"open", "take", "seal"} /\ writer.pc # "vector"
  BY <1>1, MainWrites DEF StoreInv, Working
<1>3. /\ at \in DOMAIN disk.file /\ ~disk.file[at].sealed
      /\ id \in DOMAIN handle.blocks /\ handle.blocks[id] = Reserved
  BY <1>1 DEF StoreInv, OpenBlocks
<1>4. id \in Nat \ {0} /\ at \in Nat \ {0}
  BY <1>3, HandleType, DiskType, FileFacts DEF IsHandle
<1>5. /\ disk' = WriteAt(at, MainData, TRUE)
      /\ handle' = IF main.pc = "test" THEN [AssocBlock(handle, id, at) EXCEPT !.root = id]
                   ELSE AssocBlock(handle, id, at)
      /\ main' = [main EXCEPT
                    !.pc = AfterBlock[main.pc], !.io = NoIo,
                    !.history = IF main.pc = "history" THEN id ELSE main.history,
                    !.results = IF main.pc \in {"more", "results"} THEN id ELSE main.results]
      /\ writer' = writer /\ queue' = queue /\ ops' = ops /\ analyses' = analyses
  BY DEF MainSeal
<1>6. IsWrite(disk, disk', at, MainData, TRUE)
  BY <1>3, <1>5, SealedWrite
<1>7. Extends(disk, disk')
  BY <1>3, <1>6, WriteExtends
<1> DEFINE h == AssocBlock(handle, id, at)
<1>8. /\ IsHandle(h) /\ h.root = handle.root /\ h.written = handle.written
      /\ h.read = handle.read
  BY <1>3, <1>4, HandleType, AssocEffect
<1>9. DOMAIN Written(h) = DOMAIN b \cup {id} /\ Written(h)[id] = at
      /\ \A j \in DOMAIN b \ {id} : Written(h)[j] = b[j]
  BY <1>3, <1>4, HandleType, AssignedIsWritten
<1> HIDE DEF h
<1>10. /\ IsHandle(handle') /\ handle'.blocks = h.blocks
       /\ handle'.written = handle.written /\ handle'.read = handle.read
       /\ handle'.root = IF main.pc = "test" THEN id ELSE handle.root
  <2>1. handle' = IF main.pc = "test" THEN [h EXCEPT !.root = id] ELSE h
    BY <1>5 DEF h
  <2> QED  BY <1>4, <1>8, <2>1 DEF IsHandle
<1>11. c = Written(h)
  BY <1>10 DEF Written
<1>12. id \notin DOMAIN b
  BY <1>3, WrittenFacts
<1>13. /\ main'.pc = AfterBlock[main.pc] /\ main'.io = NoIo /\ main'.stage = main.stage
       /\ main'.history = IF main.pc = "history" THEN id ELSE main.history
       /\ main'.results = IF main.pc \in {"more", "results"} THEN id ELSE main.results
  <2> HIDE DEF id
  <2> QED  BY <1>5, PlainTypes DEF MainStates
<1>14. /\ main.pc = "history" => AfterBlock[main.pc] = "test"
       /\ main.pc = "more"    => AfterBlock[main.pc] = "results"
       /\ main.pc = "results" => AfterBlock[main.pc] = "test"
       /\ main.pc = "test"    => AfterBlock[main.pc] = "index"
  BY DEF AfterBlock
<1>15. AfterBlock[main.pc] \in MainSteps
  BY <1>1, <1>14 DEF MainSteps, MainBlocks
<1>16. main' \in MainStates
  <2> DEFINE hist == IF main.pc = "history" THEN id ELSE main.history
             res  == IF main.pc \in {"more", "results"} THEN id ELSE main.results
             pc   == AfterBlock[main.pc]
  <2>1. hist \in Nat /\ res \in Nat /\ pc \in MainSteps /\ NoIo \in Ios
    BY <1>4, <1>15, PlainTypes DEF MainStates, NoIo, Ios
  <2>2. main' = [main EXCEPT !.pc = pc, !.io = NoIo, !.history = hist, !.results = res]
    BY <1>5
  <2> HIDE DEF hist, res, pc
  <2> QED  BY <2>1, <2>2, PlainTypes DEF MainStates
<1>17. TypeOK'
  BY <1>5, <1>6, <1>10, <1>16, PlainTypes, TypeFromParts DEF IsWrite
<1>18. IndexIo = NoIo /\ IndexIo' = NoIo
  BY <1>1, <1>2, <1>5, <1>13 DEF IndexIo
<1>19. DiskWithIndex = disk /\ DiskWithIndex' = disk'
  BY <1>18 DEF DiskWithIndex
<1>20. WellFormed(disk, b)
  BY <1>2, <1>19 DEF StoreInv, HandleIsSound
<1>21. Data(disk', c, id) = MainData /\ Sound(disk', c[id])
  BY <1>6, <1>9, <1>11 DEF Data, Sound, IsWrite, Entry
<1> HIDE DEF id, at, b, c
<1>22. Carries(disk, b, disk', c)
       /\ (Sound(disk', c[id]) /\ RefersWell(disk', c, Data(disk', c, id)) => WellFormed(disk', c))
  BY <1>4, <1>7, <1>9, <1>11, <1>12, <1>20, BlockCarries
<1>23. RefersWell(disk', c, MainData)
  BY <1>1, <1>2, <1>19, <1>22, MainDataRefersWell DEF b
<1>24. WellFormed(disk', c)
  BY <1>21, <1>22, <1>23
<1>25. id \in DOMAIN c
  BY <1>9, <1>11
<1>26. HandleIsSound'
  <2>1. /\ handle.root # 0 => TestBlock(disk, b, handle.root)
        /\ main.pc # "history" => HistoryBlock(disk, b, main.history)
        /\ main.pc = "results" => LastResults(disk, b, main.results)
        /\ main.pc = "test" /\ main.results # 0 =>
              main.stage = 2 /\ Results(disk, b, main.results)
        /\ main.pc \in {"history", "more"} => main.results = 0
    BY <1>1, <1>2, <1>19 DEF StoreInv, HandleIsSound, b
  <2>2. /\ handle.root # 0 => TestBlock(disk', c, handle.root)
        /\ main.pc # "history" => HistoryBlock(disk', c, main.history)
        /\ main.pc = "results" => LastResults(disk', c, main.results) /\ main.results # 0
        /\ main.pc = "test" /\ main.results # 0 =>
              main.stage = 2 /\ Results(disk', c, main.results)
    <3>1. main.pc = "results" => main.results # 0
      BY <1>20, <2>1 DEF LastResults, WellFormed
    <3> QED  BY <1>22, <2>1, <3>1 DEF Carries
  <2>3. handle'.root # 0 => TestBlock(disk', c, handle'.root)
    <3>1. CASE main.pc = "test"
      <4>1. MainData.type = "test"
        BY <3>1 DEF MainData, Test
      <4> QED  BY <1>10, <1>21, <1>25, <3>1, <4>1 DEF TestBlock
    <3>2. CASE main.pc # "test"
      BY <1>10, <2>2, <3>2
    <3> QED  BY <3>1, <3>2
  <2>4. HistoryBlock(disk', c, main'.history)
    <3>1. CASE main.pc = "history"
      <4>1. MainData.type = "nil"
        BY <3>1 DEF MainData, NilHistory
      <4> QED  BY <1>13, <1>21, <1>25, <3>1, <4>1 DEF HistoryBlock
    <3>2. CASE main.pc # "history"
      BY <1>13, <2>2, <3>2
    <3> QED  BY <3>1, <3>2
  <2>5. main'.pc = "results" => LastResults(disk', c, main'.results)
    <3> SUFFICES ASSUME main'.pc = "results" PROVE LastResults(disk', c, main'.results)
      OBVIOUS
    <3>1. main.pc = "more"
      BY <1>1, <1>13, <1>14 DEF MainBlocks
    <3>2. MainData.type = "partial" /\ MainData.rest = 0
      BY <3>1 DEF MainData, PartialMap
    <3> QED  BY <1>13, <1>21, <1>25, <3>1, <3>2 DEF LastResults
  <2>6. main'.pc \in {"test", "index"} /\ main'.results # 0 =>
           main'.stage = 2 /\ Results(disk', c, main'.results)
    <3>1. CASE main.pc = "results"
      <4>1. MainData.type = "partial" /\ MainData.rest = main.results
        BY <3>1 DEF MainData, PartialMap
      <4>2. Results(disk', c, id)
        BY <1>21, <1>25, <2>2, <3>1, <4>1 DEF Results
      <4>3. main.stage = 2
        BY <3>1 DEF StoreInv, TakingTurns
      <4> QED  BY <1>13, <3>1, <4>2, <4>3
    <3>2. CASE main.pc = "test"
      BY <1>13, <2>2, <3>2
    <3>3. CASE main.pc = "history"
      BY <1>13, <2>1, <3>3
    <3>4. CASE main.pc = "more"
      BY <1>13, <1>14, <3>4
    <3> QED  BY <1>1, <3>1, <3>2, <3>3, <3>4 DEF MainBlocks
  <2>7. main'.pc \in {"test", "results", "index"}
    BY <1>1, <1>13, <1>14 DEF MainBlocks
  <2>8. main'.pc = "index" => handle'.root # 0
    BY <1>1, <1>4, <1>10, <1>13, <1>14 DEF MainBlocks
  <2> QED  BY <1>2, <1>5, <1>19, <1>24, <2>3, <2>4, <2>5, <2>6, <2>7, <2>8
           DEF HandleIsSound, c
<1>27. TakingTurns'
  <2>1. /\ main.pc = "history" => main.stage = 0 /\ writer = NoWriter
        /\ main.pc \in {"more", "results"} => main.stage = 2
        /\ main.pc = "test" /\ main.stage = 0 => writer = NoWriter
    BY DEF StoreInv, TakingTurns
  <2>2. /\ main'.pc \in {"test", "results", "index"}
        /\ main'.pc = "results" => main.pc = "more"
        /\ main'.pc \in {"test", "index"} => main.pc \in {"history", "results", "test"}
    BY <1>1, <1>13, <1>14 DEF MainBlocks
  <2>3. main'.pc \in {"test", "index"} /\ main'.stage = 0 => writer' = NoWriter
    BY <1>5, <1>13, <2>1, <2>2
  <2> QED  BY <1>2, <1>5, <1>13, <2>1, <2>2, <2>3 DEF TakingTurns
<1>28. OpenBlocks'
  BY <1>2, <1>5, <1>13 DEF OpenBlocks
<1>29. OpenIndex'
  BY <1>6, <1>10, <1>18 DEF StoreInv, OpenIndex, IsWrite
<1>30. DiskIsSound'
  <2>1. main'.pc # "history"
    BY <1>1, <1>13, <1>14 DEF MainBlocks
  <2>2. disk.pointer # 0 => main.pc # "history"
    BY DEF StoreInv, DiskIsSound
  <2>3. disk.pointer # 0 => main'.history = main.history
    BY <1>13, <2>2
  <2> QED  BY <1>1, <1>6, <1>7, <2>1, <2>2, <2>3, DiskKept DEF StoreInv, IsWrite
<1>31. ReadBack'
  <2>1. main'.pc \in {"test", "results", "index"}
    BY <1>1, <1>13, <1>14 DEF MainBlocks
  <2>2. main.stage = 1 => main.pc = "test"
    <3>1. /\ main.pc = "history" => main.stage = 0
          /\ main.pc \in {"more", "results"} => main.stage = 2
      BY DEF StoreInv, TakingTurns
    <3>2. main.pc \in {"history", "more", "results", "test"}
      BY <1>1 DEF MainBlocks
    <3>3. main.stage \in Int
      BY PlainTypes DEF MainStates
    <3> QED  BY <3>1, <3>2, <3>3
  <2> QED  BY <1>10, <1>13, <2>1, <2>2 DEF StoreInv, ReadBack
<1> QED  BY <1>7, <1>17, <1>26, <1>27, <1>28, <1>29, <1>30, <1>31 DEF StoreInv

-----------------------------------------------------------------------------
(* write-block-index!, by either thread. *)

(* The first half of the index block.  Once it is complete, what it says holds. *)
LEMMA BeginIndexEffect ==
    ASSUME TypeOK, NEW io, BeginIndex(io), WellFormed(disk, Written(handle)),
           handle.written => disk.header
    PROVE  LET e == Sealed(disk', NewBlock.at)
               c == Written(handle')
           IN  /\ IsDisk(disk') /\ IsHandle(handle') /\ Extends(disk, disk')
               /\ disk'.pointer = disk.pointer /\ disk'.header = disk.header
               /\ disk'.header
               /\ handle'.root = handle.root /\ handle'.read = handle.read
               /\ handle'.written = handle.written
               /\ WellFormed(e, c)
               /\ Carries(disk, Written(handle), e, c)
               /\ NewBlock.at \in DOMAIN disk'.file
               /\ disk'.file[NewBlock.at].data = Index(handle'.root, c)
               /\ NewBlock.id \in DOMAIN c
               /\ \A id \in DOMAIN handle'.blocks : id <= NewBlock.id
<1> DEFINE id == NewBlock.id
           at == NewBlock.at
           b  == Written(handle)
           c  == Written(handle')
           e  == Sealed(disk', at)
           x  == Index(handle'.root, c)
<1>1. handle' = AssocBlock(handle, id, at) /\ handle.written
  BY DEF BeginIndex
<1>2. disk' = WriteAt(at, x, FALSE)
  BY DEF BeginIndex
<1>3. /\ id \in Nat \ {0} /\ id \notin DOMAIN handle.blocks
      /\ \A j \in DOMAIN handle.blocks : j <= id
      /\ at = NextBlockOffset /\ at \in Nat \ {0} /\ at \notin DOMAIN disk.file
  BY NewBlockFacts
<1>4. /\ IsHandle(handle') /\ handle'.root = handle.root
      /\ handle'.written = handle.written /\ handle'.read = handle.read
      /\ DOMAIN handle'.blocks = DOMAIN handle.blocks \cup {id}
  <2> HIDE DEF id, at
  <2>1. at \in Nat
    BY <1>3
  <2>2. handle' = AssocBlock(handle, id, at)
    BY <1>1
  <2>3. id \in DOMAIN handle.blocks \/ \A j \in DOMAIN handle.blocks : j <= id
    BY <1>3
  <2>4. IsHandle(handle)
    BY HandleType
  <2>5. id \in Nat \ {0}
    BY <1>3
  <2> QED  BY <2>1, <2>2, <2>3, <2>4, <2>5, AssocEffect
<1>5. DOMAIN c = DOMAIN b \cup {id} /\ c[id] = at /\ \A j \in DOMAIN b \ {id} : c[j] = b[j]
  BY <1>1, <1>3, HandleType, AssignedIsWritten
<1>6. id \notin DOMAIN b
  BY <1>3, WrittenFacts
<1>7. IsWrite(disk, disk', at, x, FALSE)
  <2> HIDE DEF x, at
  <2> QED  BY <1>2, <1>3, OpenWrite
<1>8. Extends(disk, disk')
  <2> HIDE DEF x, at
  <2> QED  BY <1>3, <1>7, WriteExtends
<1>9. IsDisk(disk') /\ at \in DOMAIN disk'.file /\ disk'.file[at].data = x
  BY <1>7 DEF IsWrite, Entry
<1>10. IsWrite(disk', e, at, x, TRUE)
  BY <1>9, SealEffect
<1> HIDE DEF id, at, b, c, e, x
<1>11. Extends(disk, e)
  <2>1. ASSUME NEW i \in DOMAIN disk.file, disk.file[i].sealed
        PROVE  i \in DOMAIN e.file /\ e.file[i] = disk.file[i]
    <3>1. i \in DOMAIN disk'.file /\ disk'.file[i] = disk.file[i] /\ i # at
      BY <1>3, <2>1, <1>8 DEF Extends
    <3> QED  BY <1>10, <3>1 DEF IsWrite
  <2> QED  BY <2>1 DEF Extends
<1>12. Data(e, c, id) = x /\ Sound(e, c[id])
  BY <1>5, <1>10 DEF IsWrite, Data, Sound, Entry
<1>13. RefersWell(e, c, Data(e, c, id))
  <2>1. Data(e, c, id).type = "index"
    BY <1>12 DEF x, Index
  <2> QED  BY <2>1 DEF RefersWell
<1>14. Carries(disk, b, e, c) /\ WellFormed(e, c)
  <2>1. WellFormed(disk, b)
    BY DEF b
  <2> QED  BY <1>3, <1>5, <1>6, <1>11, <1>12, <1>13, <2>1, BlockCarries
<1>15. disk'.header /\ disk'.pointer = disk.pointer /\ disk'.header = disk.header
  BY <1>1, <1>7 DEF IsWrite
<1>16. \A j \in DOMAIN handle'.blocks : j <= id
  BY <1>3, <1>4
<1>17. id \in DOMAIN c
  BY <1>5
<1> QED  BY <1>4, <1>8, <1>9, <1>14, <1>15, <1>16, <1>17 DEF id, at, b, c, e, x

(* Its second half. *)
LEMMA SealIndexEffect ==
    ASSUME TypeOK, NEW io, SealIndex(io), io.at \in DOMAIN disk.file
    PROVE  /\ IsDisk(disk') /\ Extends(disk, disk') /\ handle' = handle
           /\ disk'.pointer = disk.pointer /\ disk'.header = disk.header
           /\ io.at \in DOMAIN disk'.file
           /\ disk'.file[io.at].data = disk.file[io.at].data
           /\ Extends(Sealed(disk, io.at), Sealed(disk', io.at))
<1> DEFINE x == disk.file[io.at].data
           at == io.at
<1>1. disk' = Sealed(disk, at) /\ ~disk.file[at].sealed /\ handle' = handle
  BY DEF SealIndex, Sealed
<1>2. IsWrite(disk, disk', at, x, TRUE)
  BY <1>1, SealEffect, DiskType
<1>3. Extends(disk, disk')
  <2> HIDE DEF x, at
  <2> QED  BY <1>1, <1>2, WriteExtends
<1>4. IsDisk(disk') /\ at \in DOMAIN disk'.file /\ disk'.file[at].data = x
  BY <1>2 DEF IsWrite, Entry
<1>5. IsWrite(disk', Sealed(disk', at), at, x, TRUE)
  BY <1>4, SealEffect
<1> HIDE DEF x, at
<1>6. Extends(disk', Sealed(disk', at))
  <2>1. disk'.file[at] = Entry(x, TRUE) /\ Sealed(disk', at).file[at] = Entry(x, TRUE)
    BY <1>2, <1>5 DEF IsWrite
  <2> QED  BY <1>5, <2>1 DEF IsWrite, Extends
<1> QED  BY <1>1, <1>2, <1>3, <1>4, <1>6 DEF x, at, IsWrite

(* The pointer. *)
LEMMA PointerEffect ==
    ASSUME TypeOK, NEW io, WritePointer(io), io.at \in DOMAIN disk.file
    PROVE  /\ IsDisk(disk') /\ Extends(disk, disk') /\ handle' = handle
           /\ disk'.pointer = io.at /\ disk'.header = disk.header
           /\ disk'.file = disk.file
           /\ disk.file[io.at].sealed
           /\ Extends(Sealed(disk, io.at), disk')
<1> DEFINE x == disk.file[io.at].data
           at == io.at
<1>1. disk' = [disk EXCEPT !.pointer = at] /\ disk.file[at].sealed /\ handle' = handle
  BY DEF WritePointer
<1>2. at \in Nat
  BY DiskType, FileFacts
<1>3. /\ disk'.pointer = at /\ disk'.header = disk.header /\ disk'.file = disk.file
      /\ IsDisk(disk')
  <2> HIDE DEF at
  <2> QED  BY <1>1, <1>2, DiskType DEF IsDisk
<1>4. IsWrite(disk, Sealed(disk, at), at, x, TRUE)
  BY SealEffect, DiskType
<1>5. disk.file[at] = Entry(x, TRUE)
  <2>1. disk.file[at] = Entry(x, disk.file[at].sealed) /\ disk.file[at].sealed \in BOOLEAN
    BY DiskType, FileFacts
  <2>2. disk.file[at].sealed = TRUE
    BY <1>1, <2>1
  <2> QED  BY <2>1, <2>2
<1>6. at \in DOMAIN disk.file
  OBVIOUS
<1> HIDE DEF x, at
<1>7. Extends(Sealed(disk, at), disk')
  <2> DEFINE s == Sealed(disk, at)
  <2> HIDE DEF s
  <2>1. IsWrite(disk, s, at, x, TRUE)
    BY <1>4 DEF s
  <2>2. ASSUME NEW i \in DOMAIN s.file
        PROVE  i \in DOMAIN disk'.file /\ disk'.file[i] = s.file[i]
    <3>1. i \in DOMAIN disk.file
      BY <1>6, <2>1, <2>2 DEF IsWrite
    <3>2. disk.file[i] = s.file[i]
      BY <1>5, <2>1, <3>1 DEF IsWrite
    <3> QED  BY <1>3, <3>1, <3>2
  <2>3. Extends(s, disk')
    BY <2>2 DEF Extends
  <2> QED  BY <2>3 DEF s
<1>8. Extends(disk, disk')
  BY <1>3 DEF Extends
<1> QED  BY <1>1, <1>3, <1>7, <1>8 DEF at

(* The index on disk is the handle's, whoever wrote it. *)
LEMMA PointedIndexIsSound ==
    ASSUME TypeOK, StoreInv, NEW io, WritePointer(io), io = IndexIo, IndexIo # NoIo, InUse,
           handle.root # 0, main'.pc # "history", main.pc # "history", main.pc # "prep",
           main'.history = main.history
    PROVE  /\ DiskIsSound' /\ WellFormed(disk', Written(handle))
           /\ Carries(DiskWithIndex, Written(handle), disk', Written(handle))
<1> DEFINE b == Written(handle)
           at == io.at
           s == Sealed(disk, at)
<1>1. /\ disk.header /\ at \in DOMAIN disk.file
      /\ disk.file[at].data = Index(handle.root, b)
      /\ io.id \in DOMAIN b /\ \A id \in DOMAIN handle.blocks : id <= io.id
  BY DEF StoreInv, OpenIndex
<1>2. DiskWithIndex = s
  BY DEF DiskWithIndex
<1>3. /\ WellFormed(s, b) /\ TestBlock(s, b, handle.root) /\ HistoryBlock(s, b, main.history)
  BY <1>2 DEF StoreInv, HandleIsSound
<1>4. /\ IsDisk(disk') /\ Extends(s, disk') /\ disk'.pointer = at /\ disk'.header = disk.header
      /\ disk'.file = disk.file /\ disk.file[at].sealed
  BY <1>1, PointerEffect
<1> HIDE DEF b, s, at
<1>5. WellFormed(disk', b) /\ Carries(s, b, disk', b)
  BY <1>3, <1>4, GrowthCarries
<1>6. TestBlock(disk', b, handle.root) /\ HistoryBlock(disk', b, main.history)
  BY <1>3, <1>5 DEF Carries
<1>7. IndexOf(disk') = Index(handle.root, b)
  BY <1>1, <1>4 DEF IndexOf
<1>8. IndexOf(disk').blocks = b /\ IndexOf(disk').root = handle.root
      /\ IndexOf(disk').type = "index"
  BY <1>7 DEF Index
<1>9. at # 0
  BY <1>1, DiskType, FileFacts
<1>10. HasIndex(disk')
  BY <1>1, <1>4, <1>8, <1>9 DEF HasIndex, Sound, IndexOf
<1>11. HasGreatest(DOMAIN b)
  <2>1. DOMAIN b \subseteq DOMAIN handle.blocks
    BY WrittenFacts DEF b
  <2> QED  BY <1>1, <2>1 DEF HasGreatest
<1>12. b \in [DOMAIN b -> Nat]
  BY HandleType DEF b, Written, IsHandle
<1>13. DiskIsSound'
  BY <1>4, <1>5, <1>6, <1>8, <1>10, <1>11, <1>12 DEF DiskIsSound
<1> QED  BY <1>2, <1>5, <1>13 DEF b

(* prep-write! writes the file's header, before the first index. *)
LEMMA MainPrepWriteStep ==
    ASSUME TypeOK, StoreInv, main.pc = "index", PrepWrite(main.io),
           UNCHANGED <<main, writer, queue, ops, analyses>>
    PROVE  TypeOK' /\ StoreInv' /\ Extends(disk, disk')
<1>1. writer.pc \notin Working /\ writer.pc # "dead" /\ InUse /\ main.io = NoIo
      /\ writer.pc \notin {"open", "take", "seal", "vector", "index"}
  BY MainWrites DEF StoreInv, Working, PrepWrite
<1> DEFINE yes == TRUE
<1>2. yes \in BOOLEAN
  OBVIOUS
<1>3. disk' = [disk EXCEPT !.header = yes] /\ handle' = [handle EXCEPT !.written = yes]
      /\ main' = main /\ writer' = writer /\ queue' = queue /\ ops' = ops
      /\ analyses' = analyses
  BY DEF PrepWrite
<1>4. disk'.header = yes
  BY <1>3 DEF TypeOK
<1>5. disk'.header
  BY <1>4
<1> HIDE DEF yes
<1>6. /\ IsDisk(disk') /\ disk'.pointer = disk.pointer /\ disk'.file = disk.file
  BY <1>2, <1>3, DiskType DEF IsDisk
<1>7. /\ IsHandle(handle') /\ handle'.root = handle.root /\ handle'.blocks = handle.blocks
      /\ handle'.read = handle.read
  BY <1>2, <1>3, HandleType DEF IsHandle
<1>8. TypeOK'
  BY <1>3, <1>6, <1>7, PlainTypes, TypeFromParts
<1>9. Extends(disk, disk')
  BY <1>6 DEF Extends
<1>10. IndexIo = NoIo /\ IndexIo' = NoIo
  BY <1>1, <1>3 DEF IndexIo
<1>11. DiskWithIndex = disk /\ DiskWithIndex' = disk'
  BY <1>10 DEF DiskWithIndex
<1>12. Written(handle') = Written(handle)
  BY <1>7 DEF Written
<1>13. HandleIsSound'
  <2>1. WellFormed(disk, Written(handle))
    BY <1>1, <1>11 DEF StoreInv, HandleIsSound
  <2>2. WellFormed(disk', Written(handle)) /\ Carries(disk, Written(handle), disk', Written(handle))
    BY <1>9, <2>1, GrowthCarries
  <2> QED  BY <1>1, <1>3, <1>7, <1>11, <1>12, <2>2, HandleKept DEF StoreInv
<1>14. TakingTurns'
  BY <1>3 DEF StoreInv, TakingTurns
<1>15. OpenBlocks'
  BY <1>1, <1>3 DEF OpenBlocks
<1>16. OpenIndex'
  BY <1>5, <1>10 DEF OpenIndex
<1>17. DiskIsSound'
  BY <1>3, <1>5, <1>6, <1>9, DiskKept DEF StoreInv
<1>18. ReadBack'
  BY <1>3, <1>7 DEF StoreInv, ReadBack
<1> QED  BY <1>8, <1>9, <1>13, <1>14, <1>15, <1>16, <1>17, <1>18 DEF StoreInv

LEMMA MainBeginIndexStep ==
    ASSUME TypeOK, StoreInv, main.pc = "index", BeginIndex(main.io),
           main' = [main EXCEPT !.io = NewBlock],
           UNCHANGED <<writer, queue, ops, analyses>>
    PROVE  TypeOK' /\ StoreInv' /\ Extends(disk, disk')
<1> DEFINE e == Sealed(disk', NewBlock.at)
           c == Written(handle')
<1>1. writer.pc \notin Working /\ writer.pc # "dead" /\ InUse /\ main.io = NoIo
      /\ writer.pc \notin {"open", "take", "seal", "vector", "index"}
  BY MainWrites DEF StoreInv, Working, BeginIndex
<1>2. IndexIo = NoIo /\ DiskWithIndex = disk
  BY <1>1 DEF IndexIo, DiskWithIndex
<1>3. WellFormed(disk, Written(handle)) /\ (handle.written => disk.header)
  BY <1>1, <1>2 DEF StoreInv, HandleIsSound, OpenIndex
<1>4. /\ IsDisk(disk') /\ IsHandle(handle') /\ Extends(disk, disk')
      /\ disk'.pointer = disk.pointer /\ disk'.header = disk.header
      /\ disk'.header
      /\ handle'.root = handle.root /\ handle'.read = handle.read
      /\ WellFormed(e, c)
      /\ Carries(disk, Written(handle), e, c)
      /\ NewBlock.at \in DOMAIN disk'.file
      /\ disk'.file[NewBlock.at].data = Index(handle'.root, c)
      /\ NewBlock.id \in DOMAIN c
      /\ \A id \in DOMAIN handle'.blocks : id <= NewBlock.id
  BY <1>3, BeginIndexEffect
<1>5. /\ main' \in MainStates /\ main'.io = NewBlock /\ main'.pc = main.pc
      /\ main'.stage = main.stage /\ main'.history = main.history
      /\ main'.results = main.results
  BY NewBlockFacts, PlainTypes DEF MainStates
<1>6. TypeOK'
  BY <1>4, <1>5, PlainTypes, TypeFromParts
<1>7. IndexIo' = NewBlock /\ NewBlock # NoIo
  BY <1>1, <1>5, NewBlockFacts DEF IndexIo
<1>8. DiskWithIndex' = e
  BY <1>7 DEF DiskWithIndex
<1>9. HandleIsSound'
  BY <1>1, <1>2, <1>4, <1>5, <1>8, HandleKept DEF StoreInv
<1>10. TakingTurns'
  BY <1>5 DEF StoreInv, TakingTurns
<1>11. OpenBlocks'
  BY <1>1, <1>5 DEF OpenBlocks, MainBlocks
<1>12. OpenIndex'
  BY <1>4, <1>7 DEF OpenIndex
<1>13. DiskIsSound'
  BY <1>4, <1>5, DiskKept DEF StoreInv
<1>14. ReadBack'
  BY <1>4, <1>5 DEF StoreInv, ReadBack
<1> QED  BY <1>4, <1>6, <1>9, <1>10, <1>11, <1>12, <1>13, <1>14 DEF StoreInv

LEMMA MainSealIndexStep ==
    ASSUME TypeOK, StoreInv, main.pc = "index", SealIndex(main.io),
           UNCHANGED <<main, writer, queue, ops, analyses>>
    PROVE  TypeOK' /\ StoreInv' /\ Extends(disk, disk')
<1> DEFINE at == main.io.at
<1>1. writer.pc \notin Working /\ writer.pc # "dead" /\ InUse /\ main.io # NoIo
      /\ writer.pc \notin {"open", "take", "seal", "vector", "index"}
  BY MainWrites DEF StoreInv, Working, SealIndex
<1>2. /\ IndexIo = main.io /\ DiskWithIndex = Sealed(disk, at)
      /\ IndexIo' = main.io /\ DiskWithIndex' = Sealed(disk', at)
  BY <1>1 DEF IndexIo, DiskWithIndex
<1>3. /\ disk.header /\ at \in DOMAIN disk.file
      /\ disk.file[at].data = Index(handle.root, Written(handle))
      /\ main.io.id \in DOMAIN Written(handle)
      /\ \A id \in DOMAIN handle.blocks : id <= main.io.id
  BY <1>1, <1>2 DEF StoreInv, OpenIndex
<1>4. /\ IsDisk(disk') /\ Extends(disk, disk') /\ handle' = handle
      /\ disk'.pointer = disk.pointer /\ disk'.header = disk.header
      /\ at \in DOMAIN disk'.file
      /\ disk'.file[at].data = disk.file[at].data
      /\ Extends(Sealed(disk, at), Sealed(disk', at))
  BY <1>3, SealIndexEffect
<1>5. TypeOK'
  BY <1>4, HandleType, PlainTypes, TypeFromParts
<1>6. HandleIsSound'
  <2>1. WellFormed(DiskWithIndex, Written(handle))
    BY <1>1 DEF StoreInv, HandleIsSound
  <2>2. /\ WellFormed(DiskWithIndex', Written(handle))
        /\ Carries(DiskWithIndex, Written(handle), DiskWithIndex', Written(handle))
    BY <1>2, <1>4, <2>1, GrowthCarries
  <2> QED  BY <1>1, <1>4, <2>2, HandleKept DEF StoreInv
<1>7. TakingTurns'
  BY DEF StoreInv, TakingTurns
<1>8. OpenBlocks'
  BY <1>1 DEF OpenBlocks, MainBlocks
<1>9. OpenIndex'
  BY <1>2, <1>3, <1>4 DEF OpenIndex
<1>10. DiskIsSound'
  BY <1>4, DiskKept DEF StoreInv
<1>11. ReadBack'
  BY <1>4 DEF StoreInv, ReadBack
<1> QED  BY <1>4, <1>5, <1>6, <1>7, <1>8, <1>9, <1>10, <1>11 DEF StoreInv

LEMMA MainPointerStep ==
    ASSUME TypeOK, StoreInv, main.pc = "index", WritePointer(main.io),
           main' = [main EXCEPT !.io = NoIo, !.pc = AfterSave[main.stage + 1],
                                !.stage = IF @ = 1 THEN 2 ELSE @],
           UNCHANGED <<writer, queue, ops, analyses>>
    PROVE  TypeOK' /\ StoreInv' /\ Extends(disk, disk')
<1> DEFINE at == main.io.at
           b  == Written(handle)
<1>1. writer.pc \notin Working /\ writer.pc # "dead" /\ InUse /\ main.io # NoIo
      /\ writer.pc \notin {"open", "take", "seal", "vector", "index"}
  BY MainWrites DEF StoreInv, Working, WritePointer
<1>2. IndexIo = main.io /\ DiskWithIndex = Sealed(disk, at)
  BY <1>1 DEF IndexIo, DiskWithIndex
<1>3. disk.header /\ at \in DOMAIN disk.file
  BY <1>1, <1>2 DEF StoreInv, OpenIndex
<1>4. /\ IsDisk(disk') /\ Extends(disk, disk') /\ handle' = handle
      /\ disk'.header = disk.header
  BY <1>3, PointerEffect
<1>5. main.stage \in {0, 1, 2} /\ main.stage \in Int
  BY PlainTypes DEF MainStates
<1>6. /\ main.stage = 0 => AfterSave[main.stage + 1] = "start"
      /\ main.stage = 1 => AfterSave[main.stage + 1] = "prep"
      /\ main.stage = 2 => AfterSave[main.stage + 1] = "close file"
  <2>1. AfterSave[1] = "start" /\ AfterSave[2] = "prep" /\ AfterSave[3] = "close file"
    BY DEF AfterSave
  <2>2. /\ main.stage = 0 => main.stage + 1 = 1
        /\ main.stage = 1 => main.stage + 1 = 2
        /\ main.stage = 2 => main.stage + 1 = 3
    BY <1>5
  <2> QED  BY <2>1, <2>2, Zenon
<1>7. AfterSave[main.stage + 1] \in {"start", "prep", "close file"}
  BY <1>5, <1>6
<1>8. /\ main' \in MainStates
      /\ main'.io = NoIo /\ main'.pc = AfterSave[main.stage + 1]
      /\ main'.stage = (IF main.stage = 1 THEN 2 ELSE main.stage)
      /\ main'.history = main.history /\ main'.results = main.results
  <2> DEFINE pc    == AfterSave[main.stage + 1]
             stage == IF main.stage = 1 THEN 2 ELSE main.stage
  <2>1. pc \in MainSteps /\ stage \in 0 .. 2 /\ NoIo \in Ios
    <3>1. pc \in MainSteps
      BY <1>7 DEF MainSteps
    <3>2. stage \in 0 .. 2
      BY <1>5
    <3> QED  BY <3>1, <3>2 DEF NoIo, Ios
  <2>2. main' = [main EXCEPT !.io = NoIo, !.pc = pc, !.stage = stage]
    BY DEF MainStates
  <2> HIDE DEF pc, stage
  <2>3. /\ main' \in MainStates /\ main'.io = NoIo /\ main'.pc = pc /\ main'.stage = stage
        /\ main'.history = main.history /\ main'.results = main.results
    BY <2>1, <2>2, PlainTypes DEF MainStates
  <2> QED  BY <2>3 DEF pc, stage
<1>9. TypeOK'
  BY <1>4, <1>8, HandleType, PlainTypes, TypeFromParts
<1>10. main'.pc \in {"start", "prep", "close file"}
  BY <1>7, <1>8
<1>11. IndexIo' = NoIo /\ DiskWithIndex' = disk'
  BY <1>1, <1>10 DEF IndexIo, DiskWithIndex
<1>12. /\ handle.root # 0
       /\ main.results # 0 => main.stage = 2
       /\ TestBlock(DiskWithIndex, b, handle.root)
       /\ HistoryBlock(DiskWithIndex, b, main.history)
  BY <1>1 DEF StoreInv, HandleIsSound
<1>13. /\ DiskIsSound' /\ WellFormed(disk', b)
       /\ Carries(DiskWithIndex, b, disk', b)
  <2>1. main'.pc # "history"
    BY <1>10
  <2> QED  BY <1>1, <1>2, <1>8, <1>12, <2>1, PointedIndexIsSound
<1>14. /\ main'.pc = "start" => main.stage = 0
       /\ main'.pc = "prep"  => main.stage = 1
  BY <1>5, <1>6, <1>8
<1>15. HandleIsSound'
  <2> SUFFICES ASSUME InUse' PROVE HandleIsSound'
    BY DEF HandleIsSound
  <2>1. main'.pc \in {"start", "prep"}
    BY <1>10 DEF InUse
  <2>2. main'.results = 0
    BY <1>5, <1>8, <1>12, <1>14, <2>1
  <2>3. main'.pc = "prep" => handle'.read
    BY <1>4, <1>14 DEF StoreInv, ReadBack
  <2>4. TestBlock(disk', b, handle'.root) /\ HistoryBlock(disk', b, main'.history)
    BY <1>4, <1>8, <1>12, <1>13 DEF Carries
  <2>5. writer'.pc \notin Working
    BY <1>1
  <2> QED  BY <1>4, <1>11, <1>12, <1>13, <2>1, <2>2, <2>3, <2>4, <2>5 DEF HandleIsSound
<1>16. TakingTurns'
  <2>1. main.stage = 0 => writer = NoWriter
    BY DEF StoreInv, TakingTurns
  <2>2. /\ main'.pc = "start" => main'.stage = 0 /\ writer' = NoWriter
        /\ main'.pc = "prep" => main'.stage = 2
    BY <1>8, <1>14, <2>1
  <2> QED  BY <1>1, <1>10, <2>2 DEF TakingTurns
<1>17. OpenBlocks'
  BY <1>1, <1>8 DEF OpenBlocks
<1>18. OpenIndex'
  BY <1>3, <1>4, <1>11 DEF OpenIndex
<1>19. ReadBack'
  BY <1>10 DEF ReadBack
<1> QED  BY <1>4, <1>9, <1>13, <1>15, <1>16, <1>17, <1>18, <1>19 DEF StoreInv

LEMMA MainIndexStep ==
    ASSUME TypeOK, StoreInv, MainIndex
    PROVE  TypeOK' /\ StoreInv' /\ Extends(disk, disk')
<1>1. main.pc = "index" /\ UNCHANGED <<writer, queue, ops, analyses>>
  BY DEF MainIndex
<1>2. CASE PrepWrite(main.io) /\ UNCHANGED main
  BY <1>1, <1>2, MainPrepWriteStep
<1>3. CASE BeginIndex(main.io) /\ main' = [main EXCEPT !.io = NewBlock]
  BY <1>1, <1>3, MainBeginIndexStep
<1>4. CASE SealIndex(main.io) /\ UNCHANGED main
  BY <1>1, <1>4, MainSealIndexStep
<1>5. CASE /\ WritePointer(main.io)
           /\ main' = [main EXCEPT !.io = NoIo, !.pc = AfterSave[main.stage + 1],
                                   !.stage = IF @ = 1 THEN 2 ELSE @]
  BY <1>1, <1>5, MainPointerStep
<1> QED  BY <1>2, <1>3, <1>4, <1>5 DEF MainIndex

(* The history writer's turn. *)

(* What a step of the writer leaves alone, while it goes on. *)
LEMMA WriterKeeps ==
    ASSUME TypeOK, StoreInv, writer.pc \in Working, main' = main, handle'.read = handle.read,
           writer'.pc \in Working \cup {"exit", "dead"}
    PROVE  TakingTurns' /\ ReadBack'
<1>1. main.pc \in {"run", "close", "join", "close again", "join again"} /\ main.stage = 0
  BY DEF StoreInv, TakingTurns
<1>2. TakingTurns'
  BY <1>1 DEF TakingTurns
<1>3. ReadBack'
  BY <1>1 DEF StoreInv, ReadBack
<1> QED  BY <1>2, <1>3

LEMMA WriterBeginIndexStep ==
    ASSUME TypeOK, StoreInv, writer.pc = "index", BeginIndex(writer.io),
           writer' = [writer EXCEPT !.io = NewBlock],
           UNCHANGED <<main, queue, ops, analyses>>
    PROVE  TypeOK' /\ StoreInv' /\ Extends(disk, disk')
<1> DEFINE e == Sealed(disk', NewBlock.at)
           c == Written(handle')
<1>1. writer.pc \in Working /\ writer.io = NoIo
  BY DEF Working, BeginIndex
<1>2. main.pc \in {"run", "close", "join", "close again", "join again"} /\ main.io = NoIo /\ InUse
  BY <1>1, WriterWrites
<1>3. IndexIo = NoIo /\ DiskWithIndex = disk
  BY <1>1, <1>2 DEF IndexIo, DiskWithIndex
<1>4. WellFormed(disk, Written(handle)) /\ (handle.written => disk.header)
  BY <1>2, <1>3 DEF StoreInv, HandleIsSound, OpenIndex
<1>5. /\ IsDisk(disk') /\ IsHandle(handle') /\ Extends(disk, disk')
      /\ disk'.pointer = disk.pointer /\ disk'.header = disk.header
      /\ disk'.header
      /\ handle'.root = handle.root /\ handle'.read = handle.read
      /\ WellFormed(e, c)
      /\ Carries(disk, Written(handle), e, c)
      /\ NewBlock.at \in DOMAIN disk'.file
      /\ disk'.file[NewBlock.at].data = Index(handle'.root, c)
      /\ NewBlock.id \in DOMAIN c
      /\ \A id \in DOMAIN handle'.blocks : id <= NewBlock.id
  BY <1>4, BeginIndexEffect
<1>6. /\ writer' \in WriterStates /\ writer'.io = NewBlock /\ writer'.pc = writer.pc
      /\ writer'.chunks = writer.chunks
  BY NewBlockFacts, PlainTypes DEF WriterStates
<1>7. TypeOK'
  BY <1>5, <1>6, PlainTypes, TypeFromParts
<1>8. IndexIo' = NewBlock /\ NewBlock # NoIo
  BY <1>2, <1>6, NewBlockFacts DEF IndexIo
<1>9. DiskWithIndex' = e
  BY <1>8 DEF DiskWithIndex
<1>10. HandleIsSound'
  BY <1>1, <1>2, <1>3, <1>5, <1>6, <1>9, HandleKept DEF StoreInv
<1>11. TakingTurns' /\ ReadBack'
  BY <1>1, <1>5, <1>6, WriterKeeps
<1>12. OpenBlocks'
  BY <1>2, <1>6 DEF OpenBlocks
<1>13. OpenIndex'
  BY <1>5, <1>8 DEF OpenIndex
<1>14. DiskIsSound'
  BY <1>2, <1>5, DiskKept DEF StoreInv
<1> QED  BY <1>5, <1>7, <1>10, <1>11, <1>12, <1>13, <1>14 DEF StoreInv

LEMMA WriterSealIndexStep ==
    ASSUME TypeOK, StoreInv, writer.pc = "index", SealIndex(writer.io),
           UNCHANGED <<main, writer, queue, ops, analyses>>
    PROVE  TypeOK' /\ StoreInv' /\ Extends(disk, disk')
<1> DEFINE at == writer.io.at
<1>1. writer.pc \in Working /\ writer.io # NoIo
  BY DEF Working, SealIndex
<1>2. main.pc \in {"run", "close", "join", "close again", "join again"} /\ main.io = NoIo /\ InUse
  BY <1>1, WriterWrites
<1>3. /\ IndexIo = writer.io /\ DiskWithIndex = Sealed(disk, at)
      /\ IndexIo' = writer.io /\ DiskWithIndex' = Sealed(disk', at)
  BY <1>1, <1>2 DEF IndexIo, DiskWithIndex
<1>4. /\ disk.header /\ at \in DOMAIN disk.file
      /\ disk.file[at].data = Index(handle.root, Written(handle))
      /\ writer.io.id \in DOMAIN Written(handle)
      /\ \A id \in DOMAIN handle.blocks : id <= writer.io.id
  BY <1>1, <1>3 DEF StoreInv, OpenIndex
<1>5. /\ IsDisk(disk') /\ Extends(disk, disk') /\ handle' = handle
      /\ disk'.pointer = disk.pointer /\ disk'.header = disk.header
      /\ at \in DOMAIN disk'.file
      /\ disk'.file[at].data = disk.file[at].data
      /\ Extends(Sealed(disk, at), Sealed(disk', at))
  BY <1>4, SealIndexEffect
<1>6. TypeOK'
  BY <1>5, HandleType, PlainTypes, TypeFromParts
<1>7. HandleIsSound'
  <2>1. WellFormed(DiskWithIndex, Written(handle))
    BY <1>2 DEF StoreInv, HandleIsSound
  <2>2. /\ WellFormed(DiskWithIndex', Written(handle))
        /\ Carries(DiskWithIndex, Written(handle), DiskWithIndex', Written(handle))
    BY <1>3, <1>5, <2>1, GrowthCarries
  <2> QED  BY <1>1, <1>2, <1>5, <2>2, HandleKept DEF StoreInv
<1>8. TakingTurns' /\ ReadBack'
  BY <1>1, <1>5, WriterKeeps
<1>9. OpenBlocks'
  BY <1>2 DEF OpenBlocks
<1>10. OpenIndex'
  BY <1>3, <1>4, <1>5 DEF OpenIndex
<1>11. DiskIsSound'
  BY <1>2, <1>5, DiskKept DEF StoreInv
<1> QED  BY <1>5, <1>6, <1>7, <1>8, <1>9, <1>10, <1>11 DEF StoreInv

LEMMA WriterPointerStep ==
    ASSUME TypeOK, StoreInv, writer.pc = "index", WritePointer(writer.io),
           writer' = [writer EXCEPT !.io = NoIo,
                                    !.pc = IF writer.last THEN "exit" ELSE "open"],
           UNCHANGED <<main, queue, ops, analyses>>
    PROVE  TypeOK' /\ StoreInv' /\ Extends(disk, disk')
<1> DEFINE at == writer.io.at
           b  == Written(handle)
<1>1. writer.pc \in Working /\ writer.io # NoIo
  BY DEF Working, WritePointer
<1>2. main.pc \in {"run", "close", "join", "close again", "join again"} /\ main.io = NoIo /\ InUse
  BY <1>1, WriterWrites
<1>3. IndexIo = writer.io /\ DiskWithIndex = Sealed(disk, at)
  BY <1>1, <1>2 DEF IndexIo, DiskWithIndex
<1>4. disk.header /\ at \in DOMAIN disk.file
  BY <1>1, <1>3 DEF StoreInv, OpenIndex
<1>5. /\ IsDisk(disk') /\ Extends(disk, disk') /\ handle' = handle
      /\ disk'.header = disk.header
  BY <1>4, PointerEffect
<1>6. /\ writer' \in WriterStates /\ writer'.io = NoIo /\ writer'.pc \in {"exit", "open"}
      /\ writer'.chunks = writer.chunks
  <2> DEFINE pc == IF writer.last THEN "exit" ELSE "open"
  <2>1. pc \in {"exit", "open"} /\ NoIo \in Ios
    BY DEF NoIo, Ios
  <2>2. writer' = [writer EXCEPT !.io = NoIo, !.pc = pc]
    OBVIOUS
  <2> HIDE DEF pc
  <2> QED  BY <2>1, <2>2, PlainTypes DEF WriterStates, Working
<1>7. TypeOK'
  BY <1>5, <1>6, HandleType, PlainTypes, TypeFromParts
<1>8. IndexIo' = NoIo /\ DiskWithIndex' = disk'
  BY <1>2, <1>6 DEF IndexIo, DiskWithIndex
<1>9. handle.root # 0
  BY <1>2 DEF StoreInv, HandleIsSound
<1>10. /\ DiskIsSound' /\ WellFormed(disk', b)
       /\ Carries(DiskWithIndex, b, disk', b)
  <2>1. main.pc # "history" /\ main.pc # "prep"
    BY <1>2
  <2> QED  BY <1>1, <1>2, <1>3, <1>9, <2>1, PointedIndexIsSound
<1>11. HandleIsSound'
  BY <1>1, <1>2, <1>5, <1>6, <1>8, <1>10, HandleKept DEF StoreInv
<1>12. TakingTurns' /\ ReadBack'
  BY <1>1, <1>5, <1>6, WriterKeeps DEF Working
<1>13. OpenBlocks'
  BY <1>2, <1>6 DEF OpenBlocks
<1>14. OpenIndex'
  BY <1>4, <1>5, <1>8 DEF OpenIndex
<1> QED  BY <1>5, <1>7, <1>10, <1>11, <1>12, <1>13, <1>14 DEF StoreInv

LEMMA WriterIndexStep ==
    ASSUME TypeOK, StoreInv, WriterIndex
    PROVE  TypeOK' /\ StoreInv' /\ Extends(disk, disk')
<1>1. writer.pc = "index" /\ UNCHANGED <<main, queue, ops, analyses>>
  BY DEF WriterIndex
<1>2. CASE BeginIndex(writer.io) /\ writer' = [writer EXCEPT !.io = NewBlock]
  BY <1>1, <1>2, WriterBeginIndexStep
<1>3. CASE SealIndex(writer.io) /\ UNCHANGED writer
  BY <1>1, <1>3, WriterSealIndexStep
<1>4. CASE /\ WritePointer(writer.io)
           /\ writer' = [writer EXCEPT !.io = NoIo,
                                       !.pc = IF writer.last THEN "exit" ELSE "open"]
  BY <1>1, <1>4, WriterPointerStep
<1> QED  BY <1>2, <1>3, <1>4 DEF WriterIndex

-----------------------------------------------------------------------------
(* The history writer's blocks. *)

(* A step that writes nothing. *)
LEMMA NothingWritten ==
    ASSUME StoreInv, InUse, disk' = disk, handle' = handle, main.pc # "prep",
           main'.pc = main.pc, main'.stage = main.stage, main'.history = main.history,
           main'.results = main.results, IndexIo' = IndexIo,
           writer'.pc \in Working => writer.pc \in Working /\ writer'.chunks = writer.chunks
    PROVE  OpenIndex' /\ HandleIsSound' /\ DiskIsSound' /\ Extends(disk, disk')
<1>1. Extends(disk, disk')
  BY DEF Extends
<1>2. DiskWithIndex' = DiskWithIndex
  BY DEF DiskWithIndex
<1>3. OpenIndex'
  BY DEF StoreInv, OpenIndex
<1>4. HandleIsSound'
  <2>1. WellFormed(DiskWithIndex, Written(handle))
    BY DEF StoreInv, HandleIsSound
  <2>2. Carries(DiskWithIndex, Written(handle), DiskWithIndex, Written(handle))
    BY DEF Carries
  <2> QED  BY <1>2, <2>1, <2>2, HandleKept DEF StoreInv
<1>5. DiskIsSound'
  BY <1>1, DiskKept DEF StoreInv
<1> QED  BY <1>1, <1>3, <1>4, <1>5

LEMMA OpenStreamStep ==
    ASSUME TypeOK, StoreInv, OpenStream
    PROVE  TypeOK' /\ StoreInv' /\ Extends(disk, disk')
<1>1. writer.pc \in Working /\ writer.pc = "open" /\ writer.io = NoIo
  BY DEF Working, OpenStream, StoreInv, OpenBlocks
<1>2. main.pc \in {"run", "close", "join", "close again", "join again"} /\ main.io = NoIo /\ InUse
  BY <1>1, WriterWrites
<1>3. /\ handle' = AssocBlock(handle, NewBlock.id, Reserved)
      /\ disk' = disk /\ main' = main /\ queue' = queue /\ ops' = ops /\ analyses' = analyses
  BY DEF OpenStream
<1>4. /\ IsHandle(handle') /\ handle'.root = handle.root /\ handle'.written = handle.written
      /\ handle'.read = handle.read
      /\ DOMAIN handle'.blocks = DOMAIN handle.blocks \cup {NewBlock.id}
      /\ handle'.blocks[NewBlock.id] = Reserved
  BY <1>3, NewBlockFacts, HandleType, AssocEffect DEF Reserved
<1>5. Written(handle') = Written(handle)
  BY <1>3, NewBlockFacts, HandleType, ReservedIsNotWritten
<1>6. /\ writer' \in WriterStates /\ writer'.pc = "take" /\ writer'.chunk = NewBlock
      /\ writer'.io = NoIo /\ writer'.chunks = writer.chunks
  <2> DEFINE s == IF writer.element = NoOp THEN <<>> ELSE <<writer.element>>
  <2>1. s \in Seq(Nat)
    BY PlainTypes DEF WriterStates
  <2>2. NoOp \in Nat /\ NewBlock \in Ios
    BY NewBlockFacts DEF NoOp
  <2>3. writer' = [writer EXCEPT !.pc = "take", !.chunk = NewBlock, !.element = NoOp, !.ops = s]
    BY DEF OpenStream
  <2> HIDE DEF s
  <2> QED  BY <1>1, <2>1, <2>2, <2>3, PlainTypes DEF WriterStates, Working
<1>7. TypeOK'
  BY <1>3, <1>4, <1>6, DiskType, PlainTypes, TypeFromParts
<1>8. IndexIo = NoIo /\ IndexIo' = NoIo /\ DiskWithIndex = disk /\ DiskWithIndex' = disk'
  BY <1>1, <1>2, <1>3, <1>6 DEF IndexIo, DiskWithIndex
<1>9. Extends(disk, disk')
  BY <1>3 DEF Extends
<1>10. HandleIsSound'
  <2>1. WellFormed(disk, Written(handle))
    BY <1>2, <1>8 DEF StoreInv, HandleIsSound
  <2>2. Carries(disk, Written(handle), disk, Written(handle))
    BY DEF Carries
  <2> QED  BY <1>1, <1>2, <1>3, <1>4, <1>5, <1>6, <1>8, <2>1, <2>2, HandleKept DEF StoreInv
<1>11. TakingTurns' /\ ReadBack'
  BY <1>1, <1>3, <1>4, <1>6, WriterKeeps DEF Working
<1>12. OpenBlocks'
  <2>1. NewBlock.id \in DOMAIN handle'.blocks
    BY <1>4
  <2>2. NewBlock.at = NextBlockOffset'
    BY <1>3, NewBlockFacts DEF NextBlockOffset
  <2> QED  BY <1>2, <1>3, <1>4, <1>6, <2>1, <2>2 DEF OpenBlocks
<1>13. OpenIndex'
  BY <1>3, <1>4, <1>8 DEF StoreInv, OpenIndex
<1>14. DiskIsSound'
  BY <1>3, <1>9, DiskKept DEF StoreInv
<1> QED  BY <1>7, <1>9, <1>10, <1>11, <1>12, <1>13, <1>14 DEF StoreInv

LEMMA TakeStep ==
    ASSUME TypeOK, StoreInv, Take
    PROVE  TypeOK' /\ StoreInv' /\ Extends(disk, disk')
<1>1. writer.pc \in Working /\ writer.pc = "take" /\ writer.io = NoIo
  BY DEF Working, Take, StoreInv, OpenBlocks
<1>2. main.pc \in {"run", "close", "join", "close again", "join again"} /\ main.io = NoIo /\ InUse
  BY <1>1, WriterWrites
<1>3. /\ disk' = disk /\ handle' = handle /\ main' = main /\ ops' = ops /\ analyses' = analyses
      /\ queue # <<>> /\ queue' = Tail(queue)
  BY DEF Take
<1>4. queue' \in Seq(Nat) /\ Head(queue) \in Nat
  BY <1>3, PlainTypes
<1>5. /\ writer' \in WriterStates /\ writer'.pc \in {"take", "seal"}
      /\ writer'.io = writer.io /\ writer'.chunks = writer.chunks
      /\ writer'.chunk = writer.chunk
  <2>1. writer \in WriterStates
    BY PlainTypes
  <2>2. CASE Head(queue) = Finished
    <3> DEFINE yes == TRUE
    <3>1. yes \in BOOLEAN /\ writer' = [writer EXCEPT !.pc = "seal", !.last = yes]
      BY <2>2 DEF Take
    <3> HIDE DEF yes
    <3> QED  BY <2>1, <3>1 DEF WriterStates, Working
  <2>3. CASE Head(queue) # Finished /\ RoomInChunk
    <3>1. writer' = [writer EXCEPT !.ops = Append(writer.ops, Head(queue))]
      BY <2>3 DEF Take
    <3>2. Append(writer.ops, Head(queue)) \in Seq(Nat)
      BY <1>4, <2>1 DEF WriterStates
    <3> QED  BY <1>1, <2>1, <3>1, <3>2 DEF WriterStates, Working
  <2>4. CASE Head(queue) # Finished /\ ~RoomInChunk
    <3>1. writer' = [writer EXCEPT !.pc = "seal", !.element = Head(queue)]
      BY <2>4 DEF Take
    <3> QED  BY <1>4, <2>1, <3>1 DEF WriterStates, Working
  <2> QED  BY <2>2, <2>3, <2>4
<1>6. TypeOK'
  BY <1>3, <1>4, <1>5, DiskType, HandleType, PlainTypes, TypeFromParts
<1>7. IndexIo = NoIo /\ IndexIo' = NoIo
  BY <1>1, <1>2, <1>3, <1>5 DEF IndexIo
<1>8. OpenIndex' /\ HandleIsSound' /\ DiskIsSound' /\ Extends(disk, disk')
  BY <1>1, <1>2, <1>3, <1>5, <1>7, NothingWritten
<1>9. TakingTurns' /\ ReadBack'
  BY <1>1, <1>3, <1>5, WriterKeeps DEF Working
<1>10. OpenBlocks'
  <2>1. /\ \/ writer.chunk.at = NextBlockOffset
           \/ writer.chunk.at \in DOMAIN disk.file /\ ~disk.file[writer.chunk.at].sealed
        /\ writer.chunk.id \in DOMAIN handle.blocks
        /\ handle.blocks[writer.chunk.id] = Reserved
    BY <1>1 DEF StoreInv, OpenBlocks
  <2>2. NextBlockOffset' = NextBlockOffset
    BY <1>3 DEF NextBlockOffset
  <2> QED  BY <1>1, <1>2, <1>3, <1>5, <2>1, <2>2 DEF OpenBlocks
<1> QED  BY <1>6, <1>8, <1>9, <1>10 DEF StoreInv

LEMMA FlushStreamStep ==
    ASSUME TypeOK, StoreInv, FlushStream
    PROVE  TypeOK' /\ StoreInv' /\ Extends(disk, disk')
<1> DEFINE at   == writer.chunk.at
           data == Stream(writer.ops)
<1>1. writer.pc \in Working /\ writer.pc \in {"take", "seal"} /\ writer.io = NoIo
  BY DEF Working, FlushStream, StoreInv, OpenBlocks
<1>2. main.pc \in {"run", "close", "join", "close again", "join again"} /\ main.io = NoIo /\ InUse
  BY <1>1, WriterWrites
<1>3. /\ disk' = WriteAt(at, data, FALSE)
      /\ handle' = handle /\ main' = main /\ writer' = writer
      /\ queue' = queue /\ ops' = ops /\ analyses' = analyses
  BY DEF FlushStream
<1>4. /\ \/ at = NextBlockOffset
         \/ at \in DOMAIN disk.file /\ ~disk.file[at].sealed
      /\ writer.chunk.id \in DOMAIN handle.blocks
      /\ handle.blocks[writer.chunk.id] = Reserved
  BY <1>1 DEF StoreInv, OpenBlocks
<1>5. at \in DOMAIN disk.file => ~disk.file[at].sealed
  BY <1>4, NewBlockFacts
<1> HIDE DEF at, data
<1>6. IsWrite(disk, disk', at, data, FALSE)
  BY <1>3, <1>4, OpenWrite
<1>7. Extends(disk, disk')
  BY <1>5, <1>6, WriteExtends
<1>8. /\ IsDisk(disk') /\ disk'.header = disk.header /\ disk'.pointer = disk.pointer
      /\ at \in DOMAIN disk'.file /\ ~disk'.file[at].sealed
  BY <1>6 DEF IsWrite, Entry
<1>9. TypeOK'
  BY <1>3, <1>8, HandleType, PlainTypes, TypeFromParts
<1>10. IndexIo = NoIo /\ IndexIo' = NoIo /\ DiskWithIndex = disk /\ DiskWithIndex' = disk'
  BY <1>1, <1>2, <1>3 DEF IndexIo, DiskWithIndex
<1>11. HandleIsSound'
  <2>1. WellFormed(disk, Written(handle))
    BY <1>2, <1>10 DEF StoreInv, HandleIsSound
  <2>2. WellFormed(disk', Written(handle)) /\ Carries(disk, Written(handle), disk', Written(handle))
    BY <1>7, <2>1, GrowthCarries
  <2> QED  BY <1>2, <1>3, <1>10, <2>2, HandleKept DEF StoreInv
<1>12. TakingTurns' /\ ReadBack'
  BY <1>1, <1>3, WriterKeeps
<1>13. OpenBlocks'
  BY <1>1, <1>2, <1>3, <1>4, <1>8 DEF OpenBlocks, at
<1>14. OpenIndex'
  BY <1>3, <1>8, <1>10 DEF StoreInv, OpenIndex
<1>15. DiskIsSound'
  BY <1>3, <1>7, <1>8, DiskKept DEF StoreInv
<1> QED  BY <1>7, <1>9, <1>11, <1>12, <1>13, <1>14, <1>15 DEF StoreInv

(* The handle while the writer goes on, whatever its chunks. *)
LEMMA HandleKeptByWriter ==
    ASSUME TypeOK, StoreInv, writer.pc \in Working, main' = main,
           NEW e, e = DiskWithIndex', NEW c, c = Written(handle'),
           WellFormed(e, c), Carries(DiskWithIndex, Written(handle), e, c),
           handle'.root = handle.root,
           \A k \in DOMAIN writer'.chunks : StreamBlock(e, c, writer'.chunks[k].id)
    PROVE  HandleIsSound'
<1> DEFINE d == DiskWithIndex
           b == Written(handle)
<1>1. main.pc \in {"run", "close", "join", "close again", "join again"} /\ InUse
  BY WriterWrites
<1>2. /\ TestBlock(d, b, handle.root) /\ handle.root # 0
      /\ HistoryBlock(d, b, main.history) /\ main.results = 0
  BY <1>1 DEF StoreInv, HandleIsSound
<1> HIDE DEF d, b
<1>3. TestBlock(e, c, handle'.root) /\ HistoryBlock(e, c, main'.history)
  BY <1>2 DEF Carries, d, b
<1> QED  BY <1>1, <1>2, <1>3 DEF HandleIsSound

LEMMA SealStreamStep ==
    ASSUME TypeOK, StoreInv, SealStream
    PROVE  TypeOK' /\ StoreInv' /\ Extends(disk, disk')
<1> DEFINE id   == writer.chunk.id
           at   == writer.chunk.at
           data == Stream(writer.ops)
           b    == Written(handle)
           c    == Written(handle')
<1>1. writer.pc \in Working /\ writer.pc = "seal" /\ writer.io = NoIo
  BY DEF Working, SealStream, StoreInv, OpenBlocks
<1>2. main.pc \in {"run", "close", "join", "close again", "join again"} /\ main.io = NoIo /\ InUse
  BY <1>1, WriterWrites
<1>3. /\ disk' = WriteAt(at, data, TRUE) /\ handle' = AssocBlock(handle, id, at)
      /\ main' = main /\ queue' = queue /\ ops' = ops /\ analyses' = analyses
  BY DEF SealStream
<1>4. /\ \/ at = NextBlockOffset
         \/ at \in DOMAIN disk.file /\ ~disk.file[at].sealed
      /\ id \in DOMAIN handle.blocks /\ handle.blocks[id] = Reserved
  BY <1>1 DEF StoreInv, OpenBlocks
<1>5. at \in DOMAIN disk.file => ~disk.file[at].sealed
  BY <1>4, NewBlockFacts
<1>6. id \in Nat \ {0} /\ at \in Nat \ {0}
  BY <1>4, HandleType, DiskType, FileFacts, NewBlockFacts DEF IsHandle
<1>7. /\ writer' \in WriterStates /\ writer'.pc = "vector" /\ writer'.io = writer.io
      /\ writer'.chunks = Append(writer.chunks, [index |-> writer.completed, id |-> id])
  <2> DEFINE s == Append(writer.chunks, [index |-> writer.completed, id |-> id])
             n == writer.completed + Len(writer.ops)
  <2>1. writer.chunks \in Seq([index : Nat, id : Nat]) /\ writer.completed \in Nat
        /\ Len(writer.ops) \in Nat
    BY PlainTypes DEF WriterStates
  <2>2. s \in Seq([index : Nat, id : Nat]) /\ n \in Nat
    <3>1. [index |-> writer.completed, id |-> id] \in [index : Nat, id : Nat]
      BY <1>6, <2>1
    <3> QED  BY <2>1, <3>1
  <2>3. writer' = [writer EXCEPT !.pc = "vector", !.chunks = s, !.completed = n]
    BY DEF SealStream, WriterStates
  <2> HIDE DEF s, n
  <2>4. /\ writer' \in WriterStates /\ writer'.pc = "vector" /\ writer'.io = writer.io
        /\ writer'.chunks = s
    BY <2>2, <2>3, PlainTypes DEF WriterStates, Working
  <2> QED  BY <2>4 DEF s
<1> HIDE DEF id, at, data
<1>8. IsWrite(disk, disk', at, data, TRUE)
  BY <1>3, <1>4, SealedWrite
<1>9. Extends(disk, disk')
  BY <1>5, <1>8, WriteExtends
<1>10. /\ IsHandle(handle') /\ handle'.root = handle.root /\ handle'.written = handle.written
       /\ handle'.read = handle.read
  BY <1>3, <1>4, <1>6, HandleType, AssocEffect
<1>11. DOMAIN c = DOMAIN b \cup {id} /\ c[id] = at /\ \A j \in DOMAIN b \ {id} : c[j] = b[j]
  BY <1>3, <1>4, <1>6, HandleType, AssignedIsWritten
<1>12. id \notin DOMAIN b
  BY <1>4, WrittenFacts
<1> HIDE DEF b, c
<1>13. /\ IsDisk(disk') /\ disk'.header = disk.header /\ disk'.pointer = disk.pointer
  BY <1>8 DEF IsWrite
<1>14. TypeOK'
  BY <1>3, <1>7, <1>10, <1>13, PlainTypes, TypeFromParts
<1>15. IndexIo = NoIo /\ IndexIo' = NoIo /\ DiskWithIndex = disk /\ DiskWithIndex' = disk'
  BY <1>1, <1>2, <1>3, <1>7 DEF IndexIo, DiskWithIndex
<1>16. Data(disk', c, id) = data /\ Sound(disk', c[id]) /\ id \in DOMAIN c
  BY <1>8, <1>11 DEF Data, Sound, IsWrite, Entry
<1>17. data.type = "stream"
  BY DEF data, Stream
<1>18. Carries(disk, b, disk', c) /\ WellFormed(disk', c)
  <2>1. WellFormed(disk, b)
    BY <1>2, <1>15 DEF StoreInv, HandleIsSound, b
  <2>2. RefersWell(disk', c, data)
    BY <1>17 DEF RefersWell
  <2> QED  BY <1>6, <1>9, <1>11, <1>12, <1>16, <2>1, <2>2, BlockCarries
<1>19. \A k \in DOMAIN writer'.chunks : StreamBlock(disk', c, writer'.chunks[k].id)
  <2>1. StreamBlock(disk', c, id)
    BY <1>16, <1>17 DEF StreamBlock
  <2>2. \A k \in DOMAIN writer.chunks : StreamBlock(disk', c, writer.chunks[k].id)
    <3>1. \A k \in DOMAIN writer.chunks : StreamBlock(disk, b, writer.chunks[k].id)
      BY <1>1, <1>2, <1>15 DEF StoreInv, HandleIsSound, b
    <3> QED  BY <1>18, <3>1 DEF Carries
  <2>3. ASSUME NEW k \in DOMAIN writer'.chunks
        PROVE  \/ k \in DOMAIN writer.chunks /\ writer'.chunks[k] = writer.chunks[k]
               \/ writer'.chunks[k] = [index |-> writer.completed, id |-> id]
    <3>1. writer.chunks \in Seq([index : Nat, id : Nat])
      BY PlainTypes DEF WriterStates
    <3> QED  BY <1>7, <2>3, <3>1
  <2> QED  BY <2>1, <2>2, <2>3
<1>20. HandleIsSound'
  BY <1>1, <1>3, <1>10, <1>15, <1>18, <1>19, HandleKeptByWriter DEF b, c
<1>21. TakingTurns' /\ ReadBack'
  BY <1>1, <1>3, <1>7, <1>10, WriterKeeps DEF Working
<1>22. OpenBlocks'
  BY <1>1, <1>2, <1>3, <1>7 DEF OpenBlocks
<1>23. OpenIndex'
  BY <1>10, <1>13, <1>15 DEF StoreInv, OpenIndex
<1>24. DiskIsSound'
  BY <1>3, <1>9, <1>13, DiskKept DEF StoreInv
<1> QED  BY <1>9, <1>14, <1>20, <1>21, <1>22, <1>23, <1>24 DEF StoreInv

LEMMA BeginVectorStep ==
    ASSUME TypeOK, StoreInv, BeginVector
    PROVE  TypeOK' /\ StoreInv' /\ Extends(disk, disk')
<1> DEFINE at   == NextBlockOffset
           data == Vector(writer.completed, writer.chunks)
           io   == [id |-> main.history, at |-> at]
<1>1. writer.pc \in Working /\ writer.pc = "vector"
  BY DEF Working, BeginVector
<1>2. main.pc \in {"run", "close", "join", "close again", "join again"} /\ main.io = NoIo /\ InUse
  BY <1>1, WriterWrites
<1>3. /\ disk' = WriteAt(at, data, FALSE) /\ writer' = [writer EXCEPT !.io = io]
      /\ handle' = handle /\ main' = main
      /\ queue' = queue /\ ops' = ops /\ analyses' = analyses
  BY DEF BeginVector
<1>4. at \notin DOMAIN disk.file /\ at \in Nat
  BY NewBlockFacts
<1>5. io \in Ios /\ io.at = at /\ io.id = main.history
  BY <1>4, PlainTypes DEF Ios, MainStates
<1> HIDE DEF io, data, at
<1>6. /\ writer' \in WriterStates /\ writer'.io = io /\ writer'.pc = "vector"
      /\ writer'.chunks = writer.chunks /\ writer'.completed = writer.completed
  BY <1>1, <1>3, <1>5, PlainTypes DEF WriterStates
<1>7. IsWrite(disk, disk', at, data, FALSE)
  BY <1>3, OpenWrite DEF at
<1>8. Extends(disk, disk')
  BY <1>4, <1>7, WriteExtends
<1>9. /\ IsDisk(disk') /\ disk'.header = disk.header /\ disk'.pointer = disk.pointer
      /\ at \in DOMAIN disk'.file /\ disk'.file[at] = Entry(data, FALSE)
  BY <1>7 DEF IsWrite
<1>10. TypeOK'
  BY <1>3, <1>6, <1>9, HandleType, PlainTypes, TypeFromParts
<1>11. IndexIo = NoIo /\ IndexIo' = NoIo /\ DiskWithIndex = disk /\ DiskWithIndex' = disk'
  BY <1>1, <1>2, <1>3, <1>6 DEF IndexIo, DiskWithIndex
<1>12. HandleIsSound'
  <2>1. WellFormed(disk, Written(handle))
    BY <1>2, <1>11 DEF StoreInv, HandleIsSound
  <2>2. WellFormed(disk', Written(handle)) /\ Carries(disk, Written(handle), disk', Written(handle))
    BY <1>8, <2>1, GrowthCarries
  <2> QED  BY <1>1, <1>2, <1>3, <1>6, <1>11, <2>2, HandleKept DEF StoreInv
<1>13. TakingTurns' /\ ReadBack'
  BY <1>1, <1>3, <1>6, WriterKeeps
<1>14. OpenBlocks'
  <2>1. disk'.file[at] = [data |-> Vector(writer'.completed, writer'.chunks), sealed |-> FALSE]
    BY <1>6, <1>9 DEF Entry, data
  <2> QED  BY <1>2, <1>3, <1>5, <1>6, <1>9, <2>1 DEF OpenBlocks
<1>15. OpenIndex'
  BY <1>3, <1>9, <1>11 DEF StoreInv, OpenIndex
<1>16. DiskIsSound'
  BY <1>3, <1>8, <1>9, DiskKept DEF StoreInv
<1> QED  BY <1>8, <1>10, <1>12, <1>13, <1>14, <1>15, <1>16 DEF StoreInv

LEMMA SealVectorStep ==
    ASSUME TypeOK, StoreInv, SealVector
    PROVE  TypeOK' /\ StoreInv' /\ Extends(disk, disk')
<1> DEFINE id   == main.history
           at   == writer.io.at
           data == Vector(writer.completed, writer.chunks)
           b    == Written(handle)
           c    == Written(handle')
<1>1. writer.pc \in Working /\ writer.pc = "vector" /\ writer.io # NoIo
  BY DEF Working, SealVector
<1>2. main.pc \in {"run", "close", "join", "close again", "join again"} /\ main.io = NoIo /\ InUse
  BY <1>1, WriterWrites
<1>3. /\ at \in DOMAIN disk.file /\ writer.io.id = id
      /\ disk.file[at] = [data |-> data, sealed |-> FALSE]
  BY <1>1 DEF StoreInv, OpenBlocks
<1>4. /\ disk' = Sealed(disk, at) /\ handle' = AssocBlock(handle, id, at)
      /\ main' = main /\ queue' = queue /\ ops' = ops /\ analyses' = analyses
      /\ writer' = [writer EXCEPT !.pc = "index", !.io = NoIo]
  BY <1>3 DEF SealVector, Sealed
<1>5. disk.file[at].data = data /\ ~disk.file[at].sealed
  BY <1>3
<1>6. IsWrite(disk, disk', at, data, TRUE)
  BY <1>3, <1>4, <1>5, SealEffect, DiskType
<1>7. /\ writer' \in WriterStates /\ writer'.pc = "index" /\ writer'.io = NoIo
      /\ writer'.chunks = writer.chunks
  <2>1. NoIo \in Ios
    BY DEF NoIo, Ios
  <2> QED  BY <1>4, <2>1, PlainTypes DEF WriterStates, Working
<1>8. IndexIo = NoIo /\ IndexIo' = NoIo /\ DiskWithIndex = disk /\ DiskWithIndex' = disk'
  BY <1>1, <1>2, <1>4, <1>7 DEF IndexIo, DiskWithIndex
<1>9. /\ WellFormed(disk, b) /\ HistoryBlock(disk, b, id)
      /\ \A k \in DOMAIN writer.chunks : StreamBlock(disk, b, writer.chunks[k].id)
  BY <1>1, <1>2, <1>8 DEF StoreInv, HandleIsSound
<1>10. id \in Nat \ {0} /\ id \in DOMAIN b /\ id \in DOMAIN handle.blocks
  BY <1>9, WrittenFacts DEF HistoryBlock, WellFormed
<1>11. at \in Nat \ {0}
  BY <1>3, DiskType, FileFacts
<1>12. data.type = "vector" /\ data.chunks = writer.chunks
  BY DEF Vector
<1> HIDE DEF id, at, data
<1>13. Extends(disk, disk')
  BY <1>5, <1>6, WriteExtends
<1>14. /\ IsHandle(handle') /\ handle'.root = handle.root /\ handle'.written = handle.written
       /\ handle'.read = handle.read
  BY <1>4, <1>10, <1>11, HandleType, AssocEffect
<1>15. DOMAIN c = DOMAIN b \cup {id} /\ c[id] = at /\ \A j \in DOMAIN b \ {id} : c[j] = b[j]
  <2>1. IsHandle(handle) /\ handle' = AssocBlock(handle, id, at)
    BY <1>4, HandleType
  <2>2. id \in Nat \ {0} /\ id \in DOMAIN handle.blocks
    BY <1>10
  <2>3. id \in DOMAIN handle.blocks \/ \A j \in DOMAIN handle.blocks : j <= id
    BY <2>2
  <2>4. id \in Nat \ {0} /\ at \in Nat \ {0}
    BY <1>11, <2>2
  <2>5. LET g == Written(AssocBlock(handle, id, at))
        IN  /\ DOMAIN g = DOMAIN b \cup {id} /\ g[id] = at
            /\ \A j \in DOMAIN b \ {id} : g[j] = b[j]
    <3>1. IsHandle(handle)
      BY HandleType
    <3> QED  BY <3>1, <2>3, <2>4, AssignedIsWritten
  <2> QED  BY <2>1, <2>5
<1> HIDE DEF b, c
<1>16. /\ IsDisk(disk') /\ disk'.header = disk.header /\ disk'.pointer = disk.pointer
  BY <1>6 DEF IsWrite
<1>17. TypeOK'
  BY <1>4, <1>7, <1>14, <1>16, PlainTypes, TypeFromParts
<1>18. Data(disk', c, id) = data /\ Sound(disk', c[id]) /\ id \in DOMAIN c
  BY <1>6, <1>15 DEF Data, Sound, IsWrite, Entry
<1>19. /\ Carries(disk, b, disk', c)
       /\ Sound(disk', c[id]) /\ RefersWell(disk', c, Data(disk', c, id)) => WellFormed(disk', c)
  BY <1>9, <1>10, <1>12, <1>13, <1>15, <1>18, BlockCarries
<1>20. \A k \in DOMAIN writer.chunks : StreamBlock(disk', c, writer.chunks[k].id)
  BY <1>9, <1>19 DEF Carries
<1>21. WellFormed(disk', c)
  <2>1. RefersWell(disk', c, data)
    BY <1>12, <1>20 DEF RefersWell
  <2> QED  BY <1>18, <1>19, <2>1
<1>22. HandleIsSound'
  <2>1. \A k \in DOMAIN writer'.chunks : StreamBlock(disk', c, writer'.chunks[k].id)
    BY <1>7, <1>20
  <2> QED  BY <1>1, <1>4, <1>8, <1>14, <1>19, <1>21, <2>1, HandleKeptByWriter DEF b, c
<1>23. TakingTurns' /\ ReadBack'
  BY <1>1, <1>4, <1>7, <1>14, WriterKeeps DEF Working
<1>24. OpenBlocks'
  BY <1>2, <1>4, <1>7 DEF OpenBlocks
<1>25. OpenIndex'
  BY <1>8, <1>14, <1>16 DEF StoreInv, OpenIndex
<1>26. DiskIsSound'
  BY <1>4, <1>13, <1>16, DiskKept DEF StoreInv
<1> QED  BY <1>13, <1>17, <1>22, <1>23, <1>24, <1>25, <1>26 DEF StoreInv

LEMMA WriterThrowsStep ==
    ASSUME TypeOK, StoreInv, WriterThrows
    PROVE  TypeOK' /\ StoreInv' /\ Extends(disk, disk')
<1>1. writer.pc \in Working
  BY DEF WriterThrows, Working
<1>2. main.pc \in {"run", "close", "join", "close again", "join again"} /\ main.io = NoIo
  BY <1>1, WriterWrites
<1>3. /\ disk' = disk /\ handle' = handle /\ main' = main
      /\ queue' = queue /\ ops' = ops /\ analyses' = analyses
  BY DEF WriterThrows
<1>4. writer' \in WriterStates /\ writer'.pc = "dead"
  BY PlainTypes DEF WriterThrows, WriterStates
<1>5. TypeOK'
  BY <1>3, <1>4, DiskType, HandleType, PlainTypes, TypeFromParts
<1>6. Extends(disk, disk')
  BY <1>3 DEF Extends
<1>7. TakingTurns' /\ ReadBack'
  BY <1>1, <1>3, <1>4, WriterKeeps
<1>8. OpenBlocks'
  BY <1>2, <1>3, <1>4 DEF OpenBlocks
<1>9. IndexIo' = NoIo
  BY <1>2, <1>3, <1>4 DEF IndexIo
<1>10. OpenIndex'
  BY <1>3, <1>9 DEF StoreInv, OpenIndex
<1>11. HandleIsSound'
  BY <1>4 DEF HandleIsSound, InUse
<1>12. DiskIsSound'
  BY <1>3, <1>6, DiskKept DEF StoreInv
<1> QED  BY <1>5, <1>6, <1>7, <1>8, <1>10, <1>11, <1>12 DEF StoreInv

-----------------------------------------------------------------------------
(* The run. *)

(* The main thread feeds the history writer, or waits for it. *)
LEMMA MainMoves ==
    ASSUME TypeOK, StoreInv, disk' = disk, handle' = handle, writer' = writer,
           main.pc \in {"run", "close", "join", "close again", "join again"},
           main'.pc \in {"run", "close", "join", "load", "close again", "join again",
                         "test", "close file"},
           main'.io = main.io, main'.history = main.history, main'.results = main.results
    PROVE  OpenBlocks' /\ OpenIndex' /\ HandleIsSound' /\ DiskIsSound' /\ Extends(disk, disk')
<1>1. main.io = NoIo
  BY DEF StoreInv, OpenBlocks, MainBlocks
<1>2. OpenBlocks'
  <2>1. NextBlockOffset' = NextBlockOffset
    BY DEF NextBlockOffset
  <2>2. /\ writer.pc \in {"open", "take", "seal"} => writer.io = NoIo
        /\ writer.pc \in {"take", "seal"} =>
              /\ \/ writer.chunk.at = NextBlockOffset
                 \/ /\ writer.chunk.at \in DOMAIN disk.file
                    /\ ~disk.file[writer.chunk.at].sealed
              /\ writer.chunk.id \in DOMAIN handle.blocks
              /\ handle.blocks[writer.chunk.id] = Reserved
        /\ writer.pc = "vector" /\ writer.io # NoIo =>
              /\ writer.io.at \in DOMAIN disk.file
              /\ disk.file[writer.io.at] = [data |-> Vector(writer.completed, writer.chunks),
                                            sealed |-> FALSE]
              /\ writer.io.id = main.history
    BY DEF StoreInv, OpenBlocks
  <2> QED  BY <1>1, <2>1, <2>2 DEF OpenBlocks
<1>3. IndexIo' = IndexIo
  BY DEF IndexIo
<1>4. OpenIndex'
  BY <1>3 DEF StoreInv, OpenIndex
<1>5. DiskWithIndex' = DiskWithIndex
  BY <1>3 DEF DiskWithIndex
<1>6. HandleIsSound'
  <2> SUFFICES ASSUME InUse' PROVE HandleIsSound'
    BY DEF HandleIsSound
  <2> DEFINE d == DiskWithIndex
             b == Written(handle)
  <2>1. InUse
    BY DEF InUse
  <2>2. /\ WellFormed(d, b) /\ handle.root # 0 /\ TestBlock(d, b, handle.root)
        /\ HistoryBlock(d, b, main.history) /\ main.results = 0
        /\ writer.pc \in Working =>
              \A k \in DOMAIN writer.chunks : StreamBlock(d, b, writer.chunks[k].id)
    BY <2>1 DEF StoreInv, HandleIsSound
  <2> HIDE DEF d, b
  <2>3. DiskWithIndex' = d /\ Written(handle') = b
    BY <1>5 DEF d, b
  <2> QED  BY <2>2, <2>3 DEF HandleIsSound
<1>7. Extends(disk, disk')
  BY DEF Extends
<1>8. DiskIsSound'
  BY <1>7, DiskKept DEF StoreInv
<1> QED  BY <1>2, <1>4, <1>6, <1>7, <1>8

LEMMA StartWriterStep ==
    ASSUME TypeOK, StoreInv, StartWriter
    PROVE  TypeOK' /\ StoreInv' /\ Extends(disk, disk')
<1> DEFINE b == Written(handle)
<1>1. /\ main.pc = "start" /\ main.stage = 0 /\ writer = NoWriter /\ main.io = NoIo
  BY DEF StartWriter, StoreInv, TakingTurns, OpenBlocks, MainBlocks
<1>2. writer.pc = "none" /\ writer.io = NoIo /\ writer.chunks = <<>>
  BY <1>1 DEF NoWriter
<1>3. InUse
  BY <1>1, <1>2 DEF InUse
<1>4. /\ main' \in MainStates /\ main'.pc = "run" /\ main'.io = NoIo /\ main'.stage = 0
      /\ main'.history = main.history /\ main'.results = main.results
  BY <1>1, PlainTypes DEF StartWriter, MainStates, MainSteps
<1>5. /\ writer' \in WriterStates /\ writer'.pc = "open" /\ writer'.io = NoIo
      /\ writer'.chunks = <<>>
  BY <1>2, PlainTypes DEF StartWriter, WriterStates, Working
<1>6. /\ disk' = disk /\ handle' = handle /\ queue' = queue /\ ops' = ops
      /\ analyses' = analyses
  BY DEF StartWriter
<1>7. TypeOK'
  BY <1>4, <1>5, <1>6, DiskType, HandleType, PlainTypes, TypeFromParts
<1>8. IndexIo = NoIo /\ IndexIo' = NoIo /\ DiskWithIndex = disk /\ DiskWithIndex' = disk
  BY <1>1, <1>2, <1>4, <1>5, <1>6 DEF IndexIo, DiskWithIndex
<1>9. Extends(disk, disk')
  BY <1>6 DEF Extends
<1>10. TakingTurns'
  BY <1>4, <1>5 DEF TakingTurns
<1>11. OpenBlocks'
  BY <1>4, <1>5 DEF OpenBlocks
<1>12. OpenIndex'
  BY <1>6, <1>8 DEF StoreInv, OpenIndex
<1>13. ReadBack'
  BY <1>4 DEF ReadBack
<1>14. HandleIsSound'
  <2>1. /\ WellFormed(disk, b) /\ handle.root # 0 /\ TestBlock(disk, b, handle.root)
        /\ HistoryBlock(disk, b, main.history) /\ main.results = 0
    BY <1>1, <1>3, <1>8 DEF StoreInv, HandleIsSound
  <2> HIDE DEF b
  <2>2. Written(handle') = b
    BY <1>6 DEF b
  <2>3. DOMAIN writer'.chunks = {}
    BY <1>5
  <2> QED  BY <1>4, <1>6, <1>8, <2>1, <2>2, <2>3 DEF HandleIsSound
<1>15. DiskIsSound'
  BY <1>1, <1>4, <1>6, <1>9, DiskKept DEF StoreInv
<1> QED  BY <1>7, <1>9, <1>10, <1>11, <1>12, <1>13, <1>14, <1>15 DEF StoreInv

LEMMA AppendOpStep ==
    ASSUME TypeOK, StoreInv, AppendOp
    PROVE  TypeOK' /\ StoreInv' /\ Extends(disk, disk')
<1>1. /\ main.pc = "run" /\ disk' = disk /\ handle' = handle /\ main' = main
      /\ writer' = writer /\ analyses' = analyses /\ ops' = ops + 1 /\ ops < MaxOps
      /\ queue' = Append(queue, ops + 1)
  BY DEF AppendOp
<1>2. ops' \in 0 .. MaxOps /\ queue' \in Seq(Nat)
  BY <1>1, PlainTypes, StoreAssumption
<1>3. TypeOK'
  BY <1>1, <1>2, DiskType, HandleType, PlainTypes, TypeFromParts
<1>4. OpenBlocks' /\ OpenIndex' /\ HandleIsSound' /\ DiskIsSound' /\ Extends(disk, disk')
  BY <1>1, MainMoves
<1>5. TakingTurns' /\ ReadBack'
  BY <1>1 DEF StoreInv, TakingTurns, ReadBack
<1> QED  BY <1>3, <1>4, <1>5 DEF StoreInv

LEMMA EndRunStep ==
    ASSUME TypeOK, StoreInv, EndRun
    PROVE  TypeOK' /\ StoreInv' /\ Extends(disk, disk')
<1>1. /\ main.pc = "run" /\ disk' = disk /\ handle' = handle /\ writer' = writer
      /\ queue' = queue /\ ops' = ops /\ analyses' = analyses
  BY DEF EndRun
<1>2. /\ main' \in MainStates /\ main'.pc \in {"close", "close again"}
      /\ main'.pc = "close again" => main'.failed
      /\ main'.io = main.io /\ main'.stage = main.stage
      /\ main'.history = main.history /\ main'.results = main.results
  <2>1. CASE main' = [main EXCEPT !.pc = "close"]
    BY <2>1, PlainTypes DEF MainStates, MainSteps
  <2>2. CASE main' = [main EXCEPT !.pc = "close again", !.failed = TRUE]
    <3> DEFINE yes == TRUE
    <3>1. yes \in BOOLEAN /\ main' = [main EXCEPT !.pc = "close again", !.failed = yes]
      BY <2>2
    <3> HIDE DEF yes
    <3>2. /\ main' \in MainStates /\ main'.pc = "close again" /\ main'.failed = yes
          /\ main'.io = main.io /\ main'.stage = main.stage
          /\ main'.history = main.history /\ main'.results = main.results
      BY <3>1, PlainTypes DEF MainStates, MainSteps
    <3> QED  BY <3>2 DEF yes
  <2> QED  BY <2>1, <2>2 DEF EndRun
<1>3. TypeOK'
  BY <1>1, <1>2, DiskType, HandleType, PlainTypes, TypeFromParts
<1>4. OpenBlocks' /\ OpenIndex' /\ HandleIsSound' /\ DiskIsSound' /\ Extends(disk, disk')
  BY <1>1, <1>2, MainMoves
<1>5. TakingTurns'
  BY <1>1, <1>2 DEF StoreInv, TakingTurns
<1>6. ReadBack'
  BY <1>2 DEF ReadBack
<1> QED  BY <1>3, <1>4, <1>5, <1>6 DEF StoreInv

LEMMA PutFinishedStep ==
    ASSUME TypeOK, StoreInv, PutFinished
    PROVE  TypeOK' /\ StoreInv' /\ Extends(disk, disk')
<1> DEFINE pc == IF main.pc = "close" THEN "join" ELSE "join again"
<1>1. /\ main.pc \in {"close", "close again"} /\ disk' = disk /\ handle' = handle
      /\ writer' = writer /\ ops' = ops /\ analyses' = analyses
      /\ queue' = Append(queue, Finished)
      /\ main' = [main EXCEPT !.pc = pc]
  BY DEF PutFinished
<1>2. queue' \in Seq(Nat)
  <2>1. Finished \in Nat /\ queue \in Seq(Nat)
    BY PlainTypes DEF Finished
  <2>2. Append(queue, Finished) \in Seq(Nat)
    BY <2>1
  <2> QED  BY <1>1, <2>2
<1>3. pc \in {"join", "join again"} /\ (pc = "join again" => main.pc = "close again")
  BY <1>1
<1> HIDE DEF pc
<1>4. /\ main' \in MainStates /\ main'.pc = pc /\ main'.failed = main.failed
      /\ main'.io = main.io /\ main'.stage = main.stage
      /\ main'.history = main.history /\ main'.results = main.results
  BY <1>1, <1>3, PlainTypes DEF MainStates, MainSteps
<1>5. TypeOK'
  BY <1>1, <1>2, <1>4, DiskType, HandleType, PlainTypes, TypeFromParts
<1>6. OpenBlocks' /\ OpenIndex' /\ HandleIsSound' /\ DiskIsSound' /\ Extends(disk, disk')
  BY <1>1, <1>3, <1>4, MainMoves
<1>7. TakingTurns'
  BY <1>1, <1>3, <1>4 DEF StoreInv, TakingTurns
<1>8. ReadBack'
  BY <1>1, <1>3, <1>4 DEF StoreInv, ReadBack
<1> QED  BY <1>5, <1>6, <1>7, <1>8 DEF StoreInv

LEMMA JoinWriterStep ==
    ASSUME TypeOK, StoreInv, JoinWriter
    PROVE  TypeOK' /\ StoreInv' /\ Extends(disk, disk')
<1>1. /\ main.pc \in {"join", "join again"} /\ writer.pc \in {"exit", "dead"}
      /\ disk' = disk /\ handle' = handle /\ writer' = writer
      /\ queue' = queue /\ ops' = ops /\ analyses' = analyses
  BY DEF JoinWriter
<1>2. main.stage = 0 /\ (main.pc = "join again" => main.failed \/ handle.read)
  BY <1>1 DEF StoreInv, TakingTurns, ReadBack
<1>3. /\ main' \in MainStates
      /\ main'.io = main.io /\ main'.history = main.history /\ main'.results = main.results
      /\ \/ main'.pc = "load" /\ main'.stage = 0 /\ writer.pc = "exit"
         \/ main'.pc = "close again" /\ main'.stage = 0 /\ main'.failed
         \/ main'.pc = "close file"
         \/ main'.pc = "test" /\ main'.stage = 1 /\ writer.pc = "exit" /\ handle.read
  <2>1. CASE main.pc = "join" /\ writer.pc = "exit"
    <3>1. main' = [main EXCEPT !.pc = "load"]
      BY <2>1 DEF JoinWriter
    <3> QED  BY <1>2, <2>1, <3>1, PlainTypes DEF MainStates, MainSteps
  <2>2. CASE main.pc = "join" /\ writer.pc # "exit"
    <3> DEFINE yes == TRUE
    <3>1. yes \in BOOLEAN /\ main' = [main EXCEPT !.pc = "close again", !.failed = yes]
      BY <2>2 DEF JoinWriter
    <3> HIDE DEF yes
    <3>2. /\ main' \in MainStates /\ main'.pc = "close again" /\ main'.failed = yes
          /\ main'.io = main.io /\ main'.stage = main.stage
          /\ main'.history = main.history /\ main'.results = main.results
      BY <3>1, PlainTypes DEF MainStates, MainSteps
    <3> QED  BY <1>2, <3>2 DEF yes
  <2>3. CASE main.pc = "join again" /\ (writer.pc = "dead" \/ main.failed)
    <3>1. main' = [main EXCEPT !.pc = "close file"]
      BY <2>3 DEF JoinWriter
    <3> QED  BY <3>1, PlainTypes DEF MainStates, MainSteps
  <2>4. CASE main.pc = "join again" /\ ~(writer.pc = "dead" \/ main.failed)
    <3>1. main' = [main EXCEPT !.pc = "test", !.stage = 1]
      BY <2>4 DEF JoinWriter
    <3>2. /\ main' \in MainStates /\ main'.pc = "test" /\ main'.stage = 1
          /\ main'.io = main.io
          /\ main'.history = main.history /\ main'.results = main.results
      <4>1. "test" \in MainSteps /\ 1 \in 0 .. 2
        BY DEF MainSteps, MainBlocks
      <4> QED  BY <3>1, <4>1, PlainTypes DEF MainStates
    <3>3. writer.pc = "exit" /\ handle.read
      BY <1>1, <1>2, <2>4
    <3> QED  BY <3>2, <3>3
  <2> QED  BY <1>1, <2>1, <2>2, <2>3, <2>4
<1>4. TypeOK'
  BY <1>1, <1>3, DiskType, HandleType, PlainTypes, TypeFromParts
<1>5. OpenBlocks' /\ OpenIndex' /\ HandleIsSound' /\ DiskIsSound' /\ Extends(disk, disk')
  BY <1>1, <1>3, MainMoves
<1>6. TakingTurns'
  <2>1. writer.pc \notin Working
    BY <1>1 DEF Working
  <2>2. /\ main'.pc \in {"load", "close again", "close file", "test"}
        /\ main'.pc \in {"load", "close again"} => main'.stage = 0
        /\ main'.pc = "test" => main'.stage # 0
        /\ writer.pc = "dead" => main'.pc \in {"close again", "close file"}
    <3>1. CASE main'.pc = "load" /\ main'.stage = 0 /\ writer.pc = "exit"
      BY <3>1
    <3>2. CASE main'.pc = "close again" /\ main'.stage = 0
      BY <3>2
    <3>3. CASE main'.pc = "close file"
      BY <3>3
    <3>4. CASE main'.pc = "test" /\ main'.stage = 1 /\ writer.pc = "exit"
      BY <3>4
    <3> QED  BY <1>3, <3>1, <3>2, <3>3, <3>4
  <2> QED  BY <1>1, <2>1, <2>2 DEF TakingTurns
<1>7. ReadBack'
  BY <1>1, <1>3 DEF ReadBack
<1> QED  BY <1>4, <1>5, <1>6, <1>7 DEF StoreInv

(* prep-read! finds an index that is as good as the one in memory. *)
LEMMA PrepReadEffect ==
    ASSUME TypeOK, StoreInv, HasIndex(disk), InUse, main.pc \in {"load", "prep"},
           DiskWithIndex = disk
    PROVE  LET g == PrepRead(handle, disk)
           IN  /\ IsHandle(g) /\ g.read /\ g.written = handle.written
               /\ WellFormed(disk, Written(g))
               /\ g.root # 0 => TestBlock(disk, Written(g), g.root)
               /\ main.pc = "load" => g.root # 0
               /\ HistoryBlock(disk, Written(g), main.history)
               /\ handle.read => g = handle
               /\ ~handle.read => /\ Written(g) = IndexOf(disk).blocks
                                  /\ g.root = IndexOf(disk).root
<1> DEFINE g == PrepRead(handle, disk)
           b == IndexOf(disk).blocks
           r == IndexOf(disk).root
           yes == TRUE
<1>1. CASE handle.read
  <2>1. g = handle
    BY <1>1 DEF PrepRead
  <2>2. /\ WellFormed(disk, Written(handle))
        /\ handle.root # 0 => TestBlock(disk, Written(handle), handle.root)
        /\ main.pc = "load" => handle.root # 0
        /\ HistoryBlock(disk, Written(handle), main.history)
    BY <1>1 DEF StoreInv, HandleIsSound
  <2> HIDE DEF g
  <2>3. /\ IsHandle(g) /\ g.read /\ g.written = handle.written
        /\ WellFormed(disk, Written(g))
        /\ g.root # 0 => TestBlock(disk, Written(g), g.root)
        /\ main.pc = "load" => g.root # 0
        /\ HistoryBlock(disk, Written(g), main.history)
        /\ g = handle
    BY <1>1, <2>1, <2>2, HandleType
  <2> QED  BY <1>1, <2>3 DEF g
<1>2. CASE ~handle.read
  <2>1. /\ WellFormed(disk, b) /\ TestBlock(disk, b, r) /\ HasGreatest(DOMAIN b)
        /\ b \in [DOMAIN b -> Nat] /\ HistoryBlock(disk, b, main.history)
    BY DEF StoreInv, DiskIsSound, HasIndex
  <2>2. DOMAIN b \subseteq Nat \ {0} /\ \A id \in DOMAIN b : Sound(disk, b[id])
    BY <2>1 DEF WellFormed
  <2>3. r \in Nat \ {0}
    BY <2>1, <2>2 DEF TestBlock
  <2>4. g = [handle EXCEPT !.read = yes, !.root = r, !.blocks = b]
    BY <1>2 DEF PrepRead
  <2>5. yes \in BOOLEAN /\ yes
    OBVIOUS
  <2> HIDE DEF g, b, r, yes
  <2>6. /\ g.read = yes /\ g.root = r /\ g.blocks = b /\ g.written = handle.written
        /\ g \in [root : Nat, blocks : {g.blocks}, written : BOOLEAN, read : BOOLEAN]
    BY <2>3, <2>4, <2>5, HandleType DEF IsHandle
  <2>7. IsHandle(g)
    BY <2>1, <2>2, <2>6 DEF IsHandle
  <2>8. Written(g) = b
    <3>1. \A id \in DOMAIN b : b[id] # Reserved
      <4>1. \A id \in DOMAIN b : b[id] \in 1 .. Len(disk.file) /\ Len(disk.file) \in Nat
        BY <2>2, DiskType, FileFacts DEF Sound
      <4> QED  BY <4>1 DEF Reserved
    <3>2. {j \in DOMAIN b : b[j] # Reserved} = DOMAIN b
      BY <3>1
    <3>3. b = [i \in DOMAIN b |-> b[i]]
      BY <2>1
    <3> QED  BY <2>6, <3>2, <3>3 DEF Written
  <2>9. g.read
    BY <2>5, <2>6
  <2>10. g.root # 0
    BY <2>3, <2>6
  <2> QED  BY <2>1, <2>6, <2>7, <2>8, <2>9, <2>10, <1>2 DEF g, b, r
<1> QED  BY <1>1, <1>2

LEMMA LoadHistoryStep ==
    ASSUME TypeOK, StoreInv, LoadHistory
    PROVE  TypeOK' /\ StoreInv' /\ Extends(disk, disk')
<1> DEFINE c == Written(handle')
<1>1. /\ main.pc = "load" /\ HasIndex(disk) /\ handle' = PrepRead(handle, disk)
      /\ disk' = disk /\ writer' = writer /\ queue' = queue /\ ops' = ops
      /\ analyses' = analyses
  BY DEF LoadHistory
<1>2. writer.pc \notin Working /\ writer.pc # "dead" /\ InUse
      /\ writer.pc \notin {"open", "take", "seal", "vector", "index"}
  BY <1>1, MainWrites DEF StoreInv, Working
<1>3. main.io = NoIo /\ main.stage = 0 /\ main.results = 0
  BY <1>1, <1>2 DEF StoreInv, OpenBlocks, MainBlocks, TakingTurns, HandleIsSound
<1>4. /\ main' \in MainStates /\ main'.pc = "close again" /\ main'.io = NoIo
      /\ main'.stage = 0 /\ main'.history = main.history /\ main'.results = 0
  BY <1>3, PlainTypes DEF LoadHistory, MainStates, MainSteps
<1>5. IndexIo = NoIo /\ IndexIo' = NoIo /\ DiskWithIndex = disk /\ DiskWithIndex' = disk
  BY <1>1, <1>2, <1>4 DEF IndexIo, DiskWithIndex
<1>6. /\ IsHandle(handle') /\ handle'.read /\ handle'.written = handle.written
      /\ WellFormed(disk, c) /\ handle'.root # 0 /\ TestBlock(disk, c, handle'.root)
      /\ HistoryBlock(disk, c, main.history)
  BY <1>1, <1>2, <1>5, PrepReadEffect
<1> HIDE DEF c
<1>7. TypeOK'
  BY <1>1, <1>4, <1>6, DiskType, PlainTypes, TypeFromParts
<1>8. Extends(disk, disk')
  BY <1>1 DEF Extends
<1>9. TakingTurns'
  BY <1>1, <1>2, <1>4 DEF TakingTurns
<1>10. OpenBlocks'
  BY <1>1, <1>2, <1>4 DEF OpenBlocks
<1>11. OpenIndex'
  BY <1>1, <1>5, <1>6 DEF StoreInv, OpenIndex
<1>12. ReadBack'
  BY <1>4, <1>6 DEF ReadBack
<1>13. HandleIsSound'
  BY <1>1, <1>2, <1>4, <1>5, <1>6 DEF HandleIsSound, c
<1>14. DiskIsSound'
  BY <1>1, <1>4, <1>8, DiskKept DEF StoreInv
<1> QED  BY <1>7, <1>8, <1>9, <1>10, <1>11, <1>12, <1>13, <1>14 DEF StoreInv

LEMMA PrepResultsStep ==
    ASSUME TypeOK, StoreInv, PrepResults
    PROVE  TypeOK' /\ StoreInv' /\ Extends(disk, disk')
<1> DEFINE c == Written(handle')
<1>1. /\ main.pc = "prep" /\ HasIndex(disk) /\ handle' = PrepRead(handle, disk)
      /\ disk' = disk /\ writer' = writer /\ queue' = queue /\ ops' = ops
      /\ analyses' = analyses
  BY DEF PrepResults
<1>2. writer.pc \notin Working /\ writer.pc # "dead" /\ InUse
      /\ writer.pc \notin {"open", "take", "seal", "vector", "index"}
  BY <1>1, MainWrites DEF StoreInv, Working
<1>3. main.io = NoIo /\ main.stage = 2 /\ main.results = 0
  BY <1>1, <1>2 DEF StoreInv, OpenBlocks, MainBlocks, TakingTurns, HandleIsSound
<1>4. /\ main' \in MainStates /\ main'.pc = "more" /\ main'.io = NoIo
      /\ main'.stage = 2 /\ main'.history = main.history /\ main'.results = 0
  <2>1. "more" \in MainSteps
    BY DEF MainSteps, MainBlocks
  <2> QED  BY <1>3, <2>1, PlainTypes DEF PrepResults, MainStates
<1>5. IndexIo = NoIo /\ IndexIo' = NoIo /\ DiskWithIndex = disk /\ DiskWithIndex' = disk
  BY <1>1, <1>2, <1>4 DEF IndexIo, DiskWithIndex
<1>6. /\ IsHandle(handle') /\ handle'.written = handle.written
      /\ WellFormed(disk, c) /\ (handle'.root # 0 => TestBlock(disk, c, handle'.root))
      /\ HistoryBlock(disk, c, main.history)
  BY <1>1, <1>2, <1>5, PrepReadEffect
<1> HIDE DEF c
<1>7. TypeOK'
  BY <1>1, <1>4, <1>6, DiskType, PlainTypes, TypeFromParts
<1>8. Extends(disk, disk')
  BY <1>1 DEF Extends
<1>9. TakingTurns'
  BY <1>1, <1>2, <1>4 DEF TakingTurns
<1>10. OpenBlocks'
  BY <1>1, <1>2, <1>4 DEF OpenBlocks
<1>11. OpenIndex'
  BY <1>1, <1>5, <1>6 DEF StoreInv, OpenIndex
<1>12. ReadBack'
  BY <1>4 DEF ReadBack
<1>13. HandleIsSound'
  BY <1>1, <1>2, <1>4, <1>5, <1>6 DEF HandleIsSound, c
<1>14. DiskIsSound'
  BY <1>1, <1>4, <1>8, DiskKept DEF StoreInv
<1> QED  BY <1>7, <1>8, <1>9, <1>10, <1>11, <1>12, <1>13, <1>14 DEF StoreInv

-----------------------------------------------------------------------------
(* Failures, and the process that comes after. *)

LEMMA MainThrowsStep ==
    ASSUME TypeOK, StoreInv, MainThrows
    PROVE  TypeOK' /\ StoreInv' /\ Extends(disk, disk')
<1>1. /\ main.pc \in MainBlocks \cup {"index"} /\ disk' = disk /\ handle' = handle
      /\ writer' = writer /\ queue' = queue /\ ops' = ops /\ analyses' = analyses
      /\ main' = [main EXCEPT !.pc = "close file", !.io = NoIo]
  BY DEF MainThrows
<1>2. writer.pc \notin Working /\ writer.pc # "dead"
      /\ writer.pc \notin {"open", "take", "seal", "vector", "index"}
  BY <1>1, MainWrites DEF StoreInv, Working
<1>3. main' \in MainStates /\ main'.pc = "close file" /\ main'.io = NoIo
  <2>1. NoIo \in Ios
    BY DEF NoIo, Ios
  <2> QED  BY <1>1, <2>1, PlainTypes DEF MainStates, MainSteps
<1>4. TypeOK'
  BY <1>1, <1>3, DiskType, HandleType, PlainTypes, TypeFromParts
<1>5. Extends(disk, disk')
  BY <1>1 DEF Extends
<1>6. TakingTurns'
  BY <1>1, <1>2, <1>3 DEF TakingTurns
<1>7. OpenBlocks'
  BY <1>1, <1>2, <1>3 DEF OpenBlocks
<1>8. OpenIndex'
  <2>1. IndexIo' = NoIo
    BY <1>1, <1>2, <1>3 DEF IndexIo
  <2> QED  BY <1>1, <2>1 DEF StoreInv, OpenIndex
<1>9. ReadBack'
  BY <1>3 DEF ReadBack
<1>10. HandleIsSound'
  BY <1>3 DEF HandleIsSound, InUse
<1>11. DiskIsSound'
  BY <1>1, <1>3, <1>5, DiskKept DEF StoreInv
<1> QED  BY <1>4, <1>5, <1>6, <1>7, <1>8, <1>9, <1>10, <1>11 DEF StoreInv

(* The states of threads that do not run, and of a handle that is new. *)
LEMMA RestTypes ==
    /\ Down \in MainStates /\ Down.pc = "down" /\ Down.io = NoIo /\ Down.history = 0
    /\ Down.results = 0 /\ Down.stage = 0
    /\ NoWriter \in WriterStates /\ NoWriter.pc = "none"
    /\ IsHandle(NewHandle) /\ NewHandle.root = 0 /\ DOMAIN NewHandle.blocks = {}
    /\ ~NewHandle.written /\ ~NewHandle.read
<1>1. NoIo \in Ios
  BY DEF NoIo, Ios
<1>2. /\ Down \in MainStates /\ Down.pc = "down" /\ Down.io = NoIo /\ Down.history = 0
      /\ Down.results = 0 /\ Down.stage = 0
  BY <1>1 DEF Down, MainStates, MainSteps
<1>3. NoWriter \in WriterStates /\ NoWriter.pc = "none"
  BY <1>1 DEF NoWriter, WriterStates, NoOp
<1>4. /\ IsHandle(NewHandle) /\ NewHandle.root = 0 /\ DOMAIN NewHandle.blocks = {}
      /\ ~NewHandle.written /\ ~NewHandle.read
  BY DEF NewHandle, IsHandle
<1> QED  BY <1>2, <1>3, <1>4

LEMMA StopStep ==
    ASSUME TypeOK, StoreInv, Stop
    PROVE  TypeOK' /\ StoreInv' /\ Extends(disk, disk')
<1>1. /\ disk' = disk /\ handle' = NewHandle /\ main' = Down /\ writer' = NoWriter
      /\ queue' = <<>> /\ ops' = ops /\ analyses' = analyses
  BY DEF Stop
<1>2. /\ main' \in MainStates /\ main'.pc = "down" /\ main'.io = NoIo
      /\ writer' \in WriterStates /\ writer'.pc = "none"
      /\ IsHandle(handle') /\ ~handle'.written
  BY <1>1, RestTypes
<1>3. queue' \in Seq(Nat)
  BY <1>1
<1>4. TypeOK'
  BY <1>1, <1>2, <1>3, DiskType, PlainTypes, TypeFromParts
<1>5. Extends(disk, disk')
  BY <1>1 DEF Extends
<1>6. TakingTurns'
  BY <1>1, <1>2 DEF TakingTurns, Working
<1>7. OpenBlocks'
  BY <1>2 DEF OpenBlocks
<1>8. OpenIndex'
  <2>1. IndexIo' = NoIo
    BY <1>2 DEF IndexIo
  <2> QED  BY <1>2, <2>1 DEF OpenIndex
<1>9. ReadBack'
  BY <1>1, <1>2 DEF ReadBack
<1>10. HandleIsSound'
  BY <1>2 DEF HandleIsSound, InUse
<1>11. DiskIsSound'
  BY <1>1, <1>2, <1>5, DiskKept DEF StoreInv
<1> QED  BY <1>4, <1>5, <1>6, <1>7, <1>8, <1>9, <1>10, <1>11 DEF StoreInv

LEMMA AnalyzeStep ==
    ASSUME TypeOK, StoreInv, Analyze
    PROVE  TypeOK' /\ StoreInv' /\ Extends(disk, disk')
<1> DEFINE b == IndexOf(disk).blocks
<1>1. /\ main.pc = "down" /\ analyses < MaxAnalyses /\ analyses' = analyses + 1
      /\ disk' = disk /\ handle' = handle /\ writer' = writer /\ queue' = queue /\ ops' = ops
      /\ main' = [Down EXCEPT !.pc = "prep", !.stage = 2, !.history = Root(disk).history]
      /\ HasIndex(disk)
  BY DEF Analyze, Readable
<1>2. writer = NoWriter /\ handle = NewHandle
  BY <1>1 DEF StoreInv, TakingTurns, ReadBack
<1>3. WellFormed(disk, b) /\ TestBlock(disk, b, IndexOf(disk).root)
  BY <1>1 DEF StoreInv, DiskIsSound, HasIndex
<1>4. HistoryBlock(disk, b, Root(disk).history)
  <2>1. RefersWell(disk, b, Data(disk, b, IndexOf(disk).root))
    BY <1>3, WellFormedFacts DEF TestBlock
  <2> QED  BY <1>3, <2>1 DEF RefersWell, TestBlock, Root
<1>5. Root(disk).history \in Nat
  BY <1>3, <1>4 DEF HistoryBlock, WellFormed
<1> HIDE DEF b
<1>6. /\ main' \in MainStates /\ main'.pc = "prep" /\ main'.io = NoIo /\ main'.stage = 2
      /\ main'.history = Root(disk).history /\ main'.results = 0
  <2> DEFINE hist == Root(disk).history
  <2>1. main' = [Down EXCEPT !.pc = "prep", !.stage = 2, !.history = hist]
    BY <1>1
  <2>2. hist \in Nat /\ 2 \in 0 .. 2 /\ "prep" \in MainSteps
    BY <1>5 DEF MainSteps
  <2> HIDE DEF hist
  <2>3. /\ main' \in MainStates /\ main'.pc = "prep" /\ main'.io = NoIo /\ main'.stage = 2
        /\ main'.history = hist /\ main'.results = 0
    BY <2>1, <2>2, RestTypes DEF MainStates
  <2> QED  BY <2>3 DEF hist
<1>7. writer'.pc = "none" /\ handle'.root = 0 /\ DOMAIN handle'.blocks = {}
      /\ ~handle'.written /\ ~handle'.read
  BY <1>1, <1>2, RestTypes
<1>8. analyses' \in 0 .. MaxAnalyses
  BY <1>1, PlainTypes, StoreAssumption
<1>9. TypeOK'
  BY <1>1, <1>6, <1>8, DiskType, HandleType, PlainTypes, TypeFromParts
<1>10. Extends(disk, disk')
  BY <1>1 DEF Extends
<1>11. TakingTurns'
  BY <1>6, <1>7 DEF TakingTurns, Working
<1>12. OpenBlocks'
  BY <1>6, <1>7 DEF OpenBlocks
<1>13. IndexIo' = NoIo
  BY <1>6, <1>7 DEF IndexIo
<1>14. OpenIndex'
  BY <1>7, <1>13 DEF OpenIndex
<1>15. ReadBack'
  BY <1>6 DEF ReadBack
<1>16. HandleIsSound'
  <2>1. DOMAIN Written(handle') = {}
    BY <1>7, WrittenFacts
  <2>2. WellFormed(DiskWithIndex', Written(handle'))
    BY <2>1 DEF WellFormed
  <2>3. writer'.pc \notin Working
    BY <1>7 DEF Working
  <2> QED  BY <1>6, <1>7, <2>2, <2>3 DEF HandleIsSound
<1>17. DiskIsSound'
  BY <1>1, <1>4, <1>6 DEF StoreInv, DiskIsSound, b
<1> QED  BY <1>9, <1>10, <1>11, <1>12, <1>14, <1>15, <1>16, <1>17 DEF StoreInv

-----------------------------------------------------------------------------
(* gc! copies what the root refers to, and nothing that it refers to is lost. *)

(* How many elements of a set are below a number. *)
Rank(S, i) == Cardinality({j \in S : j < i})

LEMMA Ranks ==
    ASSUME NEW S \in SUBSET Nat, IsFiniteSet(S)
    PROVE  /\ Cardinality(S) \in Nat
           /\ \A i \in S : Rank(S, i) \in 0 .. Cardinality(S) - 1
           /\ \A i, k \in S : i < k => Rank(S, i) < Rank(S, k)
<1> DEFINE below(i) == {j \in S : j < i}
<1>1. Cardinality(S) \in Nat
  BY FS_CardinalityType
<1>2. ASSUME NEW i \in S PROVE IsFiniteSet(below(i)) /\ Cardinality(below(i)) \in Nat
  <2>1. below(i) \in SUBSET S
    OBVIOUS
  <2>2. IsFiniteSet(below(i))
    BY <2>1, FS_Subset
  <2> QED  BY <2>2, FS_CardinalityType
<1>3. ASSUME NEW i \in S, NEW T \in SUBSET S, i \in T, below(i) \subseteq T
      PROVE  Cardinality(below(i)) < Cardinality(T)
  <2>1. IsFiniteSet(T) /\ Cardinality(T) \in Nat
    BY FS_Subset, FS_CardinalityType
  <2>2. IsFiniteSet(T \ {i}) /\ Cardinality(T \ {i}) = Cardinality(T) - 1
    BY <1>3, <2>1, FS_RemoveElement
  <2>3. below(i) \in SUBSET (T \ {i})
    BY <1>3
  <2> HIDE DEF below
  <2>4. Cardinality(below(i)) <= Cardinality(T \ {i})
    BY <2>2, <2>3, FS_Subset
  <2> QED  BY <1>2, <2>1, <2>2, <2>4
<1>4. ASSUME NEW i \in S PROVE Cardinality(below(i)) \in 0 .. Cardinality(S) - 1
  <2>1. below(i) \subseteq S
    OBVIOUS
  <2>2. Cardinality(below(i)) < Cardinality(S)
    BY <1>3, <2>1
  <2> HIDE DEF below
  <2> QED  BY <1>1, <1>2, <2>2
<1>5. ASSUME NEW i \in S, NEW k \in S, i < k
      PROVE  Cardinality(below(i)) < Cardinality(below(k))
  <2>1. below(k) \in SUBSET S /\ i \in below(k)
    BY <1>5
  <2>2. below(i) \subseteq below(k)
    <3>1. ASSUME NEW j \in S, j < i PROVE j < k
      <4>1. j \in Nat /\ i \in Nat /\ k \in Nat
        OBVIOUS
      <4> QED  BY <1>5, <3>1, <4>1
    <3> QED  BY <3>1
  <2> HIDE DEF below
  <2> QED  BY <1>3, <2>1, <2>2
<1> QED  BY <1>1, <1>4, <1>5 DEF Rank

(* Every block of the copy has a place of its own, and no place is empty. *)
Numbers(place, P) ==
    /\ Cardinality(P) \in Nat
    /\ place \in [P -> 1 .. Cardinality(P)]
    /\ \A i, k \in P : place[i] = place[k] => i = k
    /\ \A k \in 1 .. Cardinality(P) : \E id \in P : place[id] = k

LEMMA Places ==
    ASSUME NEW R \in SUBSET Nat, IsFiniteSet(R), NEW r \in R, NEW self \in Nat, self \notin R,
           NEW place \in [R \cup {self} -> Nat], place[self] = 1, place[r] = 2,
           \A id \in R \ {r} : place[id] = 3 + Rank(R \ {r}, id)
    PROVE  Numbers(place, R \cup {self})
<1> DEFINE others  == R \ {r}
           rank(i) == Rank(others, i)
           P       == R \cup {self}
           n       == Cardinality(P)
<1>1. IsFiniteSet(others) /\ Cardinality(others) = Cardinality(R) - 1
      /\ Cardinality(R) \in Nat
  BY FS_RemoveElement, FS_CardinalityType
<1>2. IsFiniteSet(P) /\ n = Cardinality(R) + 1
  BY FS_AddElement
<1>3. others \in SUBSET Nat
  OBVIOUS
<1>4. /\ Cardinality(others) \in Nat
      /\ \A i \in others : rank(i) \in 0 .. Cardinality(others) - 1
      /\ \A i, k \in others : i < k => rank(i) < rank(k)
  <2> HIDE DEF others
  <2> QED  BY <1>1, <1>3, Ranks
<1>5. \A i \in others : place[i] = 3 + rank(i)
  OBVIOUS
<1> HIDE DEF rank
<1>6. n \in Nat /\ n = Cardinality(others) + 2
  BY <1>1, <1>2, <1>4
<1> HIDE DEF n
<1>7. ASSUME NEW i \in P PROVE place[i] \in 1 .. n
  <2>1. CASE i = self
    BY <1>4, <1>6, <2>1
  <2>2. CASE i = r
    BY <1>4, <1>6, <2>2
  <2>3. CASE i \in others
    <3>1. place[i] = 3 + rank(i) /\ rank(i) \in 0 .. Cardinality(others) - 1
      BY <1>4, <1>5, <2>3
    <3> QED  BY <1>4, <1>6, <3>1
  <2> QED  BY <2>1, <2>2, <2>3
<1>8. ASSUME NEW i \in P, NEW k \in P, place[i] = place[k] PROVE i = k
  <2>1. ASSUME NEW x \in others
        PROVE  place[x] = 3 + rank(x) /\ rank(x) \in Nat /\ place[x] # 1 /\ place[x] # 2
    BY <1>4, <1>5
  <2>2. CASE i \in others /\ k \in others
    <3>1. rank(i) = rank(k) /\ rank(i) \in Nat /\ rank(k) \in Nat
      BY <1>8, <2>1, <2>2
    <3>2. i \in Nat /\ k \in Nat /\ ~(i < k) /\ ~(k < i)
      BY <1>3, <1>4, <2>2, <3>1
    <3> QED  BY <3>2
  <2>3. CASE i \notin others \/ k \notin others
    BY <1>8, <2>1, <2>3
  <2> QED  BY <2>2, <2>3
<1> HIDE DEF P, others
<1>9. place \in [P -> 1 .. n]
  <2>1. place \in [P -> Nat]
    BY DEF P
  <2> QED  BY <1>7, <2>1
<1>10. place \in Injection(P, 1 .. n)
  BY <1>8, <1>9 DEF Injection, IsInjective
<1>11. IsFiniteSet(1 .. n) /\ Cardinality(1 .. n) = n
  <2>1. 1 \in Int /\ n \in Int
    BY <1>6
  <2>2. IsFiniteSet(1 .. n) /\ Cardinality(1 .. n) = IF 1 > n THEN 0 ELSE n - 1 + 1
    BY <2>1, FS_Interval
  <2> QED  BY <1>6, <2>2
<1>12. place \in Surjection(P, 1 .. n)
  BY <1>10, <1>11, FS_Injection DEF n
<1>13. \A k \in 1 .. n : \E id \in P : place[id] = k
  BY <1>12 DEF Surjection
<1> QED  BY <1>6, <1>8, <1>9, <1>13 DEF P, n, Numbers

(* block-references. *)
LEMMA ReferencesAre ==
    ASSUME NEW block
    PROVE  /\ block.type = "test" => References(block) = {block.history, block.results} \ {0}
           /\ block.type = "partial" => References(block) = {block.rest} \ {0}
           /\ block.type = "vector" =>
                 References(block) = {block.chunks[k].id : k \in DOMAIN block.chunks}
           /\ block.type \in {"nil", "stream", "index"} => References(block) = {}
  BY DEF References

LEMMA ReachableIsClosed ==
    ASSUME NEW d, NEW b, b = IndexOf(d).blocks, NEW r, r = IndexOf(d).root,
           WellFormed(d, b), TestBlock(d, b, r)
    PROVE  /\ r \in Reachable(d) /\ Reachable(d) \subseteq DOMAIN b
           /\ \A id \in Reachable(d) : References(Data(d, b, id)) \subseteq Reachable(d)
<1> DEFINE refs(id) == References(Data(d, b, id))
           direct   == refs(r)
           deep     == UNION {refs(id) : id \in direct}
<1>1. Reachable(d) = {r} \cup direct \cup deep
  BY DEF Reachable
<1>2. /\ \A id \in DOMAIN b : id # 0 /\ RefersWell(d, b, Data(d, b, id))
      /\ r \in DOMAIN b /\ Data(d, b, r).type = "test"
  BY WellFormedFacts DEF TestBlock
<1> DEFINE hist == Data(d, b, r).history
           res  == Data(d, b, r).results
<1>3. HistoryBlock(d, b, hist) /\ (res # 0 => Results(d, b, res))
  BY <1>2 DEF RefersWell
<1>4. direct = {hist, res} \ {0}
  BY <1>2, ReferencesAre
<1> HIDE DEF hist, res, direct
<1>5. direct \subseteq DOMAIN b
  BY <1>3, <1>4 DEF HistoryBlock, Results
<1>6. ASSUME NEW id \in direct, NEW x \in refs(id)
      PROVE  x \in DOMAIN b /\ refs(x) = {}
  <2>1. CASE id = hist
    <3>1. Data(d, b, id).type \in {"nil", "vector"} /\ id \in DOMAIN b
      BY <1>3, <2>1 DEF HistoryBlock
    <3>2. Data(d, b, id).type = "vector"
      BY <1>6, <3>1, ReferencesAre
    <3>3. PICK k \in DOMAIN Data(d, b, id).chunks : x = Data(d, b, id).chunks[k].id
      BY <1>6, <3>2, ReferencesAre
    <3>4. StreamBlock(d, b, x)
      BY <1>2, <3>1, <3>2, <3>3 DEF RefersWell
    <3> QED  BY <3>4, ReferencesAre DEF StreamBlock
  <2>2. CASE id = res
    <3>1. Results(d, b, id)
      BY <1>3, <1>4, <2>2
    <3>2. x = Data(d, b, id).rest
      BY <1>6, <3>1, ReferencesAre DEF Results
    <3>3. LastResults(d, b, x)
      BY <3>1, <3>2 DEF Results
    <3>4. Data(d, b, x).type = "partial" /\ Data(d, b, x).rest = 0 /\ x \in DOMAIN b
      BY <3>3 DEF LastResults
    <3>5. refs(x) = {0} \ {0}
      BY <3>4, ReferencesAre
    <3> QED  BY <3>4, <3>5
  <2> QED  BY <1>4, <1>6, <2>1, <2>2
<1>7. deep \subseteq DOMAIN b /\ \A x \in deep : refs(x) = {}
  <2> HIDE DEF refs
  <2> QED  BY <1>6
<1>8. \A id \in direct : refs(id) \subseteq deep
  <2> HIDE DEF refs
  <2> QED  BY DEF deep
<1>9. refs(r) = direct
  BY DEF direct
<1>10. \A id \in Reachable(d) : refs(id) \subseteq Reachable(d)
  <2> HIDE DEF refs, deep
  <2> QED  BY <1>1, <1>7, <1>8, <1>9
<1> HIDE DEF deep
<1> QED  BY <1>1, <1>2, <1>5, <1>7, <1>10

(* The copy: every block that is reachable, each in its place, and an index of *)
(* them.                                                                       *)
IsCopy(d, e, b, r, self, place) ==
    /\ self \in Nat \ {0} /\ self \notin Reachable(d)
    /\ \A id \in Reachable(d) : id <= self
    /\ place \in [Reachable(d) \cup {self} -> Nat]
    /\ IsDisk(e) /\ e.header /\ e.pointer = place[self]
    /\ \A id \in Reachable(d) \cup {self} : place[id] \in DOMAIN e.file
    /\ e.file[place[self]] = Entry(Index(r, place), TRUE)
    /\ \A id \in Reachable(d) : e.file[place[id]] = d.file[b[id]]
    /\ place[self] # 0

LEMMA CopyEffect ==
    ASSUME NEW d, IsDisk(d), NEW b, b = IndexOf(d).blocks, NEW r, r = IndexOf(d).root,
           WellFormed(d, b), TestBlock(d, b, r), HasGreatest(DOMAIN b)
    PROVE  \E self, place : IsCopy(d, Copy(d), b, r, self, place)
<1> DEFINE R      == Reachable(d)
           others == R \ {r}
           self   == Max(R) + 1
           place  == [id \in R \cup {self} |->
                        CASE id = self -> 1
                          [] id = r    -> 2
                          [] OTHER     -> 3 + Cardinality({j \in others : j < id})]
           block(id) == IF id = self THEN [data |-> Index(r, place), sealed |-> TRUE]
                        ELSE d.file[b[id]]
           n      == Cardinality(R \cup {self})
           f      == [k \in 1 .. n |-> block(CHOOSE id \in R \cup {self} : place[id] = k)]
           e      == [header |-> TRUE, pointer |-> 1, file |-> f]
<1>1. Copy(d) = e
  BY DEF Copy
<1>2. /\ r \in R /\ R \subseteq DOMAIN b /\ DOMAIN b \subseteq Nat \ {0}
  BY ReachableIsClosed DEF WellFormed
<1> HIDE DEF R
<1>3. PICK top \in R : \A id \in R : id <= top
  <2>1. PICK m \in DOMAIN b : \A i \in DOMAIN b : i <= m
    BY DEF HasGreatest
  <2>2. R \in SUBSET Nat /\ R # {} /\ m \in Nat /\ \A id \in R : id <= m
    BY <1>2, <2>1
  <2>3. HasGreatest(R)
    BY <2>2, BoundedHasGreatest
  <2> QED  BY <2>3 DEF HasGreatest
<1>4. R \in SUBSET Nat /\ R \in SUBSET Int /\ top \in Nat
  BY <1>2
<1>5. Max(R) = top
  BY <1>3, <1>4, MaxIs
<1>6. self = top + 1
  BY <1>5
<1>7. self \in Nat \ {0} /\ self \notin R /\ \A id \in R : id <= self
  BY <1>3, <1>4, <1>6
<1>8. IsFiniteSet(R)
  BY <1>3, <1>4, FS_BoundedSetOfNaturals
<1> HIDE DEF self
<1>9. /\ DOMAIN place = R \cup {self} /\ place[self] = 1
      /\ place[r] = 2
      /\ \A id \in R \ {r} : place[id] = 3 + Rank(R \ {r}, id)
  <2>1. DOMAIN place = R \cup {self}
    OBVIOUS
  <2>2. place[self] = 1
    BY <1>2, <1>7
  <2>3. place[r] = 2
    BY <1>2, <1>7
  <2>4. ASSUME NEW id \in R \ {r}
        PROVE  place[id] = 3 + Cardinality({j \in others : j < id})
    BY <1>7
  <2> HIDE DEF place
  <2> QED  BY <2>1, <2>2, <2>3, <2>4 DEF Rank
<1>10. place \in [R \cup {self} -> Nat]
  <2>1. others \in SUBSET Nat /\ IsFiniteSet(others)
    BY <1>4, <1>8, FS_RemoveElement
  <2>2. \A id \in others : Rank(others, id) \in Nat
    <3> HIDE DEF others
    <3> QED  BY <2>1, Ranks
  <2>3. \A id \in R \cup {self} : place[id] \in Nat
    <3> HIDE DEF place
    <3> QED  BY <1>9, <2>2
  <2>4. place = [id \in R \cup {self} |-> place[id]]
    OBVIOUS
  <2> HIDE DEF place
  <2> QED  BY <2>3, <2>4
<1> HIDE DEF place
<1>11. /\ n \in Nat /\ place \in [R \cup {self} -> 1 .. n]
       /\ \A i, k \in R \cup {self} : place[i] = place[k] => i = k
       /\ \A k \in 1 .. n : \E id \in R \cup {self} : place[id] = k
  <2>1. R \in SUBSET Nat /\ IsFiniteSet(R) /\ r \in R /\ self \in Nat /\ self \notin R
    BY <1>2, <1>4, <1>7, <1>8
  <2>2. place[self] = 1 /\ place[r] = 2
    BY <1>9
  <2>3. \A id \in R \ {r} : place[id] = 3 + Rank(R \ {r}, id)
    BY <1>9
  <2>4. Numbers(place, R \cup {self})
    <3> HIDE DEF others
    <3> QED  BY <1>10, <2>1, <2>2, <2>3, Places
  <2> QED  BY <2>4 DEF Numbers
<1> HIDE DEF n
<1>12. ASSUME NEW id \in R \cup {self}
       PROVE  place[id] \in 1 .. n /\ f[place[id]] = block(id)
  <2>1. place[id] \in 1 .. n
    BY <1>11
  <2> DEFINE w == CHOOSE i \in R \cup {self} : place[i] = place[id]
  <2>2. f[place[id]] = block(w)
    <3> HIDE DEF block
    <3> QED  BY <2>1
  <2>3. w = id
    BY <1>11
  <2> HIDE DEF w, block, f
  <2> QED  BY <2>1, <2>2, <2>3
<1>13. block(self) = Entry(Index(r, place), TRUE)
  BY DEF Entry
<1>14. \A id \in R : block(id) = d.file[b[id]]
  BY <1>7
<1>15. ASSUME NEW id \in R \cup {self}
       PROVE  \E data, sealed : sealed \in BOOLEAN /\ block(id) = Entry(data, sealed)
  <2>1. CASE id = self
    <3>1. TRUE \in BOOLEAN /\ block(id) = Entry(Index(r, place), TRUE)
      BY <1>13, <2>1
    <3> QED  BY <3>1, Zenon
  <2>2. CASE id \in R
    <3>1. b[id] \in DOMAIN d.file
      BY <1>2, <2>2 DEF WellFormed, Sound
    <3>2. block(id) = d.file[b[id]]
      BY <1>14, <2>2
    <3> QED  BY <3>1, <3>2, FileFacts
  <2> QED  BY <2>1, <2>2
<1> HIDE DEF block
<1>16. f \in Seq(Entries(f)) /\ DOMAIN f = 1 .. n
  <2>1. f = [k \in 1 .. n |-> f[k]]
    OBVIOUS
  <2>2. ASSUME NEW k \in 1 .. n
        PROVE  \E data, sealed : sealed \in BOOLEAN /\ f[k] = Entry(data, sealed)
    <3>1. PICK id \in R \cup {self} : place[id] = k
      BY <1>11
    <3>2. f[k] = block(id)
      BY <1>12, <3>1
    <3> QED  BY <1>15, <3>2
  <2> HIDE DEF f
  <2> QED  BY <1>11, <2>1, <2>2, FileType
<1> HIDE DEF f
<1>17. e.header /\ e.pointer = 1 /\ e.file = f
       /\ e \in [header : BOOLEAN, pointer : Nat, file : {e.file}]
  OBVIOUS
<1> HIDE DEF e
<1>18. IsDisk(e)
  BY <1>16, <1>17 DEF IsDisk
<1>19. place \in [R \cup {self} -> Nat] /\ place[self] # 0 /\ e.pointer = place[self]
  BY <1>9, <1>11, <1>17
<1>20. \A id \in R \cup {self} : place[id] \in DOMAIN e.file
  BY <1>12, <1>16, <1>17
<1>21. e.file[place[self]] = Entry(Index(r, place), TRUE)
  BY <1>12, <1>13, <1>17
<1>22. \A id \in R : e.file[place[id]] = d.file[b[id]]
  BY <1>12, <1>14, <1>17
<1>23. e.header
  BY <1>17
<1>24. IsCopy(d, e, b, r, self, place)
  BY <1>7, <1>18, <1>19, <1>20, <1>21, <1>22, <1>23 DEF IsCopy, R
<1> QED  BY <1>1, <1>24

(* What the copy's index says holds. *)
LEMMA CopyIsSound ==
    ASSUME NEW d, IsDisk(d), NEW b, b = IndexOf(d).blocks, NEW r, r = IndexOf(d).root,
           WellFormed(d, b), TestBlock(d, b, r), HasGreatest(DOMAIN b)
    PROVE  LET e == Copy(d)
               c == IndexOf(e).blocks
           IN  /\ IsDisk(e) /\ e.pointer # 0 /\ HasIndex(e) /\ WellFormed(e, c)
               /\ TestBlock(e, c, IndexOf(e).root) /\ HasGreatest(DOMAIN c)
               /\ c \in [DOMAIN c -> Nat]
               /\ IndexOf(e).root = r
               /\ \A id \in Reachable(d) : Has(e, c, id) /\ Data(e, c, id) = Data(d, b, id)
<1> DEFINE R == Reachable(d)
           e == Copy(d)
<1>1. PICK self, place : IsCopy(d, e, b, r, self, place)
  BY CopyEffect
<1>2. /\ r \in R /\ R \subseteq DOMAIN b /\ DOMAIN b \subseteq Nat \ {0}
      /\ \A id \in R : References(Data(d, b, id)) \subseteq R
      /\ \A id \in DOMAIN b : Sound(d, b[id]) /\ RefersWell(d, b, Data(d, b, id))
  BY ReachableIsClosed, WellFormedFacts
<1>3. /\ self \in Nat \ {0} /\ self \notin R /\ \A id \in R : id <= self
      /\ place \in [R \cup {self} -> Nat]
      /\ IsDisk(e) /\ e.header /\ e.pointer = place[self]
      /\ \A id \in R \cup {self} : place[id] \in DOMAIN e.file
      /\ e.file[place[self]] = Entry(Index(r, place), TRUE)
      /\ \A id \in R : e.file[place[id]] = d.file[b[id]]
      /\ place[self] # 0
  <2> HIDE DEF e
  <2> QED  BY <1>1 DEF IsCopy
<1> HIDE DEF R, e
<1>4. IndexOf(e) = Index(r, place)
  <2>1. e.file[e.pointer] = Entry(Index(r, place), TRUE)
    BY <1>3
  <2> DEFINE x == Index(r, place)
  <2> HIDE DEF x
  <2>2. e.file[e.pointer] = Entry(x, TRUE)
    BY <2>1 DEF x
  <2>3. e.file[e.pointer].data = x
    BY <2>2 DEF Entry
  <2> QED  BY <2>3 DEF IndexOf, x
<1>5. IndexOf(e).blocks = place /\ IndexOf(e).root = r /\ IndexOf(e).type = "index"
  BY <1>4 DEF Index
<1>6. HasIndex(e) /\ e.pointer # 0 /\ Sound(e, place[self])
  <2>1. e.file[place[self]].sealed
    BY <1>3 DEF Entry
  <2>2. place[self] \in DOMAIN e.file
    BY <1>3
  <2> QED  BY <1>3, <1>5, <2>1, <2>2 DEF HasIndex, Sound, IndexOf
<1>7. DOMAIN place = R \cup {self}
  BY <1>3
<1>8. ASSUME NEW id \in R
      PROVE  Sound(e, place[id]) /\ Data(e, place, id) = Data(d, b, id)
  <2>1. d.file[b[id]].sealed
    BY <1>2 DEF Sound
  <2> QED  BY <1>3, <2>1 DEF Sound, Data
<1>9. ASSUME NEW id \in R
      PROVE  /\ LastResults(d, b, id) => LastResults(e, place, id)
             /\ HistoryBlock(d, b, id) => HistoryBlock(e, place, id)
             /\ StreamBlock(d, b, id) => StreamBlock(e, place, id)
             /\ TestBlock(d, b, id) => TestBlock(e, place, id)
  BY <1>7, <1>8 DEF LastResults, HistoryBlock, StreamBlock, TestBlock
<1>10. ASSUME NEW id \in R, Results(d, b, id) PROVE Results(e, place, id)
  <2> DEFINE x == Data(d, b, id).rest
  <2>1. Data(d, b, id).type = "partial" /\ x # 0 /\ LastResults(d, b, x)
    BY <1>10 DEF Results
  <2>2. x \in R
    BY <1>2, <2>1, ReferencesAre
  <2>3. LastResults(e, place, x)
    BY <1>9, <2>1, <2>2
  <2> QED  BY <1>7, <1>8, <2>1, <2>3 DEF Results
<1>11. ASSUME NEW id \in R PROVE RefersWell(e, place, Data(e, place, id))
  <2> DEFINE block == Data(d, b, id)
  <2>1. RefersWell(d, b, block) /\ References(block) \subseteq R
    BY <1>2
  <2>2. \A i \in DOMAIN b : i # 0
    BY <1>2
  <2> HIDE DEF block
  <2>3. CASE block.type = "test"
    <3>1. HistoryBlock(d, b, block.history) /\ block.history # 0
          /\ (block.results # 0 => Results(d, b, block.results))
      BY <2>1, <2>2, <2>3 DEF RefersWell, HistoryBlock
    <3>2. block.history \in R /\ (block.results # 0 => block.results \in R)
      BY <2>1, <2>3, <3>1, ReferencesAre
    <3>3. HistoryBlock(e, place, block.history)
          /\ (block.results # 0 => Results(e, place, block.results))
      BY <1>9, <1>10, <3>1, <3>2
    <3> QED  BY <1>8, <2>3, <3>3 DEF RefersWell, block
  <2>4. CASE block.type = "partial"
    <3>1. block.rest # 0 => LastResults(d, b, block.rest) /\ block.rest \in R
      BY <2>1, <2>4, ReferencesAre DEF RefersWell
    <3>2. block.rest # 0 => LastResults(e, place, block.rest)
      BY <1>9, <3>1
    <3> QED  BY <1>8, <2>4, <3>2 DEF RefersWell, block
  <2>5. CASE block.type = "vector"
    <3>1. \A k \in DOMAIN block.chunks :
             StreamBlock(d, b, block.chunks[k].id) /\ block.chunks[k].id \in R
      BY <2>1, <2>5, ReferencesAre DEF RefersWell
    <3>2. \A k \in DOMAIN block.chunks : StreamBlock(e, place, block.chunks[k].id)
      BY <1>9, <3>1
    <3> QED  BY <1>8, <2>5, <3>2 DEF RefersWell, block
  <2>6. CASE block.type \notin {"test", "partial", "vector"}
    BY <1>8, <2>6 DEF RefersWell, block
  <2> QED  BY <2>3, <2>4, <2>5, <2>6
<1>12. RefersWell(e, place, Data(e, place, self))
  <2>1. Data(e, place, self).type = "index"
    BY <1>3 DEF Data, Entry, Index
  <2> QED  BY <2>1 DEF RefersWell
<1>13. WellFormed(e, place)
  <2>1. DOMAIN place \subseteq Nat \ {0}
    BY <1>3, <1>2, <1>7
  <2> QED  BY <1>6, <1>7, <1>8, <1>11, <1>12, <2>1, WellFormedFacts
<1>14. TestBlock(e, place, r)
  BY <1>2, <1>9
<1>15. HasGreatest(DOMAIN place)
  <2>1. self \in DOMAIN place /\ \A id \in DOMAIN place : id <= self
    BY <1>3, <1>7
  <2> QED  BY <2>1 DEF HasGreatest
<1>16. place \in [DOMAIN place -> Nat]
  BY <1>3, <1>7
<1>17. \A id \in R : Has(e, place, id) /\ Data(e, place, id) = Data(d, b, id)
  BY <1>7, <1>8 DEF Has
<1> QED  BY <1>3, <1>5, <1>6, <1>13, <1>14, <1>15, <1>16, <1>17 DEF e, R

LEMMA GcStep ==
    ASSUME TypeOK, StoreInv, Gc
    PROVE  TypeOK' /\ StoreInv'
<1> DEFINE b == IndexOf(disk).blocks
           r == IndexOf(disk).root
<1>1. /\ main.pc = "down" /\ HasIndex(disk) /\ disk' = Copy(disk)
      /\ handle' = handle /\ main' = main /\ writer' = writer /\ queue' = queue
      /\ ops' = ops /\ analyses' = analyses
  BY DEF Gc, Readable
<1>2. writer = NoWriter /\ handle = NewHandle
  BY <1>1 DEF StoreInv, TakingTurns, ReadBack
<1>3. WellFormed(disk, b) /\ TestBlock(disk, b, r) /\ HasGreatest(DOMAIN b)
  BY <1>1 DEF StoreInv, DiskIsSound, HasIndex
<1> DEFINE c == IndexOf(disk').blocks
<1>4. /\ IsDisk(disk') /\ disk'.pointer # 0 /\ HasIndex(disk') /\ WellFormed(disk', c)
      /\ TestBlock(disk', c, IndexOf(disk').root) /\ HasGreatest(DOMAIN c)
      /\ c \in [DOMAIN c -> Nat]
  BY <1>1, <1>3, DiskType, CopyIsSound
<1> HIDE DEF c
<1>5. TypeOK'
  BY <1>1, <1>4, HandleType, PlainTypes, TypeFromParts
<1>6. TakingTurns' /\ ReadBack'
  BY <1>1 DEF StoreInv, TakingTurns, ReadBack
<1>7. writer'.pc = "none" /\ ~handle'.written
  BY <1>1, <1>2, RestTypes
<1>8. main'.io = NoIo
  BY <1>1 DEF StoreInv, OpenBlocks, MainBlocks
<1>9. OpenBlocks'
  BY <1>7, <1>8 DEF OpenBlocks
<1>10. OpenIndex'
  <2>1. IndexIo' = NoIo
    BY <1>1, <1>7 DEF IndexIo
  <2> QED  BY <1>7, <2>1 DEF OpenIndex
<1>11. HandleIsSound'
  BY <1>1 DEF HandleIsSound, InUse
<1>12. DiskIsSound'
  BY <1>1, <1>4 DEF DiskIsSound, c
<1> QED  BY <1>5, <1>6, <1>9, <1>10, <1>11, <1>12 DEF StoreInv

-----------------------------------------------------------------------------
LEMMA StoreInit ==
    ASSUME Init
    PROVE  TypeOK /\ StoreInv
<1>1. /\ disk = [header |-> FALSE, pointer |-> 0, file |-> <<>>] /\ handle = NewHandle
      /\ main = [Down EXCEPT !.pc = "history"] /\ writer = NoWriter /\ queue = <<>>
      /\ ops = 0 /\ analyses = 0
  BY DEF Init
<1>2. IsDisk(disk) /\ disk.pointer = 0
  <2>1. disk.file = <<>> /\ disk.pointer = 0
    BY <1>1
  <2>2. disk \in [header : BOOLEAN, pointer : Nat, file : {disk.file}]
    BY <1>1
  <2> QED  BY <2>1, <2>2 DEF IsDisk
<1>3. /\ main \in MainStates /\ main.pc = "history" /\ main.io = NoIo /\ main.stage = 0
      /\ main.results = 0
  <2>1. "history" \in MainSteps
    BY DEF MainSteps, MainBlocks
  <2> QED  BY <1>1, <2>1, RestTypes DEF MainStates
<1>4. /\ writer \in WriterStates /\ writer.pc = "none" /\ IsHandle(handle)
      /\ handle.root = 0 /\ DOMAIN handle.blocks = {} /\ ~handle.written
  BY <1>1, RestTypes
<1>5. queue \in Seq(Nat) /\ ops \in 0 .. MaxOps /\ analyses \in 0 .. MaxAnalyses
  BY <1>1, StoreAssumption
<1>6. TypeOK
  BY <1>2, <1>3, <1>4, <1>5 DEF TypeOK, IsDisk, IsHandle
<1>7. TakingTurns
  BY <1>1, <1>3, <1>4 DEF TakingTurns, Working
<1>8. OpenBlocks
  BY <1>3, <1>4 DEF OpenBlocks
<1>9. OpenIndex
  <2>1. IndexIo = NoIo
    BY <1>3, <1>4 DEF IndexIo
  <2> QED  BY <1>4, <2>1 DEF OpenIndex
<1>10. ReadBack
  BY <1>3 DEF ReadBack
<1>11. HandleIsSound
  <2>1. DOMAIN Written(handle) = {}
    BY <1>4, WrittenFacts
  <2>2. WellFormed(DiskWithIndex, Written(handle))
    BY <2>1 DEF WellFormed
  <2>3. writer.pc \notin Working
    BY <1>4 DEF Working
  <2> QED  BY <1>3, <1>4, <2>2, <2>3 DEF HandleIsSound
<1>12. DiskIsSound
  BY <1>2, <1>3 DEF DiskIsSound
<1> QED  BY <1>6, <1>7, <1>8, <1>9, <1>10, <1>11, <1>12 DEF StoreInv

(* Every step but gc! leaves what is complete. *)
LEMMA StoreStep ==
    ASSUME TypeOK, StoreInv, [Next]_vars
    PROVE  TypeOK' /\ StoreInv' /\ (~Gc => Extends(disk, disk'))
<1>1. CASE MainBegin
  BY <1>1, MainBeginStep
<1>2. CASE MainSeal
  BY <1>2, MainSealStep
<1>3. CASE MainIndex
  BY <1>3, MainIndexStep
<1>4. CASE StartWriter
  BY <1>4, StartWriterStep
<1>5. CASE EndRun
  BY <1>5, EndRunStep
<1>6. CASE PutFinished
  BY <1>6, PutFinishedStep
<1>7. CASE JoinWriter
  BY <1>7, JoinWriterStep
<1>8. CASE LoadHistory
  BY <1>8, LoadHistoryStep
<1>9. CASE PrepResults
  BY <1>9, PrepResultsStep
<1>10. CASE CloseFile \/ Crash
  BY <1>10, StopStep DEF CloseFile, Crash
<1>11. CASE AppendOp
  BY <1>11, AppendOpStep
<1>12. CASE MainThrows
  BY <1>12, MainThrowsStep
<1>13. CASE OpenStream
  BY <1>13, OpenStreamStep
<1>14. CASE Take
  BY <1>14, TakeStep
<1>15. CASE SealStream
  BY <1>15, SealStreamStep
<1>16. CASE BeginVector
  BY <1>16, BeginVectorStep
<1>17. CASE SealVector
  BY <1>17, SealVectorStep
<1>18. CASE WriterIndex
  BY <1>18, WriterIndexStep
<1>19. CASE FlushStream
  BY <1>19, FlushStreamStep
<1>20. CASE WriterThrows
  BY <1>20, WriterThrowsStep
<1>21. CASE Analyze
  BY <1>21, AnalyzeStep
<1>22. CASE Gc
  BY <1>22, GcStep
<1>23. CASE UNCHANGED vars
  <2>1. /\ disk' = disk /\ handle' = handle /\ main' = main /\ writer' = writer
        /\ queue' = queue /\ ops' = ops /\ analyses' = analyses
    BY <1>23 DEF vars
  <2>2. TypeOK'
    BY <2>1, DiskType, HandleType, PlainTypes, TypeFromParts
  <2>3. TakingTurns' /\ ReadBack'
    BY <2>1 DEF StoreInv, TakingTurns, ReadBack
  <2>4. OpenBlocks'
    BY <2>1 DEF StoreInv, OpenBlocks, NextBlockOffset
  <2>5. IndexIo' = IndexIo /\ DiskWithIndex' = DiskWithIndex /\ InUse' = InUse
    BY <2>1 DEF IndexIo, DiskWithIndex, InUse
  <2>6. OpenIndex'
    BY <2>1, <2>5 DEF StoreInv, OpenIndex
  <2>7. HandleIsSound'
    BY <2>1, <2>5 DEF StoreInv, HandleIsSound
  <2>8. Extends(disk, disk')
    BY <2>1 DEF Extends
  <2>9. DiskIsSound'
    BY <2>1 DEF StoreInv, DiskIsSound
  <2> QED  BY <2>2, <2>3, <2>4, <2>6, <2>7, <2>8, <2>9 DEF StoreInv
<1> QED
  <2>1. Next \/ UNCHANGED vars
    OBVIOUS
  <2>2. MainStep => \/ MainBegin \/ MainSeal \/ MainIndex \/ StartWriter \/ EndRun
                    \/ PutFinished \/ JoinWriter \/ LoadHistory \/ PrepResults
                    \/ CloseFile \/ Crash
    BY DEF MainStep
  <2>3. WriterStep => \/ OpenStream \/ Take \/ SealStream \/ BeginVector \/ SealVector
                      \/ WriterIndex
    BY DEF WriterStep
  <2> QED
    BY <1>1, <1>2, <1>3, <1>4, <1>5, <1>6, <1>7, <1>8, <1>9, <1>10, <1>11, <1>12, <1>13,
       <1>14, <1>15, <1>16, <1>17, <1>18, <1>19, <1>20, <1>21, <1>22, <1>23,
       <2>1, <2>2, <2>3 DEF Next

(* Every variable has its type, the threads take turns, and both the handle and *)
(* the index on disk say of the file what is true.                              *)
THEOREM StoreInvariant == Spec => [](TypeOK /\ StoreInv)
<1>1. Init => TypeOK /\ StoreInv
  BY StoreInit
<1>2. TypeOK /\ StoreInv /\ [Next]_vars => (TypeOK /\ StoreInv)'
  BY StoreStep
<1> QED  BY <1>1, <1>2, PTL DEF Spec

(* What the invariant says of a reader: read-test finds the test, and whatever  *)
(* the test refers to.                                                          *)
LEMMA SoundDiskIsComplete ==
    ASSUME DiskIsSound
    PROVE  IndexedBlocksAreComplete
<1> SUFFICES ASSUME disk.pointer # 0 PROVE IndexedBlocksAreComplete
  BY DEF IndexedBlocksAreComplete
<1> DEFINE b == IndexOf(disk).blocks
           r == IndexOf(disk).root
<1>1. HasIndex(disk) /\ WellFormed(disk, b) /\ TestBlock(disk, b, r)
  BY DEF DiskIsSound
<1>2. \A id \in DOMAIN b : id # 0 /\ Sound(disk, b[id]) /\ RefersWell(disk, b, Data(disk, b, id))
  BY <1>1, WellFormedFacts
<1>3. Readable(disk)
  BY <1>1, <1>2 DEF Readable, Has, TestBlock
<1>4. \A id \in DOMAIN b : Has(disk, b, id)
  BY <1>2 DEF Has
<1>5. \A id \in Reachable(disk) : Has(disk, b, id)
  <2>1. Reachable(disk) \subseteq DOMAIN b
    BY <1>1, ReachableIsClosed
  <2> QED  BY <1>4, <2>1
<1>6. Root(disk) = Data(disk, b, r)
  BY DEF Root
<1>7. Root(disk).results # 0 => ResultsReadable
  <2> SUFFICES ASSUME Root(disk).results # 0 PROVE ResultsReadable
    OBVIOUS
  <2>1. RefersWell(disk, b, Root(disk)) /\ Root(disk).type = "test"
    BY <1>1, <1>2, <1>6 DEF TestBlock
  <2>2. Results(disk, b, Root(disk).results)
    BY <2>1 DEF RefersWell
  <2> QED  BY <1>4, <2>2 DEF Results, LastResults, ResultsReadable
<1> QED  BY <1>2, <1>3, <1>5, <1>7 DEF IndexedBlocksAreComplete

(* Whenever the process dies, every block that the index names is complete, and *)
(* whatever the test refers to is found: for every number of chunks and of      *)
(* analyses, and after any number of garbage collections.                       *)
THEOREM WhatIsIndexedIsComplete == Spec => []IndexedBlocksAreComplete
<1>1. StoreInv => IndexedBlocksAreComplete
  BY SoundDiskIsComplete DEF StoreInv
<1> QED  BY <1>1, StoreInvariant, PTL

(* A block that is sealed is never written again, except by gc!, which makes    *)
(* another file.                                                                *)
THEOREM WhatIsSealedIsFinal == Spec => SealedBlocksAreFinal
<1>1. TypeOK /\ StoreInv /\ [Next]_vars =>
         [~Gc => \A i \in DOMAIN disk.file : disk.file[i].sealed =>
                    i \in DOMAIN disk'.file /\ disk'.file[i] = disk.file[i]]_vars
  <2> SUFFICES ASSUME TypeOK, StoreInv, [Next]_vars, ~Gc
               PROVE  \A i \in DOMAIN disk.file : disk.file[i].sealed =>
                         i \in DOMAIN disk'.file /\ disk'.file[i] = disk.file[i]
    OBVIOUS
  <2>1. Extends(disk, disk')
    BY StoreStep
  <2> QED  BY <2>1 DEF Extends
<1> QED  BY <1>1, StoreInvariant, PTL DEF Spec, SealedBlocksAreFinal

-----------------------------------------------------------------------------
(* Which operations a block of the history holds. *)

(* A block of b in d is the same block of c in e. *)
Stays(d, b, e, c, id) ==
    Has(d, b, id) => Has(e, c, id) /\ Data(e, c, id) = Data(d, b, id)

LEMMA ChunkStays ==
    ASSUME NEW d, NEW b, NEW e, NEW c, NEW chunk, NEW end,
           Chunk(d, b, chunk, end), Stays(d, b, e, c, chunk.id)
    PROVE  Chunk(e, c, chunk, end)
  BY DEF Chunk, Stays

LEMMA ChunksStay ==
    ASSUME NEW d, NEW b, NEW e, NEW c, NEW chunks, NEW n,
           Chunked(d, b, chunks, n),
           \A k \in DOMAIN chunks : Stays(d, b, e, c, chunks[k].id)
    PROVE  Chunked(e, c, chunks, n)
<1> DEFINE end(k) == IF k = Len(chunks) THEN n ELSE chunks[k + 1].index
<1>1. \A k \in DOMAIN chunks : Chunk(d, b, chunks[k], end(k))
  BY DEF Chunked
<1> HIDE DEF end
<1>2. \A k \in DOMAIN chunks : Chunk(e, c, chunks[k], end(k))
  BY <1>1, ChunkStays
<1> QED  BY <1>2 DEF end, Chunked

LEMMA HoldsStays ==
    ASSUME NEW d, NEW b, NEW e, NEW c, NEW id, NEW n, Holds(d, b, id, n),
           Stays(d, b, e, c, id),
           \A r \in References(Data(d, b, id)) : Stays(d, b, e, c, r)
    PROVE  Holds(e, c, id, n)
<1> DEFINE block == Data(d, b, id)
<1>1. Has(d, b, id) /\ n \in Nat
  BY DEF Holds
<1>2. Has(e, c, id) /\ Data(e, c, id) = block
  BY <1>1 DEF Stays
<1>3. CASE block.type = "nil"
  BY <1>1, <1>2, <1>3 DEF Holds
<1>4. CASE block.type = "vector"
  <2>1. /\ block.count = n
        /\ block.chunks \in Seq([index : Nat, id : Nat])
        /\ Chunked(d, b, block.chunks, n)
    BY <1>4 DEF Holds
  <2>2. References(block) = {block.chunks[k].id : k \in DOMAIN block.chunks}
    BY <1>4 DEF References
  <2> HIDE DEF block
  <2>3. \A k \in DOMAIN block.chunks : Stays(d, b, e, c, block.chunks[k].id)
    BY <2>2 DEF block
  <2>4. Chunked(e, c, block.chunks, n)
    BY <2>1, <2>3, ChunksStay
  <2> QED  BY <1>1, <1>2, <1>4, <2>1, <2>4 DEF Holds
<1> QED  BY <1>3, <1>4 DEF Holds

(* A block holds what it counts. *)
LEMMA HoldsCount ==
    ASSUME NEW d, NEW b, NEW id, NEW n, Holds(d, b, id, n)
    PROVE  Count(d, b, id) = n /\ n \in Nat
  BY DEF Holds, Count

LEMMA NilHolds ==
    ASSUME NEW d, NEW b, NEW id, Has(d, b, id), Data(d, b, id) = NilHistory
    PROVE  Holds(d, b, id, 0)
  BY DEF Holds, NilHistory

LEMMA VectorHolds ==
    ASSUME NEW d, NEW b, NEW id, Has(d, b, id), NEW n \in Nat,
           NEW chunks \in Seq([index : Nat, id : Nat]),
           Data(d, b, id) = Vector(n, chunks), Chunked(d, b, chunks, n)
    PROVE  Holds(d, b, id, n)
<1>1. /\ Data(d, b, id).type = "vector" /\ Data(d, b, id).count = n
      /\ Data(d, b, id).chunks = chunks
  BY DEF Vector
<1> QED  BY <1>1 DEF Holds

LEMMA NothingIsChunked ==
    ASSUME NEW d, NEW b PROVE Chunked(d, b, <<>>, 0)
  BY DEF Chunked

LEMMA SequenceFacts ==
    ASSUME NEW S, NEW s \in Seq(S)
    PROVE  /\ Len(s) \in Nat /\ DOMAIN s = 1 .. Len(s)
           /\ \A i \in DOMAIN s : s[i] \in S
           /\ s # <<>> => 1 \in DOMAIN s
  OBVIOUS

(* One chunk more. *)
LEMMA ChunkAppended ==
    ASSUME NEW d, NEW b, NEW chunks \in Seq([index : Nat, id : Nat]), NEW n \in Nat,
           Chunked(d, b, chunks, n), NEW id \in Nat, NEW m \in Nat,
           Chunk(d, b, [index |-> n, id |-> id], m)
    PROVE  Chunked(d, b, Append(chunks, [index |-> n, id |-> id]), m)
<1> DEFINE x == [index |-> n, id |-> id]
           l == Len(chunks)
           t == Append(chunks, x)
           end(k) == IF k = l THEN n ELSE chunks[k + 1].index
           fin(k) == IF k = l + 1 THEN m ELSE t[k + 1].index
<1>1. /\ l \in Nat /\ DOMAIN chunks = 1 .. l /\ x.index = n
      /\ \A k \in 1 .. l : Chunk(d, b, chunks[k], end(k))
      /\ chunks = <<>> => n = 0
      /\ chunks # <<>> => chunks[1].index = 0
  <2>1. l \in Nat /\ DOMAIN chunks = 1 .. l /\ x.index = n
    OBVIOUS
  <2>2. \A k \in DOMAIN chunks : Chunk(d, b, chunks[k], end(k))
    BY Zenon DEF Chunked
  <2> QED  BY <2>1, <2>2, Zenon DEF Chunked
<1>2. x \in [index : Nat, id : Nat]
  OBVIOUS
<1> HIDE DEF x
<1>3. /\ Len(t) = l + 1 /\ DOMAIN t = 1 .. l + 1 /\ t[l + 1] = x
      /\ \A k \in 1 .. l : t[k] = chunks[k]
  BY <1>2
<1>4. t # <<>> /\ t[1].index = 0
  <2>1. CASE chunks = <<>>
    BY <1>1, <1>3, <2>1
  <2>2. CASE chunks # <<>>
    <3>1. 1 \in DOMAIN chunks
      BY <2>2, SequenceFacts, Zenon
    <3>2. t[1] = chunks[1] /\ chunks[1].index = 0
      BY <1>1, <1>3, <2>2, <3>1
    <3>3. t # <<>>
      <4>1. l + 1 \in DOMAIN t
        <5> HIDE DEF t, l
        <5> QED  BY <1>1, <1>3
      <4> HIDE DEF t, l
      <4> QED  BY <4>1
    <3> QED  BY <3>2, <3>3
  <2> QED  BY <2>1, <2>2
<1> HIDE DEF t, l
<1>5. \A k \in 1 .. l : fin(k) = end(k)
  BY <1>1, <1>3
<1>6. fin(l + 1) = m
  OBVIOUS
<1> HIDE DEF fin, end
<1>7. \A k \in 1 .. l + 1 : Chunk(d, b, t[k], fin(k))
  <2> SUFFICES ASSUME NEW k \in 1 .. l + 1 PROVE Chunk(d, b, t[k], fin(k))
    OBVIOUS
  <2>1. CASE k = l + 1
    BY <1>3, <1>6, <2>1 DEF x
  <2>2. CASE k # l + 1
    <3>1. k \in 1 .. l
      BY <1>1, <2>2
    <3> QED  BY <1>1, <1>3, <1>5, <3>1
  <2> QED  BY <2>1, <2>2
<1>8. Chunked(d, b, t, m)
  BY <1>3, <1>4, <1>7 DEF fin, Chunked
<1> QED  BY <1>8 DEF t, x

(* nth finds every operation: the chunk that it takes begins before it, and the *)
(* next one, if there is one, does not.                                         *)
LEMMA NthIs ==
    ASSUME NEW d, NEW b, NEW chunks \in Seq([index : Nat, id : Nat]), NEW n \in Nat,
           Chunked(d, b, chunks, n), NEW i \in 1 .. n
    PROVE  Nth(d, b, chunks, i) = i
<1> DEFINE l == Len(chunks)
           before == {k \in DOMAIN chunks : chunks[k].index < i}
           end(k) == IF k = l THEN n ELSE chunks[k + 1].index
<1>1. /\ l \in Nat /\ DOMAIN chunks = 1 .. l
      /\ \A k \in 1 .. l : Chunk(d, b, chunks[k], end(k))
      /\ chunks # <<>> /\ chunks[1].index = 0
  <2>1. l \in Nat /\ DOMAIN chunks = 1 .. l
    OBVIOUS
  <2>2. \A k \in DOMAIN chunks : Chunk(d, b, chunks[k], end(k))
    BY Zenon DEF Chunked
  <2>3. chunks # <<>>
    <3>1. n # 0
      OBVIOUS
    <3> QED  BY <3>1, Zenon DEF Chunked
  <2> QED  BY <2>1, <2>2, <2>3, Zenon DEF Chunked
<1>2. 1 \in before
  <2>1. 1 \in DOMAIN chunks
    BY <1>1, SequenceFacts, Zenon
  <2>2. chunks[1].index < i
    <3>1. 0 < i
      OBVIOUS
    <3> QED  BY <1>1, <3>1
  <2> QED  BY <2>1, <2>2
<1>3. before \subseteq Nat /\ before # {} /\ \A k \in before : k <= l
  <2>1. \A k \in before : k \in 1 .. l
    BY <1>1
  <2> HIDE DEF before, l
  <2> QED  BY <1>1, <1>2, <2>1
<1>4. HasGreatest(before)
  <2> HIDE DEF before, l
  <2> QED  BY <1>1, <1>3, BoundedHasGreatest
<1>5. PICK m \in before : \A k \in before : k <= m
  BY <1>4 DEF HasGreatest
<1>6. Max(before) = m
  <2>1. before \in SUBSET Int
    BY <1>3
  <2> HIDE DEF before
  <2> QED  BY <1>5, <2>1, MaxIs
<1>7. m \in 1 .. l /\ chunks[m].index < i /\ chunks[m].index \in Nat
  <2>1. m \in DOMAIN chunks /\ chunks[m].index < i
    BY <1>5
  <2>2. chunks[m] \in [index : Nat, id : Nat]
    BY <2>1, SequenceFacts, Zenon
  <2> QED  BY <1>1, <2>1, <2>2
<1>8. i <= end(m) /\ end(m) \in Nat
  <2>1. CASE m = l
    BY <2>1
  <2>2. CASE m # l
    <3>1. m + 1 \in DOMAIN chunks /\ m + 1 \in Nat /\ ~(m + 1 <= m)
      <4> HIDE DEF l
      <4> QED  BY <1>1, <1>7, <2>2
    <3>2. m + 1 \notin before
      <4> HIDE DEF before
      <4> QED  BY <1>5, <3>1
    <3>3. chunks[m + 1] \in [index : Nat, id : Nat]
      BY <3>1, SequenceFacts, Zenon
    <3>4. ~(chunks[m + 1].index < i) /\ chunks[m + 1].index \in Nat
      BY <3>1, <3>2, <3>3
    <3>5. end(m) = chunks[m + 1].index
      BY <2>2
    <3> HIDE DEF end, l, before
    <3> QED  BY <3>4, <3>5
  <2> QED  BY <2>1, <2>2
<1> DEFINE c    == chunks[m]
           data == Data(d, b, c.id)
<1>9. Chunk(d, b, c, end(m))
  BY <1>1, <1>7
<1> HIDE DEF end
<1>10. /\ Has(d, b, c.id) /\ data.type = "stream" /\ data.ops \in Seq(Nat)
       /\ \A j \in DOMAIN data.ops : data.ops[j] = c.index + j
       /\ c.index + Len(data.ops) = end(m)
  BY <1>9 DEF Chunk
<1>11. i - c.index \in DOMAIN data.ops /\ c.index + (i - c.index) = i
  <2>1. c.index < i /\ c.index \in Nat
    BY <1>7
  <2>2. DOMAIN data.ops = 1 .. Len(data.ops) /\ Len(data.ops) \in Nat
    BY <1>10
  <2>3. c.index + Len(data.ops) = end(m) /\ end(m) \in Nat /\ i <= end(m)
    BY <1>8, <1>10
  <2> DEFINE x == c.index
             z == Len(data.ops)
  <2> HIDE DEF x, z, c, data
  <2>4. i - x \in 1 .. z /\ x + (i - x) = i
    <3>1. x < i /\ x \in Nat /\ z \in Nat /\ x + z = end(m)
      BY <2>1, <2>2, <2>3 DEF x, z
    <3> QED  BY <2>3, <3>1
  <2> QED  BY <2>2, <2>4 DEF x, z
<1>12. data.ops[i - c.index] = i
  <2> HIDE DEF c, data
  <2> QED  BY <1>10, <1>11
<1>13. Nth(d, b, chunks, i) = data.ops[i - c.index]
  <2>1. Nth(d, b, chunks, i)
        = IF Has(d, b, c.id) /\ data.type = "stream" /\ i - c.index \in DOMAIN data.ops
          THEN data.ops[i - c.index] ELSE NoOp
    BY <1>6 DEF Nth
  <2> QED  BY <1>10, <1>11, <2>1
<1> QED  BY <1>12, <1>13

(* So the history that is read is the one that was appended. *)
LEMMA HistoryIs ==
    ASSUME NEW d, NEW b, NEW id, NEW n, Holds(d, b, id, n)
    PROVE  HistoryOf(d, b, id) = [i \in 1 .. n |-> i]
<1> DEFINE block == Data(d, b, id)
<1>1. Has(d, b, id) /\ n \in Nat
  BY DEF Holds
<1>2. CASE block.type = "nil"
  <2>1. n = 0 /\ HistoryOf(d, b, id) = <<>>
    BY <1>2 DEF Holds, HistoryOf
  <2>2. [i \in 1 .. 0 |-> i] = <<>>
    OBVIOUS
  <2> QED  BY <2>1, <2>2
<1>3. CASE block.type = "vector"
  <2>1. /\ block.count = n
        /\ block.chunks \in Seq([index : Nat, id : Nat])
        /\ Chunked(d, b, block.chunks, n)
    BY <1>3 DEF Holds
  <2>2. HistoryOf(d, b, id) = [i \in 1 .. n |-> Nth(d, b, block.chunks, i)]
    BY <1>1, <1>3, <2>1 DEF HistoryOf
  <2> HIDE DEF block
  <2>3. \A i \in 1 .. n : Nth(d, b, block.chunks, i) = i
    BY <1>1, <2>1, NthIs
  <2> QED  BY <2>2, <2>3
<1> QED  BY <1>2, <1>3 DEF Holds

-----------------------------------------------------------------------------
(* How the views of the history that the file and the handle give change. *)

LEMMA ExtendsStays ==
    ASSUME NEW d, NEW e, NEW b, NEW c, NEW id, Extends(d, e),
           id \in DOMAIN b => id \in DOMAIN c /\ c[id] = b[id]
    PROVE  Stays(d, b, e, c, id)
  BY DEF Extends, Stays, Has, Sound, Data

LEMMA SavedIsNat == ASSUME DiskHolds PROVE Saved \in Nat
  BY HoldsCount DEF DiskHolds, Saved

(* The root of an index that is sound. *)
LEMMA RootIsThere ==
    ASSUME DiskIsSound, disk.pointer # 0
    PROVE  Has(disk, IndexOf(disk).blocks, IndexOf(disk).root)
<1>1. /\ WellFormed(disk, IndexOf(disk).blocks)
      /\ TestBlock(disk, IndexOf(disk).blocks, IndexOf(disk).root)
  BY DEF DiskIsSound
<1> QED  BY <1>1, WellFormedFacts DEF TestBlock, Has

(* The file grows and the pointer stays. *)
LEMMA DiskViewStays ==
    ASSUME DiskIsSound, DiskHolds, Extends(disk, disk'), disk'.pointer = disk.pointer
    PROVE  /\ DiskHolds' /\ Saved' = Saved
           /\ disk.pointer # 0 => Root(disk') = Root(disk)
<1>1. CASE disk.pointer = 0
  BY <1>1 DEF DiskHolds, Saved
<1>2. CASE disk.pointer # 0
  <2> DEFINE b == IndexOf(disk).blocks
             r == IndexOf(disk).root
             h == Root(disk).history
             n == Saved
  <2>1. disk'.pointer \in DOMAIN disk'.file
        /\ disk'.file[disk'.pointer] = disk.file[disk.pointer]
    <3>1. disk.pointer \in DOMAIN disk.file /\ disk.file[disk.pointer].sealed
      BY <1>2 DEF DiskIsSound, HasIndex, Sound
    <3>2. disk.pointer \in DOMAIN disk'.file
          /\ disk'.file[disk.pointer] = disk.file[disk.pointer]
      BY <3>1, Zenon DEF Extends
    <3> QED  BY <3>2
  <2>2. IndexOf(disk') = IndexOf(disk)
    BY <2>1 DEF IndexOf
  <2>3. Has(disk, b, r) /\ Holds(disk, b, h, n) /\ Root(disk) = Data(disk, b, r)
    BY <1>2, RootIsThere DEF DiskHolds, Root
  <2>4. IndexOf(disk').blocks = b /\ IndexOf(disk').root = r
    BY <2>2
  <2> HIDE DEF b, r, h, n
  <2>5. \A id : Stays(disk, b, disk', b, id)
    BY ExtendsStays
  <2>6. Root(disk') = Data(disk', b, r)
    BY <2>4 DEF Root
  <2>7. Root(disk') = Root(disk)
    BY <2>3, <2>5, <2>6 DEF Stays
  <2>8. Holds(disk', b, h, n)
    BY <2>3, <2>5, HoldsStays
  <2>9. Count(disk', b, h) = n
    BY <2>8, HoldsCount
  <2>10. Saved' = n
    <3>1. Saved' = Count(disk', IndexOf(disk').blocks, Root(disk').history)
      BY <1>2 DEF Saved
    <3> QED  BY <2>4, <2>7, <2>9, <3>1 DEF h
  <2>11. DiskHolds'
    <3>1. Holds(disk', IndexOf(disk').blocks, Root(disk').history, Saved')
      BY <2>4, <2>7, <2>8, <2>10 DEF h
    <3> QED  BY <3>1 DEF DiskHolds
  <2> QED  BY <2>7, <2>10, <2>11 DEF n
<1> QED  BY <1>1, <1>2

(* A file and an index that have the handle's blocks, the same ones.  *)
HandleStays(e, c) ==
    \A id : Stays(DiskWithIndex, Written(handle), e, c, id)

LEMMA HandleViewStays ==
    ASSUME NEW e, NEW c, Extends(DiskWithIndex, e),
           \A id \in DOMAIN Written(handle) : id \in DOMAIN c /\ c[id] = Written(handle)[id]
    PROVE  HandleStays(e, c)
  BY ExtendsStays DEF HandleStays

LEMMA HandleRootIsThere ==
    ASSUME HandleIsSound, InUse, handle.root # 0
    PROVE  Has(DiskWithIndex, Written(handle), handle.root)
<1> DEFINE d == DiskWithIndex
           b == Written(handle)
<1>1. WellFormed(d, b) /\ TestBlock(d, b, handle.root)
  BY DEF HandleIsSound
<1> HIDE DEF d, b
<1>2. Has(d, b, handle.root)
  BY <1>1, WellFormedFacts DEF TestBlock, Has
<1> QED  BY <1>2 DEF d, b

(* The root and the history of a handle that stays. *)
LEMMA HandleKeepsTest ==
    ASSUME HandleIsSound, InUse, NEW e, NEW c, HandleStays(e, c)
    PROVE  /\ handle.root # 0 =>
                 Data(e, c, handle.root) = Data(DiskWithIndex, Written(handle), handle.root)
           /\ \A id, n : Holds(DiskWithIndex, Written(handle), id, n) => Holds(e, c, id, n)
<1> DEFINE d == DiskWithIndex
           b == Written(handle)
<1>1. \A id : Stays(d, b, e, c, id)
  BY DEF HandleStays
<1>2. handle.root # 0 => Has(d, b, handle.root)
  BY HandleRootIsThere
<1> HIDE DEF d, b
<1>3. handle.root # 0 => Data(e, c, handle.root) = Data(d, b, handle.root)
  BY <1>1, <1>2 DEF Stays
<1>4. \A id, n : Holds(d, b, id, n) => Holds(e, c, id, n)
  BY <1>1, HoldsStays
<1> QED  BY <1>3, <1>4 DEF d, b

(* A step that neither moves the main thread nor changes what it refers to. *)
LEMMA ViewsStay ==
    ASSUME DiskIsSound, HandleIsSound, RootInv, DiskHolds, HandleHolds,
           Extends(disk, disk'), disk'.pointer = disk.pointer,
           handle'.root = handle.root, handle'.read = handle.read,
           InUse' => InUse /\ HandleStays(DiskWithIndex', Written(handle')),
           main'.pc = main.pc, main'.stage = main.stage, main'.history = main.history,
           main'.results = main.results, ops' = ops,
           Starting => queue' = queue,
           \/ writer.pc # "index" /\ writer'.pc # "index"
           \/ writer.pc = "index" /\ writer'.pc = "index"
              /\ writer'.completed = writer.completed
    PROVE  RootInv' /\ DiskHolds' /\ HandleHolds' /\ Saved' = Saved
<1> DEFINE d == DiskWithIndex
           b == Written(handle)
           e == DiskWithIndex'
           c == Written(handle')
           n == IF writer.pc = "index" THEN writer.completed ELSE Saved
<1>1. /\ DiskHolds' /\ Saved' = Saved
      /\ disk.pointer # 0 => Root(disk') = Root(disk)
  BY DiskViewStays
<1>2. InUse' => InUse
      /\ (handle.root # 0 => Data(e, c, handle.root) = Data(d, b, handle.root))
      /\ \A id, m : Holds(d, b, id, m) => Holds(e, c, id, m)
  BY HandleKeepsTest
<1>3. (IF writer'.pc = "index" THEN writer'.completed ELSE Saved') = n
  BY <1>1
<1>4. InUse /\ main.pc # "history" /\ (main.pc = "prep" => handle.read) =>
         Holds(d, b, main.history, n)
  BY DEF HandleHolds
<1>5. InUse /\ (Running \/ main.pc = "index") => handle.root # 0
  BY DEF HandleIsSound, Running
<1>6. /\ InUse /\ Running => Data(d, b, handle.root) = Test(0, main.history, 0)
      /\ InUse /\ main.pc = "index" =>
            Data(d, b, handle.root) = Test(main.stage, main.history, main.results)
  BY DEF RootInv
<1> HIDE DEF d, b, e, c, n
<1>7. InUse' /\ main'.pc # "history" /\ (main'.pc = "prep" => handle'.read) =>
         Holds(e, c, main'.history, n)
  BY <1>2, <1>4
<1>8. HandleHolds'
  BY <1>3, <1>7 DEF HandleHolds, e, c
<1>9. (Running' <=> Running) /\ (Starting' <=> Starting) /\ (SavingHistory' <=> SavingHistory)
  BY DEF Running, Starting, SavingHistory
<1>10. /\ InUse' /\ Running' => Data(e, c, handle'.root) = Test(0, main'.history, 0)
       /\ InUse' /\ main'.pc = "index" =>
             Data(e, c, handle'.root) = Test(main'.stage, main'.history, main'.results)
  BY <1>2, <1>5, <1>6, <1>9
<1>11. /\ Starting' => disk'.pointer = 0 /\ queue' = <<>>
       /\ disk'.pointer = 0 => ops' = 0
       /\ Running' \/ SavingHistory' =>
             disk'.pointer # 0 /\ Root(disk') = Test(0, main'.history, 0)
       /\ main'.pc \notin {"down", "close file"} /\ main'.stage = 2 =>
             disk'.pointer # 0 /\ Root(disk').history = main'.history
       /\ main'.pc \in {"test", "index"} => (main'.stage = 2 <=> main'.results # 0)
  BY <1>1, <1>9 DEF RootInv
<1>12. RootInv'
  BY <1>10, <1>11 DEF RootInv, e, c
<1> QED  BY <1>1, <1>8, <1>12

(* While the history writer does not work. *)
LEMMA WriterIdles ==
    ASSUME LossInv, QueueInv, writer' = writer, writer.pc \notin Working, queue' = queue,
           ops' = ops, Saved' = Saved,
           main'.pc = "start" => ops = 0 /\ queue = <<>>,
           main'.pc = "run" => main.pc = "run",
           main'.pc = "load" \/ SavingHistory' => writer.pc = "exit"
    PROVE  WriterInv' /\ QueueInv' /\ LossInv'
<1>1. WriterInv'
  BY DEF WriterInv
<1>2. QueueInv'
  BY DEF QueueInv, Capacity
<1>3. LossInv'
  BY DEF LossInv, Capacity
<1> QED  BY <1>1, <1>2, <1>3

-----------------------------------------------------------------------------
(* The steps of the main thread that change no view. *)

LEMMA MainStays ==
    ASSUME TypeOK, StoreInv, ContentsInv, writer.pc \notin Working,
           Extends(disk, disk'), disk'.pointer = disk.pointer,
           handle'.root = handle.root, handle'.read = handle.read,
           HandleStays(DiskWithIndex', Written(handle')),
           main'.pc = main.pc, main'.stage = main.stage, main'.history = main.history,
           main'.results = main.results, UNCHANGED <<writer, queue, ops>>
    PROVE  ContentsInv'
<1>1. writer.pc # "index" /\ writer'.pc # "index" /\ (InUse' => InUse)
  BY DEF Working, InUse
<1>2. RootInv' /\ DiskHolds' /\ HandleHolds' /\ Saved' = Saved
  BY <1>1, ViewsStay DEF StoreInv, ContentsInv
<1>3. WriterInv' /\ QueueInv' /\ LossInv'
  <2>1. SavingHistory' <=> SavingHistory
    BY DEF SavingHistory
  <2>2. LossInv /\ QueueInv
    BY DEF ContentsInv
  <2>3. /\ main'.pc = "start" => ops = 0 /\ queue = <<>>
        /\ main'.pc = "load" \/ SavingHistory' => writer.pc = "exit"
    BY <2>1, <2>2 DEF LossInv
  <2> QED  BY <1>2, <2>2, <2>3, WriterIdles
<1> QED  BY <1>2, <1>3 DEF ContentsInv

LEMMA MainBeginContents ==
    ASSUME TypeOK, StoreInv, ContentsInv, MainBegin
    PROVE  ContentsInv'
<1>1. main.pc \in MainBlocks /\ main.pc # "index" /\ main.io = NoIo
  BY DEF MainBegin, MainBlocks
<1>2. writer.pc \notin Working /\ writer.pc # "index"
  BY <1>1, MainWrites DEF StoreInv, Working
<1>3. /\ disk' = WriteAt(NewBlock.at, MainData, FALSE)
      /\ handle' = AssocBlock(handle, NewBlock.id, Reserved)
      /\ main' = [main EXCEPT !.io = NewBlock]
      /\ writer' = writer /\ queue' = queue /\ ops' = ops
  BY DEF MainBegin
<1>4. Extends(disk, disk') /\ disk'.pointer = disk.pointer
  <2>1. IsWrite(disk, disk', NewBlock.at, MainData, FALSE)
    BY <1>3, NewBlockFacts, OpenWrite
  <2>2. Extends(disk, disk')
    BY <2>1, NewBlockFacts, WriteExtends
  <2> QED  BY <2>1, <2>2 DEF IsWrite
<1>5. handle'.root = handle.root /\ handle'.read = handle.read
  BY <1>3, NewBlockFacts, HandleType, AssocEffect DEF Reserved
<1>6. Written(handle') = Written(handle)
  BY <1>3, NewBlockFacts, HandleType, ReservedIsNotWritten
<1>7. /\ main'.pc = main.pc /\ main'.stage = main.stage /\ main'.history = main.history
      /\ main'.results = main.results
  BY <1>3, PlainTypes DEF MainStates
<1>8. DiskWithIndex = disk /\ DiskWithIndex' = disk'
  <2>1. IndexIo = NoIo /\ IndexIo' = NoIo
    BY <1>1, <1>2, <1>3, <1>7 DEF IndexIo
  <2> QED  BY <2>1 DEF DiskWithIndex
<1>9. HandleStays(DiskWithIndex', Written(handle'))
  BY <1>4, <1>6, <1>8, HandleViewStays
<1> QED  BY <1>2, <1>3, <1>4, <1>5, <1>7, <1>9, MainStays

LEMMA MainPrepWriteContents ==
    ASSUME TypeOK, StoreInv, ContentsInv, main.pc = "index", PrepWrite(main.io),
           UNCHANGED <<main, writer, queue, ops, analyses>>
    PROVE  ContentsInv'
<1>1. writer.pc \notin Working /\ writer.pc # "index" /\ main.io = NoIo
  BY MainWrites DEF StoreInv, Working, PrepWrite
<1>2. DiskWithIndex = disk /\ DiskWithIndex' = disk'
  <2>1. IndexIo = NoIo /\ IndexIo' = NoIo
    BY <1>1 DEF IndexIo
  <2> QED  BY <2>1 DEF DiskWithIndex
<1>3. disk'.file = disk.file /\ disk'.pointer = disk.pointer
  BY DEF PrepWrite, TypeOK
<1>4. handle'.root = handle.root /\ handle'.read = handle.read
      /\ handle'.blocks = handle.blocks
  BY HandleType DEF PrepWrite, IsHandle
<1>5. Extends(disk, disk') /\ Written(handle') = Written(handle)
  BY <1>3, <1>4 DEF Extends, Written
<1>6. HandleStays(DiskWithIndex', Written(handle'))
  BY <1>2, <1>5, HandleViewStays
<1> QED  BY <1>1, <1>3, <1>4, <1>5, <1>6, MainStays

LEMMA AssignedWritten ==
    ASSUME NEW h, IsHandle(h), NEW id \in Nat \ {0}, NEW at \in Nat \ {0},
           id \in DOMAIN h.blocks \/ \A j \in DOMAIN h.blocks : j <= id,
           NEW g, g = AssocBlock(h, id, at)
    PROVE  /\ DOMAIN Written(g) = DOMAIN Written(h) \cup {id}
           /\ Written(g)[id] = at
           /\ \A j \in DOMAIN Written(h) \ {id} : Written(g)[j] = Written(h)[j]
  BY AssignedIsWritten

(* The block of the index is a new one. *)
LEMMA IndexStays ==
    ASSUME TypeOK, StoreInv, NEW io, BeginIndex(io), InUse, DiskWithIndex = disk,
           DiskWithIndex' = Sealed(disk', NewBlock.at)
    PROVE  /\ Extends(disk, disk') /\ disk'.pointer = disk.pointer
           /\ handle'.root = handle.root /\ handle'.read = handle.read
           /\ HandleStays(DiskWithIndex', Written(handle'))
<1> DEFINE at == NewBlock.at
           e  == Sealed(disk', at)
           x  == disk'.file[at].data
<1>1. WellFormed(disk, Written(handle)) /\ (handle.written => disk.header)
  BY DEF StoreInv, HandleIsSound, OpenIndex
<1>2. /\ IsDisk(disk') /\ Extends(disk, disk') /\ disk'.pointer = disk.pointer
      /\ handle'.root = handle.root /\ handle'.read = handle.read
      /\ at \in DOMAIN disk'.file
  BY <1>1, BeginIndexEffect
<1>3. IsWrite(disk', e, at, x, TRUE)
  BY <1>2, SealEffect
<1>4. at \notin DOMAIN disk.file
  BY NewBlockFacts
<1> HIDE DEF at, e, x
<1>5. Extends(disk, e)
  <2>1. ASSUME NEW i \in DOMAIN disk.file, disk.file[i].sealed
        PROVE  i \in DOMAIN e.file /\ e.file[i] = disk.file[i]
    <3>1. i \in DOMAIN disk'.file /\ disk'.file[i] = disk.file[i] /\ i # at
      BY <1>2, <1>4, <2>1 DEF Extends
    <3> QED  BY <1>3, <3>1 DEF IsWrite
  <2> QED  BY <2>1 DEF Extends
<1>6. \A id \in DOMAIN Written(handle) :
         id \in DOMAIN Written(handle') /\ Written(handle')[id] = Written(handle)[id]
  <2> DEFINE id == NewBlock.id
             o  == NewBlock.at
  <2>1. handle' = AssocBlock(handle, id, o)
    BY DEF BeginIndex
  <2>2. id \notin DOMAIN Written(handle)
    BY NewBlockFacts, WrittenFacts
  <2>3. /\ id \in Nat \ {0} /\ o \in Nat \ {0} /\ IsHandle(handle)
        /\ \A j \in DOMAIN handle.blocks : j <= id
    BY NewBlockFacts, HandleType
  <2> HIDE DEF id, o
  <2>4. /\ DOMAIN Written(handle') = DOMAIN Written(handle) \cup {id}
        /\ \A j \in DOMAIN Written(handle) \ {id} :
              Written(handle')[j] = Written(handle)[j]
    <3>1. id \in Nat \ {0}
      BY <2>3
    <3>2. o \in Nat \ {0}
      BY <2>3
    <3>3. IsHandle(handle)
      BY <2>3
    <3>4. id \in DOMAIN handle.blocks \/ \A j \in DOMAIN handle.blocks : j <= id
      BY <2>3
    <3> QED  BY <2>1, <3>1, <3>2, <3>3, <3>4, AssignedWritten
  <2> QED  BY <2>2, <2>4
<1>7. HandleStays(DiskWithIndex', Written(handle'))
  BY <1>5, <1>6, HandleViewStays DEF e, at
<1> QED  BY <1>2, <1>7

LEMMA MainBeginIndexContents ==
    ASSUME TypeOK, StoreInv, ContentsInv, main.pc = "index", BeginIndex(main.io),
           main' = [main EXCEPT !.io = NewBlock],
           UNCHANGED <<writer, queue, ops, analyses>>
    PROVE  ContentsInv'
<1>1. writer.pc \notin Working /\ writer.pc # "index" /\ main.io = NoIo /\ InUse
  BY MainWrites DEF StoreInv, Working, BeginIndex
<1>2. /\ main'.pc = main.pc /\ main'.stage = main.stage /\ main'.history = main.history
      /\ main'.results = main.results /\ main'.io = NewBlock
  BY PlainTypes DEF MainStates
<1>3. DiskWithIndex = disk /\ DiskWithIndex' = Sealed(disk', NewBlock.at)
  <2>1. IndexIo = NoIo /\ IndexIo' = NewBlock /\ NewBlock # NoIo
    BY <1>1, <1>2, NewBlockFacts DEF IndexIo
  <2> QED  BY <2>1 DEF DiskWithIndex
<1> QED  BY <1>1, <1>2, <1>3, IndexStays, MainStays

LEMMA MainSealIndexContents ==
    ASSUME TypeOK, StoreInv, ContentsInv, main.pc = "index", SealIndex(main.io),
           UNCHANGED <<main, writer, queue, ops, analyses>>
    PROVE  ContentsInv'
<1> DEFINE at == main.io.at
<1>1. writer.pc \notin Working /\ writer.pc # "index" /\ main.io # NoIo
  BY MainWrites DEF StoreInv, Working, SealIndex
<1>2. /\ IndexIo = main.io /\ DiskWithIndex = Sealed(disk, at)
      /\ DiskWithIndex' = Sealed(disk', at)
  BY <1>1 DEF IndexIo, DiskWithIndex
<1>3. at \in DOMAIN disk.file
  BY <1>1, <1>2 DEF StoreInv, OpenIndex
<1>4. /\ Extends(disk, disk') /\ handle' = handle /\ disk'.pointer = disk.pointer
      /\ Extends(Sealed(disk, at), Sealed(disk', at))
  BY <1>3, SealIndexEffect
<1>5. HandleStays(DiskWithIndex', Written(handle'))
  BY <1>2, <1>4, HandleViewStays
<1> QED  BY <1>1, <1>4, <1>5, MainStays

-----------------------------------------------------------------------------
(* The main thread completes a block. *)

(* What it writes where, and what it goes on with. *)
LEMMA MainSealEffect ==
    ASSUME TypeOK, StoreInv, MainSeal
    PROVE  LET id == main.io.id
               c  == Written(handle')
           IN  /\ writer.pc \notin Working /\ InUse
               /\ id # 0
               /\ Extends(disk, disk') /\ disk'.pointer = disk.pointer
               /\ DiskWithIndex' = disk' /\ HandleStays(disk', c)
               /\ Has(disk', c, id) /\ Data(disk', c, id) = MainData
               /\ handle'.root = IF main.pc = "test" THEN id ELSE handle.root
               /\ main'.pc = AfterBlock[main.pc] /\ main'.stage = main.stage
               /\ main'.history = IF main.pc = "history" THEN id ELSE main.history
               /\ main'.results = IF main.pc \in {"more", "results"} THEN id
                                  ELSE main.results
               /\ writer' = writer /\ queue' = queue /\ ops' = ops
<1> DEFINE id == main.io.id
           at == main.io.at
           b  == Written(handle)
           c  == Written(handle')
           h  == AssocBlock(handle, id, at)
<1>1. main.pc \in MainBlocks /\ main.io # NoIo /\ main.pc # "index"
  BY DEF MainSeal, MainBlocks
<1>2. writer.pc \notin Working /\ writer.pc # "index" /\ InUse
  BY <1>1, MainWrites DEF StoreInv, Working
<1>3. /\ at \in DOMAIN disk.file /\ ~disk.file[at].sealed
      /\ id \in DOMAIN handle.blocks /\ handle.blocks[id] = Reserved
  BY <1>1 DEF StoreInv, OpenBlocks
<1>4. id \in Nat \ {0} /\ at \in Nat \ {0}
  BY <1>3, HandleType, DiskType, FileFacts DEF IsHandle
<1>5. /\ disk' = WriteAt(at, MainData, TRUE)
      /\ handle' = IF main.pc = "test" THEN [h EXCEPT !.root = id] ELSE h
      /\ main' = [main EXCEPT
                    !.pc = AfterBlock[main.pc], !.io = NoIo,
                    !.history = IF main.pc = "history" THEN id ELSE main.history,
                    !.results = IF main.pc \in {"more", "results"} THEN id ELSE main.results]
      /\ writer' = writer /\ queue' = queue /\ ops' = ops
  BY DEF MainSeal
<1>6. IsWrite(disk, disk', at, MainData, TRUE)
  BY <1>3, <1>5, SealedWrite
<1>7. Extends(disk, disk')
  BY <1>3, <1>6, WriteExtends
<1>8. IsHandle(h) /\ h.root = handle.root
  BY <1>3, <1>4, HandleType, AssocEffect
<1>9. DOMAIN Written(h) = DOMAIN b \cup {id} /\ Written(h)[id] = at
      /\ \A j \in DOMAIN b \ {id} : Written(h)[j] = b[j]
  BY <1>3, <1>4, HandleType, AssignedIsWritten
<1> HIDE DEF h
<1>10. /\ handle'.blocks = h.blocks
       /\ handle'.root = IF main.pc = "test" THEN id ELSE handle.root
  BY <1>4, <1>5, <1>8 DEF IsHandle
<1>11. c = Written(h)
  BY <1>10 DEF Written
<1>12. id \notin DOMAIN b
  BY <1>3, WrittenFacts
<1>13. /\ main'.pc = AfterBlock[main.pc] /\ main'.io = NoIo /\ main'.stage = main.stage
       /\ main'.history = IF main.pc = "history" THEN id ELSE main.history
       /\ main'.results = IF main.pc \in {"more", "results"} THEN id ELSE main.results
  <2> HIDE DEF id
  <2> QED  BY <1>5, PlainTypes DEF MainStates
<1>14. DiskWithIndex = disk /\ DiskWithIndex' = disk'
  <2>1. IndexIo = NoIo /\ IndexIo' = NoIo
    BY <1>1, <1>2, <1>5, <1>13 DEF IndexIo
  <2> QED  BY <2>1 DEF DiskWithIndex
<1>15. Has(disk', c, id) /\ Data(disk', c, id) = MainData
  BY <1>6, <1>9, <1>11 DEF Has, Data, Sound, IsWrite, Entry
<1> HIDE DEF id, at, b, c
<1>16. \A j \in DOMAIN b : j \in DOMAIN c /\ c[j] = b[j]
  BY <1>9, <1>11, <1>12
<1>17. HandleStays(disk', c)
  BY <1>7, <1>14, <1>16, HandleViewStays DEF b
<1>18. disk'.pointer = disk.pointer
  BY <1>6 DEF IsWrite
<1> QED  BY <1>2, <1>4, <1>5, <1>7, <1>10, <1>13, <1>14, <1>15, <1>17, <1>18 DEF id, c

LEMMA MainSealContents ==
    ASSUME TypeOK, StoreInv, ContentsInv, MainSeal
    PROVE  ContentsInv'
<1> DEFINE id == main.io.id
           d  == DiskWithIndex
           b  == Written(handle)
           c  == Written(handle')
<1>1. /\ writer.pc \notin Working /\ InUse /\ id # 0
      /\ Extends(disk, disk') /\ disk'.pointer = disk.pointer
      /\ DiskWithIndex' = disk' /\ HandleStays(disk', c)
      /\ Has(disk', c, id) /\ Data(disk', c, id) = MainData
      /\ handle'.root = IF main.pc = "test" THEN id ELSE handle.root
      /\ main'.pc = AfterBlock[main.pc] /\ main'.stage = main.stage
      /\ main'.history = IF main.pc = "history" THEN id ELSE main.history
      /\ main'.results = IF main.pc \in {"more", "results"} THEN id ELSE main.results
      /\ writer' = writer /\ queue' = queue /\ ops' = ops
  BY MainSealEffect
<1>2. main.pc \in {"history", "more", "results", "test"}
  BY DEF MainSeal, MainBlocks
<1>3. /\ main.pc = "history" => main'.pc = "test"
      /\ main.pc = "more"    => main'.pc = "results"
      /\ main.pc = "results" => main'.pc = "test"
      /\ main.pc = "test"    => main'.pc = "index"
  BY <1>1 DEF AfterBlock
<1>4. /\ main.pc = "history" => main.stage = 0 /\ main.results = 0
      /\ main.pc \in {"more", "results"} => main.stage = 2
      /\ main.stage \in {0, 1, 2}
  <2>1. main.pc = "history" => main.results = 0
    BY <1>1 DEF StoreInv, HandleIsSound
  <2>2. /\ main.pc = "history" => main.stage = 0
        /\ main.pc \in {"more", "results"} => main.stage = 2
    BY DEF StoreInv, TakingTurns
  <2>3. main.stage \in {0, 1, 2}
    BY PlainTypes DEF MainStates
  <2> QED  BY <2>1, <2>2, <2>3
<1>5. DiskHolds' /\ Saved' = Saved /\ (disk.pointer # 0 => Root(disk') = Root(disk))
  BY <1>1, DiskViewStays DEF StoreInv, ContentsInv
<1>6. writer.pc # "index"
  BY <1>1 DEF Working
<1>7. main.pc # "history" => Holds(d, b, main.history, Saved)
  BY <1>1, <1>2, <1>6 DEF ContentsInv, HandleHolds
<1>8. \A i, n : Holds(d, b, i, n) => Holds(disk', c, i, n)
  BY <1>1, HandleKeepsTest DEF StoreInv
<1> HIDE DEF id, d, b, c
<1>9. Holds(disk', c, main'.history, Saved)
  <2>1. CASE main.pc = "history"
    <3>1. disk.pointer = 0
      BY <2>1 DEF StoreInv, DiskIsSound
    <3>2. Saved = 0
      BY <3>1 DEF Saved
    <3>3. Data(disk', c, id) = NilHistory
      BY <1>1, <2>1 DEF MainData
    <3>4. Holds(disk', c, id, 0)
      BY <1>1, <3>3, NilHolds
    <3> QED  BY <1>1, <2>1, <3>2, <3>4
  <2>2. CASE main.pc # "history"
    BY <1>1, <1>7, <1>8, <2>2
  <2> QED  BY <2>1, <2>2
<1>10. HandleHolds'
  <2>1. (IF writer'.pc = "index" THEN writer'.completed ELSE Saved') = Saved
    BY <1>1, <1>5, <1>6
  <2> QED  BY <1>1, <1>9, <2>1 DEF HandleHolds, c
<1>11. RootInv'
  <2>1. RootInv
    BY DEF ContentsInv
  <2>2. ~Running' /\ ~Running
    BY <1>2, <1>3 DEF Running
  <2>3. Starting' => Starting
    BY <1>1, <1>2, <1>3, <1>4 DEF Starting
  <2>4. SavingHistory' => SavingHistory
    BY <1>1, <1>2, <1>3, <1>4 DEF SavingHistory
  <2>5. Starting' => disk'.pointer = 0 /\ queue' = <<>>
    BY <1>1, <2>1, <2>3 DEF RootInv
  <2>6. disk'.pointer = 0 => ops' = 0
    BY <1>1, <2>1 DEF RootInv
  <2>7. main'.history = main.history \/ main.pc = "history"
    BY <1>1
  <2>8. SavingHistory' => disk'.pointer # 0 /\ Root(disk') = Test(0, main'.history, 0)
    <3>1. SavingHistory => main.pc # "history"
      BY DEF SavingHistory
    <3> QED  BY <1>1, <1>5, <2>1, <2>4, <2>7, <3>1 DEF RootInv
  <2>9. main'.stage = 2 => disk'.pointer # 0 /\ Root(disk').history = main'.history
    <3> SUFFICES ASSUME main'.stage = 2
                 PROVE  disk'.pointer # 0 /\ Root(disk').history = main'.history
      OBVIOUS
    <3>1. main.stage = 2 /\ main.pc # "history"
      BY <1>1, <1>4
    <3>2. disk.pointer # 0 /\ Root(disk).history = main.history
      BY <1>2, <2>1, <3>1 DEF RootInv
    <3> QED  BY <1>1, <1>5, <3>1, <3>2
  <2>10. main'.pc \in {"test", "index"} => (main'.stage = 2 <=> main'.results # 0)
    <3>1. main.pc = "test" => (main.stage = 2 <=> main.results # 0)
      BY <2>1 DEF RootInv
    <3> QED  BY <1>1, <1>2, <1>3, <1>4, <3>1
  <2>11. main'.pc = "index" =>
            Data(disk', c, handle'.root) = Test(main'.stage, main'.history, main'.results)
    <3> SUFFICES ASSUME main'.pc = "index"
                 PROVE  Data(disk', c, handle'.root)
                        = Test(main'.stage, main'.history, main'.results)
      OBVIOUS
    <3>1. main.pc = "test"
      BY <1>2, <1>3
    <3>2. MainData = Test(main.stage, main.history, main.results)
      BY <3>1 DEF MainData
    <3>3. main'.history = main.history /\ main'.results = main.results
      BY <1>1, <3>1
    <3> QED  BY <1>1, <3>1, <3>2, <3>3
  <2> QED  BY <1>1, <2>2, <2>5, <2>6, <2>8, <2>9, <2>10, <2>11 DEF RootInv, c
<1>12. WriterInv' /\ QueueInv' /\ LossInv'
  <2>1. LossInv /\ QueueInv
    BY DEF ContentsInv
  <2>2. main'.pc \notin {"start", "run", "load"}
    BY <1>2, <1>3
  <2>3. SavingHistory' => SavingHistory
    BY <1>1, <1>2, <1>3, <1>4 DEF SavingHistory
  <2>4. SavingHistory' => writer.pc = "exit"
    BY <2>1, <2>3 DEF LossInv
  <2> QED  BY <1>1, <1>5, <2>1, <2>2, <2>4, WriterIdles
<1> QED  BY <1>5, <1>10, <1>11, <1>12 DEF ContentsInv

-----------------------------------------------------------------------------
(* The pointer: what the handle says becomes what the file says. *)

LEMMA PointedView ==
    ASSUME TypeOK, StoreInv, NEW io, WritePointer(io), io = IndexIo, IndexIo # NoIo, InUse,
           handle.root # 0, NEW n,
           Holds(DiskWithIndex, Written(handle),
                 Data(DiskWithIndex, Written(handle), handle.root).history, n)
    PROVE  /\ disk'.pointer # 0 /\ handle' = handle
           /\ Root(disk') = Data(DiskWithIndex, Written(handle), handle.root)
           /\ DiskHolds' /\ Saved' = n
           /\ HandleStays(disk', Written(handle))
<1> DEFINE b  == Written(handle)
           d  == DiskWithIndex
           r  == handle.root
           at == io.at
<1>1. /\ at \in DOMAIN disk.file /\ disk.file[at].data = Index(r, b)
  BY DEF StoreInv, OpenIndex
<1>2. d = Sealed(disk, at)
  BY DEF DiskWithIndex
<1>3. /\ Extends(d, disk') /\ disk'.pointer = at /\ disk'.file = disk.file
      /\ handle' = handle
  BY <1>1, <1>2, PointerEffect
<1>4. at # 0
  BY <1>1, DiskType, FileFacts
<1>5. HandleStays(disk', b)
  BY <1>3, HandleViewStays
<1>6. /\ Data(disk', b, r) = Data(d, b, r)
      /\ \A id, m : Holds(d, b, id, m) => Holds(disk', b, id, m)
  BY <1>5, HandleKeepsTest DEF StoreInv
<1>7. Holds(d, b, Data(d, b, r).history, n)
  OBVIOUS
<1> HIDE DEF b, d, r, at
<1>8. IndexOf(disk') = Index(r, b)
  BY <1>1, <1>3 DEF IndexOf
<1>9. IndexOf(disk').blocks = b /\ IndexOf(disk').root = r
  BY <1>8 DEF Index
<1>10. Root(disk') = Data(disk', b, r)
  BY <1>9 DEF Root
<1>11. Holds(disk', b, Root(disk').history, n)
  BY <1>6, <1>7, <1>10
<1>12. Count(disk', b, Root(disk').history) = n
  BY <1>11, HoldsCount
<1>13. Saved' = n
  <2>1. Saved' = Count(disk', IndexOf(disk').blocks, Root(disk').history)
    BY <1>3, <1>4 DEF Saved
  <2> QED  BY <1>9, <1>12, <2>1
<1>14. DiskHolds'
  <2>1. Holds(disk', IndexOf(disk').blocks, Root(disk').history, Saved')
    BY <1>9, <1>11, <1>13
  <2> QED  BY <2>1 DEF DiskHolds
<1> QED  BY <1>3, <1>4, <1>5, <1>6, <1>10, <1>13, <1>14 DEF b, d, r

LEMMA MainPointerContents ==
    ASSUME TypeOK, StoreInv, ContentsInv, main.pc = "index", WritePointer(main.io),
           main' = [main EXCEPT !.io = NoIo, !.pc = AfterSave[main.stage + 1],
                                !.stage = IF @ = 1 THEN 2 ELSE @],
           UNCHANGED <<writer, queue, ops, analyses>>
    PROVE  /\ ContentsInv' /\ disk'.pointer # 0 /\ Saved' = Saved
           /\ Root(disk') = Test(main.stage, main.history, main.results)
<1> DEFINE b == Written(handle)
           d == DiskWithIndex
           t == Test(main.stage, main.history, main.results)
<1>1. writer.pc \notin Working /\ writer.pc # "index" /\ InUse /\ main.io # NoIo
  BY MainWrites DEF StoreInv, Working, WritePointer
<1>2. IndexIo = main.io
  BY <1>1 DEF IndexIo
<1>3. handle.root # 0
  BY <1>1 DEF StoreInv, HandleIsSound
<1>4. Data(d, b, handle.root) = t
  BY <1>1 DEF ContentsInv, RootInv
<1>5. Holds(d, b, main.history, Saved)
  BY <1>1 DEF ContentsInv, HandleHolds
<1>6. Data(d, b, handle.root).history = main.history
  BY <1>4 DEF Test
<1>7. /\ disk'.pointer # 0 /\ handle' = handle /\ Root(disk') = t
      /\ DiskHolds' /\ Saved' = Saved /\ HandleStays(disk', b)
  BY <1>1, <1>2, <1>3, <1>4, <1>5, <1>6, PointedView
<1>8. Data(disk', b, handle.root) = t /\ Holds(disk', b, main.history, Saved)
  BY <1>1, <1>3, <1>4, <1>5, <1>7, HandleKeepsTest DEF StoreInv
<1>9. main.stage \in {0, 1, 2}
  BY PlainTypes DEF MainStates
<1>10. main'.pc = AfterSave[main.stage + 1] /\ main'.io = NoIo
       /\ main'.stage = (IF main.stage = 1 THEN 2 ELSE main.stage)
       /\ main'.history = main.history /\ main'.results = main.results
  BY PlainTypes DEF MainStates
<1>11. /\ main.stage = 0 => main'.pc = "start" /\ main'.stage = 0
       /\ main.stage = 1 => main'.pc = "prep" /\ main'.stage = 2
       /\ main.stage = 2 => main'.pc = "close file" /\ main'.stage = 2
  <2>1. AfterSave[1] = "start" /\ AfterSave[2] = "prep" /\ AfterSave[3] = "close file"
    BY DEF AfterSave
  <2>2. /\ main.stage = 0 => main.stage + 1 = 1
        /\ main.stage = 1 => main.stage + 1 = 2
        /\ main.stage = 2 => main.stage + 1 = 3
    OBVIOUS
  <2> QED  BY <1>10, <2>1, <2>2
<1>12. main'.pc # "index"
  BY <1>9, <1>11
<1>13. DiskWithIndex' = disk' /\ Written(handle') = b
  <2>1. IndexIo' = NoIo
    BY <1>1, <1>12 DEF IndexIo
  <2> QED  BY <1>7, <2>1 DEF DiskWithIndex
<1>14. t.history = main.history /\ (main.stage = 0 => t = Test(0, main.history, 0))
  <2>1. main.stage = 0 => main.results = 0
    BY <1>9 DEF ContentsInv, RootInv
  <2> QED  BY <2>1 DEF Test
<1>15. Starting /\ main.stage = 0 => ops = 0 /\ queue = <<>>
  BY DEF ContentsInv, RootInv
<1> HIDE DEF b, d, t
<1>16. HandleHolds'
  <2>1. (IF writer'.pc = "index" THEN writer'.completed ELSE Saved') = Saved
    BY <1>1, <1>7
  <2> QED  BY <1>8, <1>10, <1>13, <2>1 DEF HandleHolds
<1>17. RootInv'
  <2>1. ~Starting' /\ ~SavingHistory' /\ (Running' => main.stage = 0)
    BY <1>9, <1>11 DEF Starting, SavingHistory, Running
  <2>2. Running' => Root(disk') = Test(0, main'.history, 0)
    BY <1>7, <1>10, <1>14, <2>1
  <2>3. Running' => Data(disk', b, handle'.root) = Test(0, main'.history, 0)
    BY <1>7, <1>8, <1>10, <1>14, <2>1
  <2>4. main'.pc \notin {"test", "index"}
    BY <1>9, <1>11
  <2> QED  BY <1>7, <1>10, <1>13, <1>14, <2>1, <2>2, <2>3, <2>4 DEF RootInv
<1>18. WriterInv' /\ QueueInv' /\ LossInv'
  <2>1. LossInv /\ QueueInv
    BY DEF ContentsInv
  <2>2. main'.pc \notin {"run", "load"} /\ ~SavingHistory'
    BY <1>9, <1>11 DEF SavingHistory
  <2>3. main'.pc = "start" => ops = 0 /\ queue = <<>>
    <3>1. main'.pc = "start" => main.stage = 0
      BY <1>9, <1>11
    <3> QED  BY <1>15, <3>1 DEF Starting
  <2> QED  BY <1>1, <1>7, <2>1, <2>2, <2>3, WriterIdles
<1> QED  BY <1>7, <1>16, <1>17, <1>18 DEF ContentsInv, t

LEMMA MainIndexContents ==
    ASSUME TypeOK, StoreInv, ContentsInv, MainIndex
    PROVE  ContentsInv'
<1>1. main.pc = "index" /\ UNCHANGED <<writer, queue, ops, analyses>>
  BY DEF MainIndex
<1>2. CASE PrepWrite(main.io) /\ UNCHANGED main
  BY <1>1, <1>2, MainPrepWriteContents
<1>3. CASE BeginIndex(main.io) /\ main' = [main EXCEPT !.io = NewBlock]
  BY <1>1, <1>3, MainBeginIndexContents
<1>4. CASE SealIndex(main.io) /\ UNCHANGED main
  BY <1>1, <1>4, MainSealIndexContents
<1>5. CASE /\ WritePointer(main.io)
           /\ main' = [main EXCEPT !.io = NoIo, !.pc = AfterSave[main.stage + 1],
                                   !.stage = IF @ = 1 THEN 2 ELSE @]
  BY <1>1, <1>5, MainPointerContents
<1> QED  BY <1>2, <1>3, <1>4, <1>5 DEF MainIndex

-----------------------------------------------------------------------------
(* The steps of the history writer that save nothing yet. *)

LEMMA WriterStays ==
    ASSUME TypeOK, StoreInv, ContentsInv, writer.pc \in Working,
           Extends(disk, disk'), disk'.pointer = disk.pointer,
           handle'.root = handle.root, handle'.read = handle.read,
           HandleStays(DiskWithIndex', Written(handle')), main' = main, ops' = ops,
           \/ writer.pc # "index" /\ writer'.pc # "index"
           \/ writer.pc = "index" /\ writer'.pc = "index"
              /\ writer'.completed = writer.completed
    PROVE  /\ RootInv' /\ DiskHolds' /\ HandleHolds' /\ Saved' = Saved
           /\ Chunked(DiskWithIndex', Written(handle'), writer.chunks, writer.completed)
<1>1. main.pc \in {"run", "close", "join", "close again", "join again"} /\ InUse
  BY WriterWrites
<1>2. ~Starting
  BY <1>1 DEF Starting
<1>3. RootInv' /\ DiskHolds' /\ HandleHolds' /\ Saved' = Saved
  <2>1. InUse' => InUse /\ HandleStays(DiskWithIndex', Written(handle'))
    BY <1>1
  <2> QED  BY <1>2, <2>1, ViewsStay DEF StoreInv, ContentsInv
<1>4. Chunked(DiskWithIndex', Written(handle'), writer.chunks, writer.completed)
  <2> DEFINE d == DiskWithIndex
             b == Written(handle)
             e == DiskWithIndex'
             c == Written(handle')
  <2>1. Chunked(d, b, writer.chunks, writer.completed)
    BY DEF ContentsInv, WriterInv
  <2>2. \A id : Stays(d, b, e, c, id)
    BY DEF HandleStays
  <2> HIDE DEF d, b, e, c
  <2>3. Chunked(e, c, writer.chunks, writer.completed)
    BY <2>1, <2>2, ChunksStay
  <2> QED  BY <2>3 DEF e, c
<1> QED  BY <1>3, <1>4

(* Nor count anything. *)
LEMMA WriterCounts ==
    ASSUME ContentsInv, writer.pc \in Working, Saved' = Saved,
           Chunked(DiskWithIndex', Written(handle'), writer.chunks, writer.completed),
           writer'.pc = writer.pc, writer'.ops = writer.ops,
           writer'.completed = writer.completed, writer'.chunks = writer.chunks,
           writer'.element = writer.element, writer'.last = writer.last,
           main' = main, queue' = queue, ops' = ops
    PROVE  WriterInv' /\ QueueInv' /\ LossInv'
<1>1. Pending' = Pending /\ Carried' = Carried
  BY DEF Pending, Carried
<1>2. Taken' = Taken
  BY <1>1 DEF Taken
<1>3. WriterInv'
  <2>1. WriterInv
    BY DEF ContentsInv
  <2> QED  BY <1>1, <1>2, <2>1 DEF WriterInv
<1>4. QueueInv'
  <2>1. QueueInv
    BY DEF ContentsInv
  <2> QED  BY <1>2, <2>1 DEF QueueInv, Capacity
<1>5. LossInv'
  <2>1. LossInv
    BY DEF ContentsInv
  <2> QED  BY <2>1 DEF LossInv, Capacity, SavingHistory
<1> QED  BY <1>3, <1>4, <1>5

LEMMA FlushStreamContents ==
    ASSUME TypeOK, StoreInv, ContentsInv, FlushStream
    PROVE  ContentsInv'
<1> DEFINE at   == writer.chunk.at
           data == Stream(writer.ops)
<1>1. writer.pc \in Working /\ writer.pc \in {"take", "seal"}
  BY DEF Working, FlushStream
<1>2. main.pc # "index"
  BY <1>1, WriterWrites
<1>3. /\ disk' = WriteAt(at, data, FALSE)
      /\ handle' = handle /\ main' = main /\ writer' = writer
      /\ queue' = queue /\ ops' = ops
  BY DEF FlushStream
<1>4. at = NextBlockOffset \/ (at \in DOMAIN disk.file /\ ~disk.file[at].sealed)
  BY <1>1 DEF StoreInv, OpenBlocks
<1>5. at \in DOMAIN disk.file => ~disk.file[at].sealed
  BY <1>4, NewBlockFacts
<1>6. DiskWithIndex = disk /\ DiskWithIndex' = disk'
  <2>1. IndexIo = NoIo /\ IndexIo' = NoIo
    BY <1>1, <1>2, <1>3 DEF IndexIo
  <2> QED  BY <2>1 DEF DiskWithIndex
<1> HIDE DEF at, data
<1>7. IsWrite(disk, disk', at, data, FALSE)
  BY <1>3, <1>4, OpenWrite
<1>8. Extends(disk, disk')
  BY <1>5, <1>7, WriteExtends
<1>9. disk'.pointer = disk.pointer
  BY <1>7 DEF IsWrite
<1>10. HandleStays(DiskWithIndex', Written(handle'))
  BY <1>3, <1>6, <1>8, HandleViewStays
<1>11. /\ RootInv' /\ DiskHolds' /\ HandleHolds' /\ Saved' = Saved
       /\ Chunked(DiskWithIndex', Written(handle'), writer.chunks, writer.completed)
  <2>1. writer.pc # "index" /\ writer'.pc # "index"
    BY <1>1, <1>3
  <2> QED  BY <1>1, <1>3, <1>8, <1>9, <1>10, <2>1, WriterStays
<1>12. WriterInv' /\ QueueInv' /\ LossInv'
  BY <1>1, <1>3, <1>11, WriterCounts
<1> QED  BY <1>11, <1>12 DEF ContentsInv

LEMMA BeginVectorContents ==
    ASSUME TypeOK, StoreInv, ContentsInv, BeginVector
    PROVE  ContentsInv'
<1> DEFINE at   == NextBlockOffset
           data == Vector(writer.completed, writer.chunks)
           io   == [id |-> main.history, at |-> at]
<1>1. writer.pc \in Working /\ writer.pc = "vector"
  BY DEF Working, BeginVector
<1>2. main.pc # "index"
  BY <1>1, WriterWrites
<1>3. /\ disk' = WriteAt(at, data, FALSE) /\ writer' = [writer EXCEPT !.io = io]
      /\ handle' = handle /\ main' = main /\ queue' = queue /\ ops' = ops
  BY DEF BeginVector
<1>4. at \notin DOMAIN disk.file
  BY NewBlockFacts
<1> HIDE DEF io, data, at
<1>5. /\ writer'.pc = writer.pc /\ writer'.ops = writer.ops
      /\ writer'.completed = writer.completed /\ writer'.chunks = writer.chunks
      /\ writer'.element = writer.element /\ writer'.last = writer.last
  BY <1>3, PlainTypes DEF WriterStates
<1>6. DiskWithIndex = disk /\ DiskWithIndex' = disk'
  <2>1. IndexIo = NoIo /\ IndexIo' = NoIo
    BY <1>1, <1>2, <1>3, <1>5 DEF IndexIo
  <2> QED  BY <2>1 DEF DiskWithIndex
<1>7. IsWrite(disk, disk', at, data, FALSE)
  BY <1>3, OpenWrite DEF at
<1>8. Extends(disk, disk')
  BY <1>4, <1>7, WriteExtends
<1>9. disk'.pointer = disk.pointer
  BY <1>7 DEF IsWrite
<1>10. HandleStays(DiskWithIndex', Written(handle'))
  BY <1>3, <1>6, <1>8, HandleViewStays
<1>11. /\ RootInv' /\ DiskHolds' /\ HandleHolds' /\ Saved' = Saved
       /\ Chunked(DiskWithIndex', Written(handle'), writer.chunks, writer.completed)
  <2>1. writer.pc # "index" /\ writer'.pc # "index"
    BY <1>1, <1>5
  <2> QED  BY <1>1, <1>3, <1>8, <1>9, <1>10, <2>1, WriterStays
<1>12. WriterInv' /\ QueueInv' /\ LossInv'
  BY <1>1, <1>3, <1>5, <1>11, WriterCounts
<1> QED  BY <1>11, <1>12 DEF ContentsInv

LEMMA WriterBeginIndexContents ==
    ASSUME TypeOK, StoreInv, ContentsInv, writer.pc = "index", BeginIndex(writer.io),
           writer' = [writer EXCEPT !.io = NewBlock],
           UNCHANGED <<main, queue, ops, analyses>>
    PROVE  ContentsInv'
<1>1. writer.pc \in Working /\ writer.io = NoIo
  BY DEF Working, BeginIndex
<1>2. main.pc # "index" /\ InUse
  BY <1>1, WriterWrites
<1>3. /\ writer'.pc = writer.pc /\ writer'.ops = writer.ops
      /\ writer'.completed = writer.completed /\ writer'.chunks = writer.chunks
      /\ writer'.element = writer.element /\ writer'.last = writer.last
      /\ writer'.io = NewBlock
  BY PlainTypes DEF WriterStates
<1>4. DiskWithIndex = disk /\ DiskWithIndex' = Sealed(disk', NewBlock.at)
  <2>1. IndexIo = NoIo /\ IndexIo' = NewBlock /\ NewBlock # NoIo
    BY <1>1, <1>2, <1>3, NewBlockFacts DEF IndexIo
  <2> QED  BY <2>1 DEF DiskWithIndex
<1>5. /\ Extends(disk, disk') /\ disk'.pointer = disk.pointer
      /\ handle'.root = handle.root /\ handle'.read = handle.read
      /\ HandleStays(DiskWithIndex', Written(handle'))
  BY <1>2, <1>4, IndexStays
<1>6. /\ RootInv' /\ DiskHolds' /\ HandleHolds' /\ Saved' = Saved
      /\ Chunked(DiskWithIndex', Written(handle'), writer.chunks, writer.completed)
  BY <1>1, <1>3, <1>5, WriterStays
<1>7. WriterInv' /\ QueueInv' /\ LossInv'
  BY <1>1, <1>3, <1>6, WriterCounts
<1> QED  BY <1>6, <1>7 DEF ContentsInv

LEMMA WriterSealIndexContents ==
    ASSUME TypeOK, StoreInv, ContentsInv, writer.pc = "index", SealIndex(writer.io),
           UNCHANGED <<main, writer, queue, ops, analyses>>
    PROVE  ContentsInv'
<1> DEFINE at == writer.io.at
<1>1. writer.pc \in Working /\ writer.io # NoIo
  BY DEF Working, SealIndex
<1>2. main.pc # "index"
  BY <1>1, WriterWrites
<1>3. /\ IndexIo = writer.io /\ DiskWithIndex = Sealed(disk, at)
      /\ DiskWithIndex' = Sealed(disk', at)
  BY <1>1, <1>2 DEF IndexIo, DiskWithIndex
<1>4. at \in DOMAIN disk.file
  BY <1>1, <1>3 DEF StoreInv, OpenIndex
<1>5. /\ Extends(disk, disk') /\ handle' = handle /\ disk'.pointer = disk.pointer
      /\ Extends(Sealed(disk, at), Sealed(disk', at))
  BY <1>4, SealIndexEffect
<1>6. HandleStays(DiskWithIndex', Written(handle'))
  BY <1>3, <1>5, HandleViewStays
<1>7. /\ RootInv' /\ DiskHolds' /\ HandleHolds' /\ Saved' = Saved
      /\ Chunked(DiskWithIndex', Written(handle'), writer.chunks, writer.completed)
  BY <1>1, <1>5, <1>6, WriterStays
<1>8. WriterInv' /\ QueueInv' /\ LossInv'
  BY <1>1, <1>7, WriterCounts
<1> QED  BY <1>7, <1>8 DEF ContentsInv

-----------------------------------------------------------------------------
(* The steps of the history writer that move operations. *)

LEMMA WriterTypes ==
    ASSUME TypeOK
    PROVE  /\ writer.completed \in Nat /\ writer.element \in Nat /\ writer.last \in BOOLEAN
           /\ writer.ops \in Seq(Nat) /\ Len(writer.ops) \in Nat
           /\ writer.chunks \in Seq([index : Nat, id : Nat])
           /\ queue \in Seq(Nat) /\ Len(queue) \in Nat /\ ops \in Nat
           /\ Pending \in Nat /\ Carried \in {0, 1} /\ Taken \in Nat
<1>1. /\ writer.completed \in Nat /\ writer.element \in Nat /\ writer.last \in BOOLEAN
      /\ writer.ops \in Seq(Nat) /\ writer.chunks \in Seq([index : Nat, id : Nat])
      /\ queue \in Seq(Nat) /\ ops \in Nat
  BY PlainTypes, StoreAssumption DEF WriterStates
<1>2. Len(writer.ops) \in Nat /\ Len(queue) \in Nat
  BY <1>1
<1>3. Pending \in Nat /\ Carried \in {0, 1}
  BY <1>2 DEF Pending, Carried
<1>4. Taken \in Nat
  BY <1>1, <1>3 DEF Taken
<1> QED  BY <1>1, <1>2, <1>3, <1>4

LEMMA QueueStays ==
    ASSUME QueueInv, writer.pc \in Working, Taken' = Taken, queue' = queue, ops' = ops,
           main' = main
    PROVE  QueueInv'
  BY DEF QueueInv, Capacity

LEMMA LossStays ==
    ASSUME TypeOK, StoreInv, LossInv, writer.pc \in Working, writer'.pc \in Working,
           Saved' = Saved, ops' = ops, main' = main
    PROVE  LossInv'
<1>1. main.pc \in {"run", "close", "join", "close again", "join again"}
  BY WriterWrites
<1>2. main'.pc \notin {"start", "load"} /\ ~SavingHistory'
  BY <1>1 DEF SavingHistory
<1>3. writer'.pc # "exit" /\ writer'.pc # "dead"
  BY DEF Working
<1> QED  BY <1>2, <1>3 DEF LossInv, Capacity

LEMMA OpenStreamContents ==
    ASSUME TypeOK, StoreInv, ContentsInv, OpenStream
    PROVE  ContentsInv'
<1> DEFINE s == IF writer.element = NoOp THEN <<>> ELSE <<writer.element>>
<1>1. writer.pc \in Working /\ writer.pc = "open"
  BY DEF Working, OpenStream
<1>2. main.pc # "index"
  BY <1>1, WriterWrites
<1>3. /\ handle' = AssocBlock(handle, NewBlock.id, Reserved)
      /\ disk' = disk /\ main' = main /\ queue' = queue /\ ops' = ops
  BY DEF OpenStream
<1>4. /\ writer'.pc = "take" /\ writer'.element = NoOp /\ writer'.ops = s
      /\ writer'.chunks = writer.chunks /\ writer'.completed = writer.completed
      /\ writer'.last = writer.last
  <2> HIDE DEF s
  <2>1. writer' = [writer EXCEPT !.pc = "take", !.chunk = NewBlock, !.element = NoOp,
                                 !.ops = s]
    BY DEF OpenStream, s
  <2> QED  BY <2>1, PlainTypes DEF WriterStates
<1>5. handle'.root = handle.root /\ handle'.read = handle.read
  BY <1>3, NewBlockFacts, HandleType, AssocEffect DEF Reserved
<1>6. Written(handle') = Written(handle)
  BY <1>3, NewBlockFacts, HandleType, ReservedIsNotWritten
<1>7. DiskWithIndex = disk /\ DiskWithIndex' = disk'
  <2>1. IndexIo = NoIo /\ IndexIo' = NoIo
    BY <1>1, <1>2, <1>3, <1>4 DEF IndexIo
  <2> QED  BY <2>1 DEF DiskWithIndex
<1>8. Extends(disk, disk') /\ disk'.pointer = disk.pointer
  BY <1>3 DEF Extends
<1>9. HandleStays(DiskWithIndex', Written(handle'))
  BY <1>6, <1>7, <1>8, HandleViewStays
<1>10. /\ RootInv' /\ DiskHolds' /\ HandleHolds' /\ Saved' = Saved
       /\ Chunked(DiskWithIndex', Written(handle'), writer.chunks, writer.completed)
  <2>1. writer.pc # "index" /\ writer'.pc # "index"
    BY <1>1, <1>4
  <2> QED  BY <1>1, <1>3, <1>5, <1>8, <1>9, <2>1, WriterStays
<1>11. /\ writer.completed = Saved /\ ~writer.last
       /\ writer.element # NoOp => writer.element = writer.completed + Pending + 1
  BY <1>1 DEF ContentsInv, WriterInv
<1>12. Pending = 0 /\ Pending' = Len(s) /\ Carried' = 0
  BY <1>1, <1>4 DEF Pending, Carried
<1>13. Len(s) = Carried /\ \A j \in DOMAIN s : s[j] = writer.completed + j
  <2>1. CASE writer.element = NoOp
    BY <2>1 DEF Carried
  <2>2. CASE writer.element # NoOp
    <3>1. s = <<writer.element>> /\ Carried = 1
      BY <2>2 DEF Carried
    <3>2. writer.element = writer.completed + 1
      BY <1>11, <1>12, <2>2, WriterTypes
    <3> QED  BY <3>1, <3>2
  <2> QED  BY <2>1, <2>2
<1> HIDE DEF s
<1>14. Len(s) <= ChunkSize /\ Len(s) \in Nat
  BY <1>13, WriterTypes, StoreAssumption
<1>15. Taken' = Taken
  BY <1>4, <1>12, <1>13, WriterTypes DEF Taken
<1>16. WriterInv'
  BY <1>4, <1>10, <1>11, <1>13, <1>14 DEF WriterInv
<1>17. QueueInv'
  BY <1>1, <1>3, <1>15, QueueStays DEF ContentsInv
<1>18. LossInv'
  BY <1>1, <1>3, <1>4, <1>10, LossStays DEF ContentsInv, Working
<1> QED  BY <1>10, <1>16, <1>17, <1>18 DEF ContentsInv

(* What is at the head of the queue, and what is left behind it. *)
LEMMA HeadOfQueue ==
    ASSUME NEW q \in Seq(Nat), q # <<>>, NEW o \in Nat, NEW t \in Nat, NEW u \in Nat,
           t <= o, o <= t + Len(q),
           \A i \in DOMAIN q : q[i] = IF i <= o - t THEN t + i ELSE Finished,
           Head(q) = Finished => u = t, Head(q) # Finished => u = t + 1
    PROVE  /\ Head(q) = Finished => t = o /\ o # t + Len(q)
           /\ Head(q) # Finished => Head(q) = t + 1
           /\ u <= o /\ o <= u + Len(Tail(q))
           /\ o = t + Len(q) => o = u + Len(Tail(q))
           /\ \A i \in DOMAIN Tail(q) :
                 Tail(q)[i] = IF i <= o - u THEN u + i ELSE Finished
<1> DEFINE l == Len(q)
           r == Tail(q)
<1>1. /\ l \in Nat /\ DOMAIN q = 1 .. l /\ 1 <= l /\ Head(q) = q[1]
      /\ Len(r) = l - 1 /\ DOMAIN r = 1 .. l - 1
      /\ \A i \in 1 .. l - 1 : r[i] = q[i + 1]
  OBVIOUS
<1> HIDE DEF l, r
<1>2. /\ \A i \in 1 .. l : i <= o - t => q[i] = t + i
      /\ \A i \in 1 .. l : ~(i <= o - t) => q[i] = Finished
  BY <1>1
<1>3. 1 \in 1 .. l
  BY <1>1
<1>4. Head(q) = Finished => ~(1 <= o - t)
  <2>1. 1 <= o - t => Head(q) = t + 1
    BY <1>1, <1>2, <1>3
  <2>2. t + 1 # Finished
    BY DEF Finished
  <2> QED  BY <2>1, <2>2
<1>5. Head(q) # Finished => Head(q) = t + 1 /\ 1 <= o - t
  BY <1>1, <1>2, <1>3
<1>6. CASE Head(q) = Finished
  <2>1. t = o /\ u = t /\ o - u = 0
    BY <1>4, <1>6
  <2>2. o # t + l /\ u <= o /\ o <= u + (l - 1)
    BY <1>1, <2>1
  <2>3. ASSUME NEW i \in 1 .. l - 1 PROVE r[i] = Finished /\ ~(i <= o - u)
    <3>1. i + 1 \in 1 .. l /\ ~(i + 1 <= o - t) /\ ~(i <= o - u)
      BY <1>1, <2>1
    <3> QED  BY <1>1, <1>2, <3>1
  <2>4. \A i \in DOMAIN r : r[i] = IF i <= o - u THEN u + i ELSE Finished
    BY <1>1, <2>3
  <2> QED  BY <1>1, <1>6, <2>1, <2>2, <2>4 DEF l, r
<1>7. CASE Head(q) # Finished
  <2>1. u = t + 1 /\ 1 <= o - t /\ Head(q) = t + 1
    BY <1>5, <1>7
  <2>2. u <= o /\ o <= u + (l - 1) /\ (o = t + l => o = u + (l - 1))
    <3>1. o <= t + l
      BY DEF l
    <3> QED  BY <1>1, <2>1, <3>1
  <2>3. ASSUME NEW i \in 1 .. l - 1
        PROVE  r[i] = IF i <= o - u THEN u + i ELSE Finished
    <3>1. i + 1 \in 1 .. l /\ (i + 1 <= o - t <=> i <= o - u) /\ t + (i + 1) = u + i
      BY <1>1, <2>1
    <3>2. r[i] = q[i + 1]
      BY <1>1
    <3> QED  BY <1>2, <3>1, <3>2
  <2>4. \A i \in DOMAIN r : r[i] = IF i <= o - u THEN u + i ELSE Finished
    BY <1>1, <2>3
  <2> QED  BY <1>1, <1>7, <2>1, <2>2, <2>4 DEF l, r
<1> QED  BY <1>6, <1>7

LEMMA OneMore ==
    ASSUME NEW s \in Seq(Nat), NEW n \in Nat, NEW x \in Nat, x = n + Len(s) + 1,
           \A j \in DOMAIN s : s[j] = n + j
    PROVE  /\ Len(Append(s, x)) = Len(s) + 1
           /\ \A j \in DOMAIN Append(s, x) : Append(s, x)[j] = n + j
<1>1. /\ Len(Append(s, x)) = Len(s) + 1 /\ DOMAIN Append(s, x) = 1 .. Len(s) + 1
      /\ \A j \in 1 .. Len(s) : Append(s, x)[j] = s[j]
      /\ Append(s, x)[Len(s) + 1] = x
      /\ Len(s) \in Nat /\ DOMAIN s = 1 .. Len(s)
  OBVIOUS
<1>2. ASSUME NEW j \in 1 .. Len(s) + 1 PROVE Append(s, x)[j] = n + j
  <2>1. CASE j = Len(s) + 1
    BY <1>1, <2>1
  <2>2. CASE j # Len(s) + 1
    <3>1. j \in 1 .. Len(s)
      BY <1>1, <2>2
    <3> QED  BY <1>1, <3>1
  <2> QED  BY <2>1, <2>2
<1> QED  BY <1>1, <1>2

(* The writer takes what is next. *)
LEMMA TakeEffect ==
    ASSUME TypeOK, StoreInv, ContentsInv, Take
    PROVE  /\ writer'.completed = writer.completed /\ writer'.chunks = writer.chunks
           /\ writer'.pc \in {"take", "seal"}
           /\ Len(writer'.ops) <= ChunkSize
           /\ \A j \in DOMAIN writer'.ops : writer'.ops[j] = writer.completed + j
           /\ writer'.pc = "take" => writer'.element = NoOp
           /\ writer'.element # NoOp => writer'.element = writer.completed + Pending' + 1
           /\ writer'.last => /\ writer'.pc = "seal" /\ main.pc # "run"
                              /\ Taken' = ops /\ writer'.element = NoOp
           /\ QueueInv'
<1> DEFINE q == Head(queue)
<1>1. writer.pc = "take" /\ queue # <<>> /\ queue' = Tail(queue)
      /\ main' = main /\ ops' = ops
  BY DEF Take
<1>2. /\ writer.completed \in Nat /\ writer.element \in Nat
      /\ writer.ops \in Seq(Nat) /\ Len(writer.ops) \in Nat
      /\ queue \in Seq(Nat) /\ Len(queue) \in Nat /\ ops \in Nat
      /\ Taken \in Nat
  BY WriterTypes
<1>3. Pending = Len(writer.ops) /\ Carried = 0 /\ writer.element = NoOp
      /\ Taken = writer.completed + Len(writer.ops)
  <2>1. writer.element = NoOp
    BY <1>1 DEF ContentsInv, WriterInv, Working
  <2>2. Pending = Len(writer.ops) /\ Carried = 0
    BY <1>1, <2>1 DEF Pending, Carried
  <2> QED  BY <1>2, <2>1, <2>2 DEF Taken
<1>4. /\ Len(writer.ops) <= ChunkSize /\ ~writer.last
      /\ \A j \in DOMAIN writer.ops : writer.ops[j] = writer.completed + j
  BY <1>1 DEF ContentsInv, WriterInv, Working
<1>5. /\ Len(queue) <= Capacity /\ Taken <= ops /\ ops <= Taken + Len(queue)
      /\ main.pc = "run" => ops = Taken + Len(queue)
      /\ \A i \in DOMAIN queue : queue[i] = IF i <= ops - Taken THEN Taken + i ELSE Finished
  BY <1>1 DEF ContentsInv, QueueInv, Working
<1>6. Len(queue') <= Capacity
  <2>1. Len(Tail(queue)) = Len(queue) - 1
    BY <1>1, <1>2
  <2>2. Capacity \in Nat
    BY StoreAssumption DEF Capacity
  <2> QED  BY <1>1, <1>2, <1>5, <2>1, <2>2
<1>7. ASSUME NEW u, u = Taken', writer'.pc \in Working, q = Finished => u = Taken,
             q # Finished => u = Taken + 1
      PROVE  /\ QueueInv'
             /\ q = Finished => Taken = ops /\ main.pc # "run"
             /\ q # Finished => q = Taken + 1
  <2>1. u \in Nat
    BY <1>2, <1>7
  <2>2. /\ q = Finished => Taken = ops /\ ops # Taken + Len(queue)
        /\ q # Finished => q = Taken + 1
        /\ u <= ops /\ ops <= u + Len(Tail(queue))
        /\ ops = Taken + Len(queue) => ops = u + Len(Tail(queue))
        /\ \A i \in DOMAIN Tail(queue) :
              Tail(queue)[i] = IF i <= ops - u THEN u + i ELSE Finished
    <3>1. queue \in Seq(Nat) /\ queue # <<>> /\ ops \in Nat /\ Taken \in Nat
      BY <1>1, <1>2
    <3>2. /\ Taken <= ops /\ ops <= Taken + Len(queue)
          /\ \A i \in DOMAIN queue :
                queue[i] = IF i <= ops - Taken THEN Taken + i ELSE Finished
      BY <1>5
    <3>3. (Head(queue) = Finished => u = Taken) /\ (Head(queue) # Finished => u = Taken + 1)
      BY <1>7
    <3> QED  BY <2>1, <3>1, <3>2, <3>3, HeadOfQueue
  <2>3. QueueInv'
    <3>1. u = Taken' /\ writer'.pc \in Working
      BY <1>7
    <3> HIDE DEF q
    <3> QED  BY <1>1, <1>5, <1>6, <2>2, <3>1 DEF QueueInv, Capacity
  <2> QED  BY <1>5, <2>2, <2>3
<1>8. CASE q = Finished
  <2>1. writer' = [writer EXCEPT !.pc = "seal", !.last = TRUE]
    BY <1>8 DEF Take
  <2>2. /\ writer'.completed = writer.completed /\ writer'.chunks = writer.chunks
        /\ writer'.pc = "seal" /\ writer'.ops = writer.ops
        /\ writer'.element = writer.element
    BY <2>1, PlainTypes DEF WriterStates
  <2>3. Pending' = Pending /\ Carried' = Carried
    BY <1>1, <2>2 DEF Pending, Carried
  <2>4. Taken' = Taken
    BY <2>2, <2>3 DEF Taken
  <2>5. QueueInv' /\ Taken = ops /\ main.pc # "run"
    BY <1>7, <1>8, <2>2, <2>4 DEF Working
  <2> QED  BY <1>3, <1>4, <2>2, <2>4, <2>5
<1>9. CASE q # Finished /\ RoomInChunk
  <2>1. writer' = [writer EXCEPT !.ops = Append(writer.ops, q)]
    BY <1>9 DEF Take
  <2>2. /\ writer'.completed = writer.completed /\ writer'.chunks = writer.chunks
        /\ writer'.pc = "take" /\ writer'.ops = Append(writer.ops, q)
        /\ writer'.element = writer.element /\ writer'.last = writer.last
    <3> HIDE DEF q
    <3> QED  BY <1>1, <2>1, PlainTypes DEF WriterStates
  <2>3. q \in Nat
    BY <1>1, <1>2
  <2>4. Len(Append(writer.ops, q)) = Len(writer.ops) + 1
    BY <1>2, <2>3
  <2>5. Pending' = Len(writer.ops) + 1 /\ Carried' = 0
    BY <1>3, <2>2, <2>4 DEF Pending, Carried
  <2>6. Taken' = Taken + 1
    BY <1>2, <1>3, <2>2, <2>5 DEF Taken
  <2>7. QueueInv' /\ q = Taken + 1
    BY <1>7, <1>9, <2>2, <2>6 DEF Working
  <2>8. \A j \in DOMAIN writer'.ops : writer'.ops[j] = writer.completed + j
    <3>1. q = writer.completed + Len(writer.ops) + 1
      BY <1>2, <1>3, <2>7
    <3> HIDE DEF q
    <3>2. \A j \in DOMAIN Append(writer.ops, q) :
             Append(writer.ops, q)[j] = writer.completed + j
      <4> DEFINE s == writer.ops
                 n == writer.completed
      <4>1. s \in Seq(Nat)
        BY <1>2
      <4>2. n \in Nat
        BY <1>2
      <4>3. q = n + Len(s) + 1
        BY <3>1
      <4>4. \A j \in DOMAIN s : s[j] = n + j
        BY <1>4
      <4> HIDE DEF s, n
      <4>5. \A j \in DOMAIN Append(s, q) : Append(s, q)[j] = n + j
        BY <2>3, <4>1, <4>2, <4>3, <4>4, OneMore
      <4> QED  BY <4>5 DEF s, n
    <3> QED  BY <2>2, <3>2
  <2>9. Len(writer'.ops) <= ChunkSize
    BY <1>2, <1>9, <2>2, <2>4, StoreAssumption DEF RoomInChunk
  <2> QED  BY <1>3, <1>4, <2>2, <2>7, <2>8, <2>9
<1>10. CASE q # Finished /\ ~RoomInChunk
  <2>1. writer' = [writer EXCEPT !.pc = "seal", !.element = q]
    BY <1>10 DEF Take
  <2>2. /\ writer'.completed = writer.completed /\ writer'.chunks = writer.chunks
        /\ writer'.pc = "seal" /\ writer'.ops = writer.ops
        /\ writer'.element = q /\ writer'.last = writer.last
    <3> HIDE DEF q
    <3> QED  BY <2>1, PlainTypes DEF WriterStates
  <2>3. q # NoOp
    BY <1>10 DEF Finished, NoOp
  <2>4. Pending' = Len(writer.ops) /\ Carried' = 1
    BY <2>2, <2>3 DEF Pending, Carried
  <2>5. Taken' = Taken + 1
    BY <1>2, <1>3, <2>2, <2>4 DEF Taken
  <2>6. QueueInv' /\ q = Taken + 1
    BY <1>7, <1>10, <2>2, <2>5 DEF Working
  <2>7. writer'.element = writer.completed + Pending' + 1
    BY <1>3, <2>2, <2>4, <2>6
  <2> QED  BY <1>4, <2>2, <2>6, <2>7
<1> QED  BY <1>8, <1>9, <1>10

LEMMA TakeContents ==
    ASSUME TypeOK, StoreInv, ContentsInv, Take
    PROVE  ContentsInv'
<1>1. writer.pc \in Working /\ writer.pc = "take"
  BY DEF Working, Take
<1>2. main.pc # "index"
  BY <1>1, WriterWrites
<1>3. disk' = disk /\ handle' = handle /\ main' = main /\ ops' = ops
  BY DEF Take
<1>4. /\ writer'.completed = writer.completed /\ writer'.chunks = writer.chunks
      /\ writer'.pc \in {"take", "seal"}
      /\ Len(writer'.ops) <= ChunkSize
      /\ \A j \in DOMAIN writer'.ops : writer'.ops[j] = writer.completed + j
      /\ writer'.pc = "take" => writer'.element = NoOp
      /\ writer'.element # NoOp => writer'.element = writer.completed + Pending' + 1
      /\ writer'.last => /\ writer'.pc = "seal" /\ main.pc # "run"
                         /\ Taken' = ops /\ writer'.element = NoOp
      /\ QueueInv'
  BY TakeEffect
<1>5. DiskWithIndex = disk /\ DiskWithIndex' = disk'
  <2>1. IndexIo = NoIo /\ IndexIo' = NoIo
    BY <1>1, <1>2, <1>3, <1>4 DEF IndexIo
  <2> QED  BY <2>1 DEF DiskWithIndex
<1>6. Extends(disk, disk')
  BY <1>3 DEF Extends
<1>7. HandleStays(DiskWithIndex', Written(handle'))
  BY <1>3, <1>5, <1>6, HandleViewStays
<1>8. /\ RootInv' /\ DiskHolds' /\ HandleHolds' /\ Saved' = Saved
      /\ Chunked(DiskWithIndex', Written(handle'), writer.chunks, writer.completed)
  <2>1. writer.pc # "index" /\ writer'.pc # "index"
    BY <1>1, <1>4
  <2> QED  BY <1>1, <1>3, <1>6, <1>7, <2>1, WriterStays
<1>9. WriterInv'
  <2>1. writer.completed = Saved
    BY <1>1 DEF ContentsInv, WriterInv
  <2>2. writer'.pc \notin {"vector", "index"} /\ main' = main /\ ops' = ops
    BY <1>3, <1>4
  <2> QED  BY <1>4, <1>8, <2>1, <2>2 DEF WriterInv
<1>10. LossInv'
  BY <1>1, <1>3, <1>4, <1>8, LossStays DEF ContentsInv, Working
<1> QED  BY <1>4, <1>8, <1>9, <1>10 DEF ContentsInv

(* A chunk is complete: it holds what the writer has taken since the last one. *)
LEMMA SealStreamEffect ==
    ASSUME TypeOK, StoreInv, SealStream
    PROVE  LET id == writer.chunk.id
               c  == Written(handle')
           IN  /\ id \in Nat
               /\ Extends(disk, disk') /\ disk'.pointer = disk.pointer
               /\ handle'.root = handle.root /\ handle'.read = handle.read
               /\ DiskWithIndex' = disk' /\ HandleStays(disk', c)
               /\ Has(disk', c, id) /\ Data(disk', c, id) = Stream(writer.ops)
               /\ writer'.pc = "vector" /\ writer'.ops = writer.ops
               /\ writer'.chunks = Append(writer.chunks,
                                          [index |-> writer.completed, id |-> id])
               /\ writer'.completed = writer.completed + Len(writer.ops)
               /\ writer'.element = writer.element /\ writer'.last = writer.last
               /\ main' = main /\ queue' = queue /\ ops' = ops
<1> DEFINE id   == writer.chunk.id
           at   == writer.chunk.at
           data == Stream(writer.ops)
           b    == Written(handle)
           c    == Written(handle')
<1>1. writer.pc \in Working /\ writer.pc = "seal"
  BY DEF Working, SealStream
<1>2. main.pc # "index"
  BY <1>1, WriterWrites
<1>3. /\ disk' = WriteAt(at, data, TRUE) /\ handle' = AssocBlock(handle, id, at)
      /\ main' = main /\ queue' = queue /\ ops' = ops
  BY DEF SealStream
<1>4. /\ \/ at = NextBlockOffset
         \/ at \in DOMAIN disk.file /\ ~disk.file[at].sealed
      /\ id \in DOMAIN handle.blocks /\ handle.blocks[id] = Reserved
  BY <1>1 DEF StoreInv, OpenBlocks
<1>5. at \in DOMAIN disk.file => ~disk.file[at].sealed
  BY <1>4, NewBlockFacts
<1>6. id \in Nat \ {0} /\ at \in Nat \ {0}
  BY <1>4, HandleType, DiskType, FileFacts, NewBlockFacts DEF IsHandle
<1>7. /\ writer'.pc = "vector" /\ writer'.ops = writer.ops
      /\ writer'.chunks = Append(writer.chunks, [index |-> writer.completed, id |-> id])
      /\ writer'.completed = writer.completed + Len(writer.ops)
      /\ writer'.element = writer.element /\ writer'.last = writer.last
  <2> DEFINE s == Append(writer.chunks, [index |-> writer.completed, id |-> id])
             n == writer.completed + Len(writer.ops)
  <2>1. writer' = [writer EXCEPT !.pc = "vector", !.chunks = s, !.completed = n]
    BY DEF SealStream, WriterStates
  <2> HIDE DEF s, n
  <2>2. /\ writer'.pc = "vector" /\ writer'.ops = writer.ops /\ writer'.chunks = s
        /\ writer'.completed = n
        /\ writer'.element = writer.element /\ writer'.last = writer.last
    BY <2>1, PlainTypes DEF WriterStates
  <2> QED  BY <2>2 DEF s, n
<1>8. DiskWithIndex = disk /\ DiskWithIndex' = disk'
  <2>1. IndexIo = NoIo /\ IndexIo' = NoIo
    BY <1>1, <1>2, <1>3, <1>7 DEF IndexIo
  <2> QED  BY <2>1 DEF DiskWithIndex
<1> HIDE DEF id, at, data
<1>9. IsWrite(disk, disk', at, data, TRUE)
  BY <1>3, <1>4, SealedWrite
<1>10. Extends(disk, disk')
  BY <1>5, <1>9, WriteExtends
<1>11. handle'.root = handle.root /\ handle'.read = handle.read
  BY <1>3, <1>4, <1>6, HandleType, AssocEffect
<1>12. DOMAIN c = DOMAIN b \cup {id} /\ c[id] = at /\ \A j \in DOMAIN b \ {id} : c[j] = b[j]
  BY <1>3, <1>4, <1>6, HandleType, AssignedIsWritten
<1>13. id \notin DOMAIN b
  BY <1>4, WrittenFacts
<1> HIDE DEF b, c
<1>14. disk'.pointer = disk.pointer
  BY <1>9 DEF IsWrite
<1>15. Has(disk', c, id) /\ Data(disk', c, id) = data
  BY <1>9, <1>12 DEF Has, Data, Sound, IsWrite, Entry
<1>16. HandleStays(disk', c)
  <2>1. \A j \in DOMAIN b : j \in DOMAIN c /\ c[j] = b[j]
    BY <1>12, <1>13
  <2> QED  BY <1>8, <1>10, <2>1, HandleViewStays DEF b
<1> QED  BY <1>3, <1>6, <1>7, <1>8, <1>10, <1>11, <1>14, <1>15, <1>16 DEF id, data, c

LEMMA SealStreamContents ==
    ASSUME TypeOK, StoreInv, ContentsInv, SealStream
    PROVE  ContentsInv'
<1> DEFINE id == writer.chunk.id
           c  == Written(handle')
           n  == writer.completed
           m  == writer.completed + Len(writer.ops)
           x  == [index |-> n, id |-> id]
<1>1. writer.pc \in Working /\ writer.pc = "seal"
  BY DEF Working, SealStream
<1>2. /\ id \in Nat
      /\ Extends(disk, disk') /\ disk'.pointer = disk.pointer
      /\ handle'.root = handle.root /\ handle'.read = handle.read
      /\ DiskWithIndex' = disk' /\ HandleStays(disk', c)
      /\ Has(disk', c, id) /\ Data(disk', c, id) = Stream(writer.ops)
      /\ writer'.pc = "vector" /\ writer'.ops = writer.ops
      /\ writer'.chunks = Append(writer.chunks, x)
      /\ writer'.completed = m
      /\ writer'.element = writer.element /\ writer'.last = writer.last
      /\ main' = main /\ queue' = queue /\ ops' = ops
  BY SealStreamEffect
<1>3. /\ RootInv' /\ DiskHolds' /\ HandleHolds' /\ Saved' = Saved
      /\ Chunked(disk', c, writer.chunks, n)
  <2>1. writer.pc # "index" /\ writer'.pc # "index"
    BY <1>1, <1>2
  <2> QED  BY <1>1, <1>2, <2>1, WriterStays
<1>4. /\ n = Saved /\ Len(writer.ops) <= ChunkSize
      /\ \A j \in DOMAIN writer.ops : writer.ops[j] = n + j
      /\ writer.element # NoOp => writer.element = n + Pending + 1
      /\ writer.last => Taken = ops /\ writer.element = NoOp /\ main.pc # "run"
  BY <1>1 DEF ContentsInv, WriterInv
<1>5. n \in Nat /\ Len(writer.ops) \in Nat /\ m \in Nat /\ writer.ops \in Seq(Nat)
      /\ writer.chunks \in Seq([index : Nat, id : Nat]) /\ Carried \in Nat
  BY WriterTypes
<1>6. Pending = Len(writer.ops) /\ Pending' = 0 /\ Carried' = Carried
  BY <1>1, <1>2 DEF Pending, Carried
<1>7. Taken' = Taken
  <2>1. Taken' = m + 0 + Carried
    BY <1>2, <1>6 DEF Taken
  <2>2. Taken = n + Len(writer.ops) + Carried
    BY <1>6 DEF Taken
  <2> QED  BY <1>5, <2>1, <2>2
<1>8. Chunk(disk', c, x, m)
  <2>1. Data(disk', c, id).type = "stream" /\ Data(disk', c, id).ops = writer.ops
    BY <1>2 DEF Stream
  <2>2. x.id = id /\ x.index = n
    OBVIOUS
  <2> HIDE DEF id, c, n, x
  <2> QED  BY <1>2, <1>4, <1>5, <2>1, <2>2 DEF Chunk, m, n
<1>9. Chunked(disk', c, writer'.chunks, m)
  <2> HIDE DEF id, c, n, m
  <2> QED  BY <1>2, <1>3, <1>5, <1>8, ChunkAppended
<1>10. WriterInv'
  <2>1. writer'.completed = Saved' + Len(writer'.ops)
    BY <1>2, <1>3, <1>4
  <2>2. writer'.element # NoOp => writer'.element = writer'.completed + Pending' + 1
    <3>1. n + Len(writer.ops) + 1 = m + 0 + 1
      BY <1>5
    <3> QED  BY <1>2, <1>4, <1>6, <3>1
  <2>3. writer'.last => /\ writer'.pc = "vector" /\ main'.pc # "run"
                        /\ Taken' = ops' /\ writer'.element = NoOp
    BY <1>2, <1>4, <1>7
  <2>4. Chunked(DiskWithIndex', Written(handle'), writer'.chunks, writer'.completed)
    BY <1>2, <1>9
  <2>5. Len(writer'.ops) <= ChunkSize
    BY <1>2, <1>4
  <2>6. writer'.pc = "vector"
    BY <1>2
  <2> HIDE DEF id, c, n, m, x
  <2> QED  BY <2>1, <2>2, <2>3, <2>4, <2>5, <2>6 DEF WriterInv
<1>11. QueueInv'
  BY <1>1, <1>2, <1>7, QueueStays DEF ContentsInv
<1>12. LossInv'
  BY <1>1, <1>2, <1>3, LossStays DEF ContentsInv, Working
<1> QED  BY <1>3, <1>10, <1>11, <1>12 DEF ContentsInv

(* A new version of the history is complete. *)
LEMMA SealVectorEffect ==
    ASSUME TypeOK, StoreInv, SealVector
    PROVE  LET id == main.history
               c  == Written(handle')
           IN  /\ Extends(disk, disk') /\ disk'.pointer = disk.pointer
               /\ handle'.root = handle.root /\ handle'.read = handle.read
               /\ DiskWithIndex = disk /\ DiskWithIndex' = disk'
               /\ \A j : j # id => Stays(disk, Written(handle), disk', c, j)
               /\ Has(disk', c, id)
               /\ Data(disk', c, id) = Vector(writer.completed, writer.chunks)
               /\ writer'.pc = "index" /\ writer'.ops = writer.ops
               /\ writer'.chunks = writer.chunks /\ writer'.completed = writer.completed
               /\ writer'.element = writer.element /\ writer'.last = writer.last
               /\ main' = main /\ queue' = queue /\ ops' = ops
<1> DEFINE id   == main.history
           at   == writer.io.at
           data == Vector(writer.completed, writer.chunks)
           b    == Written(handle)
           c    == Written(handle')
<1>1. writer.pc \in Working /\ writer.pc = "vector" /\ writer.io # NoIo
  BY DEF Working, SealVector
<1>2. /\ main.pc \in {"run", "close", "join", "close again", "join again"} /\ InUse
  BY <1>1, WriterWrites
<1>3. /\ at \in DOMAIN disk.file /\ writer.io.id = id
      /\ disk.file[at] = [data |-> data, sealed |-> FALSE]
  BY <1>1 DEF StoreInv, OpenBlocks
<1>4. /\ disk' = Sealed(disk, at) /\ handle' = AssocBlock(handle, id, at)
      /\ main' = main /\ queue' = queue /\ ops' = ops
      /\ writer' = [writer EXCEPT !.pc = "index", !.io = NoIo]
  BY <1>3 DEF SealVector, Sealed
<1>5. disk.file[at].data = data /\ ~disk.file[at].sealed
  BY <1>3
<1>6. IsWrite(disk, disk', at, data, TRUE)
  BY <1>3, <1>4, <1>5, SealEffect, DiskType
<1>7. /\ writer'.pc = "index" /\ writer'.io = NoIo /\ writer'.ops = writer.ops
      /\ writer'.chunks = writer.chunks /\ writer'.completed = writer.completed
      /\ writer'.element = writer.element /\ writer'.last = writer.last
  BY <1>4, PlainTypes DEF WriterStates
<1>8. DiskWithIndex = disk /\ DiskWithIndex' = disk'
  <2>1. IndexIo = NoIo /\ IndexIo' = NoIo
    BY <1>1, <1>2, <1>4, <1>7 DEF IndexIo
  <2> QED  BY <2>1 DEF DiskWithIndex
<1>9. WellFormed(disk, b) /\ HistoryBlock(disk, b, id)
  BY <1>1, <1>2, <1>8 DEF StoreInv, HandleIsSound
<1>10. id \in Nat \ {0} /\ id \in DOMAIN b /\ id \in DOMAIN handle.blocks
  BY <1>9, WrittenFacts DEF HistoryBlock, WellFormed
<1>11. at \in Nat \ {0}
  BY <1>3, DiskType, FileFacts
<1> HIDE DEF id, at, data
<1>12. Extends(disk, disk')
  BY <1>5, <1>6, WriteExtends
<1>13. handle'.root = handle.root /\ handle'.read = handle.read
  BY <1>4, <1>10, <1>11, HandleType, AssocEffect
<1>14. DOMAIN c = DOMAIN b \cup {id} /\ c[id] = at /\ \A j \in DOMAIN b \ {id} : c[j] = b[j]
  <2>1. IsHandle(handle)
    BY HandleType
  <2>2. handle' = AssocBlock(handle, id, at)
    BY <1>4
  <2>3. id \in Nat \ {0}
    BY <1>10
  <2>4. at \in Nat \ {0}
    BY <1>11
  <2>5. id \in DOMAIN handle.blocks \/ \A j \in DOMAIN handle.blocks : j <= id
    BY <1>10
  <2> QED  BY <2>1, <2>2, <2>3, <2>4, <2>5, AssignedWritten
<1> HIDE DEF b, c
<1>15. disk'.pointer = disk.pointer
  BY <1>6 DEF IsWrite
<1>16. Has(disk', c, id) /\ Data(disk', c, id) = data
  BY <1>6, <1>14 DEF Has, Data, Sound, IsWrite, Entry
<1>17. \A j : j # id => Stays(disk, b, disk', c, j)
  <2> SUFFICES ASSUME NEW j, j # id PROVE Stays(disk, b, disk', c, j)
    OBVIOUS
  <2>1. j \in DOMAIN b => j \in DOMAIN c /\ c[j] = b[j]
    BY <1>14
  <2> QED  BY <1>12, <2>1, ExtendsStays
<1> QED  BY <1>4, <1>7, <1>8, <1>12, <1>13, <1>15, <1>16, <1>17 DEF id, data, b, c

LEMMA SealVectorContents ==
    ASSUME TypeOK, StoreInv, ContentsInv, SealVector
    PROVE  ContentsInv'
<1> DEFINE id == main.history
           b  == Written(handle)
           c  == Written(handle')
<1>1. writer.pc \in Working /\ writer.pc = "vector"
  BY DEF Working, SealVector
<1>2. /\ main.pc \in {"run", "close", "join", "close again", "join again"} /\ InUse
  BY <1>1, WriterWrites
<1>3. /\ Extends(disk, disk') /\ disk'.pointer = disk.pointer
      /\ handle'.root = handle.root /\ handle'.read = handle.read
      /\ DiskWithIndex = disk /\ DiskWithIndex' = disk'
      /\ \A j : j # id => Stays(disk, b, disk', c, j)
      /\ Has(disk', c, id)
      /\ Data(disk', c, id) = Vector(writer.completed, writer.chunks)
      /\ writer'.pc = "index" /\ writer'.ops = writer.ops
      /\ writer'.chunks = writer.chunks /\ writer'.completed = writer.completed
      /\ writer'.element = writer.element /\ writer'.last = writer.last
      /\ main' = main /\ queue' = queue /\ ops' = ops
  BY SealVectorEffect
<1>4. DiskHolds' /\ Saved' = Saved /\ (disk.pointer # 0 => Root(disk') = Root(disk))
  BY <1>3, DiskViewStays DEF StoreInv, ContentsInv
<1>5. /\ WellFormed(disk, b) /\ HistoryBlock(disk, b, id)
      /\ handle.root # 0 /\ TestBlock(disk, b, handle.root)
      /\ \A k \in DOMAIN writer.chunks : StreamBlock(disk, b, writer.chunks[k].id)
  BY <1>1, <1>2, <1>3 DEF StoreInv, HandleIsSound
<1>6. /\ Chunked(disk, b, writer.chunks, writer.completed)
      /\ writer.completed = Saved + Len(writer.ops)
      /\ Len(writer.ops) <= ChunkSize
      /\ writer.element # NoOp => writer.element = writer.completed + Pending + 1
      /\ writer.last => Taken = ops /\ writer.element = NoOp /\ main.pc # "run"
  BY <1>1, <1>3 DEF ContentsInv, WriterInv
<1>7. Running /\ ~Starting /\ ~SavingHistory /\ main.stage = 0
  BY <1>2 DEF Running, Starting, SavingHistory, StoreInv, TakingTurns
<1>8. /\ disk.pointer # 0 /\ Root(disk) = Test(0, id, 0)
      /\ Data(disk, b, handle.root) = Test(0, id, 0)
  BY <1>2, <1>3, <1>7 DEF ContentsInv, RootInv
<1> HIDE DEF id, b, c
<1>9. Data(disk', c, handle.root) = Test(0, id, 0)
  <2>1. handle.root # id
    BY <1>5 DEF TestBlock, HistoryBlock
  <2>2. Has(disk, b, handle.root)
    BY <1>5, WellFormedFacts DEF TestBlock, Has
  <2> QED  BY <1>3, <1>8, <2>1, <2>2 DEF Stays
<1>10. Chunked(disk', c, writer.chunks, writer.completed)
  <2>1. \A k \in DOMAIN writer.chunks : writer.chunks[k].id # id
    BY <1>5 DEF StreamBlock, HistoryBlock
  <2> QED  BY <1>3, <1>6, <2>1, ChunksStay
<1>11. Holds(disk', c, id, writer.completed)
  BY <1>3, <1>10, WriterTypes, VectorHolds
<1>12. RootInv'
  <2>1. main' = main /\ ~Starting' /\ ~SavingHistory' /\ (Running' <=> Running)
    BY <1>3, <1>7 DEF Running, Starting, SavingHistory
  <2>2. main.pc \notin {"test", "index"}
    BY <1>2
  <2>3. Root(disk') = Test(0, main.history, 0) /\ disk'.pointer # 0
    BY <1>3, <1>4, <1>8 DEF id
  <2>4. Data(disk', c, handle'.root) = Test(0, main.history, 0)
    BY <1>3, <1>9 DEF id
  <2>5. DiskWithIndex' = disk' /\ Written(handle') = c
    BY <1>3 DEF c
  <2>6. main.stage # 2
    BY <1>7
  <2> QED  BY <2>1, <2>2, <2>3, <2>4, <2>5, <2>6 DEF RootInv
<1>13. HandleHolds'
  BY <1>3, <1>11 DEF HandleHolds, id, c
<1>14. Pending' = Pending /\ Carried' = Carried
  BY <1>1, <1>3 DEF Pending, Carried
<1>15. Taken' = Taken
  BY <1>3, <1>14 DEF Taken
<1>16. WriterInv'
  <2>1. Chunked(DiskWithIndex', Written(handle'), writer'.chunks, writer'.completed)
    BY <1>3, <1>10 DEF c
  <2>2. writer'.completed = Saved' + Len(writer'.ops) /\ Len(writer'.ops) <= ChunkSize
    BY <1>3, <1>4, <1>6
  <2>3. writer'.element # NoOp => writer'.element = writer'.completed + Pending' + 1
    BY <1>3, <1>6, <1>14
  <2>4. writer'.last => Taken' = ops' /\ writer'.element = NoOp /\ main'.pc # "run"
    BY <1>3, <1>6, <1>15
  <2>5. writer'.pc = "index"
    BY <1>3
  <2> QED  BY <2>1, <2>2, <2>3, <2>4, <2>5 DEF WriterInv
<1>17. QueueInv'
  BY <1>1, <1>3, <1>15, QueueStays DEF ContentsInv
<1>18. LossInv'
  BY <1>1, <1>3, <1>4, LossStays DEF ContentsInv, Working
<1> QED  BY <1>4, <1>12, <1>13, <1>16, <1>17, <1>18 DEF ContentsInv

(* The next index is complete: what the writer has sealed is in the file. *)
LEMMA WriterPointerContents ==
    ASSUME TypeOK, StoreInv, ContentsInv, writer.pc = "index", WritePointer(writer.io),
           writer' = [writer EXCEPT !.io = NoIo,
                                    !.pc = IF writer.last THEN "exit" ELSE "open"],
           UNCHANGED <<main, queue, ops, analyses>>
    PROVE  /\ ContentsInv' /\ disk'.pointer # 0 /\ Saved' = writer.completed
           /\ Root(disk') = Test(0, main.history, 0)
<1> DEFINE b == Written(handle)
           d == DiskWithIndex
           t == Test(0, main.history, 0)
<1>1. writer.pc \in Working /\ writer.io # NoIo
  BY DEF Working, WritePointer
<1>2. /\ main.pc \in {"run", "close", "join", "close again", "join again"} /\ InUse
  BY <1>1, WriterWrites
<1>3. IndexIo = writer.io
  BY <1>1, <1>2 DEF IndexIo
<1>4. handle.root # 0
  BY <1>2 DEF StoreInv, HandleIsSound
<1>5. Running /\ ~Starting /\ ~SavingHistory /\ main.stage = 0
  BY <1>2 DEF Running, Starting, SavingHistory, StoreInv, TakingTurns
<1>6. Data(d, b, handle.root) = t
  BY <1>2, <1>5 DEF ContentsInv, RootInv
<1>7. Holds(d, b, main.history, writer.completed)
  BY <1>2 DEF ContentsInv, HandleHolds
<1>8. Data(d, b, handle.root).history = main.history
  BY <1>6 DEF Test
<1>9. /\ disk'.pointer # 0 /\ handle' = handle /\ Root(disk') = t
      /\ DiskHolds' /\ Saved' = writer.completed /\ HandleStays(disk', b)
  BY <1>1, <1>2, <1>3, <1>4, <1>6, <1>7, <1>8, PointedView
<1>10. /\ Data(disk', b, handle.root) = t
       /\ \A id, n : Holds(d, b, id, n) => Holds(disk', b, id, n)
  BY <1>2, <1>4, <1>6, <1>9, HandleKeepsTest DEF StoreInv
<1>11. /\ writer'.pc = (IF writer.last THEN "exit" ELSE "open") /\ writer'.io = NoIo
       /\ writer'.ops = writer.ops
       /\ writer'.chunks = writer.chunks /\ writer'.completed = writer.completed
       /\ writer'.element = writer.element /\ writer'.last = writer.last
  BY PlainTypes DEF WriterStates
<1>12. DiskWithIndex' = disk' /\ Written(handle') = b
  <2>1. IndexIo' = NoIo
    BY <1>2, <1>11 DEF IndexIo
  <2> QED  BY <1>9, <2>1 DEF DiskWithIndex
<1>13. /\ Chunked(d, b, writer.chunks, writer.completed)
       /\ Len(writer.ops) <= ChunkSize
       /\ writer.completed = Saved + Len(writer.ops)
       /\ writer.element # NoOp => writer.element = writer.completed + Pending + 1
       /\ writer.last => Taken = ops /\ writer.element = NoOp /\ main.pc # "run"
  BY <1>1 DEF ContentsInv, WriterInv
<1>14. Chunked(disk', b, writer.chunks, writer.completed)
  <2>1. \A id : Stays(d, b, disk', b, id)
    BY <1>9 DEF HandleStays
  <2> HIDE DEF d, b
  <2> QED  BY <1>13, <2>1, ChunksStay
<1> HIDE DEF b, d
<1>15. Pending = 0 /\ Pending' = 0 /\ Carried' = Carried
  BY <1>11 DEF Pending, Carried
<1>16. Taken' = Taken /\ Taken = writer.completed + Carried
  BY <1>11, <1>15, WriterTypes DEF Taken
<1>17. RootInv'
  <2>1. ~Starting' /\ ~SavingHistory' /\ (Running' <=> Running)
    BY <1>5 DEF Running, Starting, SavingHistory
  <2>2. main.pc \notin {"test", "index"}
    BY <1>2
  <2>3. main.stage # 2
    BY <1>5
  <2> QED  BY <1>9, <1>10, <1>12, <2>1, <2>2, <2>3 DEF RootInv
<1>18. HandleHolds'
  <2>1. (IF writer'.pc = "index" THEN writer'.completed ELSE Saved') = writer.completed
    BY <1>9, <1>11
  <2> QED  BY <1>7, <1>10, <1>12, <2>1 DEF HandleHolds
<1>19. WriterInv'
  <2>1. CASE writer.last
    BY <1>11, <2>1 DEF WriterInv, Working
  <2>2. CASE ~writer.last
    <3>1. writer'.pc = "open" /\ ~writer'.last
      BY <1>11, <2>2
    <3>2. Chunked(DiskWithIndex', Written(handle'), writer'.chunks, writer'.completed)
      BY <1>11, <1>12, <1>14
    <3>3. writer'.completed = Saved' /\ Len(writer'.ops) <= ChunkSize
      BY <1>9, <1>11, <1>13
    <3>4. writer'.element # NoOp => writer'.element = writer'.completed + Pending' + 1
      BY <1>11, <1>13, <1>15
    <3> QED  BY <3>1, <3>2, <3>3, <3>4 DEF WriterInv
  <2> QED  BY <2>1, <2>2
<1>20. QueueInv'
  BY <1>1, <1>16, QueueStays DEF ContentsInv
<1>21. LossInv'
  <2>1. main.pc \notin {"start", "load"} /\ ~SavingHistory'
    BY <1>2 DEF SavingHistory
  <2>2. Saved' = writer.completed /\ writer.completed <= ops
        /\ ops <= writer.completed + Capacity + ChunkSize + 1
    <3>1. Taken <= ops /\ ops <= Taken + Len(queue) /\ Len(queue) <= Capacity
      BY <1>1 DEF ContentsInv, QueueInv
    <3>2. Capacity \in Nat /\ ChunkSize \in Nat /\ ChunkSize >= 1
      BY StoreAssumption DEF Capacity
    <3> QED  BY <1>9, <1>16, <3>1, <3>2, WriterTypes
  <2>3. writer.last => writer.completed = ops /\ main.pc # "run"
    <3>1. writer.last => Carried = 0
      BY <1>13 DEF Carried
    <3> QED  BY <1>13, <1>16, <3>1, WriterTypes
  <2>4. /\ writer'.pc = "exit" => writer.last
        /\ writer'.pc # "dead"
        /\ ~writer.last => writer'.pc \in Working
    BY <1>11 DEF Working
  <2> QED  BY <2>1, <2>2, <2>3, <2>4 DEF LossInv, Capacity
<1> QED  BY <1>9, <1>17, <1>18, <1>19, <1>20, <1>21 DEF ContentsInv

LEMMA WriterIndexContents ==
    ASSUME TypeOK, StoreInv, ContentsInv, WriterIndex
    PROVE  ContentsInv'
<1>1. writer.pc = "index" /\ UNCHANGED <<main, queue, ops, analyses>>
  BY DEF WriterIndex
<1>2. CASE BeginIndex(writer.io) /\ writer' = [writer EXCEPT !.io = NewBlock]
  BY <1>1, <1>2, WriterBeginIndexContents
<1>3. CASE SealIndex(writer.io) /\ UNCHANGED writer
  BY <1>1, <1>3, WriterSealIndexContents
<1>4. CASE /\ WritePointer(writer.io)
           /\ writer' = [writer EXCEPT !.io = NoIo,
                                       !.pc = IF writer.last THEN "exit" ELSE "open"]
  BY <1>1, <1>4, WriterPointerContents
<1> QED  BY <1>2, <1>3, <1>4 DEF WriterIndex

(* What the writer has taken and not saved: less than a chunk, and one more. *)
LEMMA TakenIsBounded ==
    ASSUME TypeOK, ContentsInv, writer.pc \in Working
    PROVE  Taken <= Saved + ChunkSize + 1
<1>1. Len(writer.ops) <= ChunkSize
      /\ writer.completed = IF writer.pc \in {"vector", "index"}
                            THEN Saved + Len(writer.ops) ELSE Saved
  BY DEF ContentsInv, WriterInv
<1>2. Pending = IF writer.pc \in {"take", "seal"} THEN Len(writer.ops) ELSE 0
  BY DEF Pending
<1>3. Saved \in Nat /\ ChunkSize \in Nat
  BY SavedIsNat, StoreAssumption DEF ContentsInv
<1>4. writer.completed + Pending <= Saved + Len(writer.ops)
  <2>1. CASE writer.pc \in {"vector", "index"}
    <3>1. writer.completed = Saved + Len(writer.ops) /\ Pending = 0
      BY <1>1, <1>2, <2>1
    <3> QED  BY <1>3, <3>1, WriterTypes
  <2>2. CASE writer.pc \in {"take", "seal"}
    <3>1. writer.completed = Saved /\ Pending = Len(writer.ops)
      BY <1>1, <1>2, <2>2
    <3> QED  BY <1>3, <3>1, WriterTypes
  <2>3. CASE writer.pc = "open"
    <3>1. writer.completed = Saved /\ Pending = 0
      BY <1>1, <1>2, <2>3
    <3> QED  BY <1>3, <3>1, WriterTypes
  <2> QED  BY <2>1, <2>2, <2>3 DEF Working
<1> QED  BY <1>1, <1>3, <1>4, WriterTypes DEF Taken

(* The writer dies: what it had taken is lost. *)
LEMMA WriterThrowsContents ==
    ASSUME TypeOK, StoreInv, ContentsInv, WriterThrows
    PROVE  ContentsInv'
<1>1. writer.pc \in {"take", "seal", "vector", "index"} /\ writer.pc \in Working
  BY DEF WriterThrows, Working
<1>2. main.pc \in {"run", "close", "join", "close again", "join again"}
  BY <1>1, WriterWrites
<1>3. /\ disk' = disk /\ handle' = handle /\ main' = main /\ queue' = queue /\ ops' = ops
      /\ writer' = [writer EXCEPT !.pc = "dead"]
  BY DEF WriterThrows
<1>4. writer'.pc = "dead"
  BY <1>3, PlainTypes DEF WriterStates
<1>5. DiskHolds' /\ Saved' = Saved /\ (disk.pointer # 0 => Root(disk') = Root(disk))
  BY <1>3 DEF DiskHolds, Saved, ContentsInv
<1>6. ~InUse'
  BY <1>4 DEF InUse
<1>7. RootInv'
  <2>1. (Running' <=> Running) /\ (Starting' <=> Starting) /\ (SavingHistory' <=> SavingHistory)
    BY <1>3 DEF Running, Starting, SavingHistory
  <2>2. RootInv
    BY DEF ContentsInv
  <2> QED  BY <1>3, <1>5, <1>6, <2>1, <2>2 DEF RootInv
<1>8. HandleHolds'
  BY <1>6 DEF HandleHolds
<1>9. WriterInv'
  BY <1>4 DEF WriterInv, Working
<1>10. QueueInv'
  BY <1>3, <1>4 DEF ContentsInv, QueueInv, Working, Capacity
<1>11. LossInv'
  <2>1. LossInv
    BY DEF ContentsInv
  <2>2. main.pc \notin {"start", "load"} /\ ~SavingHistory'
    BY <1>2, <1>3 DEF SavingHistory
  <2>3. ops <= Saved + ChunkSize + 1 + Len(queue)
    <3>1. ops <= Taken + Len(queue)
      BY <1>1 DEF ContentsInv, QueueInv
    <3>2. Taken <= Saved + ChunkSize + 1
      BY <1>1, TakenIsBounded
    <3> QED  BY <3>1, <3>2, SavedIsNat, StoreAssumption, WriterTypes DEF ContentsInv
  <2> QED  BY <1>3, <1>4, <1>5, <2>1, <2>2, <2>3 DEF LossInv, Capacity
<1> QED  BY <1>5, <1>7, <1>8, <1>9, <1>10, <1>11 DEF ContentsInv

-----------------------------------------------------------------------------
(* The main thread feeds the history writer, or waits for it: the file and the *)
(* handle stay as they are.                                                     *)

LEMMA DiskIdles ==
    ASSUME DiskHolds, disk' = disk
    PROVE  DiskHolds' /\ Saved' = Saved /\ Root(disk') = Root(disk)
<1>1. Saved' = Saved /\ Root(disk') = Root(disk)
  BY DEF Saved
<1> QED  BY <1>1 DEF DiskHolds

LEMMA Numerals == 0 # 1 /\ 0 # 2 /\ 1 # 2
  OBVIOUS

LEMMA FeedingKeepsViews ==
    ASSUME TypeOK, StoreInv, ContentsInv, disk' = disk, handle' = handle,
           main.pc \in {"start", "run", "close", "join", "close again", "join again"},
           main'.pc \in {"run", "close", "join", "load", "close again", "join again",
                         "test", "close file"},
           main'.stage = IF main'.pc = "test" THEN 1 ELSE 0,
           main'.history = main.history, main'.results = main.results,
           writer'.completed = writer.completed, writer'.io = writer.io,
           writer.pc = "index" <=> writer'.pc = "index",
           InUse' => InUse, main'.pc = "test" => InUse
    PROVE  /\ RootInv' /\ DiskHolds' /\ HandleHolds' /\ Saved' = Saved
           /\ DiskWithIndex' = DiskWithIndex /\ Written(handle') = Written(handle)
<1> DEFINE d == DiskWithIndex
           b == Written(handle)
           n == IF writer.pc = "index" THEN writer.completed ELSE Saved
<1>1. DiskHolds' /\ Saved' = Saved /\ Root(disk') = Root(disk)
  BY DiskIdles DEF ContentsInv
<1>2. DiskWithIndex' = d /\ Written(handle') = b
  <2>1. IndexIo' = IndexIo
    BY DEF IndexIo
  <2> QED  BY <2>1 DEF DiskWithIndex
<1>3. Running /\ disk.pointer # 0 /\ Root(disk) = Test(0, main.history, 0)
      /\ (InUse => Data(d, b, handle.root) = Test(0, main.history, 0))
  BY DEF Running, ContentsInv, RootInv
<1>4. InUse => Holds(d, b, main.history, n) /\ main.results = 0
  BY DEF ContentsInv, HandleHolds, StoreInv, HandleIsSound
<1>5. (IF writer'.pc = "index" THEN writer'.completed ELSE Saved') = n
  BY <1>1
<1> HIDE DEF d, b, n
<1>6. HandleHolds'
  BY <1>2, <1>4, <1>5 DEF HandleHolds
<1>7. ~Starting' /\ main'.stage # 2 /\ main'.pc # "index"
  <2>1. main'.pc # "history" /\ main'.pc # "index"
    OBVIOUS
  <2>2. main'.pc = "test" => main'.stage = 1
    OBVIOUS
  <2>3. main'.pc # "test" => main'.stage = 0
    OBVIOUS
  <2>4. main'.stage # 2
    BY <2>2, <2>3, Numerals, Zenon
  <2>5. main'.pc = "test" => main'.stage # 0
    BY <2>2, Numerals, Zenon
  <2>6. ~Starting'
    BY <2>1, <2>5, Zenon DEF Starting
  <2> QED  BY <2>1, <2>4, <2>6
<1>8. main'.pc = "test" => main'.results = 0
  BY <1>4
<1>9. InUse' => Data(DiskWithIndex', Written(handle'), handle'.root)
                = Test(0, main'.history, 0)
  BY <1>2, <1>3
<1>10. disk'.pointer # 0 /\ Root(disk') = Test(0, main'.history, 0)
  BY <1>1, <1>3
<1>11. RootInv'
  BY <1>7, <1>8, <1>9, <1>10 DEF RootInv
<1> QED  BY <1>1, <1>2, <1>6, <1>11 DEF d, b

LEMMA StartWriterContents ==
    ASSUME TypeOK, StoreInv, ContentsInv, StartWriter
    PROVE  ContentsInv'
<1>1. main.pc = "start" /\ main.stage = 0 /\ writer = NoWriter
  BY DEF StartWriter, StoreInv, TakingTurns
<1>2. disk' = disk /\ handle' = handle /\ queue' = queue /\ ops' = ops
  BY DEF StartWriter
<1>3. /\ main'.pc = "run" /\ main'.stage = 0 /\ main'.history = main.history
      /\ main'.results = main.results
  BY <1>1, PlainTypes DEF StartWriter, MainStates
<1>4. /\ writer.pc = "none" /\ writer'.pc = "open" /\ writer'.io = writer.io
      /\ writer'.completed = writer.completed /\ writer'.completed = 0
      /\ writer'.ops = <<>> /\ writer'.chunks = <<>> /\ writer'.element = NoOp
      /\ writer'.last = FALSE
  BY <1>1 DEF StartWriter, NoWriter
<1>5. InUse
  BY <1>1, <1>4 DEF InUse
<1>6. RootInv' /\ DiskHolds' /\ HandleHolds' /\ Saved' = Saved
  BY <1>1, <1>2, <1>3, <1>4, <1>5, FeedingKeepsViews
<1>7. ops = 0 /\ queue = <<>> /\ Saved = 0
  <2>1. ops = 0 /\ queue = <<>> /\ Saved <= ops
    BY <1>1 DEF ContentsInv, LossInv
  <2>2. Saved \in Nat
    BY SavedIsNat DEF ContentsInv
  <2> QED  BY <2>1, <2>2
<1>8. Pending' = 0 /\ Carried' = 0 /\ Taken' = 0
  BY <1>4 DEF Pending, Carried, Taken
<1>9. WriterInv'
  <2>1. Chunked(DiskWithIndex', Written(handle'), writer'.chunks, writer'.completed)
    BY <1>4, NothingIsChunked
  <2>2. Len(writer'.ops) <= ChunkSize
    BY <1>4, StoreAssumption
  <2>3. writer'.completed = Saved'
    BY <1>4, <1>6, <1>7
  <2> QED  BY <1>4, <2>1, <2>2, <2>3 DEF WriterInv
<1>10. QueueInv'
  <2>1. queue' = <<>> /\ ops' = 0 /\ Len(queue') = 0 /\ DOMAIN queue' = {}
    BY <1>2, <1>7
  <2>2. Capacity \in Nat
    BY StoreAssumption DEF Capacity
  <2> QED  BY <1>8, <2>1, <2>2 DEF QueueInv, Capacity
<1>11. LossInv'
  <2>1. ~SavingHistory'
    BY <1>3 DEF SavingHistory
  <2>2. LossInv
    BY DEF ContentsInv
  <2> QED  BY <1>2, <1>3, <1>4, <1>6, <2>1, <2>2 DEF LossInv, Working, Capacity
<1> QED  BY <1>6, <1>9, <1>10, <1>11 DEF ContentsInv

LEMMA Appended ==
    ASSUME NEW q \in Seq(Nat), NEW x \in Nat
    PROVE  /\ Append(q, x) \in Seq(Nat) /\ Len(Append(q, x)) = Len(q) + 1
           /\ \A i \in DOMAIN Append(q, x) : i \in Nat /\ i <= Len(q) + 1
           /\ \A i \in DOMAIN Append(q, x) :
                 Append(q, x)[i] = IF i = Len(q) + 1 THEN x ELSE q[i]
           /\ \A i \in DOMAIN Append(q, x) : i # Len(q) + 1 => i \in DOMAIN q
  OBVIOUS

LEMMA AppendOpContents ==
    ASSUME TypeOK, StoreInv, ContentsInv, AppendOp
    PROVE  ContentsInv'
<1>1. /\ main.pc = "run" /\ disk' = disk /\ handle' = handle /\ main' = main
      /\ writer' = writer /\ ops' = ops + 1 /\ Len(queue) < Capacity
      /\ queue' = Append(queue, ops + 1)
  BY DEF AppendOp
<1>2. main.stage = 0 /\ (InUse' => InUse)
  BY <1>1 DEF StoreInv, TakingTurns, InUse
<1>3. /\ RootInv' /\ DiskHolds' /\ HandleHolds' /\ Saved' = Saved
      /\ DiskWithIndex' = DiskWithIndex /\ Written(handle') = Written(handle)
  BY <1>1, <1>2, FeedingKeepsViews
<1>4. queue' \in Seq(Nat) /\ Len(queue') = Len(queue) + 1
      /\ \A i \in DOMAIN queue' :
            /\ i \in Nat /\ i <= Len(queue) + 1
            /\ queue'[i] = IF i = Len(queue) + 1 THEN ops + 1 ELSE queue[i]
            /\ i # Len(queue) + 1 => i \in DOMAIN queue
  <2>1. queue \in Seq(Nat) /\ ops + 1 \in Nat
    BY WriterTypes
  <2> QED  BY <1>1, <2>1, Appended
<1>5. Pending' = Pending /\ Carried' = Carried /\ Taken' = Taken
  BY <1>1 DEF Pending, Carried, Taken
<1>6. WriterInv'
  <2> SUFFICES ASSUME writer.pc \in Working PROVE WriterInv'
    BY <1>1 DEF WriterInv
  <2>1. ~writer.last
    BY <1>1 DEF ContentsInv, WriterInv
  <2>2. WriterInv
    BY DEF ContentsInv
  <2> QED  BY <1>1, <1>3, <1>5, <2>1, <2>2 DEF WriterInv
<1>7. Capacity \in Nat /\ Len(queue') <= Capacity
  <2>1. Capacity \in Nat
    BY StoreAssumption DEF Capacity
  <2> QED  BY <1>1, <1>4, <2>1, WriterTypes
<1>8. QueueInv'
  <2> SUFFICES ASSUME writer.pc \in Working PROVE QueueInv'
    BY <1>1, <1>7 DEF QueueInv, Capacity
  <2>1. /\ ops = Taken + Len(queue)
        /\ \A i \in DOMAIN queue :
              queue[i] = IF i <= ops - Taken THEN Taken + i ELSE Finished
    BY <1>1 DEF ContentsInv, QueueInv
  <2>2. Taken' <= ops' /\ ops' <= Taken' + Len(queue') /\ ops' = Taken' + Len(queue')
    BY <1>1, <1>4, <1>5, <2>1, WriterTypes
  <2>3. ASSUME NEW i \in DOMAIN queue'
        PROVE  queue'[i] = IF i <= ops' - Taken' THEN Taken' + i ELSE Finished
    <3>1. i \in Nat /\ i <= Len(queue) + 1
      BY <1>4
    <3>2. i <= ops' - Taken'
      BY <1>4, <2>2, <3>1, <1>5, WriterTypes
    <3>3. CASE i = Len(queue) + 1
      <4>1. queue'[i] = ops + 1
        BY <1>4, <3>3
      <4> QED  BY <1>5, <2>1, <3>2, <3>3, <4>1, WriterTypes
    <3>4. CASE i # Len(queue) + 1
      <4>1. queue'[i] = queue[i] /\ i \in DOMAIN queue
        BY <1>4, <3>4
      <4>2. i <= ops - Taken
        BY <2>1, <3>1, <3>4, WriterTypes
      <4>3. queue[i] = Taken + i
        BY <2>1, <4>1, <4>2
      <4> QED  BY <1>5, <3>2, <4>1, <4>3
    <3> QED  BY <3>3, <3>4
  <2> QED  BY <1>7, <2>2, <2>3 DEF QueueInv, Capacity
<1>9. LossInv'
  <2>1. LossInv
    BY DEF ContentsInv
  <2>2. /\ main'.pc \notin {"start", "load"} /\ ~SavingHistory'
        /\ writer.pc # "exit" /\ writer.pc \in Working \cup {"dead"}
    BY <1>1, <2>1 DEF SavingHistory, LossInv, Working
  <2>3. Saved \in Nat
    BY SavedIsNat DEF ContentsInv
  <2>4. ops' <= Saved + ChunkSize + 1 + Len(queue')
    <3>1. CASE writer.pc = "dead"
      <4>1. ops <= Saved + ChunkSize + 1 + Len(queue)
        BY <2>1, <3>1 DEF LossInv
      <4> QED  BY <1>1, <1>4, <2>3, <4>1, WriterTypes, StoreAssumption
    <3>2. CASE writer.pc \in Working
      <4>1. ops = Taken + Len(queue)
        BY <1>1, <3>2 DEF ContentsInv, QueueInv
      <4>2. Taken <= Saved + ChunkSize + 1
        BY <3>2, TakenIsBounded
      <4> QED  BY <1>1, <1>4, <2>3, <4>1, <4>2, WriterTypes, StoreAssumption
    <3> QED  BY <2>2, <3>1, <3>2
  <2>5. ops' <= Saved + Capacity + ChunkSize + 1
    BY <1>1, <1>4, <1>7, <2>3, <2>4, WriterTypes, StoreAssumption
  <2>6. Saved <= ops'
    BY <1>1, <2>1, <2>3, WriterTypes DEF LossInv
  <2> QED  BY <1>1, <1>3, <2>2, <2>4, <2>5, <2>6 DEF LossInv, Capacity
<1> QED  BY <1>3, <1>6, <1>8, <1>9 DEF ContentsInv

LEMMA EndRunContents ==
    ASSUME TypeOK, StoreInv, ContentsInv, EndRun
    PROVE  ContentsInv'
<1>1. /\ main.pc = "run" /\ disk' = disk /\ handle' = handle /\ writer' = writer
      /\ queue' = queue /\ ops' = ops
  BY DEF EndRun
<1>2. main.stage = 0
  BY <1>1 DEF StoreInv, TakingTurns
<1>3. /\ main'.pc \in {"close", "close again"} /\ main'.stage = main.stage
      /\ main'.history = main.history /\ main'.results = main.results
  BY PlainTypes DEF EndRun, MainStates
<1>4. InUse' => InUse
  BY <1>1 DEF InUse
<1>5. /\ RootInv' /\ DiskHolds' /\ HandleHolds' /\ Saved' = Saved
      /\ DiskWithIndex' = DiskWithIndex /\ Written(handle') = Written(handle)
  BY <1>1, <1>2, <1>3, <1>4, FeedingKeepsViews
<1>6. Pending' = Pending /\ Carried' = Carried /\ Taken' = Taken
  BY <1>1 DEF Pending, Carried, Taken
<1>7. WriterInv /\ QueueInv /\ LossInv
  BY DEF ContentsInv
<1>8. WriterInv'
  BY <1>1, <1>3, <1>5, <1>6, <1>7 DEF WriterInv
<1>9. QueueInv'
  BY <1>1, <1>3, <1>6, <1>7 DEF QueueInv, Capacity
<1>10. LossInv'
  <2>1. ~SavingHistory' /\ main'.pc \notin {"start", "run", "load"}
    BY <1>3 DEF SavingHistory
  <2> QED  BY <1>1, <1>5, <1>7, <2>1 DEF LossInv, Capacity
<1> QED  BY <1>5, <1>8, <1>9, <1>10 DEF ContentsInv

LEMMA PutFinishedContents ==
    ASSUME TypeOK, StoreInv, ContentsInv, PutFinished
    PROVE  ContentsInv'
<1>1. /\ main.pc \in {"close", "close again"} /\ disk' = disk /\ handle' = handle
      /\ writer' = writer /\ ops' = ops /\ Len(queue) < Capacity
      /\ queue' = Append(queue, Finished)
  BY DEF PutFinished
<1>2. main.stage = 0
  BY <1>1 DEF StoreInv, TakingTurns
<1>3. /\ main'.pc \in {"join", "join again"} /\ main'.stage = main.stage
      /\ main'.history = main.history /\ main'.results = main.results
  BY PlainTypes DEF PutFinished, MainStates
<1>4. InUse' => InUse
  BY <1>1 DEF InUse
<1>5. /\ RootInv' /\ DiskHolds' /\ HandleHolds' /\ Saved' = Saved
      /\ DiskWithIndex' = DiskWithIndex /\ Written(handle') = Written(handle)
  BY <1>1, <1>2, <1>3, <1>4, FeedingKeepsViews
<1>6. Pending' = Pending /\ Carried' = Carried /\ Taken' = Taken
  BY <1>1 DEF Pending, Carried, Taken
<1>7. WriterInv /\ QueueInv /\ LossInv
  BY DEF ContentsInv
<1>8. queue' \in Seq(Nat) /\ Len(queue') = Len(queue) + 1
      /\ \A i \in DOMAIN queue' :
            /\ i \in Nat /\ i <= Len(queue) + 1
            /\ queue'[i] = IF i = Len(queue) + 1 THEN Finished ELSE queue[i]
            /\ i # Len(queue) + 1 => i \in DOMAIN queue
  <2>1. queue \in Seq(Nat) /\ Finished \in Nat
    BY WriterTypes DEF Finished
  <2> QED  BY <1>1, <2>1, Appended
<1>9. WriterInv'
  BY <1>1, <1>3, <1>5, <1>6, <1>7 DEF WriterInv
<1>10. Len(queue') <= Capacity
  <2>1. Capacity \in Nat
    BY StoreAssumption DEF Capacity
  <2>2. Len(queue') = Len(queue) + 1 /\ Len(queue) < Capacity
    BY <1>1, <1>8
  <2> QED  BY <2>1, <2>2, WriterTypes
<1>11. QueueInv'
  <2> SUFFICES ASSUME writer.pc \in Working PROVE QueueInv'
    BY <1>1, <1>10 DEF QueueInv, Capacity
  <2>1. /\ Taken <= ops /\ ops <= Taken + Len(queue)
        /\ \A i \in DOMAIN queue :
              queue[i] = IF i <= ops - Taken THEN Taken + i ELSE Finished
    BY <1>7 DEF QueueInv
  <2>2. Taken' <= ops' /\ ops' <= Taken' + Len(queue')
    <3>1. Len(queue') = Len(queue) + 1 /\ ops' = ops /\ Taken' = Taken
      BY <1>1, <1>6, <1>8
    <3>2. Taken <= ops /\ ops <= Taken + Len(queue)
      BY <2>1
    <3> QED  BY <3>1, <3>2, WriterTypes
  <2>3. ASSUME NEW i \in DOMAIN queue'
        PROVE  queue'[i] = IF i <= ops' - Taken' THEN Taken' + i ELSE Finished
    <3>1. CASE i = Len(queue) + 1
      <4>1. ~(i <= ops' - Taken')
        <5>1. ops' = ops /\ Taken' = Taken
          BY <1>1, <1>6
        <5>2. ops <= Taken + Len(queue)
          BY <2>1
        <5> QED  BY <3>1, <5>1, <5>2, WriterTypes
      <4> QED  BY <1>8, <3>1, <4>1
    <3>2. CASE i # Len(queue) + 1
      <4>1. queue'[i] = queue[i] /\ i \in DOMAIN queue
        BY <1>8, <3>2
      <4> QED  BY <1>1, <1>6, <2>1, <4>1
    <3> QED  BY <3>1, <3>2
  <2> QED  BY <1>3, <1>10, <2>2, <2>3 DEF QueueInv, Capacity
<1>12. LossInv'
  <2>1. ~SavingHistory' /\ main'.pc \notin {"start", "run", "load"}
    BY <1>3 DEF SavingHistory
  <2>2. writer.pc = "dead" => ops <= Saved + ChunkSize + 1 + Len(queue')
    <3>1. Saved \in Nat
      BY SavedIsNat DEF ContentsInv
    <3> QED  BY <1>7, <1>8, <3>1, WriterTypes, StoreAssumption DEF LossInv
  <2> QED  BY <1>1, <1>5, <1>7, <2>1, <2>2 DEF LossInv, Capacity
<1> QED  BY <1>5, <1>9, <1>11, <1>12 DEF ContentsInv

LEMMA JoinWriterContents ==
    ASSUME TypeOK, StoreInv, ContentsInv, JoinWriter
    PROVE  ContentsInv'
<1>1. /\ main.pc \in {"join", "join again"} /\ writer.pc \in {"exit", "dead"}
      /\ disk' = disk /\ handle' = handle /\ writer' = writer
      /\ queue' = queue /\ ops' = ops
  BY DEF JoinWriter
<1>2. main.stage = 0 /\ writer.pc \notin Working
  BY <1>1 DEF StoreInv, TakingTurns, Working
<1>3. /\ main'.pc \in {"load", "close again", "close file", "test"}
      /\ main'.stage = (IF main'.pc = "test" THEN 1 ELSE 0)
      /\ main'.history = main.history /\ main'.results = main.results
      /\ main'.pc \in {"load", "test"} => writer.pc = "exit"
  <2>1. CASE main.pc = "join" /\ writer.pc = "exit" /\ main' = [main EXCEPT !.pc = "load"]
    BY <1>2, <2>1, PlainTypes DEF MainStates
  <2>2. CASE main' = [main EXCEPT !.pc = "close again", !.failed = TRUE]
    BY <1>2, <2>2, PlainTypes DEF MainStates
  <2>3. CASE main' = [main EXCEPT !.pc = "close file"]
    BY <1>2, <2>3, PlainTypes DEF MainStates
  <2>4. CASE writer.pc # "dead" /\ main' = [main EXCEPT !.pc = "test", !.stage = 1]
    BY <1>1, <1>2, <2>4, PlainTypes DEF MainStates
  <2> QED  BY <2>1, <2>2, <2>3, <2>4 DEF JoinWriter
<1>4. (InUse' => InUse) /\ (main'.pc = "test" => InUse)
  BY <1>1, <1>3 DEF InUse
<1>5. RootInv' /\ DiskHolds' /\ HandleHolds' /\ Saved' = Saved
  BY <1>1, <1>3, <1>4, FeedingKeepsViews
<1>6. WriterInv' /\ QueueInv' /\ LossInv'
  <2>1. LossInv /\ QueueInv
    BY DEF ContentsInv
  <2>2. main'.pc \notin {"start", "run"}
        /\ (main'.pc = "load" \/ SavingHistory' => writer.pc = "exit")
    BY <1>3 DEF SavingHistory
  <2> QED  BY <1>1, <1>2, <1>5, <2>1, <2>2, WriterIdles
<1> QED  BY <1>5, <1>6 DEF ContentsInv

-----------------------------------------------------------------------------
(* The history that is read back is the one that was saved. *)

LEMMA PrepReadContents ==
    ASSUME TypeOK, StoreInv, ContentsInv, HasIndex(disk), main.pc \in {"load", "prep"},
           NEW g, g = PrepRead(handle, disk)
    PROVE  /\ InUse /\ DiskWithIndex = disk /\ writer.pc \notin Working
           /\ g.read /\ Holds(disk, Written(g), main.history, Saved)
           /\ main.pc = "load" => Data(disk, Written(g), g.root) = Test(0, main.history, 0)
           /\ disk.pointer # 0 /\ Root(disk).history = main.history
<1>1. InUse /\ writer.pc \notin Working
  BY MainWrites DEF StoreInv
<1>2. writer.pc # "index"
  BY <1>1 DEF Working
<1>3. DiskWithIndex = disk
  <2>1. IndexIo = NoIo
    BY <1>2 DEF IndexIo
  <2> QED  BY <2>1 DEF DiskWithIndex
<1>4. g.read /\ (handle.read => g = handle)
      /\ (~handle.read => Written(g) = IndexOf(disk).blocks /\ g.root = IndexOf(disk).root)
  BY <1>1, <1>3, PrepReadEffect
<1>5. disk.pointer # 0
  BY DEF HasIndex
<1>6. Root(disk).history = main.history
      /\ (main.pc = "load" => Root(disk) = Test(0, main.history, 0))
  <2>1. CASE main.pc = "load"
    <3>1. Root(disk) = Test(0, main.history, 0)
      BY <2>1 DEF ContentsInv, RootInv, Running
    <3> QED  BY <3>1 DEF Test
  <2>2. CASE main.pc = "prep"
    <3>1. main.stage = 2
      BY <2>2 DEF StoreInv, TakingTurns
    <3> QED  BY <2>2, <3>1 DEF ContentsInv, RootInv
  <2> QED  BY <2>1, <2>2
<1>7. CASE handle.read
  <2>1. Holds(disk, Written(handle), main.history, Saved)
    BY <1>1, <1>2, <1>3, <1>7 DEF ContentsInv, HandleHolds
  <2>2. main.pc = "load" => Data(disk, Written(handle), handle.root) = Test(0, main.history, 0)
    BY <1>1, <1>3 DEF ContentsInv, RootInv, Running
  <2> QED  BY <1>1, <1>3, <1>4, <1>5, <1>6, <1>7, <2>1, <2>2
<1>8. CASE ~handle.read
  <2>1. Holds(disk, IndexOf(disk).blocks, Root(disk).history, Saved)
    BY <1>5 DEF ContentsInv, DiskHolds
  <2>2. Holds(disk, Written(g), main.history, Saved)
    BY <1>4, <1>6, <1>8, <2>1
  <2>3. main.pc = "load" => Data(disk, Written(g), g.root) = Test(0, main.history, 0)
    BY <1>4, <1>6, <1>8 DEF Root
  <2> QED  BY <1>1, <1>3, <1>4, <1>5, <1>6, <2>2, <2>3
<1> QED  BY <1>7, <1>8

LEMMA LoadHistoryContents ==
    ASSUME TypeOK, StoreInv, ContentsInv, LoadHistory
    PROVE  /\ ContentsInv' /\ writer.pc = "exit"
           /\ Holds(disk, Written(handle'), main.history, Saved)
<1>1. /\ main.pc = "load" /\ HasIndex(disk) /\ handle' = PrepRead(handle, disk)
      /\ disk' = disk /\ writer' = writer /\ queue' = queue /\ ops' = ops
  BY DEF LoadHistory
<1>2. main'.pc = "close again" /\ main'.stage = 0 /\ main'.history = main.history
  <2>1. main.stage = 0
    BY <1>1 DEF StoreInv, TakingTurns
  <2> QED  BY <2>1, PlainTypes DEF LoadHistory, MainStates
<1>3. /\ InUse /\ DiskWithIndex = disk /\ writer.pc \notin Working
      /\ Holds(disk, Written(handle'), main.history, Saved)
      /\ Data(disk, Written(handle'), handle'.root) = Test(0, main.history, 0)
      /\ disk.pointer # 0
  BY <1>1, PrepReadContents
<1>4. DiskWithIndex' = disk
  <2>1. IndexIo' = NoIo
    BY <1>1, <1>2, <1>3 DEF IndexIo, Working
  <2> QED  BY <1>1, <2>1 DEF DiskWithIndex
<1>5. DiskHolds' /\ Saved' = Saved /\ Root(disk') = Root(disk)
  BY <1>1, DiskIdles DEF ContentsInv
<1>6. writer.pc = "exit" /\ LossInv /\ QueueInv
  BY <1>1 DEF ContentsInv, LossInv
<1>7. HandleHolds'
  <2>1. writer'.pc # "index"
    BY <1>1, <1>6
  <2> QED  BY <1>2, <1>3, <1>4, <1>5, <2>1 DEF HandleHolds
<1>8. RootInv'
  <2>0. main'.stage # 2
    BY <1>2, Numerals, Zenon
  <2>1. ~Starting' /\ ~SavingHistory' /\ main'.stage # 2 /\ main'.pc \notin {"test", "index"}
    BY <1>2, <2>0 DEF Starting, SavingHistory
  <2>2. Root(disk) = Test(0, main.history, 0)
    BY <1>1 DEF ContentsInv, RootInv, Running
  <2>3. disk'.pointer # 0 /\ Root(disk') = Test(0, main'.history, 0)
    BY <1>1, <1>2, <1>3, <1>5, <2>2
  <2>4. Data(DiskWithIndex', Written(handle'), handle'.root) = Test(0, main'.history, 0)
    BY <1>2, <1>3, <1>4
  <2> QED  BY <2>1, <2>3, <2>4 DEF RootInv
<1>9. WriterInv' /\ QueueInv' /\ LossInv'
  <2>1. ~SavingHistory' /\ main'.pc \notin {"start", "run", "load"}
    BY <1>2 DEF SavingHistory
  <2> QED  BY <1>1, <1>3, <1>5, <1>6, <2>1, WriterIdles
<1>10. ContentsInv'
  BY <1>5, <1>7, <1>8, <1>9 DEF ContentsInv
<1> QED  BY <1>3, <1>6, <1>10

LEMMA PrepResultsContents ==
    ASSUME TypeOK, StoreInv, ContentsInv, PrepResults
    PROVE  ContentsInv'
<1>1. /\ main.pc = "prep" /\ HasIndex(disk) /\ handle' = PrepRead(handle, disk)
      /\ disk' = disk /\ writer' = writer /\ queue' = queue /\ ops' = ops
  BY DEF PrepResults
<1>2. main'.pc = "more" /\ main'.stage = 2 /\ main'.history = main.history
  <2>1. main.stage = 2
    BY <1>1 DEF StoreInv, TakingTurns
  <2> QED  BY <2>1, PlainTypes DEF PrepResults, MainStates
<1>3. /\ InUse /\ DiskWithIndex = disk /\ writer.pc \notin Working
      /\ Holds(disk, Written(handle'), main.history, Saved)
      /\ disk.pointer # 0 /\ Root(disk).history = main.history
  BY <1>1, PrepReadContents
<1>4. DiskWithIndex' = disk
  <2>1. IndexIo' = NoIo
    BY <1>1, <1>2, <1>3 DEF IndexIo, Working
  <2> QED  BY <1>1, <2>1 DEF DiskWithIndex
<1>5. DiskHolds' /\ Saved' = Saved /\ Root(disk') = Root(disk)
  BY <1>1, DiskIdles DEF ContentsInv
<1>6. LossInv /\ QueueInv
  BY DEF ContentsInv
<1>7. HandleHolds'
  <2>1. writer'.pc # "index"
    BY <1>1, <1>3 DEF Working
  <2> QED  BY <1>2, <1>3, <1>4, <1>5, <2>1 DEF HandleHolds
<1>8. RootInv'
  <2>1. /\ ~Starting' /\ ~SavingHistory' /\ ~Running'
        /\ main'.pc \notin {"test", "index"}
    BY <1>2 DEF Starting, SavingHistory, Running
  <2>2. disk'.pointer # 0 /\ Root(disk').history = main'.history
    BY <1>1, <1>2, <1>3, <1>5
  <2> QED  BY <2>1, <2>2 DEF RootInv
<1>9. WriterInv' /\ QueueInv' /\ LossInv'
  <2>1. ~SavingHistory' /\ main'.pc \notin {"start", "run", "load"}
    BY <1>2 DEF SavingHistory
  <2> QED  BY <1>1, <1>3, <1>5, <1>6, <2>1, WriterIdles
<1> QED  BY <1>5, <1>7, <1>8, <1>9 DEF ContentsInv

-----------------------------------------------------------------------------
(* Failures, and the processes that come and go. *)

LEMMA MainThrowsContents ==
    ASSUME TypeOK, StoreInv, ContentsInv, MainThrows
    PROVE  ContentsInv'
<1>1. /\ main.pc \in MainBlocks \cup {"index"}
      /\ disk' = disk /\ handle' = handle /\ writer' = writer
      /\ queue' = queue /\ ops' = ops
  BY DEF MainThrows
<1>2. main'.pc = "close file"
  BY PlainTypes DEF MainThrows, MainStates
<1>3. writer.pc \notin Working
  BY <1>1, MainWrites DEF StoreInv
<1>4. DiskHolds' /\ Saved' = Saved /\ Root(disk') = Root(disk)
  BY <1>1, DiskIdles DEF ContentsInv
<1>5. ~InUse' /\ ~Starting' /\ ~SavingHistory' /\ ~Running'
  BY <1>2 DEF InUse, Starting, SavingHistory, Running
<1>6. RootInv'
  <2>1. disk.pointer = 0 => ops = 0
    BY DEF ContentsInv, RootInv
  <2> QED  BY <1>1, <1>2, <1>5, <2>1 DEF RootInv
<1>7. HandleHolds'
  BY <1>5 DEF HandleHolds
<1>8. WriterInv' /\ QueueInv' /\ LossInv'
  <2>1. LossInv /\ QueueInv
    BY DEF ContentsInv
  <2>2. main'.pc \notin {"start", "run", "load"}
    BY <1>2
  <2> QED  BY <1>1, <1>3, <1>4, <1>5, <2>1, <2>2, WriterIdles
<1> QED  BY <1>4, <1>6, <1>7, <1>8 DEF ContentsInv

LEMMA StopContents ==
    ASSUME TypeOK, StoreInv, ContentsInv, Stop
    PROVE  ContentsInv'
<1>1. disk' = disk /\ main' = Down /\ writer' = NoWriter /\ queue' = <<>> /\ ops' = ops
  BY DEF Stop
<1>2. main'.pc = "down" /\ writer'.pc = "none"
  BY <1>1, RestTypes
<1>3. DiskHolds' /\ Saved' = Saved /\ Root(disk') = Root(disk)
  BY <1>1, DiskIdles DEF ContentsInv
<1>4. ~InUse' /\ ~Starting' /\ ~SavingHistory' /\ ~Running'
  BY <1>2 DEF InUse, Starting, SavingHistory, Running
<1>5. RootInv'
  <2>1. disk.pointer = 0 => ops = 0
    BY DEF ContentsInv, RootInv
  <2> QED  BY <1>1, <1>2, <1>4, <2>1 DEF RootInv
<1>6. HandleHolds'
  BY <1>4 DEF HandleHolds
<1>7. writer'.pc \notin Working
  BY <1>2 DEF Working
<1>8. WriterInv'
  BY <1>7 DEF WriterInv
<1>9. QueueInv'
  <2>1. Len(queue') = 0 /\ Capacity \in Nat
    BY <1>1, StoreAssumption DEF Capacity
  <2> QED  BY <1>7, <2>1 DEF QueueInv, Capacity
<1>10. LossInv'
  <2>1. LossInv
    BY DEF ContentsInv
  <2> QED  BY <1>1, <1>2, <1>3, <1>4, <2>1 DEF LossInv, Capacity
<1> QED  BY <1>3, <1>5, <1>6, <1>8, <1>9, <1>10 DEF ContentsInv

LEMMA AnalyzeContents ==
    ASSUME TypeOK, StoreInv, ContentsInv, Analyze
    PROVE  ContentsInv'
<1>1. /\ main.pc = "down" /\ Readable(disk) /\ disk' = disk /\ handle' = handle
      /\ writer' = writer /\ queue' = queue /\ ops' = ops
      /\ main' = [Down EXCEPT !.pc = "prep", !.stage = 2, !.history = Root(disk).history]
  BY DEF Analyze
<1>2. main'.pc = "prep" /\ main'.stage = 2 /\ main'.history = Root(disk).history
  BY <1>1 DEF Down
<1>3. writer = NoWriter /\ handle = NewHandle
  BY <1>1 DEF StoreInv, TakingTurns, ReadBack
<1>4. writer.pc \notin Working /\ ~handle'.read
  BY <1>1, <1>3, RestTypes DEF Working
<1>5. DiskHolds' /\ Saved' = Saved /\ Root(disk') = Root(disk)
  BY <1>1, DiskIdles DEF ContentsInv
<1>6. disk.pointer # 0
  BY <1>1 DEF Readable, HasIndex
<1>7. ~Starting' /\ ~SavingHistory' /\ ~Running' /\ main'.pc \notin {"test", "index"}
  BY <1>2 DEF Starting, SavingHistory, Running
<1>8. RootInv'
  BY <1>1, <1>2, <1>5, <1>6, <1>7 DEF RootInv
<1>9. HandleHolds'
  BY <1>2, <1>4 DEF HandleHolds
<1>10. WriterInv' /\ QueueInv' /\ LossInv'
  <2>1. LossInv /\ QueueInv
    BY DEF ContentsInv
  <2>2. main'.pc \notin {"start", "run", "load"}
    BY <1>2
  <2> QED  BY <1>1, <1>4, <1>5, <1>7, <2>1, <2>2, WriterIdles
<1> QED  BY <1>5, <1>8, <1>9, <1>10 DEF ContentsInv

LEMMA GcContents ==
    ASSUME TypeOK, StoreInv, ContentsInv, Gc
    PROVE  ContentsInv' /\ Saved' = Saved /\ Root(disk') = Root(disk)
           /\ disk.pointer # 0 /\ disk'.pointer # 0
<1> DEFINE b == IndexOf(disk).blocks
           r == IndexOf(disk).root
           c == IndexOf(disk').blocks
<1>1. /\ main.pc = "down" /\ HasIndex(disk) /\ disk' = Copy(disk) /\ disk.pointer # 0
      /\ handle' = handle /\ main' = main /\ writer' = writer /\ queue' = queue
      /\ ops' = ops
  BY DEF Gc, Readable, HasIndex
<1>2. writer = NoWriter
  BY <1>1 DEF StoreInv, TakingTurns
<1>3. WellFormed(disk, b) /\ TestBlock(disk, b, r) /\ HasGreatest(DOMAIN b)
  BY <1>1 DEF StoreInv, DiskIsSound
<1>4. /\ disk'.pointer # 0 /\ IndexOf(disk').root = r
      /\ \A id \in Reachable(disk) : Has(disk', c, id) /\ Data(disk', c, id) = Data(disk, b, id)
  BY <1>1, <1>3, DiskType, CopyIsSound
<1>5. /\ r \in Reachable(disk)
      /\ \A id \in Reachable(disk) : References(Data(disk, b, id)) \subseteq Reachable(disk)
  BY <1>3, ReachableIsClosed
<1>6. Root(disk') = Root(disk) /\ Root(disk) = Data(disk, b, r)
  BY <1>4, <1>5 DEF Root
<1>7. Holds(disk, b, Root(disk).history, Saved)
  BY <1>1 DEF ContentsInv, DiskHolds
<1>8. Root(disk).history \in Reachable(disk)
  <2>1. Root(disk).type = "test"
    BY <1>3, <1>6 DEF TestBlock
  <2>2. Root(disk).history # 0
    <3>1. Root(disk).history \in DOMAIN b /\ DOMAIN b \subseteq Nat \ {0}
      BY <1>3, <1>7 DEF Holds, Has, WellFormed
    <3> QED  BY <3>1
  <2>3. Root(disk).history \in References(Root(disk))
    BY <2>1, <2>2, ReferencesAre
  <2> QED  BY <1>5, <1>6, <2>3
<1>9. Holds(disk', c, Root(disk).history, Saved)
  <2>1. \A id \in Reachable(disk) : Stays(disk, b, disk', c, id)
    BY <1>4 DEF Stays
  <2>2. \A id \in References(Data(disk, b, Root(disk).history)) : id \in Reachable(disk)
    BY <1>5, <1>8
  <2> DEFINE h == Root(disk).history
  <2> HIDE DEF b, c, h
  <2>3. Holds(disk, b, h, Saved) /\ Stays(disk, b, disk', c, h)
        /\ \A id \in References(Data(disk, b, h)) : Stays(disk, b, disk', c, id)
    BY <1>7, <1>8, <2>1, <2>2 DEF h
  <2>4. Holds(disk', c, h, Saved)
    BY <2>3, HoldsStays
  <2> QED  BY <2>4 DEF h
<1>10. Saved' = Saved
  <2>1. Count(disk', c, Root(disk').history) = Saved
    BY <1>6, <1>9, HoldsCount
  <2> QED  BY <1>4, <2>1 DEF Saved
<1>11. DiskHolds'
  BY <1>6, <1>9, <1>10 DEF DiskHolds
<1>12. ~InUse' /\ ~Starting' /\ ~SavingHistory' /\ ~Running'
  BY <1>1 DEF InUse, Starting, SavingHistory, Running
<1>13. RootInv'
  BY <1>1, <1>4, <1>12 DEF RootInv
<1>14. HandleHolds'
  BY <1>12 DEF HandleHolds
<1>15. WriterInv' /\ QueueInv' /\ LossInv'
  <2>1. LossInv /\ QueueInv
    BY DEF ContentsInv
  <2>2. main'.pc \notin {"start", "run", "load"}
    BY <1>1
  <2>3. writer.pc \notin Working
    BY <1>2, RestTypes DEF Working
  <2> QED  BY <1>1, <1>10, <1>12, <2>1, <2>2, <2>3, WriterIdles
<1>16. ContentsInv'
  BY <1>11, <1>13, <1>14, <1>15 DEF ContentsInv
<1> QED  BY <1>1, <1>4, <1>6, <1>10, <1>16

-----------------------------------------------------------------------------
LEMMA ContentsInit ==
    ASSUME Init
    PROVE  ContentsInv
<1>1. /\ disk.pointer = 0 /\ main.pc = "history" /\ main.stage = 0
      /\ writer = NoWriter /\ queue = <<>> /\ ops = 0
  <2>1. main = [Down EXCEPT !.pc = "history"]
        /\ disk = [header |-> FALSE, pointer |-> 0, file |-> <<>>]
    BY DEF Init
  <2>2. main.pc = "history" /\ main.stage = 0
    BY <2>1 DEF Down
  <2>3. disk.pointer = 0
    BY <2>1
  <2> QED  BY <2>2, <2>3 DEF Init
<1>2. Starting /\ ~Running /\ ~SavingHistory /\ Saved = 0
  BY <1>1 DEF Starting, Running, SavingHistory, Saved
<1>3. RootInv
  <2>1. main.stage # 2
    BY <1>1, Numerals, Zenon
  <2> QED  BY <1>1, <1>2, <2>1 DEF RootInv
<1>4. DiskHolds /\ HandleHolds
  BY <1>1 DEF DiskHolds, HandleHolds
<1>5. writer.pc = "none" /\ writer.pc \notin Working
  BY <1>1, RestTypes DEF Working
<1>6. WriterInv
  BY <1>5 DEF WriterInv
<1>7. Capacity \in Nat /\ Len(queue) = 0 /\ ChunkSize \in Nat
  BY <1>1, StoreAssumption DEF Capacity
<1>8. QueueInv
  BY <1>5, <1>7 DEF QueueInv
<1>9. LossInv
  <2>1. Saved <= ops /\ ops <= Saved + Capacity + ChunkSize + 1
    BY <1>1, <1>2, <1>7
  <2> QED  BY <1>1, <1>2, <1>5, <2>1 DEF LossInv
<1> QED  BY <1>3, <1>4, <1>6, <1>8, <1>9 DEF ContentsInv

LEMMA ContentsStep ==
    ASSUME TypeOK, StoreInv, ContentsInv, [Next]_vars
    PROVE  ContentsInv'
<1>1. CASE MainBegin
  BY <1>1, MainBeginContents
<1>2. CASE MainSeal
  BY <1>2, MainSealContents
<1>3. CASE MainIndex
  BY <1>3, MainIndexContents
<1>4. CASE StartWriter
  BY <1>4, StartWriterContents
<1>5. CASE EndRun
  BY <1>5, EndRunContents
<1>6. CASE PutFinished
  BY <1>6, PutFinishedContents
<1>7. CASE JoinWriter
  BY <1>7, JoinWriterContents
<1>8. CASE LoadHistory
  BY <1>8, LoadHistoryContents
<1>9. CASE PrepResults
  BY <1>9, PrepResultsContents
<1>10. CASE CloseFile \/ Crash
  BY <1>10, StopContents DEF CloseFile, Crash
<1>11. CASE AppendOp
  BY <1>11, AppendOpContents
<1>12. CASE MainThrows
  BY <1>12, MainThrowsContents
<1>13. CASE OpenStream
  BY <1>13, OpenStreamContents
<1>14. CASE Take
  BY <1>14, TakeContents
<1>15. CASE SealStream
  BY <1>15, SealStreamContents
<1>16. CASE BeginVector
  BY <1>16, BeginVectorContents
<1>17. CASE SealVector
  BY <1>17, SealVectorContents
<1>18. CASE WriterIndex
  BY <1>18, WriterIndexContents
<1>19. CASE FlushStream
  BY <1>19, FlushStreamContents
<1>20. CASE WriterThrows
  BY <1>20, WriterThrowsContents
<1>21. CASE Analyze
  BY <1>21, AnalyzeContents
<1>22. CASE Gc
  BY <1>22, GcContents
<1>23. CASE UNCHANGED vars
  <2>1. /\ disk' = disk /\ handle' = handle /\ main' = main /\ writer' = writer
        /\ queue' = queue /\ ops' = ops
    BY <1>23 DEF vars
  <2>2. /\ Saved' = Saved /\ Root(disk') = Root(disk) /\ InUse' = InUse
        /\ Starting' = Starting /\ Running' = Running /\ SavingHistory' = SavingHistory
        /\ Pending' = Pending /\ Carried' = Carried
    BY <2>1 DEF Saved, InUse, Starting, Running, SavingHistory, Pending, Carried
  <2>3. IndexIo' = IndexIo /\ Taken' = Taken
    BY <2>1, <2>2 DEF IndexIo, Taken
  <2>4. DiskWithIndex' = DiskWithIndex /\ Written(handle') = Written(handle)
    BY <2>1, <2>3 DEF DiskWithIndex
  <2>5. RootInv'
    BY <2>1, <2>2, <2>4 DEF ContentsInv, RootInv
  <2>6. DiskHolds' /\ HandleHolds'
    BY <2>1, <2>2, <2>4 DEF ContentsInv, DiskHolds, HandleHolds
  <2>7. WriterInv'
    BY <2>1, <2>2, <2>3, <2>4 DEF ContentsInv, WriterInv
  <2>8. QueueInv' /\ LossInv'
    BY <2>1, <2>2, <2>3 DEF ContentsInv, QueueInv, LossInv, Capacity
  <2> QED  BY <2>5, <2>6, <2>7, <2>8 DEF ContentsInv
<1> QED
  <2>1. Next \/ UNCHANGED vars
    OBVIOUS
  <2>2. MainStep => \/ MainBegin \/ MainSeal \/ MainIndex \/ StartWriter \/ EndRun
                    \/ PutFinished \/ JoinWriter \/ LoadHistory \/ PrepResults
                    \/ CloseFile \/ Crash
    BY DEF MainStep
  <2>3. WriterStep => \/ OpenStream \/ Take \/ SealStream \/ BeginVector \/ SealVector
                      \/ WriterIndex
    BY DEF WriterStep
  <2> QED
    BY <1>1, <1>2, <1>3, <1>4, <1>5, <1>6, <1>7, <1>8, <1>9, <1>10, <1>11, <1>12, <1>13,
       <1>14, <1>15, <1>16, <1>17, <1>18, <1>19, <1>20, <1>21, <1>22, <1>23,
       <2>1, <2>2, <2>3 DEF Next

(* Every operation of the run is where it should be: in the file, with the      *)
(* history writer, or in its queue, once and in order; and whichever index a    *)
(* reader or the next save goes by, the history that it names holds exactly the *)
(* operations that were saved.                                                  *)
THEOREM StoreContents == Spec => [](TypeOK /\ StoreInv /\ ContentsInv)
<1>1. Init => ContentsInv
  BY ContentsInit
<1>2. TypeOK /\ StoreInv /\ ContentsInv /\ [Next]_vars => ContentsInv'
  BY ContentsStep
<1> QED  BY <1>1, <1>2, StoreInvariant, PTL DEF Spec

-----------------------------------------------------------------------------
(* What a reader finds. *)

(* The first operations of the run, in order. *)
UpTo(n) == [i \in 1 .. n |-> i]

LEMMA UpToFacts ==
    ASSUME NEW n \in Nat
    PROVE  UpTo(n) \in Seq(Nat) /\ Len(UpTo(n)) = n /\ DOMAIN UpTo(n) = 1 .. n
  BY DEF UpTo

LEMMA ReadableIs ==
    ASSUME StoreInv
    PROVE  /\ Readable(disk) <=> disk.pointer # 0
           /\ Readable(disk) /\ Root(disk).results # 0 => ResultsReadable
<1>1. IndexedBlocksAreComplete
  BY SoundDiskIsComplete DEF StoreInv
<1>2. Readable(disk) => disk.pointer # 0
  BY DEF Readable, HasIndex
<1> QED  BY <1>1, <1>2 DEF IndexedBlocksAreComplete

LEMMA HistoryIsSaved ==
    ASSUME StoreInv, ContentsInv
    PROVE  Saved \in Nat /\ History = UpTo(Saved)
<1>1. Saved \in Nat
  BY SavedIsNat DEF ContentsInv
<1>2. CASE disk.pointer = 0
  <2>1. History = <<>> /\ Saved = 0
    BY <1>2, ReadableIs DEF History, Saved
  <2>2. UpTo(0) = <<>>
    BY DEF UpTo
  <2> QED  BY <1>1, <2>1, <2>2
<1>3. CASE disk.pointer # 0
  <2>1. History = HistoryOf(disk, IndexOf(disk).blocks, Root(disk).history)
    BY <1>3, ReadableIs DEF History
  <2>2. Holds(disk, IndexOf(disk).blocks, Root(disk).history, Saved)
    BY <1>3 DEF ContentsInv, DiskHolds
  <2> QED  BY <1>1, <2>1, <2>2, HistoryIs DEF UpTo
<1> QED  BY <1>2, <1>3

(* Whenever the process dies, it loses at most what is in the queue, in the     *)
(* chunk that is being filled, and the operation between them: whatever the     *)
(* size of the chunks, however long the run.                                    *)
THEOREM WhatIsLostIsBounded == Spec => []LossIsBounded
<1>1. TypeOK /\ StoreInv /\ ContentsInv => LossIsBounded
  <2> SUFFICES ASSUME TypeOK, StoreInv, ContentsInv PROVE LossIsBounded
    OBVIOUS
  <2>1. Saved \in Nat /\ Len(History) = Saved
    BY HistoryIsSaved, UpToFacts
  <2>2. ops <= Saved + Capacity + ChunkSize + 1
    BY DEF ContentsInv, LossInv
  <2>3. Capacity \in Nat /\ ChunkSize \in Nat /\ ops \in Nat
    BY WriterTypes, StoreAssumption DEF Capacity
  <2>4. ops - Len(History) <= Capacity + ChunkSize + 1
    BY <2>1, <2>2, <2>3
  <2> QED  BY <2>4 DEF LossIsBounded
<1> QED  BY <1>1, StoreContents, PTL

(* When run! reads the history back, it finds every operation that it has       *)
(* appended, in order.                                                          *)
THEOREM RunReadsWhatItWrote == Spec => RunReturnsWholeHistory
<1>1. TypeOK /\ StoreInv /\ ContentsInv /\ [Next]_vars =>
         [main.pc = "load" /\ main'.pc = "close again" =>
             HistoryOf(disk, handle'.blocks, main.history) = [i \in 1 .. ops |-> i]]_vars
  <2> SUFFICES ASSUME TypeOK, StoreInv, ContentsInv, [Next]_vars,
                      main.pc = "load", main'.pc = "close again"
               PROVE  HistoryOf(disk, handle'.blocks, main.history) = [i \in 1 .. ops |-> i]
    OBVIOUS
  <2>1. LoadHistory
    <3>1. main' # main
      OBVIOUS
    <3>2. Next
      BY <3>1 DEF vars
    <3>3. ~WriterStep /\ ~FlushStream /\ ~WriterThrows /\ ~AppendOp /\ ~Gc
      BY <3>1 DEF WriterStep, OpenStream, Take, SealStream, BeginVector, SealVector,
                  WriterIndex, FlushStream, WriterThrows, AppendOp, Gc
    <3>4. /\ ~MainBegin /\ ~MainSeal /\ ~MainIndex /\ ~StartWriter /\ ~EndRun
          /\ ~PutFinished /\ ~JoinWriter /\ ~PrepResults /\ ~CloseFile
          /\ ~MainThrows /\ ~Analyze
      BY DEF MainBegin, MainSeal, MainIndex, StartWriter, EndRun, PutFinished, JoinWriter,
             PrepResults, CloseFile, MainThrows, Analyze, MainBlocks
    <3>5. ~Crash
      BY RestTypes DEF Crash, Stop
    <3> QED  BY <3>2, <3>3, <3>4, <3>5 DEF Next, MainStep
  <2>2. writer.pc = "exit" /\ Holds(disk, Written(handle'), main.history, Saved)
    BY <2>1, LoadHistoryContents
  <2>3. Saved = ops
    BY <2>2 DEF ContentsInv, LossInv
  <2> DEFINE b == Written(handle')
             c == handle'.blocks
  <2>4. \A id : Stays(disk, b, disk, c, id)
    <3>1. \A id \in DOMAIN b : id \in DOMAIN c /\ b[id] = c[id]
      BY WrittenFacts
    <3> QED  BY <3>1 DEF Stays, Has, Data
  <2> HIDE DEF b, c
  <2>5. Holds(disk, b, main.history, ops)
    BY <2>2, <2>3 DEF b
  <2>6. Holds(disk, c, main.history, ops)
    BY <2>4, <2>5, HoldsStays
  <2> QED  BY <2>6, HistoryIs DEF c
<1> QED  BY <1>1, StoreContents, PTL DEF Spec, RunReturnsWholeHistory

-----------------------------------------------------------------------------
(* SavedTest.  Only three steps save: the main thread's pointer to its index,   *)
(* the history writer's, and the copy that gc! makes.                           *)

MainSaves   == /\ main.pc = "index" /\ WritePointer(main.io)
               /\ main' = [main EXCEPT !.io = NoIo, !.pc = AfterSave[main.stage + 1],
                                       !.stage = IF @ = 1 THEN 2 ELSE @]
               /\ UNCHANGED <<writer, queue, ops, analyses>>
WriterSaves == /\ writer.pc = "index" /\ WritePointer(writer.io)
               /\ writer' = [writer EXCEPT !.io = NoIo,
                                           !.pc = IF writer.last THEN "exit" ELSE "open"]
               /\ UNCHANGED <<main, queue, ops, analyses>>

LEMMA PointerStays ==
    ASSUME TypeOK, [Next]_vars, ~Gc, ~MainSaves, ~WriterSaves
    PROVE  disk'.pointer = disk.pointer
<1>1. \A at, data, sealed : WriteAt(at, data, sealed).pointer = disk.pointer
  BY DiskType DEF WriteAt, IsDisk
<1>2. CASE MainBegin \/ MainSeal
  <2>1. \E at, data, sealed : disk' = WriteAt(at, data, sealed)
    BY <1>2, Zenon DEF MainBegin, MainSeal
  <2> QED  BY <1>1, <2>1
<1>3. ASSUME NEW io, PrepWrite(io) \/ BeginIndex(io) \/ SealIndex(io)
      PROVE  disk'.pointer = disk.pointer
  <2>1. CASE PrepWrite(io)
    BY <2>1, DiskType DEF PrepWrite, IsDisk
  <2>2. CASE BeginIndex(io)
    <3>1. \E at, data, sealed : disk' = WriteAt(at, data, sealed)
      BY <2>2, Zenon DEF BeginIndex
    <3> QED  BY <1>1, <3>1
  <2>3. CASE SealIndex(io)
    BY <2>3, DiskType DEF SealIndex, IsDisk
  <2> QED  BY <1>3, <2>1, <2>2, <2>3
<1>4. CASE MainIndex
  BY <1>3, <1>4 DEF MainIndex, MainSaves
<1>5. CASE WriterIndex
  BY <1>3, <1>5 DEF WriterIndex, WriterSaves
<1>6. CASE SealStream \/ BeginVector \/ FlushStream
  <2>1. \E at, data, sealed : disk' = WriteAt(at, data, sealed)
    BY <1>6, Zenon DEF SealStream, BeginVector, FlushStream
  <2> QED  BY <1>1, <2>1
<1>7. CASE SealVector
  BY <1>7, DiskType DEF SealVector, IsDisk
<1>8. CASE \/ StartWriter \/ EndRun \/ PutFinished \/ JoinWriter \/ LoadHistory
           \/ PrepResults \/ AppendOp \/ MainThrows \/ OpenStream \/ Take
           \/ WriterThrows \/ Analyze \/ UNCHANGED vars
  BY <1>8 DEF StartWriter, EndRun, PutFinished, JoinWriter, LoadHistory, PrepResults,
              AppendOp, MainThrows, OpenStream, Take, WriterThrows, Analyze, vars
<1>9. CASE CloseFile \/ Crash
  BY <1>9 DEF CloseFile, Crash, Stop
<1> QED
  BY <1>2, <1>4, <1>5, <1>6, <1>7, <1>8, <1>9 DEF Next, MainStep, WriterStep

(* Operations are appended by the run alone. *)
LEMMA OpsStay ==
    ASSUME [Next]_vars, ~AppendOp
    PROVE  ops' = ops
<1>1. MainStep => ops' = ops
  BY DEF MainStep, MainBegin, MainSeal, MainIndex, StartWriter, EndRun, PutFinished,
         JoinWriter, LoadHistory, PrepResults, CloseFile, Stop
<1>2. WriterStep \/ FlushStream \/ WriterThrows => ops' = ops
  BY DEF WriterStep, OpenStream, Take, SealStream, BeginVector, SealVector, WriterIndex,
         FlushStream, WriterThrows
<1>3. MainThrows \/ Crash \/ Analyze \/ Gc => ops' = ops
  BY DEF MainThrows, Crash, Stop, Analyze, Gc
<1>4. UNCHANGED vars => ops' = ops
  BY DEF vars
<1> QED  BY <1>1, <1>2, <1>3, <1>4 DEF Next

(* The other steps leave the file, as a reader sees it. *)
LEMMA NothingIsSaved ==
    ASSUME TypeOK, StoreInv, ContentsInv, [Next]_vars, ~MainSaves, ~WriterSaves
    PROVE  /\ disk'.pointer = 0 <=> disk.pointer = 0
           /\ Saved' = Saved
           /\ disk.pointer # 0 => Root(disk') = Root(disk)
<1>1. CASE Gc
  BY <1>1, GcContents
<1>2. CASE ~Gc
  <2>1. Extends(disk, disk')
    BY <1>2, StoreStep
  <2>2. disk'.pointer = disk.pointer
    BY <1>2, PointerStays
  <2> QED  BY <2>1, <2>2, DiskViewStays DEF StoreInv, ContentsInv
<1> QED  BY <1>1, <1>2

LEMMA MainSaveEffect ==
    ASSUME TypeOK, StoreInv, ContentsInv, MainSaves
    PROVE  /\ disk'.pointer # 0 /\ Saved' = Saved /\ ops' = ops /\ main.stage \in 0 .. 2
           /\ Root(disk') = Test(main.stage, main.history, main.results)
           /\ main.stage = 2 <=> main.results # 0
           /\ main.stage = 0 => disk.pointer = 0
           /\ main.stage = 1 => /\ disk.pointer # 0 /\ Root(disk) = Test(0, main.history, 0)
                                /\ Saved = ops
           /\ main.stage = 2 => disk.pointer # 0
<1>1. main.pc = "index" /\ UNCHANGED <<writer, queue, ops, analyses>>
  BY DEF MainSaves
<1>2. /\ disk'.pointer # 0 /\ Saved' = Saved
      /\ Root(disk') = Test(main.stage, main.history, main.results)
  BY <1>1, MainPointerContents DEF MainSaves
<1>3. main.stage \in 0 .. 2
  BY PlainTypes DEF MainStates
<1>4. /\ Starting => disk.pointer = 0
      /\ SavingHistory => disk.pointer # 0 /\ Root(disk) = Test(0, main.history, 0)
      /\ main.stage = 2 => disk.pointer # 0
      /\ main.stage = 2 <=> main.results # 0
  BY <1>1 DEF ContentsInv, RootInv
<1>5. SavingHistory => Saved = ops
  BY DEF ContentsInv, LossInv
<1>6. (main.stage = 0 => Starting) /\ (main.stage = 1 => SavingHistory)
  BY <1>1 DEF Starting, SavingHistory
<1> QED  BY <1>1, <1>2, <1>3, <1>4, <1>5, <1>6

LEMMA WriterSaveEffect ==
    ASSUME TypeOK, StoreInv, ContentsInv, WriterSaves
    PROVE  /\ disk.pointer # 0 /\ disk'.pointer # 0 /\ ops' = ops
           /\ Root(disk') = Test(0, main.history, 0) /\ Root(disk) = Root(disk')
           /\ Saved' \in Nat /\ Saved <= Saved' /\ Saved' <= ops
<1>1. writer.pc = "index" /\ writer.pc \in Working /\ UNCHANGED <<main, queue, ops, analyses>>
  BY DEF WriterSaves, Working
<1>2. /\ ContentsInv' /\ disk'.pointer # 0 /\ Saved' = writer.completed
      /\ Root(disk') = Test(0, main.history, 0)
  BY <1>1, WriterPointerContents DEF WriterSaves
<1>3. Running
  BY <1>1, WriterWrites DEF Running
<1>4. disk.pointer # 0 /\ Root(disk) = Test(0, main.history, 0)
  BY <1>3 DEF ContentsInv, RootInv
<1>5. writer.completed = Saved + Len(writer.ops)
  BY <1>1 DEF ContentsInv, WriterInv
<1>6. Saved \in Nat /\ Len(writer.ops) \in Nat /\ writer.completed \in Nat
  BY SavedIsNat, WriterTypes DEF ContentsInv
<1>7. Saved' <= ops'
  BY <1>2 DEF ContentsInv, LossInv
<1>8. Saved <= Saved'
  BY <1>2, <1>5, <1>6
<1> QED  BY <1>1, <1>2, <1>4, <1>6, <1>7, <1>8

(* The test in the file was written by one of the three saves. *)
SavedStage == disk.pointer # 0 => Root(disk).stage \in 0 .. 2

LEMMA SavedStageStep ==
    ASSUME TypeOK, StoreInv, ContentsInv, SavedStage, [Next]_vars
    PROVE  SavedStage'
<1>1. CASE MainSaves
  <2>1. main.stage \in 0 .. 2 /\ Root(disk') = Test(main.stage, main.history, main.results)
    BY <1>1, MainSaveEffect
  <2>2. Root(disk').stage = main.stage
    BY <2>1 DEF Test
  <2> QED  BY <2>1, <2>2 DEF SavedStage
<1>2. CASE WriterSaves
  <2>1. Root(disk') = Test(0, main.history, 0)
    BY <1>2, WriterSaveEffect
  <2>2. Root(disk').stage = 0
    BY <2>1 DEF Test
  <2> QED  BY <2>2 DEF SavedStage
<1>3. CASE ~MainSaves /\ ~WriterSaves
  BY <1>3, NothingIsSaved DEF SavedStage
<1> QED  BY <1>1, <1>2, <1>3

\* Stages and results as KeepsItsPromise maps them.
StageOnDisk == IF Readable(disk) THEN Root(disk).stage ELSE -1
ResultsOnDisk == Readable(disk) /\ Root(disk).results # 0 /\ ResultsReadable

LEMMA PromiseState ==
    ASSUME StoreInv, ContentsInv
    PROVE  /\ History = UpTo(Saved) /\ Saved \in Nat
           /\ disk.pointer = 0 => StageOnDisk = -1 /\ ~ResultsOnDisk /\ Saved = 0
           /\ disk.pointer # 0 => /\ StageOnDisk = Root(disk).stage
                                  /\ ResultsOnDisk <=> Root(disk).results # 0
           /\ ResultsOnDisk \in BOOLEAN
  BY ReadableIs, HistoryIsSaved DEF StageOnDisk, ResultsOnDisk, Saved

(* The steps of SavedTest. *)
LEMMA Stutters ==
    ASSUME StageOnDisk' = StageOnDisk, ResultsOnDisk' = ResultsOnDisk, History' = History,
           ops' = ops
    PROVE  UNCHANGED Promise!vars
  BY DEF Promise!vars, StageOnDisk, ResultsOnDisk

LEMMA RunOpIs ==
    ASSUME StageOnDisk = 0, StageOnDisk' = StageOnDisk, ResultsOnDisk' = ResultsOnDisk,
           History' = History,
           UpTo(ops') = Append(UpTo(ops), Len(UpTo(ops)) + 1)
    PROVE  Promise!RunOp
  BY DEF Promise!RunOp, StageOnDisk, ResultsOnDisk, UpTo

LEMMA SaveInitialIs ==
    ASSUME StageOnDisk = -1, StageOnDisk' = 0, ResultsOnDisk' = ResultsOnDisk,
           History' = History, ops' = ops
    PROVE  Promise!SaveInitial
  BY DEF Promise!SaveInitial, StageOnDisk, ResultsOnDisk

LEMMA CheckpointIs ==
    ASSUME StageOnDisk = 0, StageOnDisk' = StageOnDisk, ResultsOnDisk' = ResultsOnDisk,
           Len(History') \in Len(History) + 1 .. Len(UpTo(ops)),
           History' = SubSeq(UpTo(ops), 1, Len(History')), ops' = ops
    PROVE  Promise!Checkpoint
  BY DEF Promise!Checkpoint, StageOnDisk, ResultsOnDisk, UpTo

LEMMA SaveHistoryIs ==
    ASSUME StageOnDisk = 0, StageOnDisk' = 1, ResultsOnDisk' = ResultsOnDisk,
           History' = History, History = UpTo(ops), ops' = ops
    PROVE  Promise!SaveHistory
  BY DEF Promise!SaveHistory, StageOnDisk, ResultsOnDisk, UpTo

LEMMA SaveResultsIs ==
    ASSUME StageOnDisk >= 0, StageOnDisk' = 2, ResultsOnDisk' = TRUE, History' = History,
           ops' = ops
    PROVE  Promise!SaveResults
  BY DEF Promise!SaveResults, StageOnDisk, ResultsOnDisk

LEMMA UpToGrows ==
    ASSUME NEW n \in Nat
    PROVE  UpTo(n + 1) = Append(UpTo(n), Len(UpTo(n)) + 1)
<1>1. Len(UpTo(n)) = n /\ UpTo(n) \in Seq(Nat) /\ UpTo(n + 1) \in Seq(Nat)
      /\ Len(UpTo(n + 1)) = n + 1
  BY UpToFacts
<1>2. Append(UpTo(n), n + 1) = [i \in 1 .. n + 1 |-> IF i = n + 1 THEN n + 1 ELSE UpTo(n)[i]]
  BY <1>1
<1>3. \A i \in 1 .. n + 1 : (IF i = n + 1 THEN n + 1 ELSE UpTo(n)[i]) = i
  BY DEF UpTo
<1>4. UpTo(n + 1) = [i \in 1 .. n + 1 |-> i]
  BY DEF UpTo
<1> QED  BY <1>1, <1>2, <1>3, <1>4

LEMMA UpToBegins ==
    ASSUME NEW n \in Nat, NEW m \in Nat, m <= n
    PROVE  UpTo(m) = SubSeq(UpTo(n), 1, m)
<1>1. SubSeq(UpTo(n), 1, m) = [i \in 1 .. m |-> UpTo(n)[i]]
  BY UpToFacts
<1>2. \A i \in 1 .. m : UpTo(n)[i] = i
  BY DEF UpTo
<1> QED  BY <1>1, <1>2 DEF UpTo

LEMMA PromiseStep ==
    ASSUME TypeOK, StoreInv, ContentsInv, SavedStage, StoreInv', ContentsInv', [Next]_vars
    PROVE  [Promise!Next]_(Promise!vars)
<1>1. /\ History = UpTo(Saved) /\ Saved \in Nat
      /\ disk.pointer = 0 => StageOnDisk = -1 /\ ~ResultsOnDisk /\ Saved = 0
      /\ disk.pointer # 0 => /\ StageOnDisk = Root(disk).stage
                             /\ ResultsOnDisk <=> Root(disk).results # 0
      /\ ResultsOnDisk \in BOOLEAN
  BY PromiseState
<1>2. /\ History' = UpTo(Saved') /\ Saved' \in Nat
      /\ disk'.pointer = 0 => StageOnDisk' = -1 /\ ~ResultsOnDisk' /\ Saved' = 0
      /\ disk'.pointer # 0 => /\ StageOnDisk' = Root(disk').stage
                              /\ ResultsOnDisk' <=> Root(disk').results # 0
      /\ ResultsOnDisk' \in BOOLEAN
  <2>1. (StoreInv /\ ContentsInv => 
          /\ History = UpTo(Saved) /\ Saved \in Nat
          /\ disk.pointer = 0 => StageOnDisk = -1 /\ ~ResultsOnDisk /\ Saved = 0
          /\ disk.pointer # 0 => /\ StageOnDisk = Root(disk).stage
                                 /\ ResultsOnDisk <=> Root(disk).results # 0
          /\ ResultsOnDisk \in BOOLEAN)'
    BY PromiseState, PTL
  <2> QED  BY <2>1
<1>3. ops \in Nat /\ Len(UpTo(ops)) = ops
  BY WriterTypes, UpToFacts
<1>4. CASE MainSaves
  <2>1. /\ disk'.pointer # 0 /\ Saved' = Saved /\ ops' = ops /\ main.stage \in 0 .. 2
        /\ Root(disk') = Test(main.stage, main.history, main.results)
        /\ main.stage = 2 <=> main.results # 0
        /\ main.stage = 0 => disk.pointer = 0
        /\ main.stage = 1 => /\ disk.pointer # 0 /\ Root(disk) = Test(0, main.history, 0)
                             /\ Saved = ops
        /\ main.stage = 2 => disk.pointer # 0
    BY <1>4, MainSaveEffect
  <2>2. /\ StageOnDisk' = main.stage /\ History' = History
        /\ ResultsOnDisk' = (main.results # 0)
    BY <1>1, <1>2, <2>1 DEF Test
  <2>3. CASE main.stage = 0
    <3>1. StageOnDisk = -1 /\ ResultsOnDisk = FALSE
      BY <1>1, <2>1, <2>3
    <3>2. StageOnDisk' = 0 /\ ResultsOnDisk' = FALSE
      BY <2>1, <2>2, <2>3
    <3> QED  BY <2>1, <2>2, <3>1, <3>2, SaveInitialIs DEF Promise!Next
  <2>4. CASE main.stage = 1
    <3>1. StageOnDisk = 0 /\ ResultsOnDisk = FALSE /\ History = UpTo(ops)
      BY <1>1, <2>1, <2>4 DEF Test
    <3>2. main.results = 0
      <4>1. main.stage # 2
        BY <2>4, Numerals, Zenon
      <4> QED  BY <2>1, <4>1
    <3>3. StageOnDisk' = 1 /\ ResultsOnDisk' = FALSE
      BY <2>2, <2>4, <3>2
    <3> QED  BY <2>1, <2>2, <3>1, <3>3, SaveHistoryIs DEF Promise!Next
  <2>5. CASE main.stage = 2
    <3>1. StageOnDisk >= 0
      BY <1>1, <2>1, <2>5 DEF SavedStage
    <3>2. StageOnDisk' = 2 /\ ResultsOnDisk' = TRUE
      BY <2>1, <2>2, <2>5
    <3> QED  BY <2>1, <2>2, <3>1, <3>2, SaveResultsIs DEF Promise!Next
  <2>6. main.stage = 0 \/ main.stage = 1 \/ main.stage = 2
    BY <2>1
  <2> QED  BY <2>3, <2>4, <2>5, <2>6
<1>5. CASE WriterSaves
  <2>1. /\ disk.pointer # 0 /\ disk'.pointer # 0 /\ ops' = ops
        /\ Root(disk') = Test(0, main.history, 0) /\ Root(disk) = Root(disk')
        /\ Saved' \in Nat /\ Saved <= Saved' /\ Saved' <= ops
    BY <1>5, WriterSaveEffect
  <2>2. /\ StageOnDisk = 0 /\ StageOnDisk' = StageOnDisk
        /\ ResultsOnDisk' = ResultsOnDisk
    BY <1>1, <1>2, <2>1 DEF Test
  <2>3. CASE Saved' = Saved
    BY <1>1, <1>2, <2>1, <2>2, <2>3, Stutters
  <2>4. CASE Saved' # Saved
    <3>1. Len(History) = Saved /\ Len(History') = Saved'
      BY <1>1, <1>2, UpToFacts
    <3>2. Len(History') \in Len(History) + 1 .. Len(UpTo(ops))
      BY <1>1, <1>3, <2>1, <2>4, <3>1
    <3>3. History' = SubSeq(UpTo(ops), 1, Len(History'))
      BY <1>2, <1>3, <2>1, <3>1, UpToBegins
    <3> QED  BY <2>1, <2>2, <3>2, <3>3, CheckpointIs DEF Promise!Next
  <2> QED  BY <2>3, <2>4
<1>6. CASE ~MainSaves /\ ~WriterSaves
  <2>1. /\ disk'.pointer = 0 <=> disk.pointer = 0
        /\ Saved' = Saved
        /\ disk.pointer # 0 => Root(disk') = Root(disk)
    BY <1>6, NothingIsSaved
  <2>2. /\ StageOnDisk' = StageOnDisk /\ ResultsOnDisk' = ResultsOnDisk
        /\ History' = History
    BY <1>1, <1>2, <2>1
  <2>3. CASE AppendOp
    <3>1. main.pc = "run" /\ ops' = ops + 1
      BY <2>3 DEF AppendOp
    <3>2. disk.pointer # 0 /\ Root(disk) = Test(0, main.history, 0)
      BY <3>1 DEF ContentsInv, RootInv, Running
    <3>3. StageOnDisk = 0
      BY <1>1, <3>2 DEF Test
    <3>4. UpTo(ops') = Append(UpTo(ops), Len(UpTo(ops)) + 1)
      BY <1>3, <3>1, UpToGrows
    <3> QED  BY <2>2, <3>3, <3>4, RunOpIs DEF Promise!Next
  <2>4. CASE ~AppendOp
    BY <2>2, <2>4, OpsStay, Stutters
  <2> QED  BY <2>3, <2>4
<1> QED  BY <1>4, <1>5, <1>6

(* Whatever is on disk is what SavedTest promises: a history that is the        *)
(* beginning of the real one and only grows, and results that are never lost,   *)
(* across crashes, failed saves, later analyses and gc!.                        *)
THEOREM StoreRefinement == Spec => KeepsItsPromise
<1>1. Init => Promise!Init /\ SavedStage
  <2> SUFFICES ASSUME Init PROVE Promise!Init /\ SavedStage
    OBVIOUS
  <2>1. disk.pointer = 0 /\ ops = 0
    <3>1. disk = [header |-> FALSE, pointer |-> 0, file |-> <<>>] /\ ops = 0
      BY DEF Init
    <3> QED  BY <3>1
  <2>2. ~Readable(disk) /\ History = <<>> /\ SavedStage
    BY <2>1 DEF Readable, HasIndex, History, SavedStage
  <2>3. [i \in 1 .. ops |-> i] = <<>>
    BY <2>1
  <2> QED  BY <2>2, <2>3 DEF Promise!Init
<1>2. TypeOK /\ StoreInv /\ ContentsInv /\ SavedStage /\ [Next]_vars => SavedStage'
  BY SavedStageStep
<1>3. TypeOK /\ StoreInv /\ ContentsInv /\ SavedStage /\ (StoreInv /\ ContentsInv)'
      /\ [Next]_vars => [Promise!Next]_(Promise!vars)
  BY PromiseStep
<1>4. Spec => [](TypeOK /\ StoreInv /\ ContentsInv)
  BY StoreContents
<1> QED  BY <1>1, <1>2, <1>3, <1>4, PTL DEF Spec, KeepsItsPromise, Promise!Spec
============================================================================
