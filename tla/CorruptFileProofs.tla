------------------------- MODULE CorruptFileProofs -------------------------
(***************************************************************************)
(* corrupt-file.c touches only what it was told to touch, copies no        *)
(* corruption on, puts snapshots back where they were taken and counts the *)
(* bits it flips: for files of any size, any options, any number of runs.  *)
(***************************************************************************)
EXTENDS CorruptFileProperties, FiniteSetTheorems, TLAPS

-----------------------------------------------------------------------------
(* Files. *)

\* The size of what has no gaps.
LEMMA SizeOf ==
    ASSUME NEW f, NEW n \in Nat, DOMAIN f = 0 .. n - 1
    PROVE  Size(f) = n
<1>1. n - 1 \in Int /\ 0 \in Int
  OBVIOUS
<1>2. Cardinality(0 .. n - 1) = IF 0 > n - 1 THEN 0 ELSE (n - 1) - 0 + 1
  BY <1>1, FS_Interval
<1>. QED
  BY <1>2 DEF Size

LEMMA EmptyFile == IsFile(<<>>) /\ Size(<<>>) = 0
<1>1. DOMAIN <<>> = 0 .. 0 - 1
  OBVIOUS
<1>2. Size(<<>>) = 0
  BY <1>1, SizeOf
<1>. QED
  BY <1>1, <1>2 DEF IsFile

\* r is what f holds from an offset on.
IsSlice(r, f, offset) ==
    \A k \in DOMAIN r : /\ k \in Nat
                        /\ offset + k \in DOMAIN f
                        /\ r[k] = f[offset + k]

\* What pread and copy_file_range find at an offset.
LEMMA ReadEffect ==
    ASSUME NEW f, IsFile(f), NEW offset \in Nat, NEW length \in Nat
    PROVE  LET r == Read(f, offset, length)
           IN  /\ IsFile(r)
               /\ Size(r) <= length
               /\ Size(r) = 0 \/ offset + Size(r) <= Size(f)
               /\ offset + length <= Size(f) => Size(r) = length
               /\ offset <= Size(f) /\ Size(f) <= offset + length =>
                     offset + Size(r) = Size(f)
               /\ IsSlice(r, f, offset)
<1>. DEFINE r == Read(f, offset, length)
            m == Lesser(length, Size(f) - offset)
            n == IF m < 0 THEN 0 ELSE m
<1>1. Size(f) \in Nat /\ DOMAIN f = 0 .. Size(f) - 1
      /\ \A i \in DOMAIN f : f[i] \in Bytes
  BY DEF IsFile
<1>2. n \in Nat /\ n <= length /\ (n = 0 \/ offset + n <= Size(f))
      /\ (offset + length <= Size(f) => n = length)
      /\ (offset <= Size(f) /\ Size(f) <= offset + length => offset + n = Size(f))
      /\ 0 .. m - 1 = 0 .. n - 1
  BY <1>1 DEF Lesser
<1>3. DOMAIN r = 0 .. n - 1
  <2>1. DOMAIN r = 0 .. m - 1
    BY DEF Read
  <2>. QED
    BY <2>1, <1>2
<1>. HIDE DEF n
<1>4. Size(r) = n
  BY <1>2, <1>3, SizeOf
<1>5. ASSUME NEW k \in DOMAIN r
      PROVE  k \in Nat /\ offset + k \in DOMAIN f /\ r[k] = f[offset + k]
  <2>1. k \in 0 .. n - 1
    BY <1>3
  <2>2. k \in 0 .. m - 1
    BY <2>1, <1>2
  <2>3. r[k] = f[offset + k]
    BY <2>2 DEF Read
  <2>. QED
    BY <1>1, <1>2, <2>1, <2>3
<1>6. \A k \in DOMAIN r : r[k] \in Bytes
  BY <1>1, <1>5
<1>. QED
  BY <1>2, <1>3, <1>4, <1>5, <1>6 DEF IsFile, IsSlice

\* In w, bytes of f are replaced by those of b, from an offset on.
IsOverlay(w, f, offset, b) ==
    /\ \A i \in DOMAIN f : w[i] = IF i - offset \in DOMAIN b THEN b[i - offset]
                                  ELSE f[i]
    /\ \A k \in DOMAIN b : offset + k \in DOMAIN w /\ w[offset + k] = b[k]

\* What pwrite and copy_file_range leave.
LEMMA WriteEffect ==
    ASSUME NEW f, IsFile(f), NEW b, IsFile(b), NEW offset \in Nat,
           NEW w, w = WriteAt(f, offset, b)
    PROVE  /\ IsFile(w)
           /\ DOMAIN f \subseteq DOMAIN w
           /\ offset + Size(b) <= Size(f) \/ Size(b) = 0 => DOMAIN w = DOMAIN f
           /\ IsOverlay(w, f, offset, b)
<1>. DEFINE n == Size(b)
            d == DOMAIN f \cup (IF n = 0 THEN {} ELSE 0 .. offset + n - 1)
            s == IF n = 0 THEN Size(f) ELSE Greater(Size(f), offset + n)
<1>1. /\ Size(f) \in Nat /\ DOMAIN f = 0 .. Size(f) - 1
      /\ \A i \in DOMAIN f : f[i] \in Bytes
      /\ n \in Nat /\ DOMAIN b = 0 .. n - 1
      /\ \A i \in DOMAIN b : b[i] \in Bytes
  BY DEF IsFile
<1>2. DOMAIN w = d
  BY DEF WriteAt
<1>3. \A i \in d : w[i] = IF i - offset \in DOMAIN b THEN b[i - offset]
                          ELSE IF i \in DOMAIN f THEN f[i] ELSE Hole
  BY DEF WriteAt
<1>. HIDE DEF n
<1>4. s \in Nat /\ d = 0 .. s - 1
  BY <1>1 DEF Greater
<1>5. Size(w) = s
  BY <1>2, <1>4, SizeOf
<1>6. Hole \in Bytes
  BY DEF Hole, Bytes
<1>7. \A i \in d : w[i] \in Bytes
  BY <1>1, <1>3, <1>6
<1>8. IsFile(w)
  BY <1>2, <1>4, <1>5, <1>7 DEF IsFile
<1>9. DOMAIN f \subseteq DOMAIN w
  BY <1>2
<1>10. offset + n <= Size(f) \/ n = 0 => DOMAIN w = DOMAIN f
  <2>1. offset + n <= Size(f) \/ n = 0 => s = Size(f)
    BY <1>1 DEF Greater
  <2>. QED
    BY <1>1, <1>2, <1>4, <2>1
<1>11. \A k \in DOMAIN b : offset + k \in d /\ (offset + k) - offset = k
  BY <1>1
<1>12. \A k \in DOMAIN b : offset + k \in DOMAIN w /\ w[offset + k] = b[k]
  BY <1>2, <1>3, <1>11
<1>13. \A i \in DOMAIN f : i \in d
  OBVIOUS
<1>. HIDE DEF d, s
<1>. QED
  BY <1>2, <1>3, <1>8, <1>9, <1>10, <1>12, <1>13 DEF n, IsOverlay

-----------------------------------------------------------------------------
(* Chunks. *)

LEMMA DivMod ==
    ASSUME NEW x \in Int, NEW n \in Nat \ {0}
    PROVE  /\ x \div n \in Int
           /\ x % n \in 0 .. n - 1
           /\ x = n * (x \div n) + (x % n)
<1>1. x \div n \in Int
  OBVIOUS
<1>2. x % n \in 0 .. n - 1
  OBVIOUS
<1>3. x - n * (x \div n) = x % n
  BY Z3
<1>4. n * (x \div n) \in Int
  BY <1>1
<1>. QED
  BY <1>1, <1>2, <1>3, <1>4

LEMMA ProductInt == ASSUME NEW a \in Int, NEW b \in Int PROVE a * b \in Int
  OBVIOUS

LEMMA ProductMonotone ==
    ASSUME NEW a \in Int, NEW b \in Int, a <= b, NEW n \in Nat
    PROVE  a * n <= b * n
  OBVIOUS

LEMMA ProductSucc ==
    ASSUME NEW a \in Int, NEW n \in Int
    PROVE  (a + 1) * n = a * n + n
  OBVIOUS

\* The parts of a valid command line, as numbers.
LEMMA ValidOpts ==
    ASSUME NEW o \in CommandLines, Valid(o)
    PROVE  /\ o.start \in Nat /\ o.end \in Nat /\ o.start <= o.end /\ o.end <= OffMax
           /\ o.chunk_size \in Nat /\ o.chunk_size > 0
           /\ o.index \in Nat /\ o.mod \in Nat /\ o.mod > 0 /\ o.index < o.mod
           /\ OffMax \in Nat
  BY CorruptFileAssumption DEF CommandLines, Valid

LEMMA OffsetType ==
    ASSUME NEW o \in CommandLines, Valid(o), NEW c \in Nat
    PROVE  /\ ChunkOffset(o, c) \in Nat
           /\ o.start <= ChunkOffset(o, c)
           /\ ChunkOffset(o, c) = o.start + c * o.chunk_size
           /\ RegionEnd(o, c) \in Nat
           /\ RegionEnd(o, c) <= ChunkOffset(o, c) + o.chunk_size
           /\ RegionEnd(o, c) <= o.end
<1>1. o.start \in Nat /\ o.chunk_size \in Nat /\ o.end \in Nat
  BY ValidOpts
<1>2. c * o.chunk_size \in Nat
  BY <1>1
<1>3. ChunkOffset(o, c) = o.start + c * o.chunk_size
  BY DEF ChunkOffset
<1>4. RegionEnd(o, c) = Lesser(ChunkOffset(o, c) + o.chunk_size, o.end)
  BY DEF RegionEnd
<1>5. ChunkOffset(o, c) \in Nat /\ o.start <= ChunkOffset(o, c)
  BY <1>1, <1>2, <1>3
<1>. QED
  BY <1>1, <1>3, <1>4, <1>5 DEF Lesser

\* A chunk that chunk_count counts begins in the region and in the file.
LEMMA ChunkInRegion ==
    ASSUME NEW o \in CommandLines, Valid(o), NEW size \in Nat, NEW c \in Nat,
           c < ChunkCount(o, size)
    PROVE  /\ ChunkOffset(o, c) < o.end
           /\ ChunkOffset(o, c) < size
           /\ ChunkOffset(o, c) < RegionEnd(o, c)
           /\ ChunkEnd(o, c, size) \in Nat
           /\ ChunkOffset(o, c) < ChunkEnd(o, c, size)
           /\ ChunkEnd(o, c, size) <= size
           /\ ChunkEnd(o, c, size) <= RegionEnd(o, c)
<1>. DEFINE z == o.chunk_size
            region == Lesser(o.end, size) - o.start
            q == region \div z
            r == region % z
<1>1. o.start \in Nat /\ z \in Nat \ {0} /\ o.end \in Nat
  BY ValidOpts
<1>2. region \in Int
  BY <1>1 DEF Lesser
<1>3. region >= 0
  BY <1>1, <1>2 DEF ChunkCount
<1>4. c < q + (IF r # 0 THEN 1 ELSE 0)
  BY <1>3 DEF ChunkCount
<1>. HIDE DEF region
<1>5. q \in Int /\ r \in 0 .. z - 1 /\ region = z * q + r
  BY <1>1, <1>2, DivMod
<1>. HIDE DEF q, r, z
<1>6. c * z < region
  <2>1. CASE r # 0
    <3>1. c <= q
      BY <1>4, <1>5, <2>1
    <3>2. c * z <= q * z
      BY <1>1, <1>5, <3>1, ProductMonotone
    <3>. QED
      BY <1>1, <1>5, <2>1, <3>2
  <2>2. CASE r = 0
    <3>1. c + 1 <= q /\ c + 1 \in Int
      BY <1>4, <1>5, <2>2
    <3>2. (c + 1) * z <= q * z
      BY <1>1, <1>5, <3>1, ProductMonotone
    <3>3. (c + 1) * z = c * z + z
      BY <1>1, ProductSucc
    <3>. QED
      BY <1>1, <1>5, <2>2, <3>2, <3>3
  <2>. QED
    BY <2>1, <2>2
<1>7. ChunkOffset(o, c) \in Nat /\ ChunkOffset(o, c) = o.start + c * z
  BY OffsetType DEF z
<1>8. ChunkOffset(o, c) < Lesser(o.end, size)
  BY <1>1, <1>2, <1>6, <1>7 DEF region, Lesser
<1>9. RegionEnd(o, c) = Lesser(ChunkOffset(o, c) + z, o.end)
  BY DEF RegionEnd, z
<1>10. ChunkEnd(o, c, size) = Lesser(RegionEnd(o, c), size)
  BY DEF ChunkEnd
<1>. QED
  BY <1>1, <1>7, <1>8, <1>9, <1>10 DEF Lesser

\* A chunk begins at or after the end of those before it.
LEMMA OffsetGrows ==
    ASSUME NEW o \in CommandLines, Valid(o), NEW c \in Nat, NEW d \in Nat, c < d
    PROVE  ChunkOffset(o, c) + o.chunk_size <= ChunkOffset(o, d)
<1>1. o.start \in Nat /\ o.chunk_size \in Nat
  BY ValidOpts
<1>2. (c + 1) * o.chunk_size <= d * o.chunk_size
  BY <1>1, ProductMonotone
<1>3. (c + 1) * o.chunk_size = c * o.chunk_size + o.chunk_size
  BY <1>1, ProductSucc
<1>4. c * o.chunk_size \in Int /\ d * o.chunk_size \in Int
  BY <1>1
<1>. QED
  BY <1>1, <1>2, <1>3, <1>4 DEF ChunkOffset

\* A byte is in one chunk.
LEMMA ChunksAreDisjoint ==
    ASSUME NEW o \in CommandLines, Valid(o), NEW c \in Nat, NEW d \in Nat, NEW i \in Int,
           ChunkOffset(o, c) <= i, i < ChunkOffset(o, c) + o.chunk_size,
           ChunkOffset(o, d) <= i, i < ChunkOffset(o, d) + o.chunk_size
    PROVE  c = d
<1>1. ChunkOffset(o, c) \in Nat /\ ChunkOffset(o, d) \in Nat /\ o.chunk_size \in Nat
  BY OffsetType, ValidOpts
<1>2. ~(c < d)
  BY <1>1, OffsetGrows
<1>3. ~(d < c)
  BY <1>1, OffsetGrows
<1>. QED
  BY <1>2, <1>3

\* The remainder is the only number in its range that differs from x by a
\* multiple of n.
LEMMA RemainderUnique ==
    ASSUME NEW n \in Nat \ {0}, NEW q \in Int, NEW r \in 0 .. n - 1,
           NEW p \in Int, NEW s \in 0 .. n - 1, n * q + r = n * p + s
    PROVE  r = s
<1>1. ASSUME NEW a \in Int, NEW b \in Int, a < b PROVE n * a + n <= n * b
  <2>1. a + 1 \in Int /\ a + 1 <= b
    BY <1>1
  <2>2. (a + 1) * n <= b * n
    BY <2>1, ProductMonotone
  <2>3. (a + 1) * n = a * n + n
    BY ProductSucc
  <2>4. a * n = n * a /\ b * n = n * b
    OBVIOUS
  <2>. QED
    BY <2>2, <2>3, <2>4
<1>2. n * q \in Int /\ n * p \in Int
  OBVIOUS
<1>3. ~(q < p)
  BY <1>1, <1>2
<1>4. ~(p < q)
  BY <1>1, <1>2
<1>5. q = p
  BY <1>3, <1>4
<1>. QED
  BY <1>2, <1>5

\* The next chunk of the loops has the same index.
LEMMA NextIndex ==
    ASSUME NEW c \in Nat, NEW m \in Nat \ {0}
    PROVE  (c + m) % m = c % m
<1>. DEFINE q == c \div m
            r == c % m
            p == (c + m) \div m
            s == (c + m) % m
<1>0. c \in Int /\ c + m \in Int
  OBVIOUS
<1>1. q \in Int /\ r \in 0 .. m - 1 /\ c = m * q + r
  BY <1>0, DivMod
<1>2. p \in Int /\ s \in 0 .. m - 1 /\ c + m = m * p + s
  BY <1>0, DivMod
<1>. HIDE DEF q, r, p, s
<1>3. m * (q + 1) = m * q + m /\ q + 1 \in Int
  BY <1>1
<1>4. m * q \in Int
  BY <1>1
<1>5. m * (q + 1) + r = m * p + s
  BY <1>1, <1>2, <1>3, <1>4
<1>6. r = s
  BY <1>1, <1>2, <1>3, <1>5, RemainderUnique
<1>. QED
  BY <1>6 DEF r, s

-----------------------------------------------------------------------------
(* What the actions do. *)

\* Some snapshots are removed.
KeepsSnapshots == /\ DOMAIN snapshots' \subseteq DOMAIN snapshots
                  /\ \A p \in DOMAIN snapshots' : snapshots'[p] = snapshots[p]

\* The tool is run with o and ends before its loop.
NotStarted(o) ==
    /\ pc = "idle" /\ pc' = "idle"
    /\ opts' = o /\ before' = file /\ file' = file /\ writes' = writes
    /\ runs' \in 0 .. MaxRuns
    /\ file_size' = file_size /\ chunk' = chunk /\ end' = end
    /\ bit_offset' = bit_offset /\ buf' = buf /\ bits_flipped' = bits_flipped
    /\ exit' \in {"EXIT_OK", "EXIT_ARGS", "EXIT_IO", "crash"}
    /\ exit' = "EXIT_OK" => o.mode = "none"
    /\ KeepsSnapshots

LEMMA ParseEffect ==
    ASSUME TypeOK, NEW o \in Options, Parse(o)
    PROVE  /\ pc = "idle" /\ opts' = o /\ before' = file /\ file' = file
           /\ writes' = writes /\ runs' \in 0 .. MaxRuns
<1>1. runs \in 0 .. MaxRuns /\ runs < MaxRuns /\ runs' = runs + 1
  BY DEF TypeOK, Parse
<1>2. MaxRuns \in Nat
  BY CorruptFileAssumption
<1>3. runs' \in 0 .. MaxRuns
  BY <1>1, <1>2
<1>. QED
  BY <1>3 DEF Parse

LEMMA AcceptsEffect ==
    ASSUME NEW o \in Options, Accepts(o)
    PROVE  Parse(o) /\ Valid(o) /\ KeepsSnapshots
<1>1. CASE o.clear_snapshots
  <2>1. snapshots' = <<>>
    BY <1>1 DEF Accepts
  <2>2. DOMAIN snapshots' = {}
    BY <2>1
  <2>. QED
    BY <2>2 DEF Accepts, Parsed, KeepsSnapshots
<1>2. CASE ~o.clear_snapshots
  BY <1>2 DEF Accepts, Parsed, KeepsSnapshots
<1>. QED
  BY <1>1, <1>2

LEMMA NotStartedEffect ==
    ASSUME TypeOK, NEW o \in Options,
           Usage(o) \/ Reject(o) \/ ClearFails(o) \/ RunNothing(o) \/ MkdirFails(o)
    PROVE  NotStarted(o)
<1>1. Parse(o)
  BY AcceptsEffect DEF Usage, Reject, ClearFails, RunNothing, MkdirFails, Parsed
<1>2. /\ pc = "idle" /\ opts' = o /\ before' = file /\ file' = file
      /\ writes' = writes /\ runs' \in 0 .. MaxRuns
  BY <1>1, ParseEffect
<1>3. /\ pc' = pc /\ file_size' = file_size /\ chunk' = chunk /\ end' = end
      /\ bit_offset' = bit_offset /\ buf' = buf /\ bits_flipped' = bits_flipped
  BY DEF Usage, Reject, ClearFails, RunNothing, MkdirFails, loop, flipper
<1>4. KeepsSnapshots
  <2>1. CASE Usage(o) \/ Reject(o)
    BY <2>1 DEF Usage, Reject, KeepsSnapshots
  <2>2. CASE ClearFails(o)
    <3>1. PICK kept \in SUBSET DOMAIN snapshots :
             snapshots' = [p \in kept |-> snapshots[p]]
      BY <2>2 DEF ClearFails
    <3>. QED
      BY <3>1 DEF KeepsSnapshots
  <2>3. CASE RunNothing(o) \/ MkdirFails(o)
    BY <2>3, AcceptsEffect DEF RunNothing, MkdirFails
  <2>. QED
    BY <2>1, <2>2, <2>3
<1>5. /\ exit' \in {"EXIT_OK", "EXIT_ARGS", "EXIT_IO", "crash"}
      /\ exit' = "EXIT_OK" => o.mode = "none"
  <2>1. CASE Usage(o)
    BY <2>1 DEF Usage
  <2>2. CASE Reject(o)
    BY <2>2 DEF Reject, Exits
  <2>3. CASE ClearFails(o)
    BY <2>3 DEF ClearFails, Exits
  <2>4. CASE RunNothing(o)
    BY <2>4 DEF RunNothing, Exits
  <2>5. CASE MkdirFails(o)
    BY <2>5 DEF MkdirFails, Exits
  <2>. QED
    BY <2>1, <2>2, <2>3, <2>4, <2>5
<1>. QED
  BY <1>2, <1>3, <1>4, <1>5 DEF NotStarted

\* The tool is run with o and begins the loop of its mode.
Started(o) ==
    /\ pc = "idle" /\ pc' = o.mode /\ o.mode \in Modes /\ Valid(o)
    /\ opts' = o /\ before' = file /\ file' = file /\ writes' = writes
    /\ runs' \in 0 .. MaxRuns
    /\ file_size' = Size(file) /\ chunk' = o.index /\ end' = 0
    /\ buf' = Hole /\ bits_flipped' = 0 /\ exit' = "none"
    /\ bit_offset' \in Int
    /\ KeepsSnapshots

LEMMA RandExpIntType ==
    ASSUME NEW p \in Int
    PROVE  RandExpInt(p) \subseteq Int
  BY CorruptFileAssumption DEF RandExpInt

LEMMA StartEffect ==
    ASSUME TypeOK, NEW o \in Options, Start(o)
    PROVE  Started(o)
<1>1. Accepts(o)
  BY DEF Start
<1>2. Parse(o) /\ Valid(o) /\ KeepsSnapshots
  BY <1>1, AcceptsEffect
<1>3. /\ pc = "idle" /\ opts' = o /\ before' = file /\ file' = file
      /\ writes' = writes /\ runs' \in 0 .. MaxRuns
  BY <1>2, ParseEffect
<1>4. o \in CommandLines
  BY CorruptFileAssumption
<1>5. o.mode \in Modes
  BY <1>4 DEF Start, CommandLines
<1>6. o.probability \in Int
  BY <1>4 DEF CommandLines
<1>7. bit_offset' \in Int
  BY <1>6, RandExpIntType DEF Start, StartFlipper
<1>. QED
  BY <1>2, <1>3, <1>5, <1>7 DEF Start, StartFlipper, Started

\* A step of a loop: it handles one chunk of the file.
Looping ==
    /\ pc # "idle" /\ pc' = pc /\ opts' = opts /\ file_size' = file_size
    /\ exit' = exit /\ before' = before /\ runs' = runs /\ writes' = writes
    /\ chunk < ChunkCount(opts, file_size)

\* What a loop step knows of its options and its chunk.
ValidChunk ==
    /\ opts \in CommandLines /\ Valid(opts) /\ pc = opts.mode
    /\ chunk \in Nat /\ chunk % opts.mod = opts.index
    /\ ChunkOffset(opts, chunk) \in Nat /\ RegionEnd(opts, chunk) \in Nat
    /\ ChunkOffset(opts, chunk) < RegionEnd(opts, chunk)
    /\ RegionEnd(opts, chunk) <= opts.end /\ opts.end <= OffMax
    /\ RegionEnd(opts, chunk) <= ChunkOffset(opts, chunk) + opts.chunk_size
    /\ ChunkEnd(opts, chunk, file_size) \in Nat
    /\ ChunkOffset(opts, chunk) < ChunkEnd(opts, chunk, file_size)
    /\ ChunkEnd(opts, chunk, file_size) <= RegionEnd(opts, chunk)
    /\ ChunkEnd(opts, chunk, file_size) <= file_size
    /\ ChunkOffset(opts, chunk) < file_size
    /\ chunk \in AffectedChunks(opts, file_size)

LEMMA CountType ==
    ASSUME NEW o \in CommandLines, Valid(o), NEW size \in Nat
    PROVE  ChunkCount(o, size) \in Int
<1>1. o.start \in Nat /\ o.end \in Nat /\ o.chunk_size \in Nat \ {0}
  BY ValidOpts
<1>2. Lesser(o.end, size) - o.start \in Int
  BY <1>1 DEF Lesser
<1>3. (Lesser(o.end, size) - o.start) \div o.chunk_size \in Int
  BY <1>1, <1>2, DivMod
<1>. QED
  BY <1>3 DEF ChunkCount

LEMMA LoopChunk ==
    ASSUME ToolInv, pc # "idle", chunk < ChunkCount(opts, file_size)
    PROVE  ValidChunk
<1>1. /\ opts \in CommandLines /\ Valid(opts) /\ pc = opts.mode
      /\ chunk \in Nat /\ chunk % opts.mod = opts.index /\ file_size \in Nat
  BY DEF ToolInv, TypeOK, RunIsValid
<1>2. opts.end <= OffMax
  BY <1>1, ValidOpts
<1>3. /\ ChunkOffset(opts, chunk) \in Nat /\ RegionEnd(opts, chunk) \in Nat
      /\ RegionEnd(opts, chunk) <= opts.end
      /\ RegionEnd(opts, chunk) <= ChunkOffset(opts, chunk) + opts.chunk_size
  BY <1>1, OffsetType
<1>4. /\ ChunkOffset(opts, chunk) < RegionEnd(opts, chunk)
      /\ ChunkEnd(opts, chunk, file_size) \in Nat
      /\ ChunkOffset(opts, chunk) < ChunkEnd(opts, chunk, file_size)
      /\ ChunkEnd(opts, chunk, file_size) <= RegionEnd(opts, chunk)
      /\ ChunkEnd(opts, chunk, file_size) <= file_size
      /\ ChunkOffset(opts, chunk) < file_size
  BY <1>1, ChunkInRegion
<1>5. ChunkCount(opts, file_size) \in Int
  BY <1>1, CountType
<1>6. chunk \in 0 .. ChunkCount(opts, file_size) - 1
  BY <1>1, <1>5
<1>7. chunk \in AffectedChunks(opts, file_size)
  BY <1>1, <1>6 DEF AffectedChunks
<1>. QED
  BY <1>1, <1>2, <1>3, <1>4, <1>7 DEF ValidChunk

\* The tool writes b into its chunk.
WritesInChunk(b, at) ==
    /\ IsFile(b) /\ at \in Nat
    /\ ChunkOffset(opts, chunk) <= at /\ at + Size(b) <= RegionEnd(opts, chunk)
    /\ writes = 0 => at + Size(b) <= Size(file)
    /\ file' = WriteAt(file, at, b)

\* And what that leaves of the file.
ChunkIsWritten ==
    /\ IsFile(file')
    /\ DOMAIN file \subseteq DOMAIN file'
    /\ writes = 0 => DOMAIN file' = DOMAIN file /\ Size(file') = Size(file)
    /\ \A i \in DOMAIN file : file'[i] # file[i] =>
          /\ ChunkOffset(opts, chunk) <= i
          /\ i < RegionEnd(opts, chunk)

LEMMA WriteInChunk ==
    ASSUME ToolInv, ValidChunk, NEW b, NEW at, WritesInChunk(b, at)
    PROVE  ChunkIsWritten
<1>1. /\ IsFile(file) /\ IsFile(b) /\ at \in Nat /\ Size(b) \in Nat
      /\ Size(file) \in Nat /\ DOMAIN file = 0 .. Size(file) - 1
      /\ DOMAIN b = 0 .. Size(b) - 1
      /\ file' = WriteAt(file, at, b)
  BY DEF ToolInv, TypeOK, WritesInChunk, IsFile
<1>2. /\ IsFile(file')
      /\ DOMAIN file \subseteq DOMAIN file'
      /\ at + Size(b) <= Size(file) \/ Size(b) = 0 => DOMAIN file' = DOMAIN file
      /\ IsOverlay(file', file, at, b)
  <2>1. IsFile(file')
    BY <1>1, WriteEffect
  <2>2. DOMAIN file \subseteq DOMAIN file'
    BY <1>1, WriteEffect
  <2>3. at + Size(b) <= Size(file) \/ Size(b) = 0 => DOMAIN file' = DOMAIN file
    BY <1>1, WriteEffect
  <2>4. IsOverlay(file', file, at, b)
    BY <1>1, WriteEffect
  <2>. QED
    BY <2>1, <2>2, <2>3, <2>4
<1>3. writes = 0 => DOMAIN file' = DOMAIN file
  BY <1>2 DEF WritesInChunk
<1>4. writes = 0 => Size(file') = Size(file)
  BY <1>1, <1>3, SizeOf
<1>5. ASSUME NEW i \in DOMAIN file, file'[i] # file[i]
      PROVE  ChunkOffset(opts, chunk) <= i /\ i < RegionEnd(opts, chunk)
  <2>1. i - at \in DOMAIN b
    BY <1>2, <1>5 DEF IsOverlay
  <2>2. i \in Int /\ i - at >= 0 /\ i - at < Size(b)
    BY <1>1, <2>1
  <2>3. /\ ChunkOffset(opts, chunk) \in Nat /\ RegionEnd(opts, chunk) \in Nat
        /\ ChunkOffset(opts, chunk) <= at /\ at + Size(b) <= RegionEnd(opts, chunk)
    BY DEF ValidChunk, WritesInChunk
  <2>. QED
    BY <1>1, <2>2, <2>3
<1>. QED
  BY <1>2, <1>3, <1>4, <1>5 DEF ChunkIsWritten

\* A snapshot of the chunk, as far as it goes.
IsSnapshot(p, s) ==
    /\ p \in Paths /\ IsFile(s)
    /\ Size(s) <= p[2] - p[1]
    /\ writes = 0 => p[1] + Size(s) <= Size(file)
    /\ \A k \in DOMAIN s : p[1] + k \in DOMAIN file /\ s[k] = file[p[1] + k]

\* It is added to the others, or takes the place of an older one.
TakesSnapshot(p, s) ==
    /\ IsSnapshot(p, s)
    /\ DOMAIN snapshots' = DOMAIN snapshots \cup {p}
    /\ \A q \in DOMAIN snapshots' : snapshots'[q] = IF q = p THEN s ELSE snapshots[q]

\* The path of the chunk's snapshot.
Path == <<ChunkOffset(opts, chunk), RegionEnd(opts, chunk)>>

LEMMA PathType ==
    ASSUME ValidChunk
    PROVE  Path \in Paths /\ Path[1] = ChunkOffset(opts, chunk)
           /\ Path[2] = RegionEnd(opts, chunk)
<1>1. OffMax \in Nat
  BY CorruptFileAssumption
<1>2. opts.end \in Int
  BY DEF ValidChunk, CommandLines
<1>3. ChunkOffset(opts, chunk) \in 0 .. OffMax /\ RegionEnd(opts, chunk) \in 0 .. OffMax
  BY <1>1, <1>2 DEF ValidChunk
<1>. QED
  BY <1>3 DEF Path, Paths

LEMMA SnapshotEffect ==
    ASSUME ToolInv, SnapshotChunk
    PROVE  /\ pc = "snapshot" /\ Looping /\ file' = file /\ end' = end
           /\ chunk' = chunk + opts.mod
           /\ bit_offset' = bit_offset /\ buf' = buf /\ bits_flipped' = bits_flipped
           /\ \E s : TakesSnapshot(Path, s)
<1>1. pc = "snapshot" /\ Looping /\ file' = file /\ end' = end
      /\ chunk' = chunk + opts.mod
      /\ bit_offset' = bit_offset /\ buf' = buf /\ bits_flipped' = bits_flipped
  BY DEF SnapshotChunk, InLoop, Looping, NextChunk, flipper
<1>2. ValidChunk
  BY <1>1, LoopChunk DEF Looping
<1>. DEFINE start == ChunkOffset(opts, chunk)
            finish == RegionEnd(opts, chunk)
            s == Read(file, start, finish - start)
<1>3. start \in Nat /\ finish \in Nat /\ finish - start \in Nat
  BY <1>2 DEF ValidChunk
<1>4. IsFile(file) /\ Size(file) \in Nat
  BY DEF ToolInv, TypeOK, IsFile
<1>5. /\ IsFile(s) /\ Size(s) <= finish - start
      /\ Size(s) = 0 \/ start + Size(s) <= Size(file)
      /\ IsSlice(s, file, start)
  BY <1>3, <1>4, ReadEffect
<1>6. writes = 0 => start < Size(file)
  BY <1>1, <1>2 DEF ToolInv, SizeIsKept, ValidChunk
<1>7. writes = 0 => start + Size(s) <= Size(file)
  <2>1. CASE Size(s) = 0
    BY <1>3, <1>4, <1>6, <2>1
  <2>. QED
    BY <1>5, <2>1
<1>8. /\ DOMAIN snapshots' = DOMAIN snapshots \cup {Path}
      /\ \A q \in DOMAIN snapshots' : snapshots'[q] = IF q = Path THEN s ELSE snapshots[q]
  BY DEF SnapshotChunk, SnapshotPath, Path
<1>. HIDE DEF s
<1>9. IsSnapshot(Path, s)
  BY <1>2, <1>5, <1>7, PathType DEF IsSnapshot, IsSlice
<1>10. TakesSnapshot(Path, s)
  BY <1>8, <1>9 DEF TakesSnapshot
<1>. QED
  BY <1>1, <1>10

\* What is restored: a snapshot of the chunk, whole.
IsWhole(r, p) == /\ DOMAIN r = DOMAIN snapshots[p]
                 /\ \A k \in DOMAIN r : r[k] = snapshots[p][k]
Restores(p) ==
    /\ p \in DOMAIN snapshots =>
          \E r : WritesInChunk(r, ChunkOffset(opts, chunk)) /\ IsWhole(r, p)
    /\ p \notin DOMAIN snapshots => file' = file

LEMMA RestoreEffect ==
    ASSUME ToolInv, RestoreChunk
    PROVE  /\ pc = "restore" /\ Looping /\ snapshots' = snapshots
           /\ chunk' = chunk + opts.mod
           /\ bit_offset' = bit_offset /\ buf' = buf /\ bits_flipped' = bits_flipped
           /\ end' = Lesser(end + opts.chunk_size, opts.end)
           /\ end' \in 0 .. OffMax /\ end' <= RegionEnd(opts, chunk)
           /\ Restores(<<ChunkOffset(opts, chunk), end'>>)
<1>1. pc = "restore" /\ Looping /\ snapshots' = snapshots
      /\ chunk' = chunk + opts.mod
      /\ bit_offset' = bit_offset /\ buf' = buf /\ bits_flipped' = bits_flipped
      /\ end' = Lesser(end + opts.chunk_size, opts.end)
  BY DEF RestoreChunk, InLoop, Looping, NextChunk, flipper
<1>2. ValidChunk
  BY <1>1, LoopChunk DEF Looping
<1>. DEFINE start == ChunkOffset(opts, chunk)
            p == <<start, end'>>
            r == Read(snapshots[p], 0, end' - start)
<1>3. /\ start \in Nat /\ RegionEnd(opts, chunk) \in Nat
      /\ opts.end \in Nat /\ opts.chunk_size \in Nat /\ opts.end <= OffMax
      /\ OffMax \in Nat
  BY <1>2, ValidOpts DEF ValidChunk
<1>4. end \in Nat /\ end <= start
  BY <1>1 DEF ToolInv, TypeOK, EndLags
<1>5. RegionEnd(opts, chunk) = Lesser(start + opts.chunk_size, opts.end)
  BY DEF RegionEnd
<1>6. end' \in Nat /\ end' <= opts.end /\ end' <= RegionEnd(opts, chunk)
  BY <1>1, <1>3, <1>4, <1>5 DEF Lesser
<1>7. end' \in 0 .. OffMax
  BY <1>3, <1>6
<1>8. file' = IF p \in DOMAIN snapshots THEN WriteAt(file, start, r) ELSE file
  BY DEF RestoreChunk, SnapshotPath
<1>9. ASSUME p \in DOMAIN snapshots
      PROVE  WritesInChunk(r, start) /\ IsWhole(r, p)
  <2>. DEFINE b == snapshots[p]
  <2>1. p[1] = start /\ p[2] = end'
    OBVIOUS
  <2>2. IsFile(b) /\ Size(b) \in Nat /\ DOMAIN b = 0 .. Size(b) - 1
    BY <1>9 DEF ToolInv, TypeOK, IsFile
  <2>3. Size(b) <= end' - start /\ (writes = 0 => start + Size(b) <= Size(file))
    BY <1>9, <2>1 DEF ToolInv, SnapshotsFit
  <2>4. end' - start \in Nat /\ 0 \in Nat
    BY <1>3, <1>6, <2>2, <2>3
  <2>5. /\ IsFile(r)
        /\ 0 <= Size(b) /\ Size(b) <= 0 + (end' - start) => 0 + Size(r) = Size(b)
        /\ IsSlice(r, b, 0)
    BY <2>2, <2>4, ReadEffect
  <2>. HIDE DEF r, b
  <2>6. Size(r) \in Nat /\ DOMAIN r = 0 .. Size(r) - 1
    BY <2>5 DEF IsFile
  <2>7. Size(r) = Size(b)
    BY <2>2, <2>3, <2>4, <2>5, <2>6
  <2>8. DOMAIN r = DOMAIN b
    BY <2>2, <2>6, <2>7
  <2>9. \A k \in DOMAIN r : r[k] = b[k]
    BY <2>5 DEF IsSlice
  <2>10. IsWhole(r, p)
    BY <2>8, <2>9 DEF IsWhole, b
  <2>11. file' = WriteAt(file, start, r)
    BY <1>8, <1>9
  <2>12. start + Size(r) <= RegionEnd(opts, chunk)
    BY <1>3, <1>6, <2>2, <2>3, <2>7
  <2>13. WritesInChunk(r, start)
    BY <1>3, <2>3, <2>5, <2>7, <2>11, <2>12 DEF WritesInChunk
  <2>. QED
    BY <2>10, <2>13
<1>. HIDE DEF r
<1>10. Restores(p)
  BY <1>8, <1>9 DEF Restores
<1>. QED
  BY <1>1, <1>6, <1>7, <1>10

\* The chunk is copied from chunk c.
CopiesFrom(c, r) ==
    /\ WritesInChunk(r, ChunkOffset(opts, chunk))
    /\ Size(r) <= ChunkEnd(opts, chunk, file_size) - ChunkOffset(opts, chunk)
    /\ IsSlice(r, file, ChunkOffset(opts, c))

LEMMA SourceType ==
    ASSUME NEW o \in CommandLines, Valid(o), NEW size \in Nat, NEW dest,
           NEW c \in SourceChunks(o, dest, size)
    PROVE  /\ c \in Nat
           /\ c \in RandInt(ChunkCount(o, size))
           /\ o.mod > 1 => c % o.mod # o.index
<1>1. ChunkCount(o, size) \in Int /\ o.mod \in Nat
  BY CountType, ValidOpts
<1>2. c \in RandInt(ChunkCount(o, size))
  BY DEF SourceChunks
<1>3. c \in Nat
  BY <1>1, <1>2 DEF RandInt
<1>4. o.mod > 1 => c % o.mod # o.index
  BY <1>1 DEF SourceChunks
<1>. QED
  BY <1>2, <1>3, <1>4

LEMMA CopyEffect ==
    ASSUME ToolInv, CopyChunk
    PROVE  /\ pc = "copy" /\ Looping /\ snapshots' = snapshots /\ end' = end
           /\ chunk' = chunk + opts.mod
           /\ bit_offset' = bit_offset /\ buf' = buf /\ bits_flipped' = bits_flipped
           /\ \/ file' = file
              \/ /\ CanCopy(opts, file_size)
                 /\ \E c \in SourceChunks(opts, ChunkOffset(opts, chunk), file_size) :
                    \E r : CopiesFrom(c, r)
<1>1. pc = "copy" /\ Looping /\ snapshots' = snapshots /\ end' = end
      /\ chunk' = chunk + opts.mod
      /\ bit_offset' = bit_offset /\ buf' = buf /\ bits_flipped' = bits_flipped
  BY DEF CopyChunk, InLoop, Looping, NextChunk, flipper
<1>2. ValidChunk
  BY <1>1, LoopChunk DEF Looping
<1>. DEFINE start == ChunkOffset(opts, chunk)
            length == ChunkEnd(opts, chunk, file_size) - start
<1>3. CASE ~CanCopy(opts, file_size)
  <2>1. file' = file
    BY <1>3 DEF CopyChunk
  <2>. QED
    BY <1>1, <2>1
<1>4. CASE CanCopy(opts, file_size)
  <2>1. PICK c \in SourceChunks(opts, start, file_size) :
           file' = WriteAt(file, start, Read(file, ChunkOffset(opts, c), length))
    BY <1>4 DEF CopyChunk
  <2>2. opts \in CommandLines /\ Valid(opts) /\ file_size \in Nat
    BY <1>2 DEF ValidChunk, ToolInv, TypeOK
  <2>3. c \in Nat
    BY <2>2, SourceType
  <2>4. ChunkOffset(opts, c) \in Nat
    BY <2>2, <2>3, OffsetType
  <2>5. start \in Nat /\ length \in Nat /\ RegionEnd(opts, chunk) \in Nat
        /\ start + length <= RegionEnd(opts, chunk) /\ start + length <= file_size
    BY <1>2 DEF ValidChunk
  <2>. DEFINE r == Read(file, ChunkOffset(opts, c), length)
  <2>6. IsFile(file) /\ (writes = 0 => file_size = Size(file))
    BY <1>1 DEF ToolInv, TypeOK, SizeIsKept
  <2>7. /\ IsFile(r) /\ Size(r) <= length
        /\ IsSlice(r, file, ChunkOffset(opts, c))
    BY <2>4, <2>5, <2>6, ReadEffect
  <2>8. file' = WriteAt(file, start, r)
    BY <2>1
  <2>. HIDE DEF r
  <2>9. Size(r) \in Nat
    BY <2>7 DEF IsFile
  <2>10. /\ start <= start
         /\ start + Size(r) <= RegionEnd(opts, chunk)
         /\ writes = 0 => start + Size(r) <= Size(file)
    BY <2>2, <2>5, <2>6, <2>7, <2>9
  <2>11. WritesInChunk(r, start)
    BY <2>5, <2>7, <2>8, <2>10 DEF WritesInChunk
  <2>12. CopiesFrom(c, r)
    BY <2>7, <2>11 DEF CopiesFrom
  <2>. QED
    BY <1>1, <1>4, <2>12
<1>. QED
  BY <1>3, <1>4

LEMMA XorType ==
    ASSUME NEW byte \in Bytes, NEW bit \in Bits
    PROVE  Xor(byte, bit) \in Bytes
  BY DEF Xor, Bytes

LEMMA ByteBitsType == ByteBits \in Nat \ {0}
  BY CorruptFileAssumption

LEMMA BitType ==
    ASSUME NEW n \in Int
    PROVE  n % ByteBits \in Bits
<1>1. n % ByteBits \in 0 .. ByteBits - 1
  BY ByteBitsType, DivMod
<1>. QED
  BY <1>1 DEF Bits

\* The position of the byte with the next bit to flip.
Position == ChunkOffset(opts, chunk) + ByteOffset

LEMMA FlipEffect ==
    ASSUME ToolInv, Flip
    PROVE  /\ pc = "bitflip" /\ Looping /\ snapshots' = snapshots
           /\ end' = end /\ chunk' = chunk
           /\ ByteOffset \in Nat
           /\ ByteOffset < ChunkEnd(opts, chunk, file_size) - ChunkOffset(opts, chunk)
           /\ buf' \in Bytes /\ bits_flipped' = bits_flipped + 1
           /\ \E delta \in RandExpInt(opts.probability) :
                 bit_offset' = bit_offset + Advance(delta)
           /\ writes = 0 => /\ Position \in DOMAIN file
                            /\ buf' = Xor(file[Position], bit_offset % ByteBits)
           /\ WritesInChunk([k \in {0} |-> buf'], Position)
<1>1. pc = "bitflip" /\ Looping /\ snapshots' = snapshots
      /\ end' = end /\ chunk' = chunk
      /\ bits_flipped' = bits_flipped + 1
      /\ \E delta \in RandExpInt(opts.probability) :
             bit_offset' = bit_offset + Advance(delta)
  BY DEF Flip, InLoop, Looping
<1>2. ValidChunk
  BY <1>1, LoopChunk DEF Looping
<1>3. /\ IsFile(file) /\ Size(file) \in Nat /\ DOMAIN file = 0 .. Size(file) - 1
      /\ \A i \in DOMAIN file : file[i] \in Bytes
      /\ buf \in Bytes /\ bit_offset \in Int
      /\ file_size \in Nat /\ (writes = 0 => file_size = Size(file))
  BY <1>1 DEF ToolInv, TypeOK, IsFile, SizeIsKept
<1>4. ByteOffset \in Int
  BY <1>3, ByteBitsType, DivMod DEF ByteOffset
<1>5. ByteOffset >= 0
      /\ ByteOffset < ChunkEnd(opts, chunk, file_size) - ChunkOffset(opts, chunk)
  BY DEF Flip, ChunkSize
<1>6. ByteOffset \in Nat
  BY <1>4, <1>5
<1>7. /\ Position \in Nat /\ ChunkOffset(opts, chunk) <= Position
      /\ Position + 1 <= RegionEnd(opts, chunk) /\ Position + 1 <= file_size
  <2>. DEFINE start == ChunkOffset(opts, chunk)
              finish == ChunkEnd(opts, chunk, file_size)
  <2>1. start \in Nat /\ finish \in Nat /\ RegionEnd(opts, chunk) \in Nat
        /\ finish <= RegionEnd(opts, chunk) /\ finish <= file_size
    BY <1>2 DEF ValidChunk
  <2>2. Position = start + ByteOffset
    BY DEF Position
  <2>3. ByteOffset < finish - start
    BY <1>5
  <2>. HIDE DEF start, finish
  <2>4. Position \in Nat /\ start <= Position /\ Position + 1 <= finish
    BY <1>6, <2>1, <2>2, <2>3
  <2>. QED
    BY <1>3, <2>1, <2>4 DEF start
<1>8. writes = 0 => Position \in DOMAIN file
  BY <1>3, <1>7
<1>9. /\ buf' = Xor(IF Position \in DOMAIN file THEN file[Position] ELSE buf,
                    bit_offset % ByteBits)
      /\ file' = WriteAt(file, Position, [k \in {0} |-> buf'])
  BY DEF Flip, Position
<1>10. buf' \in Bytes
  <2>1. (IF Position \in DOMAIN file THEN file[Position] ELSE buf) \in Bytes
    BY <1>3
  <2>2. bit_offset % ByteBits \in Bits
    BY <1>3, BitType
  <2>. QED
    BY <1>9, <2>1, <2>2, XorType
<1>11. writes = 0 => buf' = Xor(file[Position], bit_offset % ByteBits)
  BY <1>8, <1>9
<1>. DEFINE b == [k \in {0} |-> buf']
<1>12. IsFile(b) /\ Size(b) = 1
  <2>1. DOMAIN b = 0 .. 1 - 1
    OBVIOUS
  <2>2. Size(b) = 1
    BY <2>1, SizeOf
  <2>. QED
    BY <1>10, <2>1, <2>2 DEF IsFile
<1>13. file' = WriteAt(file, Position, b)
  BY <1>9
<1>. HIDE DEF b
<1>14. WritesInChunk(b, Position)
  BY <1>3, <1>7, <1>12, <1>13 DEF WritesInChunk
<1>. QED
  BY <1>1, <1>5, <1>6, <1>8, <1>10, <1>11, <1>14 DEF b

LEMMA SkipEffect ==
    ASSUME ToolInv, Skip
    PROVE  /\ pc \in {"restore", "copy"} /\ Looping /\ snapshots' = snapshots
           /\ file' = file /\ end' = end /\ opts.probability < 100
           /\ chunk' = chunk + opts.mod
           /\ bit_offset' = bit_offset /\ buf' = buf /\ bits_flipped' = bits_flipped
  BY DEF Skip, InLoop, Looping, NextChunk, flipper

LEMMA FlipNextChunkEffect ==
    ASSUME ToolInv, FlipNextChunk
    PROVE  /\ pc = "bitflip" /\ Looping /\ snapshots' = snapshots
           /\ file' = file /\ end' = end
           /\ chunk' = chunk + opts.mod
           /\ buf' = buf /\ bits_flipped' = bits_flipped
           /\ ByteOffset >= ChunkSize
           /\ bit_offset' = bit_offset - ChunkSize * ByteBits
  BY DEF FlipNextChunk, InLoop, Looping, NextChunk

\* A run ends.
Ended ==
    /\ pc # "idle" /\ pc' = "idle" /\ file' = file /\ opts' = opts
    /\ file_size' = file_size /\ chunk' = chunk /\ end' = end
    /\ bit_offset' = bit_offset /\ buf' = buf /\ bits_flipped' = bits_flipped
    /\ before' = before /\ runs' = runs /\ writes' = writes
    /\ exit' \in {"EXIT_OK", "EXIT_IO"}
    /\ exit' = "EXIT_OK" => snapshots' = snapshots /\ chunk >= ChunkCount(opts, file_size)
    /\ \/ KeepsSnapshots
       \/ \E s : TakesSnapshot(Path, s)

LEMMA EndedEffect ==
    ASSUME ToolInv, LoopEnds \/ FlipNowhere \/ IoFails
    PROVE  Ended
<1>1. CASE LoopEnds
  BY <1>1 DEF LoopEnds, Finish, loop, flipper, Ended, KeepsSnapshots
<1>2. CASE FlipNowhere
  BY <1>2 DEF FlipNowhere, Finish, loop, flipper, Ended, KeepsSnapshots
<1>3. CASE IoFails
  <2>1. /\ pc # "idle" /\ pc' = "idle" /\ file' = file /\ opts' = opts
        /\ file_size' = file_size /\ chunk' = chunk /\ end' = end
        /\ bit_offset' = bit_offset /\ buf' = buf /\ bits_flipped' = bits_flipped
        /\ before' = before /\ runs' = runs /\ writes' = writes
        /\ exit' = "EXIT_IO" /\ chunk < ChunkCount(opts, file_size)
    BY <1>3 DEF IoFails, loop, flipper
  <2>2. \/ snapshots' = snapshots
        \/ snapshots' = [p \in DOMAIN snapshots \ {Path} |-> snapshots[p]]
        \/ snapshots' = [p \in DOMAIN snapshots \cup {Path} |->
                            IF p = Path THEN <<>> ELSE snapshots[p]]
    BY <1>3 DEF IoFails, SnapshotPath, Path
  <2>3. CASE snapshots' = snapshots
    BY <2>1, <2>3 DEF Ended, KeepsSnapshots
  <2>4. CASE snapshots' = [p \in DOMAIN snapshots \ {Path} |-> snapshots[p]]
    <3>1. KeepsSnapshots
      BY <2>4 DEF KeepsSnapshots
    <3>. QED
      BY <2>1, <3>1 DEF Ended
  <2>5. CASE snapshots' = [p \in DOMAIN snapshots \cup {Path} |->
                            IF p = Path THEN <<>> ELSE snapshots[p]]
    <3>1. ValidChunk
      BY <2>1, LoopChunk
    <3>2. /\ Path \in Paths /\ Path[1] = ChunkOffset(opts, chunk)
          /\ Path[2] = RegionEnd(opts, chunk)
      BY <3>1, PathType
    <3>3. IsFile(<<>>) /\ Size(<<>>) = 0 /\ DOMAIN <<>> = {}
      BY EmptyFile
    <3>4. writes = 0 => Path[1] + 0 <= Size(file)
      BY <2>1, <3>1, <3>2 DEF ValidChunk, ToolInv, SizeIsKept, TypeOK
    <3>5. 0 <= Path[2] - Path[1]
      BY <3>1, <3>2 DEF ValidChunk
    <3>6. IsSnapshot(Path, <<>>)
      BY <3>2, <3>3, <3>4, <3>5 DEF IsSnapshot
    <3>7. TakesSnapshot(Path, <<>>)
      BY <2>5, <3>6 DEF TakesSnapshot
    <3>. QED
      BY <2>1, <3>7 DEF Ended
  <2>. QED
    BY <2>2, <2>3, <2>4, <2>5
<1>. QED
  BY <1>1, <1>2, <1>3

\* The database overwrites, truncates or extends the file.
DatabaseWrites ==
    /\ IsFile(file') /\ writes' \in 1 .. MaxWrites
    /\ snapshots' = snapshots /\ pc' = pc /\ opts' = opts /\ file_size' = file_size
    /\ chunk' = chunk /\ end' = end
    /\ bit_offset' = bit_offset /\ buf' = buf /\ bits_flipped' = bits_flipped
    /\ exit' = exit /\ before' = before /\ runs' = runs

LEMMA DatabaseEffect ==
    ASSUME ToolInv, Database
    PROVE  DatabaseWrites /\ writes' # writes
<1>1. /\ snapshots' = snapshots /\ pc' = pc /\ opts' = opts /\ file_size' = file_size
      /\ chunk' = chunk /\ end' = end
      /\ bit_offset' = bit_offset /\ buf' = buf /\ bits_flipped' = bits_flipped
      /\ exit' = exit /\ before' = before /\ runs' = runs
  BY DEF Database, loop, flipper
<1>2. /\ IsFile(file) /\ Size(file) \in Nat /\ DOMAIN file = 0 .. Size(file) - 1
      /\ \A i \in DOMAIN file : file[i] \in Bytes
      /\ writes \in 0 .. MaxWrites
  BY DEF ToolInv, TypeOK, IsFile
<1>3. writes' \in 1 .. MaxWrites /\ writes' # writes
  BY <1>2, CorruptFileAssumption DEF Database
<1>4. Fresh \in Bytes
  BY DEF Fresh, Bytes
<1>5. IsFile(file')
  <2>1. CASE \E i \in DOMAIN file : file' = [file EXCEPT ![i] = Fresh]
    <3>1. DOMAIN file' = 0 .. Size(file) - 1
      BY <1>2, <2>1
    <3>2. \A j \in DOMAIN file' : file'[j] \in Bytes
      BY <1>2, <1>4, <2>1
    <3>. QED
      BY <1>2, <3>1, <3>2, SizeOf DEF IsFile
  <2>2. CASE \E n \in Sizes :
               file' = [i \in 0 .. n - 1 |-> IF i \in DOMAIN file THEN file[i] ELSE Fresh]
    <3>1. PICK n \in Sizes :
               file' = [i \in 0 .. n - 1 |-> IF i \in DOMAIN file THEN file[i] ELSE Fresh]
      BY <2>2
    <3>2. n \in Nat /\ DOMAIN file' = 0 .. n - 1
      BY <3>1, CorruptFileAssumption
    <3>3. \A j \in DOMAIN file' : file'[j] \in Bytes
      BY <1>2, <1>4, <3>1
    <3>. QED
      BY <3>2, <3>3, SizeOf DEF IsFile
  <2>. QED
    BY <2>1, <2>2 DEF Database
<1>. QED
  BY <1>1, <1>3, <1>5 DEF DatabaseWrites

-----------------------------------------------------------------------------
(* What every mode rests on. *)

LEMMA InitToolInv == Init => ToolInv
<1>. SUFFICES ASSUME Init PROVE ToolInv
  OBVIOUS
<1>1. PICK n \in Sizes : file = [i \in 0 .. n - 1 |-> [data |-> i, flips |-> {}]]
  BY DEF Init
<1>2. n \in Nat /\ DOMAIN file = 0 .. n - 1
  BY <1>1, CorruptFileAssumption
<1>3. Size(file) = n
  BY <1>2, SizeOf
<1>4. \A i \in DOMAIN file : file[i] \in Bytes
  <2>. SUFFICES ASSUME NEW i \in 0 .. n - 1 PROVE file[i] \in Bytes
    BY <1>2
  <2>1. file[i] = [data |-> i, flips |-> {}] /\ i \in Int /\ {} \in SUBSET Bits
    BY <1>1, <1>2
  <2>. QED
    BY <2>1 DEF Bytes
<1>5. IsFile(file) /\ before = file
  BY <1>2, <1>3, <1>4 DEF IsFile, Init
<1>6. DOMAIN snapshots = {}
  BY DEF Init
<1>7. DefaultOpts \in CommandLines
  BY CorruptFileAssumption DEF DefaultOpts, CommandLines, Modes
<1>8. Hole \in Bytes
  BY DEF Hole, Bytes
<1>9. 0 \in 0 .. OffMax /\ 0 \in 0 .. MaxRuns /\ 0 \in 0 .. MaxWrites
  BY CorruptFileAssumption
<1>10. TypeOK
  BY <1>5, <1>6, <1>7, <1>8, <1>9 DEF TypeOK, Init
<1>. QED
  BY <1>3, <1>5, <1>6, <1>10
     DEF ToolInv, RunIsValid, SizeIsKept, SnapshotsFit, EndLags, Init

\* Snapshots keep their type and their sizes, whichever step takes them.
SnapshotsAreKept ==
    \/ KeepsSnapshots
    \/ \E p : \E s : TakesSnapshot(p, s)

LEMMA SnapshotsStep ==
    ASSUME ToolInv, SnapshotsAreKept,
           writes' = 0 => writes = 0 /\ Size(file') = Size(file)
    PROVE  /\ DOMAIN snapshots' \subseteq Paths
           /\ \A p \in DOMAIN snapshots' : IsFile(snapshots'[p])
           /\ SnapshotsFit'
<1>1. /\ DOMAIN snapshots \subseteq Paths
      /\ \A p \in DOMAIN snapshots : IsFile(snapshots[p])
      /\ SnapshotsFit
  BY DEF ToolInv, TypeOK
<1>2. CASE KeepsSnapshots
  BY <1>1, <1>2 DEF KeepsSnapshots, SnapshotsFit
<1>3. CASE \E p : \E s : TakesSnapshot(p, s)
  <2>1. PICK p, s : TakesSnapshot(p, s)
    BY <1>3
  <2>2. ASSUME NEW q \in DOMAIN snapshots'
        PROVE  /\ q \in Paths /\ IsFile(snapshots'[q])
               /\ Size(snapshots'[q]) <= q[2] - q[1]
               /\ writes' = 0 => q[1] + Size(snapshots'[q]) <= Size(file')
    <3>1. CASE q = p
      <4>1. snapshots'[q] = s
        BY <2>1, <3>1 DEF TakesSnapshot
      <4>. QED
        BY <2>1, <3>1, <4>1 DEF TakesSnapshot, IsSnapshot
    <3>2. CASE q # p
      <4>1. q \in DOMAIN snapshots /\ snapshots'[q] = snapshots[q]
        BY <2>1, <3>2 DEF TakesSnapshot
      <4>. QED
        BY <1>1, <4>1 DEF SnapshotsFit
    <3>. QED
      BY <3>1, <3>2
  <2>. QED
    BY <2>2 DEF SnapshotsFit
<1>. QED
  BY <1>2, <1>3 DEF SnapshotsAreKept

\* A run that begins, whether it starts its loop or not.
LEMMA RunToolInv ==
    ASSUME ToolInv, NEW o \in Options, NotStarted(o) \/ Started(o)
    PROVE  ToolInv'
<1>1. /\ opts' = o /\ before' = file /\ file' = file /\ writes' = writes
      /\ runs' \in 0 .. MaxRuns /\ KeepsSnapshots
  BY DEF NotStarted, Started
<1>2. o \in CommandLines
  BY CorruptFileAssumption
<1>3. /\ DOMAIN snapshots' \subseteq Paths
      /\ \A p \in DOMAIN snapshots' : IsFile(snapshots'[p])
      /\ SnapshotsFit'
  BY <1>1, SnapshotsStep DEF SnapshotsAreKept
<1>4. IsFile(file) /\ writes \in 0 .. MaxWrites /\ Size(file) \in Nat
  BY DEF ToolInv, TypeOK, IsFile
<1>5. CASE NotStarted(o)
  <2>1. TypeOK'
    BY <1>1, <1>2, <1>3, <1>4, <1>5 DEF NotStarted, ToolInv, TypeOK
  <2>2. RunIsValid' /\ SizeIsKept' /\ EndLags'
    BY <1>1, <1>5 DEF NotStarted, ToolInv, RunIsValid, SizeIsKept, EndLags
  <2>. QED
    BY <1>3, <2>1, <2>2 DEF ToolInv
<1>6. CASE Started(o)
  <2>1. /\ pc' = o.mode /\ o.mode \in Modes /\ Valid(o)
        /\ file_size' = Size(file) /\ chunk' = o.index /\ end' = 0
        /\ buf' = Hole /\ bits_flipped' = 0 /\ exit' = "none" /\ bit_offset' \in Int
    BY <1>6 DEF Started
  <2>2. /\ o.start \in Nat /\ o.end \in Nat /\ o.index \in Nat /\ o.mod \in Nat
        /\ o.mod > 0 /\ o.index < o.mod
    BY <1>2, <2>1, ValidOpts
  <2>3. Hole \in Bytes
    BY DEF Hole, Bytes
  <2>4. 0 \in 0 .. OffMax
    BY CorruptFileAssumption
  <2>5. TypeOK'
    BY <1>1, <1>2, <1>3, <1>4, <2>1, <2>2, <2>3, <2>4 DEF TypeOK
  <2>6. o.index % o.mod = o.index
    BY <2>2
  <2>7. RunIsValid'
    BY <1>1, <2>1, <2>6 DEF RunIsValid
  <2>8. SizeIsKept'
    BY <1>1, <2>1 DEF ToolInv, SizeIsKept
  <2>9. ChunkOffset(o, o.index) \in Nat
    BY <1>2, <2>1, <2>2, OffsetType
  <2>10. EndLags'
    BY <1>1, <2>1, <2>2, <2>9 DEF EndLags
  <2>. QED
    BY <1>3, <2>5, <2>7, <2>8, <2>10 DEF ToolInv
<1>. QED
  BY <1>5, <1>6

\* A run that ends.
LEMMA EndedToolInv ==
    ASSUME ToolInv, Ended
    PROVE  ToolInv'
<1>1. SnapshotsAreKept /\ file' = file /\ writes' = writes
  BY DEF Ended, SnapshotsAreKept
<1>2. /\ DOMAIN snapshots' \subseteq Paths
      /\ \A p \in DOMAIN snapshots' : IsFile(snapshots'[p])
      /\ SnapshotsFit'
  BY <1>1, SnapshotsStep
<1>3. TypeOK'
  BY <1>2 DEF Ended, ToolInv, TypeOK
<1>4. RunIsValid' /\ SizeIsKept' /\ EndLags'
  BY DEF Ended, ToolInv, RunIsValid, SizeIsKept, EndLags
<1>. QED
  BY <1>2, <1>3, <1>4 DEF ToolInv

LEMMA DatabaseToolInv ==
    ASSUME ToolInv, DatabaseWrites
    PROVE  ToolInv'
<1>1. writes' # 0
  BY DEF DatabaseWrites
<1>2. KeepsSnapshots
  BY DEF DatabaseWrites, KeepsSnapshots
<1>3. /\ DOMAIN snapshots' \subseteq Paths
      /\ \A p \in DOMAIN snapshots' : IsFile(snapshots'[p])
      /\ SnapshotsFit'
  BY <1>1, <1>2, SnapshotsStep DEF SnapshotsAreKept
<1>4. writes' \in 0 .. MaxWrites
  BY CorruptFileAssumption DEF DatabaseWrites
<1>5. TypeOK'
  BY <1>3, <1>4 DEF DatabaseWrites, ToolInv, TypeOK
<1>6. RunIsValid' /\ SizeIsKept' /\ EndLags'
  BY <1>1 DEF DatabaseWrites, ToolInv, RunIsValid, SizeIsKept, EndLags
<1>. QED
  BY <1>3, <1>5, <1>6 DEF ToolInv

\* A step of a loop, of whatever mode.
LoopStep ==
    /\ Looping
    /\ file' = file \/ ChunkIsWritten
    /\ SnapshotsAreKept
    /\ \/ chunk' = chunk + opts.mod
       \/ chunk' = chunk /\ pc = "bitflip"
    /\ end' \in 0 .. OffMax
    /\ pc = "restore" => end' <= RegionEnd(opts, chunk) /\ end' <= opts.end
    /\ bit_offset' \in Int /\ buf' \in Bytes /\ bits_flipped' \in Nat

LEMMA LoopToolInv ==
    ASSUME ToolInv, LoopStep
    PROVE  ToolInv'
<1>1. ValidChunk
  BY LoopChunk DEF LoopStep, Looping
<1>2. /\ opts \in CommandLines /\ Valid(opts) /\ pc = opts.mode
      /\ chunk \in Nat /\ chunk % opts.mod = opts.index
  BY <1>1 DEF ValidChunk
<1>3. opts.mod \in Nat \ {0} /\ opts.chunk_size \in Nat /\ opts.end \in Nat
  BY <1>2, ValidOpts
<1>4. /\ pc' = pc /\ opts' = opts /\ file_size' = file_size /\ exit' = exit
      /\ before' = before /\ runs' = runs /\ writes' = writes
  BY DEF LoopStep, Looping
<1>5. IsFile(file')
      /\ (writes = 0 => DOMAIN file' = DOMAIN file /\ Size(file') = Size(file))
  BY DEF LoopStep, ChunkIsWritten, ToolInv, TypeOK
<1>6. /\ DOMAIN snapshots' \subseteq Paths
      /\ \A p \in DOMAIN snapshots' : IsFile(snapshots'[p])
      /\ SnapshotsFit'
  BY <1>4, <1>5, SnapshotsStep DEF LoopStep
<1>7. chunk' \in Nat /\ chunk' % opts.mod = opts.index
  <2>1. CASE chunk' = chunk + opts.mod
    <3>1. (chunk + opts.mod) % opts.mod = chunk % opts.mod
      BY <1>2, <1>3, NextIndex
    <3>. QED
      BY <1>2, <1>3, <2>1, <3>1
  <2>2. CASE chunk' = chunk
    BY <1>2, <2>2
  <2>. QED
    BY <2>1, <2>2 DEF LoopStep
<1>8. TypeOK'
  BY <1>4, <1>5, <1>6, <1>7 DEF LoopStep, ToolInv, TypeOK
<1>9. RunIsValid'
  BY <1>2, <1>4, <1>7 DEF RunIsValid, ToolInv, LoopStep, Looping
<1>10. SizeIsKept'
  BY <1>4, <1>5 DEF ToolInv, SizeIsKept
<1>11. EndLags'
  <2>. SUFFICES ASSUME pc = "restore"
                PROVE  end' <= ChunkOffset(opts, chunk') /\ end' <= opts.end
    BY <1>4 DEF EndLags
  <2>1. chunk' = chunk + opts.mod
    BY DEF LoopStep
  <2>2. chunk < chunk'
    BY <1>2, <1>3, <2>1
  <2>3. ChunkOffset(opts, chunk) + opts.chunk_size <= ChunkOffset(opts, chunk')
    BY <1>2, <1>7, <2>2, OffsetGrows
  <2>4. /\ ChunkOffset(opts, chunk) \in Nat /\ RegionEnd(opts, chunk) \in Nat
        /\ RegionEnd(opts, chunk) <= ChunkOffset(opts, chunk) + opts.chunk_size
    BY <1>1 DEF ValidChunk
  <2>5. ChunkOffset(opts, chunk') \in Nat
    BY <1>2, <1>7, OffsetType
  <2>6. end' \in Int /\ end' <= RegionEnd(opts, chunk) /\ end' <= opts.end
    BY DEF LoopStep
  <2>. QED
    BY <1>3, <2>3, <2>4, <2>5, <2>6
<1>. QED
  BY <1>6, <1>8, <1>9, <1>10, <1>11 DEF ToolInv

LoopAction == Skip \/ SnapshotChunk \/ RestoreChunk \/ CopyChunk \/ Flip \/ FlipNextChunk

LEMMA LoopEffect ==
    ASSUME ToolInv, LoopAction
    PROVE  LoopStep /\ ValidChunk
<1>1. Looping
  BY SkipEffect, SnapshotEffect, RestoreEffect, CopyEffect, FlipEffect,
     FlipNextChunkEffect DEF LoopAction
<1>2. ValidChunk
  BY <1>1, LoopChunk DEF Looping
<1>3. /\ bit_offset \in Int /\ buf \in Bytes /\ bits_flipped \in Nat
      /\ end \in 0 .. OffMax
      /\ pc = "restore" => end <= ChunkOffset(opts, chunk) /\ end <= opts.end
  BY DEF ToolInv, TypeOK, EndLags
<1>4. snapshots' = snapshots => SnapshotsAreKept
  BY DEF SnapshotsAreKept, KeepsSnapshots
<1>5. \A b, at : WritesInChunk(b, at) => ChunkIsWritten
  BY <1>2, WriteInChunk
<1>6. CASE Skip
  <2>1. end' = end /\ file' = file /\ snapshots' = snapshots
        /\ chunk' = chunk + opts.mod
        /\ bit_offset' = bit_offset /\ buf' = buf /\ bits_flipped' = bits_flipped
    BY <1>6, SkipEffect
  <2>2. /\ ChunkOffset(opts, chunk) \in Nat /\ RegionEnd(opts, chunk) \in Nat
        /\ ChunkOffset(opts, chunk) < RegionEnd(opts, chunk)
    BY <1>2 DEF ValidChunk
  <2>3. pc = "restore" => end <= RegionEnd(opts, chunk) /\ end <= opts.end
    BY <1>3, <2>2
  <2>. QED
    BY <1>1, <1>2, <1>3, <1>4, <2>1, <2>3 DEF LoopStep
<1>7. CASE SnapshotChunk
  <2>1. /\ pc = "snapshot" /\ end' = end /\ file' = file /\ chunk' = chunk + opts.mod
        /\ bit_offset' = bit_offset /\ buf' = buf /\ bits_flipped' = bits_flipped
        /\ SnapshotsAreKept
    BY <1>7, SnapshotEffect DEF SnapshotsAreKept
  <2>. QED
    BY <1>1, <1>2, <1>3, <2>1 DEF LoopStep
<1>8. CASE RestoreChunk
  <2>1. /\ snapshots' = snapshots /\ chunk' = chunk + opts.mod
        /\ bit_offset' = bit_offset /\ buf' = buf /\ bits_flipped' = bits_flipped
        /\ end' = Lesser(end + opts.chunk_size, opts.end)
        /\ end' \in 0 .. OffMax /\ end' <= RegionEnd(opts, chunk)
        /\ Restores(<<ChunkOffset(opts, chunk), end'>>)
    BY <1>8, RestoreEffect
  <2>2. file' = file \/ ChunkIsWritten
    BY <1>5, <2>1 DEF Restores
  <2>3. opts.end \in Nat /\ opts.chunk_size \in Nat
    BY <1>2, ValidOpts DEF ValidChunk
  <2>4. end' <= opts.end
    BY <1>3, <2>1, <2>3 DEF Lesser
  <2>. QED
    BY <1>1, <1>2, <1>3, <1>4, <2>1, <2>2, <2>4 DEF LoopStep
<1>9. CASE CopyChunk
  <2>1. /\ pc = "copy" /\ snapshots' = snapshots /\ end' = end
        /\ chunk' = chunk + opts.mod
        /\ bit_offset' = bit_offset /\ buf' = buf /\ bits_flipped' = bits_flipped
    BY <1>9, CopyEffect
  <2>2. file' = file \/ ChunkIsWritten
    BY <1>5, <1>9, CopyEffect DEF CopiesFrom
  <2>. QED
    BY <1>1, <1>2, <1>3, <1>4, <2>1, <2>2 DEF LoopStep
<1>10. CASE Flip
  <2>1. /\ pc = "bitflip" /\ snapshots' = snapshots /\ end' = end /\ chunk' = chunk
        /\ buf' \in Bytes /\ bits_flipped' = bits_flipped + 1
    BY <1>10, FlipEffect
  <2>2. PICK delta \in RandExpInt(opts.probability) :
           bit_offset' = bit_offset + Advance(delta)
    BY <1>10, FlipEffect
  <2>3. opts.probability \in Int
    BY <1>2 DEF ValidChunk, CommandLines
  <2>4. delta \in Int
    BY <2>2, <2>3, RandExpIntType
  <2>5. bit_offset' \in Int
    BY <1>3, <2>2, <2>4 DEF Advance
  <2>6. ChunkIsWritten
    BY <1>5, <1>10, FlipEffect
  <2>. QED
    BY <1>1, <1>2, <1>3, <1>4, <2>1, <2>5, <2>6 DEF LoopStep
<1>11. CASE FlipNextChunk
  <2>1. /\ pc = "bitflip" /\ snapshots' = snapshots /\ end' = end /\ file' = file
        /\ chunk' = chunk + opts.mod /\ buf' = buf /\ bits_flipped' = bits_flipped
        /\ bit_offset' = bit_offset - ChunkSize * ByteBits
    BY <1>11, FlipNextChunkEffect
  <2>2. ChunkSize \in Int
    BY <1>2 DEF ValidChunk, ChunkSize
  <2>3. bit_offset' \in Int
    BY <1>3, <2>1, <2>2, ByteBitsType, ProductInt
  <2>. QED
    BY <1>1, <1>2, <1>3, <1>4, <2>1, <2>3 DEF LoopStep
<1>. QED
  BY <1>6, <1>7, <1>8, <1>9, <1>10, <1>11 DEF LoopAction

\* The steps of Next by what they do.
LEMMA NextCases ==
    ASSUME ToolInv, [Next]_vars
    PROVE  \/ \E o \in Options : NotStarted(o) \/ (Start(o) /\ Started(o))
           \/ LoopAction /\ LoopStep /\ ValidChunk
           \/ (LoopEnds \/ FlipNowhere \/ IoFails) /\ Ended
           \/ DatabaseWrites /\ writes' # writes
           \/ UNCHANGED vars
<1>1. TypeOK
  BY DEF ToolInv
<1>2. CASE \E o \in Options :
              Usage(o) \/ Reject(o) \/ ClearFails(o) \/ RunNothing(o) \/ MkdirFails(o)
  BY <1>1, <1>2, NotStartedEffect
<1>3. CASE \E o \in Options : Start(o)
  BY <1>1, <1>3, StartEffect
<1>4. CASE LoopAction
  BY <1>4, LoopEffect
<1>5. CASE LoopEnds \/ FlipNowhere \/ IoFails
  BY <1>5, EndedEffect
<1>6. CASE Database
  BY <1>6, DatabaseEffect
<1>. QED
  BY <1>2, <1>3, <1>4, <1>5, <1>6 DEF Next, Tool, LoopAction

LEMMA StepToolInv ==
    ASSUME ToolInv, [Next]_vars
    PROVE  ToolInv'
<1>1. CASE \E o \in Options : NotStarted(o) \/ Started(o)
  BY <1>1, RunToolInv
<1>2. CASE LoopStep
  BY <1>2, LoopToolInv
<1>3. CASE Ended
  BY <1>3, EndedToolInv
<1>4. CASE DatabaseWrites
  BY <1>4, DatabaseToolInv
<1>5. CASE UNCHANGED vars
  BY <1>5 DEF vars, loop, flipper, ToolInv, TypeOK, RunIsValid, SizeIsKept,
              SnapshotsFit, EndLags
<1>. QED
  BY <1>1, <1>2, <1>3, <1>4, <1>5, NextCases

\* Types, sizes and the bounds of chunks and snapshots in every state.
THEOREM ToolInvariant == Spec => []ToolInv
<1>1. Init => ToolInv
  BY InitToolInv
<1>2. ToolInv /\ [Next]_vars => ToolInv'
  BY StepToolInv
<1>. QED
  BY <1>1, <1>2, PTL DEF Spec

LEMMA FileDomain ==
    ASSUME ToolInv
    PROVE  /\ Size(file) \in Nat /\ DOMAIN file = 0 .. Size(file) - 1
           /\ \A i \in DOMAIN file : i \in Int /\ file[i] \in Bytes
<1>1. /\ Size(file) \in Nat /\ DOMAIN file = 0 .. Size(file) - 1
      /\ \A i \in DOMAIN file : file[i] \in Bytes
  BY DEF ToolInv, TypeOK, IsFile
<1>. QED
  BY <1>1

\* What a write into the chunk changes lies in the affected chunks.
LEMMA ChangedIsAffected ==
    ASSUME ToolInv, ValidChunk, ChunkIsWritten,
           NEW i \in DOMAIN file, file'[i] # file[i]
    PROVE  i \in AffectedBytes
<1>1. /\ ChunkOffset(opts, chunk) <= i /\ i < RegionEnd(opts, chunk)
  BY DEF ChunkIsWritten
<1>2. /\ ChunkOffset(opts, chunk) \in Nat /\ RegionEnd(opts, chunk) \in Nat
      /\ chunk \in AffectedChunks(opts, file_size)
  BY DEF ValidChunk
<1>3. i \in Int
  BY FileDomain
<1>4. i \in ChunkOffset(opts, chunk) .. RegionEnd(opts, chunk) - 1
  BY <1>1, <1>2, <1>3
<1>. QED
  BY <1>2, <1>4 DEF AffectedBytes

\* Only bytes of the affected chunks change, and the size of the file does not.
THEOREM OnlyAffectedBytesChange == Spec => OnlyAffectedBytes
<1>. DEFINE Contained ==
              writes' = writes =>
                 /\ \A i \in DOMAIN file \cap DOMAIN file' :
                       file'[i] # file[i] => i \in AffectedBytes
                 /\ writes = 0 => DOMAIN file' = DOMAIN file
<1>1. ASSUME ToolInv, [Next]_vars PROVE Contained
  <2>1. CASE file' = file
    BY <2>1
  <2>2. CASE LoopStep /\ ValidChunk
    <3>1. CASE ChunkIsWritten
      <4>1. \A i \in DOMAIN file : file'[i] # file[i] => i \in AffectedBytes
        BY <1>1, <2>2, <3>1, ChangedIsAffected
      <4>. QED
        BY <3>1, <4>1 DEF ChunkIsWritten
    <3>. QED
      BY <2>1, <2>2, <3>1 DEF LoopStep
  <2>3. CASE writes' # writes
    BY <2>3
  <2>4. CASE UNCHANGED vars
    BY <2>1, <2>4 DEF vars
  <2>. QED
    BY <1>1, <2>1, <2>2, <2>3, <2>4, NextCases DEF NotStarted, Started, Ended
<1>2. ToolInv /\ [Next]_vars => [Contained]_vars
  BY <1>1
<1>. QED
  BY <1>2, ToolInvariant, PTL DEF Spec, OnlyAffectedBytes

-----------------------------------------------------------------------------
(* Copies. *)

LEMMA OverlayOfWrite ==
    ASSUME ToolInv, NEW b, NEW at, WritesInChunk(b, at)
    PROVE  IsOverlay(file', file, at, b)
<1>1. /\ IsFile(file) /\ IsFile(b) /\ at \in Nat /\ file' = WriteAt(file, at, b)
  BY DEF ToolInv, TypeOK, WritesInChunk
<1>. QED
  BY <1>1, WriteEffect

LEMMA AffectedType ==
    ASSUME NEW o \in CommandLines, Valid(o), NEW size \in Nat,
           NEW c \in AffectedChunks(o, size)
    PROVE  /\ c \in Nat /\ c < ChunkCount(o, size) /\ c % o.mod = o.index
           /\ ChunkOffset(o, c) \in Nat /\ RegionEnd(o, c) \in Nat
           /\ ChunkOffset(o, c) < RegionEnd(o, c)
           /\ RegionEnd(o, c) <= o.end
           /\ RegionEnd(o, c) <= ChunkOffset(o, c) + o.chunk_size
           /\ ChunkEnd(o, c, size) \in Nat /\ ChunkEnd(o, c, size) <= size
           /\ ChunkEnd(o, c, size) <= RegionEnd(o, c)
<1>1. ChunkCount(o, size) \in Int
  BY CountType
<1>2. c \in 0 .. ChunkCount(o, size) - 1 /\ c % o.mod = o.index
  BY DEF AffectedChunks
<1>3. c \in Nat /\ c < ChunkCount(o, size)
  BY <1>1, <1>2
<1>. QED
  BY <1>2, <1>3, OffsetType, ChunkInRegion

\* A chunk of another index shares no byte with those affected, the bytes after
\* a short chunk included.
LEMMA SourceIsUnaffected ==
    ASSUME opts \in CommandLines, Valid(opts), file_size \in Nat,
           NEW c \in Nat, c % opts.mod # opts.index,
           NEW k \in Nat, k < opts.chunk_size
    PROVE  ChunkOffset(opts, c) + k \notin AffectedBytes
<1>. SUFFICES ASSUME ChunkOffset(opts, c) + k \in AffectedBytes PROVE FALSE
  OBVIOUS
<1>. DEFINE i == ChunkOffset(opts, c) + k
<1>1. PICK d \in AffectedChunks(opts, file_size) :
         i \in ChunkOffset(opts, d) .. RegionEnd(opts, d) - 1
  BY DEF AffectedBytes
<1>2. /\ d \in Nat /\ d % opts.mod = opts.index
      /\ ChunkOffset(opts, d) \in Nat /\ RegionEnd(opts, d) \in Nat
      /\ RegionEnd(opts, d) <= ChunkOffset(opts, d) + opts.chunk_size
  BY AffectedType
<1>3. ChunkOffset(opts, c) \in Nat /\ opts.chunk_size \in Nat
  BY OffsetType, ValidOpts
<1>4. i \in Int /\ ChunkOffset(opts, c) <= i /\ i < ChunkOffset(opts, c) + opts.chunk_size
  BY <1>3
<1>5. ChunkOffset(opts, d) <= i /\ i < ChunkOffset(opts, d) + opts.chunk_size
  BY <1>1, <1>2, <1>3, <1>4
<1>. HIDE DEF i
<1>6. c = d
  BY <1>2, <1>4, <1>5, ChunksAreDisjoint
<1>. QED
  BY <1>2, <1>6

LEMMA CopyKeepsClean ==
    ASSUME ToolInv, CopyInv, CopyChunk
    PROVE  CopyInv'
<1>1. /\ pc = "copy" /\ Looping /\ ValidChunk
  BY CopyEffect, LoopChunk DEF Looping
<1>2. /\ pc' = pc /\ opts' = opts /\ file_size' = file_size /\ before' = before
      /\ writes' = writes /\ exit' = exit
  BY <1>1 DEF Looping
<1>3. CASE file' = file
  BY <1>1, <1>2, <1>3
     DEF CopyInv, SourcesAreUntouched, CopiesAreClean, AffectedBytes, CleanSources
<1>4. CASE writes # 0
  BY <1>2, <1>4 DEF CopyInv, SourcesAreUntouched, CopiesAreClean
<1>5. ASSUME writes = 0, NEW c \in SourceChunks(opts, ChunkOffset(opts, chunk), file_size),
             NEW r, CopiesFrom(c, r), CanCopy(opts, file_size)
      PROVE  CopyInv'
  <2>. DEFINE start == ChunkOffset(opts, chunk)
  <2>1. /\ opts \in CommandLines /\ Valid(opts) /\ file_size \in Nat
        /\ chunk \in Nat /\ chunk \in AffectedChunks(opts, file_size)
    BY <1>1 DEF ValidChunk, ToolInv, TypeOK
  <2>2. WritesInChunk(r, start) /\ IsSlice(r, file, ChunkOffset(opts, c))
        /\ Size(r) <= ChunkEnd(opts, chunk, file_size) - start
    BY <1>5 DEF CopiesFrom
  <2>3. ChunkIsWritten /\ IsOverlay(file', file, start, r)
    BY <1>1, <2>2, WriteInChunk, OverlayOfWrite
  <2>4. DOMAIN before = DOMAIN file /\ DOMAIN file' = DOMAIN file
        /\ file_size = Size(file)
    BY <1>1, <1>5, <2>3 DEF ToolInv, SizeIsKept, ChunkIsWritten
  <2>5. \A i \in DOMAIN file : i \in AffectedBytes \/ file[i] = before[i]
    BY <1>1, <1>5 DEF CopyInv, SourcesAreUntouched
  <2>6. SourcesAreUntouched'
    <3>1. \A i \in DOMAIN file : i \in AffectedBytes \/ file'[i] = before[i]
      BY <1>1, <2>3, <2>5, ChangedIsAffected
    <3>2. AffectedBytes' = AffectedBytes
      BY <1>2 DEF AffectedBytes
    <3>. QED
      BY <1>2, <2>4, <3>1, <3>2 DEF SourcesAreUntouched
  <2>7. ASSUME opts.mod > 1, NEW d \in AffectedChunks(opts, file_size),
               NEW i \in Extent(opts, d, file_size)
        PROVE  \E j \in {i} \cup CleanSources(i - ChunkOffset(opts, d)) :
                  j \in DOMAIN before /\ file'[i] = before[j]
    <3>1. /\ d \in Nat /\ ChunkOffset(opts, d) \in Nat
          /\ ChunkEnd(opts, d, file_size) \in Nat
          /\ ChunkEnd(opts, d, file_size) <= file_size
          /\ ChunkEnd(opts, d, file_size) <= RegionEnd(opts, d)
          /\ RegionEnd(opts, d) \in Nat
          /\ RegionEnd(opts, d) <= ChunkOffset(opts, d) + opts.chunk_size
      BY <2>1, AffectedType
    <3>2. opts.chunk_size \in Nat
      BY <2>1, ValidOpts
    <3>3. /\ i \in Int /\ ChunkOffset(opts, d) <= i /\ i < file_size
          /\ i < ChunkOffset(opts, d) + opts.chunk_size
      BY <2>1, <3>1, <3>2 DEF Extent
    <3>4. i \in DOMAIN file
      BY <2>4, <3>1, <3>3, FileDomain
    <3>5. CASE i - start \notin DOMAIN r
      <4>1. file'[i] = file[i]
        BY <2>3, <3>4, <3>5 DEF IsOverlay
      <4>2. \E j \in {i} \cup CleanSources(i - ChunkOffset(opts, d)) :
                  j \in DOMAIN before /\ file[i] = before[j]
        BY <1>1, <1>5, <2>7 DEF CopyInv, CopiesAreClean
      <4>. QED
        BY <4>1, <4>2
    <3>6. CASE i - start \in DOMAIN r
      <4>. DEFINE k == i - start
                  j == ChunkOffset(opts, c) + k
      <4>1. start \in Nat /\ ChunkEnd(opts, chunk, file_size) \in Nat
            /\ ChunkEnd(opts, chunk, file_size) <= RegionEnd(opts, chunk)
            /\ RegionEnd(opts, chunk) \in Nat
            /\ RegionEnd(opts, chunk) <= start + opts.chunk_size
        BY <1>1 DEF ValidChunk
      <4>2. Size(r) \in Nat /\ DOMAIN r = 0 .. Size(r) - 1
        BY <2>2 DEF WritesInChunk, IsFile
      <4>3. k \in Nat /\ k < Size(r)
        BY <3>3, <3>6, <4>1, <4>2
      <4>4. k < opts.chunk_size
        BY <2>2, <3>2, <4>1, <4>2, <4>3
      <4>5. start <= i /\ i < start + opts.chunk_size
        BY <3>2, <3>3, <4>1, <4>3, <4>4
      <4>6. d = chunk
        BY <2>1, <3>1, <3>3, <4>5, ChunksAreDisjoint
      <4>7. file'[i] = r[k]
        BY <2>3, <3>4, <3>6 DEF IsOverlay
      <4>8. j \in DOMAIN file /\ r[k] = file[j]
        BY <2>2, <3>6 DEF IsSlice
      <4>9. c \in Nat /\ c \in RandInt(ChunkCount(opts, file_size))
            /\ c % opts.mod # opts.index
        BY <2>1, <2>7, SourceType
      <4>10. ChunkCount(opts, file_size) \in Int
        BY <2>1, CountType
      <4>11. c \in 0 .. ChunkCount(opts, file_size) - 1
        BY <1>5, <4>9, <4>10 DEF RandInt, CanCopy
      <4>12. c \notin AffectedChunks(opts, file_size)
        BY <4>9 DEF AffectedChunks
      <4>13. j \in CleanSources(k)
        BY <4>11, <4>12 DEF CleanSources
      <4>14. j \notin AffectedBytes
        BY <2>1, <4>3, <4>4, <4>9, SourceIsUnaffected
      <4>. HIDE DEF j
      <4>15. file[j] = before[j]
        BY <2>5, <4>8, <4>14
      <4>. QED
        BY <2>4, <4>6, <4>7, <4>8, <4>13, <4>15
    <3>. QED
      BY <3>5, <3>6
  <2>8. CopiesAreClean'
    <3>1. AffectedChunks(opts, file_size)' = AffectedChunks(opts, file_size)
          /\ opts' = opts /\ file_size' = file_size /\ before' = before
      BY <1>2
    <3>. SUFFICES ASSUME opts.mod > 1,
                         NEW d \in AffectedChunks(opts, file_size),
                         NEW i \in Extent(opts, d, file_size)
                  PROVE  \E j \in {i} \cup CleanSources(i - ChunkOffset(opts, d))' :
                            j \in DOMAIN before /\ file'[i] = before[j]
      BY <1>2 DEF CopiesAreClean
    <3>2. CleanSources(i - ChunkOffset(opts, d))' = CleanSources(i - ChunkOffset(opts, d))
      BY <1>2 DEF CleanSources
    <3>. QED
      BY <2>7, <3>2
  <2>. QED
    BY <2>6, <2>8 DEF CopyInv
<1>. QED
  BY <1>3, <1>4, <1>5, CopyEffect

\* Nothing that copies are judged by changes: the step keeps their invariant.
LEMMA CopyUntouched ==
    ASSUME CopyInv, file' = file, before' = before, opts' = opts,
           file_size' = file_size, writes' = writes, pc = "copy" \/ pc' = pc,
           pc' \in {"copy", "idle"} => pc' = pc \/ opts.mode = "copy",
           pc' = "copy" => pc = "copy", pc' = pc => exit' = exit
    PROVE  CopyInv'
<1>1. AffectedBytes' = AffectedBytes
      /\ (\A k : CleanSources(k)' = CleanSources(k))
  BY DEF AffectedBytes, CleanSources
<1>2. SourcesAreUntouched'
  BY <1>1 DEF CopyInv, SourcesAreUntouched
<1>3. CopiesAreClean'
  BY <1>1 DEF CopyInv, CopiesAreClean, CleanSources
<1>. QED
  BY <1>2, <1>3 DEF CopyInv

\* A run of the tool begins with clean copies: none.
LEMMA StartCopyInv ==
    ASSUME ToolInv, NEW o \in Options, Started(o)
    PROVE  CopyInv'
<1>1. /\ pc' = o.mode /\ o.mode # "idle" /\ opts' = o /\ before' = file /\ file' = file
      /\ file_size' = Size(file) /\ Valid(o)
  BY DEF Started, Modes
<1>2. o \in CommandLines /\ Size(file) \in Nat /\ DOMAIN file = 0 .. Size(file) - 1
  BY CorruptFileAssumption, FileDomain
<1>3. SourcesAreUntouched'
  BY <1>1 DEF SourcesAreUntouched
<1>4. ASSUME NEW c \in AffectedChunks(o, Size(file)),
             NEW i \in Extent(o, c, Size(file))
      PROVE  i \in DOMAIN file
  <2>1. /\ ChunkOffset(o, c) \in Nat /\ ChunkEnd(o, c, Size(file)) \in Nat
        /\ ChunkEnd(o, c, Size(file)) <= Size(file)
    BY <1>1, <1>2, AffectedType
  <2>. QED
    BY <1>2, <2>1 DEF Extent
<1>5. CopiesAreClean'
  <2>. SUFFICES ASSUME NEW c \in AffectedChunks(o, Size(file)),
                       NEW i \in Extent(o, c, Size(file))
                PROVE  i \in DOMAIN file
    BY <1>1 DEF CopiesAreClean
  <2>. QED
    BY <1>4
<1>. QED
  BY <1>3, <1>5 DEF CopyInv

LEMMA StepCopyInv ==
    ASSUME ToolInv, CopyInv, [Next]_vars
    PROVE  CopyInv'
<1>1. CASE \E o \in Options : NotStarted(o)
  BY <1>1 DEF NotStarted, CopyInv, SourcesAreUntouched, CopiesAreClean
<1>2. CASE \E o \in Options : Started(o)
  BY <1>2, StartCopyInv
<1>3. CASE LoopAction /\ LoopStep
  <2>1. Looping
    BY <1>3 DEF LoopStep
  <2>2. CASE pc # "copy"
    BY <2>1, <2>2 DEF Looping, CopyInv, SourcesAreUntouched, CopiesAreClean
  <2>3. CASE CopyChunk
    BY <2>3, CopyKeepsClean
  <2>4. CASE Skip
    BY <2>1, <2>4, SkipEffect, CopyUntouched DEF Looping
  <2>. QED
    BY <1>3, <2>2, <2>3, <2>4
       DEF LoopAction, SnapshotChunk, RestoreChunk, Flip, FlipNextChunk, InLoop
<1>4. CASE Ended
  <2>1. pc = opts.mode
    BY <1>4 DEF Ended, ToolInv, RunIsValid
  <2>2. CASE pc # "copy"
    BY <1>4, <2>1, <2>2 DEF Ended, CopyInv, SourcesAreUntouched, CopiesAreClean
  <2>3. CASE pc = "copy"
    BY <1>4, <2>1, <2>3, CopyUntouched DEF Ended
  <2>. QED
    BY <2>2, <2>3
<1>5. CASE DatabaseWrites
  BY <1>5 DEF DatabaseWrites, CopyInv, SourcesAreUntouched, CopiesAreClean
<1>6. CASE UNCHANGED vars
  BY <1>6, CopyUntouched DEF vars
<1>. QED
  BY <1>1, <1>2, <1>3, <1>4, <1>5, <1>6, NextCases

\* With a modulus, what corrupt_copy writes comes from chunks it does not touch,
\* unless the database writes too.
THEOREM CopiesStayClean == Spec => []CopiesAreClean
<1>1. Init => CopyInv
  BY DEF Init, DefaultOpts, CopyInv, SourcesAreUntouched, CopiesAreClean
<1>2. ToolInv /\ CopyInv /\ [Next]_vars => CopyInv'
  BY StepCopyInv
<1>3. CopyInv => CopiesAreClean
  BY DEF CopyInv
<1>. QED
  BY <1>1, <1>2, <1>3, ToolInvariant, PTL DEF Spec

-----------------------------------------------------------------------------
(* Snapshots and restores. *)

FileInPlace == \A i \in DOMAIN file : file[i].data = i

SnapshotsInPlace ==
    \A p \in DOMAIN snapshots : \A k \in DOMAIN snapshots[p] :
       snapshots[p][k].data = p[1] + k

\* Snapshots taken of a file whose bytes are in place are in place.
LEMMA SnapshotsStayInPlace ==
    ASSUME FileInPlace, SnapshotsInPlace, SnapshotsAreKept
    PROVE  SnapshotsInPlace'
<1>1. CASE KeepsSnapshots
  BY <1>1 DEF KeepsSnapshots, SnapshotsInPlace
<1>2. CASE \E p : \E s : TakesSnapshot(p, s)
  <2>1. PICK p, s : TakesSnapshot(p, s)
    BY <1>2
  <2>2. ASSUME NEW q \in DOMAIN snapshots', NEW k \in DOMAIN snapshots'[q]
        PROVE  snapshots'[q][k].data = q[1] + k
    <3>1. CASE q = p
      <4>1. snapshots'[q] = s
        BY <2>1, <3>1 DEF TakesSnapshot
      <4>2. p[1] + k \in DOMAIN file /\ s[k] = file[p[1] + k]
        BY <2>1, <2>2, <4>1 DEF TakesSnapshot, IsSnapshot
      <4>. QED
        BY <3>1, <4>1, <4>2 DEF FileInPlace
    <3>2. CASE q # p
      <4>1. q \in DOMAIN snapshots /\ snapshots'[q] = snapshots[q]
        BY <2>1, <3>2 DEF TakesSnapshot
      <4>. QED
        BY <2>2, <4>1 DEF SnapshotsInPlace
    <3>. QED
      BY <3>1, <3>2
  <2>. QED
    BY <2>2 DEF SnapshotsInPlace
<1>. QED
  BY <1>1, <1>2 DEF SnapshotsAreKept

\* Bytes stay in place when what is written belongs where it is written.
LEMMA OverlayStaysInPlace ==
    ASSUME ToolInv, ValidChunk, writes = 0, FileInPlace,
           NEW b, NEW at, WritesInChunk(b, at),
           \A k \in DOMAIN b : b[k].data = at + k
    PROVE  FileInPlace'
<1>1. ChunkIsWritten /\ IsOverlay(file', file, at, b)
  BY WriteInChunk, OverlayOfWrite
<1>2. DOMAIN file' = DOMAIN file
  BY <1>1 DEF ChunkIsWritten
<1>3. ASSUME NEW i \in DOMAIN file PROVE file'[i].data = i
  <2>1. file'[i] = IF i - at \in DOMAIN b THEN b[i - at] ELSE file[i]
    BY <1>1 DEF IsOverlay
  <2>2. i \in Int /\ at \in Int
    BY FileDomain DEF WritesInChunk
  <2>3. CASE i - at \in DOMAIN b
    <3>1. b[i - at].data = at + (i - at)
      BY <2>3
    <3>. QED
      BY <2>1, <2>2, <2>3, <3>1
  <2>4. CASE i - at \notin DOMAIN b
    BY <2>1, <2>4 DEF FileInPlace
  <2>. QED
    BY <2>3, <2>4
<1>. QED
  BY <1>2, <1>3 DEF FileInPlace

\* Restores and flips leave bytes in place.
LEMMA LoopStaysInPlace ==
    ASSUME ToolInv, LoopAction, LoopStep, ValidChunk, writes = 0, pc # "copy",
           FileInPlace, SnapshotsInPlace
    PROVE  FileInPlace'
<1>1. CASE file' = file
  BY <1>1 DEF FileInPlace
<1>2. CASE RestoreChunk
  <2>1. PICK p : p[1] = ChunkOffset(opts, chunk) /\ Restores(p)
    BY <1>2, RestoreEffect
  <2>2. CASE p \notin DOMAIN snapshots
    BY <1>1, <2>1, <2>2 DEF Restores
  <2>3. CASE p \in DOMAIN snapshots
    <3>1. PICK r : WritesInChunk(r, ChunkOffset(opts, chunk)) /\ IsWhole(r, p)
      BY <2>1, <2>3 DEF Restores
    <3>2. \A k \in DOMAIN r : r[k].data = ChunkOffset(opts, chunk) + k
      BY <2>1, <2>3, <3>1 DEF IsWhole, SnapshotsInPlace
    <3>. QED
      BY <3>1, <3>2, OverlayStaysInPlace
  <2>. QED
    BY <2>2, <2>3
<1>3. CASE Flip
  <2>. DEFINE b == [k \in {0} |-> buf']
  <2>1. /\ WritesInChunk(b, Position)
        /\ Position \in DOMAIN file
        /\ buf' = Xor(file[Position], bit_offset % ByteBits)
    BY <1>3, FlipEffect
  <2>2. Position \in Int /\ file[Position] \in Bytes
    BY <2>1, FileDomain
  <2>3. buf'.data = Position
    BY <2>1, <2>2 DEF FileInPlace, Xor, Bytes
  <2>4. \A k \in DOMAIN b : b[k].data = Position + k
    BY <2>2, <2>3
  <2>. HIDE DEF b
  <2>. QED
    BY <2>1, <2>4, OverlayStaysInPlace
<1>4. CASE Skip \/ SnapshotChunk \/ FlipNextChunk
  BY <1>1, <1>4, SkipEffect, SnapshotEffect, FlipNextChunkEffect
<1>. QED
  BY <1>2, <1>3, <1>4 DEF LoopAction, CopyChunk, InLoop

LEMMA StepInPlace ==
    ASSUME ToolInv, BytesAreInPlace, [Next]_vars
    PROVE  BytesAreInPlace'
<1>. SUFFICES ASSUME writes' = 0, \A o \in Options : o.mode # "copy"
              PROVE  FileInPlace' /\ SnapshotsInPlace'
  BY DEF BytesAreInPlace, FileInPlace, SnapshotsInPlace
<1>1. CASE DatabaseWrites
  BY <1>1 DEF DatabaseWrites
<1>2. CASE writes' = writes
  <2>1. FileInPlace /\ SnapshotsInPlace
    BY <1>2 DEF BytesAreInPlace, FileInPlace, SnapshotsInPlace
  <2>2. SnapshotsAreKept => SnapshotsInPlace'
    BY <2>1, SnapshotsStayInPlace
  <2>3. CASE \E o \in Options : NotStarted(o) \/ Started(o)
    BY <2>1, <2>2, <2>3 DEF NotStarted, Started, SnapshotsAreKept, FileInPlace
  <2>4. CASE LoopAction /\ LoopStep /\ ValidChunk
    <3>1. pc # "copy"
      BY <2>4 DEF LoopStep, Looping, ToolInv, RunIsValid
    <3>2. SnapshotsAreKept
      BY <2>4 DEF LoopStep
    <3>. QED
      BY <1>2, <2>1, <2>2, <2>4, <3>1, <3>2, LoopStaysInPlace
  <2>5. CASE Ended
    BY <2>1, <2>2, <2>5 DEF Ended, SnapshotsAreKept, FileInPlace
  <2>6. CASE UNCHANGED vars
    BY <2>1, <2>6 DEF vars, FileInPlace, SnapshotsInPlace
  <2>. QED
    BY <1>1, <2>3, <2>4, <2>5, <2>6, NextCases
<1>. QED
  BY <1>1, <1>2, NextCases DEF NotStarted, Started, LoopStep, Looping, Ended, vars

\* A restore whose chunks are visited one by one from the start of the file.
RestoringAll == /\ pc = "restore" /\ writes = 0
                /\ opts.probability = 100 /\ opts.mod = 1 /\ opts.start = 0

\* The chunk that is visited is restored.
LEMMA ChunkIsRestored ==
    ASSUME ToolInv, RestoreChunk, RestoringAll, RestoredSoFar, NEW c, c = chunk
    PROVE  /\ end' = Lesser(ChunkOffset(opts, chunk'), opts.end)
           /\ IsRestored(c)'
<1>. DEFINE start == ChunkOffset(opts, chunk)
            finish == RegionEnd(opts, chunk)
<1>1. /\ Looping /\ snapshots' = snapshots /\ chunk' = chunk + opts.mod
      /\ end' = Lesser(end + opts.chunk_size, opts.end)
      /\ Restores(<<start, end'>>)
  BY RestoreEffect
<1>2. ValidChunk
  BY <1>1, LoopChunk DEF Looping
<1>3. /\ opts \in CommandLines /\ Valid(opts) /\ chunk \in Nat
      /\ start \in Nat /\ finish \in Nat /\ start < finish /\ finish <= opts.end
  BY <1>2 DEF ValidChunk
<1>4. opts.end \in Nat /\ opts.chunk_size \in Nat /\ opts.start \in Nat
  BY <1>3, ValidOpts
<1>5. end = Lesser(start, opts.end)
  BY DEF RestoredSoFar, RestoringAll
<1>6. end = start
  BY <1>3, <1>4, <1>5 DEF Lesser
<1>7. finish = Lesser(start + opts.chunk_size, opts.end)
  BY DEF RegionEnd
<1>8. end' = finish
  BY <1>1, <1>6, <1>7
<1>9. chunk' = chunk + 1
  BY <1>1 DEF RestoringAll
<1>10. ChunkOffset(opts, chunk') = start + opts.chunk_size
  <2>1. (chunk + 1) * opts.chunk_size = chunk * opts.chunk_size + opts.chunk_size
    BY <1>3, <1>4, ProductSucc
  <2>2. chunk * opts.chunk_size \in Int
    BY <1>3, <1>4, ProductInt
  <2>. QED
    BY <1>4, <1>9, <2>1, <2>2 DEF ChunkOffset
<1>11. end' = Lesser(ChunkOffset(opts, chunk'), opts.end)
  BY <1>7, <1>8, <1>10
<1>12. ASSUME <<start, finish>> \in DOMAIN snapshots,
              NEW k \in DOMAIN snapshots[<<start, finish>>]
       PROVE  file'[start + k] = snapshots[<<start, finish>>][k]
  <2>1. PICK r : WritesInChunk(r, start) /\ IsWhole(r, <<start, finish>>)
    BY <1>1, <1>8, <1>12 DEF Restores
  <2>2. IsOverlay(file', file, start, r)
    BY <2>1, OverlayOfWrite
  <2>3. k \in DOMAIN r /\ r[k] = snapshots[<<start, finish>>][k]
    BY <1>12, <2>1 DEF IsWhole
  <2>. QED
    BY <2>2, <2>3 DEF IsOverlay
<1>13. opts' = opts /\ c = chunk
  BY <1>1 DEF Looping
<1>14. IsRestored(c)'
  BY <1>1, <1>12, <1>13 DEF IsRestored, SnapshotPath
<1>. QED
  BY <1>11, <1>14

\* A chunk that was visited before stays as it is.
LEMMA ChunkStaysRestored ==
    ASSUME ToolInv, RestoreChunk, writes = 0,
           NEW c \in AffectedChunks(opts, file_size), c < chunk, IsRestored(c)
    PROVE  IsRestored(c)'
<1>. DEFINE start == ChunkOffset(opts, c)
            finish == RegionEnd(opts, c)
            path == <<start, finish>>
<1>1. /\ pc = "restore" /\ Looping /\ snapshots' = snapshots
  BY RestoreEffect
<1>2. ValidChunk
  BY <1>1, LoopChunk DEF Looping
<1>3. ChunkIsWritten \/ file' = file
  BY <1>2, RestoreEffect, WriteInChunk DEF Restores
<1>4. /\ opts \in CommandLines /\ Valid(opts) /\ chunk \in Nat /\ file_size \in Nat
      /\ ChunkOffset(opts, chunk) \in Nat
  BY <1>2 DEF ValidChunk, ToolInv, TypeOK
<1>5. /\ c \in Nat /\ start \in Nat /\ finish \in Nat
      /\ finish <= start + opts.chunk_size
  BY <1>4, AffectedType
<1>6. start + opts.chunk_size <= ChunkOffset(opts, chunk) /\ opts.chunk_size \in Nat
  BY <1>4, <1>5, OffsetGrows, ValidOpts
<1>7. ASSUME path \in DOMAIN snapshots, NEW k \in DOMAIN snapshots[path]
      PROVE  file'[start + k] = snapshots[path][k]
  <2>. DEFINE b == snapshots[path]
  <2>1. Size(b) \in Nat /\ DOMAIN b = 0 .. Size(b) - 1
    BY <1>7 DEF ToolInv, TypeOK, IsFile
  <2>2. path[1] = start /\ path[2] = finish
    OBVIOUS
  <2>3. Size(b) <= finish - start /\ start + Size(b) <= Size(file)
    BY <1>7, <2>2 DEF ToolInv, SnapshotsFit
  <2>4. k \in Nat /\ k < Size(b)
    BY <1>7, <2>1
  <2>5. file[start + k] = b[k]
    BY <1>7 DEF IsRestored, SnapshotPath
  <2>. HIDE DEF b
  <2>6. /\ start + k \in Nat /\ start + k < Size(file)
        /\ start + k < ChunkOffset(opts, chunk)
    <3>1. Size(file) \in Nat
      BY FileDomain
    <3>. HIDE DEF start, finish
    <3>. QED
      BY <1>4, <1>5, <1>6, <2>1, <2>3, <2>4, <3>1
  <2>7. start + k \in DOMAIN file
    BY <2>6, FileDomain
  <2>8. ~(ChunkOffset(opts, chunk) <= start + k)
    BY <1>4, <2>6
  <2>9. file'[start + k] = file[start + k]
    BY <1>3, <2>7, <2>8 DEF ChunkIsWritten
  <2>. QED
    BY <2>5, <2>9 DEF b
<1>. QED
  BY <1>1, <1>7 DEF IsRestored, SnapshotPath, Looping

LEMMA StepRestoredSoFar ==
    ASSUME ToolInv, RestoredSoFar, [Next]_vars
    PROVE  RestoredSoFar'
<1>. SUFFICES ASSUME RestoringAll'
              PROVE  /\ end' = Lesser(ChunkOffset(opts', chunk'), opts'.end)
                     /\ \A c \in AffectedChunks(opts', file_size') :
                           c < chunk' => IsRestored(c)'
  BY DEF RestoredSoFar, RestoringAll
<1>1. CASE \E o \in Options : Started(o)
  <2>1. PICK o \in Options : Started(o)
    BY <1>1
  <2>2. /\ o \in CommandLines /\ Valid(o) /\ opts' = o /\ chunk' = o.index
        /\ end' = 0 /\ o.mod = 1 /\ o.start = 0 /\ file_size' = Size(file)
    BY <2>1, CorruptFileAssumption DEF Started, RestoringAll
  <2>3. o.index = 0 /\ o.end \in Nat /\ o.chunk_size \in Nat
    BY <2>2, ValidOpts
  <2>4. ChunkOffset(o, 0) = 0
    BY <2>2, <2>3 DEF ChunkOffset
  <2>5. end' = Lesser(ChunkOffset(o, 0), o.end)
    BY <2>2, <2>3, <2>4 DEF Lesser
  <2>6. \A c \in AffectedChunks(o, Size(file)) : ~(c < 0)
    BY <2>2, AffectedType, FileDomain
  <2>. QED
    BY <2>2, <2>3, <2>5, <2>6
<1>2. CASE LoopAction /\ LoopStep /\ ValidChunk
  <2>1. /\ pc' = pc /\ opts' = opts /\ file_size' = file_size /\ writes' = writes
        /\ RestoringAll
    BY <1>2 DEF LoopStep, Looping, RestoringAll
  <2>2. RestoreChunk
    BY <1>2, <2>1, SkipEffect
       DEF LoopAction, RestoringAll, SnapshotChunk, CopyChunk, Flip, FlipNextChunk, InLoop
  <2>3. ASSUME NEW c, c = chunk
        PROVE  /\ end' = Lesser(ChunkOffset(opts, chunk'), opts.end)
               /\ IsRestored(c)'
    BY <2>1, <2>2, <2>3, ChunkIsRestored
  <2>4. ASSUME NEW c \in AffectedChunks(opts, file_size), c < chunk'
        PROVE  IsRestored(c)'
    <3>1. chunk' = chunk + 1 /\ chunk \in Nat
      BY <1>2, <2>1, <2>2, RestoreEffect DEF RestoringAll, ValidChunk
    <3>2. c \in Nat
      BY <1>2, AffectedType DEF ValidChunk, ToolInv, TypeOK
    <3>3. CASE c = chunk
      BY <2>3, <3>3
    <3>4. CASE c < chunk
      <4>1. IsRestored(c)
        BY <2>1, <2>4, <3>4 DEF RestoredSoFar, RestoringAll
      <4>. QED
        BY <2>1, <2>2, <2>4, <3>4, <4>1, ChunkStaysRestored DEF RestoringAll
    <3>. QED
      BY <2>4, <3>1, <3>2, <3>3, <3>4
  <2>5. end' = Lesser(ChunkOffset(opts, chunk'), opts.end)
    BY <2>3
  <2>. QED
    BY <2>1, <2>4, <2>5
<1>3. CASE UNCHANGED vars
  BY <1>3 DEF vars, loop, RestoredSoFar, RestoringAll, IsRestored
<1>. QED
  BY <1>1, <1>2, <1>3, NextCases
     DEF RestoringAll, NotStarted, Ended, DatabaseWrites

LEMMA StepRestoresAreExact ==
    ASSUME ToolInv, RestoreInv, BytesAreInPlace', [Next]_vars
    PROVE  RestoresAreExact'
<1>. SUFFICES ASSUME writes' = 0, RestoredAll', opts'.mod = 1, opts'.start = 0
              PROVE  RolledBack'
  BY DEF RestoresAreExact, BytesAreInPlace
<1>1. CASE Ended
  <2>1. /\ RestoringAll /\ snapshots' = snapshots /\ chunk >= ChunkCount(opts, file_size)
        /\ file' = file /\ opts' = opts /\ file_size' = file_size
    BY <1>1 DEF Ended, RestoredAll, RestoringAll, ToolInv, RunIsValid
  <2>2. /\ opts \in CommandLines /\ Valid(opts) /\ file_size \in Nat /\ chunk \in Nat
    BY <2>1 DEF RestoringAll, ToolInv, TypeOK, RunIsValid
  <2>3. ASSUME NEW c \in AffectedChunks(opts, file_size) PROVE IsRestored(c)
    <3>1. c < chunk
      BY <2>1, <2>2, AffectedType, CountType
    <3>. QED
      BY <2>1, <3>1 DEF RestoreInv, RestoredSoFar, RestoringAll
  <2>. QED
    BY <2>1, <2>3 DEF RolledBack, IsRestored
<1>2. CASE UNCHANGED vars
  BY <1>2 DEF vars, RestoreInv, RestoresAreExact, RestoredAll, RolledBack, IsRestored
<1>. QED
  BY <1>1, <1>2, NextCases
     DEF RestoredAll, NotStarted, Started, Modes, LoopStep, Looping, DatabaseWrites

LEMMA StepRestoreInv ==
    ASSUME ToolInv, RestoreInv, [Next]_vars
    PROVE  RestoreInv'
<1>1. BytesAreInPlace'
  BY StepInPlace DEF RestoreInv
<1>2. RestoredSoFar'
  BY StepRestoredSoFar DEF RestoreInv
<1>3. RestoresAreExact'
  BY <1>1, StepRestoresAreExact
<1>. QED
  BY <1>1, <1>2, <1>3 DEF RestoreInv

LEMMA InitRestoreInv == Init => RestoreInv
<1>. SUFFICES ASSUME Init PROVE RestoreInv
  OBVIOUS
<1>1. PICK n \in Sizes : file = [i \in 0 .. n - 1 |-> [data |-> i, flips |-> {}]]
  BY DEF Init
<1>2. \A i \in DOMAIN file : file[i].data = i
  BY <1>1
<1>3. DOMAIN snapshots = {} /\ pc = "idle" /\ exit = "none"
  BY DEF Init
<1>. QED
  BY <1>2, <1>3
     DEF RestoreInv, BytesAreInPlace, RestoredSoFar, RestoresAreExact, RestoredAll

\* Snapshots go back where they were taken, and a restore of every chunk from
\* the start of the file brings every snapshotted chunk back.
THEOREM SnapshotsGoBack == Spec => []RestoresAreExact
<1>1. Init => RestoreInv
  BY InitRestoreInv
<1>2. ToolInv /\ RestoreInv /\ [Next]_vars => RestoreInv'
  BY StepRestoreInv
<1>3. RestoreInv => RestoresAreExact
  BY DEF RestoreInv
<1>. QED
  BY <1>1, <1>2, <1>3, ToolInvariant, PTL DEF Spec

-----------------------------------------------------------------------------
(* Bitflips. *)

\* Where a bit stands among the bits of the file, and the next one to flip.
BitPosition(q) == q[1] * ByteBits + q[2]
NextBit == ChunkOffset(opts, chunk) * ByteBits + bit_offset

LEMMA FlippedType ==
    ASSUME ToolInv
    PROVE  /\ IsFiniteSet(Flipped)
           /\ \A q \in Flipped : q[1] \in Nat /\ q[2] \in Int /\ BitPosition(q) \in Int
<1>1. Size(before) \in Nat /\ DOMAIN before = 0 .. Size(before) - 1
  BY DEF ToolInv, TypeOK, IsFile
<1>2. ByteBits \in Nat \ {0}
  BY ByteBitsType
<1>3. IsFiniteSet(DOMAIN before) /\ IsFiniteSet(Bits)
  <2>1. 0 \in Int /\ Size(before) - 1 \in Int /\ ByteBits - 1 \in Int
    BY <1>1, <1>2
  <2>. QED
    BY <1>1, <2>1, FS_Interval DEF Bits
<1>4. IsFiniteSet((DOMAIN before) \X Bits)
  BY <1>3, FS_Product
<1>5. Flipped \subseteq (DOMAIN before) \X Bits
  BY DEF Flipped
<1>6. IsFiniteSet(Flipped)
  BY <1>4, <1>5, FS_Subset
<1>7. ASSUME NEW q \in Flipped
      PROVE  q[1] \in Nat /\ q[2] \in Int /\ BitPosition(q) \in Int
  <2>1. q[1] \in DOMAIN before /\ q[2] \in Bits
    BY <1>5
  <2>2. q[1] \in Nat /\ q[2] \in Int
    BY <1>1, <1>2, <2>1 DEF Bits
  <2>3. q[1] * ByteBits \in Int
    BY <1>2, <2>2
  <2>. QED
    BY <2>2, <2>3 DEF BitPosition
<1>. QED
  BY <1>6, <1>7

\* The bit that Flip flips, in its byte and in the file.
LEMMA FlippedBit ==
    ASSUME ToolInv, Flip
    PROVE  /\ bit_offset \in Nat
           /\ bit_offset % ByteBits \in Bits
           /\ BitPosition(<<Position, bit_offset % ByteBits>>) = NextBit
           /\ writes = 0 => bit_offset <= OffMax
<1>. DEFINE start == ChunkOffset(opts, chunk)
            bit == bit_offset % ByteBits
            n == ByteOffset
<1>1. n \in Nat /\ Looping /\ n < ChunkEnd(opts, chunk, file_size) - start
  BY FlipEffect
<1>2. ValidChunk
  BY <1>1, LoopChunk DEF Looping
<1>3. /\ start \in Nat /\ ChunkEnd(opts, chunk, file_size) \in Nat
      /\ ChunkEnd(opts, chunk, file_size) <= file_size
      /\ file_size \in Nat /\ bit_offset \in Int
  BY <1>2 DEF ValidChunk, ToolInv, TypeOK
<1>4. ByteBits \in Nat \ {0}
  BY ByteBitsType
<1>5. bit \in 0 .. ByteBits - 1 /\ bit_offset = ByteBits * n + bit
  BY <1>3, <1>4, DivMod DEF ByteOffset
<1>6. Position = start + n
  BY DEF Position
<1>. HIDE DEF start, bit, n
<1>7. n + 1 <= file_size
  BY <1>1, <1>3
<1>8. ByteBits * n \in Nat /\ start * ByteBits \in Nat /\ ByteBits * n = n * ByteBits
  BY <1>1, <1>3, <1>4
<1>9. bit_offset \in Nat
  BY <1>4, <1>5, <1>8
<1>10. (start + n) * ByteBits = start * ByteBits + n * ByteBits
  BY <1>1, <1>3, <1>4
<1>11. BitPosition(<<Position, bit>>) = NextBit
  <2>1. BitPosition(<<Position, bit>>) = (start + n) * ByteBits + bit
    BY <1>6 DEF BitPosition
  <2>2. NextBit = start * ByteBits + bit_offset
    BY DEF NextBit, start
  <2>. QED
    BY <1>4, <1>5, <1>8, <1>10, <2>1, <2>2
<1>12. writes = 0 => bit_offset <= OffMax
  <2>. SUFFICES ASSUME writes = 0 PROVE bit_offset <= OffMax
    OBVIOUS
  <2>1. file_size \in Sizes
    BY <1>1, FlipEffect DEF ToolInv, SizeIsKept
  <2>2. file_size * ByteBits <= OffMax /\ OffMax \in Int
    BY <2>1, CorruptFileAssumption
  <2>3. (n + 1) * ByteBits <= file_size * ByteBits
    BY <1>1, <1>3, <1>4, <1>7, ProductMonotone
  <2>4. (n + 1) * ByteBits = n * ByteBits + ByteBits
    BY <1>1, <1>4, ProductSucc
  <2>5. file_size * ByteBits \in Int
    BY <1>3, <1>4
  <2>. QED
    BY <1>4, <1>5, <1>8, <2>2, <2>3, <2>4, <2>5
<1>. QED
  BY <1>4, <1>5, <1>9, <1>11, <1>12 DEF bit, Bits

\* It is flipped for the first time, and no other bit is.
LEMMA FlipAddsBit ==
    ASSUME ToolInv, BitflipInv, Flip, writes = 0, NEW z,
           z = <<Position, bit_offset % ByteBits>>
    PROVE  /\ z \notin Flipped
           /\ Flipped' = Flipped \cup {z}
           /\ BitPosition(z) = NextBit
<1>. DEFINE bit == bit_offset % ByteBits
<1>1. /\ pc = "bitflip" /\ Looping
      /\ Position \in DOMAIN file
      /\ buf' = Xor(file[Position], bit)
      /\ WritesInChunk([k \in {0} |-> buf'], Position)
  BY FlipEffect
<1>2. ValidChunk
  BY <1>1, LoopChunk DEF Looping
<1>3. /\ bit_offset \in Nat /\ bit \in Bits /\ BitPosition(z) = NextBit
  BY FlippedBit
<1>4. z \notin Flipped
  <2>. SUFFICES ASSUME z \in Flipped PROVE FALSE
    OBVIOUS
  <2>1. BitPosition(z) < NextBit
    BY <1>1, <1>3 DEF BitflipInv, FlipsAreInOrder, BitPosition, NextBit
  <2>2. BitPosition(z) \in Int
    BY FlippedType
  <2>. QED
    BY <1>3, <2>1, <2>2
<1>. DEFINE b == [k \in {0} |-> buf']
<1>5. /\ ChunkIsWritten /\ IsOverlay(file', file, Position, b)
  BY <1>1, <1>2, WriteInChunk, OverlayOfWrite
<1>6. before' = before /\ DOMAIN before = DOMAIN file
  BY <1>1 DEF Looping, ToolInv, SizeIsKept
<1>7. file[Position] \in Bytes /\ Position \in Int
  BY <1>1, FileDomain
<1>8. file'[Position].flips = (file[Position].flips \ {bit}) \cup ({bit} \ file[Position].flips)
  <2>1. Position - Position = 0 /\ 0 \in DOMAIN b /\ b[0] = buf'
    BY <1>7
  <2>2. file'[Position] = buf'
    BY <1>1, <1>5, <2>1 DEF IsOverlay
  <2>. QED
    BY <1>1, <1>7, <2>2 DEF Xor, Bytes
<1>9. \A i \in DOMAIN file : i # Position => file'[i] = file[i]
  <2>1. \A i \in DOMAIN file : i \in Int
    BY FileDomain
  <2>2. \A i \in DOMAIN file : i # Position => i - Position \notin DOMAIN b
    BY <1>7, <2>1
  <2>. QED
    BY <1>5, <2>2 DEF IsOverlay
<1>. HIDE DEF b, bit
<1>10. ASSUME NEW q \in (DOMAIN before) \X Bits
       PROVE  q \in Flipped' <=> q \in Flipped \/ q = z
  <2>1. q = <<q[1], q[2]>> /\ q[1] \in DOMAIN file
    BY <1>6
  <2>2. q \in Flipped <=> (q[2] \in file[q[1]].flips) # (q[2] \in before[q[1]].flips)
    BY DEF Flipped
  <2>3. q \in Flipped' <=> (q[2] \in file'[q[1]].flips) # (q[2] \in before[q[1]].flips)
    BY <1>6 DEF Flipped
  <2>4. q = z <=> q[1] = Position /\ q[2] = bit
    BY <2>1 DEF bit
  <2>5. CASE q[1] # Position
    BY <1>9, <2>1, <2>2, <2>3, <2>4, <2>5
  <2>6. CASE q[1] = Position /\ q[2] # bit
    BY <1>8, <2>2, <2>3, <2>4, <2>6
  <2>7. CASE q[1] = Position /\ q[2] = bit
    BY <1>4, <1>8, <2>2, <2>3, <2>4, <2>7
  <2>. QED
    BY <2>5, <2>6, <2>7
<1>11. z \in (DOMAIN before) \X Bits
  BY <1>1, <1>3, <1>6 DEF bit
<1>12. Flipped \subseteq (DOMAIN before) \X Bits /\ Flipped' \subseteq (DOMAIN before) \X Bits
  BY <1>6 DEF Flipped
<1>. QED
  BY <1>3, <1>4, <1>10, <1>11, <1>12

\* A flip keeps the count, and the next one is further on or nowhere.
LEMMA FlipKeepsCount ==
    ASSUME ToolInv, BitflipInv, Flip
    PROVE  BitflipInv'
<1>1. /\ pc = "bitflip" /\ Looping /\ chunk' = chunk /\ bits_flipped' = bits_flipped + 1
  BY FlipEffect
<1>2. /\ pc' = pc /\ opts' = opts /\ writes' = writes
  BY <1>1 DEF Looping
<1>3. CASE writes # 0
  BY <1>2, <1>3 DEF BitflipInv, FlipsAreInOrder, BitflipsAreCounted
<1>4. CASE writes = 0
  <2>1. PICK z : z = <<Position, bit_offset % ByteBits>>
    OBVIOUS
  <2>2. z \notin Flipped /\ Flipped' = Flipped \cup {z} /\ BitPosition(z) = NextBit
    BY <1>4, <2>1, FlipAddsBit
  <2>3. IsFiniteSet(Flipped)
    BY FlippedType
  <2>4. bits_flipped = Cardinality(Flipped)
    BY <1>1, <1>4 DEF BitflipInv, BitflipsAreCounted
  <2>5. Cardinality(Flipped \cup {z}) = Cardinality(Flipped) + 1
    BY <2>2, <2>3, FS_AddElement
  <2>6. BitflipsAreCounted'
    BY <1>1, <2>2, <2>4, <2>5 DEF BitflipsAreCounted
  <2>7. ASSUME bit_offset' >= 0 PROVE bit_offset' \in Int /\ bit_offset < bit_offset'
    <3>1. PICK delta \in RandExpInt(opts.probability) :
             bit_offset' = bit_offset + Advance(delta)
      BY FlipEffect
    <3>2. bit_offset \in Nat /\ bit_offset <= OffMax
      BY <1>4, FlippedBit
    <3>3. OffMax \in Nat \ {0} /\ MaxGap \in Nat
      BY CorruptFileAssumption
    <3>4. delta = -OffMax - 1 \/ delta \in Nat
      BY <3>1, <3>3 DEF RandExpInt
    <3>. QED
      BY <2>7, <3>1, <3>2, <3>3, <3>4 DEF Advance
  <2>8. FlipsAreInOrder'
    <3>. SUFFICES ASSUME bit_offset' >= 0, NEW q \in Flipped'
                  PROVE  BitPosition(q) < NextBit'
      BY DEF FlipsAreInOrder, BitPosition, NextBit
    <3>1. bit_offset' \in Int /\ bit_offset < bit_offset' /\ bit_offset \in Nat
      BY <2>7, FlippedBit
    <3>2. ValidChunk
      BY <1>1, LoopChunk DEF Looping
    <3>3. ChunkOffset(opts, chunk) * ByteBits \in Int
      BY <3>2, ByteBitsType DEF ValidChunk
    <3>4. NextBit \in Int /\ NextBit' \in Int /\ NextBit < NextBit'
      BY <1>1, <1>2, <3>1, <3>3 DEF NextBit
    <3>5. q = z \/ q \in Flipped
      BY <2>2
    <3>6. CASE q = z
      BY <2>2, <3>4, <3>6
    <3>7. CASE q \in Flipped
      <4>1. BitPosition(q) < NextBit
        BY <1>1, <1>4, <3>1, <3>7 DEF BitflipInv, FlipsAreInOrder, BitPosition, NextBit
      <4>2. BitPosition(q) \in Int
        BY <3>7, FlippedType
      <4>. QED
        BY <3>4, <4>1, <4>2
    <3>. QED
      BY <3>5, <3>6, <3>7
  <2>. QED
    BY <2>6, <2>8 DEF BitflipInv
<1>. QED
  BY <1>3, <1>4

\* The next chunk begins no earlier than where this one ends.
LEMMA NextChunkKeepsOrder ==
    ASSUME ToolInv, BitflipInv, FlipNextChunk
    PROVE  BitflipInv'
<1>. DEFINE start == ChunkOffset(opts, chunk)
            next == ChunkOffset(opts, chunk')
            size == ChunkSize
<1>1. /\ pc = "bitflip" /\ Looping /\ file' = file /\ chunk' = chunk + opts.mod
      /\ bits_flipped' = bits_flipped /\ bit_offset' = bit_offset - size * ByteBits
  BY FlipNextChunkEffect
<1>2. /\ pc' = pc /\ opts' = opts /\ writes' = writes /\ before' = before
  BY <1>1 DEF Looping
<1>3. Flipped' = Flipped
  BY <1>1, <1>2 DEF Flipped
<1>4. BitflipsAreCounted'
  BY <1>1, <1>2, <1>3 DEF BitflipInv, BitflipsAreCounted
<1>5. ValidChunk
  BY <1>1, LoopChunk DEF Looping
<1>6. /\ opts \in CommandLines /\ Valid(opts) /\ chunk \in Nat /\ start \in Nat
      /\ bit_offset \in Int /\ size \in Nat /\ size <= opts.chunk_size
  <2>1. /\ start \in Nat /\ RegionEnd(opts, chunk) \in Nat
        /\ RegionEnd(opts, chunk) <= start + opts.chunk_size
        /\ ChunkEnd(opts, chunk, file_size) \in Nat
        /\ start < ChunkEnd(opts, chunk, file_size)
        /\ ChunkEnd(opts, chunk, file_size) <= RegionEnd(opts, chunk)
        /\ opts \in CommandLines /\ Valid(opts) /\ chunk \in Nat
    BY <1>5 DEF ValidChunk
  <2>2. opts.chunk_size \in Nat
    BY <2>1, ValidOpts
  <2>3. size = ChunkEnd(opts, chunk, file_size) - start
    BY DEF ChunkSize
  <2>4. bit_offset \in Int
    BY DEF ToolInv, TypeOK
  <2>. HIDE DEF start, size
  <2>. QED
    BY <2>1, <2>2, <2>3, <2>4
<1>7. opts.chunk_size \in Nat /\ opts.mod \in Nat /\ opts.mod > 0
  BY <1>6, ValidOpts
<1>8. chunk' \in Nat /\ chunk < chunk'
  BY <1>1, <1>6, <1>7
<1>9. start + opts.chunk_size <= next /\ next \in Nat
  BY <1>6, <1>8, OffsetGrows, OffsetType
<1>. HIDE DEF start, next, size
<1>10. start + size <= next
  BY <1>6, <1>7, <1>9
<1>11. (start + size) * ByteBits <= next * ByteBits
  BY <1>6, <1>9, <1>10, ByteBitsType, ProductMonotone
<1>12. /\ (start + size) * ByteBits = start * ByteBits + size * ByteBits
       /\ start * ByteBits \in Nat /\ size * ByteBits \in Nat /\ next * ByteBits \in Nat
  BY <1>6, <1>9, ByteBitsType
<1>13. NextBit = start * ByteBits + bit_offset /\ NextBit' = next * ByteBits + bit_offset'
  BY <1>2, ByteBitsType DEF NextBit, start, next
<1>14. NextBit \in Int /\ NextBit' \in Int /\ NextBit <= NextBit'
  BY <1>1, <1>6, <1>11, <1>12, <1>13
<1>15. bit_offset' >= 0 => bit_offset >= 0
  BY <1>1, <1>6, <1>12
<1>16. FlipsAreInOrder'
  <2>. SUFFICES ASSUME writes = 0, bit_offset' >= 0, NEW q \in Flipped
                PROVE  BitPosition(q) < NextBit'
    BY <1>2, <1>3 DEF FlipsAreInOrder, BitPosition, NextBit
  <2>1. BitPosition(q) < NextBit
    BY <1>1, <1>15 DEF BitflipInv, FlipsAreInOrder, BitPosition, NextBit
  <2>2. BitPosition(q) \in Int
    BY FlippedType
  <2>. QED
    BY <1>14, <2>1, <2>2
<1>. QED
  BY <1>4, <1>16 DEF BitflipInv

\* A run begins with no bit flipped.
LEMMA StartBitflipInv ==
    ASSUME ToolInv, NEW o \in Options, Started(o)
    PROVE  BitflipInv'
<1>1. /\ pc' = o.mode /\ o.mode # "idle" /\ before' = file /\ file' = file
      /\ bits_flipped' = 0
  BY DEF Started, Modes
<1>2. Flipped' = {}
  BY <1>1 DEF Flipped
<1>3. Cardinality({}) = 0
  BY FS_EmptySet
<1>. QED
  BY <1>1, <1>2, <1>3 DEF BitflipInv, FlipsAreInOrder, BitflipsAreCounted

LEMMA StepBitflipInv ==
    ASSUME ToolInv, BitflipInv, [Next]_vars
    PROVE  BitflipInv'
<1>1. CASE \E o \in Options : NotStarted(o)
  BY <1>1 DEF NotStarted, BitflipInv, FlipsAreInOrder, BitflipsAreCounted
<1>2. CASE \E o \in Options : Started(o)
  BY <1>2, StartBitflipInv
<1>3. CASE LoopAction /\ LoopStep
  <2>1. CASE pc # "bitflip"
    BY <1>3, <2>1
       DEF LoopStep, Looping, BitflipInv, FlipsAreInOrder, BitflipsAreCounted
  <2>2. CASE Flip
    BY <2>2, FlipKeepsCount
  <2>3. CASE FlipNextChunk
    BY <2>3, NextChunkKeepsOrder
  <2>. QED
    BY <1>3, <2>1, <2>2, <2>3
       DEF LoopAction, Skip, SnapshotChunk, RestoreChunk, CopyChunk, InLoop
<1>4. CASE Ended
  <2>1. pc = opts.mode
    BY <1>4 DEF Ended, ToolInv, RunIsValid
  <2>2. Flipped' = Flipped
    BY <1>4 DEF Ended, Flipped
  <2>. QED
    BY <1>4, <2>1, <2>2 DEF Ended, BitflipInv, FlipsAreInOrder, BitflipsAreCounted
<1>5. CASE DatabaseWrites
  BY <1>5 DEF DatabaseWrites, BitflipInv, FlipsAreInOrder, BitflipsAreCounted
<1>6. CASE UNCHANGED vars
  <2>1. Flipped' = Flipped
    BY <1>6 DEF vars, Flipped
  <2>. QED
    BY <1>6, <2>1 DEF vars, loop, flipper, BitflipInv, FlipsAreInOrder, BitflipsAreCounted
<1>. QED
  BY <1>1, <1>2, <1>3, <1>4, <1>5, <1>6, NextCases

\* corrupt_bitflip flips each bit at most once: the count it prints is the
\* number of bits that differ, unless the database writes too.
THEOREM FlipsAreCounted == Spec => []BitflipsAreCounted
<1>1. Init => BitflipInv
  BY DEF Init, DefaultOpts, BitflipInv, FlipsAreInOrder, BitflipsAreCounted
<1>2. ToolInv /\ BitflipInv /\ [Next]_vars => BitflipInv'
  BY StepBitflipInv
<1>3. BitflipInv => BitflipsAreCounted
  BY DEF BitflipInv
<1>. QED
  BY <1>1, <1>2, <1>3, ToolInvariant, PTL DEF Spec
============================================================================
