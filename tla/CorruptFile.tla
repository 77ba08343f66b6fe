---------------------------- MODULE CorruptFile ----------------------------
(***************************************************************************)
(* The file corrupter of the file nemesis, resources/corrupt-file.c, run   *)
(* again and again with different options against one file, while the      *)
(* database that owns the file may write it too.                           *)
(*                                                                         *)
(* A byte is named by where it first stood in the file (data) and by which *)
(* of its bits have been flipped since (flips); a byte the database writes *)
(* is Fresh, a byte in a hole the system fills with zeros is Hole.  Each   *)
(* step of the tool handles one chunk, or one bit.                         *)
(***************************************************************************)
EXTENDS Integers, FiniteSets

CONSTANTS Options,     \* the command lines the tool may be run with
          Sizes,       \* sizes the file may have
          ByteBits,    \* bits in a byte: 8 in the code
          OffMax,      \* OFF_MAX
          MaxGap,      \* bound: the longest distance rand_exp_int rolls
          MaxRuns,     \* bound: how often the tool is run
          MaxWrites,   \* bound: how often the database changes the file
          IoErrors     \* whether system calls may fail

Modes == {"copy", "snapshot", "restore", "bitflip"}

\* opts_t, as parse_opt may fill it.
CommandLines ==
    [file : {"none", "absent", "present"}, mode : Modes \cup {"none"},
     start : Int, end : Int, chunk_size : Int, index : Nat, mod : Nat,
     probability : Int, clear_snapshots : BOOLEAN]

\* An off_t counts the bits of a file.
ASSUME CorruptFileAssumption ==
    /\ Options \subseteq CommandLines
    /\ Sizes \subseteq Nat
    /\ ByteBits \in Nat \ {0}
    /\ \A n \in Sizes : n * ByteBits <= OffMax
    /\ OffMax \in Nat \ {0}
    /\ MaxGap \in Nat
    /\ MaxRuns \in Nat
    /\ MaxWrites \in Nat
    /\ IoErrors \in BOOLEAN

VARIABLES file,          \* position -> byte
          snapshots,     \* files of SNAPSHOT_DIR: <<start, end>> -> bytes
          pc,            \* "idle", or the mode of the loop that is running
          opts,          \* the options of the latest run
          file_size,     \* fstat's answer when that run started
          chunk,         \* the chunk it will handle next
          end,           \* `end' of corrupt_restore, kept between chunks
          bit_offset,    \* of corrupt_bitflip
          buf,           \* the byte it read or wrote last
          bits_flipped,  \* the statistic it prints
          exit,          \* the latest exit status
          before,        \* auxiliary: the file when the latest run started
          runs, writes   \* counters behind MaxRuns and MaxWrites

flipper == <<bit_offset, buf, bits_flipped>>
loop    == <<chunk, end, flipper>>
vars    == <<file, snapshots, pc, opts, file_size, loop, exit, before, runs, writes>>

-----------------------------------------------------------------------------
(* The file system.  External: copy_file_range, pread, pwrite. *)

Bits       == 0 .. ByteBits - 1
Fresh      == [data |-> -1, flips |-> {}]
Hole       == [data |-> -2, flips |-> {}]
Bytes      == [data : Int, flips : SUBSET Bits]
Lesser(a, b)  == IF a <= b THEN a ELSE b
Greater(a, b) == IF a <= b THEN b ELSE a

Size(f) == Cardinality(DOMAIN f)

\* Up to length bytes of f from offset on: fewer at the end of the file.
Read(f, offset, length) ==
    [k \in 0 .. Lesser(length, Size(f) - offset) - 1 |-> f[offset + k]]

\* f with bytes written at offset; a gap before them is filled with zeros.
WriteAt(f, offset, bytes) ==
    LET n == Size(bytes) IN
    [i \in DOMAIN f \cup (IF n = 0 THEN {} ELSE 0 .. offset + n - 1) |->
        IF i - offset \in DOMAIN bytes THEN bytes[i - offset]
        ELSE IF i \in DOMAIN f THEN f[i] ELSE Hole]

-----------------------------------------------------------------------------
(* Options and chunks. *)

\* default_opts.  Nothing is assigned to file.
DefaultOpts ==
    [file |-> "none", mode |-> "none", start |-> 0, end |-> OffMax,
     chunk_size |-> 1024 * 1024, index |-> 0, mod |-> 1, probability |-> 100,
     clear_snapshots |-> FALSE]

\* validate_opts.  Probabilities are in percent.
Valid(o) ==
    /\ o.start >= 0 /\ o.end >= 0 /\ o.end <= OffMax /\ o.start <= o.end
    /\ o.index < o.mod
    /\ o.probability \in 0 .. 100
    /\ o.chunk_size > 0

\* The offset of a chunk.
ChunkOffset(o, c) == o.start + c * o.chunk_size

\* How many chunks the region has in a file of this size, a short one included.
ChunkCount(o, size) ==
    LET region == Lesser(o.end, size) - o.start
    IN  IF region < 0 THEN 0
        ELSE region \div o.chunk_size
             + (IF region % o.chunk_size # 0 THEN 1 ELSE 0)

\* The end of a chunk in the region.
RegionEnd(o, c) == Lesser(ChunkOffset(o, c) + o.chunk_size, o.end)

\* Mutant: the end of the region is forgotten.
ChunkEndInFile(o, c, size) == Lesser(ChunkOffset(o, c) + o.chunk_size, size)

\* The end of a chunk in the region and the file.
ChunkEnd(o, c, size) == Lesser(RegionEnd(o, c), size)

\* The chunks the loops visit: index, index + mod, index + 2 * mod ...
AffectedChunks(o, size) ==
    {c \in 0 .. ChunkCount(o, size) - 1 : c % o.mod = o.index}

Extent(o, c, size) == ChunkOffset(o, c) .. ChunkEnd(o, c, size) - 1

\* Mutant: snapshots are told apart by their end only.
SnapshotPathByEnd(start, finish) == <<0, finish>>

\* The name of the file that holds a snapshot.
SnapshotPath(start, finish) == <<start, finish>>

-----------------------------------------------------------------------------
(* Running the tool. *)

Init ==
    /\ \E n \in Sizes : file = [i \in 0 .. n - 1 |-> [data |-> i, flips |-> {}]]
    /\ snapshots = <<>>
    /\ pc = "idle"
    /\ opts = DefaultOpts
    /\ file_size = 0
    /\ chunk = 0 /\ end = 0 /\ bit_offset = 0 /\ buf = Hole /\ bits_flipped = 0
    /\ exit = "none"
    /\ before = file
    /\ runs = 0 /\ writes = 0

\* rand_exp_int: any distance.  With rate 0 the infinite result is converted to
\* an off_t, which is undefined: x86 answers OFF_MIN, others saturate.
RandExpInt(probability) ==
    IF probability = 0 THEN {-OffMax - 1, OffMax} ELSE 0 .. MaxGap

\* The options are parsed and remembered.
Parse(o) ==
    /\ pc = "idle"
    /\ runs < MaxRuns
    /\ runs' = runs + 1
    /\ opts' = o
    /\ before' = file
    /\ UNCHANGED <<file, writes>>

\* Exit with a status, after free(opts.file).  Without FILE that pointer was
\* never assigned, and what free does with it is undefined.
Exits(o, status) ==
    exit' \in {status} \cup (IF o.file = "none" THEN {"crash"} ELSE {})

\* argp's usage error, when there is no FILE.
Usage(o) ==
    /\ Parse(o)
    /\ o.file = "none" /\ ~o.clear_snapshots
    /\ exit' = "EXIT_ARGS"
    /\ UNCHANGED <<snapshots, pc, file_size, loop>>

Parsed(o) == Parse(o) /\ (o.file # "none" \/ o.clear_snapshots)

\* validate_opts fails.
Reject(o) ==
    /\ Parsed(o)
    /\ ~Valid(o)
    /\ Exits(o, "EXIT_ARGS")
    /\ UNCHANGED <<snapshots, pc, file_size, loop>>

\* clear_snapshots fails, having removed some of them.
ClearFails(o) ==
    /\ Parsed(o)
    /\ Valid(o)
    /\ IoErrors /\ o.clear_snapshots
    /\ \E kept \in SUBSET DOMAIN snapshots :
          snapshots' = [p \in kept |-> snapshots[p]]
    /\ Exits(o, "EXIT_IO")
    /\ UNCHANGED <<pc, file_size, loop>>

Accepts(o) ==
    /\ Parsed(o)
    /\ Valid(o)
    /\ snapshots' = IF o.clear_snapshots THEN <<>> ELSE snapshots

\* Nothing to corrupt, or the file cannot be opened.
RunNothing(o) ==
    /\ Accepts(o)
    /\ o.mode = "none" \/ o.file # "present" \/ IoErrors
    /\ Exits(o, IF o.mode = "none" THEN "EXIT_OK" ELSE "EXIT_IO")
    /\ UNCHANGED <<pc, file_size, loop>>

\* The snapshot directory, or one above it, is not there and cannot be made.
MkdirFails(o) ==
    /\ Accepts(o)
    /\ IoErrors /\ o.mode = "snapshot" /\ o.file = "present"
    /\ Exits(o, "EXIT_IO")
    /\ UNCHANGED <<pc, file_size, loop>>

\* corrupt_bitflip, up to its loop: the first bit to flip is rolled.
StartFlipper(o) ==
    /\ IF o.mode = "bitflip" THEN bit_offset' \in RandExpInt(o.probability)
                             ELSE bit_offset' = 0
    /\ buf' = Hole
    /\ bits_flipped' = 0

\* corrupt, up to the loop of its mode.
Start(o) ==
    /\ Accepts(o)
    /\ o.mode # "none" /\ o.file = "present"
    /\ pc' = o.mode
    /\ file_size' = Size(file)
    /\ chunk' = o.index
    /\ end' = 0
    /\ StartFlipper(o)
    /\ exit' = "none"

Finish(status) ==
    /\ pc' = "idle"
    /\ exit' = status
    /\ UNCHANGED <<file, snapshots, opts, file_size, loop, before, runs, writes>>

\* Mutant: the loops end at the last chunk exactly.
LoopEndsExactly ==
    /\ pc # "idle"
    /\ chunk = ChunkCount(opts, file_size)
    /\ Finish("EXIT_OK")

\* The end of each of the four loops.
LoopEnds ==
    /\ pc # "idle"
    /\ chunk >= ChunkCount(opts, file_size)
    /\ Finish("EXIT_OK")

\* The body of the loop of this mode, for a chunk of the file.
InLoop(mode) ==
    /\ pc = mode
    /\ chunk < ChunkCount(opts, file_size)
    /\ UNCHANGED <<pc, opts, file_size, exit, before, runs, writes>>

NextChunk == chunk' = chunk + opts.mod

\* probability < drand48()
Skip ==
    /\ InLoop("restore") \/ InLoop("copy")
    /\ opts.probability < 100
    /\ NextChunk
    /\ UNCHANGED <<file, snapshots, end, flipper>>

-----------------------------------------------------------------------------
(* Snapshots. *)

\* corrupt_snapshot: unlink the old snapshot, copy what the file has of the
\* chunk now.
SnapshotChunk ==
    /\ InLoop("snapshot")
    /\ LET start  == ChunkOffset(opts, chunk)
           finish == RegionEnd(opts, chunk)
           path   == SnapshotPath(start, finish)
       IN  snapshots' = [p \in DOMAIN snapshots \cup {path} |->
                            IF p = path THEN Read(file, start, finish - start)
                                        ELSE snapshots[p]]
    /\ NextChunk
    /\ UNCHANGED <<file, end, flipper>>

\* corrupt_restore.  The end of the chunk is computed from the end of the chunk
\* before it, not from its start; a snapshot that is not there is passed over.
RestoreChunk ==
    /\ InLoop("restore")
    /\ end' = Lesser(end + opts.chunk_size, opts.end)
    /\ LET start == ChunkOffset(opts, chunk)
           path  == SnapshotPath(start, end')
       IN  file' = IF path \in DOMAIN snapshots
                   THEN WriteAt(file, start, Read(snapshots[path], 0, end' - start))
                   ELSE file
    /\ NextChunk
    /\ UNCHANGED <<snapshots, flipper>>

-----------------------------------------------------------------------------
(* Copies. *)

\* rand_int: what a roll may give, for counts up to 2^31.
RandInt(max) == IF 0 < max THEN 0 .. max - 1 ELSE {0}

\* Mutant: any chunk but the destination will do.
SourceChunksAny(o, dest, size) ==
    {c \in RandInt(ChunkCount(o, size)) : ChunkOffset(o, c) # dest}

\* The chunks rand_source_offset may settle on, by rolling until it likes one.
SourceChunks(o, dest, size) ==
    {c \in RandInt(ChunkCount(o, size)) :
        IF o.mod = 1 THEN ChunkOffset(o, c) # dest ELSE c % o.mod # o.index}

\* Otherwise rand_source_offset returns -1 and the chunk is left alone.
CanCopy(o, size) == ChunkCount(o, size) >= 2

\* corrupt_copy.  Both ends of the copy are in the one file, and the kernel
\* refuses ranges that overlap; different chunks never do.
CopyChunk ==
    /\ InLoop("copy")
    /\ LET start  == ChunkOffset(opts, chunk)
           length == ChunkEnd(opts, chunk, file_size) - start
       IN  IF CanCopy(opts, file_size)
           THEN \E c \in SourceChunks(opts, start, file_size) :
                    file' = WriteAt(file, start,
                                    Read(file, ChunkOffset(opts, c), length))
           ELSE file' = file
    /\ NextChunk
    /\ UNCHANGED <<snapshots, end, flipper>>

-----------------------------------------------------------------------------
(* Bitflips.  bit_offset counts as if the affected chunks were contiguous. *)

ByteOffset == bit_offset \div ByteBits
ChunkSize  == ChunkEnd(opts, chunk, file_size) - ChunkOffset(opts, chunk)

\* byte with one bit flipped.
Xor(byte, bit) == [byte EXCEPT !.flips = (@ \ {bit}) \cup ({bit} \ @)]

\* Mutant: an interval of zero stays zero.
AdvanceAnyway(delta) == delta

\* The next inter-arrival interval: zero is made one.
Advance(delta) == IF delta = 0 THEN 1 ELSE delta

\* One flip in the current chunk: pread, xor, pwrite.  Beyond the end of the
\* file pread reads nothing, and buf keeps the byte it held.
Flip ==
    /\ InLoop("bitflip")
    /\ ByteOffset >= 0 /\ ByteOffset < ChunkSize
    /\ LET position == ChunkOffset(opts, chunk) + ByteOffset
           byte     == IF position \in DOMAIN file THEN file[position] ELSE buf
       IN  /\ buf' = Xor(byte, bit_offset % ByteBits)
           /\ file' = WriteAt(file, position, [k \in {0} |-> buf'])
    /\ bits_flipped' = bits_flipped + 1
    /\ \E delta \in RandExpInt(opts.probability) :
          bit_offset' = bit_offset + Advance(delta)
    /\ UNCHANGED <<snapshots, chunk, end>>

\* pread at a negative offset: only after an undefined roll.
FlipNowhere ==
    /\ pc = "bitflip"
    /\ chunk < ChunkCount(opts, file_size)
    /\ ByteOffset < 0
    /\ Finish("EXIT_IO")

\* The next flip is beyond this chunk.
FlipNextChunk ==
    /\ InLoop("bitflip")
    /\ ByteOffset >= ChunkSize
    /\ bit_offset' = bit_offset - ChunkSize * ByteBits
    /\ NextChunk
    /\ UNCHANGED <<file, snapshots, end, buf, bits_flipped>>

-----------------------------------------------------------------------------
(* Failures, and the database. *)

\* A system call fails in a loop.  A snapshot may then be missing (unlinked and
\* not created) or empty (created and not copied).
IoFails ==
    /\ IoErrors
    /\ pc # "idle"
    /\ chunk < ChunkCount(opts, file_size)
    /\ LET path == SnapshotPath(ChunkOffset(opts, chunk), RegionEnd(opts, chunk))
       IN  \/ snapshots' = snapshots
           \/ /\ pc = "snapshot"
              /\ snapshots' = [p \in DOMAIN snapshots \ {path} |-> snapshots[p]]
           \/ /\ pc = "snapshot"
              /\ snapshots' = [p \in DOMAIN snapshots \cup {path} |->
                                  IF p = path THEN <<>> ELSE snapshots[p]]
    /\ pc' = "idle"
    /\ exit' = "EXIT_IO"
    /\ UNCHANGED <<file, opts, file_size, loop, before, runs, writes>>

\* The database overwrites a byte, truncates the file or appends to it.
Database ==
    /\ writes < MaxWrites
    /\ writes' = writes + 1
    /\ \/ \E i \in DOMAIN file : file' = [file EXCEPT ![i] = Fresh]
       \/ \E n \in Sizes :
             file' = [i \in 0 .. n - 1 |-> IF i \in DOMAIN file THEN file[i] ELSE Fresh]
    /\ UNCHANGED <<snapshots, pc, opts, file_size, loop, exit, before, runs>>

Tool ==
    \/ LoopEnds \/ Skip \/ SnapshotChunk \/ RestoreChunk \/ CopyChunk
    \/ Flip \/ FlipNowhere \/ FlipNextChunk

Next ==
    \/ \E o \in Options :
          \/ Usage(o) \/ Reject(o) \/ ClearFails(o)
          \/ RunNothing(o) \/ MkdirFails(o) \/ Start(o)
    \/ Tool
    \/ IoFails
    \/ Database

Spec == Init /\ [][Next]_vars

\* A started tool keeps running.
FairSpec == Spec /\ WF_vars(Tool)
============================================================================
