----------------------- MODULE CorruptFileProperties -----------------------
(* What the users of corrupt-file.c, and its comments, expect of it. *)
EXTENDS CorruptFile

Paths == (0 .. OffMax) \X (0 .. OffMax)

\* A file or a snapshot has no gaps.
IsFile(f) == /\ Size(f) \in Nat
             /\ DOMAIN f = 0 .. Size(f) - 1
             /\ \A i \in DOMAIN f : f[i] \in Bytes

(* Every variable has its type. *)
TypeOK ==
    /\ IsFile(file) /\ IsFile(before)
    /\ DOMAIN snapshots \subseteq Paths
    /\ \A p \in DOMAIN snapshots : IsFile(snapshots[p])
    /\ pc \in {"idle"} \cup Modes
    /\ opts \in CommandLines
    /\ file_size \in Nat
    /\ chunk \in Nat
    /\ end \in 0 .. OffMax
    /\ bit_offset \in Int
    /\ buf \in Bytes
    /\ bits_flipped \in Nat
    /\ exit \in {"none", "EXIT_OK", "EXIT_ARGS", "EXIT_IO", "crash"}
    /\ runs \in 0 .. MaxRuns
    /\ writes \in 0 .. MaxWrites

\* The bytes of the affected chunks, whatever size the file has.
AffectedBytes ==
    UNION {ChunkOffset(opts, c) .. RegionEnd(opts, c) - 1 :
              c \in AffectedChunks(opts, file_size)}

(* corrupt_copy, corrupt_restore and corrupt_bitflip change no byte outside  *)
(* the chunks index, index + mod, ... of the region [start, end), even while *)
(* the database resizes the file; and unless it does, they keep its size.    *)
OnlyAffectedBytes ==
    [][writes' = writes =>
          /\ \A i \in DOMAIN file \cap DOMAIN file' :
                file'[i] # file[i] => i \in AffectedBytes
          /\ writes = 0 => DOMAIN file' = DOMAIN file]_vars

\* Where the bytes that corrupt_copy puts k bytes into a chunk may come from.
CleanSources(k) ==
    {ChunkOffset(opts, c) + k : c \in 0 .. ChunkCount(opts, file_size) - 1
                                      \ AffectedChunks(opts, file_size)}

(* With a modulus, what corrupt_copy writes is what chunks that this run never *)
(* touches held at the same offset: no corruption is copied on.                *)
CopiesAreClean ==
    (/\ pc = "copy" \/ (pc = "idle" /\ opts.mode = "copy" /\ exit = "EXIT_OK")
     /\ opts.mod > 1
     /\ writes = 0)
    => \A c \in AffectedChunks(opts, file_size) :
       \A i \in Extent(opts, c, file_size) :
          \E j \in {i} \cup CleanSources(i - ChunkOffset(opts, c)) :
             j \in DOMAIN before /\ file[i] = before[j]

\* The latest run was a restore of every affected chunk, and succeeded.
RestoredAll ==
    pc = "idle" /\ opts.mode = "restore" /\ exit = "EXIT_OK" /\ opts.probability = 100

\* An affected chunk that has a snapshot is as that snapshot.
IsRestored(c) ==
    LET start == ChunkOffset(opts, c)
        path  == SnapshotPath(start, RegionEnd(opts, c))
    IN  path \in DOMAIN snapshots =>
           \A k \in DOMAIN snapshots[path] : file[start + k] = snapshots[path][k]

RolledBack == \A c \in AffectedChunks(opts, file_size) : IsRestored(c)

(* However the options of the runs differ, and wherever a run fails, snapshots *)
(* put bytes back where they were taken, as long as nobody else moves them; and *)
(* with modulus 1 and start 0, corrupt_restore finds and copies back each chunk *)
(* that was snapshotted, the short last one too.                               *)
RestoresAreExact ==
    writes = 0 =>
       /\ (\A o \in Options : o.mode # "copy") => \A i \in DOMAIN file : file[i].data = i
       /\ RestoredAll /\ opts.mod = 1 /\ opts.start = 0 => RolledBack

(* nemesis/file.clj says of restore-file-chunks, for any modulus and start: *)
(* it "copies data from the most recently snapshotted chunks back into the  *)
(* file itself".                                                            *)
RestoreRollsBack == RestoredAll => RolledBack

\* The bits in which the file differs from what it was.
Flipped == {q \in (DOMAIN before) \X Bits :
               (q[2] \in file[q[1]].flips) # (q[2] \in before[q[1]].flips)}

(* corrupt_bitflip never flips a bit back: its count of flips is the number of *)
(* bits in which the file differs from what it was.                            *)
BitflipsAreCounted ==
    (/\ pc = "bitflip" \/ (pc = "idle" /\ opts.mode = "bitflip" /\ exit = "EXIT_OK")
     /\ writes = 0)
    => bits_flipped = Cardinality(Flipped)

-----------------------------------------------------------------------------
(* The inductive invariant behind them. *)

(* Loops run with valid options, and visit chunks of the right index.  *)
RunIsValid ==
    pc # "idle" => /\ opts \in Options /\ Valid(opts) /\ pc = opts.mode
                   /\ chunk % opts.mod = opts.index

(* Unless the database does, nobody changes the size of the file.  *)
SizeIsKept ==
    writes = 0 => /\ Size(file) \in Sizes
                  /\ DOMAIN before = DOMAIN file
                  /\ pc # "idle" => file_size = Size(file)

(* A snapshot holds no more than its name says, nor than the file had.  *)
SnapshotsFit ==
    \A p \in DOMAIN snapshots :
       /\ Size(snapshots[p]) <= p[2] - p[1]
       /\ writes = 0 => p[1] + Size(snapshots[p]) <= Size(file)

(* However corrupt_restore computes the end of a chunk, it is not too far.  *)
EndLags ==
    pc = "restore" => end <= ChunkOffset(opts, chunk) /\ end <= opts.end

(* What copies are made from is as it was.  *)
SourcesAreUntouched ==
    pc = "copy" /\ writes = 0 =>
       \A i \in DOMAIN file : i \in AffectedBytes \/ file[i] = before[i]

(* Bytes are where they first stood, and so are those of snapshots.  *)
BytesAreInPlace ==
    writes = 0 /\ (\A o \in Options : o.mode # "copy") =>
       /\ \A i \in DOMAIN file : file[i].data = i
       /\ \A p \in DOMAIN snapshots : \A k \in DOMAIN snapshots[p] :
             snapshots[p][k].data = p[1] + k

(* With modulus 1 and start 0 the end of a chunk is right, and the chunks that *)
(* were visited are restored.                                                  *)
RestoredSoFar ==
    (/\ pc = "restore" /\ writes = 0
     /\ opts.probability = 100 /\ opts.mod = 1 /\ opts.start = 0)
    => /\ end = Lesser(ChunkOffset(opts, chunk), opts.end)
       /\ \A c \in AffectedChunks(opts, file_size) : c < chunk => IsRestored(c)

(* Bits are flipped in the order of the file, each once.  *)
FlipsAreInOrder ==
    pc = "bitflip" /\ writes = 0 /\ bit_offset >= 0 =>
       \A q \in Flipped :
          q[1] * ByteBits + q[2] < ChunkOffset(opts, chunk) * ByteBits + bit_offset

(* What every mode rests on, and what each mode adds to it.  *)
ToolInv    == TypeOK /\ RunIsValid /\ SizeIsKept /\ SnapshotsFit /\ EndLags
CopyInv    == SourcesAreUntouched /\ CopiesAreClean
RestoreInv == BytesAreInPlace /\ RestoredSoFar /\ RestoresAreExact
BitflipInv == FlipsAreInOrder /\ BitflipsAreCounted

-----------------------------------------------------------------------------
(* A run that starts its loop reaches its end: no loop is endless, and no *)
(* chunk leaves it stuck.                                                 *)
ToolEnds == (pc # "idle") ~> (pc = "idle")
============================================================================
