----------------------- MODULE StoreFormatProperties -----------------------
EXTENDS StoreFormat

MainSteps == MainBlocks \cup {"down", "close file", "index", "start", "run", "close",
                              "join", "load", "close again", "join again", "prep"}
Working   == {"open", "take", "seal", "vector", "index"}
Ios       == [id : Nat, at : Nat]
MainStates   == [pc : MainSteps, stage : 0 .. 2, io : Ios, history : Nat, results : Nat,
                 failed : BOOLEAN]
WriterStates == [pc : Working \cup {"none", "exit", "dead"}, io : Ios, completed : Nat,
                 ops : Seq(Nat), chunks : Seq([index : Nat, id : Nat]), chunk : Ios,
                 element : Nat, last : BOOLEAN]
Entries(f) == [data : {f[i].data : i \in DOMAIN f}, sealed : BOOLEAN]

HasGreatest(S) == \E m \in S : \A i \in S : i <= m

(* Every variable has its type. *)
TypeOK ==
    /\ disk \in [header : BOOLEAN, pointer : Nat, file : {disk.file}]
    /\ disk.file \in Seq(Entries(disk.file))
    /\ handle \in [root : Nat, blocks : {handle.blocks}, written : BOOLEAN, read : BOOLEAN]
    /\ handle.blocks \in [DOMAIN handle.blocks -> Nat]
    /\ DOMAIN handle.blocks \subseteq Nat \ {0}
    /\ DOMAIN handle.blocks = {} \/ HasGreatest(DOMAIN handle.blocks)
    /\ main \in MainStates
    /\ writer \in WriterStates
    /\ queue \in Seq(Nat)
    /\ ops \in 0 .. MaxOps
    /\ analyses \in 0 .. MaxAnalyses

\* The test as read-test would find it, if the process died now.
History == IF Readable(disk)
           THEN HistoryOf(disk, IndexOf(disk).blocks, Root(disk).history) ELSE <<>>

ResultsReadable ==
    LET blocks == IndexOf(disk).blocks
        id     == Root(disk).results
    IN  /\ Has(disk, blocks, id)
        /\ Has(disk, blocks, Data(disk, blocks, id).rest)

(* Whenever the process dies, once the first index is on disk every block that *)
(* the index names is complete and is the block it was written as: no reader   *)
(* meets a checksum mismatch, and whatever the test refers to is found.        *)
IndexedBlocksAreComplete ==
    disk.pointer # 0 =>
       /\ Readable(disk)
       /\ \A id \in DOMAIN IndexOf(disk).blocks : Sound(disk, IndexOf(disk).blocks[id])
       /\ \A id \in Reachable(disk) : Has(disk, IndexOf(disk).blocks, id)
       /\ Root(disk).results # 0 => ResultsReadable

(* A sealed block is never written again: every write goes to the end of the   *)
(* file, to a block that is still open, or to the pointer.  gc! makes another  *)
(* file.                                                                       *)
SealedBlocksAreFinal ==
    [][~Gc => \A i \in DOMAIN disk.file : disk.file[i].sealed =>
                 i \in DOMAIN disk'.file /\ disk'.file[i] = disk.file[i]]_vars

(* What a crash can lose is bounded: the operations in the queue, those of the *)
(* chunk that is not yet sealed, and the one that did not fit in it.           *)
LossIsBounded ==
    ops > 0 => ops - Len(History) <= Capacity + ChunkSize + 1

(* When run! reads the history back, it gets every operation it has appended,  *)
(* in order: close has waited for the writer, and the index it loads from disk *)
(* is the writer's last.                                                       *)
RunReturnsWholeHistory ==
    [][main.pc = "load" /\ main'.pc = "close again" =>
          HistoryOf(disk, handle'.blocks, main.history) = [i \in 1 .. ops |-> i]]_vars

(* Whatever is on disk, at any time, is what SavedTest promises: histories and *)
(* results that were saved are never lost, across crashes, failed saves, later *)
(* analyses and gc!.                                                           *)
Promise == INSTANCE SavedTest WITH
              stage   <- IF Readable(disk) THEN Root(disk).stage ELSE -1,
              kept    <- History,
              results <- Readable(disk) /\ Root(disk).results # 0 /\ ResultsReadable,
              history <- [i \in 1 .. ops |-> i]
KeepsItsPromise == Promise!Spec

\* The history writer has died and its queue is full: .put waits for ever.
Hung == writer.pc = "dead" /\ Len(queue) = Capacity
        /\ main.pc \in {"run", "close", "close again"}

(* Closing the history writer ends, and with it the run, unless the writer has *)
(* died behind a full queue; nothing else can keep the saves from completing.  *)
SavingEnds == <>(main.pc = "down" \/ Hung)

-----------------------------------------------------------------------------
(* The inductive invariant behind IndexedBlocksAreComplete. *)

\* The index block that is being written, by either thread.
IndexIo == CASE main.pc = "index"   -> main.io
             [] writer.pc = "index" -> writer.io
             [] OTHER               -> NoIo

\* The file with that block complete.
Sealed(d, at) == [d EXCEPT !.file[at].sealed = TRUE]
DiskWithIndex == IF IndexIo = NoIo THEN disk ELSE Sealed(disk, IndexIo.at)

\* Neither a failed write nor a crash keeps the handle from being written.
InUse == main.pc \notin {"down", "close file"} /\ writer.pc # "dead"

\* A block that holds results that refer to no more of them, and one that does.
LastResults(d, b, id) == /\ id \in DOMAIN b
                         /\ Data(d, b, id).type = "partial"
                         /\ Data(d, b, id).rest = 0
Results(d, b, id) == /\ id \in DOMAIN b
                     /\ Data(d, b, id).type = "partial"
                     /\ Data(d, b, id).rest # 0
                     /\ LastResults(d, b, Data(d, b, id).rest)
HistoryBlock(d, b, id) == id \in DOMAIN b /\ Data(d, b, id).type \in {"nil", "vector"}
StreamBlock(d, b, id) == id \in DOMAIN b /\ Data(d, b, id).type = "stream"
TestBlock(d, b, id) == id \in DOMAIN b /\ Data(d, b, id).type = "test"

(* Every block that b names is complete, and so is whatever it refers to, which *)
(* is a block of the right type.                                                *)
WellFormed(d, b) ==
    /\ DOMAIN b \subseteq Nat \ {0}
    /\ \A id \in DOMAIN b :
          LET block == Data(d, b, id)
          IN  /\ Sound(d, b[id])
              /\ block.type = "test" =>
                    /\ HistoryBlock(d, b, block.history)
                    /\ block.results # 0 => Results(d, b, block.results)
              /\ block.type = "partial" /\ block.rest # 0 => LastResults(d, b, block.rest)
              /\ block.type = "vector" =>
                    \A k \in DOMAIN block.chunks : StreamBlock(d, b, block.chunks[k].id)

(* The threads take turns: while the history writer lives, the main thread only *)
(* feeds it and waits for it, and once it is dead nothing is written any more.  *)
TakingTurns ==
    /\ writer.pc \in Working =>
          main.pc \in {"run", "close", "join", "close again", "join again"}
    /\ writer.pc = "dead" =>
          main.pc \in {"run", "close", "join", "close again", "join again", "close file"}
    /\ main.pc \in {"start", "run", "close", "join", "load", "close again", "join again",
                    "history"} => main.stage = 0
    /\ main.pc \in {"prep", "more", "results"} => main.stage = 2
    /\ main.pc \in {"down", "history", "start"} => writer = NoWriter
    /\ main.pc \in {"test", "index"} /\ main.stage = 0 => writer = NoWriter

(* Blocks that are being written are not sealed, and no index names them.  *)
OpenBlocks ==
    /\ main.io # NoIo => main.pc \in MainBlocks \cup {"index"}
    /\ main.io # NoIo /\ main.pc \in MainBlocks =>
          /\ main.io.at \in DOMAIN disk.file /\ ~disk.file[main.io.at].sealed
          /\ main.io.id \in DOMAIN handle.blocks
          /\ handle.blocks[main.io.id] = Reserved
    /\ writer.pc \in {"open", "take", "seal"} => writer.io = NoIo
    /\ writer.pc \in {"take", "seal"} =>
          /\ \/ writer.chunk.at = NextBlockOffset
             \/ /\ writer.chunk.at \in DOMAIN disk.file
                /\ ~disk.file[writer.chunk.at].sealed
          /\ writer.chunk.id \in DOMAIN handle.blocks
          /\ handle.blocks[writer.chunk.id] = Reserved
    /\ writer.pc = "vector" /\ writer.io # NoIo =>
          /\ writer.io.at \in DOMAIN disk.file
          /\ disk.file[writer.io.at] = [data   |-> Vector(writer.completed, writer.chunks),
                                        sealed |-> FALSE]
          /\ writer.io.id = main.history

(* The index that is being written is the handle's, which stays as it is.  *)
OpenIndex ==
    /\ handle.written => disk.header
    /\ IndexIo # NoIo =>
          /\ disk.header
          /\ IndexIo.at \in DOMAIN disk.file
          /\ disk.file[IndexIo.at].data = Index(handle.root, Written(handle))
          /\ IndexIo.id \in DOMAIN Written(handle)
          /\ \A id \in DOMAIN handle.blocks : id <= IndexIo.id

(* A handle is new, and whoever saves a run's history has read it back through *)
(* the same handle.                                                            *)
ReadBack ==
    /\ main.pc = "down" => handle = NewHandle
    /\ main.pc \in {"close again", "join again"} => main.failed \/ handle.read
    /\ main.pc \in {"test", "index"} /\ main.stage = 1 => handle.read

(* What the handle says of the file, and of the blocks that the next ones will  *)
(* refer to.                                                                    *)
HandleIsSound ==
    InUse =>
       LET d == DiskWithIndex
           b == Written(handle)
       IN  /\ WellFormed(d, b)
           /\ handle.root # 0 => TestBlock(d, b, handle.root)
           /\ main.pc \in {"index", "start", "run", "close", "join", "load",
                           "close again", "join again"} => handle.root # 0
           /\ main.pc = "prep" /\ ~handle.read => DOMAIN handle.blocks = {}
           /\ main.pc # "history" /\ (main.pc = "prep" => handle.read) =>
                 HistoryBlock(d, b, main.history)
           /\ main.pc = "results" => LastResults(d, b, main.results)
           /\ main.pc \in {"test", "index"} /\ main.results # 0 =>
                 main.stage = 2 /\ Results(d, b, main.results)
           /\ main.pc \notin {"results", "test", "index"} => main.results = 0
           /\ writer.pc \in Working =>
                 \A k \in DOMAIN writer.chunks : StreamBlock(d, b, writer.chunks[k].id)

(* What the index on disk says of the file.  *)
DiskIsSound ==
    /\ main.pc = "history" => disk.pointer = 0
    /\ disk.pointer # 0 =>
          LET b == IndexOf(disk).blocks
          IN  /\ HasIndex(disk)
              /\ WellFormed(disk, b)
              /\ TestBlock(disk, b, IndexOf(disk).root)
              /\ HasGreatest(DOMAIN b)
              /\ b \in [DOMAIN b -> Nat]
              /\ main.pc \notin {"history", "down", "close file"} =>
                    HistoryBlock(disk, b, main.history)

StoreInv == /\ TakingTurns /\ OpenBlocks /\ OpenIndex /\ ReadBack
            /\ HandleIsSound /\ DiskIsSound

-----------------------------------------------------------------------------
(* The inductive invariant behind LossIsBounded, RunReturnsWholeHistory and     *)
(* KeepsItsPromise: which operations are where, from the queue to the file.     *)

\* A chunk holds the operations after its index, up to the one before the next.
Chunk(d, b, chunk, end) ==
    LET block == Data(d, b, chunk.id)
    IN  /\ Has(d, b, chunk.id)
        /\ block.type = "stream"
        /\ block.ops \in Seq(Nat)
        /\ \A j \in DOMAIN block.ops : block.ops[j] = chunk.index + j
        /\ chunk.index + Len(block.ops) = end

\* Together they hold the first n operations.
Chunked(d, b, chunks, n) ==
    /\ chunks = <<>> => n = 0
    /\ chunks # <<>> => chunks[1].index = 0
    /\ \A k \in DOMAIN chunks :
          Chunk(d, b, chunks[k], IF k = Len(chunks) THEN n ELSE chunks[k + 1].index)

\* A block of the history holds them.
Holds(d, b, id, n) ==
    LET block == Data(d, b, id)
    IN  /\ Has(d, b, id)
        /\ n \in Nat
        /\ \/ block.type = "nil" /\ n = 0
           \/ /\ block.type = "vector"
              /\ block.count = n
              /\ block.chunks \in Seq([index : Nat, id : Nat])
              /\ Chunked(d, b, block.chunks, n)

Count(d, b, id) == IF Data(d, b, id).type = "vector" THEN Data(d, b, id).count ELSE 0

\* How many operations are in the file.
Saved == IF disk.pointer = 0 THEN 0
         ELSE Count(disk, IndexOf(disk).blocks, Root(disk).history)

\* While the test of save-0! is being written, and while the run goes on.
Starting == main.pc = "history" \/ (main.pc \in {"test", "index"} /\ main.stage = 0)
Running  == main.pc \in {"start", "run", "close", "join", "load", "close again",
                         "join again"}
SavingHistory == main.pc \in {"test", "index"} /\ main.stage = 1

(* Which test is in the file, and which one in the handle. *)
RootInv ==
    /\ Starting => disk.pointer = 0 /\ queue = <<>>
    /\ disk.pointer = 0 => ops = 0
    /\ Running \/ SavingHistory =>
          disk.pointer # 0 /\ Root(disk) = Test(0, main.history, 0)
    /\ main.pc \notin {"down", "close file"} /\ main.stage = 2 =>
          disk.pointer # 0 /\ Root(disk).history = main.history
    /\ main.pc \in {"test", "index"} => (main.stage = 2 <=> main.results # 0)
    /\ InUse /\ Running =>
          Data(DiskWithIndex, Written(handle), handle.root) = Test(0, main.history, 0)
    /\ InUse /\ main.pc = "index" =>
          Data(DiskWithIndex, Written(handle), handle.root)
          = Test(main.stage, main.history, main.results)

(* The history in the file is a beginning of the real one.  *)
DiskHolds ==
    disk.pointer # 0 => Holds(disk, IndexOf(disk).blocks, Root(disk).history, Saved)

(* The handle's is the same, or the next one that the writer saves.  *)
HandleHolds ==
    InUse /\ main.pc # "history" /\ (main.pc = "prep" => handle.read) =>
       Holds(DiskWithIndex, Written(handle), main.history,
             IF writer.pc = "index" THEN writer.completed ELSE Saved)

\* Operations of the chunk that is not sealed yet, the one that did not fit in
\* it, and all that the writer has taken.
Pending == IF writer.pc \in {"take", "seal"} THEN Len(writer.ops) ELSE 0
Carried == IF writer.element = NoOp THEN 0 ELSE 1
Taken   == writer.completed + Pending + Carried

(* The writer has every operation that has left the queue, once and in order. *)
WriterInv ==
    writer.pc \in Working =>
       /\ Chunked(DiskWithIndex, Written(handle), writer.chunks, writer.completed)
       /\ writer.completed = IF writer.pc \in {"vector", "index"}
                             THEN Saved + Len(writer.ops) ELSE Saved
       /\ Len(writer.ops) <= ChunkSize
       /\ writer.pc \in {"take", "seal"} =>
             \A j \in DOMAIN writer.ops : writer.ops[j] = writer.completed + j
       /\ writer.pc = "take" => writer.element = NoOp
       /\ writer.element # NoOp => writer.element = writer.completed + Pending + 1
       /\ writer.last =>
             /\ writer.pc \in {"seal", "vector", "index"} /\ main.pc # "run"
             /\ Taken = ops /\ writer.element = NoOp

(* The rest is in the queue, in front of what closes it. *)
QueueInv ==
    /\ Len(queue) <= Capacity
    /\ writer.pc \in Working =>
          /\ Taken <= ops /\ ops <= Taken + Len(queue)
          /\ main.pc = "run" => ops = Taken + Len(queue)
          /\ \A i \in DOMAIN queue :
                queue[i] = IF i <= ops - Taken THEN Taken + i ELSE Finished

(* When the writer does not work, nothing has begun, everything is saved, or    *)
(* the writer has died.                                                         *)
LossInv ==
    /\ Saved <= ops /\ ops <= Saved + Capacity + ChunkSize + 1
    /\ main.pc = "start" => ops = 0 /\ queue = <<>>
    /\ main.pc = "run" => writer.pc \in Working \cup {"dead"}
    /\ writer.pc = "exit" => Saved = ops
    /\ main.pc = "load" \/ SavingHistory => writer.pc = "exit"
    /\ writer.pc = "dead" => ops <= Saved + ChunkSize + 1 + Len(queue)

ContentsInv == /\ RootInv /\ DiskHolds /\ HandleHolds
               /\ WriterInv /\ QueueInv /\ LossInv
============================================================================
