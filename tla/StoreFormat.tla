---------------------------- MODULE StoreFormat ----------------------------
(***************************************************************************)
(* The test file of jepsen.store.format, as core/run! and the analyze      *)
(* command of jepsen.cli write it: the three saves of jepsen.store, and    *)
(* the history writer, a thread of its own behind a bounded queue.         *)
(*                                                                         *)
(* The file is a header, a pointer and a sequence of blocks; a block's     *)
(* place in the sequence stands for its offset.  A block is written in two *)
(* steps, header and data in either order, and is sealed after the second: *)
(* in between, its checksum does not match.  The process may crash between *)
(* any two steps; what it has written by then is on disk.                  *)
(***************************************************************************)
EXTENDS Integers, FiniteSetsExt, SequencesExt

CONSTANTS ChunkSize,   \* big-vector-chunk-size: operations per chunk
          MaxOps,      \* bound: operations of a run
          MaxAnalyses,   \* bound: how often the test is analyzed again
          IoErrors     \* may a write throw?

ASSUME StoreAssumption ==
    /\ ChunkSize \in Nat \ {0}
    /\ MaxOps \in Nat
    /\ MaxAnalyses \in Nat
    /\ IoErrors \in BOOLEAN

VARIABLES disk,     \* the file: header, pointer to the index block, blocks
          handle,   \* Handle: the block index in memory, written?, read?
          main,     \* the thread that runs the test, or analyzes it
          writer,   \* the history writer thread
          queue,    \* the history writer's queue
          ops,      \* auxiliary: how many operations were appended to the history
          analyses     \* how often the test was analyzed again

vars == <<disk, handle, main, writer, queue, ops, analyses>>

-----------------------------------------------------------------------------
(* Blocks.  An operation is its index in the history, from 1. *)

NilHistory             == [type |-> "nil"]
Stream(s)              == [type |-> "stream", ops |-> s]
Vector(count, chunks)  == [type |-> "vector", count |-> count, chunks |-> chunks]
PartialMap(rest)       == [type |-> "partial", rest |-> rest]
Test(stage, hist, res) == [type |-> "test", stage |-> stage, history |-> hist,
                           results |-> res]
Index(root, blocks)    == [type |-> "index", root |-> root, blocks |-> blocks]

Reserved == 0          \* an id handed out whose block is not yet written
NoIo     == [id |-> 0, at |-> 0]
Finished == 0          \* ::finished, in the queue
NoOp     == 0

\* open.
NewHandle == [root |-> 0, blocks |-> <<>>, written |-> FALSE, read |-> FALSE]

NewBlockId(h) == IF DOMAIN h.blocks = {} THEN 1 ELSE Max(DOMAIN h.blocks) + 1

\* Mutant: the end of the last block in the index.
OffsetAfterIndexed ==
    1 + Max({0} \cup {handle.blocks[id] : id \in DOMAIN handle.blocks})

NextBlockOffset == Len(disk.file) + 1

NewBlock == [id |-> NewBlockId(handle), at |-> NextBlockOffset]

AssocBlock(h, id, at) ==
    [h EXCEPT !.blocks = [i \in DOMAIN @ \cup {id} |-> IF i = id THEN at ELSE @[i]]]

\* Writes at an offset, at the end of the file or inside it.
WriteAt(at, data, sealed) ==
    [disk EXCEPT !.file = [i \in 1 .. Max({Len(@), at}) |->
                             IF i = at THEN [data |-> data, sealed |-> sealed] ELSE @[i]]]

-----------------------------------------------------------------------------
(* Reading. *)

\* read-block-by-offset*: the length and the checksum match.
Sound(d, at) == at \in DOMAIN d.file /\ d.file[at].sealed

\* check-magic, check-version!, read-block-index-offset, load-block-index!.
HasIndex(d) ==
    /\ d.header
    /\ d.pointer # 0
    /\ Sound(d, d.pointer)
    /\ d.file[d.pointer].data.type = "index"

IndexOf(d) == d.file[d.pointer].data

\* read-block-by-id.
Has(d, blocks, id) == id \in DOMAIN blocks /\ Sound(d, blocks[id])
Data(d, blocks, id) == d.file[blocks[id]].data

\* read-big-vector-block, and nth of its vector: of the chunks that begin at or
\* before an index, the last holds it.
Nth(d, blocks, chunks, i) ==
    LET c    == chunks[Max({k \in DOMAIN chunks : chunks[k].index < i})]
        data == Data(d, blocks, c.id)
    IN  IF /\ Has(d, blocks, c.id)
           /\ data.type = "stream"
           /\ i - c.index \in DOMAIN data.ops
        THEN data.ops[i - c.index] ELSE NoOp

HistoryOf(d, blocks, id) ==
    LET block == Data(d, blocks, id)
    IN  IF Has(d, blocks, id) /\ block.type = "vector"
        THEN [i \in 1 .. block.count |-> Nth(d, blocks, block.chunks, i)]
        ELSE <<>>

\* Mutant: the index on disk is not loaded.
PrepReadNothing(h, d) == [h EXCEPT !.read = TRUE]

\* prep-read!.
PrepRead(h, d) ==
    IF h.read THEN h
    ELSE [h EXCEPT !.read = TRUE, !.root = IndexOf(d).root, !.blocks = IndexOf(d).blocks]

\* read-test finds a root.
Readable(d) ==
    /\ HasIndex(d)
    /\ Has(d, IndexOf(d).blocks, IndexOf(d).root)
    /\ Data(d, IndexOf(d).blocks, IndexOf(d).root).type = "test"

Root(d) == Data(d, IndexOf(d).blocks, IndexOf(d).root)

-----------------------------------------------------------------------------
\* No process has the file open.
Down     == [pc |-> "down", stage |-> 0, io |-> NoIo, history |-> 0, results |-> 0,
             failed |-> FALSE]
NoWriter == [pc |-> "none", io |-> NoIo, completed |-> 0, ops |-> <<>>,
             chunks |-> <<>>, chunk |-> NoIo, element |-> NoOp, last |-> FALSE]

Init ==
    /\ disk = [header |-> FALSE, pointer |-> 0, file |-> <<>>]
    /\ handle = NewHandle
    /\ main = [Down EXCEPT !.pc = "history"]
    /\ writer = NoWriter
    /\ queue = <<>>
    /\ ops = 0
    /\ analyses = 0

(* Blocks that the main thread writes: write-fressian-block! and             *)
(* write-partial-map-block!, in write-initial-test!,                         *)
(* write-test-with-history! and write-test-with-results!.                    *)
MainBlocks == {"history", "more", "results", "test"}

MainData ==
    CASE main.pc = "history" -> NilHistory
      [] main.pc = "more"    -> PartialMap(0)
      [] main.pc = "results" -> PartialMap(main.results)
      [] main.pc = "test"    -> Test(main.stage, main.history, main.results)

MainBegin ==
    /\ main.pc \in MainBlocks
    /\ main.io = NoIo
    /\ disk' = WriteAt(NewBlock.at, MainData, FALSE)
    /\ handle' = AssocBlock(handle, NewBlock.id, Reserved)
    /\ main' = [main EXCEPT !.io = NewBlock]
    /\ UNCHANGED <<writer, queue, ops, analyses>>

AfterBlock == [history |-> "test", more |-> "results", results |-> "test",
               test |-> "index"]

\* The header, assoc-block! and, for a test, set-root!.
MainSeal ==
    /\ main.pc \in MainBlocks
    /\ main.io # NoIo
    /\ LET id == main.io.id
           h  == AssocBlock(handle, id, main.io.at)
       IN  /\ disk' = WriteAt(main.io.at, MainData, TRUE)
           /\ handle' = IF main.pc = "test" THEN [h EXCEPT !.root = id] ELSE h
           /\ main' = [main EXCEPT
                         !.pc = AfterBlock[@], !.io = NoIo,
                         !.history = IF main.pc = "history" THEN id ELSE @,
                         !.results = IF main.pc \in {"more", "results"} THEN id ELSE @]
    /\ UNCHANGED <<writer, queue, ops, analyses>>

-----------------------------------------------------------------------------
(* write-block-index!, by either thread: header if there was none, the index *)
(* block in two writes, the pointer.                                         *)

Written(h) == [i \in {j \in DOMAIN h.blocks : h.blocks[j] # Reserved} |-> h.blocks[i]]

\* prep-write!.
PrepWrite(io) ==
    /\ io = NoIo
    /\ ~handle.written
    /\ disk' = [disk EXCEPT !.header = TRUE]
    /\ handle' = [handle EXCEPT !.written = TRUE]

BeginIndex(io) ==
    LET h == AssocBlock(handle, NewBlock.id, NewBlock.at)
    IN  /\ io = NoIo
        /\ handle.written
        /\ disk' = WriteAt(NewBlock.at, Index(h.root, Written(h)), FALSE)
        /\ handle' = h

SealIndex(io) ==
    /\ io # NoIo
    /\ ~disk.file[io.at].sealed
    /\ disk' = [disk EXCEPT !.file[io.at].sealed = TRUE]
    /\ UNCHANGED handle

\* Mutant: the pointer is written before the index block is complete.
WritePointerEarly(io) ==
    /\ io # NoIo
    /\ disk' = [disk EXCEPT !.pointer = io.at]
    /\ UNCHANGED handle

\* write-block-index-offset!.
WritePointer(io) ==
    /\ io # NoIo
    /\ disk.file[io.at].sealed
    /\ disk' = [disk EXCEPT !.pointer = io.at]
    /\ UNCHANGED handle

\* After the index of save-0! the run starts, after that of save-1! the
\* analysis, and after that of save-2! with-handle closes the file.
AfterSave == <<"start", "prep", "close file">>

MainIndex ==
    /\ main.pc = "index"
    /\ \/ PrepWrite(main.io) /\ UNCHANGED main
       \/ BeginIndex(main.io) /\ main' = [main EXCEPT !.io = NewBlock]
       \/ SealIndex(main.io) /\ UNCHANGED main
       \/ /\ WritePointer(main.io)
          /\ main' = [main EXCEPT !.io = NoIo, !.pc = AfterSave[main.stage + 1],
                                  !.stage = IF @ = 1 THEN 2 ELSE @]
    /\ UNCHANGED <<writer, queue, ops, analyses>>

-----------------------------------------------------------------------------
(* big-vector-block-writer-worker!, the history writer. *)

\* Mutant: room for one operation more than a chunk holds.
RoomForOneMore == Len(writer.ops) <= ChunkSize

RoomInChunk == Len(writer.ops) < ChunkSize

\* fressian-stream-block-writer!: an id and an offset, and nothing on disk yet.
\* The operation that did not fit in the last chunk goes into this one.
OpenStream ==
    /\ writer.pc = "open"
    /\ handle' = AssocBlock(handle, NewBlock.id, Reserved)
    /\ writer' = [writer EXCEPT
                    !.pc = "take", !.chunk = NewBlock, !.element = NoOp,
                    !.ops = IF writer.element = NoOp THEN <<>> ELSE <<writer.element>>]
    /\ UNCHANGED <<disk, main, queue, ops, analyses>>

Take ==
    /\ writer.pc = "take"
    /\ queue # <<>>
    /\ queue' = Tail(queue)
    /\ writer' = CASE Head(queue) = Finished ->
                        [writer EXCEPT !.pc = "seal", !.last = TRUE]
                   [] Head(queue) # Finished /\ RoomInChunk ->
                        [writer EXCEPT !.ops = Append(@, Head(queue))]
                   [] Head(queue) # Finished /\ ~RoomInChunk ->
                        [writer EXCEPT !.pc = "seal", !.element = Head(queue)]
    /\ UNCHANGED <<disk, handle, main, ops, analyses>>

OnDisk == /\ writer.chunk.at \in DOMAIN disk.file
          /\ disk.file[writer.chunk.at].data = Stream(writer.ops)

\* BufferedOutputStream writes when its buffer is full, and when it is flushed.
FlushStream ==
    /\ writer.pc \in {"take", "seal"}
    /\ writer.ops # <<>>
    /\ ~OnDisk
    /\ disk' = WriteAt(writer.chunk.at, Stream(writer.ops), FALSE)
    /\ UNCHANGED <<handle, main, writer, queue, ops, analyses>>

\* FressianStreamBlockWriter.close, once it has flushed: the header.
SealStream ==
    /\ writer.pc = "seal"
    /\ writer.ops = <<>> \/ OnDisk
    /\ disk' = WriteAt(writer.chunk.at, Stream(writer.ops), TRUE)
    /\ handle' = AssocBlock(handle, writer.chunk.id, writer.chunk.at)
    /\ writer' = [writer EXCEPT
                    !.pc = "vector",
                    !.chunks = Append(@, [index |-> writer.completed,
                                          id |-> writer.chunk.id]),
                    !.completed = @ + Len(writer.ops)]
    /\ UNCHANGED <<main, queue, ops, analyses>>

\* write-big-vector-block!: a new version of the history, under its old id.
BeginVector ==
    /\ writer.pc = "vector"
    /\ writer.io = NoIo
    /\ disk' = WriteAt(NextBlockOffset, Vector(writer.completed, writer.chunks), FALSE)
    /\ writer' = [writer EXCEPT !.io = [id |-> main.history, at |-> NextBlockOffset]]
    /\ UNCHANGED <<handle, main, queue, ops, analyses>>

SealVector ==
    /\ writer.pc = "vector"
    /\ writer.io # NoIo
    /\ disk' = [disk EXCEPT !.file[writer.io.at].sealed = TRUE]
    /\ handle' = AssocBlock(handle, writer.io.id, writer.io.at)
    /\ writer' = [writer EXCEPT !.pc = "index", !.io = NoIo]
    /\ UNCHANGED <<main, queue, ops, analyses>>

WriterIndex ==
    /\ writer.pc = "index"
    /\ \/ BeginIndex(writer.io) /\ writer' = [writer EXCEPT !.io = NewBlock]
       \/ SealIndex(writer.io) /\ UNCHANGED writer
       \/ /\ WritePointer(writer.io)
          /\ writer' = [writer EXCEPT !.io = NoIo,
                                      !.pc = IF writer.last THEN "exit" ELSE "open"]
    /\ UNCHANGED <<main, queue, ops, analyses>>

\* A write throws, and the worker with it: nobody takes from the queue any more.
WriterThrows ==
    /\ IoErrors
    /\ writer.pc \in {"take", "seal", "vector", "index"}
    /\ writer' = [writer EXCEPT !.pc = "dead"]
    /\ UNCHANGED <<disk, handle, main, queue, ops, analyses>>

-----------------------------------------------------------------------------
(* run! of the interpreter, as far as the history is concerned. *)

\* test-history-writer!.
StartWriter ==
    /\ main.pc = "start"
    /\ main' = [main EXCEPT !.pc = "run"]
    /\ writer' = [writer EXCEPT !.pc = "open"]
    /\ UNCHANGED <<disk, handle, queue, ops, analyses>>

Capacity == 2 * ChunkSize

\* append-to-big-vector-block!: .put blocks while the queue is full.
AppendOp ==
    /\ main.pc = "run"
    /\ ops < MaxOps
    /\ Len(queue) < Capacity
    /\ queue' = Append(queue, ops + 1)
    /\ ops' = ops + 1
    /\ UNCHANGED <<disk, handle, main, writer, analyses>>

\* The run is over and closes the writer; or it throws, and with-open does.
EndRun ==
    /\ main.pc = "run"
    /\ \/ main' = [main EXCEPT !.pc = "close"]
       \/ main' = [main EXCEPT !.pc = "close again", !.failed = TRUE]
    /\ UNCHANGED <<disk, handle, writer, queue, ops, analyses>>

\* Mutant: .offer, which a full queue refuses.
OfferFinished ==
    /\ main.pc \in {"close", "close again"}
    /\ queue' = IF Len(queue) < Capacity THEN Append(queue, Finished) ELSE queue
    /\ main' = [main EXCEPT !.pc = IF @ = "close" THEN "join" ELSE "join again"]
    /\ UNCHANGED <<disk, handle, writer, ops, analyses>>

\* BigVectorBlockWriter.close.  with-open closes a second time.
PutFinished ==
    /\ main.pc \in {"close", "close again"}
    /\ Len(queue) < Capacity
    /\ queue' = Append(queue, Finished)
    /\ main' = [main EXCEPT !.pc = IF @ = "close" THEN "join" ELSE "join again"]
    /\ UNCHANGED <<disk, handle, writer, ops, analyses>>

\* Mutant: the worker is not waited for.
JoinNothing ==
    /\ main.pc \in {"join", "join again"}
    /\ main' = [main EXCEPT !.pc = IF @ = "join" THEN "load" ELSE "test", !.stage = 1]
    /\ UNCHANGED <<disk, handle, writer, queue, ops, analyses>>

\* @worker, which throws what the worker threw.  The second time run! returns,
\* and save-1! begins, or it throws.
JoinWriter ==
    /\ writer.pc \in {"exit", "dead"}
    /\ \/ /\ main.pc = "join"
          /\ main' = IF writer.pc = "exit" THEN [main EXCEPT !.pc = "load"]
                     ELSE [main EXCEPT !.pc = "close again", !.failed = TRUE]
       \/ /\ main.pc = "join again"
          /\ main' = IF writer.pc = "dead" \/ main.failed
                     THEN [main EXCEPT !.pc = "close file"]
                     ELSE [main EXCEPT !.pc = "test", !.stage = 1]
    /\ UNCHANGED <<disk, handle, writer, queue, ops, analyses>>

\* The history is read back, through the same handle.
LoadHistory ==
    /\ main.pc = "load"
    /\ HasIndex(disk)
    /\ handle' = PrepRead(handle, disk)
    /\ main' = [main EXCEPT !.pc = "close again"]
    /\ UNCHANGED <<disk, writer, queue, ops, analyses>>

-----------------------------------------------------------------------------
(* save-2!, in the process that ran the test or in another that analyzes it. *)

PrepResults ==
    /\ main.pc = "prep"
    /\ HasIndex(disk)
    /\ handle' = PrepRead(handle, disk)
    /\ main' = [main EXCEPT !.pc = "more"]
    /\ UNCHANGED <<disk, writer, queue, ops, analyses>>

\* A write of the main thread throws.
MainThrows ==
    /\ IoErrors
    /\ main.pc \in MainBlocks \cup {"index"}
    /\ main' = [main EXCEPT !.pc = "close file", !.io = NoIo]
    /\ UNCHANGED <<disk, handle, writer, queue, ops, analyses>>

\* Nothing is left of what was in memory.
Stop ==
    /\ handle' = NewHandle
    /\ main' = Down
    /\ writer' = NoWriter
    /\ queue' = <<>>
    /\ UNCHANGED <<disk, ops, analyses>>

\* with-handle closes the file, whether its body returns or throws.
CloseFile == main.pc = "close file" /\ Stop

\* The process dies.
Crash == main.pc # "down" /\ Stop

\* The analyze command: loads the test, analyses the file again and runs the checker.
Analyze ==
    /\ main.pc = "down"
    /\ analyses < MaxAnalyses
    /\ Readable(disk)
    /\ main' = [Down EXCEPT !.pc = "prep", !.stage = 2, !.history = Root(disk).history]
    /\ analyses' = analyses + 1
    /\ UNCHANGED <<disk, handle, writer, queue, ops>>
-----------------------------------------------------------------------------
(* gc!: copy! into a temporary file, which then takes the place of this one. *)

\* block-references.
References(block) ==
    CASE block.type = "test"    -> {block.history, block.results} \ {0}
      [] block.type = "partial" -> {block.rest} \ {0}
      [] block.type = "vector"  -> {block.chunks[k].id : k \in DOMAIN block.chunks}
      [] OTHER                  -> {}

\* A test refers to results, these to more of them, and a vector to chunks:
\* nothing lies deeper.
Reachable(d) ==
    LET refs(id) == References(Data(d, IndexOf(d).blocks, id))
        direct   == refs(IndexOf(d).root)
    IN  {IndexOf(d).root} \cup direct \cup UNION {refs(id) : id \in direct}

\* copy!: the index block, the root, and the other blocks, whose order, by size,
\* makes no difference.
Copy(d) ==
    LET old    == IndexOf(d)
        others == Reachable(d) \ {old.root}
        self   == Max(Reachable(d)) + 1
        place  == [id \in Reachable(d) \cup {self} |->
                     CASE id = self     -> 1
                       [] id = old.root -> 2
                       [] OTHER         -> 3 + Cardinality({j \in others : j < id})]
        block(id) == IF id = self THEN [data |-> Index(old.root, place), sealed |-> TRUE]
                     ELSE d.file[old.blocks[id]]
    IN  [header  |-> TRUE,
         pointer |-> 1,
         file    |-> [k \in 1 .. Cardinality(DOMAIN place) |->
                        block(CHOOSE id \in DOMAIN place : place[id] = k)]]

Gc ==
    /\ main.pc = "down"
    /\ Readable(disk)
    /\ disk' = Copy(disk)
    /\ UNCHANGED <<handle, main, writer, queue, ops, analyses>>

-----------------------------------------------------------------------------
MainStep == MainBegin \/ MainSeal \/ MainIndex \/ StartWriter \/ EndRun
            \/ PutFinished \/ JoinWriter \/ LoadHistory \/ PrepResults \/ CloseFile

WriterStep == OpenStream \/ Take \/ SealStream \/ BeginVector \/ SealVector
              \/ WriterIndex

Next ==
    \/ MainStep \/ AppendOp \/ MainThrows
    \/ WriterStep \/ FlushStream \/ WriterThrows
    \/ Crash \/ Analyze \/ Gc

Spec == Init /\ [][Next]_vars

\* Threads that can run do, and a stream that is being closed is flushed.
FairSpec ==
    /\ Spec
    /\ WF_vars(MainStep)
    /\ WF_vars(WriterStep)
    /\ WF_vars(writer.pc = "seal" /\ FlushStream)
============================================================================
