----------------------------- MODULE SavedTest -----------------------------
(***************************************************************************)
(* What a reader of a test file is promised, whenever it looks and whatever*)
(* has happened to the process that wrote it: the file is empty, or holds a*)
(* test, with a history that is the beginning of the real one and that only*)
(* ever grows, until the results are saved with it.                        *)
(***************************************************************************)
EXTENDS Integers, Sequences

VARIABLES stage,    \* the last save that is in the file: 0, 1 or 2; -1 for none
          kept,     \* the history in the file
          results,  \* are there results in the file?
          history   \* the operations of the run so far

vars == <<stage, kept, results, history>>

Init == stage = -1 /\ kept = <<>> /\ results = FALSE /\ history = <<>>

\* The run appends an operation, which need not be in the file yet.
RunOp ==
    /\ stage = 0
    /\ history' = Append(history, Len(history) + 1)
    /\ UNCHANGED <<stage, kept, results>>

SaveInitial ==
    /\ stage = -1
    /\ stage' = 0
    /\ UNCHANGED <<kept, results, history>>

\* A part of the history becomes durable.
Checkpoint ==
    /\ stage = 0
    /\ Len(kept') \in Len(kept) + 1 .. Len(history)
    /\ kept' = SubSeq(history, 1, Len(kept'))
    /\ UNCHANGED <<stage, results, history>>

\* The test is saved once its run is over: all of its history is there.
SaveHistory ==
    /\ stage = 0
    /\ stage' = 1
    /\ kept = history
    /\ UNCHANGED <<kept, results, history>>

\* Results are saved with whatever history is there.
SaveResults ==
    /\ stage >= 0
    /\ stage' = 2
    /\ results' = TRUE
    /\ UNCHANGED <<kept, history>>

Next == RunOp \/ SaveInitial \/ Checkpoint \/ SaveHistory \/ SaveResults

Spec == Init /\ [][Next]_vars
============================================================================
