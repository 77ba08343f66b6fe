-------------------------- MODULE ProcessHistory --------------------------
(***************************************************************************)
(* What a history promises to the checkers that read it, stated without    *)
(* threads, queues or clients: every process does one operation at a time, *)
(* and a client process whose operation crashed never acts again, its      *)
(* successor, numbered Concurrency higher, taking over only then.          *)
(***************************************************************************)
EXTENDS Naturals

CONSTANTS Concurrency, Nemesis

VARIABLES idle,     \* processes that may invoke an operation
          running,  \* processes with an operation under way
          retired   \* processes that will never act again

phVars == <<idle, running, retired>>

Init ==
    /\ idle = (0 .. Concurrency - 1) \cup {Nemesis}
    /\ running = {}
    /\ retired = {}

Begin(p) ==
    /\ p \in idle
    /\ idle' = idle \ {p}
    /\ running' = running \cup {p}
    /\ UNCHANGED retired

End(p) ==
    /\ p \in running
    /\ running' = running \ {p}
    /\ idle' = idle \cup {p}
    /\ UNCHANGED retired

Retire(p) ==
    /\ p \in running \ {Nemesis}
    /\ running' = running \ {p}
    /\ idle' = idle \cup {p + Concurrency}
    /\ retired' = retired \cup {p}

Next ==
    \/ \E p \in idle : Begin(p)
    \/ \E p \in running : End(p) \/ Retire(p)

Spec == Init /\ [][Next]_phVars
=============================================================================
