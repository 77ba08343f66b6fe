------------------------ MODULE ClockToolsProperties ------------------------
EXTENDS ClockTools

Timespecs == [sec : Int, nsec : Int]
Programs  == [pc : Steps, kind : Kinds, delta : Deltas \cup {0}, wall : Timespecs,
              mono : Timespecs, normal : Timespecs, end : Timespecs, weird : BOOLEAN,
              now : Timespecs, readAt : Int]

(* Every variable has its type. *)
TypeOK ==
    /\ mono \in 0 .. MaxTime
    /\ skew \in Int
    /\ proc \in [Tools -> Programs]
    /\ waiting \in {{}} \cup {{p} : p \in Tools}
    /\ base \in [Tools -> Int]
    /\ alone \subseteq Tools

(* Whatever the sign of the delta and wherever the clocks stand in a second, *)
(* balance_timespec_m leaves nsec in range: clock_settime accepts every time *)
(* that strobe-time and bump-time give it.                                   *)
TimesAreBalanced ==
    \A p \in Tools : Balanced(proc[p].now) /\ Balanced(proc[p].normal)
                                           /\ Balanced(proc[p].end)

\* What p has been asked to move the clock by, to the grain it works with.
Asked(p) == IF proc[p].kind = "bumptime" THEN ToMicros(proc[p].delta) ELSE proc[p].delta
Grain(p) == IF proc[p].kind = "bumptime" THEN NanosPerMicro - 1 ELSE 0

(* However often a strobe sets the clock and however slow it is at it, each   *)
(* set_wall_clock puts the clock where the strobe found it or delta ahead, in *)
(* turn, and the last one where the strobe found it, late by no more than the *)
(* time from this read to this set: delays never add up.  What it found is    *)
(* off by no more than the time between its two reads at the start.  A bump   *)
(* moves the clock by its delta, bumptime.c to within a microsecond.  The     *)
(* exception is a program of a lost session that another one, or a reset, has *)
(* met.                                                                       *)
ClockWhereAsked ==
    [][\A p \in alone :
          proc[p].pc \in {"set", "reset", "bump"} /\ proc'[p] # proc[p]
          /\ proc'[p].kind # "failed" =>
             LET found == IF At(p, "bump") THEN base[p] ELSE Nanos(proc[p].normal)
                 ahead == IF At(p, "bump") \/ (At(p, "set") /\ ~proc[p].weird)
                          THEN Asked(p) ELSE 0
             IN  /\ found - base[p] \in -MaxDelay .. MaxDelay
                 /\ skew' - (found + ahead) \in -(MaxDelay + Grain(p)) .. 0]_vars
-----------------------------------------------------------------------------
(* The inductive invariant behind ClockWhereAsked. *)

(* No more than MaxDelay passes between reading a clock and using the time.  *)
ReadsAreRecent ==
    \A p \in Tools : Pending(p) => mono - proc[p].readAt \in 0 .. MaxDelay

(* A program that reads the clock once, adds and sets it is a bump.  *)
KindFollowsStep(p) ==
    /\ proc[p].pc = "launched" => proc[p].kind = "bump"
    /\ proc[p].pc = "started" => proc[p].kind = "bumptime"
    /\ proc[p].pc = "bump" => proc[p].kind \in {"bump", "bumptime"}
    /\ proc[p].pc \in {"start", "wall", "mono", "end", "test", "read", "set", "final",
                       "reset"} => proc[p].kind = "strobe"

(* Until p first sets the clock, it stands where p found it.  *)
StillWhereFound(p) ==
    proc[p].pc \in {"start", "wall", "mono", "launched", "started"} => skew = base[p]

(* The clock of strobe-time that was read first, while the other is not.  *)
FirstClockRead(p) ==
    /\ proc[p].pc = "wall" => Nanos(proc[p].wall) = proc[p].readAt + base[p]
    /\ proc[p].pc = "mono" => Nanos(proc[p].mono) = proc[p].readAt

(* normal_offset is off by no more than the time between its two reads.  *)
NormalIsClose(p) ==
    proc[p].pc \in {"end", "test", "read", "set", "final", "reset"} =>
       Nanos(proc[p].normal) - base[p] \in -MaxDelay .. MaxDelay

(* The time that is about to be set is right for the moment of the read.  *)
TimeToSet(p) ==
    /\ proc[p].pc = "set" =>
          Nanos(proc[p].now) = proc[p].readAt + Nanos(proc[p].normal)
                               + (IF proc[p].weird THEN 0 ELSE proc[p].delta)
    /\ proc[p].pc = "reset" =>
          Nanos(proc[p].now) = proc[p].readAt + Nanos(proc[p].normal)
    /\ proc[p].pc = "bump" =>
          Nanos(proc[p].now) - (proc[p].readAt + base[p] + Asked(p)) \in -Grain(p) .. 0

(* What is known of every program, and of those that no other has met.  *)
ClockInv ==
    /\ ReadsAreRecent
    /\ \A p \in Tools : KindFollowsStep(p)
    /\ \A p \in alone : /\ StillWhereFound(p) /\ FirstClockRead(p)
                        /\ NormalIsClose(p) /\ TimeToSet(p)
============================================================================
