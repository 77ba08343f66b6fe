----------------------------- MODULE ClockTools -----------------------------
(***************************************************************************)
(* The clock nemesis on one node: strobe-time.c and bump-time.c, run by    *)
(* jepsen.nemesis.time, bumptime.c of the cockroachdb suite, which uses    *)
(* them all, and the resets made with ntpdate.                             *)
(*                                                                         *)
(* The node has a monotonic clock, in nanoseconds, and a wall clock that is*)
(* `skew' nanoseconds ahead of it.  The programs hold times as struct      *)
(* timespec.  They read a clock in one step and set the wall clock in a    *)
(* later one: time passes in between, at most MaxDelay.                    *)
(***************************************************************************)
EXTENDS Integers

CONSTANTS Tools,         \* the processes the nemesis may start
          Deltas,        \* by how much they move the clock, in nanoseconds
          Duration,      \* how long a strobe lasts
          NanosPerSec,   \* NANOS_PER_SEC
          NanosPerMicro, \* the grain of struct timeval
          MaxDelay,      \* bound: time between reading and setting a clock
          MaxTime,       \* bound: the latest time of the monotonic clock
          Failures,      \* may system calls fail?
          LostSessions   \* may the nemesis lose a program it has started?

ASSUME ClockAssumption ==
    /\ Deltas \subseteq Int
    /\ Duration \in Nat
    /\ NanosPerSec \in Nat \ {0}
    /\ NanosPerMicro \in Nat \ {0} /\ NanosPerSec % NanosPerMicro = 0
    /\ MaxDelay \in Nat
    /\ MaxTime \in Nat
    /\ Failures \in BOOLEAN
    /\ LostSessions \in BOOLEAN

VARIABLES mono,      \* CLOCK_MONOTONIC
          skew,      \* CLOCK_REALTIME - CLOCK_MONOTONIC
          proc,      \* the state of each program
          waiting,   \* the programs the nemesis waits for: none or one
          base,      \* auxiliary: the skew when each program started
          alone      \* auxiliary: running programs since whose start no other
                     \* moved the clock

vars == <<mono, skew, proc, waiting, base, alone>>

-----------------------------------------------------------------------------
(* struct timespec. *)

Timespec(s, n) == [sec |-> s, nsec |-> n]
Nanos(t)       == t.sec * NanosPerSec + t.nsec
Balanced(t)    == t.nsec \in 0 .. NanosPerSec - 1

\* What the kernel's clocks read.
ToTimespec(nanos) == Timespec(nanos \div NanosPerSec, nanos % NanosPerSec)

\* nanos_to_timespec: % and / of C round towards zero.
NanosToTimespec(nanos) ==
    LET whole == IF nanos >= 0 THEN nanos \div NanosPerSec
                               ELSE -((-nanos) \div NanosPerSec)
    IN  Timespec(whole, nanos - whole * NanosPerSec)

\* A whole number of microseconds, in nanoseconds: (int64_t) rounds towards zero.
ToMicros(nanos) ==
    NanosPerMicro * (IF nanos >= 0 THEN nanos \div NanosPerMicro
                                   ELSE -((-nanos) \div NanosPerMicro))

\* Mutant: only one of the two loops.
BalanceDown(t) ==
    LET down == IF NanosPerSec <= t.nsec THEN t.nsec \div NanosPerSec ELSE 0
    IN  Timespec(t.sec + down, t.nsec - down * NanosPerSec)

\* balance_timespec_m.  The first loop makes nsec greater than NANOS_PER_SEC, in
\* `up' rounds; the second makes it less than NANOS_PER_SEC, in `down' rounds.
Balance(t) ==
    LET up   == IF t.nsec <= NanosPerSec
                THEN (NanosPerSec - t.nsec) \div NanosPerSec + 1 ELSE 0
        high == t.nsec + up * NanosPerSec
        down == high \div NanosPerSec
    IN  Timespec(t.sec - up + down, high - down * NanosPerSec)

Add(a, b) == Balance(Timespec(a.sec + b.sec, a.nsec + b.nsec))
Sub(a, b) == Balance(Timespec(a.sec - b.sec, a.nsec - b.nsec))

\* cmp_timespec.
Cmp(a, b) ==
    CASE a.sec < b.sec                         ->  1
      [] b.sec < a.sec                         -> -1
      [] a.sec = b.sec /\ a.nsec < b.nsec      ->  1
      [] a.sec = b.sec /\ b.nsec < a.nsec      -> -1
      [] OTHER                                 ->  0

-----------------------------------------------------------------------------
Zero == Timespec(0, 0)
Idle == [pc |-> "idle", kind |-> "none", delta |-> 0, wall |-> Zero, mono |-> Zero,
         normal |-> Zero, end |-> Zero, weird |-> FALSE, now |-> Zero,
         readAt |-> 0]
Kinds == {"none", "strobe", "bump", "bumptime", "failed"}
Steps == {"idle", "start", "wall", "mono", "end", "test", "read", "set", "final",
          "reset", "launched", "started", "bump", "done"}

WallNow == ToTimespec(mono + skew)
MonoNow == ToTimespec(mono)

Init ==
    /\ mono = 0
    /\ skew = 0
    /\ proc = [p \in Tools |-> Idle]
    /\ waiting = {}
    /\ base = [p \in Tools |-> 0]
    /\ alone = {}

At(p, pc) == proc[p].pc = pc

\* Between reading a clock and using what it said.
Pending(p) == proc[p].pc \in {"wall", "mono", "set", "reset", "bump"}

\* Time passes.  The bound leaves room for the strobes that are still starting.
Tick ==
    /\ mono < MaxTime
    /\ \A p \in Tools : proc[p].pc \in {"start", "wall", "mono", "end"} =>
                           mono + Duration < MaxTime
    /\ \A p \in Tools : Pending(p) => mono - proc[p].readAt < MaxDelay
    /\ mono' = mono + 1
    /\ UNCHANGED <<skew, proc, waiting, base, alone>>

\* The nemesis runs strobe-time!, or bump-time!, and waits for it.
Launch(p, pc, kind, delta) ==
    /\ waiting = {}
    /\ At(p, "idle")
    /\ proc' = [proc EXCEPT ![p] = [Idle EXCEPT !.pc = pc, !.kind = kind,
                                                     !.delta = delta]]
    /\ waiting' = waiting \cup {p}
    /\ base' = [base EXCEPT ![p] = skew]
    /\ alone' = alone \cup {p}
    /\ UNCHANGED <<mono, skew>>

StartStrobe(p, delta) ==
    mono + Duration <= MaxTime /\ Launch(p, "start", "strobe", delta)
StartBump(p, delta) == Launch(p, "launched", "bump", delta)
StartBumptime(p, delta) == Launch(p, "started", "bumptime", delta)

\* reset-time!: ntpdate -b.  External: it steps the wall clock to the right time.
Reset ==
    /\ waiting = {}
    /\ skew' = 0
    /\ alone' = {}
    /\ UNCHANGED <<mono, proc, waiting, base>>

\* The session to the node fails, and exec throws: the program runs on, and
\* the nemesis goes on, or control.retry starts the command again.
LoseSession ==
    /\ LostSessions
    /\ waiting # {}
    /\ waiting' = {}
    /\ UNCHANGED <<mono, skew, proc, base, alone>>

\* One step of program p, which leaves the clocks alone.
Step(p, next) ==
    /\ proc' = [proc EXCEPT ![p] = next]
    /\ UNCHANGED <<mono, skew, waiting, base, alone>>

\* The arguments of sub_timespec(wall_now(), monotonic_now()): the first read
\* may be either.
ReadOneClock(p) ==
    /\ At(p, "start")
    /\ \/ Step(p, [proc[p] EXCEPT !.pc = "wall", !.wall = WallNow, !.readAt = mono])
       \/ Step(p, [proc[p] EXCEPT !.pc = "mono", !.mono = MonoNow, !.readAt = mono])

\* The second, and normal_offset.
ReadOtherClock(p) ==
    /\ At(p, "wall") \/ At(p, "mono")
    /\ LET wall == IF At(p, "wall") THEN proc[p].wall ELSE WallNow
           now  == IF At(p, "mono") THEN proc[p].mono ELSE MonoNow
       IN  Step(p, [proc[p] EXCEPT !.pc = "end", !.normal = Sub(wall, now),
                                   !.wall = Zero, !.mono = Zero, !.readAt = 0])

ReadEnd(p) ==
    /\ At(p, "end")
    /\ Step(p, [proc[p] EXCEPT !.pc = "test",
                               !.end = Add(MonoNow, NanosToTimespec(Duration))])

\* The condition of the loop.
Test(p) ==
    /\ At(p, "test")
    /\ Step(p, [proc[p] EXCEPT !.pc = IF 0 < Cmp(MonoNow, proc[p].end)
                                      THEN "read" ELSE "final"])

WeirdOffset(p) == Add(proc[p].normal, NanosToTimespec(proc[p].delta))

\* Mutant: the next time is computed from the wall clock.
ReadFromWall(p) ==
    /\ At(p, "read") \/ At(p, "final")
    /\ LET delta  == NanosToTimespec(proc[p].delta)
           back   == NanosToTimespec(-proc[p].delta)
       IN  Step(p, [proc[p] EXCEPT
                      !.pc     = IF At(p, "read") THEN "set" ELSE "reset",
                      !.readAt = mono,
                      !.now    = IF proc[p].weird THEN Add(WallNow, back)
                                 ELSE IF At(p, "read") THEN Add(WallNow, delta)
                                 ELSE WallNow])

\* The time to set the clock to, in the loop and after it.
ReadClock(p) ==
    /\ At(p, "read") \/ At(p, "final")
    /\ LET offset == IF At(p, "final") \/ proc[p].weird
                     THEN proc[p].normal ELSE WeirdOffset(p)
       IN  Step(p, [proc[p] EXCEPT
                      !.pc     = IF At(p, "read") THEN "set" ELSE "reset",
                      !.readAt = mono,
                      !.now    = Add(MonoNow, offset)])

\* bump-time.c, up to clock_settime.
ReadBump(p) ==
    /\ At(p, "launched")
    /\ LET delta == NanosToTimespec(proc[p].delta)
       IN  Step(p, [proc[p] EXCEPT !.pc = "bump", !.readAt = mono,
                                   !.now = Add(WallNow, delta)])

\* bumptime.c, up to settimeofday: gettimeofday leaves out what is less than a
\* microsecond, and so does delta, rounded towards zero.  The loops are those of
\* balance_timespec_m, on microseconds: the same, scaled by a constant.
ReadBumptime(p) ==
    /\ At(p, "started")
    /\ LET delta == NanosToTimespec(ToMicros(proc[p].delta))
           time  == Timespec(WallNow.sec, WallNow.nsec - (WallNow.nsec % NanosPerMicro))
       IN  Step(p, [proc[p] EXCEPT !.pc = "bump", !.readAt = mono,
                                   !.now = Add(time, delta)])

\* clock_settime or settimeofday, for all four.  The kernel refuses a time that is not
\* balanced: TimesAreBalanced says there is none.  After it the loop sleeps
\* for its period and tests its condition at some later time.
SetWallClock(p) ==
    /\ At(p, "set") \/ At(p, "reset") \/ At(p, "bump")
    /\ skew' = Nanos(proc[p].now) - mono
    /\ proc' = [proc EXCEPT ![p] =
                  IF At(p, "set")
                  THEN [proc[p] EXCEPT !.pc = "test", !.weird = ~proc[p].weird,
                                       !.now = Zero, !.readAt = 0]
                  ELSE [Idle EXCEPT !.pc = "done", !.kind = proc[p].kind]]
    /\ waiting' = IF At(p, "set") THEN waiting ELSE waiting \ {p}
    /\ base' = IF At(p, "set") THEN base ELSE [base EXCEPT ![p] = 0]
    /\ alone' = IF At(p, "set") THEN alone \cap {p} ELSE {}
    /\ UNCHANGED mono

\* clock_gettime, clock_settime or nanosleep fails, and the program exits: the
\* clock stays where it is.
SyscallFails(p) ==
    /\ Failures
    /\ ~At(p, "idle") /\ ~At(p, "done")
    /\ proc' = [proc EXCEPT ![p] = [Idle EXCEPT !.pc = "done", !.kind = "failed"]]
    /\ waiting' = waiting \ {p}
    /\ base' = [base EXCEPT ![p] = 0]
    /\ alone' = alone \ {p}
    /\ UNCHANGED <<mono, skew>>

Run(p) ==
    \/ ReadOneClock(p) \/ ReadOtherClock(p) \/ ReadEnd(p) \/ Test(p)
    \/ ReadClock(p) \/ ReadBump(p) \/ ReadBumptime(p) \/ SetWallClock(p)

Next ==
    \/ Tick
    \/ \E p \in Tools, d \in Deltas : StartStrobe(p, d) \/ StartBump(p, d)
                                    \/ StartBumptime(p, d)
    \/ Reset
    \/ LoseSession
    \/ \E p \in Tools : Run(p) \/ SyscallFails(p)

Spec == Init /\ [][Next]_vars
============================================================================
