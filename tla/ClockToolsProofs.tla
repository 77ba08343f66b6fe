-------------------------- MODULE ClockToolsProofs --------------------------
(***************************************************************************)
(* Every time the clock tools compute is one the kernel accepts, and every *)
(* time they set is the one they were asked for: for any length of a second*)
(* and of a microsecond, any deltas, any number of programs and any delays.*)
(***************************************************************************)
EXTENDS ClockToolsProperties, TLAPS

-----------------------------------------------------------------------------
(* Arithmetic of struct timespec. *)

(* Quotient and remainder, rounding down. *)
LEMMA DivMod ==
    ASSUME NEW x \in Int, NEW n \in Nat \ {0}
    PROVE  /\ x \div n \in Int
           /\ x % n \in 0 .. n - 1
           /\ x - (x \div n) * n = x % n
<1>1. x \div n \in Int
  OBVIOUS
<1>2. x % n \in 0 .. n - 1
  OBVIOUS
<1>3. x - n * (x \div n) = x % n
  BY Z3
<1>4. n * (x \div n) = (x \div n) * n
  BY <1>1
<1> QED  BY <1>1, <1>2, <1>3, <1>4

(* The rearrangement behind balance_timespec_m: what its two loops take from  *)
(* the seconds they give to the nanoseconds.                                  *)
LEMMA LoopsCancel ==
    ASSUME NEW s \in Int, NEW ns \in Int, NEW up \in Int, NEW down \in Int,
           NEW n \in Int
    PROVE  (s - up + down) * n + ((ns + up * n) - down * n) = s * n + ns
  OBVIOUS

LEMMA ProductInt == ASSUME NEW a \in Int, NEW b \in Int PROVE a * b \in Int
  OBVIOUS

(* The length of a time in nanoseconds is a whole number. *)
LEMMA NanosType == ASSUME NEW t \in Timespecs PROVE Nanos(t) \in Int
  BY ClockAssumption, ProductInt DEF Timespecs, Nanos

LEMMA TimespecNanos ==
    ASSUME NEW s \in Int, NEW n \in Int
    PROVE  /\ Timespec(s, n) \in Timespecs
           /\ Nanos(Timespec(s, n)) = s * NanosPerSec + n
           /\ Timespec(s, n).sec = s
           /\ Timespec(s, n).nsec = n
  BY DEF Timespec, Timespecs, Nanos

(* What the kernel's clocks read is balanced, and is the time it is. *)
LEMMA ClockReads ==
    ASSUME NEW x \in Int
    PROVE  /\ ToTimespec(x) \in Timespecs
           /\ Balanced(ToTimespec(x))
           /\ Nanos(ToTimespec(x)) = x
<1> DEFINE d == x \div NanosPerSec
           r == x % NanosPerSec
<1>1. NanosPerSec \in Nat \ {0}
  BY ClockAssumption
<1>2. d \in Int /\ r \in 0 .. NanosPerSec - 1 /\ x - d * NanosPerSec = r
  BY <1>1, DivMod
<1>3. r \in Int /\ d * NanosPerSec \in Int
  BY <1>1, <1>2, ProductInt
<1>4. ToTimespec(x) = Timespec(d, r)
  BY DEF ToTimespec
<1> HIDE DEF d, r
<1>5. ToTimespec(x) \in Timespecs /\ Nanos(ToTimespec(x)) = d * NanosPerSec + r
      /\ ToTimespec(x).nsec = r
  BY <1>2, <1>3, <1>4, TimespecNanos
<1> QED  BY <1>2, <1>3, <1>5 DEF Balanced

(* nanos_to_timespec keeps the time, though not balanced when it is negative. *)
LEMMA NanosRoundTrip ==
    ASSUME NEW x \in Int
    PROVE  /\ NanosToTimespec(x) \in Timespecs
           /\ Nanos(NanosToTimespec(x)) = x
<1> DEFINE w == IF x >= 0 THEN x \div NanosPerSec ELSE -((-x) \div NanosPerSec)
<1>1. NanosPerSec \in Nat \ {0}
  BY ClockAssumption
<1>2. (-x) \in Int
  OBVIOUS
<1>3. x \div NanosPerSec \in Int /\ (-x) \div NanosPerSec \in Int
  BY <1>1, <1>2, DivMod
<1>4. w \in Int
  BY <1>3
<1>5. NanosToTimespec(x) = Timespec(w, x - w * NanosPerSec)
  BY DEF NanosToTimespec
<1> HIDE DEF w
<1>6. w * NanosPerSec \in Int
  BY <1>1, <1>4, ProductInt
<1>7. x - w * NanosPerSec \in Int
  BY <1>6
<1>8. NanosToTimespec(x) \in Timespecs
      /\ Nanos(NanosToTimespec(x)) = w * NanosPerSec + (x - w * NanosPerSec)
  BY <1>4, <1>5, <1>7, TimespecNanos
<1> QED  BY <1>6, <1>8

LEMMA MicrosType == ASSUME NEW x \in Int PROVE ToMicros(x) \in Int
<1>1. NanosPerMicro \in Nat \ {0}
  BY ClockAssumption
<1>2. (-x) \in Int
  OBVIOUS
<1>3. x \div NanosPerMicro \in Int /\ (-x) \div NanosPerMicro \in Int
  BY <1>1, <1>2, DivMod
<1>4. (IF x >= 0 THEN x \div NanosPerMicro ELSE -((-x) \div NanosPerMicro)) \in Int
  BY <1>3
<1> QED  BY <1>1, <1>4, ProductInt DEF ToMicros

(* balance_timespec_m keeps the time and brings its nanoseconds in range,     *)
(* wherever they were.                                                        *)
LEMMA BalanceCorrect ==
    ASSUME NEW t \in Timespecs
    PROVE  /\ Balance(t) \in Timespecs
           /\ Balanced(Balance(t))
           /\ Nanos(Balance(t)) = Nanos(t)
<1> DEFINE up   == IF t.nsec <= NanosPerSec
                   THEN (NanosPerSec - t.nsec) \div NanosPerSec + 1 ELSE 0
           high == t.nsec + up * NanosPerSec
           down == high \div NanosPerSec
<1>1. NanosPerSec \in Nat \ {0} /\ t.sec \in Int /\ t.nsec \in Int
  BY ClockAssumption DEF Timespecs
<1>2. (NanosPerSec - t.nsec) \div NanosPerSec \in Int
  <2>1. NanosPerSec - t.nsec \in Int
    BY <1>1
  <2> QED  BY <1>1, <2>1, DivMod
<1>3. up \in Int
  BY <1>2
<1>4. Balance(t) = Timespec(t.sec - up + down, high - down * NanosPerSec)
  BY DEF Balance
<1> HIDE DEF up
<1>5. up * NanosPerSec \in Int
  BY <1>1, <1>3, ProductInt
<1>6. high \in Int
  BY <1>1, <1>5
<1>7. high = t.nsec + up * NanosPerSec
  OBVIOUS
<1> HIDE DEF high
<1>8. /\ down \in Int
      /\ high - down * NanosPerSec = high % NanosPerSec
      /\ high % NanosPerSec \in 0 .. NanosPerSec - 1
  BY <1>1, <1>6, DivMod
<1> HIDE DEF down
<1>9. high - down * NanosPerSec \in 0 .. NanosPerSec - 1
  BY <1>8
<1>10. t.sec - up + down \in Int /\ high - down * NanosPerSec \in Int
  BY <1>1, <1>3, <1>8, <1>9
<1>11. /\ Balance(t) \in Timespecs
       /\ Nanos(Balance(t)) = (t.sec - up + down) * NanosPerSec
                              + (high - down * NanosPerSec)
       /\ Balance(t).nsec = high - down * NanosPerSec
  BY <1>4, <1>10, TimespecNanos
<1>12. (t.sec - up + down) * NanosPerSec
          + ((t.nsec + up * NanosPerSec) - down * NanosPerSec)
       = t.sec * NanosPerSec + t.nsec
  BY <1>1, <1>3, <1>8, LoopsCancel
<1>13. Nanos(Balance(t)) = Nanos(t)
  BY <1>7, <1>11, <1>12 DEF Nanos
<1>14. Balanced(Balance(t))
  BY <1>9, <1>11 DEF Balanced
<1> QED  BY <1>11, <1>13, <1>14

(* add_timespec and sub_timespec compute sums and differences of times.  *)
LEMMA AddCorrect ==
    ASSUME NEW a \in Timespecs, NEW b \in Timespecs
    PROVE  /\ Add(a, b) \in Timespecs
           /\ Balanced(Add(a, b))
           /\ Nanos(Add(a, b)) = Nanos(a) + Nanos(b)
<1>1. NanosPerSec \in Int /\ a.sec \in Int /\ a.nsec \in Int /\ b.sec \in Int
      /\ b.nsec \in Int
  BY ClockAssumption DEF Timespecs
<1>2. a.sec + b.sec \in Int /\ a.nsec + b.nsec \in Int
  BY <1>1
<1> DEFINE sum == Timespec(a.sec + b.sec, a.nsec + b.nsec)
<1>3. /\ sum \in Timespecs
      /\ Nanos(sum) = (a.sec + b.sec) * NanosPerSec + (a.nsec + b.nsec)
  BY <1>2, TimespecNanos
<1>4. (a.sec + b.sec) * NanosPerSec + (a.nsec + b.nsec)
      = (a.sec * NanosPerSec + a.nsec) + (b.sec * NanosPerSec + b.nsec)
  BY <1>1
<1>5. Add(a, b) = Balance(sum)
  BY DEF Add
<1> HIDE DEF sum
<1>6. Nanos(sum) = Nanos(a) + Nanos(b)
  BY <1>3, <1>4 DEF Nanos
<1> QED  BY <1>3, <1>5, <1>6, BalanceCorrect

LEMMA SubCorrect ==
    ASSUME NEW a \in Timespecs, NEW b \in Timespecs
    PROVE  /\ Sub(a, b) \in Timespecs
           /\ Balanced(Sub(a, b))
           /\ Nanos(Sub(a, b)) = Nanos(a) - Nanos(b)
<1>1. NanosPerSec \in Int /\ a.sec \in Int /\ a.nsec \in Int /\ b.sec \in Int
      /\ b.nsec \in Int
  BY ClockAssumption DEF Timespecs
<1>2. a.sec - b.sec \in Int /\ a.nsec - b.nsec \in Int
  BY <1>1
<1> DEFINE rest == Timespec(a.sec - b.sec, a.nsec - b.nsec)
<1>3. /\ rest \in Timespecs
      /\ Nanos(rest) = (a.sec - b.sec) * NanosPerSec + (a.nsec - b.nsec)
  BY <1>2, TimespecNanos
<1>4. (a.sec - b.sec) * NanosPerSec + (a.nsec - b.nsec)
      = (a.sec * NanosPerSec + a.nsec) - (b.sec * NanosPerSec + b.nsec)
  BY <1>1
<1>5. Sub(a, b) = Balance(rest)
  BY DEF Sub
<1> HIDE DEF rest
<1>6. Nanos(rest) = Nanos(a) - Nanos(b)
  BY <1>3, <1>4 DEF Nanos
<1> QED  BY <1>3, <1>5, <1>6, BalanceCorrect

(* gettimeofday drops less than a microsecond.  *)
LEMMA MicrosDropped ==
    ASSUME NEW t \in Timespecs
    PROVE  LET time == Timespec(t.sec, t.nsec - (t.nsec % NanosPerMicro))
           IN  /\ time \in Timespecs
               /\ Nanos(time) - Nanos(t) \in -(NanosPerMicro - 1) .. 0
<1> DEFINE m == t.nsec % NanosPerMicro
           time == Timespec(t.sec, t.nsec - m)
<1>1. NanosPerMicro \in Nat \ {0} /\ NanosPerSec \in Int /\ t.sec \in Int
      /\ t.nsec \in Int
  BY ClockAssumption DEF Timespecs
<1>2. m \in 0 .. NanosPerMicro - 1
  BY <1>1, DivMod
<1> HIDE DEF m
<1>3. m \in Int /\ t.nsec - m \in Int /\ t.sec * NanosPerSec \in Int
  BY <1>1, <1>2, ProductInt
<1>4. time \in Timespecs /\ Nanos(time) = t.sec * NanosPerSec + (t.nsec - m)
  BY <1>1, <1>3, TimespecNanos
<1>5. Nanos(time) - Nanos(t) = -m
  BY <1>1, <1>3, <1>4 DEF Nanos
<1>6. -m \in -(NanosPerMicro - 1) .. 0
  BY <1>1, <1>2
<1> QED  BY <1>4, <1>5, <1>6 DEF m

-----------------------------------------------------------------------------
(* Type correctness, with TimesAreBalanced. *)

(* A program that does not run is in order.  *)
LEMMA IdleType == Idle \in Programs /\ Zero \in Timespecs /\ Balanced(Zero)
<1>1. Zero \in Timespecs /\ Balanced(Zero)
  BY ClockAssumption DEF Zero, Timespec, Timespecs, Balanced
<1> QED  BY <1>1 DEF Idle, Programs, Steps, Kinds

(* The clocks as the programs read them.  *)
LEMMA NowReads ==
    ASSUME TypeOK
    PROVE  /\ MonoNow \in Timespecs /\ Nanos(MonoNow) = mono
           /\ WallNow \in Timespecs /\ Nanos(WallNow) = mono + skew
<1>1. mono \in Int /\ mono + skew \in Int
  BY ClockAssumption DEF TypeOK
<1> QED  BY <1>1, ClockReads DEF MonoNow, WallNow

(* Deltas and times of a program.  *)
LEMMA ProgramFields ==
    ASSUME TypeOK, NEW p \in Tools
    PROVE  /\ proc[p] \in Programs
           /\ proc[p].wall \in Timespecs /\ proc[p].mono \in Timespecs
           /\ proc[p].normal \in Timespecs /\ proc[p].now \in Timespecs
           /\ proc[p].delta \in Int
           /\ proc[p].readAt \in Int
           /\ base[p] \in Int
<1>1. proc[p] \in Programs /\ base[p] \in Int
  BY DEF TypeOK
<1>2. Deltas \cup {0} \subseteq Int
  BY ClockAssumption
<1> QED  BY <1>1, <1>2 DEF Programs

(* What a program's step may put into its variables.  *)
BalancedProgram(next) ==
    /\ next \in Programs
    /\ Balanced(next.now) /\ Balanced(next.normal) /\ Balanced(next.end)

LEMMA StepPreserves ==
    ASSUME TypeOK, TimesAreBalanced, NEW p \in Tools, NEW next, Step(p, next),
           BalancedProgram(next)
    PROVE  TypeOK' /\ TimesAreBalanced'
<1>1. proc' = [proc EXCEPT ![p] = next]
  BY DEF Step
<1>2. TypeOK'
  BY <1>1 DEF TypeOK, Step, BalancedProgram
<1>3. ASSUME NEW q \in Tools PROVE proc'[q] = IF q = p THEN next ELSE proc[q]
  BY <1>1 DEF TypeOK
<1>4. TimesAreBalanced'
  BY <1>3 DEF TimesAreBalanced, BalancedProgram
<1> QED  BY <1>2, <1>4

LEMMA ReadOneClockTypes ==
    ASSUME TypeOK, TimesAreBalanced, NEW p \in Tools, ReadOneClock(p)
    PROVE  TypeOK' /\ TimesAreBalanced'
<1>1. /\ proc[p] \in Programs
      /\ Balanced(proc[p].now) /\ Balanced(proc[p].normal) /\ Balanced(proc[p].end)
      /\ WallNow \in Timespecs /\ MonoNow \in Timespecs /\ mono \in Int
  BY ProgramFields, NowReads, ClockAssumption DEF TimesAreBalanced, TypeOK
<1>2. BalancedProgram([proc[p] EXCEPT !.pc = "wall", !.wall = WallNow, !.readAt = mono])
  BY <1>1 DEF BalancedProgram, Programs, Steps
<1>3. BalancedProgram([proc[p] EXCEPT !.pc = "mono", !.mono = MonoNow, !.readAt = mono])
  BY <1>1 DEF BalancedProgram, Programs, Steps
<1> QED  BY <1>2, <1>3, StepPreserves DEF ReadOneClock

LEMMA ReadOtherClockTypes ==
    ASSUME TypeOK, TimesAreBalanced, NEW p \in Tools, ReadOtherClock(p)
    PROVE  TypeOK' /\ TimesAreBalanced'
<1> DEFINE wall == IF At(p, "wall") THEN proc[p].wall ELSE WallNow
           now  == IF At(p, "mono") THEN proc[p].mono ELSE MonoNow
           next == [proc[p] EXCEPT !.pc = "end", !.normal = Sub(wall, now),
                                   !.wall = Zero, !.mono = Zero, !.readAt = 0]
<1>1. proc[p] \in Programs /\ Balanced(proc[p].now) /\ Balanced(proc[p].end)
  BY ProgramFields DEF TimesAreBalanced
<1>2. wall \in Timespecs /\ now \in Timespecs
  BY ProgramFields, NowReads
<1>3. Step(p, next)
  BY DEF ReadOtherClock
<1> HIDE DEF wall, now
<1>4. Sub(wall, now) \in Timespecs /\ Balanced(Sub(wall, now))
  BY <1>2, SubCorrect
<1> DEFINE diff == Sub(wall, now)
<1> HIDE DEF diff
<1>5. next = [proc[p] EXCEPT !.pc = "end", !.normal = diff, !.wall = Zero,
                             !.mono = Zero, !.readAt = 0]
  BY DEF diff
<1>6. diff \in Timespecs /\ Balanced(diff) /\ Zero \in Timespecs
  BY <1>4, IdleType DEF diff
<1> HIDE DEF next
<1>7. next \in Programs
  <2> DEFINE half == [proc[p] EXCEPT !.pc = "end", !.normal = diff, !.wall = Zero]
             zero == 0
  <2>1. half \in Programs
    BY <1>1, <1>6 DEF Programs, Steps
  <2>2. next = [half EXCEPT !.mono = Zero, !.readAt = zero] /\ zero \in Int
    BY <1>5
  <2> HIDE DEF half, zero
  <2> QED  BY <1>6, <2>1, <2>2 DEF Programs
<1>8. Balanced(next.now) /\ Balanced(next.normal) /\ Balanced(next.end)
  BY <1>1, <1>5, <1>6 DEF Programs
<1> QED  BY <1>3, <1>7, <1>8, StepPreserves DEF BalancedProgram

LEMMA ReadEndTypes ==
    ASSUME TypeOK, TimesAreBalanced, NEW p \in Tools, ReadEnd(p)
    PROVE  TypeOK' /\ TimesAreBalanced'
<1> DEFINE end  == Add(MonoNow, NanosToTimespec(Duration))
           next == [proc[p] EXCEPT !.pc = "test", !.end = end]
<1>1. proc[p] \in Programs /\ Balanced(proc[p].now) /\ Balanced(proc[p].normal)
  BY ProgramFields DEF TimesAreBalanced
<1>2. Duration \in Int
  BY ClockAssumption
<1>3. MonoNow \in Timespecs /\ NanosToTimespec(Duration) \in Timespecs
  BY <1>2, NowReads, NanosRoundTrip
<1>4. end \in Timespecs /\ Balanced(end)
  BY <1>3, AddCorrect
<1>5. Step(p, next)
  BY DEF ReadEnd
<1> HIDE DEF end
<1>6. BalancedProgram(next)
  BY <1>1, <1>4 DEF BalancedProgram, Programs, Steps
<1> HIDE DEF next
<1> QED  BY <1>5, <1>6, StepPreserves

LEMMA TestTypes ==
    ASSUME TypeOK, TimesAreBalanced, NEW p \in Tools, Test(p)
    PROVE  TypeOK' /\ TimesAreBalanced'
<1> DEFINE pc == IF 0 < Cmp(MonoNow, proc[p].end) THEN "read" ELSE "final"
           next == [proc[p] EXCEPT !.pc = pc]
<1>1. /\ proc[p] \in Programs
      /\ Balanced(proc[p].now) /\ Balanced(proc[p].normal) /\ Balanced(proc[p].end)
  BY ProgramFields DEF TimesAreBalanced
<1>2. pc \in Steps
  BY DEF Steps
<1>3. Step(p, next)
  BY DEF Test
<1> HIDE DEF pc
<1>4. BalancedProgram(next)
  BY <1>1, <1>2 DEF BalancedProgram, Programs
<1> HIDE DEF next
<1> QED  BY <1>3, <1>4, StepPreserves

(* The three reads that compute a time to set.  *)
LEMMA NextTimeTypes ==
    ASSUME TypeOK, TimesAreBalanced, NEW p \in Tools, NEW pc \in Steps,
           NEW a \in Timespecs, NEW b \in Timespecs,
           Step(p, [proc[p] EXCEPT !.pc = pc, !.readAt = mono, !.now = Add(a, b)])
    PROVE  TypeOK' /\ TimesAreBalanced'
<1> DEFINE next == [proc[p] EXCEPT !.pc = pc, !.readAt = mono, !.now = Add(a, b)]
<1>1. /\ proc[p] \in Programs /\ mono \in Int
      /\ Balanced(proc[p].normal) /\ Balanced(proc[p].end)
  BY ProgramFields, ClockAssumption DEF TimesAreBalanced, TypeOK
<1>2. Add(a, b) \in Timespecs /\ Balanced(Add(a, b))
  BY AddCorrect
<1>3. BalancedProgram(next)
  BY <1>1, <1>2 DEF BalancedProgram, Programs
<1>4. Step(p, next)
  OBVIOUS
<1> HIDE DEF next
<1> QED  BY <1>3, <1>4, StepPreserves

LEMMA WeirdOffsetType ==
    ASSUME TypeOK, NEW p \in Tools
    PROVE  /\ WeirdOffset(p) \in Timespecs
           /\ Nanos(WeirdOffset(p)) = Nanos(proc[p].normal) + proc[p].delta
<1>1. proc[p].normal \in Timespecs /\ proc[p].delta \in Int
  BY ProgramFields
<1>2. NanosToTimespec(proc[p].delta) \in Timespecs
      /\ Nanos(NanosToTimespec(proc[p].delta)) = proc[p].delta
  BY <1>1, NanosRoundTrip
<1> QED  BY <1>1, <1>2, AddCorrect DEF WeirdOffset

LEMMA ReadClockTypes ==
    ASSUME TypeOK, TimesAreBalanced, NEW p \in Tools, ReadClock(p)
    PROVE  TypeOK' /\ TimesAreBalanced'
<1> DEFINE offset == IF At(p, "final") \/ proc[p].weird
                     THEN proc[p].normal ELSE WeirdOffset(p)
           pc     == IF At(p, "read") THEN "set" ELSE "reset"
<1>1. offset \in Timespecs
  BY ProgramFields, WeirdOffsetType
<1>2. pc \in Steps
  BY DEF Steps
<1>3. MonoNow \in Timespecs
  BY NowReads
<1>4. Step(p, [proc[p] EXCEPT !.pc = pc, !.readAt = mono, !.now = Add(MonoNow, offset)])
  BY DEF ReadClock
<1> HIDE DEF offset, pc
<1> QED  BY <1>1, <1>2, <1>3, <1>4, NextTimeTypes

LEMMA ReadBumpTypes ==
    ASSUME TypeOK, TimesAreBalanced, NEW p \in Tools, ReadBump(p) \/ ReadBumptime(p)
    PROVE  TypeOK' /\ TimesAreBalanced'
<1>1. WallNow \in Timespecs /\ proc[p].delta \in Int
  BY NowReads, ProgramFields
<1>2. "bump" \in Steps
  BY DEF Steps
<1>3. CASE ReadBump(p)
  <2>1. NanosToTimespec(proc[p].delta) \in Timespecs
    BY <1>1, NanosRoundTrip
  <2>2. Step(p, [proc[p] EXCEPT !.pc = "bump", !.readAt = mono,
                   !.now = Add(WallNow, NanosToTimespec(proc[p].delta))])
    BY <1>3 DEF ReadBump
  <2> QED  BY <1>1, <1>2, <2>1, <2>2, NextTimeTypes
<1>4. CASE ReadBumptime(p)
  <2> DEFINE time == Timespec(WallNow.sec, WallNow.nsec - (WallNow.nsec % NanosPerMicro))
  <2>1. NanosToTimespec(ToMicros(proc[p].delta)) \in Timespecs
    BY <1>1, MicrosType, NanosRoundTrip
  <2>2. time \in Timespecs
    BY <1>1, MicrosDropped
  <2>3. Step(p, [proc[p] EXCEPT !.pc = "bump", !.readAt = mono,
                   !.now = Add(time, NanosToTimespec(ToMicros(proc[p].delta)))])
    BY <1>4 DEF ReadBumptime
  <2> HIDE DEF time
  <2> QED  BY <1>2, <2>1, <2>2, <2>3, NextTimeTypes
<1> QED  BY <1>3, <1>4

(* The programs that exit, or start.  *)
LEMMA ExitTypes ==
    ASSUME TypeOK, TimesAreBalanced, NEW p \in Tools, NEW next \in Programs,
           BalancedProgram(next), proc' = [proc EXCEPT ![p] = next]
    PROVE  proc' \in [Tools -> Programs] /\ TimesAreBalanced'
<1>1. proc' \in [Tools -> Programs]
  BY DEF TypeOK
<1>2. ASSUME NEW q \in Tools PROVE proc'[q] = IF q = p THEN next ELSE proc[q]
  BY DEF TypeOK
<1> QED  BY <1>1, <1>2 DEF TimesAreBalanced, BalancedProgram

LEMMA IdleIsBalanced ==
    ASSUME NEW pc \in Steps, NEW kind \in Kinds, NEW d \in Deltas \cup {0}
    PROVE  /\ BalancedProgram([Idle EXCEPT !.pc = pc, !.kind = kind, !.delta = d])
           /\ BalancedProgram([Idle EXCEPT !.pc = pc, !.kind = kind])
<1>1. Idle \in Programs /\ Balanced(Idle.now) /\ Balanced(Idle.normal)
      /\ Balanced(Idle.end)
  BY IdleType DEF Idle
<1> QED  BY <1>1 DEF BalancedProgram, Programs

LEMMA LaunchTypes ==
    ASSUME TypeOK, TimesAreBalanced, NEW p \in Tools, NEW pc \in Steps,
           NEW kind \in Kinds, NEW d \in Deltas, Launch(p, pc, kind, d)
    PROVE  TypeOK' /\ TimesAreBalanced'
<1> DEFINE next == [Idle EXCEPT !.pc = pc, !.kind = kind, !.delta = d]
<1>1. BalancedProgram(next)
  BY IdleIsBalanced
<1>2. proc' = [proc EXCEPT ![p] = next]
  BY DEF Launch
<1> HIDE DEF next
<1>3. proc' \in [Tools -> Programs] /\ TimesAreBalanced'
  BY <1>1, <1>2, ExitTypes DEF BalancedProgram
<1>4. TypeOK'
  BY <1>3 DEF TypeOK, Launch
<1> QED  BY <1>3, <1>4

LEMMA SetWallClockTypes ==
    ASSUME TypeOK, TimesAreBalanced, NEW p \in Tools, SetWallClock(p)
    PROVE  TypeOK' /\ TimesAreBalanced'
<1> DEFINE flip == ~proc[p].weird
           on   == [proc[p] EXCEPT !.pc = "test", !.weird = flip, !.now = Zero, !.readAt = 0]
           off  == [Idle EXCEPT !.pc = "done", !.kind = proc[p].kind]
           next == IF At(p, "set") THEN on ELSE off
<1>1. /\ proc[p] \in Programs /\ Balanced(proc[p].normal) /\ Balanced(proc[p].end)
      /\ proc[p].kind \in Kinds
  BY ProgramFields DEF TimesAreBalanced, Programs
<1>2. BalancedProgram(on)
  <2>1. flip \in BOOLEAN
    BY <1>1 DEF Programs
  <2> HIDE DEF flip
  <2>2. on \in Programs
    <3> DEFINE half == [proc[p] EXCEPT !.pc = "test", !.weird = flip]
               zero == 0
    <3>1. half \in Programs
      BY <1>1, <2>1 DEF Programs, Steps
    <3>2. on = [half EXCEPT !.now = Zero, !.readAt = zero] /\ zero \in Int
      OBVIOUS
    <3> HIDE DEF half, zero
    <3> QED  BY <3>1, <3>2, IdleType DEF Programs
  <2>3. on.now = Zero /\ on.normal = proc[p].normal /\ on.end = proc[p].end
    BY <1>1 DEF Programs
  <2> QED  BY <1>1, <2>2, <2>3, IdleType DEF BalancedProgram
<1>3. BalancedProgram(off)
  BY <1>1, IdleIsBalanced DEF Steps
<1>4. BalancedProgram(next)
  BY <1>2, <1>3
<1>5. proc' = [proc EXCEPT ![p] = next]
  <2>1. CASE At(p, "set")
    BY <2>1, Zenon DEF SetWallClock
  <2>2. CASE ~At(p, "set")
    BY <2>2, Zenon DEF SetWallClock
  <2> QED  BY <2>1, <2>2
<1> HIDE DEF next
<1>6. proc' \in [Tools -> Programs] /\ TimesAreBalanced'
  BY <1>4, <1>5, ExitTypes DEF BalancedProgram
<1>7. mono' \in 0 .. MaxTime /\ skew' \in Int
  <2>1. Nanos(proc[p].now) \in Int
    BY ProgramFields, NanosType
  <2> QED  BY <2>1, ClockAssumption DEF TypeOK, SetWallClock
<1>8. base' \in [Tools -> Int]
  BY DEF TypeOK, SetWallClock
<1>9. waiting' \in {{}} \cup {{q} : q \in Tools} /\ alone' \subseteq Tools
  BY DEF TypeOK, SetWallClock
<1> QED  BY <1>6, <1>7, <1>8, <1>9 DEF TypeOK

LEMMA SyscallFailsTypes ==
    ASSUME TypeOK, TimesAreBalanced, NEW p \in Tools, SyscallFails(p)
    PROVE  TypeOK' /\ TimesAreBalanced'
<1> DEFINE next == [Idle EXCEPT !.pc = "done", !.kind = "failed"]
<1>1. BalancedProgram(next)
  BY IdleIsBalanced DEF Steps, Kinds
<1>2. proc' = [proc EXCEPT ![p] = next]
  BY DEF SyscallFails
<1> HIDE DEF next
<1>3. proc' \in [Tools -> Programs] /\ TimesAreBalanced'
  BY <1>1, <1>2, ExitTypes DEF BalancedProgram
<1>4. TypeOK'
  BY <1>3 DEF TypeOK, SyscallFails
<1> QED  BY <1>3, <1>4

LEMMA TypeStep == ASSUME TypeOK, TimesAreBalanced, [Next]_vars
                  PROVE  TypeOK' /\ TimesAreBalanced'
<1>1. CASE Tick
  BY <1>1, ClockAssumption DEF Tick, TypeOK, TimesAreBalanced
<1>2. ASSUME NEW p \in Tools, NEW d \in Deltas,
             StartStrobe(p, d) \/ StartBump(p, d) \/ StartBumptime(p, d)
      PROVE  TypeOK' /\ TimesAreBalanced'
  <2>1. /\ "start" \in Steps /\ "launched" \in Steps /\ "started" \in Steps
        /\ "strobe" \in Kinds /\ "bump" \in Kinds /\ "bumptime" \in Kinds
    BY DEF Steps, Kinds
  <2> QED  BY <1>2, <2>1, LaunchTypes DEF StartStrobe, StartBump, StartBumptime
<1>3. CASE Reset
  BY <1>3 DEF Reset, TypeOK, TimesAreBalanced
<1>4. CASE LoseSession
  BY <1>4 DEF LoseSession, TypeOK, TimesAreBalanced
<1>5. ASSUME NEW p \in Tools, Run(p) PROVE TypeOK' /\ TimesAreBalanced'
  BY <1>5, ReadOneClockTypes, ReadOtherClockTypes, ReadEndTypes, TestTypes,
     ReadClockTypes, ReadBumpTypes, SetWallClockTypes DEF Run
<1>6. ASSUME NEW p \in Tools, SyscallFails(p) PROVE TypeOK' /\ TimesAreBalanced'
  BY <1>6, SyscallFailsTypes
<1>7. CASE UNCHANGED vars
  BY <1>7 DEF vars, TypeOK, TimesAreBalanced
<1> QED  BY <1>1, <1>2, <1>3, <1>4, <1>5, <1>6, <1>7 DEF Next

(* The variables keep their types, and every time that strobe-time, bump-time *)
(* and bumptime hold or set is balanced: for every length of a second, every  *)
(* delta, of either sign, and wherever the clocks stand, clock_settime never  *)
(* refuses a time for its nanoseconds.                                        *)
THEOREM ClockTimesAreBalanced == Spec => [](TypeOK /\ TimesAreBalanced)
<1>1. Init => TypeOK /\ TimesAreBalanced
  <2> SUFFICES ASSUME Init PROVE TypeOK /\ TimesAreBalanced
    OBVIOUS
  <2>1. Balanced(Idle.now) /\ Balanced(Idle.normal) /\ Balanced(Idle.end)
    BY IdleType DEF Idle
  <2>2. proc \in [Tools -> Programs] /\ \A p \in Tools : proc[p] = Idle
    BY IdleType DEF Init
  <2>3. TimesAreBalanced
    BY <2>1, <2>2 DEF TimesAreBalanced
  <2>4. TypeOK
    BY <2>2, ClockAssumption DEF Init, TypeOK
  <2> QED  BY <2>3, <2>4
<1>2. TypeOK /\ TimesAreBalanced /\ [Next]_vars => (TypeOK /\ TimesAreBalanced)'
  BY TypeStep
<1> QED  BY <1>1, <1>2, PTL DEF Spec

-----------------------------------------------------------------------------
(* The clock is where it was asked to be. *)

(* What ClockInv says of one program. *)
ReadIsRecent(q) == Pending(q) => mono - proc[q].readAt \in 0 .. MaxDelay
OnCourse(q) == /\ StillWhereFound(q)
               /\ FirstClockRead(q)
               /\ NormalIsClose(q)
               /\ TimeToSet(q)
InOrder(q) == /\ ReadIsRecent(q)
              /\ KindFollowsStep(q)
              /\ q \in alone => OnCourse(q)

LEMMA ClockInvByProgram ==
    ASSUME TypeOK
    PROVE  ClockInv <=> \A q \in Tools : InOrder(q)
  BY DEF TypeOK, ClockInv, InOrder, OnCourse, ReadIsRecent, ReadsAreRecent

(* A step leaves the programs alone that it does not run.  *)
LEMMA OthersInOrder ==
    ASSUME NEW q \in Tools, InOrder(q), proc'[q] = proc[q], base'[q] = base[q],
           mono' = mono, q \in alone' => q \in alone /\ skew' = skew
    PROVE  InOrder(q)'
<1>1. ReadIsRecent(q)'
  BY DEF InOrder, ReadIsRecent, Pending
<1>2. KindFollowsStep(q)'
  BY DEF InOrder, KindFollowsStep
<1>3. ASSUME q \in alone' PROVE OnCourse(q)'
  <2>1. OnCourse(q) /\ skew' = skew
    BY <1>3 DEF InOrder
  <2>2. StillWhereFound(q)' /\ FirstClockRead(q)' /\ NormalIsClose(q)'
    BY <2>1 DEF OnCourse, StillWhereFound, FirstClockRead, NormalIsClose
  <2>3. TimeToSet(q)'
    BY <2>1 DEF OnCourse, TimeToSet, Asked, Grain
  <2> QED  BY <2>2, <2>3 DEF OnCourse
<1> QED  BY <1>1, <1>2, <1>3 DEF InOrder

(* A step of one program: it is enough to look at that one.  *)
LEMMA StepInOrder ==
    ASSUME TypeOK, \A q \in Tools : InOrder(q), NEW p \in Tools, NEW next,
           Step(p, next), proc'[p] = next => InOrder(p)'
    PROVE  \A q \in Tools : InOrder(q)'
<1>1. proc'[p] = next /\ \A q \in Tools \ {p} : proc'[q] = proc[q]
  BY DEF Step, TypeOK
<1>2. mono' = mono /\ skew' = skew /\ base' = base /\ alone' = alone
  BY DEF Step
<1>3. ASSUME NEW q \in Tools, q # p PROVE InOrder(q)'
  BY <1>1, <1>2, <1>3, OthersInOrder
<1> QED  BY <1>1, <1>3

LEMMA ReadOneClockInOrder ==
    ASSUME TypeOK, \A q \in Tools : InOrder(q), NEW p \in Tools, ReadOneClock(p)
    PROVE  \A q \in Tools : InOrder(q)'
<1>1. /\ proc[p] \in Programs /\ mono \in Int /\ skew \in Int /\ base[p] \in Int
      /\ MaxDelay \in Nat
  BY ProgramFields, ClockAssumption DEF TypeOK
<1>2. proc[p].pc = "start" /\ proc[p].kind = "strobe"
  BY DEF ReadOneClock, At, InOrder, KindFollowsStep
<1>3. p \in alone => skew = base[p]
  BY <1>2 DEF InOrder, OnCourse, StillWhereFound
<1>4. CASE Step(p, [proc[p] EXCEPT !.pc = "wall", !.wall = WallNow, !.readAt = mono])
  <2> DEFINE next == [proc[p] EXCEPT !.pc = "wall", !.wall = WallNow, !.readAt = mono]
  <2>1. next.pc = "wall" /\ next.wall = WallNow /\ next.readAt = mono
        /\ next.kind = "strobe"
    BY <1>1, <1>2 DEF Programs
  <2>2. Step(p, next)
    BY <1>4
  <2> HIDE DEF next
  <2> SUFFICES ASSUME proc'[p] = next PROVE InOrder(p)'
    BY <2>2, StepInOrder
  <2>3. mono' = mono /\ skew' = skew /\ base' = base /\ alone' = alone
    BY <2>2 DEF Step
  <2>4. ReadIsRecent(p)'
    BY <1>1, <2>1, <2>3 DEF ReadIsRecent
  <2>5. KindFollowsStep(p)'
    BY <2>1 DEF KindFollowsStep
  <2>6. ASSUME p \in alone PROVE OnCourse(p)'
    <3>1. Nanos(WallNow) = mono + base[p]
      BY <1>3, <2>6, NowReads
    <3> QED  BY <1>3, <2>1, <2>3, <2>6, <3>1
             DEF OnCourse, StillWhereFound, FirstClockRead, NormalIsClose, TimeToSet
  <2> QED  BY <2>3, <2>4, <2>5, <2>6 DEF InOrder
<1>5. CASE Step(p, [proc[p] EXCEPT !.pc = "mono", !.mono = MonoNow, !.readAt = mono])
  <2> DEFINE next == [proc[p] EXCEPT !.pc = "mono", !.mono = MonoNow, !.readAt = mono]
  <2>1. next.pc = "mono" /\ next.mono = MonoNow /\ next.readAt = mono
        /\ next.kind = "strobe"
    BY <1>1, <1>2 DEF Programs
  <2>2. Step(p, next)
    BY <1>5
  <2> HIDE DEF next
  <2> SUFFICES ASSUME proc'[p] = next PROVE InOrder(p)'
    BY <2>2, StepInOrder
  <2>3. mono' = mono /\ skew' = skew /\ base' = base /\ alone' = alone
    BY <2>2 DEF Step
  <2>4. ReadIsRecent(p)'
    BY <1>1, <2>1, <2>3 DEF ReadIsRecent
  <2>5. KindFollowsStep(p)'
    BY <2>1 DEF KindFollowsStep
  <2>6. ASSUME p \in alone PROVE OnCourse(p)'
    BY <1>3, <2>1, <2>3, <2>6, NowReads
    DEF OnCourse, StillWhereFound, FirstClockRead, NormalIsClose, TimeToSet
  <2> QED  BY <2>3, <2>4, <2>5, <2>6 DEF InOrder
<1> QED  BY <1>4, <1>5 DEF ReadOneClock

(* normal_offset, whichever clock was read first.  *)
LEMMA ReadOtherClockInOrder ==
    ASSUME TypeOK, \A q \in Tools : InOrder(q), NEW p \in Tools, ReadOtherClock(p)
    PROVE  \A q \in Tools : InOrder(q)'
<1> DEFINE wall == IF At(p, "wall") THEN proc[p].wall ELSE WallNow
           now  == IF At(p, "mono") THEN proc[p].mono ELSE MonoNow
           next == [proc[p] EXCEPT !.pc = "end", !.normal = Sub(wall, now),
                                   !.wall = Zero, !.mono = Zero, !.readAt = 0]
<1>1. /\ proc[p] \in Programs /\ mono \in Int /\ skew \in Int /\ base[p] \in Int
      /\ proc[p].readAt \in Int /\ MaxDelay \in Nat
  BY ProgramFields, ClockAssumption DEF TypeOK
<1>2. proc[p].pc \in {"wall", "mono"} /\ proc[p].kind = "strobe"
  BY DEF ReadOtherClock, At, InOrder, KindFollowsStep
<1>3. Step(p, next)
  BY DEF ReadOtherClock
<1>4. wall \in Timespecs /\ now \in Timespecs
  BY ProgramFields, NowReads
<1>5. p \in alone => Nanos(wall) - Nanos(now) - base[p] \in -MaxDelay .. MaxDelay
  <2> SUFFICES ASSUME p \in alone
               PROVE  Nanos(wall) - Nanos(now) - base[p] \in -MaxDelay .. MaxDelay
    OBVIOUS
  <2>1. skew = base[p] /\ mono - proc[p].readAt \in 0 .. MaxDelay
    BY <1>2 DEF InOrder, OnCourse, StillWhereFound, ReadIsRecent, Pending
  <2>2. CASE proc[p].pc = "wall"
    <3>1. Nanos(wall) = proc[p].readAt + base[p] /\ Nanos(now) = mono
      BY <2>2, NowReads DEF At, InOrder, OnCourse, FirstClockRead
    <3> HIDE DEF wall, now
    <3> QED  BY <1>1, <2>1, <3>1
  <2>3. CASE proc[p].pc = "mono"
    <3>1. Nanos(wall) = mono + skew /\ Nanos(now) = proc[p].readAt
      BY <2>3, NowReads DEF At, InOrder, OnCourse, FirstClockRead
    <3> HIDE DEF wall, now
    <3> QED  BY <1>1, <2>1, <3>1
  <2> QED  BY <1>2, <2>2, <2>3
<1> HIDE DEF wall, now
<1>6. Nanos(Sub(wall, now)) = Nanos(wall) - Nanos(now)
  BY <1>4, SubCorrect
<1>7. next.pc = "end" /\ next.normal = Sub(wall, now) /\ next.kind = "strobe"
  BY <1>1, <1>2 DEF Programs
<1> HIDE DEF next
<1> SUFFICES ASSUME proc'[p] = next PROVE InOrder(p)'
  BY <1>3, StepInOrder
<1>8. base' = base /\ alone' = alone
  BY <1>3 DEF Step
<1>9. ReadIsRecent(p)' /\ KindFollowsStep(p)'
  BY <1>7 DEF ReadIsRecent, Pending, KindFollowsStep
<1>10. ASSUME p \in alone PROVE OnCourse(p)'
  BY <1>5, <1>6, <1>7, <1>8, <1>10
  DEF OnCourse, StillWhereFound, FirstClockRead, NormalIsClose, TimeToSet
<1> QED  BY <1>8, <1>9, <1>10 DEF InOrder

LEMMA ReadEndInOrder ==
    ASSUME TypeOK, \A q \in Tools : InOrder(q), NEW p \in Tools, ReadEnd(p)
    PROVE  \A q \in Tools : InOrder(q)'
<1> DEFINE end  == Add(MonoNow, NanosToTimespec(Duration))
           next == [proc[p] EXCEPT !.pc = "test", !.end = end]
<1>1. proc[p] \in Programs
  BY ProgramFields
<1>2. proc[p].pc = "end" /\ proc[p].kind = "strobe"
  BY DEF ReadEnd, At, InOrder, KindFollowsStep
<1>3. Step(p, next)
  BY DEF ReadEnd
<1> HIDE DEF end
<1>4. next.pc = "test" /\ next.normal = proc[p].normal /\ next.kind = "strobe"
  BY <1>1, <1>2 DEF Programs
<1> HIDE DEF next
<1> SUFFICES ASSUME proc'[p] = next PROVE InOrder(p)'
  BY <1>3, StepInOrder
<1>5. base' = base /\ alone' = alone
  BY <1>3 DEF Step
<1>6. ReadIsRecent(p)' /\ KindFollowsStep(p)'
  BY <1>4 DEF ReadIsRecent, Pending, KindFollowsStep
<1>7. p \in alone => OnCourse(p)
  BY DEF InOrder
<1>8. ASSUME p \in alone PROVE OnCourse(p)'
  BY <1>2, <1>4, <1>5, <1>7, <1>8
  DEF OnCourse, StillWhereFound, FirstClockRead, NormalIsClose, TimeToSet
<1> QED  BY <1>5, <1>6, <1>8 DEF InOrder

LEMMA TestInOrder ==
    ASSUME TypeOK, \A q \in Tools : InOrder(q), NEW p \in Tools, Test(p)
    PROVE  \A q \in Tools : InOrder(q)'
<1> DEFINE pc == IF 0 < Cmp(MonoNow, proc[p].end) THEN "read" ELSE "final"
           next == [proc[p] EXCEPT !.pc = pc]
<1>1. proc[p] \in Programs
  BY ProgramFields
<1>2. proc[p].pc = "test" /\ proc[p].kind = "strobe"
  BY DEF Test, At, InOrder, KindFollowsStep
<1>3. Step(p, next)
  BY DEF Test
<1>4. pc \in {"read", "final"}
  OBVIOUS
<1> HIDE DEF pc
<1>5. next.pc \in {"read", "final"} /\ next.normal = proc[p].normal
      /\ next.kind = "strobe"
  BY <1>1, <1>2, <1>4 DEF Programs
<1> HIDE DEF next
<1> SUFFICES ASSUME proc'[p] = next PROVE InOrder(p)'
  BY <1>3, StepInOrder
<1>6. base' = base /\ alone' = alone
  BY <1>3 DEF Step
<1>7. ReadIsRecent(p)' /\ KindFollowsStep(p)'
  BY <1>5 DEF ReadIsRecent, Pending, KindFollowsStep
<1>8. p \in alone => OnCourse(p)
  BY DEF InOrder
<1>9. ASSUME p \in alone PROVE OnCourse(p)'
  BY <1>2, <1>5, <1>6, <1>8, <1>9
  DEF OnCourse, StillWhereFound, FirstClockRead, NormalIsClose, TimeToSet
<1> QED  BY <1>6, <1>7, <1>9 DEF InOrder

(* The time to set, in the loop of a strobe and after it.  *)
LEMMA ReadClockInOrder ==
    ASSUME TypeOK, \A q \in Tools : InOrder(q), NEW p \in Tools, ReadClock(p)
    PROVE  \A q \in Tools : InOrder(q)'
<1> DEFINE offset == IF At(p, "final") \/ proc[p].weird
                     THEN proc[p].normal ELSE WeirdOffset(p)
           pc     == IF At(p, "read") THEN "set" ELSE "reset"
           now    == Add(MonoNow, offset)
           next   == [proc[p] EXCEPT !.pc = pc, !.readAt = mono, !.now = now]
<1>1. /\ proc[p] \in Programs /\ mono \in Int /\ base[p] \in Int /\ MaxDelay \in Nat
      /\ proc[p].delta \in Int /\ proc[p].normal \in Timespecs
      /\ Nanos(proc[p].normal) \in Int
  BY ProgramFields, NanosType, ClockAssumption DEF TypeOK
<1>2. proc[p].pc \in {"read", "final"} /\ proc[p].kind = "strobe"
  BY DEF ReadClock, At, InOrder, KindFollowsStep
<1>3. Step(p, next)
  BY DEF ReadClock
<1>4. offset \in Timespecs /\ MonoNow \in Timespecs /\ Nanos(MonoNow) = mono
  BY ProgramFields, WeirdOffsetType, NowReads
<1>5. /\ pc = "set" => Nanos(offset) = Nanos(proc[p].normal)
                                       + (IF proc[p].weird THEN 0 ELSE proc[p].delta)
      /\ pc = "reset" => Nanos(offset) = Nanos(proc[p].normal)
  <2>1. CASE At(p, "read")
    <3>1. pc = "set" /\ ~At(p, "final")
      BY <2>1 DEF At
    <3>2. CASE proc[p].weird
      <4>1. offset = proc[p].normal
        BY <3>2
      <4> QED  BY <1>1, <3>1, <3>2, <4>1
    <3>3. CASE ~proc[p].weird
      <4>1. offset = WeirdOffset(p)
        BY <3>1, <3>3
      <4> QED  BY <1>1, <3>1, <3>3, <4>1, WeirdOffsetType
    <3> QED  BY <3>2, <3>3
  <2>2. CASE ~At(p, "read")
    BY <1>2, <2>2 DEF At
  <2> QED  BY <2>1, <2>2
<1>6. pc = (IF proc[p].pc = "read" THEN "set" ELSE "reset")
  BY DEF At
<1> HIDE DEF offset, pc
<1>7. Nanos(now) = mono + Nanos(offset)
  BY <1>4, AddCorrect
<1> HIDE DEF now
<1>8. /\ next.pc = pc /\ next.readAt = mono /\ next.now = now /\ next.kind = "strobe"
      /\ next.normal = proc[p].normal /\ next.weird = proc[p].weird
      /\ next.delta = proc[p].delta
  BY <1>1, <1>2 DEF Programs
<1> HIDE DEF next
<1> SUFFICES ASSUME proc'[p] = next PROVE InOrder(p)'
  BY <1>3, StepInOrder
<1>9. mono' = mono /\ base' = base /\ alone' = alone
  BY <1>3 DEF Step
<1>10. ReadIsRecent(p)'
  BY <1>1, <1>8, <1>9 DEF ReadIsRecent
<1>11. KindFollowsStep(p)'
  BY <1>6, <1>8 DEF KindFollowsStep
<1>12. ASSUME p \in alone PROVE OnCourse(p)'
  <2>1. Nanos(proc[p].normal) - base[p] \in -MaxDelay .. MaxDelay
    BY <1>2, <1>12 DEF InOrder, OnCourse, NormalIsClose
  <2>2. StillWhereFound(p)' /\ FirstClockRead(p)'
    BY <1>6, <1>8 DEF StillWhereFound, FirstClockRead
  <2>3. NormalIsClose(p)'
    BY <1>8, <1>9, <2>1 DEF NormalIsClose
  <2>4. TimeToSet(p)'
    <3>1. ASSUME pc = "set"
          PROVE  Nanos(now) = mono + Nanos(proc[p].normal)
                              + (IF proc[p].weird THEN 0 ELSE proc[p].delta)
      <4>1. CASE proc[p].weird
        BY <1>1, <1>5, <1>7, <3>1, <4>1
      <4>2. CASE ~proc[p].weird
        BY <1>1, <1>5, <1>7, <3>1, <4>2
      <4> QED  BY <4>1, <4>2
    <3>2. pc = "reset" => Nanos(now) = mono + Nanos(proc[p].normal)
      BY <1>1, <1>5, <1>7
    <3> QED  BY <1>6, <1>8, <3>1, <3>2 DEF TimeToSet
  <2> QED  BY <2>2, <2>3, <2>4 DEF OnCourse
<1> QED  BY <1>9, <1>10, <1>11, <1>12 DEF InOrder

(* The time that bump-time.c and bumptime.c set.  *)
LEMMA BumpInOrder ==
    ASSUME TypeOK, \A q \in Tools : InOrder(q), NEW p \in Tools,
           proc[p].kind \in {"bump", "bumptime"}, NEW now \in Timespecs,
           p \in alone => Nanos(now) - (mono + base[p] + Asked(p)) \in -Grain(p) .. 0,
           Step(p, [proc[p] EXCEPT !.pc = "bump", !.readAt = mono, !.now = now])
    PROVE  \A q \in Tools : InOrder(q)'
<1> DEFINE next == [proc[p] EXCEPT !.pc = "bump", !.readAt = mono, !.now = now]
<1>1. proc[p] \in Programs /\ mono \in Int /\ MaxDelay \in Nat
  BY ProgramFields, ClockAssumption DEF TypeOK
<1>2. /\ next.pc = "bump" /\ next.readAt = mono /\ next.now = now
      /\ next.kind = proc[p].kind /\ next.delta = proc[p].delta
  BY <1>1 DEF Programs
<1>3. Step(p, next)
  OBVIOUS
<1> HIDE DEF next
<1> SUFFICES ASSUME proc'[p] = next PROVE InOrder(p)'
  BY <1>3, StepInOrder
<1>4. mono' = mono /\ base' = base /\ alone' = alone
  BY <1>3 DEF Step
<1>5. ReadIsRecent(p)'
  BY <1>1, <1>2, <1>4 DEF ReadIsRecent
<1>6. KindFollowsStep(p)'
  BY <1>2 DEF KindFollowsStep
<1>7. Asked(p)' = Asked(p) /\ Grain(p)' = Grain(p)
  BY <1>2 DEF Asked, Grain
<1>8. ASSUME p \in alone PROVE OnCourse(p)'
  <2>1. TimeToSet(p)'
    BY <1>2, <1>4, <1>7, <1>8 DEF TimeToSet
  <2> QED  BY <1>2, <2>1 DEF OnCourse, StillWhereFound, FirstClockRead, NormalIsClose
<1> QED  BY <1>4, <1>5, <1>6, <1>8 DEF InOrder

LEMMA ReadBumpInOrder ==
    ASSUME TypeOK, \A q \in Tools : InOrder(q), NEW p \in Tools, ReadBump(p)
    PROVE  \A q \in Tools : InOrder(q)'
<1> DEFINE now == Add(WallNow, NanosToTimespec(proc[p].delta))
<1>1. mono \in Int /\ skew \in Int /\ base[p] \in Int /\ proc[p].delta \in Int
  BY ProgramFields, ClockAssumption DEF TypeOK
<1>2. proc[p].pc = "launched" /\ proc[p].kind = "bump"
  BY DEF ReadBump, At, InOrder, KindFollowsStep
<1>3. NanosToTimespec(proc[p].delta) \in Timespecs
      /\ Nanos(NanosToTimespec(proc[p].delta)) = proc[p].delta
  BY <1>1, NanosRoundTrip
<1>4. now \in Timespecs /\ Nanos(now) = mono + skew + proc[p].delta
  BY <1>3, AddCorrect, NowReads
<1>5. Step(p, [proc[p] EXCEPT !.pc = "bump", !.readAt = mono, !.now = now])
  BY DEF ReadBump
<1> HIDE DEF now
<1>6. p \in alone => skew = base[p]
  BY <1>2 DEF InOrder, OnCourse, StillWhereFound
<1>7. Asked(p) = proc[p].delta /\ Grain(p) = 0
  BY <1>2 DEF Asked, Grain
<1>8. p \in alone => Nanos(now) - (mono + base[p] + Asked(p)) \in -Grain(p) .. 0
  BY <1>1, <1>4, <1>6, <1>7
<1> QED  BY <1>2, <1>4, <1>5, <1>8, BumpInOrder

LEMMA ReadBumptimeInOrder ==
    ASSUME TypeOK, \A q \in Tools : InOrder(q), NEW p \in Tools, ReadBumptime(p)
    PROVE  \A q \in Tools : InOrder(q)'
<1> DEFINE micros == ToMicros(proc[p].delta)
           time == Timespec(WallNow.sec, WallNow.nsec - (WallNow.nsec % NanosPerMicro))
           now  == Add(time, NanosToTimespec(micros))
<1>1. /\ mono \in Int /\ skew \in Int /\ base[p] \in Int /\ proc[p].delta \in Int
      /\ NanosPerMicro \in Nat \ {0}
  BY ProgramFields, ClockAssumption DEF TypeOK
<1>2. proc[p].pc = "started" /\ proc[p].kind = "bumptime"
  BY DEF ReadBumptime, At, InOrder, KindFollowsStep
<1>3. WallNow \in Timespecs /\ Nanos(WallNow) = mono + skew
  BY NowReads
<1>4. time \in Timespecs /\ Nanos(time) - Nanos(WallNow) \in -(NanosPerMicro - 1) .. 0
  BY <1>3, MicrosDropped
<1>5. micros \in Int
  BY <1>1, MicrosType
<1>6. Step(p, [proc[p] EXCEPT !.pc = "bump", !.readAt = mono, !.now = now])
  BY DEF ReadBumptime
<1>7. Asked(p) = micros /\ Grain(p) = NanosPerMicro - 1
  BY <1>2 DEF Asked, Grain
<1> HIDE DEF micros, time
<1>8. NanosToTimespec(micros) \in Timespecs /\ Nanos(NanosToTimespec(micros)) = micros
  BY <1>5, NanosRoundTrip
<1>9. now \in Timespecs /\ Nanos(now) = Nanos(time) + micros /\ Nanos(time) \in Int
  BY <1>4, <1>8, AddCorrect, NanosType
<1> HIDE DEF now
<1>10. p \in alone => skew = base[p]
  BY <1>2 DEF InOrder, OnCourse, StillWhereFound
<1>11. p \in alone => Nanos(now) - (mono + base[p] + Asked(p)) \in -Grain(p) .. 0
  BY <1>1, <1>3, <1>4, <1>5, <1>7, <1>9, <1>10
<1> QED  BY <1>2, <1>6, <1>9, <1>11, BumpInOrder

(* A program that starts finds the clock where it is.  *)
LEMMA LaunchInOrder ==
    ASSUME TypeOK, \A q \in Tools : InOrder(q), NEW p \in Tools, NEW d \in Deltas,
           NEW pc, NEW kind, Launch(p, pc, kind, d),
           \/ pc = "start" /\ kind = "strobe"
           \/ pc = "launched" /\ kind = "bump"
           \/ pc = "started" /\ kind = "bumptime"
    PROVE  \A q \in Tools : InOrder(q)'
<1> DEFINE next == [Idle EXCEPT !.pc = pc, !.kind = kind, !.delta = d]
<1>1. proc' = [proc EXCEPT ![p] = next]
  BY DEF Launch
<1>2. next.pc = pc /\ next.kind = kind
  BY DEF Idle
<1> HIDE DEF next
<1>3. proc'[p] = next /\ \A q \in Tools \ {p} : proc'[q] = proc[q]
  BY <1>1 DEF TypeOK
<1>4. base'[p] = skew /\ \A q \in Tools \ {p} : base'[q] = base[q]
  BY DEF TypeOK, Launch
<1>5. mono' = mono /\ skew' = skew /\ alone' = alone \cup {p}
  BY DEF Launch
<1>6. ASSUME NEW q \in Tools, q # p PROVE InOrder(q)'
  BY <1>3, <1>4, <1>5, <1>6, OthersInOrder
<1>7. InOrder(p)'
  <2>1. ReadIsRecent(p)' /\ KindFollowsStep(p)'
    BY <1>2, <1>3 DEF ReadIsRecent, Pending, KindFollowsStep
  <2>2. OnCourse(p)'
    BY <1>2, <1>3, <1>4, <1>5
    DEF OnCourse, StillWhereFound, FirstClockRead, NormalIsClose, TimeToSet
  <2> QED  BY <2>1, <2>2 DEF InOrder
<1> QED  BY <1>6, <1>7

(* A program that sets the clock goes on alone, or exits.  *)
LEMMA SetWallClockInOrder ==
    ASSUME TypeOK, \A q \in Tools : InOrder(q), NEW p \in Tools, SetWallClock(p)
    PROVE  \A q \in Tools : InOrder(q)'
<1> DEFINE on   == [proc[p] EXCEPT !.pc = "test", !.weird = ~proc[p].weird,
                                   !.now = Zero, !.readAt = 0]
           off  == [Idle EXCEPT !.pc = "done", !.kind = proc[p].kind]
           next == IF At(p, "set") THEN on ELSE off
<1>1. proc' = [proc EXCEPT ![p] = next]
  <2>1. CASE At(p, "set")
    BY <2>1, Zenon DEF SetWallClock
  <2>2. CASE ~At(p, "set")
    BY <2>2, Zenon DEF SetWallClock
  <2> QED  BY <2>1, <2>2
<1>2. /\ on.pc = "test" /\ on.normal = proc[p].normal /\ on.kind = proc[p].kind
      /\ off.pc = "done"
  <2>1. on.pc = "test"
    BY ProgramFields DEF Programs
  <2>2. on.normal = proc[p].normal
    BY ProgramFields DEF Programs
  <2>3. on.kind = proc[p].kind
    BY ProgramFields DEF Programs
  <2>4. off.pc = "done"
    BY DEF Idle
  <2> QED  BY <2>1, <2>2, <2>3, <2>4
<1> HIDE DEF on, off
<1>3. /\ At(p, "set") => /\ next.pc = "test"
                         /\ next.normal = proc[p].normal
                         /\ next.kind = proc[p].kind
      /\ ~At(p, "set") => next.pc = "done"
  BY <1>2
<1> HIDE DEF next
<1>4. proc'[p] = next /\ \A q \in Tools \ {p} : proc'[q] = proc[q]
  BY <1>1 DEF TypeOK
<1>5. \A q \in Tools \ {p} : base'[q] = base[q]
  BY DEF TypeOK, SetWallClock
<1>6. mono' = mono /\ alone' = IF At(p, "set") THEN alone \cap {p} ELSE {}
  BY DEF SetWallClock
<1>7. ASSUME NEW q \in Tools, q # p PROVE InOrder(q)'
  <2>1. q \notin alone'
    BY <1>6, <1>7
  <2> QED  BY <1>4, <1>5, <1>6, <1>7, <2>1, OthersInOrder
<1>8. CASE At(p, "set")
  <2>1. proc[p].pc = "set" /\ proc[p].kind = "strobe" /\ base' = base
    BY <1>8 DEF At, InOrder, KindFollowsStep, SetWallClock
  <2>2. ReadIsRecent(p)' /\ KindFollowsStep(p)'
    BY <1>3, <1>4, <1>8, <2>1 DEF ReadIsRecent, Pending, KindFollowsStep
  <2>3. ASSUME p \in alone' PROVE OnCourse(p)'
    <3>1. NormalIsClose(p)
      BY <1>6, <1>8, <2>3 DEF InOrder, OnCourse
    <3> QED  BY <1>3, <1>4, <1>8, <2>1, <3>1
             DEF OnCourse, StillWhereFound, FirstClockRead, NormalIsClose, TimeToSet
  <2>4. InOrder(p)'
    BY <2>2, <2>3 DEF InOrder
  <2> QED  BY <1>7, <2>4
<1>9. CASE ~At(p, "set")
  <2>1. ReadIsRecent(p)' /\ KindFollowsStep(p)' /\ p \notin alone'
    BY <1>3, <1>4, <1>6, <1>9 DEF ReadIsRecent, Pending, KindFollowsStep
  <2>2. InOrder(p)'
    BY <2>1 DEF InOrder
  <2> QED  BY <1>7, <2>2
<1> QED  BY <1>8, <1>9

LEMMA SyscallFailsInOrder ==
    ASSUME TypeOK, \A q \in Tools : InOrder(q), NEW p \in Tools, SyscallFails(p)
    PROVE  \A q \in Tools : InOrder(q)'
<1> DEFINE next == [Idle EXCEPT !.pc = "done", !.kind = "failed"]
<1>1. proc' = [proc EXCEPT ![p] = next]
  BY DEF SyscallFails
<1>2. next.pc = "done"
  BY DEF Idle
<1> HIDE DEF next
<1>3. proc'[p] = next /\ \A q \in Tools \ {p} : proc'[q] = proc[q] /\ base'[q] = base[q]
  BY <1>1 DEF TypeOK, SyscallFails
<1>4. mono' = mono /\ skew' = skew /\ alone' = alone \ {p}
  BY DEF SyscallFails
<1>5. ASSUME NEW q \in Tools, q # p PROVE InOrder(q)'
  BY <1>3, <1>4, <1>5, OthersInOrder
<1>6. InOrder(p)'
  BY <1>2, <1>3, <1>4 DEF InOrder, ReadIsRecent, Pending, KindFollowsStep
<1> QED  BY <1>5, <1>6

(* Time passes, and a read is never older than MaxDelay when it is used.  *)
LEMMA TickInOrder ==
    ASSUME TypeOK, \A q \in Tools : InOrder(q), Tick
    PROVE  \A q \in Tools : InOrder(q)'
<1> SUFFICES ASSUME NEW q \in Tools PROVE InOrder(q)'
  OBVIOUS
<1>1. mono' = mono + 1 /\ skew' = skew /\ proc' = proc /\ base' = base /\ alone' = alone
  BY DEF Tick
<1>2. ReadIsRecent(q)'
  <2>1. Pending(q) => mono - proc[q].readAt < MaxDelay
    BY DEF Tick
  <2>2. mono \in Int /\ proc[q].readAt \in Int /\ MaxDelay \in Nat
    BY ProgramFields, ClockAssumption DEF TypeOK
  <2>3. Pending(q)' = Pending(q)
    BY <1>1 DEF Pending
  <2>4. Pending(q) => mono - proc[q].readAt \in 0 .. MaxDelay
    BY DEF InOrder, ReadIsRecent
  <2>5. Pending(q) => mono' - proc'[q].readAt \in 0 .. MaxDelay
    BY <1>1, <2>1, <2>2, <2>4
  <2> QED  BY <2>3, <2>5 DEF ReadIsRecent
<1>3. KindFollowsStep(q)'
  BY <1>1 DEF InOrder, KindFollowsStep
<1>4. ASSUME q \in alone PROVE OnCourse(q)'
  BY <1>1, <1>4 DEF InOrder, OnCourse, StillWhereFound, FirstClockRead, NormalIsClose,
                    TimeToSet, Asked, Grain
<1> QED  BY <1>1, <1>2, <1>3, <1>4 DEF InOrder

LEMMA InOrderStep ==
    ASSUME TypeOK, \A q \in Tools : InOrder(q), [Next]_vars
    PROVE  \A q \in Tools : InOrder(q)'
<1>1. CASE Tick
  BY <1>1, TickInOrder
<1>2. ASSUME NEW p \in Tools, NEW d \in Deltas,
             StartStrobe(p, d) \/ StartBump(p, d) \/ StartBumptime(p, d)
      PROVE  \A q \in Tools : InOrder(q)'
  BY <1>2, LaunchInOrder DEF StartStrobe, StartBump, StartBumptime
<1>3. CASE Reset
  BY <1>3, OthersInOrder DEF Reset
<1>4. CASE LoseSession
  BY <1>4, OthersInOrder DEF LoseSession
<1>5. ASSUME NEW p \in Tools, Run(p) PROVE \A q \in Tools : InOrder(q)'
  BY <1>5, ReadOneClockInOrder, ReadOtherClockInOrder, ReadEndInOrder, TestInOrder,
     ReadClockInOrder, ReadBumpInOrder, ReadBumptimeInOrder, SetWallClockInOrder DEF Run
<1>6. ASSUME NEW p \in Tools, SyscallFails(p) PROVE \A q \in Tools : InOrder(q)'
  BY <1>6, SyscallFailsInOrder
<1>7. CASE UNCHANGED vars
  BY <1>7, OthersInOrder DEF vars
<1> QED  BY <1>1, <1>2, <1>3, <1>4, <1>5, <1>6, <1>7 DEF Next

(* Reads are used while they are recent, and a program that no other has met  *)
(* knows where the clock stood when it started: for any delays up to MaxDelay.*)
THEOREM ClockInvariant == Spec => []ClockInv
<1>1. Init => ClockInv
  <2> SUFFICES ASSUME Init PROVE ClockInv
    OBVIOUS
  <2>1. \A p \in Tools : proc[p].pc = "idle"
    BY DEF Init, Idle
  <2>2. alone = {}
    BY DEF Init
  <2> QED  BY <2>1, <2>2 DEF ClockInv, ReadsAreRecent, Pending, KindFollowsStep
<1>2. TypeOK /\ TypeOK' /\ ClockInv /\ [Next]_vars => ClockInv'
  <2> SUFFICES ASSUME TypeOK, TypeOK', ClockInv, [Next]_vars PROVE ClockInv'
    OBVIOUS
  <2>1. \A q \in Tools : InOrder(q)
    BY ClockInvByProgram
  <2>2. \A q \in Tools : InOrder(q)'
    BY <2>1, InOrderStep
  <2>3. alone' \subseteq Tools
    BY DEF TypeOK
  <2>4. ReadsAreRecent'
    BY <2>2 DEF InOrder, ReadIsRecent, ReadsAreRecent
  <2> QED  BY <2>2, <2>3, <2>4 DEF ClockInv, InOrder, OnCourse
<1> QED  BY <1>1, <1>2, ClockTimesAreBalanced, PTL DEF Spec

(* What one step of a program that no other has met does to the clock.  *)
LEMMA ClockSetWhereAsked ==
    ASSUME TypeOK, ClockInv, [Next]_vars, NEW p \in alone,
           proc[p].pc \in {"set", "reset", "bump"}, proc'[p] # proc[p],
           proc'[p].kind # "failed"
    PROVE  LET found == IF At(p, "bump") THEN base[p] ELSE Nanos(proc[p].normal)
               ahead == IF At(p, "bump") \/ (At(p, "set") /\ ~proc[p].weird)
                        THEN Asked(p) ELSE 0
           IN  /\ found - base[p] \in -MaxDelay .. MaxDelay
               /\ skew' - (found + ahead) \in -(MaxDelay + Grain(p)) .. 0
<1> DEFINE found == IF At(p, "bump") THEN base[p] ELSE Nanos(proc[p].normal)
           ahead == IF At(p, "bump") \/ (At(p, "set") /\ ~proc[p].weird)
                    THEN Asked(p) ELSE 0
<1>1. p \in Tools
  BY DEF TypeOK
<1>2. /\ mono \in Int /\ skew \in Int /\ base[p] \in Int /\ proc[p].delta \in Int
      /\ proc[p].readAt \in Int /\ MaxDelay \in Nat /\ NanosPerMicro \in Nat \ {0}
      /\ Nanos(proc[p].normal) \in Int /\ Nanos(proc[p].now) \in Int
  BY <1>1, ProgramFields, NanosType, ClockAssumption DEF TypeOK
<1>3. Asked(p) \in Int /\ Grain(p) \in Nat
  BY <1>2, MicrosType DEF Asked, Grain
<1>4. mono - proc[p].readAt \in 0 .. MaxDelay
  BY <1>1 DEF ClockInv, ReadsAreRecent, Pending
<1>5. proc[p].kind = "strobe" => Asked(p) = proc[p].delta /\ Grain(p) = 0
  BY DEF Asked, Grain
<1>6. SetWallClock(p)
  <2>1. ASSUME NEW q \in Tools, NEW d \in Deltas,
               StartStrobe(q, d) \/ StartBump(q, d) \/ StartBumptime(q, d)
        PROVE  FALSE
    BY <1>1, <2>1 DEF StartStrobe, StartBump, StartBumptime, Launch, At, TypeOK
  <2>2. ~Tick /\ ~Reset /\ ~LoseSession /\ ~UNCHANGED vars
    BY DEF Tick, Reset, LoseSession, vars
  <2>3. ASSUME NEW q \in Tools, q # p, Run(q) \/ SyscallFails(q) PROVE FALSE
    <3>1. \E next : proc' = [proc EXCEPT ![q] = next]
      BY <2>3, Zenon DEF Run, SyscallFails, ReadOneClock, ReadOtherClock, ReadEnd, Test,
                  ReadClock, ReadBump, ReadBumptime, SetWallClock, Step
    <3> QED  BY <1>1, <2>3, <3>1 DEF TypeOK
  <2>4. ~SyscallFails(p)
    <3> SUFFICES ASSUME SyscallFails(p) PROVE proc'[p].kind = "failed"
      OBVIOUS
    <3> QED  BY <1>1 DEF SyscallFails, TypeOK, Idle
  <2>5. Run(p) => SetWallClock(p)
    BY DEF Run, ReadOneClock, ReadOtherClock, ReadEnd, Test, ReadClock, ReadBump,
           ReadBumptime, At
  <2> QED  BY <2>1, <2>2, <2>3, <2>4, <2>5 DEF Next
<1>7. skew' = Nanos(proc[p].now) - mono
  BY <1>6 DEF SetWallClock
<1>8. OnCourse(p) /\ KindFollowsStep(p)
  BY <1>1 DEF ClockInv, OnCourse
<1>9. CASE At(p, "bump")
  <2>1. Nanos(proc[p].now) - (proc[p].readAt + base[p] + Asked(p)) \in -Grain(p) .. 0
    BY <1>8, <1>9 DEF At, OnCourse, TimeToSet
  <2>2. found = base[p] /\ ahead = Asked(p)
    BY <1>9
  <2> HIDE DEF found, ahead
  <2>3. found - base[p] \in -MaxDelay .. MaxDelay
    BY <1>2, <2>2
  <2>4. skew' - (found + ahead) \in -(MaxDelay + Grain(p)) .. 0
    BY <1>2, <1>3, <1>4, <1>7, <2>1, <2>2
  <2> QED  BY <2>3, <2>4 DEF found, ahead
<1>10. CASE ~At(p, "bump")
  <2>1. found = Nanos(proc[p].normal) /\ proc[p].pc \in {"set", "reset"}
    BY <1>10 DEF At
  <2>2. proc[p].kind = "strobe" /\ Grain(p) = 0 /\ Asked(p) = proc[p].delta
    BY <1>5, <1>8, <2>1 DEF KindFollowsStep
  <2>3. Nanos(proc[p].normal) - base[p] \in -MaxDelay .. MaxDelay
    BY <1>8, <2>1 DEF OnCourse, NormalIsClose
  <2>4. Nanos(proc[p].now) = proc[p].readAt + Nanos(proc[p].normal) + ahead
    <3>1. CASE proc[p].pc = "set" /\ proc[p].weird
      <4>1. ahead = 0
        BY <3>1 DEF At
      <4> HIDE DEF ahead
      <4> QED  BY <1>8, <3>1, <4>1 DEF OnCourse, TimeToSet
    <3>2. CASE proc[p].pc = "set" /\ ~proc[p].weird
      <4>1. ahead = proc[p].delta
        BY <2>2, <3>2 DEF At
      <4> HIDE DEF ahead
      <4> QED  BY <1>8, <3>2, <4>1 DEF OnCourse, TimeToSet
    <3>3. CASE proc[p].pc = "reset"
      <4>1. ahead = 0
        BY <3>3 DEF At
      <4> HIDE DEF ahead
      <4> QED  BY <1>2, <1>8, <3>3, <4>1 DEF OnCourse, TimeToSet
    <3> QED  BY <2>1, <3>1, <3>2, <3>3
  <2>5. ahead \in Int
    BY <1>3
  <2> HIDE DEF found, ahead
  <2>6. found - base[p] \in -MaxDelay .. MaxDelay
    BY <2>1, <2>3
  <2>7. skew' - (found + ahead) \in -(MaxDelay + Grain(p)) .. 0
    BY <1>2, <1>4, <1>7, <2>1, <2>2, <2>4, <2>5
  <2> QED  BY <2>6, <2>7 DEF found, ahead
<1> QED  BY <1>9, <1>10

(* Every set of the clock by a program that no other has met puts it where    *)
(* the program was asked to, late by no more than the delay of this one set:  *)
(* however often a strobe goes round its loop, delays never add up, and it    *)
(* leaves the clock where it found it.                                        *)
THEOREM ClocksAreWhereAsked == Spec => ClockWhereAsked
<1>1. TypeOK /\ ClockInv /\ [Next]_vars =>
        [\A p \in alone :
          proc[p].pc \in {"set", "reset", "bump"} /\ proc'[p] # proc[p]
          /\ proc'[p].kind # "failed" =>
             LET found == IF At(p, "bump") THEN base[p] ELSE Nanos(proc[p].normal)
                 ahead == IF At(p, "bump") \/ (At(p, "set") /\ ~proc[p].weird)
                          THEN Asked(p) ELSE 0
             IN  /\ found - base[p] \in -MaxDelay .. MaxDelay
                 /\ skew' - (found + ahead) \in -(MaxDelay + Grain(p)) .. 0]_vars
  BY ClockSetWhereAsked
<1> QED  BY <1>1, ClockTimesAreBalanced, ClockInvariant, PTL DEF Spec, ClockWhereAsked
============================================================================
