---------------------------- MODULE Timer_proofs ----------------------------
(* Proofs about Timer, for any dates, intervals and number of calls.         *)
EXTENDS Timer, TLAPS

\* The shot of a single-shot timer disarms it, so that the thread is not on its
\* way to a second one; only vlc_timer_schedule leaves this state.
Spent ==
    (interval = 0 /\ shots > 0) =>
        shots = 1 /\ value = 0 /\ phase \notin {"armed", "timedout"}

\* The recorded arguments are those in force, but for the date.
RequestInForce == request.interval = interval

\* The shot between Fire and Reload is a shot of the current schedule, or that
\* schedule overlaps it.
ShotOfSchedule == phase \in {"callback", "returned"} => shots > 0 \/ overlapped

IInv == TypeOK /\ Spent /\ RequestInForce /\ ShotOfSchedule /\ PeriodsAccounted

\* Euclidean division, as the provers use it.
LEMMA DivisionBounds ==
    ASSUME NEW a \in Nat, NEW b \in Nat \ {0}
    PROVE  /\ a \div b \in Nat
           /\ b * (a \div b) <= a
           /\ a < b * (a \div b) + b
OBVIOUS

\* The number of skipped periods is never negative.
LEMMA SkippedNat ==
    ASSUME TypeOK, interval # 0
    PROVE  Misses \in 0..UInt - 1 /\ Skipped \in Nat /\ NextValue \in Nat
<1> DEFINE late == stamp - value
<1>1. late \in Int /\ interval \in Nat \ {0}
  BY BoundsArePositive DEF TypeOK
<1>2. CASE late >= 0
  <2>1. late \div interval \in Nat
    BY <1>1, <1>2, DivisionBounds
  <2> QED
    BY <1>1, <1>2, <2>1, BoundsArePositive DEF TypeOK, Misses, Skipped, NextValue
<1>3. CASE late < 0
  <2>1. (-late) \div interval \in Nat
    BY <1>1, <1>3, DivisionBounds
  <2> QED
    BY <1>1, <1>3, <2>1, BoundsArePositive DEF TypeOK, Misses, Skipped, NextValue
<1> QED
  BY <1>1, <1>2, <1>3

LEMMA InitInv == Init => IInv
<1> SUFFICES ASSUME Init PROVE IInv
  OBVIOUS
<1>1. TypeOK
  <2>1. now \in 1..MaxTime /\ stamp \in 0..MaxTime /\ overruns \in 0..UInt - 1
    BY BoundsArePositive DEF Init
  <2>2. /\ value \in Nat /\ interval \in Nat /\ deadline \in Nat /\ shots \in Nat /\ missed \in Nat
        /\ phase \in Phases
        /\ cancelled \in BOOLEAN /\ destroyed \in BOOLEAN /\ overlapped \in BOOLEAN
    BY DEF Init, Phases
  <2>3. request \in [value : Nat, interval : Nat]
    BY DEF Init
  <2> QED
    BY <2>1, <2>2, <2>3 DEF TypeOK
<1>2. Spent /\ RequestInForce /\ ShotOfSchedule /\ PeriodsAccounted
  BY DEF Init, Spent, RequestInForce, ShotOfSchedule, PeriodsAccounted
<1> QED
  BY <1>1, <1>2 DEF IInv

\* Steps that only move the thread between states with no shot under way, and
\* not into "timedout" or "armed" once the single shot is spent.
LEMMA NoShotStep ==
    ASSUME IInv, TypeOK', UNCHANGED <<value, interval, history>>,
           phase' = phase \/ ( /\ phase \notin {"callback", "returned"}
                               /\ phase' \notin {"callback", "returned"}
                               /\ phase' \in {"armed", "timedout"} =>
                                     value # 0 \/ phase \in {"armed", "timedout"} )
    PROVE  IInv'
<1> USE DEF IInv, history
<1>1. Spent'
  BY DEF Spent
<1>2. RequestInForce'
  BY DEF RequestInForce
<1>3. ShotOfSchedule'
  BY DEF ShotOfSchedule
<1>4. PeriodsAccounted'
  BY DEF PeriodsAccounted
<1> QED
  BY <1>1, <1>2, <1>3, <1>4

LEMMA FireInv == IInv /\ Fire => IInv'
<1> SUFFICES ASSUME IInv, Fire PROVE IInv'
  OBVIOUS
<1> USE DEF IInv
<1>1. TypeOK'
  BY DEF TypeOK, Fire, Disarm, Phases
<1>2. Spent'
  BY DEF Spent, Fire, Disarm, TypeOK
<1>3. RequestInForce' /\ ShotOfSchedule'
  BY DEF RequestInForce, ShotOfSchedule, Fire, TypeOK
<1>4. PeriodsAccounted'
  BY DEF PeriodsAccounted, RequestInForce, Fire, Disarm, TypeOK
<1> QED
  BY <1>1, <1>2, <1>3, <1>4

\* The shot and the periods skipped after it are added to those accounted for.
LEMMA ReloadInv == IInv /\ Reload => IInv'
<1> SUFFICES ASSUME IInv, Reload PROVE IInv'
  OBVIOUS
<1> USE DEF IInv
<1>1. CASE interval = 0
  <2>1. TypeOK'
    BY <1>1, BoundsArePositive DEF TypeOK, Reload, Sleep, timer, Phases
  <2>2. Spent'
    BY <1>1 DEF Spent, Reload, Sleep, timer
  <2>3. RequestInForce' /\ ShotOfSchedule' /\ PeriodsAccounted'
    BY <1>1 DEF RequestInForce, ShotOfSchedule, PeriodsAccounted, Reload, Sleep, timer
  <2> QED
    BY <2>1, <2>2, <2>3
<1>2. CASE interval # 0
  <2>1. /\ Skipped \in Nat /\ NextValue \in Nat
        /\ value' = NextValue /\ interval' = interval /\ missed' = missed + Skipped
        /\ overruns' = (overruns + Skipped) % UInt
        /\ Sleep(NextValue) /\ stamp' = 0 /\ phase = "returned"
        /\ UNCHANGED <<now, cancelled, destroyed, request, shots, overlapped>>
    BY <1>2, SkippedNat DEF Reload
  <2>2. TypeOK'
    BY <2>1, BoundsArePositive DEF TypeOK, Sleep, Phases
  <2>3. Spent' /\ RequestInForce' /\ ShotOfSchedule'
    BY <1>2, <2>1 DEF Spent, RequestInForce, ShotOfSchedule, Sleep
  <2>4. PeriodsAccounted'
    <3> SUFFICES ASSUME request.interval # 0, ~overlapped, request.value # 0
                 PROVE  value' = request.value + interval * (shots + missed + Skipped)
      BY <2>1 DEF PeriodsAccounted, RequestInForce, Sleep, TypeOK
    <3>1. value = request.value + interval * (shots + missed - 1)
      BY <2>1 DEF PeriodsAccounted, RequestInForce
    <3>2. value' = value + interval + Skipped * interval
      BY <2>1 DEF NextValue
    <3>3. interval \in Nat /\ shots \in Nat /\ missed \in Nat /\ request.value \in Nat
      BY DEF TypeOK
    <3> QED
      BY <2>1, <3>1, <3>2, <3>3
  <2> QED
    BY <2>2, <2>3, <2>4
<1> QED
  BY <1>1, <1>2

LEMMA ScheduleInv ==
    ASSUME IInv, NEW v \in Values, NEW i \in Intervals, Schedule(v, i)
    PROVE  IInv'
<1> USE DEF IInv
<1>1. v \in Nat /\ i \in Nat
  BY ValuesAreDates
<1>2. TypeOK'
  BY <1>1 DEF TypeOK, Schedule, WakeThread, Phases
<1>3. Spent' /\ RequestInForce'
  BY DEF Spent, RequestInForce, Schedule
<1>4. ShotOfSchedule'
  BY DEF ShotOfSchedule, Schedule, WakeThread
<1>5. PeriodsAccounted'
  <2>1. /\ value' = v /\ request'.value = v /\ request'.interval = i /\ interval' = i
        /\ shots' = 0 /\ missed' = 0
        /\ ~overlapped' => phase' \notin {"callback", "returned"}
    BY DEF Schedule, WakeThread
  <2>2. v = v + i * 0
    BY <1>1
  <2> QED
    BY <2>1, <2>2 DEF PeriodsAccounted
<1> QED
  BY <1>2, <1>3, <1>4, <1>5

LEMMA StepInv == IInv /\ [Next]_vars => IInv'
<1> SUFFICES ASSUME IInv, [Next]_vars PROVE IInv'
  OBVIOUS
<1>1. TypeOK
  BY DEF IInv
<1>2. CASE Resume
  <2>1. TypeOK'
    BY <1>1, <1>2 DEF TypeOK, Resume, Sleep, Phases, timer, history
  <2> QED
    BY <1>2, <2>1, NoShotStep DEF Resume, Sleep, timer
<1>3. CASE TimeOut \/ SpuriousWakeup \/ Exit
  <2>1. TypeOK'
    BY <1>1, <1>3 DEF TypeOK, TimeOut, SpuriousWakeup, Exit, Phases, timer, history
  <2> QED
    BY <1>3, <2>1, NoShotStep DEF TimeOut, SpuriousWakeup, Exit, CancelPoints, timer
<1>4. CASE CallbackReturns
  <2>1. TypeOK'
    BY <1>1, <1>4 DEF TypeOK, CallbackReturns, Phases, timer, history
  <2>2. Spent' /\ RequestInForce' /\ ShotOfSchedule' /\ PeriodsAccounted'
    BY <1>4 DEF IInv, Spent, RequestInForce, ShotOfSchedule, PeriodsAccounted,
                CallbackReturns, timer, history
  <2> QED
    BY <2>1, <2>2 DEF IInv
<1>5. CASE GetOverrun \/ Destroy \/ Join \/ Tick \/ UNCHANGED vars
  <2>1. TypeOK'
    <3>1. CASE GetOverrun
      BY <1>1, <3>1, BoundsArePositive DEF TypeOK, GetOverrun, history
    <3>2. CASE Destroy \/ Join
      BY <1>1, <3>2 DEF TypeOK, Destroy, Join, timer, history
    <3>3. CASE Tick
      BY <1>1, <3>3, BoundsArePositive DEF TypeOK, Tick, timer, history
    <3>4. CASE UNCHANGED vars
      BY <1>1, <3>4 DEF TypeOK, timer, history, vars
    <3> QED
      BY <1>5, <3>1, <3>2, <3>3, <3>4
  <2> QED
    BY <1>5, <2>1, NoShotStep DEF GetOverrun, Destroy, Join, Tick, timer, vars
<1> QED
  BY <1>2, <1>3, <1>4, <1>5, FireInv, ReloadInv, ScheduleInv DEF Next, Thread

LEMMA Inductive == Spec => []IInv
BY InitInv, StepInv, PTL DEF Spec

\* Every variable keeps its type: no overrun count is ever negative.
THEOREM TypeCorrect == Spec => []TypeOK
<1>1. IInv => TypeOK
  BY DEF IInv
<1> QED
  BY <1>1, Inductive, PTL

\* However the calls of vlc_timer_schedule fall, a single shot runs once.
THEOREM AtMostOneShot == Spec => []SingleShotOnce
<1>1. IInv => SingleShotOnce
  BY DEF IInv, Spent, RequestInForce, SingleShotOnce, TypeOK
<1> QED
  BY <1>1, Inductive, PTL

\* An interval timer loses no period: each was a shot or is an overrun.
THEOREM NoLostPeriod == Spec => []PeriodsAccounted
<1>1. IInv => PeriodsAccounted
  BY DEF IInv
<1> QED
  BY <1>1, Inductive, PTL

\* As long as the periods missed during one callback fit in an unsigned, an
\* interval timer never runs a burst of late shots, for any clock.
THEOREM NoBurstEver == Spec => NoBurst
<1>1. TypeOK /\ Reload /\ interval # 0 /\ MissesFit => stamp < value' + interval
  <2> SUFFICES ASSUME TypeOK, Reload, interval # 0, MissesFit PROVE stamp < value' + interval
    OBVIOUS
  <2>1. /\ value \in Nat /\ interval \in Nat \ {0} /\ stamp \in Nat /\ Skipped \in Nat
        /\ value' = value + interval + Skipped * interval
    BY SkippedNat, BoundsArePositive DEF TypeOK, Reload, NextValue
  <2>2. CASE stamp < value
    BY <2>1, <2>2
  <2>3. CASE stamp >= value
    <3> DEFINE late == stamp - value
               m == late \div interval
    <3>1. late \in Nat /\ late < UInt * interval
      BY <2>1, <2>3 DEF MissesFit
    <3>2. m \in Nat /\ interval * m <= late /\ late < interval * m + interval
      BY <2>1, <3>1, DivisionBounds
    <3>3. m < UInt
      <4> HIDE DEF m
      <4> SUFFICES ASSUME UInt <= m PROVE FALSE
        BY <3>2, BoundsArePositive
      <4>1. PICK k \in Nat : m = UInt + k
        <5>1. m - UInt \in Nat /\ m = UInt + (m - UInt)
          BY <3>2, BoundsArePositive
        <5> QED
          BY <5>1
      <4>2. interval * m = UInt * interval + interval * k /\ interval * k >= 0
        BY <2>1, <4>1, BoundsArePositive
      <4> QED
        BY <2>1, <3>1, <3>2, <4>2, BoundsArePositive
    <3>4. Misses = m
      BY <2>1, <2>3, <3>1, <3>2, <3>3, BoundsArePositive DEF Misses
    <3>5. CASE m > 1
      <4>1. value' = value + interval * m
        <5>1. Skipped = m - 1
          BY <3>4, <3>5 DEF Skipped
        <5> QED
          BY <2>1, <3>2, <5>1
      <4> QED
        BY <2>1, <2>3, <3>1, <3>2, <4>1
    <3>6. CASE m <= 1
      <4>1. interval * m <= interval
        BY <2>1, <3>2, <3>6
      <4>2. value' = value + interval
        BY <2>1, <3>2, <3>4, <3>6 DEF Skipped
      <4> QED
        BY <2>1, <2>3, <3>1, <3>2, <4>1, <4>2
    <3> QED
      BY <3>2, <3>5, <3>6
  <2> QED
    BY <2>1, <2>2, <2>3
<1> QED
  BY <1>1, TypeCorrect, PTL DEF NoBurst, Spec

-----------------------------------------------------------------------------
(* What the thread sleeps on, and when it wakes up                           *)

\* No lost wake-up: a thread asleep without a date has no date to wait for, and
\* one asleep until a date sleeps until the one in force (a vlc_timer_schedule
\* that changes it signals the thread).
SleepsUntilDue ==
    /\ phase = "disarmed" => value = 0
    /\ phase = "armed" => value # 0 /\ deadline = value

\* The thread of a timer ends only under vlc_timer_destroy.
EndsWhenDestroyed == phase = "exited" => cancelled

WakeInv == SleepsUntilDue /\ NeverEarly /\ EndsWhenDestroyed

LEMMA WakeStep == TypeOK /\ WakeInv /\ [Next]_vars => WakeInv'
<1> SUFFICES ASSUME TypeOK, WakeInv, [Next]_vars PROVE WakeInv'
  OBVIOUS
<1> USE DEF WakeInv, SleepsUntilDue, NeverEarly, EndsWhenDestroyed
<1>1. CASE Resume
  BY <1>1 DEF Resume, Sleep, timer, history
<1>2. CASE TimeOut
  BY <1>2 DEF TimeOut, timer, history
<1>3. CASE Fire
  BY <1>3 DEF Fire
<1>4. CASE CallbackReturns
  BY <1>4 DEF CallbackReturns
<1>5. CASE Reload
  BY <1>5 DEF Reload, Sleep, timer
<1>6. CASE Exit
  BY <1>6 DEF Exit
<1>7. CASE SpuriousWakeup
  BY <1>7 DEF SpuriousWakeup
<1>8. ASSUME NEW v \in Values, NEW i \in Intervals, Schedule(v, i) PROVE WakeInv'
  BY <1>8 DEF Schedule, WakeThread
<1>9. CASE GetOverrun
  BY <1>9 DEF GetOverrun, history
<1>10. CASE Destroy
  BY <1>10 DEF Destroy, timer, history
<1>11. CASE Join
  BY <1>11 DEF Join, timer, history
<1>12. CASE Tick
  <2>1. now \in Nat /\ value \in Nat /\ now' = now + 1
    BY <1>12 DEF Tick, TypeOK
  <2> QED
    BY <1>12, <2>1 DEF Tick, timer, history
<1>13. CASE UNCHANGED vars
  BY <1>13 DEF vars, timer, history
<1> QED
  BY <1>1, <1>2, <1>3, <1>4, <1>5, <1>6, <1>7, <1>8, <1>9, <1>10, <1>11, <1>12, <1>13
     DEF Next, Thread

\* The timer's thread misses no vlc_timer_schedule while it sleeps, starts no
\* shot before its date unless the date was moved under it, and does not end
\* before the timer is destroyed.
THEOREM OnTime == Spec => [](SleepsUntilDue /\ NeverEarly /\ EndsWhenDestroyed)
<1>1. Init => WakeInv
  BY DEF Init, WakeInv, SleepsUntilDue, NeverEarly, EndsWhenDestroyed
<1>2. WakeInv => SleepsUntilDue /\ NeverEarly /\ EndsWhenDestroyed
  BY DEF WakeInv
<1> QED
  BY <1>1, <1>2, WakeStep, TypeCorrect, PTL DEF Spec
=============================================================================
