------------------------------- MODULE Timer -------------------------------
(* Asynchronous timers (src/posix/timer.c): one thread per timer sleeps on a *)
(* condition variable until the date "value", runs the callback without the  *)
(* lock, and moves "value" to the next period.  Any number of threads arm,   *)
(* re-arm and disarm the timer meanwhile, under the lock.                    *)
EXTENDS Integers

CONSTANTS
    Values,     \* absolute dates callers pass; 0 disarms.  A relative value is
                \* turned into a date before the lock is taken, so it may be past
    Intervals,  \* repetition intervals callers pass; 0 for a single shot
    MaxTime,    \* bound on mdate()
    UInt,       \* number of values of an unsigned int
    CallPhases  \* states of the timer thread in which callers schedule

ASSUME ValuesAreDates == Values \subseteq Nat /\ Intervals \subseteq Nat
ASSUME BoundsArePositive == MaxTime \in Nat \ {0} /\ UInt \in Nat \ {0}

Phases == {"disarmed", "armed", "signalled", "timedout", "callback", "returned", "exited"}

ASSUME CallPhasesArePhases == CallPhases \subseteq Phases

VARIABLES
    now,        \* mdate()
    value, interval, overruns,
    phase,      \* where the timer thread is:
                \*   disarmed   in vlc_cond_wait
                \*   armed      in vlc_cond_timedwait, until deadline
                \*   signalled  woken up before the deadline, about to lock
                \*   timedout   past the deadline, about to lock
                \*   callback   in func
                \*   returned   out of func, about to lock
                \*   exited     cancelled
    deadline,   \* what the thread passed to vlc_cond_timedwait
    stamp,      \* mdate() as the thread read it on return from func
    cancelled,  \* vlc_timer_destroy has called vlc_cancel
    destroyed,  \* vlc_timer_destroy has returned
    request,    \* history: arguments of the last vlc_timer_schedule
    shots,      \* history: callbacks started since then
    missed,     \* history: overruns counted since then
    overlapped  \* history: that call was made while a shot was under way

timer == <<value, interval, overruns>>
history == <<request, shots, missed, overlapped>>
vars == <<now, timer, phase, deadline, stamp, cancelled, destroyed, history>>

TypeOK ==
    /\ now \in 1..MaxTime
    /\ value \in Nat /\ interval \in Nat /\ overruns \in 0..UInt - 1
    /\ phase \in Phases
    /\ deadline \in Nat /\ stamp \in 0..MaxTime
    /\ cancelled \in BOOLEAN /\ destroyed \in BOOLEAN /\ overlapped \in BOOLEAN
    /\ request \in [value : Nat, interval : Nat]
    /\ shots \in Nat /\ missed \in Nat

\* vlc_timer_create: a disarmed timer, whose thread has gone to sleep.
Init ==
    /\ now = 1
    /\ value = 0 /\ interval = 0 /\ overruns = 0
    /\ phase = "disarmed"
    /\ deadline = 0 /\ stamp = 0
    /\ cancelled = FALSE /\ destroyed = FALSE
    /\ request = [value |-> 0, interval |-> 0]
    /\ shots = 0 /\ missed = 0 /\ overlapped = FALSE

-----------------------------------------------------------------------------
(* The timer thread                                                          *)

\* The head of the loop: sleep for good, or until the date v.  Entering either
\* wait with a cancellation pending ends the thread.
Sleep(v) ==
    /\ phase' = IF cancelled THEN "exited" ELSE IF v = 0 THEN "disarmed" ELSE "armed"
    /\ deadline' = v

\* vlc_cond_timedwait returned 0, or vlc_cond_wait returned.
Resume ==
    /\ phase = "signalled"
    /\ Sleep(value)
    /\ UNCHANGED <<now, timer, stamp, cancelled, destroyed, history>>

\* vlc_cond_timedwait gives up; the thread has yet to get the lock back.
TimeOut ==
    /\ phase = "armed" /\ now >= deadline
    /\ phase' = "timedout"
    /\ UNCHANGED <<now, timer, deadline, stamp, cancelled, destroyed, history>>

\* A single shot disarms the timer before the callback runs.
Disarm_Never == value' = value
Disarm == value' = IF interval = 0 THEN 0 ELSE value

Fire ==
    /\ phase = "timedout"
    /\ Disarm
    /\ phase' = "callback"
    /\ shots' = shots + 1
    /\ UNCHANGED <<now, interval, overruns, deadline, stamp, cancelled, destroyed, request, missed, overlapped>>

CallbackReturns ==
    /\ phase = "callback"
    /\ phase' = "returned"
    /\ stamp' = now
    /\ UNCHANGED <<now, timer, deadline, cancelled, destroyed, history>>

\* (now - value) / interval, truncated towards zero and stored in an unsigned.
\* "now" was read before the lock was taken.
Misses ==
    LET late == stamp - value
    IN  IF late >= 0 THEN (late \div interval) % UInt
                     ELSE (-((-late) \div interval)) % UInt

\* Periods to skip on top of the one that has just run: one miss is made up for
\* by a shot at once, more are not.
Skipped_None == 0
Skipped == IF Misses > 1 THEN Misses - 1 ELSE 0

\* The date an interval timer is due next.
NextValue_NoSkip == value + interval
NextValue == value + interval + Skipped * interval

\* The thread has the lock again after the callback.
Reload ==
    /\ phase = "returned"
    /\ IF interval = 0
       THEN Sleep(value) /\ UNCHANGED <<timer, missed>>
       ELSE /\ value' = NextValue
            /\ overruns' = (overruns + Skipped) % UInt
            /\ missed' = missed + Skipped
            /\ Sleep(NextValue)
            /\ UNCHANGED interval
    /\ stamp' = 0   \* a local of the loop body
    /\ UNCHANGED <<now, cancelled, destroyed, request, shots, overlapped>>

\* A thread in a wait can be cancelled; the callback holds cancellation back.
CancelPoints_OnlyDisarmed == {"disarmed"}
CancelPoints == {"disarmed", "armed"}

Exit ==
    /\ cancelled /\ phase \in CancelPoints
    /\ phase' = "exited"
    /\ UNCHANGED <<now, timer, deadline, stamp, cancelled, destroyed, history>>

SpuriousWakeup ==
    /\ phase \in {"disarmed", "armed"} /\ ~cancelled
    /\ phase' = "signalled"
    /\ UNCHANGED <<now, timer, deadline, stamp, cancelled, destroyed, history>>

-----------------------------------------------------------------------------
(* The callers                                                               *)

\* vlc_cond_signal: only a sleeping thread notices.
WakeThread_Missing == phase' = phase
WakeThread == phase' = IF phase \in {"disarmed", "armed"} THEN "signalled" ELSE phase

\* vlc_timer_schedule.
Schedule(v, i) ==
    /\ ~cancelled /\ phase \in CallPhases
    /\ value' = v /\ interval' = i
    /\ WakeThread
    /\ request' = [value |-> v, interval |-> i]
    /\ shots' = 0 /\ missed' = 0
    /\ overlapped' = (phase \in {"timedout", "callback", "returned"})
    /\ UNCHANGED <<now, overruns, deadline, stamp, cancelled, destroyed>>

GetOverrun ==
    /\ ~cancelled /\ overruns # 0
    /\ overruns' = 0
    /\ UNCHANGED <<now, value, interval, phase, deadline, stamp, cancelled, destroyed, history>>

\* vlc_timer_destroy: vlc_cancel, then vlc_join.
Destroy ==
    /\ ~cancelled
    /\ cancelled' = TRUE
    /\ UNCHANGED <<now, timer, phase, deadline, stamp, destroyed, history>>

Join ==
    /\ cancelled /\ ~destroyed /\ phase = "exited"
    /\ destroyed' = TRUE
    /\ UNCHANGED <<now, timer, phase, deadline, stamp, cancelled, history>>

Tick ==
    /\ now < MaxTime
    /\ now' = now + 1
    /\ UNCHANGED <<timer, phase, deadline, stamp, cancelled, destroyed, history>>

-----------------------------------------------------------------------------
Thread == Resume \/ TimeOut \/ Fire \/ CallbackReturns \/ Reload \/ Exit

Next ==
    \/ Thread \/ SpuriousWakeup
    \/ \E v \in Values, i \in Intervals : Schedule(v, i)
    \/ GetOverrun \/ Destroy \/ Join
    \/ Tick

Spec == Init /\ [][Next]_vars

\* The timer thread runs, a callback returns, time passes, and a thread that is
\* destroying the timer gets past vlc_join.
Fairness ==
    /\ WF_vars(Resume) /\ WF_vars(TimeOut) /\ WF_vars(Fire)
    /\ WF_vars(CallbackReturns) /\ WF_vars(Reload) /\ WF_vars(Exit)
    /\ WF_vars(Tick) /\ WF_vars(Join)

FairSpec == Spec /\ Fairness

-----------------------------------------------------------------------------
(* Properties                                                                *)

\* A single-shot timer runs its callback at most once per vlc_timer_schedule,
\* even when the call races with a shot that is under way.
SingleShotOnce == request.interval = 0 => shots <= 1

\* The started callbacks and the overruns reported between them account for
\* every period since the timer was armed (what test/timer.c counts on), unless
\* it was armed while an earlier shot was under way.
PeriodsAccounted ==
    (request.interval # 0 /\ ~overlapped /\ request.value # 0) =>
        LET done == shots + missed - (IF phase \in {"callback", "returned"} THEN 1 ELSE 0)
        IN  value = request.value + request.interval * done

\* After a callback the timer is at most one period behind: it makes up for one
\* missed shot but never runs a burst of them, however long the process was
\* suspended, and whatever the callers did meanwhile, as long as the number of
\* periods missed in this one callback fits in an unsigned.
MissesFit == stamp - value < UInt * interval
NoBurst == [][Reload /\ interval # 0 /\ MissesFit => stamp < value' + interval]_vars

\* The thread does not start a shot ahead of the date in force, and does not
\* start one of a timer that was disarmed: vlc_timer_schedule has moved the date
\* of every thread that still slept.  It can be early only when the timer was
\* set again between the time-out and the lock.
NeverEarly == phase = "timedout" /\ ~overlapped => value # 0 /\ value <= now

\* A timer that was armed when no shot was under way runs its callback or is
\* destroyed, once the callers leave it alone and spurious wake-ups cease.
Due == value # 0 /\ value <= MaxTime /\ ~overlapped /\ ~cancelled /\ shots = 0
Disturbed == SpuriousWakeup \/ \E v \in Values, i \in Intervals : Schedule(v, i)
ArmedTimerFires == <>[][~Disturbed]_vars => (Due ~> ~Due)

\* vlc_timer_destroy returns.
DestroyReturns == cancelled ~> destroyed

\* "This functions overrides any previous call to itself" (timer.c:160): until
\* the first shot, the timer is set to the date of the last call.
OverridesPrevious == shots = 0 => value = request.value
=============================================================================
