------------------------------ MODULE Snapshot ------------------------------
(* Snapshots of a video output (src/video_output/snapshot.c): interface      *)
(* threads ask for a copy of the picture on screen and wait for it with a    *)
(* deadline; the video output thread serves every pending request when it    *)
(* displays its next picture.                                                *)
EXTENDS Integers, Sequences, FiniteSets

CONSTANTS
    Callers,   \* threads in vout_snapshot_Get; each calls MaxCalls times
    MaxCalls,  \* bound on the calls of one thread
    MaxFrames  \* bound on the pictures displayed

ASSUME CallersFinite == IsFiniteSet(Callers)
ASSUME BoundsAreNat == MaxCalls \in Nat /\ MaxFrames \in Nat

VARIABLES
    is_available,
    request_count,
    picture,   \* the copies made, a stack linked by p_next
    call,      \* where each caller is: idle, wait (asleep), loop (woken up)
    expired,   \* the callers in a call whose deadline has passed
    calls,     \* number of calls each caller has made
    rendering, \* the video output thread saw a request for the current picture
    frame,     \* the number of the picture on screen
    closed     \* vout_snapshot_Clean has run

vars == <<is_available, request_count, picture, call, expired, calls, rendering, frame, closed>>

TypeOK ==
    /\ is_available \in BOOLEAN /\ rendering \in BOOLEAN /\ closed \in BOOLEAN
    /\ request_count \in Nat
    /\ picture \in Seq(0..MaxFrames)
    /\ call \in [Callers -> {"idle", "loop", "wait"}]
    /\ expired \subseteq Callers
    /\ calls \in [Callers -> 0..MaxCalls]
    /\ frame \in 0..MaxFrames

Pending == {c \in Callers : call[c] # "idle"}
Asleep == {c \in Callers : call[c] = "wait"}

\* vout_snapshot_Init
Init ==
    /\ is_available = TRUE
    /\ request_count = 0
    /\ picture = <<>>
    /\ call = [c \in Callers |-> "idle"]
    /\ expired = {}
    /\ calls = [c \in Callers |-> 0]
    /\ rendering = FALSE
    /\ frame = 0
    /\ closed = FALSE

-----------------------------------------------------------------------------
(* vout_snapshot_Get                                                         *)

\* The loop condition, for a caller whose deadline has passed or not.
MustWait_Forever(late) == is_available /\ picture = <<>>
MustWait(late) == is_available /\ picture = <<>> /\ ~late

\* A call that ends without a picture takes its request back.
TakeBack_Missing(count) == count
TakeBack(count) == IF count > 0 THEN count - 1 ELSE 0

\* From the test of the loop condition to the next wait, or to the return.
Pass(c, count, late) ==
    IF MustWait(late)
    THEN /\ call' = [call EXCEPT ![c] = "wait"]
         /\ request_count' = count
         /\ UNCHANGED picture
    ELSE /\ call' = [call EXCEPT ![c] = "idle"]
         /\ request_count' = IF picture # <<>> THEN count ELSE TakeBack(count)
         /\ picture' = IF picture # <<>> THEN Tail(picture) ELSE picture

\* The time-out may be so short that it is over before the first test.
Get(c) ==
    /\ ~closed /\ call[c] = "idle" /\ calls[c] < MaxCalls
    /\ \E late \in BOOLEAN : Pass(c, request_count + 1, late)
    /\ calls' = [calls EXCEPT ![c] = @ + 1]
    /\ UNCHANGED <<is_available, expired, rendering, frame, closed>>

GetAgain(c) ==
    /\ call[c] = "loop"
    /\ Pass(c, request_count, c \in expired)
    /\ expired' = IF call'[c] = "idle" THEN expired \ {c} ELSE expired
    /\ UNCHANGED <<is_available, calls, rendering, frame, closed>>

\* The deadline passes; the caller may be asleep or about to test it.
Expire(c) ==
    /\ call[c] # "idle" /\ c \notin expired
    /\ expired' = expired \cup {c}
    /\ UNCHANGED <<is_available, request_count, picture, call, calls, rendering, frame, closed>>

\* vlc_cond_timedwait returns at the deadline, or spuriously.
WaitReturns(c) ==
    /\ call[c] = "wait"
    /\ call' = [call EXCEPT ![c] = "loop"]
    /\ UNCHANGED <<is_available, request_count, picture, expired, calls, rendering, frame, closed>>

-----------------------------------------------------------------------------
(* The video output thread                                                   *)

\* vlc_cond_broadcast( &snap->wait )
WakeCallers_One ==
    call' \in IF Asleep = {} THEN {call} ELSE {[call EXCEPT ![c] = "loop"] : c \in Asleep}
WakeCallers == call' = [c \in Callers |-> IF call[c] = "wait" THEN "loop" ELSE call[c]]

\* vout_snapshot_IsRequested sees a request: the picture about to be displayed
\* will be copied.  When the trylock fails the picture is not.
IsRequested ==
    /\ ~closed /\ ~rendering /\ request_count > 0 /\ frame < MaxFrames
    /\ rendering' = TRUE
    /\ frame' = frame + 1
    /\ UNCHANGED <<is_available, request_count, picture, call, expired, calls, closed>>

\* vout_snapshot_Set: one copy per pending request, fewer if memory runs out.
Set ==
    /\ rendering
    /\ \E n \in 0..request_count :
          /\ picture' = [i \in 1..n |-> frame] \o picture
          /\ request_count' = request_count - n
    /\ WakeCallers
    /\ rendering' = FALSE
    /\ UNCHANGED <<is_available, expired, calls, frame, closed>>

\* The display has no picture to spare: the requests wait for the next one.
RenderFails ==
    /\ rendering
    /\ rendering' = FALSE
    /\ UNCHANGED <<is_available, request_count, picture, call, expired, calls, frame, closed>>

\* vout_snapshot_End, as vout_Close begins.
End ==
    /\ is_available
    /\ is_available' = FALSE
    /\ WakeCallers
    /\ UNCHANGED <<request_count, picture, expired, calls, rendering, frame, closed>>

\* vout_snapshot_Clean: the output thread is joined and nobody uses the output.
Clean ==
    /\ ~is_available /\ ~closed /\ ~rendering /\ Pending = {}
    /\ picture' = <<>>
    /\ closed' = TRUE
    /\ UNCHANGED <<is_available, request_count, call, expired, calls, rendering, frame>>

-----------------------------------------------------------------------------
Next ==
    \/ \E c \in Callers : Get(c) \/ GetAgain(c) \/ Expire(c) \/ WaitReturns(c)
    \/ IsRequested \/ Set \/ RenderFails \/ End \/ Clean

Spec == Init /\ [][Next]_vars

\* Threads run, deadlines pass, and a timed wait returns at its deadline.
Fairness ==
    \A c \in Callers :
        /\ WF_vars(GetAgain(c))
        /\ WF_vars(Expire(c))
        /\ WF_vars(c \in expired /\ WaitReturns(c))

FairSpec == Spec /\ Fairness

-----------------------------------------------------------------------------
(* Properties                                                                *)

\* The requests still counted and the copies not yet fetched are together as
\* many as the calls in progress: a call that times out as its copy is being
\* made neither leaves a copy behind for a later snapshot, nor a request that
\* makes the output copy pictures nobody fetches.
Balanced == request_count + Len(picture) = Cardinality(Pending)

\* Nobody sleeps while a copy is there to fetch, nor on an output that is being
\* closed.
NoForgottenCaller == Asleep # {} => is_available /\ picture = <<>>

\* vout_snapshot_Get returns.
GetReturns == \A c \in Callers : call[c] # "idle" ~> call[c] = "idle"
=============================================================================
