------------------------------ MODULE Playlist ------------------------------
(* The playlist thread (src/playlist/thread.c): the requests it is given      *)
(* (src/playlist/control.c, item.c, tree.c) and the input it owns.  It works  *)
(* under the playlist lock, which it drops while it sleeps, while it closes an *)
(* input or a video output, and around the "activity" callbacks.              *)
EXTENDS Integers, Sequences, FiniteSets

CONSTANTS
    NItems,     \* bound on the items ever added, each with its own i_id
    Deletable,  \* the items somebody may delete
    Random,     \* the variable "random"
    MaxOps      \* bound on the calls made to the playlist

None == 0
Items == 1..NItems

ASSUME PlaylistBounds ==
    /\ NItems \in Nat /\ MaxOps \in Nat
    /\ Deletable \subseteq Items
    /\ Random \in BOOLEAN

VARIABLES
    added,    \* number of items added so far
    items,    \* the items in the playlist
    current, index, reset, \* current, i_current_index, b_reset_currently_playing
    status, playing,       \* status.i_status, status.p_item
    idlePaused, \* history: a stopped playlist was paused without an input, and the
              \* thread has not set its status since
    request,  \* request: b_request, i_status, p_item, i_skip
    quitting, \* playlist_Deactivate has been called
    killed,
    p_input,  \* there is an input: p_input # NULL
    phase,    \* the thread of the input: none, run, ended, ending, dead, event, gone
    die,      \* it has been told to stop
    callback, \* InputEvent is installed on it
    vout,     \* the input resource keeps a free video output
    pc,       \* the playlist thread: loop and look hold the lock; aborted, with the
              \* program, by the assertion of NextItem
    ops

list == <<added, items, current, index, reset>>
state == <<status, playing, idlePaused>>
input == <<p_input, phase, die, callback, vout>>
stop == <<quitting, killed>>
vars == <<list, state, request, stop, input, pc, ops>>

Init ==
    /\ added = 0 /\ items = {} /\ current = <<>> /\ index = 0 /\ reset = TRUE
    /\ status = "stopped" /\ playing = None /\ idlePaused = FALSE
    /\ request = [pending |-> FALSE, status |-> "stopped", item |-> None, skip |-> 0]
    /\ quitting = FALSE /\ killed = FALSE
    /\ p_input = FALSE /\ phase = "none" /\ die = FALSE /\ callback = FALSE /\ vout = FALSE
    /\ pc = "loop" /\ ops = 0

Unlocked == pc \notin {"loop", "look", "aborted"}

\* vlc_cond_signal: the playlist thread wakes up if it sleeps.
Signal == pc' = IF pc = "wait" THEN "woken" ELSE pc

\* ResyncCurrentIndex.
IndexOf(a, item) ==
    IF \E i \in DOMAIN a : a[i] = item THEN (CHOOSE i \in DOMAIN a : a[i] = item) - 1 ELSE -1

-----------------------------------------------------------------------------
(* The calls: each holds the lock from beginning to end                      *)

Call == Unlocked /\ ops < MaxOps /\ ops' = ops + 1

Ask(i_status, item, skip) ==
    request' = [pending |-> TRUE, status |-> i_status, item |-> item, skip |-> skip]

\* PLAYLIST_STOP leaves i_skip as it was.
AskStop == Ask("stopped", None, request.skip)
Stop == Call /\ AskStop /\ Signal /\ UNCHANGED <<list, state, stop, input>>

\* What every other command needs.
Accepted == ~killed /\ items # {}

\* PLAYLIST_VIEWPLAY in the current node, of an item or from the start.
ViewPlay(item) ==
    /\ Call /\ Accepted
    /\ Ask("running", item, 0)
    /\ reset' = (reset \/ (item # None /\ Random))
    /\ Signal
    /\ UNCHANGED <<added, items, current, index, state, stop, input>>

Play ==
    /\ Call /\ Accepted
    /\ IF p_input
       THEN status' = "running" /\ UNCHANGED request
       ELSE Ask("running", playing, 0) /\ UNCHANGED status
    /\ Signal
    /\ UNCHANGED <<list, playing, idlePaused, stop, input>>

\* With an input it depends on the state of that input.  Without one the thread
\* is not told.
Pause ==
    /\ Call /\ Accepted
    /\ IF p_input
       THEN status' \in {"running", "paused"} /\ Signal /\ UNCHANGED idlePaused
       ELSE /\ status' = "paused" /\ UNCHANGED pc
            /\ idlePaused' = (idlePaused \/ status = "stopped")
    /\ UNCHANGED <<list, playing, request, stop, input>>

Skip(n) ==
    /\ Call /\ Accepted
    /\ Ask(IF status # "stopped" THEN status ELSE request.status, playing, n)
    /\ Signal
    /\ UNCHANGED <<list, state, stop, input>>

\* playlist_AddInput, with PLAYLIST_GO to play the item at once, and otherwise
\* with or without PLAYLIST_NO_REBUILD, which keeps the signal back.
Add(go) ==
    /\ Call /\ added < NItems
    /\ added' = added + 1 /\ items' = items \cup {added + 1} /\ reset' = TRUE
    /\ IF go
       THEN /\ Ask("running", added + 1, 0)
            /\ die' = (die \/ p_input)
            /\ Signal
       ELSE UNCHANGED <<request, die>> /\ (Signal \/ UNCHANGED pc)
    /\ UNCHANGED <<current, index, state, stop, p_input, phase, callback, vout>>

\* playlist_NodeDelete of one item.  The binary search for it in a shuffled array
\* may miss it.
Delete(item) ==
    /\ Call
    /\ item \in items \cap Deletable
    /\ items' = items \ {item} /\ reset' = TRUE
    /\ \/ \E k \in DOMAIN current :
              /\ current[k] = item
              /\ current' = SubSeq(current, 1, k - 1) \o SubSeq(current, k + 1, Len(current))
       \/ (Random \/ IndexOf(current, item) = -1) /\ current' = current
    /\ IF playing = item
       THEN AskStop /\ Signal /\ playing' = None
       ELSE UNCHANGED <<request, pc, playing>>
    /\ UNCHANGED <<added, index, status, idlePaused, stop, input>>

\* playlist_Deactivate, called once: up to the lock, and from there to vlc_join.
Deactivate ==
    /\ ~quitting /\ quitting' = TRUE
    /\ UNCHANGED <<list, state, request, killed, input, pc, ops>>

Kill ==
    /\ quitting /\ ~killed /\ Unlocked
    /\ killed' = TRUE
    /\ Signal
    /\ UNCHANGED <<list, state, request, quitting, input, ops>>

-----------------------------------------------------------------------------
(* The input thread                                                          *)

\* It is at its end, broken or stopped: b_eof or b_error is set.
InputEnds ==
    /\ phase = "run" /\ phase' = "ended"
    /\ UNCHANGED <<list, state, request, stop, p_input, die, callback, vout, pc, ops>>

\* InputEvent for INPUT_EVENT_STATE.
InputStateEvent ==
    /\ phase = "ended" /\ Unlocked /\ phase' = "ending"
    /\ Signal
    /\ UNCHANGED <<list, state, request, stop, p_input, die, callback, vout, ops>>

\* input_SendEventDead: b_dead first, the event then, if anybody listens still.
InputDies ==
    /\ phase = "ending" /\ phase' = "dead"
    /\ UNCHANGED <<list, state, request, stop, p_input, die, callback, vout, pc, ops>>

InputDeadTrigger ==
    /\ phase = "dead" /\ phase' = IF callback THEN "event" ELSE "gone"
    /\ UNCHANGED <<list, state, request, stop, p_input, die, callback, vout, pc, ops>>

InputDeadEvent_StateOnly ==
    /\ phase = "event" /\ Unlocked /\ phase' = "gone"
    /\ UNCHANGED <<list, state, request, stop, p_input, die, callback, vout, pc, ops>>
InputDeadEvent ==
    /\ phase = "event" /\ Unlocked /\ phase' = "gone"
    /\ Signal
    /\ UNCHANGED <<list, state, request, stop, p_input, die, callback, vout, ops>>

b_dead == phase \in {"dead", "event", "gone"}
b_eof == phase \in {"ended", "ending"}

-----------------------------------------------------------------------------
(* NextItem: the item to play, and the array and index it leaves             *)

\* ResetCurrentlyPlaying: the items in order, or shuffled.
Arrays ==
    {a \in [1..Cardinality(items) -> items] :
        \A i, j \in DOMAIN a : i < j => a[i] # a[j] /\ (a[i] < a[j] \/ Random)}
Array == IF reset THEN Arrays ELSE {current}
Shuffled(a) == IF Random THEN Arrays ELSE {a}

\* The index the array is left at: ResetCurrentlyPlaying takes it before it shuffles.
Resync(item) ==
    IF ~reset THEN IndexOf(current, item)
    ELSE IF item \in items THEN Cardinality({i \in items : i < item})
    ELSE -1

\* The item requested, even one that has been deleted since, or the one that is
\* i_skip further; no item stands for the one before the first.
Requested(item, a, i) ==
    \E b \in Array :
        LET skip == IF request.skip = 0 /\ request.item = None THEN 1 ELSE request.skip
            to == Resync(request.item) + skip
        IN \/ skip = 0 /\ a = b /\ i = to /\ item = request.item
           \/ skip # 0 /\ to \in 0..Len(b) - 1 /\ a = b /\ i = to /\ item = b[to + 1]
           \/ /\ skip # 0 /\ to \notin 0..Len(b) - 1
              /\ a \in Shuffled(b) /\ i = (IF skip > 0 THEN 0 ELSE Len(a) - 1)
              /\ item = a[i + 1]

\* The index it goes on to without a request.
NextIndex == (IF reset THEN Resync(playing) ELSE index) + 1

\* The next item, or none if it may not be selected by itself (PLAYLIST_SKIP_FLAG).
\* An index beyond the end fails the assertion: see Abort.
Following(item, a, i) ==
    \E b \in Array :
        LET to == NextIndex
        IN \/ to < Len(b) /\ a = b /\ i = to /\ item \in {None, a[to + 1]}
           \/ to = Len(b) /\ a = b /\ i = to /\ item = None
           \/ to = Len(b) /\ a \in Shuffled(b) /\ i = 0 /\ item \in {None, a[1]}

\* The variables "loop" and "repeat", "play-and-stop" and the flags of the items
\* are left open.
NextItem(item, a, i) ==
    \/ /\ items = {} /\ item = None
       /\ a = current /\ i = index /\ UNCHANGED <<reset, request>>
    \/ /\ items # {} /\ request.pending
       /\ Requested(item, a, i)
       /\ reset' = FALSE /\ request' = [request EXCEPT !.pending = FALSE]
    \/ /\ items # {} /\ ~request.pending /\ item \in {None, playing}
       /\ a = current /\ i = index /\ UNCHANGED <<reset, request>>
    \/ /\ items # {} /\ ~request.pending
       /\ Following(item, a, i)
       /\ reset' = FALSE /\ UNCHANGED request

-----------------------------------------------------------------------------
(* The playlist thread                                                       *)

\* LoopInput.  A request or the end of the playlist stops the input.
LoopInput_Killed ==
    /\ pc = "loop" /\ p_input
    /\ die' = (die \/ request.pending)
    /\ pc' = "look"
    /\ UNCHANGED <<list, state, request, stop, p_input, phase, callback, vout, ops>>
LoopInput ==
    /\ pc = "loop" /\ p_input
    /\ die' = (die \/ request.pending \/ killed)
    /\ pc' = "look"
    /\ UNCHANGED <<list, state, request, stop, p_input, phase, callback, vout, ops>>

\* Its flags are read without its lock.  A dead input is removed with the playlist
\* unlocked, one at its end is told to die.
LookAtInput ==
    /\ pc = "look"
    /\ IF b_dead
       THEN p_input' = FALSE /\ pc' = "remove" /\ UNCHANGED die
       ELSE die' = (die \/ b_eof) /\ pc' = "wait" /\ UNCHANGED p_input
    /\ UNCHANGED <<list, state, request, stop, phase, callback, vout, ops>>

\* var_DelCallback waits for a callback that runs, which needs the playlist lock.
RemoveCallback ==
    /\ pc = "remove" /\ phase # "event"
    /\ callback' = FALSE /\ pc' = "close"
    /\ UNCHANGED <<list, state, request, stop, p_input, phase, die, vout, ops>>

\* input_Close joins the thread, which may have left its video output.
CloseInput_NoJoin ==
    /\ pc = "close"
    /\ phase' = (IF phase = "gone" THEN "none" ELSE phase)
    /\ die' = FALSE /\ vout' \in BOOLEAN /\ pc' = "activity"
    /\ UNCHANGED <<list, state, request, stop, p_input, callback, ops>>
CloseInput ==
    /\ pc = "close" /\ phase = "gone"
    /\ phase' = "none" /\ die' = FALSE /\ vout' \in BOOLEAN /\ pc' = "activity"
    /\ UNCHANGED <<list, state, request, stop, p_input, callback, ops>>

\* vlc_cond_wait returns, also spuriously; or the lock is taken again after the
\* "activity" callbacks.
Relock ==
    /\ pc \in {"wait", "woken", "activity"} /\ pc' = "loop"
    /\ UNCHANGED <<list, state, request, stop, input, ops>>

Loop == pc = "loop" /\ ~p_input /\ ~killed
i_status == IF request.pending THEN request.status ELSE status

\* The video output goes when the playlist stops, without the lock.
ReleaseLock ==
    /\ Loop /\ i_status = "stopped" /\ vout
    /\ pc' = "vout"
    /\ UNCHANGED <<list, state, request, stop, input, ops>>

TerminateVout ==
    /\ pc = "vout"
    /\ vout' = FALSE /\ pc' = "loop"
    /\ UNCHANGED <<list, state, request, stop, p_input, phase, die, callback, ops>>

\* LoopRequest, stopped.
Sleep ==
    /\ Loop /\ i_status = "stopped" /\ ~vout
    /\ status' = "stopped" /\ idlePaused' = FALSE /\ pc' = "wait"
    /\ UNCHANGED <<list, playing, request, stop, input, ops>>

\* LoopRequest with nothing to play: round again, with the lock.
PlayNothing_KeepStatus ==
    /\ Loop /\ i_status # "stopped"
    /\ NextItem(None, current', index')
    /\ UNCHANGED <<added, items, state, stop, input, pc, ops>>
PlayNothing ==
    /\ Loop /\ i_status # "stopped"
    /\ NextItem(None, current', index')
    /\ status' = "stopped" /\ idlePaused' = FALSE
    /\ UNCHANGED <<added, items, playing, stop, input, pc, ops>>

\* The assertion of NextItem that the next index is not beyond the end of the
\* array: the program ends, with the lock.
Abort ==
    /\ Loop /\ i_status # "stopped"
    /\ items # {} /\ ~request.pending
    /\ \E b \in Array : NextIndex > Len(b)
    /\ pc' = "aborted"
    /\ UNCHANGED <<list, state, request, stop, input, ops>>

\* LoopRequest and PlayItem.  The input may fail to start.
PlayItem(item) ==
    /\ Loop /\ i_status # "stopped"
    /\ \E i \in -1..NItems : NextItem(item, current', i)
    /\ index' = IndexOf(current', item)
    /\ playing' = item /\ status' = "running" /\ idlePaused' = FALSE
    /\ \/ p_input' = TRUE /\ phase' = "run" /\ callback' = TRUE
       \/ UNCHANGED <<p_input, phase, callback>>
    /\ pc' = "activity"
    /\ UNCHANGED <<added, items, stop, die, vout, ops>>

\* The end of Thread.
Exit ==
    /\ pc = "loop" /\ ~p_input /\ killed
    /\ status' = "stopped" /\ idlePaused' = FALSE
    /\ vout' = FALSE /\ pc' = "done"
    /\ UNCHANGED <<list, playing, request, stop, p_input, phase, die, callback, ops>>

-----------------------------------------------------------------------------
ThreadStep ==
    \/ LoopInput \/ LookAtInput \/ RemoveCallback \/ CloseInput
    \/ ReleaseLock \/ TerminateVout \/ Sleep \/ PlayNothing \/ Abort \/ Exit
    \/ \E item \in Items : PlayItem(item)

Next ==
    \/ Stop \/ Play \/ Pause \/ Deactivate \/ Kill
    \/ \E item \in items \cup {None} : ViewPlay(item)
    \/ \E n \in {-1, 1} : Skip(n)
    \/ \E go \in BOOLEAN : Add(go)
    \/ \E item \in Items : Delete(item)
    \/ InputEnds \/ InputStateEvent \/ InputDies \/ InputDeadTrigger \/ InputDeadEvent
    \/ ThreadStep \/ Relock

Spec == Init /\ [][Next]_vars

\* The playlist thread runs, an input that is told to die ends, and a thread that
\* waits for the lock gets it in the end.
Fairness ==
    /\ WF_vars(ThreadStep) /\ WF_vars(pc # "wait" /\ Relock)
    /\ WF_vars(die /\ InputEnds) /\ WF_vars(InputDies \/ InputDeadTrigger)
    /\ SF_vars(InputStateEvent \/ InputDeadEvent) /\ SF_vars(Kill)

FairSpec == Spec /\ Fairness

-----------------------------------------------------------------------------
(* Properties                                                                *)

TypeOK ==
    /\ added \in 0..NItems /\ items \subseteq 1..added
    /\ current \in Seq(Items) /\ index \in Int /\ reset \in BOOLEAN
    /\ status \in {"stopped", "running", "paused"} /\ playing \in 0..NItems
    /\ idlePaused \in BOOLEAN
    /\ request \in [pending : BOOLEAN, status : {"stopped", "running", "paused"},
                    item : 0..NItems, skip : {-1, 0, 1}]
    /\ quitting \in BOOLEAN /\ killed \in BOOLEAN /\ p_input \in BOOLEAN
    /\ phase \in {"none", "run", "ended", "ending", "dead", "event", "gone"}
    /\ die \in BOOLEAN /\ callback \in BOOLEAN /\ vout \in BOOLEAN
    /\ pc \in {"loop", "look", "wait", "woken", "remove", "close", "activity", "vout", "done",
              "aborted"}
    /\ ops \in 0..MaxOps

\* One input at a time: when the thread looks for something to play, or for a
\* video output to end, the last input has been closed and its thread joined.
OneInput == pc \in {"loop", "vout", "done"} /\ ~p_input => phase = "none"

\* The thread does not sleep on what it should do: an input whose last event has
\* passed, an input that has not been told about a request, or a request.
NoForgottenWork ==
    pc = "wait" =>
        IF p_input
        THEN phase # "gone" /\ (request.pending \/ killed => die)
        ELSE ~killed /\ (request.pending => request.status = "stopped")

\* The assertion of NextItem on the index fails only after PLAYLIST_PAUSE has
\* been accepted by a stopped playlist without an input: otherwise the thread goes
\* on by itself from the end of the array only once, however the array shrinks,
\* grows and is shuffled meanwhile.
NeverPastEnd == pc = "aborted" => idlePaused

\* Whatever is asked of the playlist is done, or overridden, in the end, unless the
\* program is aborted.
DeactivateReturns == quitting ~> pc \in {"done", "aborted"}
RequestsServed ==
    /\ request.pending /\ request.status # "stopped"
        ~> ~request.pending \/ request.status = "stopped" \/ killed
    /\ request.pending /\ request.status = "stopped" ~> ~p_input \/ request.status # "stopped"
    /\ DeactivateReturns
=============================================================================
