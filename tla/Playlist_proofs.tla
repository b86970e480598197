--------------------------- MODULE Playlist_proofs ---------------------------
(* Proofs about Playlist, for any number of items and calls.                 *)
EXTENDS Playlist, FiniteSetTheorems, TLAPS

Requests == [pending : BOOLEAN, status : {"stopped", "running", "paused"},
             item : 0..NItems, skip : {-1, 0, 1}]

-----------------------------------------------------------------------------
(* Arrays and indices                                                        *)

LEMMA ItemsFinite == TypeOK => IsFiniteSet(items) /\ Cardinality(items) \in Nat
<1>1. TypeOK => added \in Int /\ items \subseteq 1..added
  BY PlaylistBounds DEF TypeOK
<1>2. TypeOK => IsFiniteSet(1..added)
  BY <1>1, FS_Interval
<1> QED
  BY <1>1, <1>2, FS_Subset, FS_CardinalityType

LEMMA ArraysAreSequences ==
    ASSUME TypeOK, NEW a \in Arrays
    PROVE  a \in Seq(Items) /\ Len(a) = Cardinality(items)
<1>1. a \in [1..Cardinality(items) -> items] /\ Cardinality(items) \in Nat
  BY ItemsFinite DEF Arrays
<1>2. items \subseteq Items
  BY PlaylistBounds DEF TypeOK, Items
<1>3. a \in [1..Cardinality(items) -> Items]
  BY <1>1, <1>2
<1> QED
  BY <1>1, <1>3

\* An item found in an array has an index in it, another one has -1.
LEMMA IndexInArray ==
    ASSUME NEW a \in Seq(Items), NEW item
    PROVE  IndexOf(a, item) \in Int /\ IndexOf(a, item) >= -1 /\ IndexOf(a, item) < Len(a)
<1>1. CASE \E i \in DOMAIN a : a[i] = item
  <2>1. (CHOOSE i \in DOMAIN a : a[i] = item) \in 1..Len(a)
    BY <1>1
  <2> DEFINE k == CHOOSE i \in DOMAIN a : a[i] = item
  <2>2. IndexOf(a, item) = k - 1 /\ k \in 1..Len(a)
    BY <1>1, <2>1 DEF IndexOf
  <2> HIDE DEF k
  <2> QED
    BY <2>2
<1>2. CASE ~\E i \in DOMAIN a : a[i] = item
  BY <1>2 DEF IndexOf
<1> QED
  BY <1>1, <1>2

LEMMA ResyncType == ASSUME TypeOK, NEW item PROVE Resync(item) \in Int
<1>1. IsFiniteSet({i \in items : i < item})
  BY ItemsFinite, FS_Subset
<1>2. Cardinality({i \in items : i < item}) \in Int
  BY <1>1, FS_CardinalityType
<1>3. IndexOf(current, item) \in Int
  BY IndexInArray DEF TypeOK
<1> QED
  BY <1>2, <1>3 DEF Resync

-----------------------------------------------------------------------------
(* NextItem                                                                  *)

\* Whatever NextItem finds, the array is one of items and the index a number.
LEMMA NextItemTypes ==
    ASSUME TypeOK, NEW item, NEW a, NEW i, NextItem(item, a, i)
    PROVE  a \in Seq(Items) /\ i \in Int /\ reset' \in BOOLEAN /\ request' \in Requests
<1>1. Array \subseteq Seq(Items)
  BY ArraysAreSequences DEF Array, TypeOK
<1>2. \A b \in Array : Shuffled(b) \subseteq Seq(Items)
  BY <1>1, ArraysAreSequences DEF Shuffled
<1>3. ASSUME Requested(item, a, i) PROVE a \in Seq(Items) /\ i \in Int
  <2>1. PICK b \in Array, skip \in {-1, 0, 1} :
           \/ a = b /\ i = Resync(request.item) + skip
           \/ a \in Shuffled(b) /\ i = (IF skip > 0 THEN 0 ELSE Len(a) - 1)
    <3> DEFINE s == IF request.skip = 0 /\ request.item = None THEN 1 ELSE request.skip
    <3>1. s \in {-1, 0, 1}
      BY DEF TypeOK
    <3>2. \E b \in Array : \/ a = b /\ i = Resync(request.item) + s
                           \/ a \in Shuffled(b) /\ i = (IF s > 0 THEN 0 ELSE Len(a) - 1)
      BY <1>3 DEF Requested
    <3> QED
      BY <3>1, <3>2
  <2>2. CASE a = b /\ i = Resync(request.item) + skip
    <3>1. Resync(request.item) \in Int
      BY ResyncType
    <3> QED
      BY <1>1, <2>2, <3>1
  <2>3. CASE a \in Shuffled(b) /\ i = (IF skip > 0 THEN 0 ELSE Len(a) - 1)
    <3>1. a \in Seq(Items)
      BY <1>2, <2>3
    <3> QED
      BY <2>3, <3>1
  <2> QED
    BY <2>1, <2>2, <2>3
<1>4. ASSUME Following(item, a, i) PROVE a \in Seq(Items) /\ i \in Int
  <2>1. NextIndex \in Int
    <3>1. Resync(playing) \in Int /\ index \in Int
      BY ResyncType DEF TypeOK
    <3> QED
      BY <3>1 DEF NextIndex
  <2>2. PICK b \in Array : \/ a = b /\ i = NextIndex
                           \/ a \in Shuffled(b) /\ i = 0
    BY <1>4 DEF Following
  <2> QED
    BY <1>1, <1>2, <2>1, <2>2
<1>5. current \in Seq(Items) /\ index \in Int /\ reset \in BOOLEAN /\ request \in Requests
  BY DEF TypeOK, Requests
<1>6. [request EXCEPT !.pending = FALSE] \in Requests
  BY <1>5 DEF Requests
<1> QED
  BY <1>3, <1>4, <1>5, <1>6 DEF NextItem

-----------------------------------------------------------------------------
(* Type correctness                                                          *)

\* What the calls leave of the state, by groups of variables.
ListType ==
    /\ added \in 0..NItems /\ items \subseteq 1..added
    /\ current \in Seq(Items) /\ index \in Int /\ reset \in BOOLEAN
StateType ==
    /\ status \in {"stopped", "running", "paused"} /\ playing \in 0..NItems
    /\ idlePaused \in BOOLEAN
InputType ==
    /\ p_input \in BOOLEAN
    /\ phase \in {"none", "run", "ended", "ending", "dead", "event", "gone"}
    /\ die \in BOOLEAN /\ callback \in BOOLEAN /\ vout \in BOOLEAN
StopType == quitting \in BOOLEAN /\ killed \in BOOLEAN
PcType == pc \in {"loop", "look", "wait", "woken", "remove", "close", "activity", "vout", "done",
                 "aborted"}

LEMMA TypeParts ==
    /\ TypeOK <=> /\ ListType /\ StateType /\ InputType /\ StopType /\ PcType
                  /\ request \in Requests /\ ops \in 0..MaxOps
    /\ TypeOK' <=> /\ ListType' /\ StateType' /\ InputType' /\ StopType' /\ PcType'
                   /\ request' \in Requests /\ ops' \in 0..MaxOps
BY Zenon DEF TypeOK, ListType, StateType, InputType, StopType, PcType, Requests

LEMMA SignalType == PcType /\ Signal => PcType'
BY DEF PcType, Signal

LEMMA CallType == ops \in 0..MaxOps /\ Call => ops' \in 0..MaxOps
BY PlaylistBounds DEF Call

LEMMA AskType ==
    ASSUME NEW s \in {"stopped", "running", "paused"}, NEW item \in 0..NItems,
           NEW skip \in {-1, 0, 1}, Ask(s, item, skip)
    PROVE  request' \in Requests
BY DEF Ask, Requests

LEMMA UnchangedTypes ==
    /\ ListType /\ UNCHANGED list => ListType'
    /\ StateType /\ UNCHANGED state => StateType'
    /\ InputType /\ UNCHANGED input => InputType'
    /\ StopType /\ UNCHANGED stop => StopType'
    /\ PcType /\ UNCHANGED pc => PcType'
BY DEF ListType, list, StateType, state, InputType, input, StopType, stop, PcType

LEMMA CallsKeepTypes ==
    ASSUME TypeOK
    PROVE  /\ Stop \/ Play \/ Pause \/ Deactivate \/ Kill => TypeOK'
           /\ \A item \in items \cup {None} : ViewPlay(item) => TypeOK'
           /\ \A n \in {-1, 1} : Skip(n) => TypeOK'
           /\ \A go \in BOOLEAN : Add(go) => TypeOK'
           /\ \A item \in Items : Delete(item) => TypeOK'
<1> USE TypeParts, SignalType, CallType, UnchangedTypes
<1>0. /\ request \in Requests /\ request.status \in {"stopped", "running", "paused"}
      /\ request.skip \in {-1, 0, 1} /\ None \in 0..NItems /\ playing \in 0..NItems
      /\ status \in {"stopped", "running", "paused"} /\ ListType /\ InputType /\ StateType
  BY PlaylistBounds DEF Requests, StateType, None
<1>1. Stop => TypeOK'
  <2>1. AskStop => request' \in Requests
    BY <1>0, AskType DEF AskStop
  <2> QED
    BY <2>1 DEF Stop
<1>2. Play => TypeOK'
  <2>1. Ask("running", playing, 0) => request' \in Requests
    BY <1>0, AskType
  <2>2. status' = "running" /\ UNCHANGED <<playing, idlePaused>> => StateType'
    BY <1>0 DEF StateType
  <2>3. UNCHANGED <<status, playing, idlePaused>> => StateType'
    BY <1>0 DEF StateType
  <2> QED
    BY <1>0, <2>1, <2>2, <2>3 DEF Play
<1>3. Pause => TypeOK'
  <2>1. Pause => StateType'
    BY <1>0 DEF Pause, StateType
  <2> QED
    BY <1>0, <2>1 DEF Pause
<1>4. Deactivate \/ Kill => TypeOK'
  BY <1>0 DEF Deactivate, Kill, StopType
<1>5. ASSUME NEW item \in items \cup {None}, ViewPlay(item) PROVE TypeOK'
  <2>1. item \in 0..NItems
    BY PlaylistBounds, <1>0 DEF ListType, None
  <2>2. request' \in Requests
    BY <1>5, <2>1, AskType DEF ViewPlay
  <2>3. ListType'
    BY <1>0, <1>5 DEF ViewPlay, ListType
  <2> QED
    BY <1>5, <2>2, <2>3 DEF ViewPlay
<1>6. ASSUME NEW n \in {-1, 1}, Skip(n) PROVE TypeOK'
  <2>1. request' \in Requests
    BY <1>0, <1>6, AskType DEF Skip
  <2> QED
    BY <1>6, <2>1 DEF Skip
<1>7. ASSUME NEW go \in BOOLEAN, Add(go) PROVE TypeOK'
  <2>1. added + 1 \in 0..NItems /\ ListType'
    BY PlaylistBounds, <1>0, <1>7 DEF Add, ListType
  <2>2. InputType'
    BY <1>0, <1>7 DEF Add, InputType
  <2>3. request' \in Requests
    BY <1>0, <1>7, <2>1, AskType DEF Add
  <2> QED
    BY <1>7, <2>1, <2>2, <2>3 DEF Add
<1>8. ASSUME NEW item \in Items, Delete(item) PROVE TypeOK'
  <2>1. current' \in Seq(Items)
    <3>1. ASSUME NEW k \in DOMAIN current
          PROVE  SubSeq(current, 1, k - 1) \o SubSeq(current, k + 1, Len(current)) \in Seq(Items)
      <4>1. current \in Seq(Items) /\ k \in 1..Len(current)
        BY <1>0 DEF ListType
      <4>2. SubSeq(current, 1, k - 1) \in Seq(Items)
        BY <4>1
      <4>3. SubSeq(current, k + 1, Len(current)) \in Seq(Items)
        BY <4>1
      <4> QED
        BY <4>2, <4>3
    <3> QED
      BY <1>0, <1>8, <3>1 DEF Delete, ListType
  <2>2. ListType'
    BY <1>0, <1>8, <2>1 DEF Delete, ListType
  <2>3. request' \in Requests
    BY <1>0, <1>8, AskType DEF Delete, AskStop
  <2>4. StateType'
    BY <1>0, <1>8 DEF Delete, StateType
  <2>5. PcType'
    BY <1>8 DEF Delete
  <2> QED
    BY <1>8, <2>2, <2>3, <2>4, <2>5 DEF Delete
<1> QED
  BY <1>1, <1>2, <1>3, <1>4, <1>5, <1>6, <1>7, <1>8

LEMMA PlayKeepsTypes ==
    ASSUME TypeOK
    PROVE  /\ PlayNothing => TypeOK'
           /\ \A item \in Items : PlayItem(item) => TypeOK'
<1> USE TypeParts, UnchangedTypes
<1>1. ASSUME PlayNothing PROVE TypeOK'
  <2>1. /\ current' \in Seq(Items) /\ index' \in Int /\ reset' \in BOOLEAN
        /\ request' \in Requests
    BY <1>1, NextItemTypes DEF PlayNothing
  <2>2. ListType' /\ StateType'
    BY <1>1, <2>1 DEF PlayNothing, ListType, StateType
  <2> QED
    BY <1>1, <2>1, <2>2 DEF PlayNothing
<1>2. ASSUME NEW item \in Items, PlayItem(item) PROVE TypeOK'
  <2>1. current' \in Seq(Items) /\ reset' \in BOOLEAN /\ request' \in Requests
    BY <1>2, NextItemTypes DEF PlayItem
  <2>2. index' \in Int
    BY <1>2, <2>1, IndexInArray DEF PlayItem
  <2>3. ListType'
    BY <1>2, <2>1, <2>2 DEF PlayItem, ListType
  <2>4. StateType'
    <3>1. item \in 0..NItems
      BY PlaylistBounds DEF Items
    <3>2. playing' = item /\ status' = "running" /\ idlePaused' = FALSE
      BY <1>2 DEF PlayItem
    <3> QED
      BY <3>1, <3>2 DEF StateType
  <2>6. PcType'
    <3>1. pc' = "activity"
      BY <1>2 DEF PlayItem
    <3> QED
      BY <3>1 DEF PcType
  <2>5. InputType'
    <3>1. InputType
      OBVIOUS
    <3> QED
      BY <1>2, <3>1 DEF PlayItem, InputType
  <2> QED
    BY <1>2, <2>1, <2>3, <2>4, <2>5, <2>6 DEF PlayItem
<1> QED
  BY <1>1, <1>2

LEMMA StepsKeepTypes ==
    ASSUME TypeOK
    PROVE  /\ InputEnds \/ InputStateEvent \/ InputDies \/ InputDeadTrigger \/ InputDeadEvent
                 => TypeOK'
           /\ LoopInput \/ LookAtInput \/ RemoveCallback \/ CloseInput => TypeOK'
           /\ ReleaseLock \/ TerminateVout \/ Sleep \/ Exit \/ Abort \/ Relock => TypeOK'
<1> USE TypeParts, SignalType, UnchangedTypes
<1>1. InputEnds \/ InputStateEvent \/ InputDies \/ InputDeadTrigger \/ InputDeadEvent => TypeOK'
  BY DEF InputEnds, InputStateEvent, InputDies, InputDeadTrigger, InputDeadEvent, InputType
<1>2. ASSUME LoopInput \/ LookAtInput \/ RemoveCallback \/ CloseInput PROVE TypeOK'
  <2>1. request.pending \in BOOLEAN /\ killed \in BOOLEAN /\ InputType
    BY DEF Requests, StopType
  <2>2. (die \/ request.pending \/ killed) \in BOOLEAN /\ (die \/ b_eof) \in BOOLEAN
    BY <2>1 DEF InputType, b_eof
  <2>3. InputType' /\ PcType'
    BY <1>2, <2>1, <2>2 DEF LoopInput, LookAtInput, RemoveCallback, CloseInput, InputType, PcType
  <2> QED
    BY <1>2, <2>3 DEF LoopInput, LookAtInput, RemoveCallback, CloseInput
<1>3. ReleaseLock \/ TerminateVout \/ Sleep \/ Exit \/ Abort \/ Relock => TypeOK'
  BY DEF ReleaseLock, TerminateVout, Sleep, Exit, Abort, Relock, InputType, StateType, PcType
<1> QED
  BY <1>1, <1>2, <1>3

LEMMA TypeInit == Init => TypeOK
<1> SUFFICES ASSUME Init PROVE TypeOK
  OBVIOUS
<1>0. StateType /\ PcType
  <2>1. status = "stopped" /\ idlePaused = FALSE /\ pc = "loop"
    BY DEF Init
  <2>2. playing \in 0..NItems
    BY PlaylistBounds DEF Init, None
  <2> QED
    BY <2>1, <2>2 DEF StateType, PcType
<1>1. ListType
  <2>1. <<>> \in Seq(Items)
    OBVIOUS
  <2> QED
    BY <2>1, PlaylistBounds DEF Init, ListType
<1>2. InputType /\ StopType
  BY DEF Init, InputType, StopType
<1>3. request \in Requests /\ ops \in 0..MaxOps
  BY PlaylistBounds DEF Init, Requests, None
<1> QED
  BY <1>0, <1>1, <1>2, <1>3, TypeParts

LEMMA TypeStep == TypeOK /\ [Next]_vars => TypeOK'
<1> SUFFICES ASSUME TypeOK, [Next]_vars PROVE TypeOK'
  OBVIOUS
<1>1. CASE UNCHANGED vars
  BY <1>1, TypeParts, UnchangedTypes DEF vars
<1>2. CASE Next
  BY <1>2, CallsKeepTypes, PlayKeepsTypes, StepsKeepTypes DEF Next, ThreadStep
<1> QED
  BY <1>1, <1>2

\* The types of the playlist's variables, for every behaviour of its threads.
THEOREM TypeCorrect == Spec => []TypeOK
<1> QED
  BY TypeInit, TypeStep, PTL DEF Spec

-----------------------------------------------------------------------------
(* One input at a time, and no forgotten work                                *)

\* The input the thread knows of has a thread, and tells of its end.
Known == p_input => phase # "none" /\ callback

\* One it is closing is dead; otherwise one it does not know of is gone.
Closing == pc \in {"remove", "close"} => ~p_input /\ phase \in {"dead", "event", "gone"}
Closed == ~p_input /\ pc \notin {"remove", "close"} => phase = "none"

\* Between the two looks at an input nobody can ask for anything.
Looking == pc = "look" => p_input /\ (request.pending \/ killed => die)

IInv == Known /\ Closing /\ Closed /\ Looking /\ NoForgottenWork

\* A call that signals leaves no thread asleep.
LEMMA AwakeAfterCall ==
    ASSUME IInv, Unlocked, Signal, UNCHANGED <<p_input, phase, callback>>
    PROVE  IInv' /\ pc' \notin {"look", "wait"}
BY DEF IInv, Known, Closing, Closed, Looking, NoForgottenWork, Unlocked, Signal

LEMMA CallsKeepIInv ==
    ASSUME IInv
    PROVE  /\ Stop \/ Play \/ Pause \/ Deactivate \/ Kill => IInv'
           /\ \A item \in items \cup {None} : ViewPlay(item) => IInv'
           /\ \A n \in {-1, 1} : Skip(n) => IInv'
           /\ \A go \in BOOLEAN : Add(go) => IInv'
           /\ \A item \in Items : Delete(item) => IInv'
<1> USE AwakeAfterCall DEF input
<1>1. Stop => IInv'
  BY DEF Stop, Call
<1>2. Play => IInv'
  BY DEF Play, Call
<1>3. ASSUME Pause PROVE IInv'
  <2>1. CASE Signal
    BY <1>3, <2>1 DEF Pause, Call
  <2>2. CASE UNCHANGED pc
    BY <1>3, <2>2 DEF Pause, IInv, Known, Closing, Closed, Looking, NoForgottenWork, stop
  <2> QED
    BY <1>3, <2>1, <2>2 DEF Pause
<1>4. Deactivate => IInv'
  BY DEF Deactivate, IInv, Known, Closing, Closed, Looking, NoForgottenWork
<1>5. Kill => IInv'
  BY DEF Kill
<1>6. ASSUME NEW item \in items \cup {None}, ViewPlay(item) PROVE IInv'
  BY <1>6 DEF ViewPlay, Call
<1>7. ASSUME NEW n \in {-1, 1}, Skip(n) PROVE IInv'
  BY <1>7 DEF Skip, Call
<1>8. ASSUME NEW go \in BOOLEAN, Add(go) PROVE IInv'
  <2>1. CASE Signal
    BY <1>8, <2>1 DEF Add, Call
  <2>2. CASE UNCHANGED <<request, die, pc>>
    BY <1>8, <2>2 DEF Add, IInv, Known, Closing, Closed, Looking, NoForgottenWork, stop
  <2> QED
    BY <1>8, <2>1, <2>2 DEF Add
<1>9. ASSUME NEW item \in Items, Delete(item) PROVE IInv'
  <2>1. CASE Signal
    BY <1>9, <2>1 DEF Delete, Call
  <2>2. CASE UNCHANGED <<request, pc, playing>>
    BY <1>9, <2>2 DEF Delete, IInv, Known, Closing, Closed, Looking, NoForgottenWork, stop
  <2> QED
    BY <1>9, <2>1, <2>2 DEF Delete
<1> QED
  BY <1>1, <1>2, <1>3, <1>4, <1>5, <1>6, <1>7, <1>8, <1>9

\* The input comes to its end: its last event wakes up a thread that sleeps.
LEMMA InputKeepsIInv ==
    ASSUME IInv
    PROVE  InputEnds \/ InputStateEvent \/ InputDies \/ InputDeadTrigger \/ InputDeadEvent => IInv'
<1> USE DEF IInv, Known, Closing, Closed, Looking, NoForgottenWork, stop
<1>1. InputEnds => IInv'
  BY DEF InputEnds
<1>2. InputStateEvent => IInv'
  BY DEF InputStateEvent, Signal, Unlocked
<1>3. InputDies => IInv'
  BY DEF InputDies
<1>4. InputDeadTrigger => IInv'
  BY DEF InputDeadTrigger
<1>5. InputDeadEvent => IInv'
  BY DEF InputDeadEvent, Signal, Unlocked
<1> QED
  BY <1>1, <1>2, <1>3, <1>4, <1>5

LEMMA ThreadKeepsIInv == IInv /\ (ThreadStep \/ Relock) => IInv'
<1> SUFFICES ASSUME IInv, ThreadStep \/ Relock PROVE IInv'
  OBVIOUS
<1> USE DEF IInv, Known, Closing, Closed, Looking, NoForgottenWork, stop
<1>1. ASSUME LoopInput PROVE IInv'
  <2>1. request.pending \/ killed => die'
    BY <1>1, Zenon DEF LoopInput
  <2>2. UNCHANGED <<p_input, phase, callback, request, killed>> /\ p_input /\ pc' = "look"
    BY <1>1 DEF LoopInput
  <2> QED
    BY <2>1, <2>2
<1>2. ASSUME LookAtInput PROVE IInv'
  <2>1. UNCHANGED <<request, killed, phase, callback>> /\ pc = "look"
    BY <1>2 DEF LookAtInput
  <2>2. CASE b_dead
    <3>1. ~p_input' /\ pc' = "remove"
      BY <1>2, <2>2 DEF LookAtInput
    <3> QED
      BY <2>1, <2>2, <3>1 DEF b_dead
  <2>3. CASE ~b_dead
    <3>1. p_input' = p_input /\ pc' = "wait" /\ die' = (die \/ b_eof)
      BY <1>2, <2>3 DEF LookAtInput
    <3>2. die => die'
      BY <3>1, Zenon
    <3> QED
      BY <2>1, <2>3, <3>1, <3>2 DEF b_dead
  <2> QED
    BY <2>2, <2>3
<1>3. RemoveCallback => IInv'
  BY DEF RemoveCallback
<1>4. CloseInput => IInv'
  BY DEF CloseInput
<1>5. ReleaseLock => IInv'
  BY DEF ReleaseLock, Loop, input
<1>6. TerminateVout => IInv'
  BY DEF TerminateVout
<1>7. Sleep => IInv'
  BY DEF Sleep, Loop, i_status, input
<1>8. PlayNothing => IInv'
  BY DEF PlayNothing, Loop, input
<1>9. ASSUME NEW item \in Items, PlayItem(item) PROVE IInv'
  <2>1. ~p_input /\ pc = "loop" /\ phase = "none" /\ pc' = "activity"
    BY <1>9 DEF PlayItem, Loop
  <2>2. \/ p_input' /\ phase' = "run" /\ callback'
        \/ UNCHANGED <<p_input, phase, callback>>
    BY <1>9 DEF PlayItem
  <2> QED
    BY <2>1, <2>2
<1>10. Exit => IInv'
  BY DEF Exit
<1>11. Relock => IInv'
  BY DEF Relock, input
<1>12. Abort => IInv'
  BY DEF Abort, Loop, input
<1> QED
  BY <1>1, <1>2, <1>3, <1>4, <1>5, <1>6, <1>7, <1>8, <1>9, <1>10, <1>11, <1>12
     DEF ThreadStep

LEMMA IInvStep == IInv /\ [Next]_vars => IInv'
<1>1. IInv /\ UNCHANGED vars => IInv'
  BY DEF vars, input, stop, IInv, Known, Closing, Closed, Looking, NoForgottenWork
<1> QED
  BY <1>1, CallsKeepIInv, InputKeepsIInv, ThreadKeepsIInv DEF Next

LEMMA IInvHolds == Spec => []IInv
<1>1. Init => IInv
  BY DEF Init, IInv, Known, Closing, Closed, Looking, NoForgottenWork
<1> QED
  BY <1>1, IInvStep, PTL DEF Spec

\* The thread starts an input, and ends a video output, only after it has closed
\* the last input and joined its thread.
THEOREM OneInputAtATime == Spec => []OneInput
<1>1. IInv => OneInput
  BY DEF IInv, Closed, OneInput
<1> QED
  BY <1>1, IInvHolds, PTL

\* The thread sleeps neither on a request, nor on its own end, nor on an input that
\* has to be told or removed, although InputEvent sets no flag.
THEOREM NoWorkForgotten == Spec => []NoForgottenWork
<1>1. IInv => NoForgottenWork
  BY DEF IInv
<1> QED
  BY <1>1, IInvHolds, PTL

-----------------------------------------------------------------------------
(* The index                                                                 *)

\* While something plays, or the thread would go on by itself, the index is before
\* the end of the array, unless the array is to be made anew or the thread only goes
\* on because of a pause without an input.
Within ==
    (p_input \/ (status # "stopped" /\ ~idlePaused)) /\ ~reset => index < Len(current)

\* Such a pause is forgotten when an input starts.
IdleWithoutInput == idlePaused => ~p_input

IndexInv == Within /\ IdleWithoutInput /\ NeverPastEnd

LEMMA WithinStep ==
    ASSUME TypeOK, IndexInv, [Next]_vars
    PROVE  Within' /\ IdleWithoutInput'
<1> USE DEF IndexInv, Within, IdleWithoutInput, list, state, input, stop
<1>1. CASE UNCHANGED vars
  BY <1>1 DEF vars
<1>2. CASE Stop \/ Play \/ Deactivate \/ Kill
  BY <1>2 DEF Stop, Play, Deactivate, Kill
<1>3. CASE Pause
  <2>1. UNCHANGED <<list, p_input>>
    BY <1>3 DEF Pause
  <2>2. CASE p_input
    <3>1. UNCHANGED idlePaused
      BY <1>3, <2>2 DEF Pause
    <3> QED
      BY <2>1, <2>2, <3>1
  <2>3. CASE ~p_input
    <3>1. ~idlePaused' => ~idlePaused /\ status # "stopped"
      BY <1>3, <2>3, Zenon DEF Pause
    <3> QED
      BY <2>1, <2>3, <3>1
  <2> QED
    BY <2>2, <2>3
<1>4. ASSUME NEW item \in items \cup {None}, ViewPlay(item) PROVE Within' /\ IdleWithoutInput'
  BY <1>4 DEF ViewPlay
<1>5. ASSUME NEW n \in {-1, 1}, Skip(n) PROVE Within' /\ IdleWithoutInput'
  BY <1>5 DEF Skip
<1>6. ASSUME NEW go \in BOOLEAN, Add(go) PROVE Within' /\ IdleWithoutInput'
  BY <1>6 DEF Add
<1>7. ASSUME NEW item \in Items, Delete(item) PROVE Within' /\ IdleWithoutInput'
  BY <1>7 DEF Delete
<1>8. CASE InputEnds \/ InputStateEvent \/ InputDies \/ InputDeadTrigger \/ InputDeadEvent
  BY <1>8 DEF InputEnds, InputStateEvent, InputDies, InputDeadTrigger, InputDeadEvent
<1>9. CASE LoopInput \/ LookAtInput \/ RemoveCallback \/ CloseInput
  BY <1>9 DEF LoopInput, LookAtInput, RemoveCallback, CloseInput
<1>10. CASE ReleaseLock \/ TerminateVout \/ Sleep \/ Exit \/ Abort \/ Relock
  BY <1>10 DEF ReleaseLock, TerminateVout, Sleep, Exit, Abort, Relock, Loop
<1>11. CASE PlayNothing
  BY <1>11 DEF PlayNothing, Loop
<1>12. ASSUME NEW item \in Items, PlayItem(item) PROVE Within' /\ IdleWithoutInput'
  <2>1. current' \in Seq(Items) /\ index' = IndexOf(current', item) /\ ~idlePaused'
    BY <1>12, NextItemTypes DEF PlayItem
  <2> QED
    BY <2>1, IndexInArray
<1> QED
  BY <1>1, <1>2, <1>3, <1>4, <1>5, <1>6, <1>7, <1>8, <1>9, <1>10, <1>11, <1>12
     DEF Next, ThreadStep

\* In a new array the index is that of an item, or -1.
LEMMA ResyncBelow ==
    ASSUME TypeOK, reset, NEW item, NEW b \in Array
    PROVE  Resync(item) + 1 <= Len(b)
<1>1. Len(b) = Cardinality(items) /\ IsFiniteSet(items) /\ Cardinality(items) \in Nat
  BY ArraysAreSequences, ItemsFinite DEF Array
<1>2. CASE item \in items
  <2> DEFINE before == {i \in items : i < item}
  <2>1. /\ IsFiniteSet(items \ {item})
        /\ Cardinality(items \ {item}) = Cardinality(items) - 1
    BY <1>1, <1>2, FS_RemoveElement
  <2>2. before \subseteq items \ {item}
    <3>1. \A i \in items : i \in Int
      BY PlaylistBounds DEF TypeOK
    <3>2. ~(item < item)
      BY <1>2, <3>1
    <3> QED
      BY <3>2
  <2>3. Cardinality(before) <= Cardinality(items \ {item}) /\ IsFiniteSet(before)
    BY <2>1, <2>2, FS_Subset
  <2>4. Cardinality(before) \in Nat
    BY <2>3, FS_CardinalityType
  <2>5. Resync(item) = Cardinality(before)
    BY <1>2 DEF Resync
  <2> QED
    BY <1>1, <2>1, <2>3, <2>4, <2>5
<1>3. CASE item \notin items
  BY <1>1, <1>3 DEF Resync
<1> QED
  BY <1>2, <1>3

\* The assertion fails only where the index was left at the end.
LEMMA AbortStep ==
    ASSUME TypeOK, IndexInv, Abort
    PROVE  idlePaused
<1>1. ~p_input /\ status # "stopped"
  BY DEF Abort, Loop, i_status
<1>2. PICK b \in Array : NextIndex > Len(b)
  BY DEF Abort
<1>3. CASE reset
  <2>1. Resync(playing) + 1 <= Len(b) /\ NextIndex = Resync(playing) + 1
    BY <1>3, ResyncBelow DEF NextIndex
  <2>2. Resync(playing) \in Int /\ Len(b) \in Int
    BY <1>3, ResyncType, ArraysAreSequences DEF Array
  <2> QED
    BY <1>2, <2>1, <2>2
<1>4. CASE ~reset
  <2>1. index + 1 > Len(current) /\ index \in Int /\ Len(current) \in Int
    BY <1>2, <1>4 DEF NextIndex, Array, TypeOK
  <2> QED
    BY <1>1, <1>4, <2>1 DEF IndexInv, Within
<1> QED
  BY <1>3, <1>4

LEMMA IndexStep ==
    ASSUME TypeOK, IndexInv, [Next]_vars
    PROVE  IndexInv'
<1> SUFFICES NeverPastEnd'
  BY WithinStep DEF IndexInv
<1>1. CASE Abort
  BY <1>1, AbortStep DEF Abort, state, NeverPastEnd
<1>2. CASE pc = "aborted"
  <2>1. idlePaused
    BY <1>2 DEF IndexInv, NeverPastEnd
  <2> QED
    BY <1>1, <1>2, <2>1
       DEF NeverPastEnd, Next, ThreadStep, vars, state, stop, list, input, Call, Unlocked, Loop,
           Stop, Play, Pause, Deactivate, Kill, ViewPlay, Skip, Add, Delete,
           InputEnds, InputStateEvent, InputDies, InputDeadTrigger, InputDeadEvent,
           LoopInput, LookAtInput, RemoveCallback, CloseInput, ReleaseLock, TerminateVout,
           Sleep, PlayNothing, PlayItem, Exit, Relock
<1>3. CASE pc # "aborted" /\ ~Abort
  <2>1. pc' # "aborted"
    BY <1>3
       DEF Next, ThreadStep, vars, Call, Unlocked, Loop, Signal,
           Stop, Play, Pause, Deactivate, Kill, ViewPlay, Skip, Add, Delete,
           InputEnds, InputStateEvent, InputDies, InputDeadTrigger, InputDeadEvent,
           LoopInput, LookAtInput, RemoveCallback, CloseInput, ReleaseLock, TerminateVout,
           Sleep, PlayNothing, PlayItem, Exit, Relock
  <2> QED
    BY <2>1 DEF NeverPastEnd
<1> QED
  BY <1>1, <1>2, <1>3

\* NextItem never goes on from beyond the end of the array, whatever is asked of the
\* playlist, unless somebody has paused it as it was stopped.
THEOREM IndexStaysWithin == Spec => []NeverPastEnd
<1>1. Init => IndexInv
  BY DEF Init, IndexInv, Within, IdleWithoutInput, NeverPastEnd
<1>2. TypeOK /\ IndexInv /\ [Next]_vars => IndexInv'
  BY IndexStep
<1>3. IndexInv => NeverPastEnd
  BY DEF IndexInv
<1> QED
  BY <1>1, <1>2, <1>3, TypeCorrect, PTL DEF Spec
=============================================================================
