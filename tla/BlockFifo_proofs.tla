-------------------------- MODULE BlockFifo_proofs --------------------------
(* Proofs about BlockFifo, for any number of threads, blocks and limits.     *)
EXTENDS BlockFifo, FiniteSetTheorems, SequenceTheorems, WellFoundedInduction, TLAPS

USE BoundsAreNat

\* A sleeper is inside the call it sleeps in.
SleepersInCall ==
    /\ \A t \in wait : op[t] \in {"get", "show"}
    /\ \A t \in wait_room : op[t] = "pace"

\* The list and its two counters support each other (the depth that a Get
\* subtracts from is positive because the list is p_first..pp_last), and the
\* wake-up properties need to know which call a sleeper is in.
IInv ==
    /\ TypeOK
    /\ ListShape
    /\ SizeMatches
    /\ SleepersInCall
    /\ RoomWaitersAboveLimit
    /\ ForcedWakeSeen

\* A chain holds no negative number of bytes.
LEMMA BytesNat ==
    ASSUME NEW a \in 1..NBlocks, NEW b \in 0..NBlocks, a <= b + 1
    PROVE  Bytes(a, b) \in Nat
BY OffsetsGrow DEF Bytes

LEMMA InitInv == Init => IInv
<1> SUFFICES ASSUME Init PROVE IInv
  OBVIOUS
<1>1. TypeOK
  <2>1. limit \in [Writers -> Nat \X Nat]
    BY DEF Init
  <2>2. p_next \in [Blocks -> 0..NBlocks]
    BY DEF Init
  <2>3. TypeOK
    <3>1. p_first \in 0..NBlocks /\ pp_last \in 0..NBlocks
      BY DEF Init
    <3>2. i_depth \in Nat /\ i_size \in Nat /\ b_force_wake \in BOOLEAN
      BY DEF Init
    <3>3. wait \subseteq Readers /\ wait_room \subseteq Writers /\ cancelled \subseteq Cancellable
      BY DEF Init
    <3>4. op \in [Threads -> {"idle", "get", "show", "pace", "exited"}]
      BY DEF Init
    <3>5. produced \in 0..NBlocks /\ got \in 0..NBlocks
      BY DEF Init
    <3> QED
      BY <2>1, <2>2, <3>1, <3>2, <3>3, <3>4, <3>5 DEF TypeOK
  <2> QED
    BY <2>3
<1>2. ListShape /\ SizeMatches /\ SleepersInCall /\ RoomWaitersAboveLimit /\ ForcedWakeSeen
  BY DEF Init, ListShape, SizeMatches, SleepersInCall, RoomWaitersAboveLimit, ForcedWakeSeen
<1> QED
  BY <1>1, <1>2 DEF IInv

\* Steps that leave the list, the limits and the flag alone and put nobody to
\* sleep keep the invariant if the sleepers that remain are still in their call.
LEMMA NoListChange ==
    ASSUME IInv, TypeOK', UNCHANGED <<list, b_force_wake, limit, produced>>,
           wait' \subseteq wait, wait_room' \subseteq wait_room,
           \A t \in wait' \cup wait_room' : op'[t] = op[t]
    PROVE  IInv'
<1> USE DEF IInv, list
<1>1. ListShape' /\ SizeMatches'
  BY DEF ListShape, SizeMatches, Bytes
<1>2. SleepersInCall' /\ ForcedWakeSeen'
  BY DEF SleepersInCall, ForcedWakeSeen
<1>3. RoomWaitersAboveLimit'
  BY DEF RoomWaitersAboveLimit, Above
<1> QED
  BY <1>1, <1>2, <1>3

\* block_FifoGet finds a block: the list loses its head, the counters what it
\* stood for, and every producer is woken up.
LEMMA GetBlockInv ==
    ASSUME IInv, NEW t \in Readers, t \notin wait, GetBlock(t), UNCHANGED <<limit, cancelled, produced>>
    PROVE  IInv'
<1> USE DEF IInv
<1>1. /\ p_first \in 1..NBlocks /\ pp_last \in 1..NBlocks /\ p_first <= pp_last
      /\ i_depth \in Nat /\ i_depth = pp_last - p_first + 1
      /\ i_size = Offset[pp_last] - Offset[p_first - 1]
  <2>1. p_first # 0 /\ p_first \in 0..NBlocks /\ pp_last \in 0..NBlocks /\ i_depth \in Nat
    BY DEF GetBlock, TypeOK
  <2>2. p_first <= pp_last /\ i_depth = pp_last - p_first + 1
    BY <2>1 DEF ListShape
  <2>3. i_size = Offset[pp_last] - Offset[p_first - 1]
    BY <2>1 DEF SizeMatches, Bytes
  <2> QED
    BY <2>1, <2>2, <2>3
<1>2. /\ \A b \in p_first..pp_last - 1 : p_next[b] = b + 1
      /\ p_next[pp_last] = 0
      /\ pp_last = produced
  BY <1>1 DEF ListShape
<1>3. /\ p_first' = IF p_first = pp_last THEN 0 ELSE p_first + 1
      /\ pp_last' = IF p_first = pp_last THEN 0 ELSE pp_last
      /\ p_next' = [p_next EXCEPT ![p_first] = 0]
      /\ i_depth' = i_depth - 1
      /\ i_size' = i_size - (Offset[p_first] - Offset[p_first - 1])
      /\ produced' = produced
  <2>1. p_next[p_first] = IF p_first = pp_last THEN 0 ELSE p_first + 1
    BY <1>1, <1>2
  <2> QED
    BY <1>1, <2>1 DEF GetBlock, UnlinkFirst, Bytes
<1>4. ListShape' /\ SizeMatches'
  <2>1. CASE p_first = pp_last
    <3>1. p_first' = 0 /\ pp_last' = 0 /\ i_depth' = 0
      BY <1>1, <1>3, <2>1
    <3>2. i_size' = 0
      <4>1. Offset[p_first] \in Nat /\ Offset[p_first - 1] \in Nat
        BY <1>1, OffsetsGrow
      <4> QED
        BY <1>1, <1>3, <2>1, <4>1
    <3> QED
      BY <3>1, <3>2 DEF ListShape, SizeMatches
  <2>2. CASE p_first # pp_last
    <3>1. p_first' # 0 /\ p_first' = p_first + 1 /\ pp_last' = pp_last
      BY <1>1, <1>3, <2>2
    <3>2. p_first' <= pp_last' /\ pp_last' = produced' /\ i_depth' = pp_last' - p_first' + 1
      BY <1>1, <1>2, <1>3, <2>2, <3>1
    <3>3. \A b \in p_first' .. pp_last' : p_next'[b] = p_next[b]
      BY <1>1, <1>3, <3>1 DEF TypeOK, Blocks
    <3>4. /\ \A b \in p_first' .. pp_last' - 1 : p_next'[b] = b + 1
          /\ p_next'[pp_last'] = 0
      BY <1>1, <1>2, <2>2, <3>1, <3>3
    <3>5. SizeMatches'
      <4>1. Offset[p_first] \in Nat /\ Offset[p_first - 1] \in Nat /\ Offset[pp_last] \in Nat
        BY <1>1, OffsetsGrow
      <4> QED
        BY <1>1, <1>3, <3>1, <4>1 DEF SizeMatches, Bytes
    <3> QED
      BY <3>1, <3>2, <3>4, <3>5 DEF ListShape
  <2> QED
    BY <2>1, <2>2
<1>5. i_size' \in Nat
  <2>1. CASE p_first = pp_last
    BY <2>1, <1>4, <1>3 DEF SizeMatches
  <2>2. CASE p_first # pp_last
    <3>1. p_first \in 0..NBlocks /\ pp_last \in 0..NBlocks /\ p_first <= pp_last
      BY <1>1
    <3>2. Offset[p_first] <= Offset[pp_last] /\ Offset[p_first] \in Nat
          /\ Offset[pp_last] \in Nat /\ Offset[p_first - 1] \in Nat
      BY <3>1, <1>1, OffsetsGrow
    <3>3. i_size' = Offset[pp_last] - Offset[p_first]
      BY <3>2, <1>1 DEF GetBlock, Bytes
    <3> QED
      BY <3>2, <3>3
  <2> QED
    BY <2>1, <2>2
<1>6. TypeOK'
  <2>1. /\ p_first' \in 0..NBlocks /\ pp_last' \in 0..NBlocks
        /\ p_next' \in [Blocks -> 0..NBlocks]
        /\ i_depth' \in Nat
    BY <1>1, <1>3 DEF TypeOK, Blocks
  <2>2. /\ b_force_wake' \in BOOLEAN /\ wait' \subseteq Readers /\ wait_room' \subseteq Writers
        /\ op' \in [Threads -> {"idle", "get", "show", "pace", "exited"}]
        /\ got' \in 0..NBlocks
    BY <1>1 DEF TypeOK, GetBlock, WakeAllWriters, Return, Threads
  <2> QED
    BY <2>1, <2>2, <1>5 DEF TypeOK
<1>7. wait' = wait /\ wait_room' = {} /\ ~b_force_wake' /\ \A s \in wait : op'[s] = op[s]
  BY DEF GetBlock, WakeAllWriters, Return, TypeOK, Threads
<1>8. SleepersInCall' /\ RoomWaitersAboveLimit' /\ ForcedWakeSeen'
  BY <1>7 DEF SleepersInCall, RoomWaitersAboveLimit, ForcedWakeSeen
<1> QED
  BY <1>4, <1>6, <1>8

\* The three ways a pass through the loop of block_FifoGet can end.
LEMMA FifoGetInv ==
    ASSUME IInv, NEW t \in Readers, FifoGet(t)
    PROVE  IInv'
<1> USE DEF IInv
<1>1. t \in Threads /\ t \notin wait /\ UNCHANGED <<limit, cancelled, produced>>
  BY DEF FifoGet, Awake, SleepersInCall, Threads
<1>2. CASE GetBlock(t)
  BY <1>1, <1>2, GetBlockInv
<1>3. CASE GetSleep(t)
  <2>1. TypeOK'
    BY <1>1, <1>3 DEF TypeOK, GetSleep, list
  <2>2. ListShape' /\ SizeMatches'
    BY <1>1, <1>3 DEF ListShape, SizeMatches, Bytes, GetSleep, list
  <2>3. SleepersInCall'
    <3>1. wait' = wait \cup {t} /\ wait_room' = wait_room /\ op' = [op EXCEPT ![t] = "get"]
      BY <1>3 DEF GetSleep
    <3>2. t \notin wait_room
      BY <1>1, RolesDisjoint DEF TypeOK
    <3> QED
      BY <1>1, <3>1, <3>2 DEF SleepersInCall, TypeOK
  <2>4. RoomWaitersAboveLimit' /\ ForcedWakeSeen'
    BY <1>1, <1>3 DEF RoomWaitersAboveLimit, Above, ForcedWakeSeen, GetSleep, list
  <2> QED
    BY <2>1, <2>2, <2>3, <2>4
<1>4. CASE GetNull(t)
  <2>1. TypeOK'
    BY <1>1, <1>4 DEF TypeOK, GetNull, Return, list
  <2>2. ListShape' /\ SizeMatches'
    BY <1>1, <1>4 DEF ListShape, SizeMatches, Bytes, GetNull, list
  <2>3. SleepersInCall'
    <3>1. wait' = wait /\ wait_room' = wait_room /\ op' = [op EXCEPT ![t] = "idle"]
      BY <1>4 DEF GetNull, Return
    <3>2. t \notin wait_room
      BY <1>1, RolesDisjoint DEF TypeOK
    <3> QED
      BY <1>1, <3>1, <3>2 DEF SleepersInCall, TypeOK
  <2>4. RoomWaitersAboveLimit' /\ ForcedWakeSeen'
    BY <1>1, <1>4 DEF RoomWaitersAboveLimit, Above, ForcedWakeSeen, GetNull, list
  <2> QED
    BY <2>1, <2>2, <2>3, <2>4
<1> QED
  BY <1>2, <1>3, <1>4 DEF FifoGet

LEMMA FifoShowInv ==
    ASSUME IInv, NEW t \in Readers, FifoShow(t)
    PROVE  IInv'
<1> USE DEF IInv
<1>1. t \in Threads /\ t \notin wait \cup wait_room
  BY RolesDisjoint DEF FifoShow, Awake, SleepersInCall, Threads, TypeOK
<1>2. /\ UNCHANGED <<list, b_force_wake, wait_room, limit, cancelled, produced, got>>
      /\ \/ wait' = wait \cup {t} /\ op' = [op EXCEPT ![t] = "show"]
         \/ wait' = wait /\ op' = [op EXCEPT ![t] = "idle"]
  BY DEF FifoShow, Return
<1>3. TypeOK'
  BY <1>1, <1>2 DEF TypeOK, list
<1>4. ListShape' /\ SizeMatches'
  BY <1>2 DEF ListShape, SizeMatches, Bytes, list
<1>5. /\ \A s \in wait \cup wait_room : op'[s] = op[s]
      /\ wait' = wait \/ (wait' = wait \cup {t} /\ op'[t] = "show")
  <2>1. \A s \in Threads : s # t => op'[s] = op[s]
    BY <1>2 DEF TypeOK
  <2>2. wait \cup wait_room \subseteq Threads
    BY DEF TypeOK, Threads
  <2> QED
    BY <1>1, <1>2, <2>1, <2>2 DEF TypeOK
<1>6. RoomWaitersAboveLimit'
  BY <1>2 DEF RoomWaitersAboveLimit, Above, list
<1>7. SleepersInCall' /\ ForcedWakeSeen'
  BY <1>2, <1>5 DEF SleepersInCall, ForcedWakeSeen
<1> QED
  BY <1>3, <1>4, <1>5, <1>6, <1>7

\* A pass through the loop of block_FifoPace, under limits just recorded.
LEMMA PaceInv ==
    ASSUME IInv, NEW w \in Writers, NEW lim \in Nat \X Nat, w \notin wait_room,
           PaceLoop(w, lim), limit' = [limit EXCEPT ![w] = lim]
    PROVE  IInv'
<1> USE DEF IInv
<1>1. w \in Threads /\ w \notin wait
  BY RolesDisjoint DEF Threads, TypeOK
<1>2. /\ UNCHANGED <<list, b_force_wake, wait, cancelled, produced, got>>
      /\ \/ Above(lim) /\ wait_room' = wait_room \cup {w} /\ op' = [op EXCEPT ![w] = "pace"]
         \/ wait_room' = wait_room /\ op' = [op EXCEPT ![w] = "idle"]
  BY DEF PaceLoop, Return
<1>3. TypeOK'
  <2>1. limit' \in [Writers -> Nat \X Nat]
    BY DEF TypeOK
  <2>2. op' \in [Threads -> {"idle", "get", "show", "pace", "exited"}] /\ wait_room' \subseteq Writers
    BY <1>1, <1>2 DEF TypeOK
  <2> QED
    BY <1>2, <2>1, <2>2 DEF TypeOK, list
<1>4. ListShape' /\ SizeMatches'
  BY <1>2 DEF ListShape, SizeMatches, Bytes, list
<1>5. SleepersInCall' /\ ForcedWakeSeen'
  <2>1. \A s \in Threads : s # w => op'[s] = op[s]
    BY <1>2 DEF TypeOK
  <2>2. wait \cup wait_room \subseteq Threads
    BY DEF TypeOK, Threads
  <2>3. /\ \A s \in wait \cup wait_room : op'[s] = op[s]
        /\ wait_room' = wait_room \/ (wait_room' = wait_room \cup {w} /\ op'[w] = "pace")
    BY <1>1, <1>2, <2>1, <2>2 DEF TypeOK
  <2> QED
    BY <1>2, <2>3 DEF SleepersInCall, ForcedWakeSeen
<1>6. RoomWaitersAboveLimit'
  <2>1. \A v \in wait_room : limit'[v] = limit[v]
    BY DEF TypeOK
  <2>2. limit'[w] = lim
    BY DEF TypeOK
  <2>3. i_depth' = i_depth /\ i_size' = i_size
    BY <1>2 DEF list
  <2> QED
    BY <1>2, <2>1, <2>2, <2>3 DEF RoomWaitersAboveLimit, Above
<1> QED
  BY <1>3, <1>4, <1>5, <1>6

\* block_FifoPut appends a chain of n blocks, and only lets sleepers go.
LEMMA FifoPutInv ==
    ASSUME IInv, NEW w \in Writers, NEW n \in 1..MaxChain, FifoPut(w, n)
    PROVE  IInv'
<1> USE DEF IInv
<1> DEFINE first == produced + 1
           last == produced + n
<1>1. /\ n \in Nat /\ n >= 1 /\ produced \in Nat
      /\ first \in 1..NBlocks /\ last \in 1..NBlocks /\ first <= last
  BY DEF FifoPut, TypeOK
<1>2. /\ i_depth' = i_depth + n
      /\ i_size' = i_size + (Offset[last] - Offset[produced])
      /\ produced' = last /\ pp_last' = last
      /\ UNCHANGED <<b_force_wake, wait_room, op, limit, cancelled, got>>
      /\ wait' \subseteq wait
  BY <1>1 DEF FifoPut, LinkChain, Bytes, WakeOneReader, Signal
<1>3. Offset[last] \in Nat /\ Offset[produced] \in Nat /\ Offset[produced] <= Offset[last]
  <2>1. produced \in 0..NBlocks /\ last \in 0..NBlocks /\ produced <= last
    BY <1>1
  <2> QED
    BY <2>1, OffsetsGrow
<1>4. p_next' \in [Blocks -> 0..NBlocks]
  <2>1. Chained(first, last) \in [Blocks -> 0..NBlocks]
    BY <1>1 DEF Chained, Blocks, TypeOK
  <2> QED
    BY <1>1, <2>1 DEF FifoPut, LinkChain
<1>5. p_first' \in 0..NBlocks
  BY <1>1 DEF FifoPut, LinkChain, TypeOK
<1>6. TypeOK'
  BY <1>1, <1>2, <1>3, <1>4, <1>5 DEF TypeOK
<1>7. LET next == Chained(first, last)
      IN  /\ \A b \in first..last - 1 : next[b] = b + 1
          /\ next[last] = 0
          /\ \A b \in 1..produced : next[b] = p_next[b]
  BY <1>1 DEF Chained, Blocks
<1>8. ListShape' /\ SizeMatches'
  <2>1. CASE p_first = 0
    <3>1. /\ p_first' = first /\ p_next' = Chained(first, last)
          /\ i_depth = 0 /\ i_size = 0
      BY <2>1 DEF FifoPut, LinkChain, ListShape, SizeMatches
    <3>2. ListShape'
      BY <1>1, <1>2, <1>7, <3>1 DEF ListShape
    <3>3. SizeMatches'
      BY <1>1, <1>2, <1>3, <3>1 DEF SizeMatches, Bytes
    <3> QED
      BY <3>2, <3>3
  <2>2. CASE p_first # 0
    <3>1. /\ p_first \in 1..produced /\ pp_last = produced /\ produced \in 1..NBlocks
          /\ i_depth = produced - p_first + 1
          /\ i_size = Offset[produced] - Offset[p_first - 1]
          /\ \A b \in p_first..produced - 1 : p_next[b] = b + 1
      BY <1>1, <2>2 DEF ListShape, SizeMatches, Bytes, TypeOK
    <3>2. /\ p_first' = p_first
          /\ p_next' = [Chained(first, last) EXCEPT ![produced] = first]
      BY <1>1, <2>2, <3>1 DEF FifoPut, LinkChain
    <3>3. p_next'[produced] = first /\ \A b \in Blocks \ {produced} : p_next'[b] = Chained(first, last)[b]
      BY <3>1, <3>2 DEF Chained, Blocks
    <3>4. /\ \A b \in p_first'..pp_last' - 1 : p_next'[b] = b + 1
          /\ p_next'[pp_last'] = 0
      BY <1>1, <1>2, <1>7, <3>1, <3>2, <3>3 DEF Blocks
    <3>5. ListShape'
      BY <1>1, <1>2, <3>1, <3>2, <3>4 DEF ListShape
    <3>6. SizeMatches'
      <4>1. Offset[p_first - 1] \in Nat
        BY <3>1, OffsetsGrow
      <4> QED
        BY <1>1, <1>2, <1>3, <3>1, <3>2, <4>1 DEF SizeMatches, Bytes
    <3> QED
      BY <3>5, <3>6
  <2> QED
    BY <2>1, <2>2
<1>9. SleepersInCall' /\ ForcedWakeSeen'
  BY <1>2 DEF SleepersInCall, ForcedWakeSeen
<1>10. RoomWaitersAboveLimit'
  <2>1. i_depth' >= i_depth /\ i_size' >= i_size /\ limit \in [Writers -> Nat \X Nat]
    BY <1>1, <1>2, <1>3 DEF TypeOK
  <2>2. \A v \in wait_room : limit[v][1] \in Nat /\ limit[v][2] \in Nat
    BY <2>1 DEF TypeOK
  <2> QED
    BY <1>2, <2>1, <2>2, <1>1, <1>3 DEF RoomWaitersAboveLimit, Above, TypeOK
<1> QED
  BY <1>6, <1>8, <1>9, <1>10

LEMMA FifoWakeInv ==
    ASSUME IInv, NEW w \in Threads, FifoWake(w)
    PROVE  IInv'
<1> USE DEF IInv
<1>1. /\ UNCHANGED <<list, wait_room, op, limit, cancelled, produced, got>>
      /\ wait' = {} /\ b_force_wake' \in BOOLEAN
  BY DEF FifoWake, WakeAllReaders, TypeOK
<1>2. TypeOK' /\ ListShape' /\ SizeMatches'
  BY <1>1 DEF TypeOK, ListShape, SizeMatches, Bytes, list
<1>3. SleepersInCall' /\ ForcedWakeSeen'
  BY <1>1 DEF SleepersInCall, ForcedWakeSeen
<1>4. RoomWaitersAboveLimit'
  BY <1>1 DEF RoomWaitersAboveLimit, Above, list
<1> QED
  BY <1>2, <1>3, <1>4

LEMMA FifoEmptyInv ==
    ASSUME IInv, NEW w \in Threads, FifoEmpty(w)
    PROVE  IInv'
<1> USE DEF IInv
<1>1. /\ UNCHANGED <<p_next, b_force_wake, wait, op, limit, cancelled, produced, got>>
      /\ p_first' = 0 /\ pp_last' = 0 /\ i_depth' = 0 /\ i_size' = 0
      /\ wait_room' = {}
  BY DEF FifoEmpty, UnlinkAll, WakeAllWriters, list, ListShape, SizeMatches
<1>2. TypeOK' /\ ListShape' /\ SizeMatches'
  BY <1>1 DEF TypeOK, ListShape, SizeMatches
<1>3. SleepersInCall' /\ ForcedWakeSeen' /\ RoomWaitersAboveLimit'
  BY <1>1 DEF SleepersInCall, ForcedWakeSeen, RoomWaitersAboveLimit
<1> QED
  BY <1>2, <1>3

\* Cancellation requests, unwinding and spurious wake-ups.
LEMMA CancelInv ==
    ASSUME IInv, NEW t \in Threads, Cancel(t) \/ Unwind(t) \/ SpuriousWakeup(t)
    PROVE  IInv'
<1>1. CASE Cancel(t)
  <2>1. TypeOK'
    BY <1>1 DEF IInv, TypeOK, Cancel, list
  <2> QED
    BY <1>1, <2>1, NoListChange DEF Cancel, IInv
<1>2. CASE Unwind(t)
  <2>1. TypeOK'
    BY <1>2 DEF IInv, TypeOK, Unwind, list
  <2>2. \A s \in wait' \cup wait_room' : op'[s] = op[s]
    <3>1. wait \cup wait_room \subseteq Threads /\ op \in [Threads -> {"idle", "get", "show", "pace", "exited"}]
      BY DEF IInv, TypeOK, Threads
    <3> QED
      BY <1>2, <3>1 DEF Unwind
  <2> QED
    BY <1>2, <2>1, <2>2, NoListChange DEF Unwind
<1>3. CASE SpuriousWakeup(t)
  <2>1. TypeOK'
    BY <1>3 DEF IInv, TypeOK, SpuriousWakeup, list
  <2> QED
    BY <1>3, <2>1, NoListChange DEF SpuriousWakeup
<1> QED
  BY <1>1, <1>2, <1>3

-----------------------------------------------------------------------------
(* The theorems                                                              *)

LEMMA StepInv == IInv /\ [Next]_vars => IInv'
<1> SUFFICES ASSUME IInv, [Next]_vars PROVE IInv'
  OBVIOUS
<1>1. CASE \E t \in Readers : FifoGet(t) \/ FifoShow(t)
  BY <1>1, FifoGetInv, FifoShowInv
<1>2. CASE \E w \in Writers : FifoPace(w)
  <2>1. PICK w \in Writers : FifoPace(w)
    BY <1>2
  <2>2. PICK lim \in PaceLimits : PaceLoop(w, lim) /\ limit' = [limit EXCEPT ![w] = lim]
    BY <2>1 DEF FifoPace
  <2>3. lim \in Nat \X Nat /\ w \notin wait_room
    BY <2>1, LimitsAreNat DEF FifoPace, IInv, SleepersInCall
  <2> QED
    BY <2>2, <2>3, PaceInv
<1>3. CASE \E w \in Writers : FifoPaceAgain(w)
  <2>1. PICK w \in Writers : FifoPaceAgain(w)
    BY <1>3
  <2>2. /\ limit[w] \in Nat \X Nat /\ w \notin wait_room
        /\ PaceLoop(w, limit[w]) /\ limit' = [limit EXCEPT ![w] = limit[w]]
    BY <2>1 DEF FifoPaceAgain, Awake, IInv, TypeOK
  <2> QED
    BY <2>2, PaceInv
<1>4. CASE \E w \in Writers : \E n \in 1..MaxChain : FifoPut(w, n)
  BY <1>4, FifoPutInv
<1>5. CASE \E w \in Writers \cup Controllers : FifoWake(w) \/ FifoEmpty(w)
  BY <1>5, FifoWakeInv, FifoEmptyInv DEF Threads
<1>6. CASE \E t \in Threads : Cancel(t) \/ Unwind(t) \/ SpuriousWakeup(t)
  BY <1>6, CancelInv
<1>7. CASE UNCHANGED vars
  <2>1. TypeOK'
    BY <1>7 DEF IInv, TypeOK, vars, list
  <2> QED
    BY <1>7, <2>1, NoListChange DEF vars
<1> QED
  BY <1>1, <1>2, <1>3, <1>4, <1>5, <1>6, <1>7 DEF Next

LEMMA Inductive == Spec => []IInv
BY InitInv, StepInv, PTL DEF Spec

\* Every variable keeps its type; in particular the unsigned counters of the
\* FIFO never go below zero.
THEOREM TypeCorrect == Spec => []TypeOK
<1>1. IInv => TypeOK
  BY DEF IInv
<1> QED
  BY <1>1, Inductive, PTL

\* The tail pointer, the links and both counters describe the same list, after
\* any interleaving of block_FifoPut, Get, Empty and the cancellations.
THEOREM ListIsSound == Spec => []ListSound
<1>1. IInv => ListSound
  BY DEF IInv, ListSound
<1> QED
  BY <1>1, Inductive, PTL

\* No producer sleeps in block_FifoPace on a queue that is under its limits.
THEOREM NoForgottenProducer == Spec => []RoomWaitersAboveLimit
<1>1. IInv => RoomWaitersAboveLimit
  BY DEF IInv
<1> QED
  BY <1>1, Inductive, PTL

\* Nobody sleeps in block_FifoGet while a forced wake-up is pending.
THEOREM NoForgottenWake == Spec => []ForcedWakeSeen
<1>1. IInv => ForcedWakeSeen
  BY DEF IInv
<1> QED
  BY <1>1, Inductive, PTL

-----------------------------------------------------------------------------
(* A FIFO with one reader, as every decoder uses it                          *)

\* The reader sleeps on an empty list only.
SleepsOnEmpty == wait # {} => p_first = 0

LEMMA SleepsOnEmptyStep ==
    ASSUME NEW r, Readers = {r}, IInv, SleepsOnEmpty, [Next]_vars
    PROVE  SleepsOnEmpty'
<1>1. TypeOK /\ SleepersInCall
  BY DEF IInv
<1>2. CASE \E t \in Readers : FifoGet(t)
  <2>1. r \notin wait => wait = {}
    BY <1>1 DEF TypeOK
  <2>2. FifoGet(r) /\ wait = {}
    BY <1>1, <1>2, <2>1 DEF FifoGet, Awake, SleepersInCall
  <2>3. CASE GetSleep(r)
    BY <2>3 DEF GetSleep, list, SleepsOnEmpty
  <2>4. CASE GetNull(r) \/ GetBlock(r)
    BY <2>2, <2>4 DEF GetNull, GetBlock, SleepsOnEmpty
  <2> QED
    BY <2>2, <2>3, <2>4 DEF FifoGet
<1>3. CASE \E t \in Readers : FifoShow(t)
  BY <1>3 DEF FifoShow, list, SleepsOnEmpty
<1>4. CASE \E w \in Writers : FifoPace(w) \/ FifoPaceAgain(w)
  BY <1>4 DEF FifoPace, FifoPaceAgain, PaceLoop, list, SleepsOnEmpty
<1>5. CASE \E w \in Writers : \E n \in 1..MaxChain : FifoPut(w, n)
  BY <1>1, <1>5 DEF FifoPut, WakeOneReader, Signal, TypeOK, SleepsOnEmpty
<1>6. CASE \E w \in Writers \cup Controllers : FifoWake(w) \/ FifoEmpty(w)
  BY <1>6 DEF FifoWake, WakeAllReaders, FifoEmpty, UnlinkAll, list, SleepsOnEmpty
<1>7. CASE \E t \in Threads : Cancel(t) \/ Unwind(t) \/ SpuriousWakeup(t)
  BY <1>7 DEF Cancel, Unwind, SpuriousWakeup, list, SleepsOnEmpty
<1>8. CASE UNCHANGED vars
  BY <1>8 DEF vars, list, SleepsOnEmpty
<1> QED
  BY <1>2, <1>3, <1>4, <1>5, <1>6, <1>7, <1>8 DEF Next

\* With a single reader, no wake-up of block_FifoPut is ever lost, whatever the
\* chains, cancellations and block_FifoShow calls.
THEOREM SingleReaderNotStranded ==
    ASSUME NEW r, Readers = {r}
    PROVE  Spec => []NoStrandedReader
<1>1. Init => SleepsOnEmpty
  BY DEF Init, SleepsOnEmpty
<1>2. IInv /\ SleepsOnEmpty /\ [Next]_vars => SleepsOnEmpty'
  BY SleepsOnEmptyStep
<1>3. IInv /\ SleepsOnEmpty => NoStrandedReader
  <2> SUFFICES ASSUME IInv, SleepsOnEmpty, wait # {}
               PROVE  Cardinality({t \in Readers : Awake(t, "get")}) >= i_depth
    BY DEF NoStrandedReader
  <2>1. i_depth = 0
    BY DEF IInv, ListShape, SleepsOnEmpty
  <2>2. IsFiniteSet({t \in Readers : Awake(t, "get")})
    BY FS_Singleton, FS_Subset
  <2>3. Cardinality({t \in Readers : Awake(t, "get")}) \in Nat
    BY <2>2, FS_CardinalityType
  <2> QED
    BY <2>1, <2>3
<1> QED
  BY <1>1, <1>2, <1>3, Inductive, PTL DEF Spec

-----------------------------------------------------------------------------
(* A FIFO with several readers, as block_FifoPut is meant for                *)

\* The readers that will look at the list before they sleep again.
Lookers == {t \in Readers : Awake(t, "get")}

\* Without block_FifoShow.
NobodyShows == \A t \in Readers : op[t] # "show"

LEMMA LookersOf ==
    ASSUME TypeOK, IsFiniteSet(Readers)
    PROVE  /\ IsFiniteSet(Lookers) /\ Cardinality(Lookers) \in Nat
           /\ \A S \in SUBSET Readers : IsFiniteSet(S) /\ Cardinality(S) \in Nat
           /\ \A S, T \in SUBSET Readers : S \subseteq T => Cardinality(S) <= Cardinality(T)
<1>1. Lookers \in SUBSET Readers
  BY DEF Lookers
<1>2. \A S \in SUBSET Readers : IsFiniteSet(S) /\ Cardinality(S) \in Nat
  BY FS_Subset, FS_CardinalityType
<1>3. \A S, T \in SUBSET Readers : S \subseteq T => Cardinality(S) <= Cardinality(T)
  BY <1>2, FS_Subset
<1> QED
  BY <1>1, <1>2, <1>3

\* A step that takes nobody from the lookers and adds nothing to the list.
LEMMA LookersGrow ==
    ASSUME TypeOK, IsFiniteSet(Readers), NoStrandedReader, wait' \subseteq wait, i_depth' = i_depth,
           Lookers \subseteq Lookers'
    PROVE  NoStrandedReader'
<1>1. Lookers' \in SUBSET Readers /\ Lookers \in SUBSET Readers
  BY DEF Lookers
<1>2. Cardinality(Lookers) \in Nat /\ Cardinality(Lookers') \in Nat
      /\ Cardinality(Lookers) <= Cardinality(Lookers')
  BY <1>1, LookersOf
<1>3. wait' # {} => Cardinality(Lookers) >= i_depth
  BY DEF NoStrandedReader, Lookers
<1>4. wait' # {} => Cardinality(Lookers') >= i_depth'
  BY <1>2, <1>3 DEF TypeOK
<1> QED
  BY <1>4 DEF NoStrandedReader, Lookers

\* Nobody is stranded with an empty list.
LEMMA NothingQueued ==
    ASSUME IsFiniteSet(Readers), i_depth' = 0
    PROVE  NoStrandedReader'
<1>1. Lookers' \in SUBSET Readers
  BY DEF Lookers
<1>2. Cardinality(Lookers') \in Nat
  BY <1>1, FS_Subset, FS_CardinalityType
<1> QED
  BY <1>2 DEF NoStrandedReader, Lookers

LEMMA GetStrandsNobody ==
    ASSUME IsFiniteSet(Readers), IInv, NoStrandedReader, NEW t \in Readers, FifoGet(t)
    PROVE  NoStrandedReader'
<1>0. TypeOK /\ ListShape
  BY DEF IInv
<1>1. CASE GetSleep(t) \/ GetNull(t)
  <2>1. i_depth' = 0
    BY <1>0, <1>1 DEF GetSleep, GetNull, ListShape, list
  <2> QED
    BY <2>1, NothingQueued
<1>2. CASE GetBlock(t)
  <2>1. i_depth' = i_depth - 1 /\ wait' = wait /\ wait_room' = {} /\ op' = [op EXCEPT ![t] = "idle"]
    BY <1>2 DEF GetBlock, WakeAllWriters, Return
  <2>2. Lookers \ {t} \subseteq Lookers'
    BY <1>0, <2>1 DEF Lookers, Awake, TypeOK
  <2>3. Lookers' \in SUBSET Readers /\ Lookers \in SUBSET Readers /\ Lookers \ {t} \in SUBSET Readers
    BY DEF Lookers
  <2>4. /\ Cardinality(Lookers) \in Nat /\ Cardinality(Lookers') \in Nat
        /\ Cardinality(Lookers \ {t}) \in Nat /\ Cardinality(Lookers \ {t}) <= Cardinality(Lookers')
    BY <1>0, <2>2, <2>3, LookersOf
  <2>5. Cardinality(Lookers) <= Cardinality(Lookers \ {t}) + 1
    <3>1. IsFiniteSet(Lookers)
      BY <1>0, LookersOf
    <3>2. CASE t \in Lookers
      <4>1. Cardinality(Lookers \ {t}) = Cardinality(Lookers) - 1
        BY <3>1, <3>2, FS_RemoveElement
      <4> QED
        BY <2>4, <4>1
    <3>3. CASE t \notin Lookers
      <4>1. Lookers \ {t} = Lookers
        BY <3>3
      <4> QED
        BY <2>4, <4>1
    <3> QED
      BY <3>2, <3>3
  <2>6. wait # {} => Cardinality(Lookers) >= i_depth
    BY DEF NoStrandedReader, Lookers
  <2>7. wait' # {} => Cardinality(Lookers') >= i_depth'
    BY <1>0, <2>1, <2>4, <2>5, <2>6 DEF TypeOK
  <2> QED
    BY <2>7 DEF NoStrandedReader, Lookers
<1> QED
  BY <1>1, <1>2 DEF FifoGet

LEMMA PutStrandsNobody ==
    ASSUME IsFiniteSet(Readers), IInv, NoStrandedReader, NobodyShows, NEW w, FifoPut(w, 1)
    PROVE  NoStrandedReader'
<1>0. TypeOK /\ SleepersInCall
  BY DEF IInv
<1>1. CASE wait = {}
  BY <1>1 DEF FifoPut, WakeOneReader, Signal, NoStrandedReader
<1>2. CASE wait # {}
  <2>1. PICK t \in wait : wait' = wait \ {t}
    BY <1>2 DEF FifoPut, WakeOneReader, Signal
  <2>2. op' = op /\ wait_room' = wait_room /\ i_depth' = i_depth + 1
    BY DEF FifoPut
  <2>3. t \in Readers /\ op[t] = "get" /\ t \notin Lookers /\ t \notin wait_room
    BY <1>0, <2>1, RolesDisjoint DEF TypeOK, SleepersInCall, NobodyShows, Lookers, Awake
  <2>4. Lookers' = Lookers \cup {t}
    BY <2>1, <2>2, <2>3 DEF Lookers, Awake
  <2>5. IsFiniteSet(Lookers) /\ Cardinality(Lookers) \in Nat
    BY <1>0, LookersOf
  <2>6. Cardinality(Lookers') = Cardinality(Lookers) + 1
    BY <2>3, <2>4, <2>5, FS_AddElement
  <2>7. Cardinality(Lookers) >= i_depth
    BY <1>2 DEF NoStrandedReader, Lookers
  <2>8. Cardinality(Lookers') >= i_depth'
    BY <1>0, <2>2, <2>5, <2>6, <2>7 DEF TypeOK
  <2> QED
    BY <2>8 DEF NoStrandedReader, Lookers
<1> QED
  BY <1>1, <1>2

LEMMA NobodyShowsStep ==
    ASSUME Showers = {}, TypeOK, NobodyShows, [Next]_vars
    PROVE  NobodyShows'
<1>1. \A t \in Readers : ~FifoShow(t)
  BY DEF FifoShow
<1>2. op' = op \/ \E t \in Threads, c \in {"idle", "get", "pace", "exited"} : op' = [op EXCEPT ![t] = c]
  BY <1>1 DEF Next, FifoGet, GetSleep, GetNull, GetBlock, Return, FifoPace, FifoPaceAgain, PaceLoop,
     FifoPut, FifoWake, FifoEmpty, Cancel, Unwind, SpuriousWakeup, vars, Threads
<1>3. CASE op' = op
  BY <1>3 DEF NobodyShows
<1>4. ASSUME NEW u \in Threads, NEW c \in {"idle", "get", "pace", "exited"}, op' = [op EXCEPT ![u] = c],
             NEW t \in Readers
      PROVE  op'[t] # "show"
  <2>1. t \in Threads
    BY DEF Threads
  <2>2. op'[t] = c \/ op'[t] = op[t]
    BY <1>4, <2>1 DEF TypeOK
  <2> QED
    BY <2>2 DEF NobodyShows
<1> QED
  BY <1>2, <1>3, <1>4 DEF NobodyShows

LEMMA StrandedStep ==
    ASSUME IsFiniteSet(Readers), MaxChain <= 1, Showers = {},
           IInv, NoStrandedReader, NobodyShows, [Next]_vars
    PROVE  NoStrandedReader'
<1>0. TypeOK /\ SleepersInCall /\ ListShape
  BY DEF IInv
<1>2. CASE \E t \in Readers : FifoGet(t) \/ FifoShow(t)
  <2>1. PICK t \in Readers : FifoGet(t)
    BY <1>2 DEF FifoShow
  <2> QED
    BY <2>1, GetStrandsNobody
<1>3. CASE \E w \in Writers : FifoPace(w) \/ FifoPaceAgain(w)
  <2>1. PICK w \in Writers, c \in {"idle", "pace"} :
           /\ op' = [op EXCEPT ![w] = c] /\ i_depth' = i_depth /\ wait' = wait
           /\ wait_room' = wait_room \/ wait_room' = wait_room \cup {w}
    BY <1>3 DEF FifoPace, FifoPaceAgain, PaceLoop, Return, list
  <2>2. ASSUME NEW t \in Readers
        PROVE  op'[t] = op[t] /\ (t \in wait_room' <=> t \in wait_room)
    <3>1. t # w /\ t \in Threads
      BY RolesDisjoint DEF Threads
    <3> QED
      BY <1>0, <2>1, <3>1 DEF TypeOK
  <2>3. Lookers \subseteq Lookers'
    BY <2>1, <2>2 DEF Lookers, Awake
  <2> QED
    BY <1>0, <2>1, <2>3, LookersGrow
<1>4. CASE \E w \in Writers : \E n \in 1..MaxChain : FifoPut(w, n)
  <2>1. PICK w \in Writers, n \in 1..MaxChain : FifoPut(w, n)
    BY <1>4
  <2>2. n = 1
    BY BoundsAreNat
  <2> QED
    BY <2>1, <2>2, PutStrandsNobody
<1>5. CASE \E w \in Writers \cup Controllers : FifoWake(w)
  <2>1. wait' = {}
    BY <1>5 DEF FifoWake, WakeAllReaders
  <2> QED
    BY <2>1 DEF NoStrandedReader
<1>6. CASE \E w \in Writers \cup Controllers : FifoEmpty(w)
  <2>1. i_depth' = 0
    BY <1>0, <1>6 DEF FifoEmpty, ListShape, list
  <2> QED
    BY <2>1, NothingQueued
<1>7. ASSUME NEW u \in Threads, Cancel(u) \/ Unwind(u) \/ SpuriousWakeup(u)
      PROVE  NoStrandedReader'
  <2>1. wait' \subseteq wait /\ wait_room' \subseteq wait_room /\ i_depth' = i_depth
    BY <1>7 DEF Cancel, Unwind, SpuriousWakeup, list
  <2>2. ASSUME NEW t \in Lookers
        PROVE  op'[t] = op[t]
    <3>1. t \in Threads /\ op[t] = "get" /\ t \notin wait \cup wait_room
      BY DEF Lookers, Awake, Threads
    <3> QED
      BY <1>0, <1>7, <3>1 DEF Cancel, Unwind, SpuriousWakeup, TypeOK
  <2>3. Lookers \subseteq Lookers'
    BY <2>1, <2>2 DEF Lookers, Awake
  <2> QED
    BY <1>0, <2>1, <2>3, LookersGrow
<1>8. CASE UNCHANGED vars
  <2>1. wait' = wait /\ i_depth' = i_depth /\ Lookers' = Lookers
    BY <1>8 DEF vars, list, Lookers, Awake
  <2> QED
    BY <1>0, <2>1, LookersGrow
<1> QED
  BY <1>2, <1>3, <1>4, <1>5, <1>6, <1>7, <1>8 DEF Next

\* Several readers of blocks put one at a time: one vlc_cond_signal for each is
\* enough, however many readers there are and however they are cancelled.
THEOREM ReadersNotStranded ==
    ASSUME IsFiniteSet(Readers), MaxChain <= 1, Showers = {}
    PROVE  Spec => []NoStrandedReader
<1>1. Init => NoStrandedReader /\ NobodyShows
  BY DEF Init, NoStrandedReader, NobodyShows, Threads
<1>2. IInv /\ NoStrandedReader /\ NobodyShows /\ [Next]_vars => NoStrandedReader' /\ NobodyShows'
  BY StrandedStep, NobodyShowsStep DEF IInv
<1> QED
  BY <1>1, <1>2, Inductive, PTL DEF Spec

-----------------------------------------------------------------------------
(* The pointer-level FIFO implements the abstract block queue                *)

\* A set of natural numbers has a least element: the descent below rests on it.
LEMMA LeastNat ==
    ASSUME NEW T \in SUBSET Nat, T # {}
    PROVE  \E n \in T : \A m \in T : n <= m
<1>1. \E x \in T : \A y \in T : ~ (<<y, x>> \in OpToRel(<,Nat))
  BY NatLessThanWellFounded, WFMin
<1>2. PICK x \in T : \A y \in T : ~ (<<y, x>> \in OpToRel(<,Nat))
  BY <1>1
<1>3. \A y \in T : y < x => <<y, x>> \in OpToRel(<,Nat)
  BY DEF OpToRel
<1>4. \A y \in T : ~(y < x)
  BY <1>2, <1>3, Zenon
<1> QED
  BY <1>4

\* What the k-th step of the walk meets, by ListShape.
Met == [k \in Nat |-> IF p_first # 0 /\ k <= pp_last - p_first THEN p_first + k ELSE 0]

\* The blocks ListShape says are queued.
Queued == [k \in 1..i_depth |-> p_first + k - 1]

LEMMA MetWalks ==
    ASSUME TypeOK, ListShape
    PROVE  Met = [k \in Nat |-> IF k = 0 THEN p_first
                                ELSE IF Met[k - 1] = 0 THEN 0 ELSE p_next[Met[k - 1]]]
<1>1. ASSUME NEW k \in Nat
      PROVE  Met[k] = IF k = 0 THEN p_first
                      ELSE IF Met[k - 1] = 0 THEN 0 ELSE p_next[Met[k - 1]]
  <2>1. CASE k = 0
    BY <2>1 DEF Met, ListShape, TypeOK
  <2>2. CASE k # 0
    <3>1. k - 1 \in Nat
      BY <2>2
    <3>2. Met[k - 1] = IF p_first # 0 /\ k - 1 <= pp_last - p_first THEN p_first + (k - 1) ELSE 0
      BY <3>1 DEF Met
    <3>3. Met[k] = IF p_first # 0 /\ k <= pp_last - p_first THEN p_first + k ELSE 0
      BY DEF Met
    <3>4. CASE p_first # 0 /\ k <= pp_last - p_first
      <4>1. p_next[p_first + (k - 1)] = p_first + k
        BY <2>2, <3>4 DEF ListShape, TypeOK
      <4> QED
        BY <2>2, <3>2, <3>3, <3>4, <4>1 DEF TypeOK
    <3>5. CASE p_first # 0 /\ k - 1 = pp_last - p_first
      <4>1. p_next[p_first + (k - 1)] = 0
        BY <2>2, <3>5 DEF ListShape, TypeOK
      <4> QED
        BY <2>2, <3>2, <3>3, <3>5, <4>1 DEF TypeOK
    <3>6. CASE p_first = 0 \/ k - 1 > pp_last - p_first
      BY <2>2, <3>2, <3>3, <3>6 DEF TypeOK
    <3> QED
      BY <3>4, <3>5, <3>6, <3>1 DEF TypeOK
  <2> QED
    BY <2>1, <2>2
<1> QED
  BY <1>1 DEF Met

\* Two walks that obey the same rule are the same walk: at the least step where
\* they differed, the step before would decide both.
LEMMA WalkIsMet ==
    ASSUME TypeOK, ListShape
    PROVE  \A k \in Nat : Step[k] = Met[k]
<1>1. Met = [k \in Nat |-> IF k = 0 THEN p_first
                           ELSE IF Met[k - 1] = 0 THEN 0 ELSE p_next[Met[k - 1]]]
  BY MetWalks
<1>2. Step = [k \in Nat |-> IF k = 0 THEN p_first
                            ELSE IF Step[k - 1] = 0 THEN 0 ELSE p_next[Step[k - 1]]]
  BY <1>1 DEF Step
<1> DEFINE T == {k \in Nat : Step[k] # Met[k]}
<1>3. ASSUME T # {}
      PROVE  FALSE
  <2>1. T \in SUBSET Nat
    OBVIOUS
  <2>2. PICK n \in T : \A m \in T : n <= m
    <3> HIDE DEF T
    <3> QED
      BY <1>3, <2>1, LeastNat
  <2>3. n \in Nat /\ Step[n] # Met[n]
    OBVIOUS
  <2>4. n # 0
    <3>1. Step[0] = p_first
      BY <1>2
    <3>2. Met[0] = p_first
      BY <1>1
    <3> QED
      BY <2>3, <3>1, <3>2
  <2>5. n - 1 \in Nat /\ n - 1 \notin T
    BY <2>2, <2>3, <2>4
  <2>6. Step[n - 1] = Met[n - 1]
    BY <2>5
  <2>7. Step[n] = IF Step[n - 1] = 0 THEN 0 ELSE p_next[Step[n - 1]]
    BY <1>2, <2>3, <2>4
  <2>8. Met[n] = IF Met[n - 1] = 0 THEN 0 ELSE p_next[Met[n - 1]]
    BY <1>1, <2>3, <2>4
  <2> QED
    BY <2>3, <2>6, <2>7, <2>8
<1> QED
  BY <1>3

LEMMA ContentsQueued == TypeOK /\ ListShape => Contents = Queued
<1> SUFFICES ASSUME TypeOK, ListShape
             PROVE  Contents = Queued
  OBVIOUS
<1> DEFINE S == {k \in Blocks : Step[k - 1] # 0}
<1>1. \A k \in Nat \ {0} : Step[k - 1] = IF p_first # 0 /\ k - 1 <= pp_last - p_first
                                         THEN p_first + (k - 1) ELSE 0
  BY WalkIsMet DEF Met
<1>2. i_depth \in Nat /\ i_depth <= NBlocks
  BY DEF TypeOK, ListShape
<1>3. \A k \in Nat \ {0} : Step[k - 1] # 0 <=> k <= i_depth
  BY <1>1 DEF TypeOK, ListShape
<1>4. S = 1..i_depth
  BY <1>2, <1>3 DEF Blocks
<1>5. Cardinality(S) = i_depth
  <2>1. Cardinality(1..i_depth) = i_depth
    BY <1>2, FS_Interval
  <2> QED
    BY <1>4, <2>1
<1>6. \A k \in 1..i_depth : Step[k - 1] = p_first + k - 1
  BY <1>1, <1>2, <1>3 DEF TypeOK
<1>7. Contents = [k \in 1..i_depth |-> Step[k - 1]]
  BY <1>5 DEF Contents
<1> HIDE DEF S
<1> QED
  BY <1>6, <1>7 DEF Queued

\* The queued blocks are a sequence of that length.
LEMMA QueuedSeq ==
    ASSUME TypeOK
    PROVE  Queued \in Seq(Int) /\ Len(Queued) = i_depth
<1>1. i_depth \in Nat /\ p_first \in Int
  BY DEF TypeOK
<1>2. \A k \in 1..i_depth : p_first + k - 1 \in Int
  BY <1>1
<1> QED
  BY <1>1, <1>2 DEF Queued

\* What GetBlock does to the sequence.
LEMMA GetTakes ==
    ASSUME TypeOK, ListShape, TypeOK', ListShape', p_first # 0, UnlinkFirst, i_depth' = i_depth - 1
    PROVE  Queued # <<>> /\ Head(Queued) = p_first /\ Queued' = Tail(Queued)
<1>1. i_depth \in Nat /\ i_depth > 0 /\ p_first \in Int /\ p_first' \in Int
  BY DEF TypeOK, ListShape
<1>2. Len(Queued) = i_depth /\ Queued \in Seq(Int) /\ Queued # <<>>
  BY <1>1, QueuedSeq
<1>3. \A k \in 1..i_depth : Queued[k] = p_first + k - 1
  BY DEF Queued
<1>4. Head(Queued) = p_first
  BY <1>1, <1>2, <1>3
<1>5. /\ Tail(Queued) \in Seq(Int) /\ Len(Tail(Queued)) = i_depth - 1
      /\ \A k \in 1..(i_depth - 1) : Tail(Queued)[k] = Queued[k + 1]
  BY <1>2, HeadTailProperties
<1>6. i_depth > 1 => p_first' = p_first + 1
  BY <1>1 DEF UnlinkFirst, ListShape, TypeOK
<1>7. ASSUME NEW k \in 1..(i_depth - 1)
      PROVE  Tail(Queued)[k] = p_first' + k - 1
  <2>1. k \in Int /\ k + 1 \in 1..i_depth /\ i_depth > 1
    BY <1>1
  <2>2. Tail(Queued)[k] = Queued[k + 1]
    BY <1>5
  <2>3. Queued[k + 1] = p_first + (k + 1) - 1
    BY <1>3, <2>1
  <2>4. p_first + (k + 1) - 1 = p_first' + k - 1
    BY <1>1, <1>6, <2>1
  <2> QED
    BY <2>2, <2>3, <2>4
<1>8. Queued' = [k \in 1..(i_depth - 1) |-> p_first' + k - 1]
  BY DEF Queued
<1>9. Queued' \in Seq(Int) /\ Len(Queued') = i_depth - 1
  BY <1>1, <1>8
<1>10. \A k \in 1..(i_depth - 1) : Queued'[k] = p_first' + k - 1
  BY <1>8
<1>11. Queued' = Tail(Queued)
  BY <1>5, <1>7, <1>9, <1>10, SeqEqual, Zenon
<1> QED
  BY <1>2, <1>4, <1>11

\* What FifoPut does to the sequence.
LEMMA PutAppends ==
    ASSUME TypeOK, ListShape, NEW n \in 1..MaxChain, i_depth' = i_depth + n,
           LinkChain(produced + 1, produced + n)
    PROVE  Queued' = Queued \o Queue!Chain(produced + 1, n)
<1> DEFINE C == Queue!Chain(produced + 1, n)
<1>1. i_depth \in Nat /\ p_first \in Int /\ produced \in Nat /\ n \in Nat \ {0}
  BY DEF TypeOK
<1>2. \A i \in 1..n : C[i] = produced + i
  BY <1>1 DEF Queue!Chain
<1>3. C \in Seq(Int) /\ Len(C) = n
  <2>1. \A i \in 1..n : produced + 1 + i - 1 \in Int
    BY <1>1
  <2> QED
    BY <1>1, <2>1 DEF Queue!Chain
<1>4. Queued \in Seq(Int) /\ Len(Queued) = i_depth
  BY QueuedSeq
<1> HIDE DEF C
<1>5. /\ Queued \o C \in Seq(Int) /\ Len(Queued \o C) = i_depth + n
      /\ \A k \in 1..(i_depth + n) :
            (Queued \o C)[k] = IF k <= i_depth THEN Queued[k] ELSE C[k - i_depth]
  BY <1>3, <1>4, ConcatProperties
<1>6. p_first' = (IF i_depth = 0 THEN produced + 1 ELSE p_first)
      /\ (i_depth > 0 => p_first + i_depth = produced + 1)
  BY <1>1 DEF LinkChain, ListShape, TypeOK
<1>7. Queued' = [k \in 1..(i_depth + n) |-> p_first' + k - 1]
  BY DEF Queued
<1>8. Queued' \in Seq(Int) /\ Len(Queued') = i_depth + n
  BY <1>1, <1>6, <1>7
<1>9. ASSUME NEW k \in 1..(i_depth + n)
      PROVE  Queued'[k] = (Queued \o C)[k]
  <2>1. Queued'[k] = p_first' + k - 1
    BY <1>7
  <2>2. (Queued \o C)[k] = IF k <= i_depth THEN Queued[k] ELSE C[k - i_depth]
    BY <1>5
  <2>3. CASE k <= i_depth
    <3>1. Queued[k] = p_first + k - 1
      BY <1>1, <2>3 DEF Queued
    <3>2. p_first' = p_first
      BY <1>1, <1>6, <2>3
    <3> QED
      BY <2>1, <2>2, <2>3, <3>1, <3>2
  <2>4. CASE k > i_depth
    <3>1. C[k - i_depth] = produced + (k - i_depth)
      BY <1>1, <1>2, <2>4
    <3>2. produced + (k - i_depth) = p_first' + k - 1
      BY <1>1, <1>6, <2>4
    <3>3. ~(k <= i_depth)
      BY <1>1, <2>4
    <3> QED
      BY <2>1, <2>2, <3>1, <3>2, <3>3, Zenon
  <2>5. k <= i_depth \/ k > i_depth
    BY <1>1
  <2> QED
    BY <2>3, <2>4, <2>5, Zenon
<1>10. Queued' = Queued \o C
  BY <1>5, <1>8, <1>9, SeqEqual, Zenon
<1> QED
  BY <1>10 DEF C

LEMMA QueueStep ==
    ASSUME IInv, IInv', Contents = Queued, Contents' = Queued', [Next]_vars
    PROVE  [Queue!QNext]_(Queue!qvars)
<1>0. TypeOK /\ ListShape /\ TypeOK' /\ ListShape'
  BY DEF IInv
<1> DEFINE Stutter == i_depth' = i_depth /\ p_first' = p_first /\ produced' = produced /\ got' = got
<1>1. ASSUME Stutter
      PROVE  [Queue!QNext]_(Queue!qvars)
  <2>1. Queued' = Queued
    BY <1>1 DEF Queued
  <2> QED
    BY <1>1, <2>1 DEF Queue!qvars
<1>2. ASSUME NEW t \in Readers, FifoGet(t) \/ FifoShow(t)
      PROVE  [Queue!QNext]_(Queue!qvars)
  <2>1. CASE FifoShow(t) \/ (FifoGet(t) /\ (GetSleep(t) \/ GetNull(t)))
    <3>1. Stutter
      BY <2>1 DEF FifoShow, FifoGet, GetSleep, GetNull, list
    <3> QED
      BY <1>1, <3>1
  <2>2. CASE FifoGet(t) /\ GetBlock(t)
    <3>1. p_first # 0 /\ UnlinkFirst /\ i_depth' = i_depth - 1 /\ got' = p_first /\ produced' = produced
      BY <2>2 DEF FifoGet, GetBlock
    <3>2. Queue!Take
      BY <1>0, <3>1, GetTakes DEF Queue!Take
    <3> QED
      BY <3>2 DEF Queue!QNext
  <2> QED
    BY <1>2, <2>1, <2>2 DEF FifoGet
<1>3. ASSUME NEW w \in Writers, FifoPace(w) \/ FifoPaceAgain(w)
      PROVE  [Queue!QNext]_(Queue!qvars)
  <2>1. Stutter
    BY <1>3 DEF FifoPace, FifoPaceAgain, PaceLoop, list
  <2> QED
    BY <1>1, <2>1
<1>4. ASSUME NEW w \in Writers, NEW n \in 1..MaxChain, FifoPut(w, n)
      PROVE  [Queue!QNext]_(Queue!qvars)
  <2>1. /\ produced + n <= NBlocks /\ produced' = produced + n /\ got' = got
        /\ i_depth' = i_depth + n /\ LinkChain(produced + 1, produced + n)
    BY <1>4 DEF FifoPut
  <2>2. Queue!PutChain(n)
    BY <1>0, <2>1, PutAppends DEF Queue!PutChain
  <2> QED
    BY <2>2 DEF Queue!QNext
<1>5. ASSUME NEW w \in Writers \cup Controllers, FifoWake(w) \/ FifoEmpty(w)
      PROVE  [Queue!QNext]_(Queue!qvars)
  <2>1. CASE FifoWake(w) \/ (FifoEmpty(w) /\ p_first = 0)
    <3>1. Stutter
      BY <2>1 DEF FifoWake, FifoEmpty, list
    <3> QED
      BY <1>1, <3>1
  <2>2. CASE FifoEmpty(w) /\ p_first # 0
    <3>1. i_depth' = 0 /\ produced' = produced /\ got' = got
      BY <2>2 DEF FifoEmpty
    <3>2. Queued' = <<>>
      BY <3>1 DEF Queued
    <3> QED
      BY <3>1, <3>2 DEF Queue!QNext, Queue!Clear
  <2> QED
    BY <1>5, <2>1, <2>2
<1>6. ASSUME NEW t \in Threads, Cancel(t) \/ Unwind(t) \/ SpuriousWakeup(t)
      PROVE  [Queue!QNext]_(Queue!qvars)
  <2>1. Stutter
    BY <1>6 DEF Cancel, Unwind, SpuriousWakeup, list
  <2> QED
    BY <1>1, <2>1
<1>7. CASE UNCHANGED vars
  <2>1. Stutter
    BY <1>7 DEF vars, list
  <2> QED
    BY <1>1, <2>1
<1> HIDE DEF Stutter
<1> QED
  BY <1>2, <1>3, <1>4, <1>5, <1>6, <1>7 DEF Next

\* Seen through its links the FIFO is the abstract queue of BlockQueue: blocks
\* come out in the order they went in, each at most once, and leave only through
\* block_FifoGet or block_FifoEmpty, whoever is cancelled or woken meanwhile.
THEOREM FifoIsQueue == Spec => RefinesBlockQueue
<1>1. Init => Queue!QInit
  <2> SUFFICES ASSUME Init
               PROVE  Queue!QInit
    OBVIOUS
  <2>1. TypeOK /\ ListShape
    BY InitInv DEF IInv
  <2>2. Contents = Queued
    BY <2>1, ContentsQueued
  <2>3. Queued = <<>> /\ produced = 0 /\ got = 0
    BY DEF Init, Queued
  <2> QED
    BY <2>2, <2>3 DEF Queue!QInit
<1>2. IInv => Contents = Queued
  BY ContentsQueued DEF IInv
<1>3. (IInv => Contents = Queued)'
  BY <1>2, PTL
<1>4. IInv /\ IInv' /\ [Next]_vars => [Queue!QNext]_(Queue!qvars)
  BY <1>2, <1>3, QueueStep
<1> QED
  BY <1>1, <1>4, Inductive, PTL DEF Spec, RefinesBlockQueue, Queue!QSpec
=============================================================================
