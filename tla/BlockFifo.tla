------------------------------ MODULE BlockFifo ------------------------------
(* The thread-safe block FIFO of libvlccore (src/misc/block.c, block_fifo_t): *)
(* a linked list with a tail pointer, two counters, a forced wake-up flag,    *)
(* one lock and two condition variables.  A section of code that holds the    *)
(* lock is one action; vlc_cond_wait splits an operation in two, because it   *)
(* drops the lock.  Condition variables may wake up spuriously, and a thread  *)
(* asleep on one can be cancelled.                                            *)
EXTENDS Integers, Sequences, FiniteSetsExt

CONSTANTS
    Readers,      \* threads that call block_FifoGet and block_FifoShow
    Writers,      \* threads that pace, put, wake and empty
    Controllers,  \* threads that only wake and empty
    Showers,      \* the readers that use block_FifoShow
    Cancellable,  \* threads some other thread may vlc_cancel
    NBlocks,      \* bound on the blocks ever put
    MaxChain,     \* bound on the length of one chain of blocks
    PaceLimits,   \* the <<max_depth, max_size>> a writer paces with
    Offset        \* Offset[b]: the bytes of the blocks 1..b together

ASSUME RolesDisjoint ==
    Readers \cap Writers = {} /\ Controllers \cap (Readers \cup Writers) = {}
ASSUME SubsetsOfThreads ==
    Showers \subseteq Readers /\ Cancellable \subseteq Readers \cup Writers
ASSUME BoundsAreNat == NBlocks \in Nat /\ MaxChain \in Nat
ASSUME LimitsAreNat == PaceLimits \subseteq Nat \X Nat
ASSUME OffsetsGrow ==
    /\ Offset \in [0..NBlocks -> Nat]
    /\ \A a, b \in 0..NBlocks : a <= b => Offset[a] <= Offset[b]

Threads == Readers \cup Writers \cup Controllers
Blocks == 1..NBlocks

VARIABLES
    p_first,       \* the first block, 0 for NULL
    pp_last,       \* whose p_next field the next block is linked into;
                   \* 0 stands for &p_fifo->p_first
    p_next,        \* the p_next field of every block
    i_depth,
    i_size,
    b_force_wake,
    wait,          \* threads asleep on the condition variable "wait"
    wait_room,     \* threads asleep on the condition variable "wait_room"
    op,            \* the call each thread is in: idle, get, show, pace, exited
    limit,         \* the limits of the writer's current block_FifoPace
    cancelled,     \* threads with a cancellation request pending
    produced,      \* number of blocks put so far: a block is never reused
    got            \* the last block block_FifoGet returned

list == <<p_first, pp_last, p_next, i_depth, i_size>>
vars == <<list, b_force_wake, wait, wait_room, op, limit, cancelled, produced, got>>

TypeOK ==
    /\ p_first \in 0..NBlocks
    /\ pp_last \in 0..NBlocks
    /\ p_next \in [Blocks -> 0..NBlocks]
    /\ i_depth \in Nat /\ i_size \in Nat
    /\ b_force_wake \in BOOLEAN
    /\ wait \subseteq Readers
    /\ wait_room \subseteq Writers
    /\ op \in [Threads -> {"idle", "get", "show", "pace", "exited"}]
    /\ limit \in [Writers -> (Nat \X Nat)]
    /\ cancelled \subseteq Cancellable
    /\ produced \in 0..NBlocks
    /\ got \in 0..NBlocks

\* block_FifoNew; the threads have not called anything yet.
Init ==
    /\ p_first = 0 /\ pp_last = 0
    /\ p_next = [b \in Blocks |-> 0]
    /\ i_depth = 0 /\ i_size = 0
    /\ b_force_wake = FALSE
    /\ wait = {} /\ wait_room = {}
    /\ op = [t \in Threads |-> "idle"]
    /\ limit = [w \in Writers |-> <<0, 0>>]
    /\ cancelled = {}
    /\ produced = 0
    /\ got = 0

-----------------------------------------------------------------------------
(* Condition variables                                                       *)

\* The thread runs inside the call: it is not asleep, and needs the lock.
Awake(t, call) == op[t] = call /\ t \notin wait \cup wait_room

\* Who may still sleep after vlc_cond_signal: one sleeper less, if any.
Signal(cond) == IF cond = {} THEN {{}} ELSE {cond \ {t} : t \in cond}

\* Mutants of the wake-ups below.
WakeNobody == wait' = wait
WakeWriter_None == wait_room' = wait_room

\* block_FifoPut: vlc_cond_signal( &p_fifo->wait )
WakeOneReader == wait' \in Signal(wait)

\* block_FifoWake: vlc_cond_broadcast( &p_fifo->wait )
WakeAllReaders == wait' = {}

\* block_FifoGet and block_FifoEmpty: vlc_cond_broadcast( &p_fifo->wait_room )
WakeAllWriters == wait_room' = {}

-----------------------------------------------------------------------------
(* The list                                                                  *)

\* Total i_buffer of the blocks first..last.
Bytes_Head(first, last) == Offset[first] - Offset[first - 1]
Bytes(first, last) == Offset[last] - Offset[first - 1]

\* p_next once the chain first..last is built by its producer.
Chained(first, last) ==
    [b \in Blocks |-> IF b \notin first..last THEN p_next[b]
                      ELSE IF b = last THEN 0 ELSE b + 1]

\* Appends the chain first..last: *pp_last = first, pp_last = &last->p_next.
LinkChain_Overwrite(first, last) ==
    /\ p_first' = first
    /\ p_next' = Chained(first, last)
    /\ pp_last' = last
LinkChain(first, last) ==
    /\ IF pp_last = 0
       THEN p_first' = first /\ p_next' = Chained(first, last)
       ELSE p_first' = p_first /\ p_next' = [Chained(first, last) EXCEPT ![pp_last] = first]
    /\ pp_last' = last

\* Unlinks the first block.
UnlinkFirst_Stuck == UNCHANGED <<p_first, pp_last, p_next>>
UnlinkFirst ==
    /\ p_first' = p_next[p_first]
    /\ pp_last' = IF p_next[p_first] = 0 THEN 0 ELSE pp_last
    /\ p_next' = [p_next EXCEPT ![p_first] = 0]

\* Unlinks every block.
UnlinkAll == p_first' = 0 /\ pp_last' = 0 /\ p_next' = p_next

-----------------------------------------------------------------------------
(* Readers                                                                   *)

Return(t) == op' = [op EXCEPT ![t] = "idle"]

\* The loop of block_FifoGet, from the evaluation of its condition on.
GetSleep(t) ==
    /\ p_first = 0 /\ ~b_force_wake
    /\ wait' = wait \cup {t}
    /\ op' = [op EXCEPT ![t] = "get"]
    /\ UNCHANGED <<list, b_force_wake, wait_room, got>>

GetNull(t) ==
    /\ p_first = 0 /\ b_force_wake
    /\ b_force_wake' = FALSE
    /\ Return(t)
    /\ UNCHANGED <<list, wait, wait_room, got>>

GetBlock(t) ==
    /\ p_first # 0
    /\ UnlinkFirst
    /\ i_depth' = i_depth - 1
    /\ i_size' = i_size - Bytes(p_first, p_first)
    /\ b_force_wake' = FALSE
    /\ WakeAllWriters
    /\ got' = p_first
    /\ Return(t)
    /\ UNCHANGED wait

\* vlc_testcancel() lets a pending cancellation take a thread out before the
\* call; inside the call it is tested again when the thread waits.
FifoGet(t) ==
    /\ t \in Readers
    /\ \/ op[t] = "idle" /\ t \notin cancelled
       \/ Awake(t, "get")
    /\ GetSleep(t) \/ GetNull(t) \/ GetBlock(t)
    /\ UNCHANGED <<limit, cancelled, produced>>

\* block_FifoShow leaves the block where it is, and does not look at the
\* forced wake-up.
FifoShow(t) ==
    /\ t \in Showers
    /\ \/ op[t] = "idle" /\ t \notin cancelled
       \/ Awake(t, "show")
    /\ IF p_first = 0
       THEN wait' = wait \cup {t} /\ op' = [op EXCEPT ![t] = "show"]
       ELSE Return(t) /\ UNCHANGED wait
    /\ UNCHANGED <<list, b_force_wake, wait_room, limit, cancelled, produced, got>>

-----------------------------------------------------------------------------
(* Writers                                                                   *)

Above(lim) == i_depth > lim[1] \/ i_size > lim[2]

\* The loop of block_FifoPace under the limits lim.
PaceLoop(w, lim) ==
    /\ IF Above(lim)
       THEN wait_room' = wait_room \cup {w} /\ op' = [op EXCEPT ![w] = "pace"]
       ELSE Return(w) /\ UNCHANGED wait_room
    /\ UNCHANGED <<list, b_force_wake, wait, cancelled, produced, got>>

FifoPace(w) ==
    /\ w \in Writers /\ op[w] = "idle" /\ w \notin cancelled
    /\ \E lim \in PaceLimits : PaceLoop(w, lim) /\ limit' = [limit EXCEPT ![w] = lim]

FifoPaceAgain(w) ==
    /\ w \in Writers /\ Awake(w, "pace")
    /\ PaceLoop(w, limit[w])
    /\ UNCHANGED limit

\* block_FifoPut of a chain of n new blocks; of NULL it does nothing.
FifoPut(w, n) ==
    /\ w \in Writers /\ op[w] = "idle"
    /\ produced + n <= NBlocks
    /\ LinkChain(produced + 1, produced + n)
    /\ i_depth' = i_depth + n
    /\ i_size' = i_size + Bytes(produced + 1, produced + n)
    /\ WakeOneReader
    /\ produced' = produced + n
    /\ UNCHANGED <<b_force_wake, wait_room, op, limit, cancelled, got>>

FifoWake(w) ==
    /\ w \in Writers \cup Controllers /\ op[w] = "idle"
    /\ b_force_wake' = (p_first = 0 \/ b_force_wake)
    /\ WakeAllReaders
    /\ UNCHANGED <<list, wait_room, op, limit, cancelled, produced, got>>

FifoEmpty(w) ==
    /\ w \in Writers \cup Controllers /\ op[w] = "idle"
    /\ IF p_first # 0
       THEN UnlinkAll /\ i_depth' = 0 /\ i_size' = 0
       ELSE UNCHANGED list
    /\ WakeAllWriters
    /\ UNCHANGED <<b_force_wake, wait, op, limit, cancelled, produced, got>>

-----------------------------------------------------------------------------
(* Cancellation and spurious wake-ups                                        *)

\* Another thread calls vlc_cancel.
Cancel(t) ==
    /\ t \in Cancellable \ cancelled
    /\ cancelled' = cancelled \cup {t}
    /\ UNCHANGED <<list, b_force_wake, wait, wait_room, op, limit, produced, got>>

\* A cancelled thread unwinds at vlc_testcancel, or out of vlc_cond_wait: the
\* clean-up handler drops the lock the wait took again.
Unwind(t) ==
    /\ t \in cancelled
    /\ op[t] = "idle" \/ t \in wait \cup wait_room
    /\ op' = [op EXCEPT ![t] = "exited"]
    /\ wait' = wait \ {t}
    /\ wait_room' = wait_room \ {t}
    /\ UNCHANGED <<list, b_force_wake, limit, cancelled, produced, got>>

SpuriousWakeup(t) ==
    /\ t \in wait \cup wait_room
    /\ wait' = wait \ {t}
    /\ wait_room' = wait_room \ {t}
    /\ UNCHANGED <<list, b_force_wake, op, limit, cancelled, produced, got>>

-----------------------------------------------------------------------------
Next ==
    \/ \E t \in Readers : FifoGet(t) \/ FifoShow(t)
    \/ \E w \in Writers :
          \/ FifoPace(w) \/ FifoPaceAgain(w)
          \/ \E n \in 1..MaxChain : FifoPut(w, n)
    \/ \E w \in Writers \cup Controllers : FifoWake(w) \/ FifoEmpty(w)
    \/ \E t \in Threads : Cancel(t) \/ Unwind(t) \/ SpuriousWakeup(t)

Spec == Init /\ [][Next]_vars

\* A reader keeps reading, and a thread a wait let go gets the lock in the end.
Fairness ==
    /\ \A t \in Readers : WF_vars(FifoGet(t))
    /\ \A t \in Showers : WF_vars(op[t] = "show" /\ FifoShow(t))
    /\ \A w \in Writers : WF_vars(FifoPaceAgain(w))

FairSpec == Spec /\ Fairness

-----------------------------------------------------------------------------
(* Properties                                                                *)

\* The list is what the tail pointer and the depth counter say: the blocks
\* p_first..pp_last, linked in the order they were put, i_depth of them, and the
\* tail pointer is &p_first exactly when the list is empty.  A stale pp_last
\* after block_FifoEmpty or after the last block_FifoGet would link the next
\* block into a released one.
ListShape ==
    IF p_first = 0
    THEN pp_last = 0 /\ i_depth = 0
    ELSE /\ p_first <= pp_last /\ pp_last = produced
         /\ i_depth = pp_last - p_first + 1
         /\ \A b \in p_first..pp_last - 1 : p_next[b] = b + 1
         /\ p_next[pp_last] = 0

\* i_size is the number of bytes queued.  The decoder's 400 MiB limit and every
\* block_FifoPace on a size rest on it, and it is unsigned: one subtraction too
\* many and a producer waits for ever.
SizeMatches == i_size = IF p_first = 0 THEN 0 ELSE Bytes(p_first, pp_last)

\* The links, the tail pointer and both counters describe the same list.
ListSound == ListShape /\ SizeMatches

\* No producer sleeps on wait_room once the queue is back under its limits:
\* every operation that makes room wakes all of them, whatever their limits.
RoomWaitersAboveLimit == \A w \in wait_room : Above(limit[w])

\* A forced wake-up is not lost on a reader: while the flag is up, nobody sleeps
\* in block_FifoGet.
ForcedWakeSeen == b_force_wake => \A t \in wait : op[t] = "show"

\* While a reader sleeps, at least as many others are on their way to the lock
\* as blocks are queued.  block_FifoPut signals one reader per chain, so it
\* takes either a single reader, or chains of one block and no block_FifoShow.
NoStrandedReader ==
    wait # {} => Cardinality({t \in Readers : Awake(t, "get")}) >= i_depth

\* The blocks a walk along p_next from p_first meets before NULL, in order.
Step[k \in Nat] ==
    IF k = 0 THEN p_first ELSE IF Step[k - 1] = 0 THEN 0 ELSE p_next[Step[k - 1]]
Contents == [k \in 1..Cardinality({k \in Blocks : Step[k - 1] # 0}) |-> Step[k - 1]]

\* Seen through its links the FIFO is the abstract block queue: no block is
\* lost, duplicated or overtaken, and cancelling or waking a reader takes none.
Queue == INSTANCE BlockQueue WITH queue <- Contents
RefinesBlockQueue == Queue!QSpec

\* A lone producer held up in block_FifoPace gets out as long as the reader
\* reads and is not cancelled (with several producers, another may fill the queue
\* again first, as the comment on block_FifoPace warns).
PacedWriterProceeds ==
    \A w \in Writers : op[w] = "pace" ~> op[w] # "pace" \/ cancelled # {}

\* Every queued block is taken or thrown away in the end, unless the reader is
\* cancelled.
BlocksLeave ==
    \A b \in Blocks :
        (b \in Range(Contents)) ~> (b \notin Range(Contents) \/ cancelled # {})
=============================================================================
