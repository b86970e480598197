--------------------------- MODULE Decoder_proofs ---------------------------
(* Proofs about Decoder, for any streams and bounds.                         *)
EXTENDS Decoder, TLAPS

Busy(e) == thread[e] \notin {"none", "get", "ended"}

\* Its thread works on a flush block.
HandlesFlush(e) == Busy(e) /\ block[e] = "flush"

\* The input thread is in DecoderFlush for this decoder.
FlushUnderWay(e) == input = "flush" /\ cur = e /\ owner[e].flushing

\* A flush block is alone in its FIFO, and somebody waits for it.
FlushQueued ==
    \A e \in Es : \/ fifo[e] \in Seq({"data", "eos"})
                  \/ fifo[e] = <<"flush">> /\ FlushUnderWay(e) /\ ~HandlesFlush(e)

\* A flush block is handled while somebody waits for it.
FlushHandled == \A e \in Es : HandlesFlush(e) => FlushUnderWay(e)

\* A thread on its way to the output has something to put there.
SomethingLeft == \A e \in Es : thread[e] \in Playing => left[e] > 0

\* The decoders that the loop of input_DecoderWait has passed are ready.
PassedAreReady ==
    input \in {"waitall", "wait"} =>
        \A e \in selected : cat[e] # "spu" /\ e \notin todo /\ (input = "wait" => e # cur)
            => owner[e].has_data \/ ~owner[e].waiting

FlushInv == FlushQueued /\ FlushHandled /\ SeekIsBarrier
ReadyInv == PassedAreReady /\ ReadyTogether

IInv == TypeOK /\ SomethingLeft /\ FlushInv /\ ReadyInv

-----------------------------------------------------------------------------
(* What the steps of the threads change                                      *)

LEMMA Signalled ==
    ASSUME TypeOK, NEW e \in Es, SignalRequest(e)
    PROVE  /\ thread' \in [Es -> Places]
           /\ \A d \in Es : d # e => thread'[d] = thread[d]
           /\ \/ thread'[e] = thread[e]
              \/ thread[e] = "blocked" /\ thread'[e] = "unblock"
              \/ thread[e] = "date" /\ thread'[e] = "datecheck"
<1>1. thread \in [Es -> Places] /\ thread[e] \in Places
  BY DEF TypeOK
<1>2. CASE thread[e] = "blocked"
  <2>1. thread' = [thread EXCEPT ![e] = "unblock"]
    BY <1>2 DEF SignalRequest
  <2> QED
    BY <1>1, <1>2, <2>1 DEF Places, Playing
<1>3. CASE thread[e] = "date"
  <2>1. thread' = [thread EXCEPT ![e] = "datecheck"]
    BY <1>3 DEF SignalRequest
  <2> QED
    BY <1>1, <1>3, <2>1 DEF Places, Playing
<1>4. CASE thread[e] \notin {"blocked", "date"}
  <2>1. thread' = [thread EXCEPT ![e] = thread[e]]
    BY <1>4 DEF SignalRequest
  <2> QED
    BY <1>1, <2>1
<1> QED
  BY <1>2, <1>3, <1>4

\* The flags of a decoder after a step of its own thread that acknowledges no
\* flush: its wait may end, its frame steps are used and data is never taken back.
Advances(e, o, p) ==
    /\ p \in Flags /\ p.ignore <= o.ignore /\ p.flushing = o.flushing
    /\ p.waiting => o.waiting
    /\ o.has_data => p.has_data
    /\ p.vout => o.vout \/ Kind(e) = "video"

LEMMA SignalWaitAdvances ==
    ASSUME TypeOK, NEW e \in Es, NEW h \in BOOLEAN, SignalWait(e, h)
    PROVE  \E p : owner' = [owner EXCEPT ![e] = p] /\ Advances(e, owner[e], p)
<1>1. owner \in [Es -> Flags] /\ owner[e] \in Flags
  BY DEF TypeOK
<1>2. CASE owner[e].waiting
  <2> DEFINE p == [owner[e] EXCEPT !.has_data = @ \/ h]
  <2>1. owner' = [owner EXCEPT ![e] = p]
    BY <1>2 DEF SignalWait
  <2>2. Advances(e, owner[e], p)
    BY <1>1 DEF Advances, Flags
  <2> QED
    BY <2>1, <2>2
<1>3. CASE ~owner[e].waiting
  <2>1. owner' = [owner EXCEPT ![e] = owner[e]]
    BY <1>1, <1>3 DEF SignalWait
  <2>2. Advances(e, owner[e], owner[e])
    BY <1>1 DEF Advances, Flags
  <2> QED
    BY <2>1, <2>2
<1> QED
  BY <1>2, <1>3

LEMMA SameIgnoreAdvances ==
    ASSUME NEW e \in Es, NEW o \in Flags, NEW p \in Flags,
           p.ignore = o.ignore, p.flushing = o.flushing, p.waiting => o.waiting,
           o.has_data => p.has_data, p.vout => o.vout \/ Kind(e) = "video"
    PROVE  Advances(e, o, p)
<1>1. p.ignore \in Int
  BY BoundsAreNat DEF Flags
<1> QED
  BY <1>1 DEF Advances

\* What any other step of a decoder thread may change.
Moves(e) ==
    /\ \E p : owner' = [owner EXCEPT ![e] = p] /\ Advances(e, owner[e], p)
    /\ \E t \in Places, n \in 0..MaxOut :
          /\ thread' = [thread EXCEPT ![e] = t]
          /\ left' = [left EXCEPT ![e] = n]
          /\ t \in Playing => n > 0
    /\ was_paused' \in [Es -> BOOLEAN]

Works(e) ==
    /\ UNCHANGED <<esOut, input, op, todo, cur, pipe, block, stale>>
    /\ asleep' \in BOOLEAN
    /\ thread'[e] \notin {"get", "ended"} => Busy(e)
    /\ Moves(e)

LEMMA ContinueMoves ==
    ASSUME TypeOK, NEW e \in Es, NEW n \in 0..MaxOut, Continue(e, n)
    PROVE  \E t \in Places, k \in 0..MaxOut :
              /\ thread' = [thread EXCEPT ![e] = t]
              /\ left' = [left EXCEPT ![e] = k]
              /\ t \in Playing => k > 0
<1>1. thread' = [thread EXCEPT ![e] = "decode"] /\ left' = [left EXCEPT ![e] = n]
  BY DEF Continue
<1>2. "decode" \in Places /\ "decode" \notin Playing
  BY DEF Places, Loop, Playing
<1> QED
  BY <1>1, <1>2

LEMMA KeepsLeft ==
    ASSUME TypeOK, NEW e \in Es, NEW t \in Places, thread' = [thread EXCEPT ![e] = t],
           UNCHANGED left, t \in Playing => left[e] > 0
    PROVE  \E u \in Places, k \in 0..MaxOut :
              /\ thread' = [thread EXCEPT ![e] = u]
              /\ left' = [left EXCEPT ![e] = k]
              /\ u \in Playing => k > 0
<1>1. left \in [Es -> 0..MaxOut] /\ left[e] \in 0..MaxOut
  BY DEF TypeOK
<1>2. left' = [left EXCEPT ![e] = left[e]]
  BY <1>1
<1> QED
  BY <1>1, <1>2

LEMMA KeepsOwner ==
    ASSUME TypeOK, NEW e \in Es, UNCHANGED owner
    PROVE  \E p : owner' = [owner EXCEPT ![e] = p] /\ Advances(e, owner[e], p)
<1>1. owner \in [Es -> Flags] /\ owner[e] \in Flags
  BY DEF TypeOK
<1>2. owner' = [owner EXCEPT ![e] = owner[e]]
  BY <1>1
<1>3. Advances(e, owner[e], owner[e])
  BY <1>1 DEF Advances, Flags
<1> QED
  BY <1>2, <1>3

LEMMA UnblockMoves ==
    ASSUME TypeOK, SomethingLeft, NEW e \in Es, thread[e] \in Playing,
           NEW o, Advances(e, owner[e], o), Unblock(e, o)
    PROVE  Moves(e)
<1> DEFINE stepped == IF UsesStep(o) THEN [o EXCEPT !.ignore = @ - 1] ELSE o
           shown == IF Kind(e) = "video" /\ o.waiting THEN [stepped EXCEPT !.first = FALSE] ELSE stepped
<1>1. o \in Flags /\ owner[e] \in Flags /\ left[e] \in 0..MaxOut /\ left[e] > 0
  BY DEF TypeOK, SomethingLeft, Advances
<1>2. MaxOut \in Nat /\ MaxSteps \in Nat
  BY BoundsAreNat
<1>3. CASE ~MayPass(o)
  <2>1. /\ owner' = [owner EXCEPT ![e] = o]
        /\ thread' = [thread EXCEPT ![e] = "blocked"]
        /\ UNCHANGED <<left, was_paused>>
    BY <1>3 DEF Unblock
  <2>2. "blocked" \in Places
    BY DEF Places, Playing
  <2>3. was_paused' \in [Es -> BOOLEAN]
    BY <2>1 DEF TypeOK
  <2> QED
    BY <1>1, <2>1, <2>2, <2>3, KeepsLeft DEF Moves
<1>4. CASE MayPass(o)
  <2>1. /\ owner' = [owner EXCEPT ![e] = shown]
        /\ was_paused' = [was_paused EXCEPT ![e] = o.paused]
    BY <1>4 DEF Unblock
  <2>2. UsesStep(o) => o.ignore > 0
    BY <1>4 DEF UsesStep, MayPass
  <2>3. Advances(e, owner[e], shown)
    <3>1. stepped \in Flags /\ stepped.ignore <= o.ignore /\ stepped.flushing = o.flushing
          /\ stepped.waiting = o.waiting /\ stepped.has_data = o.has_data
          /\ stepped.vout = o.vout
      BY <1>1, <1>2, <2>2 DEF Flags
    <3> HIDE DEF stepped
    <3>2. shown \in Flags /\ shown.ignore = stepped.ignore /\ shown.flushing = stepped.flushing
          /\ shown.waiting = stepped.waiting /\ shown.has_data = stepped.has_data
          /\ shown.vout = stepped.vout
      BY <3>1 DEF Flags
    <3>3. owner[e].ignore \in Nat /\ o.ignore \in Nat /\ stepped.ignore \in Nat
      BY <1>1, <1>2, <3>1 DEF Flags
    <3> HIDE DEF shown
    <3> QED
      BY <3>1, <3>2, <3>3 DEF Advances
  <2>4. was_paused' \in [Es -> BOOLEAN]
    BY <1>1, <2>1 DEF TypeOK, Flags
  <2>5. \E t \in Places, n \in 0..MaxOut :
          /\ thread' = [thread EXCEPT ![e] = t]
          /\ left' = [left EXCEPT ![e] = n]
          /\ t \in Playing => n > 0
    <3>1. CASE Continue(e, IF sout THEN 0 ELSE left[e] - 1)
      <4>1. (IF sout THEN 0 ELSE left[e] - 1) \in 0..MaxOut
        BY <1>1, <1>2
      <4> QED
        BY <3>1, <4>1, ContinueMoves
    <3>2. CASE thread' = [thread EXCEPT ![e] = "date"] /\ UNCHANGED left
      <4>1. "date" \in Places
        BY DEF Places, Playing
      <4> QED
        BY <1>1, <3>2, <4>1, KeepsLeft
    <3>3. CASE thread' = [thread EXCEPT ![e] = "put"] /\ UNCHANGED left
      <4>1. "put" \in Places
        BY DEF Places, Playing
      <4> QED
        BY <1>1, <3>3, <4>1, KeepsLeft
    <3> QED
      BY <1>4, <3>1, <3>2, <3>3 DEF Unblock
  <2> HIDE DEF shown
  <2> QED
    BY <2>1, <2>3, <2>4, <2>5 DEF Moves
<1> QED
  BY <1>3, <1>4

LEMMA ProcessMoves ==
    ASSUME TypeOK, NEW e \in Es, Process(e)
    PROVE  \E t \in Places, k \in 0..MaxOut :
              /\ thread' = [thread EXCEPT ![e] = t]
              /\ left' = [left EXCEPT ![e] = k]
              /\ t \in Playing => k > 0
<1>1. CASE block[e] = "none"
  <2>1. thread' = [thread EXCEPT ![e] = "get"] /\ UNCHANGED left
    BY <1>1 DEF Process
  <2>2. "get" \in Places /\ "get" \notin Playing
    BY DEF Places, Loop, Playing
  <2> QED
    BY <2>1, <2>2, KeepsLeft
<1>2. CASE block[e] # "none"
  <2>1. PICK n \in 0..(IF Drains(e) THEN 1 ELSE MaxOut) : left' = [left EXCEPT ![e] = n]
    BY <1>2 DEF Process
  <2>2. n \in 0..MaxOut
    BY BoundsAreNat
  <2>3. thread' = [thread EXCEPT ![e] = "decode"]
    BY <1>2 DEF Process
  <2> QED
    BY <2>1, <2>2, <2>3, ContinueMoves DEF Continue
<1> QED
  BY <1>1, <1>2

\* Every step of a decoder thread, but those that take a block or are done with
\* one, works on the block it has.
LEMMA ThreadWorks ==
    ASSUME TypeOK, SomethingLeft, NEW e \in Es, DecoderThread(e) \/ Spurious(e),
           ~Get(e), ~(BlockDone(e) /\ Acknowledges(e))
    PROVE  Works(e) /\ UNCHANGED fifo
<1>0. /\ "get" \in Places /\ "get" \notin Playing /\ "ended" \in Places /\ "ended" \notin Playing
      /\ "stopwait" \in Places /\ "stopwait" \notin Playing
      /\ Playing \subseteq Places /\ {"none", "get", "ended"} \cap Playing = {}
      /\ {"play", "alloc", "allocsignal", "unblock", "blocked", "date", "datecheck", "put"} = Playing
  BY DEF Places, Loop, Playing
<1>00. /\ left[e] \in 0..MaxOut /\ asleep \in BOOLEAN /\ was_paused \in [Es -> BOOLEAN]
       /\ owner[e] \in Flags /\ MaxOut \in Nat \ {0} /\ owner \in [Es -> Flags]
       /\ thread \in [Es -> Places] /\ left \in [Es -> 0..MaxOut]
  BY BoundsAreNat DEF TypeOK
<1>1. CASE Cancelled(e)
  <2>1. thread' = [thread EXCEPT ![e] = "ended"] /\ UNCHANGED <<esOut, loop, owner, pipe, block, stale, left, was_paused>>
    BY <1>1 DEF Cancelled
  <2>2. Moves(e)
    BY <1>0, <1>00, <2>1, KeepsLeft, KeepsOwner DEF Moves
  <2> QED
    BY <1>00, <2>1, <2>2 DEF Works, loop, pipe
<1>2. CASE Signal(e)
  <2>1. /\ thread[e] = "signal"
        /\ SignalWait(e, EndWait(e))
        /\ IF EndWait(e) THEN thread' = [thread EXCEPT ![e] = "stopwait"] /\ UNCHANGED left ELSE Process(e)
        /\ UNCHANGED <<esOut, input, op, todo, cur, pipe, block, stale, was_paused>>
    BY <1>2 DEF Signal
  <2>2. \E p : owner' = [owner EXCEPT ![e] = p] /\ Advances(e, owner[e], p)
    <3>1. EndWait(e) \in BOOLEAN
      BY DEF EndWait
    <3> QED
      BY <2>1, <3>1, SignalWaitAdvances
  <2>3. asleep' \in BOOLEAN
    BY <1>00, <2>1 DEF SignalWait, SignalAcknowledge
  <2>4. ASSUME Process(e) PROVE Moves(e)
    BY <1>00, <2>1, <2>2, <2>4, ProcessMoves DEF Moves
  <2>5. ASSUME thread' = [thread EXCEPT ![e] = "stopwait"], UNCHANGED left PROVE Moves(e)
    BY <1>0, <1>00, <2>1, <2>2, <2>5, KeepsLeft DEF Moves
  <2>6. Moves(e)
    BY <2>1, <2>4, <2>5
  <2> QED
    BY <2>1, <2>3, <2>6 DEF Works, Busy, pipe
<1>3. CASE StopOwnWait(e)
  <2> DEFINE p == [owner[e] EXCEPT !.waiting = FALSE]
  <2>1. /\ thread[e] = "stopwait"
        /\ owner' = [owner EXCEPT ![e] = p]
        /\ Process(e)
        /\ UNCHANGED <<esOut, loop, pipe, block, stale, was_paused>>
    BY <1>3 DEF StopOwnWait
  <2>2. Advances(e, owner[e], p)
    <3>1. p \in Flags /\ p.ignore = owner[e].ignore /\ p.flushing = owner[e].flushing
          /\ (p.waiting => owner[e].waiting) /\ (owner[e].has_data => p.has_data)
          /\ (p.vout => owner[e].vout \/ Kind(e) = "video")
      BY <1>00 DEF Flags
    <3> HIDE DEF p
    <3> QED
      BY <1>00, <3>1, SameIgnoreAdvances
  <2>3. Moves(e)
    BY <1>00, <2>1, <2>2, ProcessMoves DEF Moves
  <2> QED
    BY <1>00, <2>1, <2>3 DEF Works, Busy, loop, pipe
<1>4. CASE BlockDone(e)
  <2>1. /\ thread[e] = "decode"
        /\ thread' = [thread EXCEPT ![e] = "get"]
        /\ UNCHANGED <<esOut, input, op, todo, cur, pipe, block, stale, left, was_paused, owner, asleep>>
    BY <1>4 DEF BlockDone
  <2>2. Moves(e)
    BY <1>0, <1>00, <2>1, KeepsLeft, KeepsOwner DEF Moves
  <2> QED
    BY <1>00, <2>1, <2>2 DEF Works, Busy, pipe
<1>5. CASE Decode(e)
  <2> DEFINE p == [owner[e] EXCEPT !.vout = @ \/ Kind(e) = "video"]
  <2>1. /\ thread[e] = "decode" /\ left[e] > 0
        /\ \/ Continue(e, 0)
           \/ thread' = [thread EXCEPT ![e] = "alloc"] /\ UNCHANGED left
           \/ thread' = [thread EXCEPT ![e] = "play"] /\ UNCHANGED left
        /\ owner' = [owner EXCEPT ![e] = p]
        /\ UNCHANGED <<esOut, loop, pipe, block, stale, was_paused>>
    BY <1>5 DEF Decode
  <2>2. Advances(e, owner[e], p)
    <3>1. p \in Flags /\ p.ignore = owner[e].ignore /\ p.flushing = owner[e].flushing
          /\ (p.waiting => owner[e].waiting) /\ (owner[e].has_data => p.has_data)
          /\ (p.vout => owner[e].vout \/ Kind(e) = "video")
      BY <1>00 DEF Flags
    <3> HIDE DEF p
    <3> QED
      BY <1>00, <3>1, SameIgnoreAdvances
  <2>3. 0 \in 0..MaxOut
    BY <1>00
  <2>4. ASSUME Continue(e, 0) PROVE Moves(e)
    BY <1>00, <2>1, <2>2, <2>3, <2>4, ContinueMoves DEF Moves
  <2>5. ASSUME NEW t \in Playing, thread' = [thread EXCEPT ![e] = t], UNCHANGED left
        PROVE  Moves(e)
    BY <1>0, <1>00, <2>1, <2>2, <2>5, KeepsLeft DEF Moves
  <2>6. Moves(e)
    BY <1>0, <2>1, <2>4, <2>5
  <2> QED
    BY <1>00, <2>1, <2>6 DEF Works, Busy, loop, pipe
<1>6. CASE VideoExit(e) \/ GetPicture(e) \/ NoPicture(e)
  <2>1. /\ thread[e] \in Playing
        /\ \/ Continue(e, 0)
           \/ thread' = [thread EXCEPT ![e] = "play"] /\ UNCHANGED left
           \/ thread' = [thread EXCEPT ![e] = "allocsignal"] /\ UNCHANGED left
        /\ UNCHANGED <<esOut, loop, owner, pipe, block, stale, was_paused>>
    BY <1>0, <1>6 DEF VideoExit, GetPicture, NoPicture
  <2>2. 0 \in 0..MaxOut /\ left[e] > 0
    BY <1>00, <2>1 DEF SomethingLeft
  <2>3. ASSUME Continue(e, 0) PROVE Moves(e)
    BY <1>00, <2>1, <2>2, <2>3, KeepsOwner, ContinueMoves DEF Moves
  <2>4. ASSUME NEW t \in Playing, thread' = [thread EXCEPT ![e] = t], UNCHANGED left
        PROVE  Moves(e)
    BY <1>0, <1>00, <2>1, <2>2, <2>4, KeepsOwner, KeepsLeft DEF Moves
  <2>5. Moves(e)
    BY <1>0, <2>1, <2>3, <2>4
  <2> QED
    BY <1>0, <1>00, <2>1, <2>5 DEF Works, Busy, loop, pipe
<1>7. CASE AllocSignal(e)
  <2>1. /\ thread[e] = "allocsignal"
        /\ SignalWait(e, TRUE)
        /\ thread' = [thread EXCEPT ![e] = "alloc"]
        /\ UNCHANGED <<esOut, input, op, todo, cur, pipe, block, stale, left, was_paused>>
    BY <1>7 DEF AllocSignal
  <2>2. \E p : owner' = [owner EXCEPT ![e] = p] /\ Advances(e, owner[e], p)
    BY <2>1, SignalWaitAdvances
  <2>3. asleep' \in BOOLEAN /\ left[e] > 0
    BY <1>0, <1>00, <2>1 DEF SignalWait, SignalAcknowledge, SomethingLeft
  <2>4. Moves(e)
    BY <1>0, <1>00, <2>1, <2>2, <2>3, KeepsLeft DEF Moves
  <2> QED
    BY <2>1, <2>3, <2>4 DEF Works, Busy, pipe
<1>8. CASE Play(e)
  <2> DEFINE o == [owner[e] EXCEPT !.has_data = TRUE]
  <2>1. /\ thread[e] = "play"
        /\ \/ Unblock(e, o) /\ SignalAcknowledge(e)
           \/ Unblock(e, owner[e]) /\ UNCHANGED asleep
        /\ UNCHANGED <<esOut, input, op, todo, cur, pipe, block, stale>>
    BY <1>8 DEF Play
  <2>2. Advances(e, owner[e], o) /\ Advances(e, owner[e], owner[e])
    <3>1. o \in Flags /\ o.ignore = owner[e].ignore /\ o.flushing = owner[e].flushing
          /\ o.waiting = owner[e].waiting /\ o.has_data /\ o.vout = owner[e].vout
      BY <1>00 DEF Flags
    <3> HIDE DEF o
    <3> QED
      BY <1>00, <3>1, SameIgnoreAdvances
  <2>3. asleep' \in BOOLEAN
    BY <1>00, <2>1 DEF SignalAcknowledge
  <2> HIDE DEF o
  <2>4. Moves(e)
    BY <1>0, <2>1, <2>2, UnblockMoves
  <2> QED
    BY <2>1, <2>3, <2>4 DEF Works, Busy, pipe
<1>9. CASE PlayAgain(e)
  <2>1. /\ thread[e] = "unblock" /\ Unblock(e, owner[e])
        /\ UNCHANGED <<esOut, loop, pipe, block, stale>>
    BY <1>9 DEF PlayAgain
  <2>2. Advances(e, owner[e], owner[e])
    BY <1>00 DEF Advances, Flags
  <2>3. Moves(e)
    BY <1>0, <2>1, <2>2, UnblockMoves
  <2> QED
    BY <1>00, <2>1, <2>3 DEF Works, Busy, loop, pipe
<1>10. CASE Spurious(e)
  <2>1. /\ thread[e] = "blocked" /\ thread' = [thread EXCEPT ![e] = "unblock"]
        /\ UNCHANGED <<esOut, loop, owner, pipe, block, stale, left, was_paused>>
    BY <1>10 DEF Spurious
  <2>2. left[e] > 0
    BY <1>0, <2>1 DEF SomethingLeft
  <2>3. Moves(e)
    BY <1>0, <1>00, <2>1, <2>2, KeepsLeft, KeepsOwner DEF Moves
  <2> QED
    BY <1>00, <2>1, <2>3 DEF Works, Busy, loop, pipe
<1>11. CASE DateReached(e) \/ DateSignalled(e) \/ Output(e)
  <2>1. /\ thread[e] \in {"date", "datecheck", "put"}
        /\ \/ Unblock(e, owner[e])
           \/ UNCHANGED <<owner, was_paused>> /\ Continue(e, left[e] - 1)
           \/ UNCHANGED <<owner, was_paused>> /\ thread' = [thread EXCEPT ![e] = "put"] /\ UNCHANGED left
           \/ UNCHANGED <<owner, was_paused>> /\ thread' = [thread EXCEPT ![e] = "date"] /\ UNCHANGED left
        /\ UNCHANGED <<esOut, loop, pipe, block, stale>>
    BY <1>11 DEF DateReached, DateSignalled, DateEnds, Output
  <2>2. left[e] > 0 /\ left[e] - 1 \in 0..MaxOut
    <3>1. left[e] > 0
      BY <1>0, <2>1 DEF SomethingLeft
    <3> QED
      BY <1>00, <3>1
  <2>3. Advances(e, owner[e], owner[e])
    BY <1>00 DEF Advances, Flags
  <2>4. ASSUME Unblock(e, owner[e]) PROVE Moves(e)
    BY <1>0, <2>1, <2>3, <2>4, UnblockMoves
  <2>5. ASSUME UNCHANGED <<owner, was_paused>>, Continue(e, left[e] - 1) PROVE Moves(e)
    BY <1>00, <2>2, <2>5, KeepsOwner, ContinueMoves DEF Moves
  <2>6. ASSUME UNCHANGED <<owner, was_paused, left>>, NEW t \in {"put", "date"},
               thread' = [thread EXCEPT ![e] = t]
        PROVE  Moves(e)
    <3>1. t \in Places
      BY <1>0
    <3> QED
      BY <1>00, <2>2, <2>6, <3>1, KeepsOwner, KeepsLeft DEF Moves
  <2>7. Moves(e)
    BY <2>1, <2>4, <2>5, <2>6
  <2> QED
    BY <1>0, <1>00, <2>1, <2>7 DEF Works, Busy, loop, pipe
<1> QED
  BY <1>1, <1>2, <1>3, <1>4, <1>5, <1>6, <1>7, <1>8, <1>9, <1>10, <1>11 DEF DecoderThread
-----------------------------------------------------------------------------
(* The steps of a decoder thread preserve the invariant                      *)

LEMMA WorksKeeps ==
    ASSUME IInv, NEW e \in Es, Works(e)
    PROVE  IInv'
<1>0. TypeOK /\ SomethingLeft /\ FlushInv /\ ReadyInv
  BY DEF IInv
<1>1. PICK p : owner' = [owner EXCEPT ![e] = p] /\ Advances(e, owner[e], p)
  BY DEF Works, Moves
<1>2. PICK t \in Places, n \in 0..MaxOut :
          /\ thread' = [thread EXCEPT ![e] = t]
          /\ left' = [left EXCEPT ![e] = n]
          /\ t \in Playing => n > 0
  BY DEF Works, Moves
<1>3. UNCHANGED <<esOut, input, op, todo, cur, pipe, block, stale>> /\ asleep' \in BOOLEAN
      /\ was_paused' \in [Es -> BOOLEAN]
  BY DEF Works, Moves
<1>4. \A d \in Es : /\ owner'[d].flushing = owner[d].flushing
                    /\ owner'[d].waiting => owner[d].waiting
                    /\ owner[d].has_data => owner'[d].has_data
  BY <1>0, <1>1 DEF Advances, TypeOK
<1>5. \A d \in Es : thread'[d] \notin {"get", "ended"} =>
                        /\ thread[d] \notin {"get", "ended"}
                        /\ thread'[d] # "none" => Busy(d)
  BY <1>0, <1>2 DEF Works, Busy, TypeOK
<1>6. TypeOK'
  <2>1. owner' \in [Es -> Flags]
    BY <1>0, <1>1 DEF TypeOK, Advances
  <2>2. \A d \in Es : owner'[d].ignore <= steps
    <3> SUFFICES ASSUME NEW d \in Es PROVE owner'[d].ignore <= steps
      OBVIOUS
    <3>1. owner'[d].ignore \in Int /\ owner[d].ignore \in Int /\ steps \in Int
          /\ owner[d].ignore <= steps
      BY <1>0, <2>1, BoundsAreNat DEF TypeOK, Flags
    <3>2. owner'[d].ignore <= owner[d].ignore
      BY <1>0, <1>1, <3>1 DEF Advances, TypeOK
    <3> QED
      BY <3>1, <3>2
  <2>3. thread' \in [Es -> Places] /\ left' \in [Es -> 0..MaxOut]
    BY <1>0, <1>2 DEF TypeOK
  <2> QED
    BY <1>0, <1>3, <2>1, <2>2, <2>3 DEF TypeOK, esOut, media, pipe
<1>7. SomethingLeft'
  BY <1>0, <1>2 DEF SomethingLeft, TypeOK
<1>8. FlushInv'
  <2>1. \A d \in Es : FlushUnderWay(d)' <=> FlushUnderWay(d)
    BY <1>3, <1>4 DEF FlushUnderWay
  <2>2. \A d \in Es : HandlesFlush(d)' => HandlesFlush(d)
    BY <1>3, <1>5 DEF HandlesFlush, Busy
  <2>3. FlushQueued' /\ FlushHandled'
    BY <1>0, <1>3, <2>1, <2>2 DEF FlushInv, FlushQueued, FlushHandled, pipe
  <2>4. SeekIsBarrier'
    BY <1>0, <1>3, <1>4, <1>5 DEF FlushInv, SeekIsBarrier
  <2> QED
    BY <2>3, <2>4 DEF FlushInv
<1>9. ReadyInv'
  <2>1. UNCHANGED <<input, todo, cur, selected, cat>>
    BY <1>3 DEF esOut, media
  <2>2. selected \subseteq Es
    BY <1>0 DEF TypeOK
  <2> QED
    BY <1>0, <1>4, <2>1, <2>2 DEF ReadyInv, PassedAreReady, ReadyTogether
<1> QED
  BY <1>6, <1>7, <1>8, <1>9 DEF IInv

\* Steps that leave the buffering of the input alone.
LEMMA ReadyKept ==
    ASSUME TypeOK, ReadyInv, UNCHANGED <<input, todo, cur, selected, cat>>,
           \A d \in Es : /\ owner'[d].waiting => owner[d].waiting
                         /\ owner[d].has_data => owner'[d].has_data
    PROVE  ReadyInv'
<1>1. selected \subseteq Es
  BY DEF TypeOK
<1> QED
  BY <1>1 DEF ReadyInv, PassedAreReady, ReadyTogether

LEMMA GetKeeps ==
    ASSUME IInv, NEW e \in Es, Get(e)
    PROVE  IInv'
<1> DEFINE b == IF fifo[e] = <<>> THEN "none" ELSE Head(fifo[e])
           f == IF fifo[e] = <<>> THEN fifo[e] ELSE Tail(fifo[e])
<1>0. TypeOK /\ SomethingLeft /\ FlushInv /\ ReadyInv
  BY DEF IInv
<1>1. /\ thread[e] = "get"
      /\ block' = [block EXCEPT ![e] = b]
      /\ fifo' = [fifo EXCEPT ![e] = f]
      /\ stale' = [stale EXCEPT ![e] = block'[e] = "flush"]
      /\ thread' = [thread EXCEPT ![e] = "signal"]
      /\ b_force_wake' = [b_force_wake EXCEPT ![e] = FALSE]
      /\ UNCHANGED <<esOut, loop, owner, cancelled, left, was_paused>>
  BY DEF Get
<1>2. b \in Blocks \cup {"none"} /\ f \in Seq(Blocks)
  <2>1. fifo[e] \in Seq(Blocks)
    BY <1>0 DEF TypeOK
  <2> QED
    BY <2>1
<1>3. /\ f \in Seq({"data", "eos"})
      /\ b = "flush" => FlushUnderWay(e)
  <2>1. CASE fifo[e] = <<>>
    BY <2>1
  <2>2. CASE fifo[e] # <<>> /\ fifo[e] \in Seq({"data", "eos"})
    <3>1. Head(fifo[e]) \in {"data", "eos"} /\ Tail(fifo[e]) \in Seq({"data", "eos"})
      BY <2>2
    <3> QED
      BY <2>2, <3>1
  <2>3. CASE fifo[e] = <<"flush">> /\ FlushUnderWay(e)
    BY <2>3
  <2> QED
    BY <1>0, <2>1, <2>2, <2>3 DEF FlushInv, FlushQueued
<1> HIDE DEF b, f
<1>4. TypeOK'
  <2>1. /\ block' \in [Es -> Blocks \cup {"none"}]
        /\ fifo' \in [Es -> Seq(Blocks)]
        /\ stale' \in [Es -> BOOLEAN]
        /\ b_force_wake' \in [Es -> BOOLEAN]
    BY <1>0, <1>1, <1>2 DEF TypeOK
  <2>2. thread' \in [Es -> Places]
    BY <1>0, <1>1 DEF TypeOK, Places, Loop
  <2> QED
    BY <1>0, <1>1, <2>1, <2>2 DEF TypeOK, esOut, media, loop
<1>5. SomethingLeft'
  <2>1. "signal" \notin Playing
    BY DEF Playing
  <2> QED
    BY <1>0, <1>1, <2>1 DEF SomethingLeft, TypeOK
<1>6. FlushInv'
  <2>1. \A d \in Es : FlushUnderWay(d)' <=> FlushUnderWay(d)
    BY <1>1 DEF FlushUnderWay, loop
  <2>2. \A d \in Es : d # e => (HandlesFlush(d)' <=> HandlesFlush(d)) /\ fifo'[d] = fifo[d]
                                 /\ stale'[d] = stale[d] /\ thread'[d] = thread[d]
    BY <1>0, <1>1 DEF HandlesFlush, Busy, TypeOK
  <2>3. fifo'[e] = f /\ block'[e] = b /\ stale'[e] = (b = "flush")
    BY <1>0, <1>1 DEF TypeOK
  <2>4. FlushQueued'
    BY <1>0, <1>3, <2>1, <2>2, <2>3 DEF FlushInv, FlushQueued
  <2>5. FlushHandled'
    BY <1>0, <1>3, <2>1, <2>2, <2>3 DEF FlushInv, FlushHandled, HandlesFlush
  <2>6. SeekIsBarrier'
    BY <1>0, <1>1, <1>3, <2>2, <2>3 DEF FlushInv, SeekIsBarrier, FlushUnderWay
  <2> QED
    BY <2>4, <2>5, <2>6 DEF FlushInv
<1>7. ReadyInv'
  BY <1>0, <1>1, ReadyKept DEF esOut, media, loop
<1> QED
  BY <1>4, <1>5, <1>6, <1>7 DEF IInv

LEMMA AcknowledgeKeeps ==
    ASSUME IInv, NEW e \in Es, BlockDone(e), Acknowledges(e)
    PROVE  IInv'
<1> DEFINE p == [owner[e] EXCEPT !.flushing = FALSE]
<1>0. TypeOK /\ SomethingLeft /\ FlushInv /\ ReadyInv
  BY DEF IInv
<1>1. /\ thread[e] = "decode" /\ block[e] = "flush"
      /\ owner' = [owner EXCEPT ![e] = p]
      /\ asleep' = (asleep /\ cur # e)
      /\ thread' = [thread EXCEPT ![e] = "get"]
      /\ UNCHANGED <<esOut, input, op, todo, cur, pipe, block, stale, left, was_paused>>
  BY DEF BlockDone, Acknowledges, SignalAcknowledge
<1>2. owner[e] \in Flags /\ p \in Flags /\ p.ignore = owner[e].ignore /\ p.waiting = owner[e].waiting
      /\ p.has_data = owner[e].has_data
  BY <1>0 DEF TypeOK, Flags
<1> HIDE DEF p
<1>3. TypeOK'
  <2>1. owner' \in [Es -> Flags] /\ \A d \in Es : owner'[d].ignore <= steps
    BY <1>0, <1>1, <1>2 DEF TypeOK
  <2>2. thread' \in [Es -> Places]
    BY <1>0, <1>1 DEF TypeOK, Places, Loop
  <2> QED
    BY <1>0, <1>1, <2>1, <2>2 DEF TypeOK, esOut, media, pipe
<1>4. SomethingLeft'
  <2>1. "get" \notin Playing
    BY DEF Playing
  <2> QED
    BY <1>0, <1>1, <2>1 DEF SomethingLeft, TypeOK
<1>5. FlushInv'
  <2>1. HandlesFlush(e)
    BY <1>1 DEF HandlesFlush, Busy
  <2>2. fifo[e] \in Seq({"data", "eos"}) /\ fifo' = fifo
    BY <1>0, <1>1, <2>1 DEF FlushInv, FlushQueued, pipe
  <2>3. thread'[e] = "get" /\ ~HandlesFlush(e)'
    BY <1>0, <1>1 DEF TypeOK, HandlesFlush, Busy
  <2>4. \A d \in Es : d # e => /\ HandlesFlush(d)' <=> HandlesFlush(d)
                               /\ FlushUnderWay(d)' <=> FlushUnderWay(d)
                               /\ stale'[d] = stale[d] /\ thread'[d] = thread[d]
                               /\ owner'[d] = owner[d]
    BY <1>0, <1>1 DEF HandlesFlush, Busy, FlushUnderWay, TypeOK
  <2>5. FlushQueued' /\ FlushHandled'
    BY <1>0, <2>2, <2>3, <2>4 DEF FlushInv, FlushQueued, FlushHandled
  <2>6. SeekIsBarrier'
    BY <1>0, <2>3, <2>4 DEF FlushInv, SeekIsBarrier
  <2> QED
    BY <2>5, <2>6 DEF FlushInv
<1>6. ReadyInv'
  <2>1. \A d \in Es : /\ owner'[d].waiting => owner[d].waiting
                      /\ owner[d].has_data => owner'[d].has_data
    BY <1>0, <1>1, <1>2 DEF TypeOK
  <2> QED
    BY <1>0, <1>1, <2>1, ReadyKept DEF esOut, media
<1> QED
  BY <1>3, <1>4, <1>5, <1>6 DEF IInv

LEMMA ThreadKeeps ==
    ASSUME IInv, NEW e \in Es, DecoderThread(e) \/ Spurious(e)
    PROVE  IInv'
<1>1. TypeOK /\ SomethingLeft
  BY DEF IInv
<1>2. CASE Get(e)
  BY <1>2, GetKeeps
<1>3. CASE BlockDone(e) /\ Acknowledges(e)
  BY <1>3, AcknowledgeKeeps
<1>4. CASE ~Get(e) /\ ~(BlockDone(e) /\ Acknowledges(e))
  <2>1. Works(e)
    BY <1>1, <1>4, ThreadWorks
  <2> QED
    BY <2>1, WorksKeeps
<1> QED
  BY <1>2, <1>3, <1>4
-----------------------------------------------------------------------------
(* The steps of the input thread preserve the invariant                      *)

\* Out of DecoderFlush no flush block is queued or handled.
LEMMA FlushKept ==
    ASSUME TypeOK, FlushInv, input # "flush",
           \A d \in Es : fifo[d] \in Seq({"data", "eos"}) => fifo'[d] \in Seq({"data", "eos"}),
           \A d \in Es : \/ thread'[d] \in {"get", "ended"}
                         \/ /\ thread[d] \notin {"get", "ended"}
                            /\ thread'[d] # "none" => thread[d] # "none"
                            /\ block'[d] = block[d] /\ stale'[d] = stale[d]
                            /\ owner[d].flushing => owner'[d].flushing
    PROVE  FlushInv'
<1>1. \A d \in Es : fifo[d] \in Seq({"data", "eos"}) /\ ~HandlesFlush(d)
  BY DEF FlushInv, FlushQueued, FlushHandled, FlushUnderWay
<1>2. \A d \in Es : ~HandlesFlush(d)'
  BY <1>1 DEF HandlesFlush, Busy
<1>3. SeekIsBarrier'
  BY DEF FlushInv, SeekIsBarrier
<1> QED
  BY <1>1, <1>2, <1>3 DEF FlushInv, FlushQueued, FlushHandled

LEMMA QuietKeeps ==
    ASSUME IInv, input # "flush", TypeOK', ReadyInv', UNCHANGED <<owner, fifo, worker>>
    PROVE  IInv'
<1>1. UNCHANGED <<owner, fifo, thread, block, stale, left>>
  BY DEF worker
<1>2. FlushInv'
  BY <1>1, FlushKept DEF IInv
<1>3. SomethingLeft'
  BY <1>1 DEF IInv, SomethingLeft
<1> QED
  BY <1>2, <1>3 DEF IInv

LEMMA SignalKeeps ==
    ASSUME IInv, input # "flush", TypeOK', ReadyInv', NEW e \in Es,
           SignalRequest(e), UNCHANGED <<fifo, block, stale, left>>,
           \A d \in Es : owner[d].flushing => owner'[d].flushing
    PROVE  IInv'
<1>1. /\ \A d \in Es : d # e => thread'[d] = thread[d]
      /\ \/ thread'[e] = thread[e]
         \/ thread[e] = "blocked" /\ thread'[e] = "unblock"
         \/ thread[e] = "date" /\ thread'[e] = "datecheck"
  BY Signalled DEF IInv
<1>2. \A d \in Es : thread'[d] \in {"get", "ended"} \/
                        /\ thread[d] \notin {"get", "ended"}
                        /\ thread'[d] # "none" => thread[d] # "none"
  BY <1>1
<1>3. FlushInv'
  BY <1>2, FlushKept DEF IInv
<1>4. SomethingLeft'
  BY <1>1 DEF IInv, SomethingLeft, Playing
<1> QED
  BY <1>3, <1>4 DEF IInv

LEMMA OwnerTyped ==
    ASSUME TypeOK, NEW e \in Es, NEW o \in Flags, o.ignore <= steps',
           owner' = [owner EXCEPT ![e] = o], steps' \in Nat, steps' >= steps
    PROVE  owner' \in [Es -> Flags] /\ \A d \in Es : owner'[d].ignore <= steps'
<1>1. owner' \in [Es -> Flags]
  BY DEF TypeOK
<1>2. ASSUME NEW d \in Es PROVE owner'[d].ignore <= steps'
  <2>1. owner[d].ignore \in Int /\ steps \in Int /\ owner[d].ignore <= steps
    BY BoundsAreNat DEF TypeOK, Flags
  <2>2. owner[d].ignore <= steps'
    BY <2>1
  <2> QED
    BY <2>2 DEF TypeOK
<1> QED
  BY <1>1, <1>2

LEMMA SelectKeeps ==
    ASSUME IInv, NEW e \in Es, Select(e)
    PROVE  IInv'
<1>0. TypeOK /\ SomethingLeft /\ FlushInv /\ ReadyInv
  BY DEF IInv
<1>1. NewOwner \in Flags /\ NewOwner.ignore = 0
  BY BoundsAreNat DEF NewOwner, Flags
<1>2. TypeOK'
  <2>1. owner' \in [Es -> Flags] /\ \A d \in Es : owner'[d].ignore <= steps'
    <3>1. steps \in Nat /\ steps' = steps
      BY <1>0, BoundsAreNat DEF TypeOK, Select
    <3>2. NewOwner.ignore <= steps' /\ steps' \in Nat /\ steps' >= steps
      BY <1>1, <3>1
    <3> QED
      BY <1>0, <1>1, <3>2, OwnerTyped DEF Select
  <2>2. thread' \in [Es -> Places]
    BY <1>0 DEF TypeOK, Select, Places, Loop
  <2>3. ops' \in 0..MaxOps
    BY <1>0, BoundsAreNat DEF TypeOK, Select, Request
  <2>4. left' \in [Es -> 0..MaxOut]
    <3>1. 0 \in 0..MaxOut
      BY BoundsAreNat
    <3> QED
      BY <1>0, <3>1 DEF TypeOK, Select
  <2>6. fifo' \in [Es -> Seq(Blocks)]
    BY <1>0 DEF TypeOK, Select
  <2>5. /\ input' \in {"idle", "start", "flush", "waitall", "wait", "stopwait", "pause", "join", "pace"}
        /\ op' \in {"none", "seek", "select", "pause", "resume"} /\ todo' \subseteq Es
    BY <1>0 DEF TypeOK, Select
  <2> QED
    BY <1>0, <2>1, <2>2, <2>3, <2>4, <2>5, <2>6 DEF TypeOK, Select, media
<1>3. FlushInv'
  <2>1. input # "flush"
    BY DEF Select, Request
  <2>2. \A d \in Es : \/ d = e /\ fifo'[d] = <<>> /\ thread'[d] = "get"
                      \/ /\ fifo'[d] = fifo[d] /\ thread'[d] = thread[d] /\ owner'[d] = owner[d]
                         /\ block'[d] = block[d] /\ stale'[d] = stale[d]
    BY <1>0 DEF Select, TypeOK
  <2>3. \A d \in Es : \/ thread'[d] \in {"get", "ended"}
                      \/ /\ thread[d] \notin {"get", "ended"}
                         /\ thread'[d] # "none" => thread[d] # "none"
                         /\ block'[d] = block[d] /\ stale'[d] = stale[d]
                         /\ owner[d].flushing => owner'[d].flushing
    BY <2>2
  <2>4. \A d \in Es : fifo[d] \in Seq({"data", "eos"}) => fifo'[d] \in Seq({"data", "eos"})
    <3>1. <<>> \in Seq({"data", "eos"})
      OBVIOUS
    <3> QED
      BY <2>2, <3>1, Zenon
  <2> QED
    BY <1>0, <2>1, <2>3, <2>4, FlushKept
<1>4. SomethingLeft'
  <2>1. "get" \notin Playing
    BY DEF Playing
  <2> QED
    BY <1>0, <2>1 DEF SomethingLeft, TypeOK, Select
<1>5. ReadyInv'
  BY DEF Select, Request, ReadyInv, PassedAreReady, ReadyTogether
<1> QED
  BY <1>2, <1>3, <1>4, <1>5 DEF IInv

LEMMA UnselectKeeps ==
    ASSUME IInv, NEW e \in Es, Unselect(e)
    PROVE  IInv'
<1>0. TypeOK /\ input = "idle"
  BY DEF IInv, Unselect, Request
<1>1. /\ Released(owner[e]) \in Flags /\ Released(owner[e]).ignore = owner[e].ignore
      /\ Released(owner[e]).flushing
  BY <1>0 DEF TypeOK, Released, Flags
<1>2. owner' = [owner EXCEPT ![e] = Released(owner[e])] /\ UNCHANGED steps
  BY DEF Unselect
<1> HIDE DEF Released
<1>3. TypeOK'
  <2>1. owner' \in [Es -> Flags] /\ \A d \in Es : owner'[d].ignore <= steps'
    <3>1. steps \in Nat
      BY <1>0, BoundsAreNat DEF TypeOK
    <3>2. owner[e].ignore <= steps
      BY <1>0 DEF TypeOK
    <3>3. Released(owner[e]).ignore <= steps' /\ steps' \in Nat /\ steps' >= steps
      BY <1>1, <1>2, <3>1, <3>2
    <3> QED
      BY <1>0, <1>1, <1>2, <3>3, OwnerTyped
  <2>2. thread' \in [Es -> Places]
    BY <1>0, Signalled DEF Unselect
  <2>3. ops' \in 0..MaxOps
    BY <1>0, BoundsAreNat DEF TypeOK, Unselect, Request
  <2> QED
    BY <1>0, <2>1, <2>2, <2>3 DEF TypeOK, Unselect, media
<1>4. ReadyInv'
  BY <1>0 DEF Unselect, ReadyInv, PassedAreReady, ReadyTogether
<1>5. \A d \in Es : owner[d].flushing => owner'[d].flushing
  BY <1>0, <1>1, <1>2 DEF TypeOK
<1> QED
  BY <1>0, <1>3, <1>4, <1>5, SignalKeeps DEF Unselect
\* The steps that change neither the decoders nor their FIFOs, but in the
\* buffering of the input.
LEMMA LoopsKeep ==
    ASSUME IInv, Join \/ ChangePosition \/ AllStarted \/ ChangePause \/ LoopEnds
    PROVE  IInv'
<1>0. TypeOK /\ input \in {"idle", "start", "join", "stopwait", "pause"}
  BY DEF IInv, Join, ChangePosition, AllStarted, ChangePause, LoopEnds, Request
<1>1. ops' \in 0..MaxOps
  BY <1>0, BoundsAreNat
     DEF TypeOK, Request, Join, ChangePosition, AllStarted, ChangePause, LoopEnds, esOut
<1>2. UNCHANGED <<media, sent, steps, cur, asleep, owner, pipe, worker>>
  BY DEF Join, ChangePosition, AllStarted, ChangePause, LoopEnds, esOut
<1>3. /\ b_buffering' \in BOOLEAN /\ b_paused' \in BOOLEAN /\ extra' \in BOOLEAN /\ b_eof' \in BOOLEAN
      /\ input' \in {"idle", "start", "pause"}
      /\ op' \in {"none", "seek", "select", "pause", "resume"}
  BY <1>0 DEF TypeOK, Join, ChangePosition, AllStarted, ChangePause, LoopEnds, esOut
<1>4. selected' \subseteq Es /\ todo' \subseteq Es
  BY <1>0 DEF TypeOK, Join, ChangePosition, AllStarted, ChangePause, LoopEnds, esOut
<1>5. TypeOK'
  BY <1>0, <1>1, <1>2, <1>3, <1>4 DEF TypeOK, media, pipe, worker
<1>6. ReadyInv'
  BY <1>3 DEF ReadyInv, PassedAreReady, ReadyTogether
<1> QED
  BY <1>0, <1>2, <1>5, <1>6, QuietKeeps DEF pipe

LEMMA WaitForTyped ==
    ASSUME TypeOK, NEW e \in Es, NEW rest, rest \subseteq Es, WaitFor(e, rest)
    PROVE  TypeOK'
<1>1. /\ b_force_wake' \in [Es -> BOOLEAN] /\ asleep' \in BOOLEAN
      /\ input' \in {"wait", "waitall"}
      /\ todo' \subseteq Es /\ cur' \in Es
      /\ UNCHANGED <<esOut, op, owner, fifo, cancelled, worker>>
  BY DEF TypeOK, WaitFor
<1> QED
  BY <1>1 DEF TypeOK, esOut, media, worker

\* The loop of input_DecoderWait goes on or waits, and passes no decoder that is
\* not ready.
LEMMA WaitForKeeps ==
    ASSUME IInv, input # "flush", NEW e \in Es, NEW rest, rest \subseteq Es, WaitFor(e, rest),
           \A d \in selected : cat[d] # "spu" /\ d \notin rest /\ d # e
                                   => owner[d].has_data \/ ~owner[d].waiting
    PROVE  IInv'
<1>1. TypeOK'
  BY WaitForTyped DEF IInv
<1>2. /\ todo' = rest /\ cur' = e /\ UNCHANGED <<esOut, owner, fifo, worker>>
      /\ \/ input' = "wait"
         \/ input' = "waitall" /\ (owner[e].has_data \/ ~owner[e].waiting)
  BY DEF WaitFor, MustWait
<1>3. ReadyInv'
  BY <1>2 DEF ReadyInv, PassedAreReady, ReadyTogether, esOut, media
<1> QED
  BY <1>1, <1>2, <1>3, QuietKeeps

LEMMA BufferingKeeps ==
    ASSUME IInv, StopBuffering \/ AllReady \/ WaitAgain \/ \E e \in Es : Wait(e)
    PROVE  IInv'
<1>0. TypeOK /\ ReadyInv
  BY DEF IInv
<1>1. CASE StopBuffering
  <2>1. /\ b_buffering' = FALSE
        /\ \/ UNCHANGED <<input, todo>> /\ input = "idle"
           \/ input = "idle" /\ input' = "waitall" /\ todo' = {e \in selected : cat[e] # "spu"}
        /\ UNCHANGED <<media, b_paused, extra, b_eof, selected, sent, steps, ops, op, cur, asleep,
                       owner, pipe, worker>>
    BY <1>1 DEF StopBuffering, Demuxing, PollingEmpty
  <2>2. TypeOK'
    BY <1>0, <2>1 DEF TypeOK, media, pipe, worker
  <2>3. ReadyInv'
    BY <2>1 DEF ReadyInv, PassedAreReady, ReadyTogether, media
  <2> QED
    BY <2>1, <2>2, <2>3, QuietKeeps DEF pipe
<1>2. CASE AllReady
  <2>1. /\ input = "waitall" /\ todo = {} /\ input' = "stopwait" /\ todo' = selected
        /\ UNCHANGED <<esOut, op, cur, asleep, owner, pipe, worker>>
    BY <1>2 DEF AllReady
  <2>2. TypeOK'
    BY <1>0, <2>1 DEF TypeOK, esOut, media, pipe, worker
  <2>3. ReadyInv'
    BY <1>0, <2>1 DEF ReadyInv, PassedAreReady, ReadyTogether, esOut, media
  <2> QED
    BY <2>1, <2>2, <2>3, QuietKeeps DEF pipe
<1>3. CASE WaitAgain
  <2>1. input = "wait" /\ WaitFor(cur, todo) /\ cur \in Es /\ todo \subseteq Es
    BY <1>0, <1>3 DEF WaitAgain, TypeOK
  <2>2. \A d \in selected : cat[d] # "spu" /\ d \notin todo /\ d # cur
                                => owner[d].has_data \/ ~owner[d].waiting
    BY <1>0, <2>1 DEF ReadyInv, PassedAreReady
  <2> QED
    BY <2>1, <2>2, WaitForKeeps
<1>4. CASE \E e \in Es : Wait(e)
  <2>1. PICK e \in Es : Wait(e)
    BY <1>4
  <2>2. input = "waitall" /\ WaitFor(e, todo \ {e}) /\ todo \ {e} \subseteq Es
    BY <1>0, <2>1 DEF Wait, TypeOK
  <2>3. \A d \in selected : cat[d] # "spu" /\ d \notin todo \ {e} /\ d # e
                                => owner[d].has_data \/ ~owner[d].waiting
    BY <1>0, <2>2 DEF ReadyInv, PassedAreReady
  <2> QED
    BY <2>2, <2>3, WaitForKeeps
<1> QED
  BY <1>1, <1>2, <1>3, <1>4
\* The steps that change the flags of one decoder and signal its thread.
LEMMA FlagsKeep ==
    ASSUME IInv, NEW e \in Es, StopWait(e) \/ PauseDecoder(e) \/ FrameNext(e)
    PROVE  IInv'
<1>0. TypeOK /\ ReadyInv /\ owner[e] \in Flags /\ steps \in Nat
  BY BoundsAreNat DEF IInv, TypeOK
<1>1. CASE StopWait(e)
  <2> DEFINE o == [owner[e] EXCEPT !.waiting = FALSE]
  <2>1. /\ input = "stopwait" /\ todo' = todo \ {e}
        /\ owner' = [owner EXCEPT ![e] = o]
        /\ SignalRequest(e)
        /\ UNCHANGED <<esOut, input, op, cur, asleep, pipe, block, stale, left, was_paused>>
    BY <1>1 DEF StopWait
  <2>2. o \in Flags /\ o.ignore = owner[e].ignore /\ o.flushing = owner[e].flushing
        /\ o.has_data = owner[e].has_data /\ ~o.waiting
    BY <1>0 DEF Flags
  <2> HIDE DEF o
  <2>3. owner' \in [Es -> Flags] /\ \A d \in Es : owner'[d].ignore <= steps'
    <3>1. steps' = steps /\ owner[e].ignore <= steps
      BY <1>0, <2>1 DEF esOut, TypeOK
    <3>2. o.ignore <= steps' /\ steps' \in Nat /\ steps' >= steps
      BY <1>0, <2>2, <3>1
    <3> QED
      BY <1>0, <2>1, <2>2, <3>2, OwnerTyped
  <2>4. thread' \in [Es -> Places]
    BY <1>0, <2>1, Signalled
  <2>5. TypeOK'
    BY <1>0, <2>1, <2>3, <2>4 DEF TypeOK, esOut, media, pipe
  <2>6. \A d \in Es : /\ owner'[d].flushing = owner[d].flushing
                      /\ owner'[d].waiting => owner[d].waiting
                      /\ owner'[d].has_data = owner[d].has_data
    BY <1>0, <2>1, <2>2 DEF TypeOK
  <2>7. ReadyInv'
    <3>1. input' = "stopwait" /\ UNCHANGED <<selected, cat>> /\ selected \subseteq Es
      BY <1>0, <2>1 DEF esOut, media, TypeOK
    <3> QED
      BY <1>0, <2>1, <2>6, <3>1 DEF ReadyInv, PassedAreReady, ReadyTogether
  <2> QED
    BY <2>1, <2>5, <2>6, <2>7, SignalKeeps DEF pipe
<1>2. CASE PauseDecoder(e)
  <2> DEFINE o == [owner[e] EXCEPT !.paused = (op = "pause"), !.ignore = 0]
  <2>1. /\ input = "pause" /\ todo' = todo \ {e}
        /\ UNCHANGED <<esOut, input, op, cur, asleep, pipe, block, stale, left, was_paused>>
        /\ \/ owner' = [owner EXCEPT ![e] = o] /\ SignalRequest(e)
           \/ UNCHANGED <<owner, thread>>
    BY <1>2 DEF PauseDecoder
  <2>2. o \in Flags /\ o.ignore = 0 /\ o.flushing = owner[e].flushing
    <3>1. 0 \in 0..MaxSteps /\ (op = "pause") \in BOOLEAN
      BY BoundsAreNat
    <3> QED
      BY <1>0, <3>1 DEF Flags
  <2> HIDE DEF o
  <2>3. ReadyInv'
    BY <2>1 DEF ReadyInv, PassedAreReady, ReadyTogether
  <2>4. CASE UNCHANGED <<owner, thread>>
    <3>1. TypeOK'
      BY <1>0, <2>1, <2>4 DEF TypeOK, esOut, media, pipe
    <3> QED
      BY <2>1, <2>3, <2>4, <3>1, QuietKeeps DEF pipe, worker
  <2>5. CASE owner' = [owner EXCEPT ![e] = o] /\ SignalRequest(e)
    <3>1. owner' \in [Es -> Flags] /\ \A d \in Es : owner'[d].ignore <= steps'
      <4>1. steps' = steps
        BY <2>1 DEF esOut
      <4>2. o.ignore <= steps' /\ steps' \in Nat /\ steps' >= steps
        BY <1>0, <2>2, <4>1
      <4> QED
        BY <1>0, <2>2, <2>5, <4>2, OwnerTyped
    <3>2. thread' \in [Es -> Places]
      BY <1>0, <2>5, Signalled
    <3>3. TypeOK'
      BY <1>0, <2>1, <3>1, <3>2 DEF TypeOK, esOut, media, pipe
    <3>4. \A d \in Es : owner'[d].flushing = owner[d].flushing
      BY <1>0, <2>2, <2>5 DEF TypeOK
    <3> QED
      BY <2>1, <2>3, <2>5, <3>3, <3>4, SignalKeeps DEF pipe
  <2> QED
    BY <2>1, <2>4, <2>5
<1>3. CASE FrameNext(e)
  <2> DEFINE o == [owner[e] EXCEPT !.ignore = @ + 1]
  <2>1. /\ input = "idle" /\ ops < MaxOps /\ ops' = ops + 1 /\ steps < MaxSteps /\ steps' = steps + 1
        /\ b_buffering' \in BOOLEAN /\ extra' \in BOOLEAN
        /\ UNCHANGED <<media, b_paused, b_eof, selected, sent, loop, pipe, block, stale, left, was_paused>>
        /\ \/ owner' = [owner EXCEPT ![e] = o] /\ SignalRequest(e)
           \/ UNCHANGED <<owner, thread>>
    BY <1>0, <1>3 DEF FrameNext, Request, TypeOK
  <2>2. owner[e].ignore \in Nat /\ owner[e].ignore <= steps
    BY <1>0, BoundsAreNat DEF Flags, TypeOK
  <2>3. owner[e].ignore + 1 \in 0..MaxSteps /\ steps' \in 0..MaxSteps /\ ops' \in 0..MaxOps
    <3>1. steps \in Nat /\ ops \in Nat /\ MaxSteps \in Nat /\ MaxOps \in Nat
      BY <1>0, BoundsAreNat DEF TypeOK
    <3>2. steps' \in 0..MaxSteps /\ ops' \in 0..MaxOps
      BY <2>1, <3>1
    <3>3. owner[e].ignore + 1 <= MaxSteps
      BY <2>1, <2>2, <3>1
    <3> QED
      BY <2>2, <3>2, <3>3, <3>1
  <2>4. o \in Flags /\ o.ignore = owner[e].ignore + 1 /\ o.flushing = owner[e].flushing
    BY <1>0, <2>3 DEF Flags
  <2>5. o.ignore <= steps' /\ steps' \in Nat /\ steps' >= steps
    BY <1>0, <2>1, <2>2, <2>4
  <2> HIDE DEF o
  <2>6. ReadyInv'
    BY <2>1 DEF ReadyInv, PassedAreReady, ReadyTogether, loop
  <2>7. CASE UNCHANGED <<owner, thread>>
    <3>1. \A d \in Es : owner'[d].ignore <= steps'
      <4> SUFFICES ASSUME NEW d \in Es PROVE owner[d].ignore <= steps'
        BY <2>7
      <4>1. owner[d].ignore \in Int /\ owner[d].ignore <= steps
        BY <1>0, BoundsAreNat DEF TypeOK, Flags
      <4> QED
        BY <1>0, <2>5, <4>1
    <3>2. TypeOK'
      BY <1>0, <2>1, <2>3, <2>7, <3>1 DEF TypeOK, media, loop, pipe
    <3> QED
      BY <2>1, <2>6, <2>7, <3>2, QuietKeeps DEF pipe, worker
  <2>8. CASE owner' = [owner EXCEPT ![e] = o] /\ SignalRequest(e)
    <3>1. owner' \in [Es -> Flags] /\ \A d \in Es : owner'[d].ignore <= steps'
      BY <1>0, <2>4, <2>5, <2>8, OwnerTyped
    <3>2. thread' \in [Es -> Places]
      BY <1>0, <2>8, Signalled
    <3>3. TypeOK'
      BY <1>0, <2>1, <2>3, <3>1, <3>2 DEF TypeOK, media, loop, pipe
    <3>4. \A d \in Es : owner'[d].flushing = owner[d].flushing
      BY <1>0, <2>4, <2>8 DEF TypeOK
    <3> QED
      BY <2>1, <2>6, <2>8, <3>3, <3>4, SignalKeeps DEF pipe
  <2> QED
    BY <2>1, <2>7, <2>8
<1> QED
  BY <1>1, <1>2, <1>3

\* The steps that put data into FIFOs.
LEMMA DataKeeps ==
    ASSUME IInv, Paced \/ EndOfStream \/ \E e \in Es : Send(e)
    PROVE  IInv'
<1>0. TypeOK /\ SomethingLeft /\ FlushInv /\ ReadyInv
  BY DEF IInv
<1>1. /\ input \in {"idle", "pace"} /\ input' \in {"idle", "pace"}
      /\ UNCHANGED <<media, b_buffering, b_paused, extra, selected, steps, ops, op, todo, asleep,
                     owner, b_force_wake, cancelled, worker>>
      /\ b_eof' \in BOOLEAN /\ cur' \in Es
  BY <1>0 DEF Paced, EndOfStream, Send, Demuxing, TypeOK, esOut, loop
<1>2. sent' \in 0..MaxBlocks
  BY <1>0, BoundsAreNat DEF Paced, EndOfStream, Send, TypeOK, esOut
<1>3. /\ fifo' \in [Es -> Seq(Blocks)]
      /\ \A d \in Es : fifo[d] \in Seq({"data", "eos"}) => fifo'[d] \in Seq({"data", "eos"})
  <2>1. ASSUME NEW S, {"data", "eos"} \subseteq S, NEW f \in Seq(S), NEW b \in {"data", "eos"}
        PROVE  Append(f, b) \in Seq(S) /\ Put(f, b) \in Seq(S)
    BY <2>1 DEF Put
  <2>2. {"data", "eos"} \subseteq Blocks /\ fifo \in [Es -> Seq(Blocks)] /\ cur \in Es
    BY <1>0 DEF Blocks, TypeOK
  <2>3. CASE Paced
    BY <2>1, <2>2, <2>3 DEF Paced
  <2>4. CASE EndOfStream
    BY <2>1, <2>2, <2>4 DEF EndOfStream
  <2>5. CASE \E e \in Es : Send(e)
    <3>1. PICK e \in Es : Send(e)
      BY <2>5
    <3>2. \/ fifo' = fifo
          \/ fifo' = [fifo EXCEPT ![e] = Append(fifo[e], "data")]
          \/ fifo' = [fifo EXCEPT ![e] = Put(fifo[e], "data")]
      BY <3>1 DEF Send
    <3> QED
      BY <2>1, <2>2, <3>2
  <2> QED
    BY <2>3, <2>4, <2>5
<1>4. TypeOK'
  BY <1>0, <1>1, <1>2, <1>3 DEF TypeOK, media, worker
<1>5. FlushInv'
  BY <1>0, <1>1, <1>3, FlushKept DEF worker
<1>6. SomethingLeft' /\ ReadyInv'
  BY <1>0, <1>1 DEF SomethingLeft, ReadyInv, PassedAreReady, ReadyTogether, worker
<1> QED
  BY <1>4, <1>5, <1>6 DEF IInv
LEMMA StartWaitKeeps ==
    ASSUME IInv, NEW e \in Es, StartWait(e)
    PROVE  IInv'
<1> DEFINE o == [owner[e] EXCEPT !.waiting = FALSE, !.flushing = TRUE]
<1>0. TypeOK /\ SomethingLeft /\ FlushInv /\ ReadyInv /\ owner[e] \in Flags
  BY DEF IInv, TypeOK
<1>1. /\ input = "start" /\ input' = "flush" /\ todo' = todo \ {e} /\ cur' = e
      /\ fifo' = [fifo EXCEPT ![e] = <<"flush">>]
      /\ stale' = [stale EXCEPT ![e] = thread[e] # "get"]
      /\ owner' = [owner EXCEPT ![e] = o]
      /\ UNCHANGED <<esOut, op, asleep, b_force_wake, cancelled, block, left, was_paused>>
  BY DEF StartWait
<1>2. o \in Flags /\ o.ignore = owner[e].ignore /\ o.flushing
  BY <1>0 DEF Flags
<1> HIDE DEF o
<1>3. /\ thread' \in [Es -> Places]
      /\ \A d \in Es : d # e => thread'[d] = thread[d]
      /\ \/ thread'[e] = thread[e]
         \/ thread[e] = "blocked" /\ thread'[e] = "unblock"
         \/ thread[e] = "date" /\ thread'[e] = "datecheck"
  <2>1. SignalRequest(e)
    BY DEF StartWait
  <2> QED
    BY <1>0, <2>1, Signalled
<1>4. TypeOK'
  <2>1. owner' \in [Es -> Flags] /\ \A d \in Es : owner'[d].ignore <= steps'
    <3>1. steps \in Nat /\ owner[e].ignore <= steps /\ steps' = steps
      BY <1>0, <1>1, BoundsAreNat DEF TypeOK, esOut
    <3>2. o.ignore <= steps' /\ steps' \in Nat /\ steps' >= steps
      BY <1>2, <3>1
    <3> QED
      BY <1>0, <1>1, <1>2, <3>2, OwnerTyped
  <2>2. fifo' \in [Es -> Seq(Blocks)] /\ stale' \in [Es -> BOOLEAN]
    <3>1. <<"flush">> \in Seq(Blocks)
      BY DEF Blocks
    <3> QED
      BY <1>0, <1>1, <3>1 DEF TypeOK
  <2> QED
    BY <1>0, <1>1, <1>3, <2>1, <2>2 DEF TypeOK, esOut, media
<1>5. SomethingLeft'
  BY <1>0, <1>1, <1>3 DEF SomethingLeft, Playing
<1>6. FlushInv'
  <2>1. \A d \in Es : fifo[d] \in Seq({"data", "eos"}) /\ ~HandlesFlush(d)
    BY <1>0, <1>1 DEF FlushInv, FlushQueued, FlushHandled, FlushUnderWay
  <2>2. \A d \in Es : ~HandlesFlush(d)'
    BY <1>1, <1>3, <2>1 DEF HandlesFlush, Busy
  <2>3. fifo'[e] = <<"flush">> /\ owner'[e].flushing /\ FlushUnderWay(e)'
    BY <1>0, <1>1, <1>2 DEF TypeOK, FlushUnderWay
  <2>4. \A d \in Es : d # e => fifo'[d] = fifo[d] /\ stale'[d] = stale[d] /\ owner'[d] = owner[d]
    BY <1>0, <1>1 DEF TypeOK
  <2>5. FlushQueued' /\ FlushHandled'
    BY <2>1, <2>2, <2>3, <2>4 DEF FlushQueued, FlushHandled
  <2>6. SeekIsBarrier'
    BY <1>0, <1>3, <2>3, <2>4 DEF FlushInv, SeekIsBarrier
  <2> QED
    BY <2>5, <2>6 DEF FlushInv
<1>7. ReadyInv'
  BY <1>1 DEF ReadyInv, PassedAreReady, ReadyTogether
<1> QED
  BY <1>4, <1>5, <1>6, <1>7 DEF IInv

LEMMA FlushedKeeps ==
    ASSUME IInv, Flushed
    PROVE  IInv'
<1>0. TypeOK /\ SomethingLeft /\ FlushInv /\ ReadyInv /\ owner[cur] \in Flags /\ cur \in Es
      /\ input = "flush"
  BY DEF IInv, TypeOK, Flushed
<1>1. CASE owner[cur].flushing
  <2>1. asleep' = TRUE
        /\ UNCHANGED <<input, owner, thread, esOut, op, todo, cur, pipe, block, stale, left, was_paused>>
    BY <1>1 DEF Flushed
  <2>2. TypeOK'
    BY <1>0, <2>1 DEF TypeOK, esOut, media, pipe
  <2>3. FlushInv' /\ SomethingLeft' /\ ReadyInv'
    BY <1>0, <2>1 DEF FlushInv, FlushQueued, FlushHandled, FlushUnderWay, HandlesFlush, Busy,
                      SeekIsBarrier, SomethingLeft, ReadyInv, PassedAreReady, ReadyTogether, pipe
  <2> QED
    BY <2>2, <2>3 DEF IInv
<1>2. CASE ~owner[cur].flushing
  <2> DEFINE o == [owner[cur] EXCEPT !.first = TRUE, !.has_data = FALSE, !.waiting = TRUE]
  <2>1. /\ owner' = [owner EXCEPT ![cur] = o]
        /\ SignalRequest(cur)
        /\ input' = "start"
        /\ UNCHANGED <<asleep, esOut, op, todo, cur, pipe, block, stale, left, was_paused>>
    BY <1>2 DEF Flushed
  <2>2. o \in Flags /\ o.ignore = owner[cur].ignore /\ o.flushing = owner[cur].flushing
    BY <1>0 DEF Flags
  <2> HIDE DEF o
  <2>3. /\ thread' \in [Es -> Places]
        /\ \A d \in Es : d # cur => thread'[d] = thread[d]
        /\ \/ thread'[cur] = thread[cur]
           \/ thread[cur] = "blocked" /\ thread'[cur] = "unblock"
           \/ thread[cur] = "date" /\ thread'[cur] = "datecheck"
    BY <1>0, <2>1, Signalled
  <2>4. TypeOK'
    <3>1. owner' \in [Es -> Flags] /\ \A d \in Es : owner'[d].ignore <= steps'
      <4>1. steps \in Nat /\ owner[cur].ignore <= steps /\ steps' = steps
        BY <1>0, <2>1, BoundsAreNat DEF TypeOK, esOut
      <4>2. o.ignore <= steps' /\ steps' \in Nat /\ steps' >= steps
        BY <2>2, <4>1
      <4> QED
        BY <1>0, <2>1, <2>2, <4>2, OwnerTyped
    <3> QED
      BY <1>0, <2>1, <2>3, <3>1 DEF TypeOK, esOut, media, pipe
  <2>5. SomethingLeft'
    BY <1>0, <2>1, <2>3 DEF SomethingLeft, Playing
  <2>6. FlushInv'
    <3>1. \A d \in Es : fifo[d] \in Seq({"data", "eos"}) /\ ~HandlesFlush(d)
      BY <1>0, <1>2 DEF FlushInv, FlushQueued, FlushHandled, FlushUnderWay
    <3>2. \A d \in Es : ~HandlesFlush(d)'
      BY <2>1, <2>3, <3>1 DEF HandlesFlush, Busy
    <3>3. \A d \in Es : owner'[d].flushing = owner[d].flushing
      BY <1>0, <2>1, <2>2 DEF TypeOK
    <3>4. SeekIsBarrier'
      BY <1>0, <2>1, <2>3, <3>3 DEF FlushInv, SeekIsBarrier
    <3> QED
      BY <2>1, <3>1, <3>2, <3>4 DEF FlushInv, FlushQueued, FlushHandled, pipe
  <2>7. ReadyInv'
    BY <2>1 DEF ReadyInv, PassedAreReady, ReadyTogether
  <2> QED
    BY <2>4, <2>5, <2>6, <2>7 DEF IInv
<1> QED
  BY <1>1, <1>2

-----------------------------------------------------------------------------
LEMMA InitEstablishes == Init => IInv
<1> SUFFICES ASSUME Init PROVE IInv
  OBVIOUS
<1>1. TypeOK
  <2>1. NewOwner \in Flags /\ NewOwner.ignore = 0
    BY BoundsAreNat DEF NewOwner, Flags
  <2>2. 0 \in 0..MaxBlocks /\ 0 \in 0..MaxSteps /\ 0 \in 0..MaxOps /\ 0 \in 0..MaxOut /\ 0 <= 0
    BY BoundsAreNat
  <2>3. owner \in [Es -> Flags] /\ \A e \in Es : owner[e].ignore <= steps
    BY <2>1, <2>2 DEF Init
  <2>4. thread \in [Es -> Places] /\ fifo \in [Es -> Seq(Blocks)]
    BY DEF Init, Places, Loop
  <2> QED
    BY <2>2, <2>3, <2>4 DEF Init, TypeOK
<1>2. SomethingLeft
  BY DEF Init, SomethingLeft, Playing
<1>3. FlushInv
  BY DEF Init, FlushInv, FlushQueued, FlushHandled, HandlesFlush, Busy, SeekIsBarrier
<1>4. ReadyInv
  BY DEF Init, ReadyInv, PassedAreReady, ReadyTogether
<1> QED
  BY <1>1, <1>2, <1>3, <1>4 DEF IInv

LEMMA StutterKeeps == IInv /\ UNCHANGED vars => IInv'
BY DEF IInv, TypeOK, SomethingLeft, FlushInv, FlushQueued, FlushHandled, FlushUnderWay, HandlesFlush,
       Busy, SeekIsBarrier, ReadyInv, PassedAreReady, ReadyTogether,
       vars, esOut, media, loop, pipe, worker

LEMMA Inductive == IInv /\ [Next]_vars => IInv'
<1> SUFFICES ASSUME IInv, [Next]_vars PROVE IInv'
  OBVIOUS
<1>1. CASE UNCHANGED vars
  BY <1>1, StutterKeeps
<1>2. CASE InputRequests
  BY <1>2, LoopsKeep, BufferingKeeps, DataKeeps, SelectKeeps, UnselectKeeps, FlagsKeep
     DEF InputRequests
<1>3. CASE InputReturning
  BY <1>3, LoopsKeep, BufferingKeeps, DataKeeps, StartWaitKeeps, FlushedKeeps, FlagsKeep
     DEF InputReturning
<1>4. CASE \E e \in Es : DecoderThread(e) \/ Spurious(e)
  BY <1>4, ThreadKeeps
<1> QED
  BY <1>1, <1>2, <1>3, <1>4 DEF Next

LEMMA Invariance == Spec => []IInv
BY InitEstablishes, Inductive, PTL DEF Spec

-----------------------------------------------------------------------------
(* The wait of the decoders ends with the buffering                          *)

\* Before the first frame step es_out owes no extra buffering, and a decoder
\* that waits is one that the input buffers for, or that a loop of the input
\* thread has yet to let go; a loop that makes decoders wait ends in a buffering.
WaitHeld ==
    \A e \in selected : owner[e].waiting =>
        \/ b_buffering \/ input \in {"start", "flush", "waitall", "wait"}
        \/ input = "stopwait" /\ e \in todo
StartBuffers == input \in {"start", "flush"} => b_buffering \/ op = "seek"
WaitInv == steps = 0 => ~extra /\ StartBuffers /\ WaitHeld

LEMMA WaitKept ==
    ASSUME WaitInv, UNCHANGED <<steps, extra, input, op, todo, b_buffering, selected>>,
           \A d \in selected : owner'[d].waiting => owner[d].waiting
    PROVE  WaitInv'
BY DEF WaitInv, StartBuffers, WaitHeld

\* A thread never makes its own decoder wait.
LEMMA ThreadKeepsWait ==
    ASSUME IInv, WaitInv, NEW e \in Es, DecoderThread(e) \/ Spurious(e)
    PROVE  WaitInv'
<1>0. TypeOK /\ SomethingLeft /\ owner \in [Es -> Flags] /\ selected \subseteq Es
  BY DEF IInv, TypeOK
<1>1. CASE Get(e)
  BY <1>1, WaitKept DEF Get, esOut, loop
<1>2. CASE BlockDone(e) /\ Acknowledges(e)
  <2>1. /\ owner' = [owner EXCEPT ![e].flushing = FALSE]
        /\ UNCHANGED <<esOut, input, op, todo>>
    BY <1>2 DEF BlockDone
  <2>2. \A d \in selected : owner'[d].waiting => owner[d].waiting
    BY <1>0, <2>1 DEF Flags
  <2> QED
    BY <2>1, <2>2, WaitKept DEF esOut
<1>3. CASE ~Get(e) /\ ~(BlockDone(e) /\ Acknowledges(e))
  <2>1. Works(e)
    BY <1>0, <1>3, ThreadWorks
  <2>2. PICK p : owner' = [owner EXCEPT ![e] = p] /\ Advances(e, owner[e], p)
    BY <2>1 DEF Works, Moves
  <2>3. \A d \in selected : owner'[d].waiting => owner[d].waiting
    BY <1>0, <2>2 DEF Advances
  <2> QED
    BY <2>1, <2>3, WaitKept DEF Works, esOut
<1> QED
  BY <1>1, <1>2, <1>3

LEMMA RequestsKeepWait ==
    ASSUME IInv, WaitInv, InputRequests
    PROVE  WaitInv'
<1>0. owner \in [Es -> Flags] /\ selected \subseteq Es /\ steps \in Nat
  BY BoundsAreNat DEF IInv, TypeOK
<1>1. CASE ChangePosition
  BY <1>1 DEF ChangePosition, Request, WaitInv, StartBuffers, WaitHeld
<1>2. CASE StopBuffering
  BY <1>2 DEF StopBuffering, Demuxing, PollingEmpty, WaitInv, StartBuffers, WaitHeld
<1>3. CASE ChangePause
  BY <1>3 DEF ChangePause, Request, WaitInv, StartBuffers, WaitHeld
<1>4. CASE EndOfStream
  BY <1>4, WaitKept DEF EndOfStream, loop
<1>5. ASSUME NEW e \in Es, Select(e) PROVE WaitInv'
  <2>1. /\ input = "idle" /\ owner' = [owner EXCEPT ![e] = NewOwner]
        /\ selected' = selected \cup {e}
        /\ UNCHANGED <<steps, extra, b_buffering>>
        /\ IF b_buffering THEN TRUE ELSE UNCHANGED <<input, op, todo>>
    BY <1>5 DEF Select, Request
  <2>2. \A d \in selected' : owner'[d].waiting => d \in selected /\ owner[d].waiting
    BY <1>0, <2>1 DEF NewOwner
  <2> QED
    BY <2>1, <2>2 DEF WaitInv, StartBuffers, WaitHeld
<1>6. ASSUME NEW e \in Es, Unselect(e) PROVE WaitInv'
  <2>1. /\ input = "idle" /\ input' = "join" /\ owner' = [owner EXCEPT ![e] = Released(@)]
        /\ UNCHANGED <<steps, extra, b_buffering, selected>>
    BY <1>6 DEF Unselect, Request
  <2>2. \A d \in selected : owner'[d].waiting => owner[d].waiting
    BY <1>0, <2>1 DEF Flags, Released
  <2> QED
    BY <2>1, <2>2 DEF WaitInv, StartBuffers, WaitHeld
<1>7. ASSUME NEW e \in Es, FrameNext(e) PROVE WaitInv'
  <2>1. steps' = steps + 1
    BY <1>7 DEF FrameNext
  <2> QED
    BY <1>0, <2>1 DEF WaitInv
<1>8. ASSUME NEW e \in Es, Send(e) PROVE WaitInv'
  BY <1>8 DEF Send, Demuxing, WaitInv, StartBuffers, WaitHeld
<1> QED
  BY <1>1, <1>2, <1>3, <1>4, <1>5, <1>6, <1>7, <1>8 DEF InputRequests

LEMMA ReturningKeepsWait ==
    ASSUME IInv, WaitInv, InputReturning
    PROVE  WaitInv'
<1>0. owner \in [Es -> Flags] /\ selected \subseteq Es /\ cur \in Es
  BY DEF IInv, TypeOK
<1>1. CASE Join
  BY <1>1 DEF Join, WaitInv, StartBuffers, WaitHeld
<1>2. CASE Flushed
  <2>1. /\ input = "flush" /\ input' \in {"start", "flush"}
        /\ UNCHANGED <<steps, extra, op, b_buffering, selected>>
    BY <1>2 DEF Flushed, esOut
  <2> QED
    BY <2>1 DEF WaitInv, StartBuffers, WaitHeld
<1>3. CASE AllStarted
  BY <1>3 DEF AllStarted, WaitInv, StartBuffers, WaitHeld
<1>4. ASSUME UNCHANGED <<esOut, owner>>, input \in {"waitall", "wait"}, input' \in {"waitall", "wait"}
      PROVE  WaitInv'
  BY <1>4 DEF WaitInv, StartBuffers, WaitHeld, esOut
<1>5. CASE WaitAgain
  BY <1>4, <1>5 DEF WaitAgain, WaitFor
<1>6. CASE \E e \in Es : Wait(e)
  BY <1>4, <1>6 DEF Wait, WaitFor
<1>7. CASE AllReady
  BY <1>7 DEF AllReady, esOut, WaitInv, StartBuffers, WaitHeld
<1>8. CASE LoopEnds
  BY <1>8 DEF LoopEnds, esOut, WaitInv, StartBuffers, WaitHeld
<1>9. CASE Paced
  BY <1>9 DEF Paced, esOut, WaitInv, StartBuffers, WaitHeld
<1>10. ASSUME NEW e \in Es, StartWait(e) PROVE WaitInv'
  <2>1. input = "start" /\ input' = "flush" /\ UNCHANGED <<steps, extra, op, b_buffering, selected>>
    BY <1>10 DEF StartWait, esOut
  <2> QED
    BY <2>1 DEF WaitInv, StartBuffers, WaitHeld
<1>11. ASSUME NEW e \in Es, StopWait(e) PROVE WaitInv'
  <2>1. /\ input = "stopwait" /\ todo' = todo \ {e}
        /\ owner' = [owner EXCEPT ![e].waiting = FALSE]
        /\ UNCHANGED <<steps, extra, input, b_buffering, selected>>
    BY <1>11 DEF StopWait, esOut
  <2>2. \A d \in selected : owner'[d].waiting => d # e /\ owner[d].waiting
    BY <1>0, <2>1 DEF Flags
  <2> QED
    BY <2>1, <2>2 DEF WaitInv, StartBuffers, WaitHeld
<1>12. ASSUME NEW e \in Es, PauseDecoder(e) PROVE WaitInv'
  <2>1. /\ input = "pause" /\ UNCHANGED <<esOut, input, op>>
        /\ \/ owner' = [owner EXCEPT ![e].paused = (op = "pause"), ![e].ignore = 0]
           \/ owner' = owner
    BY <1>12 DEF PauseDecoder
  <2>2. \A d \in selected : owner'[d].waiting => owner[d].waiting
    BY <1>0, <2>1 DEF Flags
  <2> QED
    BY <2>1, <2>2 DEF WaitInv, StartBuffers, WaitHeld, esOut
<1> QED
  BY <1>1, <1>2, <1>3, <1>5, <1>6, <1>7, <1>8, <1>9, <1>10, <1>11, <1>12 DEF InputReturning

LEMMA WaitInductive == IInv /\ WaitInv /\ [Next]_vars => WaitInv'
<1> SUFFICES ASSUME IInv, WaitInv, [Next]_vars PROVE WaitInv'
  OBVIOUS
<1>1. CASE UNCHANGED vars
  BY <1>1, WaitKept DEF vars, esOut, loop
<1>2. CASE InputRequests
  BY <1>2, RequestsKeepWait
<1>3. CASE InputReturning
  BY <1>3, ReturningKeepsWait
<1>4. CASE \E e \in Es : DecoderThread(e) \/ Spurious(e)
  BY <1>4, ThreadKeepsWait
<1> QED
  BY <1>1, <1>2, <1>3, <1>4 DEF Next

-----------------------------------------------------------------------------
(* The theorems                                                              *)

\* Every variable of the decoders and of the input thread keeps its type, and no
\* decoder has more frame steps to ignore its pause for than were asked.
THEOREM TypeCorrect == Spec => []TypeOK
<1>1. IInv => TypeOK
  BY DEF IInv
<1> QED
  BY <1>1, Invariance, PTL

\* Whatever the streams, the bounds and the requests, a decoder whose flush
\* input_DecoderStartWait has seen acknowledged holds nothing from before it.
THEOREM SeeksAreBarriers == Spec => []SeekIsBarrier
<1>1. IInv => SeekIsBarrier
  BY DEF IInv, FlushInv
<1> QED
  BY <1>1, Invariance, PTL

\* EsOutDecodersStopBuffering lets no decoder go before every stream but the
\* subtitles has data or has ended, whatever their number.
THEOREM StartTogether == Spec => []ReadyTogether
<1>1. IInv => ReadyTogether
  BY DEF IInv, ReadyInv
<1> QED
  BY <1>1, Invariance, PTL

\* Whatever the order of seeks, selections and pauses, and as long as no frame
\* step was asked, es_out leaves no decoder waiting when it neither buffers nor
\* is in one of its loops: input_DecoderIsEmpty may assert it.
THEOREM NobodyLeftWaiting == Spec => []NoneLeftWaiting
<1>1. Init => WaitInv
  BY DEF Init, WaitInv, StartBuffers, WaitHeld
<1>2. WaitInv => NoneLeftWaiting
  BY DEF WaitInv, WaitHeld, NoneLeftWaiting
<1> QED
  BY <1>1, <1>2, WaitInductive, Invariance, PTL DEF Spec
=============================================================================
