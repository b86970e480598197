------------------------ MODULE DecoderOutput_proofs ------------------------
(* Proofs about Decoder, for any streams and bounds: what a decoder may put  *)
(* into its output, and when; and that neither the input thread nor the      *)
(* thread of a decoder sleeps on the other.                                  *)
EXTENDS Decoder_proofs

\* Only the pause of a decoder that plays pictures is ever ignored: no other has a
\* video output.
Stepless(e, o) == Kind(e) # "video" => ~o.vout /\ o.ignore = 0

\* What waits in DecoderWaitUnblock was counted as data, unless it is a first
\* picture or nothing at all.
Counted(e, o) ==
    o.waiting => o.has_data \/ (Kind(e) = "video" /\ o.first) \/ Drains(e)

\* What waits for its date was let through neither by a wait nor, if it is
\* sound, by a pause.
LetThrough(e) ==
    /\ Kind(e) # "video" /\ ~owner[e].waiting
    /\ Kind(e) = "audio" => ~was_paused[e]

InTurn(e) ==
    /\ Stepless(e, owner[e])
    /\ thread[e] \in {"blocked", "unblock"} => Counted(e, owner[e])
    /\ thread[e] \in {"date", "datecheck"} => LetThrough(e)

\* Once the flush is acknowledged, the decoder that input_DecoderStartWait is
\* about to make wait has nothing on its way to the output.
NothingLeftToPlay ==
    input = "flush" =>
        /\ fifo[cur] \in {<<>>, <<"flush">>}
        /\ ~owner[cur].flushing =>
              /\ fifo[cur] = <<>>
              /\ \/ thread[cur] \in {"none", "get", "ended"}
                 \/ block[cur] = "none" /\ thread[cur] \in {"signal", "stopwait"}

OutInv == NothingLeftToPlay /\ \A e \in Es : InTurn(e)

\* The step that puts a picture or sound into the output.
PutInTurn ==
    \A e \in Es : thread[e] # "put" /\ thread'[e] = "put" =>
        /\ owner[e].waiting => Kind(e) = "video" /\ (owner[e].first \/ Stepped(e))
        /\ Kind(e) = "audio" => ~owner[e].paused
        /\ Kind(e) = "video" /\ owner[e].paused =>
               (owner[e].waiting /\ owner[e].first) \/ Stepped(e)

\* A picture or a buffer that passes DecoderWaitUnblock with flags o is a first
\* picture, or is let through by nothing but the pause and the wait, or uses up a
\* step.
PassesInTurn(e, o) ==
    /\ o.waiting => Kind(e) = "video" /\ (o.first \/ owner'[e].ignore = o.ignore - 1)
    /\ Kind(e) = "video" /\ o.paused =>
           (o.waiting /\ o.first) \/ owner'[e].ignore = o.ignore - 1

-----------------------------------------------------------------------------
(* The steps of a decoder thread                                             *)

\* What keeps a decoder in turn whoever changes its flags: it is not made to
\* wait, and what counted as data stays so.
LEMMA StaysInTurn ==
    ASSUME NEW d \in Es, InTurn(d), UNCHANGED media, block'[d] = block[d],
           Stepless(d, owner[d])',
           owner'[d].waiting => /\ owner[d].waiting
                                /\ owner'[d].first = owner[d].first
                                /\ owner'[d].has_data = owner[d].has_data,
           \/ thread'[d] \notin {"blocked", "unblock", "date", "datecheck"}
           \/ was_paused'[d] = was_paused[d] /\ thread'[d] = thread[d]
           \/ was_paused'[d] = was_paused[d] /\ thread[d] = "blocked" /\ thread'[d] = "unblock"
           \/ was_paused'[d] = was_paused[d] /\ thread[d] = "date" /\ thread'[d] = "datecheck"
    PROVE  InTurn(d)'
BY DEF InTurn, Counted, LetThrough, Kind, Drains, media

\* A picture or a buffer that comes with flags o to DecoderWaitUnblock goes on
\* in turn.
LEMMA UnblockInTurn ==
    ASSUME TypeOK, NEW e \in Es, NEW o \in Flags, Stepless(e, o), Counted(e, o),
           Unblock(e, o), UNCHANGED <<media, block>>
    PROVE  /\ Stepless(e, owner[e])' => InTurn(e)'
           /\ thread'[e] # "put" \/ Kind(e) \in {"video", "sout"}
           /\ thread'[e] = "put" => PassesInTurn(e, o)
<1> DEFINE stepped == IF UsesStep(o) THEN [o EXCEPT !.ignore = @ - 1] ELSE o
           shown == IF Kind(e) = "video" /\ o.waiting THEN [stepped EXCEPT !.first = FALSE] ELSE stepped
<1>1. /\ owner \in [Es -> Flags] /\ thread \in [Es -> Places] /\ was_paused \in [Es -> BOOLEAN]
      /\ Kind(e) \in {"sout", "video", "audio", "spu"} /\ (Kind(e) = "sout" <=> sout)
      /\ Kind(e) \in {"audio", "spu"} => cat[e] # "video"
  BY InputsAssumption DEF TypeOK, Kind
<1>2. Kind(e)' = Kind(e) /\ Drains(e)' = Drains(e)
  BY DEF Kind, Drains, media
<1>3. CASE ~MayPass(o)
  <2>1. owner' = [owner EXCEPT ![e] = o] /\ thread' = [thread EXCEPT ![e] = "blocked"]
    BY <1>3 DEF Unblock
  <2>2. owner'[e] = o /\ thread'[e] = "blocked"
    BY <1>1, <2>1
  <2> QED
    BY <1>2, <2>2 DEF InTurn, Counted
<1>4. CASE MayPass(o)
  <2>1. /\ owner' = [owner EXCEPT ![e] = shown]
        /\ was_paused' = [was_paused EXCEPT ![e] = o.paused]
    BY <1>4 DEF Unblock
  <2>2. shown.waiting = o.waiting
    BY DEF Flags
  <2>6. UsesStep(o) => shown.ignore = o.ignore - 1
    BY DEF Flags
  <2> HIDE DEF shown
  <2>3. owner'[e].waiting = o.waiting /\ was_paused'[e] = o.paused
    BY <1>1, <2>1, <2>2
  <2>4. CASE o.flushing \/ (Kind(e) \in {"audio", "spu"} /\ o.exit) \/ Drains(e)
    <3>1. thread'[e] = "decode"
      BY <1>1, <1>4, <2>4 DEF Unblock, Continue
    <3> QED
      BY <3>1 DEF InTurn
  <2>5. CASE ~(o.flushing \/ (Kind(e) \in {"audio", "spu"} /\ o.exit) \/ Drains(e))
    <3>1. thread'[e] = IF Kind(e) \in {"audio", "spu"} THEN "date" ELSE "put"
      BY <1>1, <1>4, <2>5 DEF Unblock
    <3>2. UsesStep(o) => owner'[e].ignore = o.ignore - 1
      BY <1>1, <2>1, <2>6
    <3>3. \/ o.waiting /\ Kind(e) = "video" /\ o.first
          \/ ~o.waiting /\ ~o.paused
          \/ UsesStep(o) /\ o.ignore > 0
      BY <1>4, <2>5 DEF MayPass, Counted, UsesStep
    <3>4. o.ignore > 0 => Kind(e) = "video"
      BY DEF Stepless
    <3>5. Kind(e) \in {"audio", "spu"} => ~o.waiting /\ ~o.paused
      BY <3>3, <3>4
    <3>6. PassesInTurn(e, o)
      BY <3>2, <3>3, <3>4 DEF PassesInTurn
    <3> QED
      BY <1>1, <1>2, <2>3, <3>1, <3>5, <3>6 DEF InTurn, LetThrough
  <2> QED
    BY <2>4, <2>5
<1> QED
  BY <1>3, <1>4

\* A decoder thread changes nothing of the other decoders.
LEMMA OthersKept ==
    ASSUME TypeOK, SomethingLeft, NEW e \in Es, DecoderThread(e) \/ Spurious(e),
           NEW d \in Es, d # e
    PROVE  /\ owner'[d] = owner[d] /\ thread'[d] = thread[d] /\ block'[d] = block[d]
           /\ was_paused'[d] = was_paused[d] /\ fifo'[d] = fifo[d]
<1>0. /\ owner \in [Es -> Flags] /\ thread \in [Es -> Places] /\ was_paused \in [Es -> BOOLEAN]
      /\ fifo \in [Es -> Seq(Blocks)] /\ block \in [Es -> Blocks \cup {"none"}]
  BY DEF TypeOK
<1>1. was_paused'[d] = was_paused[d]
  <2>1. CASE Get(e) \/ Cancelled(e) \/ Signal(e) \/ StopOwnWait(e) \/ BlockDone(e)
    BY <2>1 DEF Get, Cancelled, Signal, StopOwnWait, BlockDone
  <2>2. CASE Decode(e) \/ VideoExit(e) \/ GetPicture(e) \/ NoPicture(e) \/ AllocSignal(e) \/ Output(e)
            \/ Spurious(e)
    BY <2>2 DEF Decode, VideoExit, GetPicture, NoPicture, AllocSignal, Output, Spurious
  <2>3. ASSUME NEW o, Unblock(e, o) PROVE was_paused'[d] = was_paused[d]
    BY <1>0, <2>3 DEF Unblock
  <2>4. CASE Play(e) \/ PlayAgain(e)
    BY <2>3, <2>4 DEF Play, PlayAgain
  <2>5. CASE DateReached(e) \/ DateSignalled(e)
    BY <2>3, <2>5 DEF DateReached, DateSignalled, DateEnds
  <2> QED
    BY <2>1, <2>2, <2>4, <2>5 DEF DecoderThread
<1>2. CASE Get(e)
  BY <1>0, <1>1, <1>2 DEF Get
<1>3. CASE BlockDone(e) /\ Acknowledges(e)
  BY <1>0, <1>1, <1>3 DEF BlockDone, pipe
<1>4. CASE ~Get(e) /\ ~(BlockDone(e) /\ Acknowledges(e))
  <2>1. Works(e) /\ UNCHANGED fifo
    BY <1>4, ThreadWorks
  <2> QED
    BY <1>0, <1>1, <2>1 DEF Works, Moves
<1> QED
  BY <1>2, <1>3, <1>4

\* A thread that works on a block uses frame steps and adds none.
LEMMA WorksStepless ==
    ASSUME TypeOK, NEW e \in Es, Works(e), Stepless(e, owner[e])
    PROVE  Stepless(e, owner[e])' /\ owner'[e] \in Flags
<1>1. PICK p : owner' = [owner EXCEPT ![e] = p] /\ Advances(e, owner[e], p)
  BY DEF Works, Moves
<1>2. owner'[e] = p /\ p \in Flags /\ p.ignore <= owner[e].ignore
  BY <1>1 DEF TypeOK, Advances
<1>3. p.ignore \in Int /\ p.ignore >= 0
  BY <1>2, BoundsAreNat DEF Flags
<1>4. Kind(e)' = Kind(e)
  BY DEF Works, esOut, media, Kind
<1>5. p.vout => owner[e].vout \/ Kind(e) = "video"
  BY <1>1 DEF Advances
<1>6. owner[e].ignore \in Int
  BY BoundsAreNat DEF TypeOK, Flags
<1> QED
  BY <1>2, <1>3, <1>4, <1>5, <1>6 DEF Stepless

\* The steps of a thread that wait neither for its turn nor for a date.
LEMMA QuietInTurn ==
    ASSUME TypeOK, NEW e \in Es, InTurn(e), Works(e),
           thread'[e] \notin {"blocked", "unblock", "date", "datecheck"}
    PROVE  InTurn(e)'
BY WorksStepless DEF InTurn

LEMMA PlayInTurn ==
    ASSUME TypeOK, NEW e \in Es, InTurn(e), Works(e), Play(e) \/ PlayAgain(e)
    PROVE  /\ InTurn(e)'
           /\ thread'[e] # "put" \/ Kind(e) \in {"video", "sout"}
           /\ thread'[e] = "put" => PassesInTurn(e, owner[e])
<1>0. owner[e] \in Flags /\ Stepless(e, owner[e]) /\ Stepless(e, owner[e])' /\ UNCHANGED <<media, block>>
  BY WorksStepless DEF TypeOK, InTurn, Works, esOut
<1>1. CASE Play(e) /\ Counts(e)
  <2> DEFINE o == [owner[e] EXCEPT !.has_data = TRUE]
  <2>1. Unblock(e, o)
    BY <1>1 DEF Play
  <2>2. /\ o \in Flags /\ o.has_data /\ o.ignore = owner[e].ignore /\ o.waiting = owner[e].waiting
        /\ o.first = owner[e].first /\ o.paused = owner[e].paused /\ o.vout = owner[e].vout
    BY <1>0 DEF Flags
  <2> HIDE DEF o
  <2>3. Stepless(e, o) /\ Counted(e, o)
    BY <1>0, <2>2 DEF Stepless, Counted
  <2>4. PassesInTurn(e, o) => PassesInTurn(e, owner[e])
    BY <2>2 DEF PassesInTurn
  <2> QED
    BY <1>0, <2>1, <2>2, <2>3, <2>4, UnblockInTurn
<1>2. CASE Play(e) /\ ~Counts(e)
  <2>1. Unblock(e, owner[e]) /\ Counted(e, owner[e])
    BY <1>2 DEF Play, Counts, Counted
  <2> QED
    BY <1>0, <2>1, UnblockInTurn
<1>3. CASE PlayAgain(e)
  <2>1. Unblock(e, owner[e]) /\ Counted(e, owner[e])
    BY <1>3 DEF PlayAgain, InTurn
  <2> QED
    BY <1>0, <2>1, UnblockInTurn
<1> QED
  BY <1>1, <1>2, <1>3

\* Sound or a subtitle whose date has come.
EndsInTurn(e) ==
    /\ Kind(e) # "video" /\ ~owner[e].waiting
    /\ Kind(e) = "audio" => ~owner[e].paused

LEMMA DateInTurn ==
    ASSUME TypeOK, NEW e \in Es, InTurn(e), Works(e), DateReached(e) \/ DateSignalled(e)
    PROVE  /\ InTurn(e)'
           /\ thread'[e] = "put" => EndsInTurn(e)
<1>0. /\ owner[e] \in Flags /\ Stepless(e, owner[e]) /\ Stepless(e, owner[e])'
      /\ UNCHANGED <<media, block>> /\ thread \in [Es -> Places]
  BY WorksStepless DEF TypeOK, InTurn, Works, esOut
<1>1. thread[e] \in {"date", "datecheck"} /\ LetThrough(e)
  BY DEF DateReached, DateSignalled, InTurn
<1>2. ASSUME Unblock(e, owner[e]), Kind(e) = "audio"
      PROVE  InTurn(e)' /\ thread'[e] # "put"
  <2>1. Counted(e, owner[e])
    BY <1>1 DEF LetThrough, Counted
  <2> QED
    BY <1>0, <1>2, <2>1, UnblockInTurn
<1>3. CASE thread[e] = "datecheck" /\ thread' = [thread EXCEPT ![e] = "date"]
           /\ UNCHANGED <<owner, was_paused>>
  <2>1. thread'[e] = "date"
    BY <1>0, <1>3
  <2> QED
    BY <1>0, <1>1, <1>3, <2>1 DEF InTurn, LetThrough, Kind, media
<1>4. ASSUME NEW reject \in BOOLEAN, DateEnds(e, reject)
      PROVE  /\ InTurn(e)'
             /\ thread'[e] = "put" => EndsInTurn(e)
  <2>1. CASE Kind(e) = "audio" /\ owner[e].paused # was_paused[e]
    BY <1>2, <1>4, <2>1 DEF DateEnds
  <2>2. CASE ~(Kind(e) = "audio" /\ owner[e].paused # was_paused[e])
    <3>1. thread'[e] \in {"decode", "put"}
      BY <1>0, <1>4, <2>2 DEF DateEnds, Continue
    <3> QED
      BY <1>1, <2>2, <3>1, QuietInTurn DEF LetThrough, EndsInTurn
  <2> QED
    BY <2>1, <2>2
<1> QED
  BY <1>3, <1>4 DEF DateReached, DateSignalled

LEMMA ThreadInTurn ==
    ASSUME IInv, OutInv, NEW e \in Es, DecoderThread(e) \/ Spurious(e)
    PROVE  \A d \in Es : InTurn(d)'
<1>0. TypeOK /\ SomethingLeft /\ InTurn(e) /\ owner \in [Es -> Flags] /\ thread \in [Es -> Places]
  BY DEF IInv, TypeOK, OutInv
<1>1. ASSUME NEW d \in Es, d # e PROVE InTurn(d)'
  <2>1. UNCHANGED media
    BY DEF DecoderThread, Get, Cancelled, Signal, StopOwnWait, BlockDone, Decode, VideoExit,
           GetPicture, NoPicture, AllocSignal, Play, PlayAgain, DateReached, DateSignalled, Output,
           Spurious, esOut
  <2>2. owner'[d] = owner[d] /\ thread'[d] = thread[d] /\ block'[d] = block[d]
        /\ was_paused'[d] = was_paused[d]
    BY <1>0, <1>1, OthersKept
  <2>3. Stepless(d, owner[d])'
    BY <2>1, <2>2 DEF OutInv, InTurn, Stepless, Kind, media
  <2> QED
    BY <2>1, <2>2, <2>3, StaysInTurn DEF OutInv
<1>2. CASE Get(e)
  <2>1. thread'[e] = "signal" /\ UNCHANGED <<owner, media>>
    BY <1>0, <1>2 DEF Get, esOut
  <2> QED
    BY <1>0, <1>1, <2>1 DEF InTurn, Stepless, Kind, media
<1>3. CASE BlockDone(e) /\ Acknowledges(e)
  <2>1. /\ owner' = [owner EXCEPT ![e].flushing = FALSE] /\ thread' = [thread EXCEPT ![e] = "get"]
        /\ UNCHANGED media
    BY <1>3 DEF BlockDone, esOut
  <2>2. /\ owner'[e].ignore = owner[e].ignore /\ owner'[e].vout = owner[e].vout
        /\ thread'[e] = "get"
    BY <1>0, <2>1 DEF Flags
  <2> QED
    BY <1>0, <1>1, <2>1, <2>2 DEF InTurn, Stepless, Kind, media
<1>4. CASE ~Get(e) /\ ~(BlockDone(e) /\ Acknowledges(e))
  <2>1. Works(e)
    BY <1>0, <1>4, ThreadWorks
  <2>2. CASE Play(e) \/ PlayAgain(e)
    BY <1>0, <1>1, <2>1, <2>2, PlayInTurn
  <2>3. CASE DateReached(e) \/ DateSignalled(e)
    BY <1>0, <1>1, <2>1, <2>3, DateInTurn
  <2>4. CASE Spurious(e)
    <3>1. /\ thread[e] = "blocked" /\ thread'[e] = "unblock"
          /\ UNCHANGED <<media, owner, block, was_paused>>
      BY <1>0, <2>4 DEF Spurious, esOut
    <3>2. Stepless(e, owner[e])'
      BY <1>0, <2>1, WorksStepless DEF InTurn
    <3> QED
      BY <1>0, <1>1, <3>1, <3>2, StaysInTurn
  <2>5. CASE Cancelled(e) \/ Signal(e) \/ StopOwnWait(e) \/ BlockDone(e)
    <3>1. thread'[e] \in {"ended", "stopwait", "get", "decode"}
      BY <1>0, <2>5 DEF Cancelled, Signal, StopOwnWait, BlockDone, Process
    <3> QED
      BY <1>0, <1>1, <2>1, <3>1, QuietInTurn
  <2>6. CASE Decode(e) \/ VideoExit(e) \/ GetPicture(e) \/ NoPicture(e) \/ AllocSignal(e) \/ Output(e)
    <3>1. thread'[e] \in {"decode", "alloc", "play", "allocsignal"}
      BY <1>0, <2>6 DEF Decode, VideoExit, GetPicture, NoPicture, AllocSignal, Output, Continue
    <3> QED
      BY <1>0, <1>1, <2>1, <3>1, QuietInTurn
  <2> QED
    BY <1>4, <2>2, <2>3, <2>4, <2>5, <2>6 DEF DecoderThread
<1> QED
  BY <1>2, <1>3, <1>4

LEMMA ThreadLeavesNothing ==
    ASSUME IInv, OutInv, NEW e \in Es, DecoderThread(e) \/ Spurious(e)
    PROVE  NothingLeftToPlay'
<1>0. /\ TypeOK /\ SomethingLeft /\ FlushQueued /\ FlushHandled /\ NothingLeftToPlay
      /\ owner \in [Es -> Flags] /\ thread \in [Es -> Places] /\ cur \in Es
      /\ fifo \in [Es -> Seq(Blocks)] /\ block \in [Es -> Blocks \cup {"none"}]
  BY DEF IInv, TypeOK, FlushInv, OutInv
<1> SUFFICES ASSUME input' = "flush" PROVE NothingLeftToPlay'
  BY DEF NothingLeftToPlay
<1>1. UNCHANGED <<input, cur>>
  BY DEF DecoderThread, Get, Cancelled, Signal, StopOwnWait, BlockDone, Decode, VideoExit,
         GetPicture, NoPicture, AllocSignal, Play, PlayAgain, DateReached, DateSignalled, Output,
         Spurious, loop
<1>2. CASE e # cur
  <2>1. owner'[cur] = owner[cur] /\ thread'[cur] = thread[cur] /\ block'[cur] = block[cur]
        /\ fifo'[cur] = fifo[cur]
    BY <1>0, <1>2, OthersKept
  <2> QED
    BY <1>0, <1>1, <2>1 DEF NothingLeftToPlay
<1>3. CASE e = cur /\ Get(e)
  <2>1. /\ owner' = owner /\ thread'[e] = "signal"
        /\ block'[e] = IF fifo[e] = <<>> THEN "none" ELSE Head(fifo[e])
        /\ fifo'[e] = IF fifo[e] = <<>> THEN <<>> ELSE Tail(fifo[e])
    BY <1>0, <1>3 DEF Get
  <2>2. Tail(<<"flush">>) = <<>>
    OBVIOUS
  <2> QED
    BY <1>0, <1>1, <1>3, <2>1, <2>2 DEF NothingLeftToPlay
<1>4. CASE e = cur /\ BlockDone(e) /\ Acknowledges(e)
  <2>1. thread'[e] = "get" /\ fifo' = fifo /\ HandlesFlush(e)
    BY <1>0, <1>4 DEF BlockDone, Acknowledges, HandlesFlush, Busy, pipe
  <2>2. fifo[e] # <<"flush">>
    <3>1. fifo[e] \in Seq({"data", "eos"})
      BY <1>0, <2>1 DEF FlushQueued
    <3>2. ASSUME fifo[e] = <<"flush">> PROVE FALSE
      <4>1. Len(fifo[e]) = 1 /\ fifo[e][1] = "flush"
        BY <3>2
      <4>2. fifo[e][1] \in {"data", "eos"}
        BY <3>1, <4>1
      <4> QED
        BY <4>1, <4>2
    <3> QED
      BY <3>2
  <2> QED
    BY <1>0, <1>1, <1>4, <2>1, <2>2 DEF NothingLeftToPlay
<1>5. CASE e = cur /\ ~Get(e) /\ ~(BlockDone(e) /\ Acknowledges(e))
  <2>1. Works(e) /\ UNCHANGED fifo
    BY <1>0, <1>5, ThreadWorks
  <2>2. owner'[e].flushing = owner[e].flushing /\ block' = block
    BY <1>0, <2>1 DEF Works, Moves, Advances
  <2>3. ASSUME ~owner[e].flushing
        PROVE  \/ thread'[e] \in {"none", "get", "ended"}
               \/ block[e] = "none" /\ thread'[e] \in {"signal", "stopwait"}
    <3>1. \/ thread[e] \in {"none", "get", "ended"}
          \/ block[e] = "none" /\ thread[e] \in {"signal", "stopwait"}
      BY <1>0, <1>1, <1>5, <2>3 DEF NothingLeftToPlay
    <3>2. Cancelled(e) \/ Signal(e) \/ StopOwnWait(e)
      BY <1>5, <3>1 DEF DecoderThread, BlockDone, Decode, VideoExit, GetPicture, NoPicture,
                        AllocSignal, Play, PlayAgain, DateReached, DateSignalled, Output, Spurious
    <3>3. CASE Cancelled(e)
      BY <1>0, <3>3 DEF Cancelled
    <3>4. CASE Signal(e)
      BY <1>0, <3>1, <3>4 DEF Signal, EndWait
    <3>5. CASE StopOwnWait(e)
      BY <1>0, <3>1, <3>5 DEF StopOwnWait, Process
    <3> QED
      BY <3>2, <3>3, <3>4, <3>5
  <2> QED
    BY <1>0, <1>1, <1>5, <2>1, <2>2, <2>3 DEF NothingLeftToPlay
<1> QED
  BY <1>2, <1>3, <1>4, <1>5

-----------------------------------------------------------------------------
(* The steps of the input thread                                             *)

\* What a step of the input thread changes of a decoder: it wakes its thread and
\* sets flags, but makes it wait only once its flush is acknowledged.
LEMMA FlagsInTurn ==
    ASSUME TypeOK, OutInv, NEW e \in Es, NEW o, UNCHANGED <<media, block, was_paused>>,
           owner' = [owner EXCEPT ![e] = o], SignalRequest(e),
           Stepless(e, o),
           o.waiting => owner[e].waiting /\ o.first = owner[e].first /\ o.has_data = owner[e].has_data
    PROVE  \A d \in Es : InTurn(d)'
<1> SUFFICES ASSUME NEW d \in Es PROVE InTurn(d)'
  OBVIOUS
<1>1. owner \in [Es -> Flags] /\ InTurn(d)
  BY DEF TypeOK, OutInv
<1>2. Stepless(d, owner[d])'
  BY <1>1 DEF Stepless, Kind, InTurn, media
<1> QED
  BY <1>1, <1>2, Signalled, StaysInTurn

LEMMA QuietInputInTurn ==
    ASSUME OutInv, UNCHANGED <<media, block, was_paused, owner, thread>>
    PROVE  \A d \in Es : InTurn(d)'
<1> SUFFICES ASSUME NEW d \in Es PROVE InTurn(d)'
  OBVIOUS
<1>1. InTurn(d) /\ Stepless(d, owner[d])'
  BY DEF OutInv, InTurn, Stepless, Kind, media
<1> QED
  BY <1>1, StaysInTurn

LEMMA RequestsInTurn ==
    ASSUME IInv, OutInv, InputRequests
    PROVE  OutInv'
<1>0. TypeOK /\ owner \in [Es -> Flags] /\ thread \in [Es -> Places]
  BY DEF IInv, TypeOK
<1>1. NothingLeftToPlay'
  <2>1. input' # "flush"
    BY DEF InputRequests, ChangePosition, StopBuffering, ChangePause, EndOfStream, Select, Unselect,
           FrameNext, Send, Request, Demuxing, PollingEmpty, loop
  <2> QED
    BY <2>1 DEF NothingLeftToPlay
<1>2. CASE ChangePosition \/ StopBuffering \/ ChangePause \/ EndOfStream \/ \E e \in Es : Send(e)
  <2>1. UNCHANGED <<media, block, was_paused, owner, thread>>
    BY <1>2 DEF ChangePosition, StopBuffering, ChangePause, EndOfStream, Send, worker
  <2> QED
    BY <1>1, <2>1, QuietInputInTurn DEF OutInv
<1>3. ASSUME NEW e \in Es, Select(e) PROVE OutInv'
  <2> SUFFICES ASSUME NEW d \in Es PROVE InTurn(d)'
    BY <1>1 DEF OutInv
  <2>1. /\ owner' = [owner EXCEPT ![e] = NewOwner] /\ thread' = [thread EXCEPT ![e] = "get"]
        /\ block' = [block EXCEPT ![e] = "none"] /\ UNCHANGED <<media, was_paused>>
    BY <1>3 DEF Select
  <2>2. CASE d = e
    <3>1. thread'[d] = "get" /\ owner'[d].ignore = 0 /\ ~owner'[d].vout
      BY <1>0, <2>1, <2>2 DEF NewOwner
    <3> QED
      BY <3>1 DEF InTurn, Stepless
  <2>3. CASE d # e
    <3>1. owner'[d] = owner[d] /\ thread'[d] = thread[d] /\ block'[d] = block[d]
      BY <1>0, <2>1, <2>3 DEF TypeOK
    <3>2. Stepless(d, owner[d])'
      BY <2>1, <3>1 DEF OutInv, InTurn, Stepless, Kind, media
    <3> QED
      BY <2>1, <3>1, <3>2, StaysInTurn DEF OutInv
  <2> QED
    BY <2>2, <2>3
<1>4. ASSUME NEW e \in Es, Unselect(e) PROVE OutInv'
  <2>1. /\ owner' = [owner EXCEPT ![e] = Released(owner[e])] /\ SignalRequest(e)
        /\ UNCHANGED <<media, block, was_paused>>
    BY <1>4 DEF Unselect
  <2>2. /\ ~Released(owner[e]).waiting /\ Released(owner[e]).ignore = owner[e].ignore
        /\ Released(owner[e]).vout = owner[e].vout
    BY <1>0 DEF Released, Flags
  <2>3. Stepless(e, Released(owner[e]))
    BY <2>2 DEF Stepless, OutInv, InTurn
  <2> QED
    BY <1>0, <1>1, <2>1, <2>2, <2>3, FlagsInTurn DEF OutInv
<1>5. ASSUME NEW e \in Es, FrameNext(e) PROVE OutInv'
  <2> DEFINE o == [owner[e] EXCEPT !.ignore = @ + 1]
  <2>1. /\ UNCHANGED <<media, block, was_paused>>
        /\ \/ owner' = [owner EXCEPT ![e] = o] /\ SignalRequest(e) /\ owner[e].vout
           \/ UNCHANGED <<owner, thread>>
    BY <1>5 DEF FrameNext
  <2>2. o.waiting = owner[e].waiting /\ o.first = owner[e].first /\ o.has_data = owner[e].has_data
    BY <1>0 DEF Flags
  <2> HIDE DEF o
  <2>3. owner[e].vout => Stepless(e, o)
    BY DEF Stepless, OutInv, InTurn
  <2> QED
    BY <1>0, <1>1, <2>1, <2>2, <2>3, FlagsInTurn, QuietInputInTurn DEF OutInv
<1> QED
  BY <1>2, <1>3, <1>4, <1>5 DEF InputRequests

\* input_DecoderStartWait makes a decoder wait whose thread is at its next block.
LEMMA FlushedInTurn ==
    ASSUME IInv, OutInv, Flushed
    PROVE  OutInv'
<1>0. TypeOK /\ owner \in [Es -> Flags] /\ thread \in [Es -> Places] /\ cur \in Es
  BY DEF IInv, TypeOK
<1>1. CASE owner[cur].flushing
  <2>1. UNCHANGED <<input, cur, fifo, media, block, was_paused, owner, thread>>
    BY <1>1 DEF Flushed, esOut, pipe
  <2>2. NothingLeftToPlay'
    BY <1>1, <2>1 DEF OutInv, NothingLeftToPlay
  <2> QED
    BY <2>1, <2>2, QuietInputInTurn DEF OutInv
<1>2. CASE ~owner[cur].flushing
  <2> DEFINE o == [owner[cur] EXCEPT !.first = TRUE, !.has_data = FALSE, !.waiting = TRUE]
  <2>1. /\ input = "flush" /\ input' = "start" /\ SignalRequest(cur)
        /\ owner' = [owner EXCEPT ![cur] = o]
        /\ UNCHANGED <<media, block, was_paused>>
    BY <1>2 DEF Flushed, esOut
  <2>2. o.ignore = owner[cur].ignore /\ o.vout = owner[cur].vout
    BY <1>0 DEF Flags
  <2> HIDE DEF o
  <2>3. thread[cur] \in {"none", "get", "ended", "signal", "stopwait"}
    BY <1>2, <2>1 DEF OutInv, NothingLeftToPlay
  <2>4. thread'[cur] = thread[cur] /\ \A d \in Es : d # cur => thread'[d] = thread[d]
    BY <1>0, <2>1, <2>3, Signalled
  <2>5. ASSUME NEW d \in Es, d = cur PROVE InTurn(d)'
    BY <1>0, <2>1, <2>2, <2>3, <2>4, <2>5 DEF OutInv, InTurn, Stepless, Kind, media
  <2>6. ASSUME NEW d \in Es, d # cur PROVE InTurn(d)'
    <3>1. owner'[d] = owner[d] /\ thread'[d] = thread[d] /\ InTurn(d)
      BY <1>0, <2>1, <2>4, <2>6 DEF OutInv
    <3>2. Stepless(d, owner[d])'
      BY <2>1, <3>1 DEF InTurn, Stepless, Kind, media
    <3> QED
      BY <2>1, <3>1, <3>2, StaysInTurn
  <2>7. NothingLeftToPlay'
    BY <2>1 DEF NothingLeftToPlay
  <2> QED
    BY <2>5, <2>6, <2>7 DEF OutInv
<1> QED
  BY <1>1, <1>2

LEMMA StartWaitInTurn ==
    ASSUME IInv, OutInv, NEW e \in Es, StartWait(e)
    PROVE  OutInv'
<1> DEFINE o == [owner[e] EXCEPT !.waiting = FALSE, !.flushing = TRUE]
<1>0. TypeOK /\ owner \in [Es -> Flags] /\ fifo \in [Es -> Seq(Blocks)]
  BY DEF IInv, TypeOK
<1>1. /\ cur' = e /\ fifo' = [fifo EXCEPT ![e] = <<"flush">>]
      /\ owner' = [owner EXCEPT ![e] = o] /\ SignalRequest(e)
      /\ UNCHANGED <<media, block, was_paused>>
  BY DEF StartWait, esOut
<1>2. ~o.waiting /\ o.flushing /\ o.ignore = owner[e].ignore /\ o.vout = owner[e].vout
  BY <1>0 DEF Flags
<1> HIDE DEF o
<1>3. Stepless(e, o)
  BY <1>2 DEF Stepless, OutInv, InTurn
<1>4. NothingLeftToPlay'
  BY <1>0, <1>1, <1>2 DEF NothingLeftToPlay
<1> QED
  BY <1>0, <1>1, <1>2, <1>3, <1>4, FlagsInTurn DEF OutInv

LEMMA ReturningInTurn ==
    ASSUME IInv, OutInv, InputReturning
    PROVE  OutInv'
<1>0. TypeOK /\ owner \in [Es -> Flags]
  BY DEF IInv, TypeOK
<1>1. CASE Join \/ AllStarted \/ WaitAgain \/ AllReady \/ LoopEnds \/ Paced \/ \E e \in Es : Wait(e)
  <2>1. /\ input' # "flush"
        /\ UNCHANGED <<media, block, was_paused, owner, thread>>
    BY <1>1 DEF Join, AllStarted, WaitAgain, AllReady, LoopEnds, Paced, Wait, WaitFor, esOut, worker
  <2> QED
    BY <2>1, QuietInputInTurn DEF OutInv, NothingLeftToPlay
<1>2. ASSUME NEW e \in Es, StopWait(e) PROVE OutInv'
  <2> DEFINE o == [owner[e] EXCEPT !.waiting = FALSE]
  <2>1. /\ input' # "flush" /\ owner' = [owner EXCEPT ![e] = o] /\ SignalRequest(e)
        /\ UNCHANGED <<media, block, was_paused>>
    BY <1>2 DEF StopWait, esOut
  <2>2. ~o.waiting /\ o.ignore = owner[e].ignore /\ o.vout = owner[e].vout
    BY <1>0 DEF Flags
  <2> HIDE DEF o
  <2>3. Stepless(e, o)
    BY <2>2 DEF Stepless, OutInv, InTurn
  <2> QED
    BY <1>0, <2>1, <2>2, <2>3, FlagsInTurn DEF OutInv, NothingLeftToPlay
<1>3. ASSUME NEW e \in Es, PauseDecoder(e) PROVE OutInv'
  <2> DEFINE o == [owner[e] EXCEPT !.paused = (op = "pause"), !.ignore = 0]
  <2>1. /\ input' # "flush" /\ UNCHANGED <<media, block, was_paused>>
        /\ \/ owner' = [owner EXCEPT ![e] = o] /\ SignalRequest(e)
           \/ UNCHANGED <<owner, thread>>
    BY <1>3 DEF PauseDecoder, esOut
  <2>2. /\ o.ignore = 0 /\ o.waiting = owner[e].waiting /\ o.first = owner[e].first
        /\ o.has_data = owner[e].has_data /\ o.vout = owner[e].vout
    BY <1>0 DEF Flags
  <2> HIDE DEF o
  <2>3. Stepless(e, o)
    BY <2>2 DEF Stepless, OutInv, InTurn
  <2> QED
    BY <1>0, <2>1, <2>2, <2>3, FlagsInTurn, QuietInputInTurn DEF OutInv, NothingLeftToPlay
<1> QED
  BY <1>1, <1>2, <1>3, FlushedInTurn, StartWaitInTurn DEF InputReturning

-----------------------------------------------------------------------------
LEMMA OutInit == Init => OutInv
<1> SUFFICES ASSUME Init PROVE OutInv
  OBVIOUS
<1>1. ASSUME NEW e \in Es PROVE InTurn(e)
  <2>1. owner[e].ignore = 0 /\ ~owner[e].vout /\ thread[e] = "none"
    BY DEF Init, NewOwner
  <2> QED
    BY <2>1 DEF InTurn, Stepless
<1>2. NothingLeftToPlay
  BY DEF Init, NothingLeftToPlay
<1> QED
  BY <1>1, <1>2 DEF OutInv

LEMMA OutStep == IInv /\ OutInv /\ [Next]_vars => OutInv'
<1> SUFFICES ASSUME IInv, OutInv, [Next]_vars PROVE OutInv'
  OBVIOUS
<1>1. CASE UNCHANGED vars
  <2>1. UNCHANGED <<input, cur, fifo, media, block, was_paused, owner, thread>>
    BY <1>1 DEF vars, esOut, loop, pipe, worker
  <2>2. NothingLeftToPlay'
    BY <2>1 DEF OutInv, NothingLeftToPlay
  <2> QED
    BY <2>1, <2>2, QuietInputInTurn DEF OutInv
<1>2. CASE \E e \in Es : DecoderThread(e) \/ Spurious(e)
  BY <1>2, ThreadInTurn, ThreadLeavesNothing DEF OutInv
<1> QED
  BY <1>1, <1>2, RequestsInTurn, ReturningInTurn DEF Next

\* Only the thread of a decoder itself brings it to its output.
LEMMA PutByItself ==
    ASSUME TypeOK, SomethingLeft, NEW e \in Es, thread[e] # "put", thread'[e] = "put", [Next]_vars
    PROVE  Play(e) \/ PlayAgain(e) \/ DateReached(e) \/ DateSignalled(e)
<1>0. thread \in [Es -> Places]
  BY DEF TypeOK
<1>1. CASE UNCHANGED vars
  BY <1>1 DEF vars, worker
<1>2. ASSUME NEW d \in Es, SignalRequest(d) PROVE FALSE
  BY <1>2, Signalled
<1>3. CASE InputRequests
  <2>1. \/ UNCHANGED thread \/ \E d \in Es : SignalRequest(d) \/ thread' = [thread EXCEPT ![d] = "get"]
    BY <1>3 DEF InputRequests, ChangePosition, StopBuffering, ChangePause, EndOfStream, Select,
                Unselect, FrameNext, Send, worker
  <2> QED
    BY <1>0, <1>2, <2>1
<1>4. CASE InputReturning
  <2>1. \/ UNCHANGED thread \/ \E d \in Es : SignalRequest(d)
    <3>1. cur \in Es
      BY DEF TypeOK
    <3> QED
      BY <1>4, <3>1 DEF InputReturning, Join, Flushed, AllStarted, WaitAgain, AllReady, LoopEnds, Paced,
                 StartWait, Wait, WaitFor, StopWait, PauseDecoder, worker
  <2> QED
    BY <1>2, <2>1
<1>5. ASSUME NEW d \in Es, DecoderThread(d) \/ Spurious(d)
      PROVE  Play(e) \/ PlayAgain(e) \/ DateReached(e) \/ DateSignalled(e)
  <2>1. d = e
    BY <1>5, OthersKept
  <2>2. CASE Get(e) \/ Cancelled(e) \/ Signal(e) \/ StopOwnWait(e) \/ BlockDone(e) \/ Spurious(e)
    BY <1>0, <2>2 DEF Get, Cancelled, Signal, StopOwnWait, BlockDone, Process, Spurious
  <2>3. CASE Decode(e) \/ VideoExit(e) \/ GetPicture(e) \/ NoPicture(e) \/ AllocSignal(e) \/ Output(e)
    BY <1>0, <2>3 DEF Decode, VideoExit, GetPicture, NoPicture, AllocSignal, Output, Continue
  <2> QED
    BY <1>5, <2>1, <2>2, <2>3 DEF DecoderThread
<1> QED
  BY <1>1, <1>3, <1>4, <1>5 DEF Next

LEMMA StepPutsInTurn == IInv /\ OutInv /\ [Next]_vars => [PutInTurn]_vars
<1> SUFFICES ASSUME IInv, OutInv, [Next]_vars, NEW e \in Es, thread[e] # "put", thread'[e] = "put"
             PROVE  /\ owner[e].waiting => Kind(e) = "video" /\ (owner[e].first \/ Stepped(e))
                    /\ Kind(e) = "audio" => ~owner[e].paused
                    /\ Kind(e) = "video" /\ owner[e].paused =>
                           (owner[e].waiting /\ owner[e].first) \/ Stepped(e)
  BY DEF PutInTurn
<1>1. TypeOK /\ SomethingLeft /\ InTurn(e)
  BY DEF IInv, OutInv
<1>2. Play(e) \/ PlayAgain(e) \/ DateReached(e) \/ DateSignalled(e)
  BY <1>1, PutByItself
<1>3. Works(e)
  <2>1. ~Get(e) /\ ~BlockDone(e)
    BY <1>2 DEF Get, BlockDone, Play, PlayAgain, DateReached, DateSignalled
  <2> QED
    BY <1>1, <1>2, <2>1, ThreadWorks DEF DecoderThread
<1>5. CASE Play(e) \/ PlayAgain(e)
  <2>1. Kind(e) \in {"video", "sout"} /\ PassesInTurn(e, owner[e])
    BY <1>1, <1>3, <1>5, PlayInTurn
  <2> QED
    BY <2>1 DEF PassesInTurn, Stepped
<1>6. CASE DateReached(e) \/ DateSignalled(e)
  BY <1>1, <1>3, <1>6, DateInTurn DEF EndsInTurn
<1> QED
  BY <1>2, <1>5, <1>6

\* Whatever the streams, the bounds and the order of the requests: a decoder that
\* waits puts nothing but a first picture into its output, or one picture for each
\* frame step, and a paused one no picture but these and no sound, which
\* DecoderPlayAudio asserts.
THEOREM OutputsInTurn == Spec => OutputInTurn
<1>1. Spec => [](IInv /\ OutInv)
  BY OutInit, OutStep, Invariance, PTL DEF Spec
<1>2. Spec => [][PutInTurn]_vars
  BY <1>1, StepPutsInTurn, PTL DEF Spec
<1> QED
  BY <1>2, PTL DEF OutputInTurn, PutInTurn

-----------------------------------------------------------------------------
(* Neither the input thread nor a decoder sleeps on the other                *)

\* The loops of the input thread are over decoders that exist.
LoopOnSelected ==
    /\ input \in {"start", "flush", "waitall", "wait", "stopwait", "pause"} => todo \subseteq selected
    /\ input \in {"flush", "wait", "join", "pace"} => cur \in selected
    /\ asleep => input \in {"flush", "wait"}

\* The thread of a selected stream runs until the input thread joins it.
Alive ==
    /\ \A e \in selected : thread[e] # "none" /\ (cancelled[e] => input = "join" /\ cur = e)
    /\ \A e \in Es : thread[e] = "ended" => cancelled[e]

\* No signal is missed: what sleeps in DecoderWaitUnblock may not pass.
BlockedInTurn == \A e \in Es : thread[e] = "blocked" => ~MayPass(owner[e])

\* The flush block the input thread waits for is the next one of the thread, or
\* in its hands; once it is acknowledged the thread has nothing left to do.
FlushAlone ==
    input = "flush" =>
        \/ owner[cur].flushing /\ fifo[cur] = <<"flush">>
        \/ /\ fifo[cur] = <<>> /\ ~b_force_wake[cur]
           /\ IF owner[cur].flushing THEN HandlesFlush(cur) ELSE thread[cur] = "get" /\ ~asleep

\* A decoder the input thread waits for has been woken up, or is about to answer.
WaitAnswered ==
    input = "wait" /\ asleep => MustWait(owner[cur]) /\ (b_force_wake[cur] \/ thread[cur] = "signal")

\* A thread that ends its own wait has answered before.
EndsOwnWait == \A e \in Es : thread[e] = "stopwait" => EndWait(e) /\ ~MustWait(owner[e])

\* What is being joined is neither paused nor waiting.
JoinReleases == input = "join" => cancelled[cur] /\ ~owner[cur].paused /\ ~owner[cur].waiting

SleepInv ==
    /\ LoopOnSelected /\ Alive /\ BlockedInTurn /\ FlushAlone
    /\ WaitAnswered /\ EndsOwnWait /\ JoinReleases

-----------------------------------------------------------------------------
\* What a decoder thread does to its flags and its place, but when it takes a
\* block or acknowledges a flush.
Answers(e) ==
    /\ owner'[e].paused = owner[e].paused
    /\ owner[e].waiting => owner'[e].waiting \/ thread[e] = "stopwait"
    /\ thread[e] = "get" => cancelled[e]
    /\ thread'[e] # "none"
    /\ thread'[e] = "blocked" => ~MayPass(owner'[e])
    /\ thread'[e] = "ended" => cancelled[e]
    /\ thread'[e] = "stopwait" => EndWait(e) /\ ~MustWait(owner'[e])
    /\ asleep' => asleep
    /\ asleep' /\ cur = e /\ MustWait(owner[e]) /\ thread[e] # "stopwait" =>
           MustWait(owner'[e]) /\ thread[e] # "signal"
    /\ HandlesFlush(e) /\ owner[e].flushing => thread'[e] \notin {"none", "get", "ended"}

LEMMA UnblockAnswers ==
    ASSUME TypeOK, NEW e \in Es, NEW o \in Flags, Unblock(e, o)
    PROVE  /\ owner'[e].paused = o.paused /\ owner'[e].waiting = o.waiting
           /\ owner'[e].has_data = o.has_data
           /\ thread'[e] \in {"blocked", "decode", "date", "put"}
           /\ thread'[e] = "blocked" => ~MayPass(owner'[e])
<1> DEFINE stepped == IF UsesStep(o) THEN [o EXCEPT !.ignore = @ - 1] ELSE o
           shown == IF Kind(e) = "video" /\ o.waiting THEN [stepped EXCEPT !.first = FALSE] ELSE stepped
<1>1. owner \in [Es -> Flags] /\ thread \in [Es -> Places]
  BY DEF TypeOK
<1>2. CASE ~MayPass(o)
  <2>1. owner' = [owner EXCEPT ![e] = o] /\ thread' = [thread EXCEPT ![e] = "blocked"]
    BY <1>2 DEF Unblock
  <2> QED
    BY <1>1, <1>2, <2>1
<1>3. CASE MayPass(o)
  <2>1. owner' = [owner EXCEPT ![e] = shown]
    BY <1>3 DEF Unblock
  <2>2. shown.paused = o.paused /\ shown.waiting = o.waiting /\ shown.has_data = o.has_data
    BY DEF Flags
  <2> HIDE DEF shown
  <2>3. \/ thread' = [thread EXCEPT ![e] = "decode"]
        \/ thread' = [thread EXCEPT ![e] = "date"]
        \/ thread' = [thread EXCEPT ![e] = "put"]
    BY <1>3 DEF Unblock, Continue
  <2>4. owner'[e] = shown /\ thread'[e] \in {"decode", "date", "put"}
    BY <1>1, <2>1, <2>3
  <2> QED
    BY <2>2, <2>4
<1> QED
  BY <1>2, <1>3

\* DecoderSignalWait wakes up the input thread whenever it may be waiting.
LEMMA SignalAnswers ==
    ASSUME TypeOK, NEW e \in Es, NEW h \in BOOLEAN, SignalWait(e, h)
    PROVE  /\ owner'[e].paused = owner[e].paused /\ owner'[e].waiting = owner[e].waiting
           /\ asleep' => asleep
           /\ owner[e].waiting => ~(asleep' /\ cur = e)
           /\ h => ~MustWait(owner'[e])
<1>1. owner \in [Es -> Flags] /\ owner[e] \in Flags
  BY DEF TypeOK
<1>2. CASE owner[e].waiting
  <2>1. owner' = [owner EXCEPT ![e].has_data = @ \/ h] /\ asleep' = (asleep /\ cur # e)
    BY <1>2 DEF SignalWait, SignalAcknowledge
  <2>2. owner'[e] = [owner[e] EXCEPT !.has_data = owner[e].has_data \/ h]
    BY <1>1, <2>1
  <2> QED
    BY <1>1, <2>1, <2>2 DEF MustWait, Flags
<1>3. CASE ~owner[e].waiting
  BY <1>3 DEF SignalWait, MustWait
<1> QED
  BY <1>2, <1>3

LEMMA ProcessAnswers ==
    ASSUME TypeOK, NEW e \in Es, Process(e)
    PROVE  thread'[e] = IF block[e] = "none" THEN "get" ELSE "decode"
BY DEF TypeOK, Process

LEMMA ThreadAnswers ==
    ASSUME TypeOK, SomethingLeft, NEW e \in Es, DecoderThread(e) \/ Spurious(e),
           ~Get(e), ~(BlockDone(e) /\ Acknowledges(e))
    PROVE  Answers(e)
<1>0. /\ owner \in [Es -> Flags] /\ owner[e] \in Flags /\ thread \in [Es -> Places]
      /\ block \in [Es -> Blocks \cup {"none"}]
  BY DEF TypeOK
<1>1. CASE Cancelled(e)
  <2>1. thread[e] = "get" /\ cancelled[e] /\ thread'[e] = "ended" /\ UNCHANGED <<owner, asleep>>
    BY <1>0, <1>1 DEF Cancelled, loop
  <2> QED
    BY <2>1 DEF Answers, HandlesFlush, Busy
<1>2. CASE Signal(e)
  <2>1. /\ thread[e] = "signal"
        /\ SignalWait(e, EndWait(e))
        /\ IF EndWait(e) THEN thread' = [thread EXCEPT ![e] = "stopwait"] ELSE Process(e)
    BY <1>2 DEF Signal
  <2>2. EndWait(e) \in BOOLEAN
    BY DEF EndWait
  <2>3. /\ owner'[e].paused = owner[e].paused /\ owner'[e].waiting = owner[e].waiting
        /\ asleep' => asleep
        /\ owner[e].waiting => ~(asleep' /\ cur = e)
        /\ EndWait(e) => ~MustWait(owner'[e])
    BY <2>1, <2>2, SignalAnswers
  <2>4. thread'[e] = IF EndWait(e) THEN "stopwait" ELSE IF block[e] = "none" THEN "get" ELSE "decode"
    BY <1>0, <2>1, ProcessAnswers
  <2> QED
    BY <2>1, <2>3, <2>4 DEF Answers, HandlesFlush, MustWait, EndWait
<1>3. CASE StopOwnWait(e)
  <2>1. /\ thread[e] = "stopwait" /\ owner' = [owner EXCEPT ![e].waiting = FALSE]
        /\ Process(e) /\ asleep' = asleep
    BY <1>3 DEF StopOwnWait, loop
  <2>2. thread'[e] = (IF block[e] = "none" THEN "get" ELSE "decode")
        /\ owner'[e].paused = owner[e].paused
    BY <1>0, <2>1, ProcessAnswers DEF Flags
  <2> QED
    BY <2>1, <2>2 DEF Answers, HandlesFlush
<1>4. CASE BlockDone(e)
  <2>1. /\ thread[e] = "decode" /\ ~Acknowledges(e)
        /\ thread'[e] = "get" /\ UNCHANGED <<owner, asleep>>
    BY <1>0, <1>4 DEF BlockDone
  <2> QED
    BY <2>1 DEF Answers, HandlesFlush, Acknowledges
<1>5. CASE Decode(e)
  <2>1. /\ thread[e] = "decode" /\ owner' = [owner EXCEPT ![e].vout = @ \/ Kind(e) = "video"]
        /\ asleep' = asleep
        /\ \/ thread' = [thread EXCEPT ![e] = "decode"]
           \/ thread' = [thread EXCEPT ![e] = "alloc"]
           \/ thread' = [thread EXCEPT ![e] = "play"]
    BY <1>5 DEF Decode, Continue, loop
  <2>2. /\ thread'[e] \in {"decode", "alloc", "play"}
        /\ owner'[e].paused = owner[e].paused /\ owner'[e].waiting = owner[e].waiting
        /\ owner'[e].has_data = owner[e].has_data
    BY <1>0, <2>1 DEF Flags
  <2> QED
    BY <2>1, <2>2 DEF Answers, MustWait
<1>6. CASE VideoExit(e) \/ GetPicture(e) \/ NoPicture(e) \/ Spurious(e) \/ Output(e)
  <2>1. /\ UNCHANGED <<owner, asleep>> /\ thread[e] \notin {"stopwait", "signal", "get"}
        /\ \/ thread' = [thread EXCEPT ![e] = "decode"]
           \/ thread' = [thread EXCEPT ![e] = "play"]
           \/ thread' = [thread EXCEPT ![e] = "allocsignal"]
           \/ thread' = [thread EXCEPT ![e] = "unblock"]
    BY <1>6 DEF VideoExit, GetPicture, NoPicture, Spurious, Output, Continue, loop
  <2>2. thread'[e] \in {"decode", "play", "allocsignal", "unblock"}
    BY <1>0, <2>1
  <2> QED
    BY <2>1, <2>2 DEF Answers
<1>7. CASE AllocSignal(e)
  <2>1. thread[e] = "allocsignal" /\ SignalWait(e, TRUE) /\ thread'[e] = "alloc"
    BY <1>0, <1>7 DEF AllocSignal
  <2> QED
    BY <2>1, SignalAnswers DEF Answers, MustWait
<1>8. CASE Play(e)
  <2> DEFINE o == [owner[e] EXCEPT !.has_data = TRUE]
  <2>1. o \in Flags /\ o.paused = owner[e].paused /\ o.waiting = owner[e].waiting
    BY <1>0 DEF Flags
  <2>2. /\ thread[e] = "play"
        /\ \/ Unblock(e, o) /\ asleep' = (asleep /\ cur # e) /\ owner[e].waiting
           \/ Unblock(e, owner[e]) /\ asleep' = asleep
    BY <1>8 DEF Play, Counts, SignalAcknowledge
  <2> HIDE DEF o
  <2>3. CASE Unblock(e, o) /\ asleep' = (asleep /\ cur # e) /\ owner[e].waiting
    BY <2>1, <2>2, <2>3, UnblockAnswers DEF Answers
  <2>4. CASE Unblock(e, owner[e]) /\ asleep' = asleep
    BY <1>0, <2>2, <2>4, UnblockAnswers DEF Answers, MustWait
  <2> QED
    BY <2>2, <2>3, <2>4
<1>9. ASSUME Unblock(e, owner[e]), asleep' = asleep, thread[e] \notin {"stopwait", "signal", "get"}
      PROVE  Answers(e)
  BY <1>0, <1>9, UnblockAnswers DEF Answers, MustWait
<1>10. CASE PlayAgain(e)
  BY <1>9, <1>10 DEF PlayAgain, loop
<1>11. CASE DateReached(e) \/ DateSignalled(e)
  <2>1. /\ thread[e] \in {"date", "datecheck"} /\ asleep' = asleep
        /\ \/ Unblock(e, owner[e])
           \/ owner' = owner /\ thread' = [thread EXCEPT ![e] = "decode"]
           \/ owner' = owner /\ thread' = [thread EXCEPT ![e] = "put"]
           \/ owner' = owner /\ thread' = [thread EXCEPT ![e] = "date"]
    BY <1>11 DEF DateReached, DateSignalled, DateEnds, Continue, loop
  <2>2. ASSUME owner' = owner, NEW t \in {"decode", "put", "date"}, thread' = [thread EXCEPT ![e] = t]
        PROVE  Answers(e)
    <3>1. thread'[e] = t
      BY <1>0, <2>2
    <3> QED
      BY <2>1, <2>2, <3>1 DEF Answers
  <2> QED
    BY <1>9, <2>1, <2>2
<1> QED
  BY <1>1, <1>2, <1>3, <1>4, <1>5, <1>6, <1>7, <1>8, <1>10, <1>11 DEF DecoderThread

-----------------------------------------------------------------------------
\* A step of a decoder thread that leaves its FIFO alone and answers.
LEMMA AnswersKeep ==
    ASSUME IInv, SleepInv, NEW e \in Es, Works(e), UNCHANGED fifo, Answers(e),
           owner'[e].flushing = owner[e].flushing,
           \A d \in Es : d # e => owner'[d] = owner[d] /\ thread'[d] = thread[d]
    PROVE  SleepInv'
<1>0. /\ UNCHANGED <<esOut, selected, input, op, todo, cur, fifo, b_force_wake, cancelled, block>>
      /\ cur \in Es /\ selected \subseteq Es
  BY DEF Works, esOut, pipe, IInv, TypeOK
<1>1. LoopOnSelected' /\ Alive' /\ BlockedInTurn' /\ EndsOwnWait'
  <2>1. LoopOnSelected'
    BY <1>0 DEF SleepInv, LoopOnSelected, Answers
  <2>2. Alive'
    BY <1>0 DEF SleepInv, Alive, Answers
  <2>3. BlockedInTurn'
    BY DEF SleepInv, BlockedInTurn, Answers
  <2>4. EndsOwnWait'
    BY <1>0 DEF SleepInv, EndsOwnWait, Answers, EndWait
  <2> QED
    BY <2>1, <2>2, <2>3, <2>4
<1>2. FlushAlone'
  <2> SUFFICES ASSUME input = "flush" PROVE FlushAlone'
    BY <1>0 DEF FlushAlone
  <2>1. owner'[cur].flushing = owner[cur].flushing
    BY <1>0
  <2>2. ASSUME cur = e, thread[cur] = "get", fifo[cur] = <<>>, ~b_force_wake[cur] PROVE FALSE
    <3>1. cur \in selected /\ ~cancelled[cur]
      BY DEF SleepInv, LoopOnSelected, Alive
    <3> QED
      BY <2>2, <3>1 DEF Answers
  <2>3. owner[cur].flushing /\ HandlesFlush(cur) => HandlesFlush(cur)'
    BY <1>0 DEF Answers, HandlesFlush, Busy
  <2> QED
    BY <1>0, <2>1, <2>2, <2>3 DEF SleepInv, FlushAlone, Answers
<1>3. WaitAnswered'
  <2> SUFFICES ASSUME input = "wait", asleep' PROVE WaitAnswered'
    BY <1>0 DEF WaitAnswered
  <2>1. asleep
    BY DEF Answers
  <2>2. MustWait(owner[cur]) /\ (b_force_wake[cur] \/ thread[cur] = "signal") /\ thread[cur] # "stopwait"
    BY <1>0, <2>1 DEF SleepInv, WaitAnswered, EndsOwnWait
  <2>3. CASE cur = e
    BY <1>0, <2>2, <2>3 DEF Answers, WaitAnswered
  <2>4. CASE cur # e
    BY <1>0, <2>2, <2>4 DEF WaitAnswered, MustWait
  <2> QED
    BY <2>3, <2>4
<1>4. JoinReleases'
  <2>1. owner'[cur].paused = owner[cur].paused /\ (owner'[cur].waiting => owner[cur].waiting)
    <3>1. PICK p : owner' = [owner EXCEPT ![e] = p] /\ Advances(e, owner[e], p)
      BY DEF Works, Moves
    <3>2. owner'[e] = p
      BY <3>1 DEF IInv, TypeOK
    <3> QED
      BY <1>0, <3>1, <3>2 DEF Answers, Advances
  <2> QED
    BY <1>0, <2>1 DEF SleepInv, JoinReleases
<1> QED
  BY <1>1, <1>2, <1>3, <1>4 DEF SleepInv

LEMMA GetKeepsSleep ==
    ASSUME IInv, SleepInv, NEW e \in Es, Get(e)
    PROVE  SleepInv'
<1>0. /\ UNCHANGED <<selected, input, op, todo, cur, asleep, cancelled, owner>>
      /\ cur \in Es /\ selected \subseteq Es
      /\ thread[e] = "get" /\ thread' = [thread EXCEPT ![e] = "signal"]
      /\ fifo[e] # <<>> \/ b_force_wake[e]
  BY DEF Get, esOut, loop, IInv, TypeOK
<1>1. /\ thread \in [Es -> Places] /\ block \in [Es -> Blocks \cup {"none"}]
      /\ fifo \in [Es -> Seq(Blocks)] /\ b_force_wake \in [Es -> BOOLEAN]
  BY DEF IInv, TypeOK
<1>2. thread'[e] = "signal" /\ ~b_force_wake'[e]
  BY <1>0, <1>1 DEF Get
<1>3. \A d \in Es : d # e => /\ thread'[d] = thread[d] /\ block'[d] = block[d]
                              /\ fifo'[d] = fifo[d] /\ b_force_wake'[d] = b_force_wake[d]
  BY <1>0, <1>1 DEF Get
<1>4. LoopOnSelected' /\ Alive' /\ BlockedInTurn' /\ EndsOwnWait' /\ JoinReleases'
  <2>1. LoopOnSelected' /\ JoinReleases'
    BY <1>0 DEF SleepInv, LoopOnSelected, JoinReleases
  <2>2. Alive' /\ BlockedInTurn'
    BY <1>0, <1>2, <1>3 DEF SleepInv, Alive, BlockedInTurn
  <2>3. EndsOwnWait'
    BY <1>0, <1>2, <1>3 DEF SleepInv, EndsOwnWait, EndWait
  <2> QED
    BY <2>1, <2>2, <2>3
<1>5. FlushAlone'
  <2> SUFFICES ASSUME input = "flush" PROVE FlushAlone'
    BY <1>0 DEF FlushAlone
  <2>1. CASE cur # e
    BY <1>0, <1>3, <2>1 DEF SleepInv, FlushAlone, HandlesFlush, Busy
  <2>2. CASE cur = e
    <3>1. owner[e].flushing /\ fifo[e] = <<"flush">>
      BY <1>0, <2>2 DEF SleepInv, FlushAlone, HandlesFlush, Busy
    <3>2. fifo'[e] = <<>> /\ block'[e] = "flush"
      BY <1>1, <3>1 DEF Get
    <3> QED
      BY <1>0, <1>2, <2>2, <3>1, <3>2 DEF FlushAlone, HandlesFlush, Busy
  <2> QED
    BY <2>1, <2>2
<1>6. WaitAnswered'
  BY <1>0, <1>2, <1>3 DEF SleepInv, WaitAnswered, MustWait
<1> QED
  BY <1>4, <1>5, <1>6 DEF SleepInv

LEMMA AcknowledgeKeepsSleep ==
    ASSUME IInv, SleepInv, NEW e \in Es, BlockDone(e), Acknowledges(e)
    PROVE  SleepInv'
<1>0. /\ UNCHANGED <<selected, input, op, todo, cur, fifo, b_force_wake, cancelled, block>>
      /\ cur \in Es /\ selected \subseteq Es
      /\ thread[e] = "decode" /\ block[e] = "flush"
      /\ owner' = [owner EXCEPT ![e].flushing = FALSE]
      /\ thread' = [thread EXCEPT ![e] = "get"]
      /\ asleep' = (asleep /\ cur # e)
  BY DEF BlockDone, Acknowledges, SignalAcknowledge, esOut, pipe, IInv, TypeOK
<1>1. owner \in [Es -> Flags] /\ thread \in [Es -> Places]
  BY DEF IInv, TypeOK
<1>2. \A d \in Es : d # e => thread'[d] = thread[d] /\ owner'[d] = owner[d]
  BY <1>0, <1>1
<1>3. /\ thread'[e] = "get" /\ ~owner'[e].flushing
      /\ owner'[e].paused = owner[e].paused /\ owner'[e].waiting = owner[e].waiting
      /\ owner'[e].has_data = owner[e].has_data
  BY <1>0, <1>1 DEF Flags
<1>4. input = "flush" /\ cur = e
  <2>1. HandlesFlush(e)
    BY <1>0 DEF HandlesFlush, Busy
  <2> QED
    BY <2>1 DEF IInv, FlushInv, FlushHandled, FlushUnderWay
<1>5. LoopOnSelected' /\ Alive' /\ BlockedInTurn' /\ EndsOwnWait'
  <2>1. LoopOnSelected'
    BY <1>0 DEF SleepInv, LoopOnSelected
  <2>2. Alive' /\ BlockedInTurn'
    BY <1>0, <1>2, <1>3 DEF SleepInv, Alive, BlockedInTurn
  <2>3. EndsOwnWait'
    BY <1>0, <1>2, <1>3 DEF SleepInv, EndsOwnWait, EndWait, MustWait
  <2> QED
    BY <2>1, <2>2, <2>3
<1>6. FlushAlone'
  <2>1. fifo[e] # <<"flush">>
    <3>1. fifo[e] \in Seq({"data", "eos"}) \/ ~HandlesFlush(e)
      BY DEF IInv, FlushInv, FlushQueued
    <3>2. <<"flush">>[1] = "flush" /\ Len(<<"flush">>) = 1
      OBVIOUS
    <3>3. HandlesFlush(e)
      BY <1>0 DEF HandlesFlush, Busy
    <3> QED
      BY <3>1, <3>2, <3>3
  <2>2. fifo[e] = <<>> /\ ~b_force_wake[e]
    BY <1>4, <2>1 DEF SleepInv, FlushAlone
  <2> QED
    BY <1>0, <1>3, <1>4, <2>2 DEF FlushAlone
<1>7. WaitAnswered' /\ JoinReleases'
  BY <1>0, <1>4 DEF WaitAnswered, JoinReleases
<1> QED
  BY <1>5, <1>6, <1>7 DEF SleepInv

LEMMA ThreadKeepsSleep ==
    ASSUME IInv, SleepInv, NEW e \in Es, DecoderThread(e) \/ Spurious(e)
    PROVE  SleepInv'
<1>1. TypeOK /\ SomethingLeft
  BY DEF IInv
<1>2. CASE Get(e)
  BY <1>2, GetKeepsSleep
<1>3. CASE BlockDone(e) /\ Acknowledges(e)
  BY <1>3, AcknowledgeKeepsSleep
<1>4. CASE ~Get(e) /\ ~(BlockDone(e) /\ Acknowledges(e))
  <2>1. Works(e) /\ UNCHANGED fifo /\ Answers(e)
    BY <1>1, <1>4, ThreadWorks, ThreadAnswers
  <2>2. owner'[e].flushing = owner[e].flushing
    <3>1. PICK p : owner' = [owner EXCEPT ![e] = p] /\ Advances(e, owner[e], p)
      BY <2>1 DEF Works, Moves
    <3> QED
      BY <1>1, <3>1 DEF TypeOK, Advances
  <2>3. \A d \in Es : d # e => owner'[d] = owner[d] /\ thread'[d] = thread[d]
    BY <1>1, OthersKept
  <2> QED
    BY <2>1, <2>2, <2>3, AnswersKeep
<1> QED
  BY <1>2, <1>3, <1>4

-----------------------------------------------------------------------------
\* A signal leaves nobody asleep in DecoderWaitUnblock.
LEMMA SignalWakes ==
    ASSUME TypeOK, NEW e \in Es, SignalRequest(e)
    PROVE  /\ \A d \in Es : d # e => thread'[d] = thread[d]
           /\ thread'[e] # "blocked"
           /\ thread'[e] = thread[e] \/ thread'[e] \in {"unblock", "datecheck"}
<1>1. thread \in [Es -> Places]
  BY DEF TypeOK
<1>2. CASE thread[e] = "blocked"
  <2>1. thread' = [thread EXCEPT ![e] = "unblock"]
    BY <1>2 DEF SignalRequest
  <2> QED
    BY <1>1, <2>1
<1>3. CASE thread[e] = "date"
  <2>1. thread' = [thread EXCEPT ![e] = "datecheck"]
    BY <1>3 DEF SignalRequest
  <2> QED
    BY <1>1, <2>1
<1>4. CASE thread[e] \notin {"blocked", "date"}
  <2>1. thread' = [thread EXCEPT ![e] = thread[e]]
    BY <1>4 DEF SignalRequest
  <2> QED
    BY <1>1, <1>4, <2>1
<1> QED
  BY <1>2, <1>3, <1>4

\* The input thread changes the flags of a decoder that waits for them only with
\* a signal, and lets go those that end their own wait.
LEMMA FlagsKeepSleep ==
    ASSUME SleepInv,
           \A d \in Es :
               \/ /\ owner'[d] = owner[d] /\ thread'[d] = thread[d] /\ block'[d] = block[d]
               \/ thread'[d] \notin {"blocked", "stopwait"}
               \/ /\ thread[d] = "stopwait" /\ thread'[d] = "stopwait" /\ block'[d] = block[d]
                  /\ owner'[d].has_data = owner[d].has_data
                  /\ owner'[d].waiting => owner[d].waiting
    PROVE  BlockedInTurn' /\ EndsOwnWait'
<1>1. BlockedInTurn'
  BY DEF SleepInv, BlockedInTurn
<1>2. EndsOwnWait'
  BY DEF SleepInv, EndsOwnWait, EndWait, MustWait
<1> QED
  BY <1>1, <1>2

LEMMA QuietKeepsSleep ==
    ASSUME IInv, SleepInv, LoopOnSelected', input' \notin {"flush", "wait", "join"},
           selected' \subseteq selected, input = "join" => cur \notin selected',
           UNCHANGED <<owner, thread, block, cancelled>>
    PROVE  SleepInv'
<1>1. BlockedInTurn' /\ EndsOwnWait'
  BY FlagsKeepSleep
<1>2. Alive'
  BY DEF SleepInv, Alive
<1>3. FlushAlone' /\ WaitAnswered' /\ JoinReleases'
  BY DEF FlushAlone, WaitAnswered, JoinReleases
<1> QED
  BY <1>1, <1>2, <1>3 DEF SleepInv

LEMMA LoopsKeepSleep ==
    ASSUME IInv, SleepInv,
           \/ ChangePosition \/ StopBuffering \/ ChangePause \/ EndOfStream \/ \E e \in Es : Send(e)
           \/ Join \/ AllStarted \/ AllReady \/ LoopEnds \/ Paced
    PROVE  SleepInv'
<1>0. LoopOnSelected /\ cur \in Es /\ selected \subseteq Es
  BY DEF SleepInv, IInv, TypeOK
<1>1. CASE ChangePosition
  <2>1. LoopOnSelected'
    BY <1>0, <1>1 DEF ChangePosition, Request, LoopOnSelected
  <2> QED
    BY <1>1, <2>1, QuietKeepsSleep DEF ChangePosition, Request, worker, pipe
<1>2. CASE StopBuffering
  <2>1. LoopOnSelected'
    BY <1>0, <1>2 DEF StopBuffering, Demuxing, PollingEmpty, LoopOnSelected
  <2> QED
    BY <1>2, <2>1, QuietKeepsSleep DEF StopBuffering, Demuxing, PollingEmpty, worker, pipe
<1>3. CASE ChangePause
  <2>1. LoopOnSelected'
    BY <1>0, <1>3 DEF ChangePause, Request, LoopOnSelected
  <2> QED
    BY <1>3, <2>1, QuietKeepsSleep DEF ChangePause, Request, worker, pipe
<1>4. CASE EndOfStream
  <2>1. LoopOnSelected'
    BY <1>0, <1>4 DEF EndOfStream, Demuxing, loop, LoopOnSelected
  <2> QED
    BY <1>4, <2>1, QuietKeepsSleep DEF EndOfStream, Demuxing, loop, worker
<1>5. ASSUME NEW e \in Es, Send(e) PROVE SleepInv'
  <2>1. LoopOnSelected'
    BY <1>0, <1>5 DEF Send, Demuxing, LoopOnSelected
  <2> QED
    BY <1>5, <2>1, QuietKeepsSleep DEF Send, Demuxing, worker
<1>6. CASE Join
  <2>1. LoopOnSelected'
    BY <1>0, <1>6 DEF Join, LoopOnSelected
  <2> QED
    BY <1>6, <2>1, QuietKeepsSleep DEF Join, worker, pipe
<1>7. CASE AllStarted
  <2>1. LoopOnSelected'
    BY <1>0, <1>7 DEF AllStarted, LoopOnSelected
  <2> QED
    BY <1>7, <2>1, QuietKeepsSleep DEF AllStarted, worker, pipe
<1>8. CASE AllReady
  <2>1. LoopOnSelected'
    BY <1>0, <1>8 DEF AllReady, esOut, LoopOnSelected
  <2> QED
    BY <1>8, <2>1, QuietKeepsSleep DEF AllReady, esOut, worker, pipe
<1>9. CASE LoopEnds
  <2>1. LoopOnSelected'
    BY <1>0, <1>9 DEF LoopEnds, esOut, LoopOnSelected
  <2> QED
    BY <1>9, <2>1, QuietKeepsSleep DEF LoopEnds, esOut, worker, pipe
<1>10. CASE Paced
  <2>1. LoopOnSelected'
    BY <1>0, <1>10 DEF Paced, esOut, LoopOnSelected
  <2> QED
    BY <1>10, <2>1, QuietKeepsSleep DEF Paced, esOut, worker
<1> QED
  BY <1>1, <1>2, <1>3, <1>4, <1>5, <1>6, <1>7, <1>8, <1>9, <1>10

LEMMA SelectKeepsSleep ==
    ASSUME IInv, SleepInv, NEW e \in Es, Select(e)
    PROVE  SleepInv'
<1>0. LoopOnSelected /\ cur \in Es /\ selected \subseteq Es /\ thread \in [Es -> Places]
      /\ owner \in [Es -> Flags] /\ cancelled \in [Es -> BOOLEAN]
      /\ block \in [Es -> Blocks \cup {"none"}]
  BY DEF SleepInv, IInv, TypeOK
<1>1. /\ input = "idle" /\ input' \in {"idle", "start"} /\ UNCHANGED <<cur, asleep>>
      /\ selected' = selected \cup {e} /\ (input' = "start" => todo' = {e})
  BY DEF Select, Request
<1>2. thread'[e] = "get" /\ ~cancelled'[e]
  BY <1>0 DEF Select
<1>3. \A d \in Es : d # e => /\ owner'[d] = owner[d] /\ thread'[d] = thread[d]
                            /\ block'[d] = block[d] /\ cancelled'[d] = cancelled[d]
  BY <1>0 DEF Select
<1>4. LoopOnSelected'
  BY <1>0, <1>1 DEF LoopOnSelected
<1>5. Alive'
  BY <1>0, <1>1, <1>2, <1>3 DEF SleepInv, Alive
<1>6. BlockedInTurn' /\ EndsOwnWait'
  BY <1>2, <1>3, FlagsKeepSleep
<1>7. FlushAlone' /\ WaitAnswered' /\ JoinReleases'
  BY <1>1 DEF FlushAlone, WaitAnswered, JoinReleases
<1> QED
  BY <1>4, <1>5, <1>6, <1>7 DEF SleepInv

LEMMA UnselectKeepsSleep ==
    ASSUME IInv, SleepInv, NEW e \in Es, Unselect(e)
    PROVE  SleepInv'
<1>0. LoopOnSelected /\ cur \in Es /\ selected \subseteq Es /\ thread \in [Es -> Places]
      /\ owner \in [Es -> Flags] /\ cancelled \in [Es -> BOOLEAN] /\ TypeOK
  BY DEF SleepInv, IInv, TypeOK
<1>1. /\ input = "idle" /\ input' = "join" /\ cur' = e /\ e \in selected
      /\ UNCHANGED <<asleep, selected, block>>
      /\ owner' = [owner EXCEPT ![e] = Released(@)]
      /\ cancelled' = [cancelled EXCEPT ![e] = TRUE]
      /\ SignalRequest(e)
  BY DEF Unselect, Request
<1>2. /\ cancelled'[e] /\ ~owner'[e].paused /\ ~owner'[e].waiting
      /\ owner'[e].has_data = owner[e].has_data
  BY <1>0, <1>1 DEF Released, Flags
<1>3. \A d \in Es : d # e => owner'[d] = owner[d] /\ cancelled'[d] = cancelled[d]
  BY <1>0, <1>1
<1>4. /\ \A d \in Es : d # e => thread'[d] = thread[d]
      /\ thread'[e] # "blocked"
      /\ thread'[e] = thread[e] \/ thread'[e] \in {"unblock", "datecheck"}
  BY <1>0, <1>1, SignalWakes
<1>5. LoopOnSelected'
  BY <1>0, <1>1 DEF LoopOnSelected
<1>6. Alive'
  BY <1>0, <1>1, <1>2, <1>3, <1>4 DEF SleepInv, Alive
<1>7. BlockedInTurn' /\ EndsOwnWait'
  BY <1>1, <1>2, <1>3, <1>4, FlagsKeepSleep
<1>8. FlushAlone' /\ WaitAnswered' /\ JoinReleases'
  BY <1>1, <1>2 DEF FlushAlone, WaitAnswered, JoinReleases
<1> QED
  BY <1>5, <1>6, <1>7, <1>8 DEF SleepInv

\* The loops over the flags, and the frame steps.
LEMMA FlagLoopsKeepSleep ==
    ASSUME IInv, SleepInv, NEW e \in Es, StopWait(e) \/ PauseDecoder(e) \/ FrameNext(e)
    PROVE  SleepInv'
<1>0. LoopOnSelected /\ cur \in Es /\ selected \subseteq Es /\ thread \in [Es -> Places]
      /\ owner \in [Es -> Flags] /\ TypeOK
  BY DEF SleepInv, IInv, TypeOK
<1>1. /\ input \in {"idle", "stopwait", "pause"}
      /\ UNCHANGED <<input, cur, asleep, selected, cancelled, block>>
      /\ todo' \subseteq todo
  BY DEF StopWait, PauseDecoder, FrameNext, Request, esOut, loop, pipe
<1>2. \/ UNCHANGED <<owner, thread>>
      \/ /\ SignalRequest(e)
         /\ \/ owner' = [owner EXCEPT ![e].waiting = FALSE]
            \/ owner' = [owner EXCEPT ![e].paused = (op = "pause"), ![e].ignore = 0]
            \/ owner' = [owner EXCEPT ![e].ignore = @ + 1]
  BY DEF StopWait, PauseDecoder, FrameNext
<1>3. LoopOnSelected'
  BY <1>0, <1>1 DEF LoopOnSelected
<1>4. CASE UNCHANGED <<owner, thread>>
  BY <1>1, <1>3, <1>4, QuietKeepsSleep
<1>5. CASE SignalRequest(e) /\ ~UNCHANGED <<owner, thread>>
  <2>1. /\ owner'[e].has_data = owner[e].has_data
        /\ owner'[e].waiting => owner[e].waiting
        /\ \A d \in Es : d # e => owner'[d] = owner[d]
    BY <1>0, <1>2, <1>5 DEF Flags
  <2>2. /\ \A d \in Es : d # e => thread'[d] = thread[d]
        /\ thread'[e] # "blocked"
        /\ thread'[e] = thread[e] \/ thread'[e] \in {"unblock", "datecheck"}
    BY <1>0, <1>5, SignalWakes
  <2>3. BlockedInTurn' /\ EndsOwnWait'
    BY <1>1, <2>1, <2>2, FlagsKeepSleep
  <2>4. Alive'
    BY <1>0, <1>1, <2>2 DEF SleepInv, Alive
  <2>5. FlushAlone' /\ WaitAnswered' /\ JoinReleases'
    BY <1>1 DEF FlushAlone, WaitAnswered, JoinReleases
  <2> QED
    BY <1>3, <2>3, <2>4, <2>5 DEF SleepInv
<1> QED
  BY <1>2, <1>4, <1>5

LEMMA StartWaitKeepsSleep ==
    ASSUME IInv, SleepInv, NEW e \in Es, StartWait(e)
    PROVE  SleepInv'
<1>0. LoopOnSelected /\ cur \in Es /\ selected \subseteq Es /\ thread \in [Es -> Places]
      /\ owner \in [Es -> Flags] /\ fifo \in [Es -> Seq(Blocks)] /\ TypeOK
  BY DEF SleepInv, IInv, TypeOK
<1>1. /\ input = "start" /\ input' = "flush" /\ cur' = e /\ e \in todo /\ todo' = todo \ {e}
      /\ UNCHANGED <<asleep, selected, block, cancelled>>
      /\ owner' = [owner EXCEPT ![e].waiting = FALSE, ![e].flushing = TRUE]
      /\ fifo' = [fifo EXCEPT ![e] = <<"flush">>]
      /\ SignalRequest(e)
  BY DEF StartWait, esOut
<1>2. /\ owner'[e].flushing /\ ~owner'[e].waiting /\ owner'[e].has_data = owner[e].has_data
      /\ fifo'[e] = <<"flush">>
      /\ \A d \in Es : d # e => owner'[d] = owner[d]
  BY <1>0, <1>1 DEF Flags
<1>3. /\ \A d \in Es : d # e => thread'[d] = thread[d]
      /\ thread'[e] # "blocked"
      /\ thread'[e] = thread[e] \/ thread'[e] \in {"unblock", "datecheck"}
  BY <1>0, <1>1, SignalWakes
<1>4. LoopOnSelected'
  BY <1>0, <1>1 DEF LoopOnSelected
<1>5. Alive'
  BY <1>0, <1>1, <1>3 DEF SleepInv, Alive
<1>6. BlockedInTurn' /\ EndsOwnWait'
  BY <1>1, <1>2, <1>3, FlagsKeepSleep
<1>7. FlushAlone' /\ WaitAnswered' /\ JoinReleases'
  BY <1>1, <1>2 DEF FlushAlone, WaitAnswered, JoinReleases
<1> QED
  BY <1>4, <1>5, <1>6, <1>7 DEF SleepInv

LEMMA FlushedKeepsSleep ==
    ASSUME IInv, SleepInv, Flushed
    PROVE  SleepInv'
<1>0. LoopOnSelected /\ cur \in Es /\ selected \subseteq Es /\ thread \in [Es -> Places]
      /\ owner \in [Es -> Flags] /\ TypeOK
  BY DEF SleepInv, IInv, TypeOK
<1>1. /\ input = "flush" /\ ~asleep /\ UNCHANGED <<cur, todo, selected, block, cancelled, fifo, b_force_wake>>
  BY DEF Flushed, esOut, pipe
<1>2. CASE owner[cur].flushing
  <2>1. asleep' = TRUE /\ UNCHANGED <<input, owner, thread>>
    BY <1>2 DEF Flushed
  <2>2. LoopOnSelected' /\ Alive'
    BY <1>0, <1>1, <2>1 DEF SleepInv, LoopOnSelected, Alive
  <2>3. BlockedInTurn' /\ EndsOwnWait'
    BY <1>1, <2>1, FlagsKeepSleep
  <2>4. FlushAlone'
    BY <1>1, <1>2, <2>1 DEF SleepInv, FlushAlone, HandlesFlush, Busy
  <2>5. WaitAnswered' /\ JoinReleases'
    BY <1>1, <2>1 DEF WaitAnswered, JoinReleases
  <2> QED
    BY <2>2, <2>3, <2>4, <2>5 DEF SleepInv
<1>3. CASE ~owner[cur].flushing
  <2>1. /\ owner' = [owner EXCEPT ![cur].first = TRUE, ![cur].has_data = FALSE, ![cur].waiting = TRUE]
        /\ SignalRequest(cur) /\ input' = "start" /\ asleep' = asleep
    BY <1>3 DEF Flushed
  <2>2. /\ \A d \in Es : d # cur => thread'[d] = thread[d]
        /\ thread'[cur] # "blocked"
        /\ thread'[cur] = thread[cur] \/ thread'[cur] \in {"unblock", "datecheck"}
    BY <1>0, <2>1, SignalWakes
  <2>3. thread'[cur] # "stopwait" /\ \A d \in Es : d # cur => owner'[d] = owner[d]
    BY <1>0, <1>1, <1>3, <2>1, <2>2 DEF SleepInv, FlushAlone
  <2>4. BlockedInTurn' /\ EndsOwnWait'
    BY <1>1, <2>2, <2>3, FlagsKeepSleep
  <2>5. LoopOnSelected'
    BY <1>0, <1>1, <2>1 DEF LoopOnSelected
  <2>6. Alive'
    BY <1>0, <1>1, <2>1, <2>2 DEF SleepInv, Alive
  <2>7. FlushAlone' /\ WaitAnswered' /\ JoinReleases'
    BY <2>1 DEF FlushAlone, WaitAnswered, JoinReleases
  <2> QED
    BY <2>4, <2>5, <2>6, <2>7 DEF SleepInv
<1> QED
  BY <1>2, <1>3

\* input_DecoderWait wakes the thread up before it waits for it.
LEMMA WaitKeepsSleep ==
    ASSUME IInv, SleepInv, WaitAgain \/ \E e \in Es : Wait(e)
    PROVE  SleepInv'
<1>0. LoopOnSelected /\ cur \in Es /\ selected \subseteq Es /\ b_force_wake \in [Es -> BOOLEAN]
  BY DEF SleepInv, IInv, TypeOK
<1>1. PICK e \in Es : /\ input \in {"waitall", "wait"} /\ todo' \subseteq todo /\ e \in selected
                      /\ cur' = e /\ ~asleep
                      /\ UNCHANGED <<selected, owner, thread, block, cancelled>>
                      /\ \/ /\ MustWait(owner[e]) /\ b_force_wake' = [b_force_wake EXCEPT ![e] = TRUE]
                            /\ input' = "wait"
                         \/ input' = "waitall" /\ asleep' = asleep
  <2>1. CASE WaitAgain
    BY <1>0, <2>1 DEF WaitAgain, WaitFor, esOut, worker, LoopOnSelected
  <2>2. ASSUME NEW e \in Es, Wait(e)
        PROVE  /\ input \in {"waitall", "wait"} /\ todo' \subseteq todo /\ e \in selected
               /\ cur' = e /\ ~asleep
               /\ UNCHANGED <<selected, owner, thread, block, cancelled>>
               /\ \/ /\ MustWait(owner[e]) /\ b_force_wake' = [b_force_wake EXCEPT ![e] = TRUE]
                     /\ input' = "wait"
                  \/ input' = "waitall" /\ asleep' = asleep
    BY <1>0, <2>2 DEF Wait, WaitFor, esOut, worker, LoopOnSelected
  <2> QED
    BY <2>1, <2>2
<1>2. LoopOnSelected'
  BY <1>0, <1>1 DEF LoopOnSelected
<1>3. Alive'
  BY <1>1 DEF SleepInv, Alive
<1>4. BlockedInTurn' /\ EndsOwnWait'
  BY <1>1, FlagsKeepSleep
<1>5. FlushAlone' /\ JoinReleases'
  BY <1>1 DEF FlushAlone, JoinReleases
<1>6. WaitAnswered'
  BY <1>0, <1>1 DEF WaitAnswered
<1> QED
  BY <1>2, <1>3, <1>4, <1>5, <1>6 DEF SleepInv

LEMMA SleepInductive == IInv /\ SleepInv /\ [Next]_vars => SleepInv'
<1> SUFFICES ASSUME IInv, SleepInv, [Next]_vars PROVE SleepInv'
  OBVIOUS
<1>1. CASE UNCHANGED vars
  BY <1>1 DEF vars, esOut, loop, pipe, worker, SleepInv, LoopOnSelected, Alive, BlockedInTurn, FlushAlone,
              HandlesFlush, Busy, WaitAnswered, EndsOwnWait, EndWait, JoinReleases
<1>2. CASE InputRequests
  BY <1>2, LoopsKeepSleep, SelectKeepsSleep, UnselectKeepsSleep, FlagLoopsKeepSleep DEF InputRequests
<1>3. CASE InputReturning
  BY <1>3, LoopsKeepSleep, StartWaitKeepsSleep, FlushedKeepsSleep, WaitKeepsSleep, FlagLoopsKeepSleep
     DEF InputReturning
<1>4. CASE \E e \in Es : DecoderThread(e) \/ Spurious(e)
  BY <1>4, ThreadKeepsSleep
<1> QED
  BY <1>1, <1>2, <1>3, <1>4 DEF Next

LEMMA SleepInit == Init => SleepInv
<1> SUFFICES ASSUME Init PROVE SleepInv
  OBVIOUS
<1> QED
  BY DEF Init, SleepInv, LoopOnSelected, Alive, BlockedInTurn, FlushAlone, WaitAnswered, EndsOwnWait, JoinReleases

-----------------------------------------------------------------------------
(* A decoder that may go on is not held back                                 *)

\* A decoder is paused while es_out is, but for the loop that tells it.
PauseKnown ==
    /\ input = "pause" => (op = "pause" <=> b_paused)
    /\ \A e \in selected : owner[e].paused => b_paused \/ (input = "pause" /\ e \in todo)

\* The loops that let decoders go run once the buffering is over.
ReleasesUnbuffered == input \in {"waitall", "wait", "stopwait"} => ~b_buffering

\* The input buffers, or a seek is about to make it.
Preparing == b_buffering \/ (input \in {"start", "flush"} /\ op = "seek")

\* A loop of the input thread has yet to make this decoder wait, or deletes it.
InLoop(e) ==
    \/ input \in {"start", "flush"} /\ e \in todo
    \/ input \in {"flush", "join"} /\ e = cur

\* It waits, and nothing is on its way that would end its wait.
Held(e) ==
    /\ owner[e].waiting /\ ~b_force_wake[e] /\ fifo[e] \in Seq({"data"})
    /\ Busy(e) => block[e] \in {"data", "flush"}

\* Before the first frame step, all decoders wait while the input buffers, until
\* the end of the stream.
HeldTogether ==
    steps = 0 /\ Preparing /\ ~b_eof => \A e \in selected : InLoop(e) \/ Held(e)

\* The input thread paces itself only on a decoder that does not wait.
PacedFreely == input = "pace" => ~owner[cur].waiting /\ ~b_eof /\ (b_paused => b_buffering)

HoldInv == PauseKnown /\ ReleasesUnbuffered /\ HeldTogether /\ PacedFreely

-----------------------------------------------------------------------------
LEMMA ThreadKeepsHold ==
    ASSUME IInv, SleepInv, HoldInv, NEW e \in Es, DecoderThread(e) \/ Spurious(e)
    PROVE  HoldInv'
<1>0. /\ TypeOK /\ SomethingLeft /\ cur \in Es /\ selected \subseteq Es
      /\ owner \in [Es -> Flags] /\ thread \in [Es -> Places] /\ block \in [Es -> Blocks \cup {"none"}]
      /\ fifo \in [Es -> Seq(Blocks)] /\ b_force_wake \in [Es -> BOOLEAN]
  BY DEF IInv, TypeOK
<1>1. \A d \in Es : d # e => /\ owner'[d] = owner[d] /\ thread'[d] = thread[d]
                            /\ block'[d] = block[d] /\ fifo'[d] = fifo[d]
  BY <1>0, OthersKept
<1>2. /\ UNCHANGED <<selected, input, op, todo, cur, steps, b_buffering, b_paused, b_eof>>
      /\ owner'[e].paused = owner[e].paused
      /\ owner'[e].waiting => owner[e].waiting
      /\ owner[e].waiting => owner'[e].waiting \/ thread[e] = "stopwait"
      /\ \A d \in Es : d # e => b_force_wake'[d] = b_force_wake[d]
      /\ \/ /\ thread[e] = "get" /\ (fifo[e] # <<>> \/ b_force_wake[e])
            /\ block'[e] = (IF fifo[e] = <<>> THEN "none" ELSE Head(fifo[e]))
            /\ fifo'[e] = (IF fifo[e] = <<>> THEN <<>> ELSE Tail(fifo[e]))
            /\ ~b_force_wake'[e]
         \/ /\ fifo'[e] = fifo[e] /\ block'[e] = block[e] /\ b_force_wake'[e] = b_force_wake[e]
            /\ Busy(e)' => Busy(e)
  <2>1. CASE Get(e)
    BY <1>0, <2>1 DEF Get, esOut, loop
  <2>2. CASE BlockDone(e) /\ Acknowledges(e)
    <3>1. /\ owner' = [owner EXCEPT ![e].flushing = FALSE] /\ thread' = [thread EXCEPT ![e] = "get"]
          /\ UNCHANGED <<esOut, input, op, todo, cur, pipe, block>>
      BY <2>2 DEF BlockDone
    <3>2. owner'[e].paused = owner[e].paused /\ owner'[e].waiting = owner[e].waiting /\ thread'[e] = "get"
      BY <1>0, <3>1 DEF Flags
    <3> QED
      BY <1>0, <3>1, <3>2 DEF esOut, pipe, Busy
  <2>3. CASE ~Get(e) /\ ~(BlockDone(e) /\ Acknowledges(e))
    <3>1. Works(e) /\ Answers(e)
      BY <1>0, <2>3, ThreadWorks, ThreadAnswers
    <3>2. PICK p : owner' = [owner EXCEPT ![e] = p] /\ Advances(e, owner[e], p)
      BY <3>1 DEF Works, Moves
    <3>3. owner'[e].waiting => owner[e].waiting
      BY <1>0, <3>2 DEF Advances
    <3>4. Busy(e)' => Busy(e)
      BY <3>1 DEF Works, Answers, Busy
    <3> QED
      BY <3>1, <3>3, <3>4 DEF Works, Answers, esOut, pipe
  <2> QED
    BY <2>1, <2>2, <2>3
<1>3. PauseKnown' /\ ReleasesUnbuffered' /\ PacedFreely'
  BY <1>0, <1>1, <1>2 DEF HoldInv, PauseKnown, ReleasesUnbuffered, PacedFreely
<1>4. ASSUME Held(e) PROVE Held(e)'
  <2>1. thread[e] # "stopwait"
    BY <1>4 DEF SleepInv, EndsOwnWait, EndWait, Held, Busy
  <2>2. owner'[e].waiting
    BY <1>2, <1>4, <2>1 DEF Held
  <2>3. CASE fifo'[e] = fifo[e] /\ block'[e] = block[e] /\ b_force_wake'[e] = b_force_wake[e]
             /\ (Busy(e)' => Busy(e))
    BY <1>4, <2>2, <2>3 DEF Held
  <2>4. CASE /\ fifo[e] # <<>>
             /\ block'[e] = (IF fifo[e] = <<>> THEN "none" ELSE Head(fifo[e]))
             /\ fifo'[e] = (IF fifo[e] = <<>> THEN <<>> ELSE Tail(fifo[e]))
             /\ ~b_force_wake'[e]
    <3>1. fifo[e] \in Seq({"data"})
      BY <1>4 DEF Held
    <3>2. Head(fifo[e]) \in {"data"} /\ Tail(fifo[e]) \in Seq({"data"})
      BY <2>4, <3>1
    <3> QED
      BY <2>2, <2>4, <3>2 DEF Held
  <2> QED
    BY <1>2, <1>4, <2>3, <2>4 DEF Held
<1>5. ASSUME NEW d \in Es, d # e, Held(d) PROVE Held(d)'
  BY <1>1, <1>2, <1>5 DEF Held, Busy
<1>6. HeldTogether'
  BY <1>0, <1>2, <1>4, <1>5 DEF HoldInv, HeldTogether, Preparing, InLoop
<1> QED
  BY <1>3, <1>6 DEF HoldInv

\* What is held stays so while the input thread only puts data into the FIFOs.
LEMMA HeldKept ==
    ASSUME IInv, HeldTogether, selected' \subseteq selected, steps' = steps,
           Preparing' /\ ~b_eof' => Preparing /\ ~b_eof,
           \A d \in selected' : InLoop(d) => InLoop(d)',
           \A d \in selected' : /\ owner[d].waiting => owner'[d].waiting
                                /\ fifo[d] \in Seq({"data"}) => fifo'[d] \in Seq({"data"})
                                /\ Busy(d)' => Busy(d)
                                /\ b_force_wake'[d] = b_force_wake[d] /\ block'[d] = block[d]
    PROVE  HeldTogether'
BY DEF HeldTogether, Held

LEMMA PutData ==
    ASSUME NEW f \in Seq({"data"})
    PROVE  Append(f, "data") \in Seq({"data"}) /\ Put(f, "data") \in Seq({"data"})
<1>1. Append(f, "data") \in Seq({"data"}) /\ Append(<<>>, "data") \in Seq({"data"})
  OBVIOUS
<1> QED
  BY <1>1 DEF Put

-----------------------------------------------------------------------------
LEMMA RequestsKeepHold ==
    ASSUME IInv, SleepInv, HoldInv, InputRequests
    PROVE  HoldInv'
<1>0. /\ cur \in Es /\ selected \subseteq Es /\ owner \in [Es -> Flags] /\ thread \in [Es -> Places]
      /\ fifo \in [Es -> Seq(Blocks)] /\ b_force_wake \in [Es -> BOOLEAN] /\ steps \in Nat
      /\ b_paused \in BOOLEAN /\ block \in [Es -> Blocks \cup {"none"}] /\ TypeOK
  BY BoundsAreNat DEF IInv, TypeOK
<1>1. CASE ChangePosition
  <2>1. /\ input = "idle" /\ input' = "start" /\ todo' = selected /\ UNCHANGED <<owner, selected, b_paused>>
    BY <1>1 DEF ChangePosition, Request
  <2> QED
    BY <2>1 DEF HoldInv, PauseKnown, ReleasesUnbuffered, HeldTogether, InLoop, PacedFreely
<1>2. CASE StopBuffering
  <2>1. /\ input = "idle" /\ input' \in {"idle", "waitall"} /\ ~b_buffering'
        /\ UNCHANGED <<owner, selected, b_paused>>
    BY <1>2 DEF StopBuffering, Demuxing, PollingEmpty
  <2> QED
    BY <2>1 DEF HoldInv, PauseKnown, ReleasesUnbuffered, HeldTogether, Preparing, PacedFreely
<1>3. CASE ChangePause
  <2>1. /\ input = "idle" /\ input' = "pause" /\ b_paused' = ~b_paused /\ todo' = selected
        /\ op' = (IF b_paused THEN "resume" ELSE "pause")
        /\ UNCHANGED <<owner, thread, block, fifo, b_force_wake, selected, steps, b_buffering, b_eof>>
    BY <1>3 DEF ChangePause, Request, pipe, worker
  <2>2. HeldTogether'
    BY <2>1, HeldKept DEF HoldInv, Preparing, InLoop, Busy
  <2> QED
    BY <2>1, <2>2 DEF HoldInv, PauseKnown, ReleasesUnbuffered, PacedFreely
<1>4. CASE EndOfStream
  <2>1. b_eof' /\ input = "idle" /\ UNCHANGED <<input, owner, selected, b_paused>>
    BY <1>4 DEF EndOfStream, Demuxing, loop
  <2> QED
    BY <2>1 DEF HoldInv, PauseKnown, ReleasesUnbuffered, HeldTogether, PacedFreely
<1>5. ASSUME NEW e \in Es, Send(e) PROVE HoldInv'
  <2>1. /\ input = "idle" /\ ~b_eof /\ (b_paused => b_buffering)
        /\ UNCHANGED <<owner, thread, block, b_force_wake, selected, steps, b_buffering, b_eof, b_paused>>
        /\ input' \in {"idle", "pace"} /\ (input' = "pace" => cur' = e /\ ~owner[e].waiting)
    BY <1>5 DEF Send, Demuxing, MayPace, worker
  <2>2. ASSUME NEW d \in Es, fifo[d] \in Seq({"data"}) PROVE fifo'[d] \in Seq({"data"})
    <3>1. fifo'[d] \in {fifo[d], Append(fifo[d], "data"), Put(fifo[d], "data")}
      BY <1>0, <1>5 DEF Send
    <3> QED
      BY <2>2, <3>1, PutData
  <2>3. HeldTogether'
    BY <1>0, <2>1, <2>2, HeldKept DEF HoldInv, Preparing, InLoop, Busy
  <2> QED
    BY <2>1, <2>3 DEF HoldInv, PauseKnown, ReleasesUnbuffered, PacedFreely
<1>6. ASSUME NEW e \in Es, Select(e) PROVE HoldInv'
  <2>1. /\ input = "idle" /\ selected' = selected \cup {e}
        /\ UNCHANGED <<steps, b_buffering, b_paused, b_eof>>
        /\ IF b_buffering THEN input' = "start" /\ todo' = {e} ELSE input' = "idle"
    BY <1>6 DEF Select, Request
  <2>2. ~owner'[e].paused
    BY <1>0, <1>6 DEF Select, NewOwner
  <2>3. \A d \in Es : d # e => /\ owner'[d] = owner[d] /\ thread'[d] = thread[d]
                              /\ block'[d] = block[d] /\ fifo'[d] = fifo[d]
                              /\ b_force_wake'[d] = b_force_wake[d]
    BY <1>0, <1>6 DEF Select
  <2>4. HeldTogether'
    <3> SUFFICES ASSUME steps = 0, b_buffering, ~b_eof, NEW d \in selected, d # e PROVE Held(d)'
      BY <2>1 DEF HeldTogether, Preparing, InLoop
    <3>1. Held(d)
      BY <2>1 DEF HoldInv, HeldTogether, Preparing, InLoop
    <3> QED
      BY <1>0, <2>3, <3>1 DEF Held, Busy
  <2> QED
    BY <1>0, <2>1, <2>2, <2>3, <2>4 DEF HoldInv, PauseKnown, ReleasesUnbuffered, PacedFreely
<1>7. ASSUME NEW e \in Es, Unselect(e) PROVE HoldInv'
  <2>1. /\ input = "idle" /\ input' = "join" /\ cur' = e
        /\ UNCHANGED <<selected, steps, b_buffering, b_paused, b_eof, fifo, b_force_wake, block>>
    BY <1>7 DEF Unselect, Request
  <2>2. ~owner'[e].paused /\ \A d \in Es : d # e => owner'[d] = owner[d]
    BY <1>0, <1>7 DEF Unselect, Released, Flags
  <2>3. \A d \in Es : d # e => thread'[d] = thread[d]
    BY <1>0, <1>7, SignalWakes DEF Unselect
  <2>4. HeldTogether'
    <3> SUFFICES ASSUME steps = 0, b_buffering, ~b_eof, NEW d \in selected, d # e PROVE Held(d)'
      BY <2>1 DEF HeldTogether, Preparing, InLoop
    <3>1. Held(d)
      BY <2>1 DEF HoldInv, HeldTogether, Preparing, InLoop
    <3> QED
      BY <1>0, <2>1, <2>2, <2>3, <3>1 DEF Held, Busy
  <2> QED
    BY <1>0, <2>1, <2>2, <2>4 DEF HoldInv, PauseKnown, ReleasesUnbuffered, PacedFreely
<1>8. ASSUME NEW e \in Es, FrameNext(e) PROVE HoldInv'
  <2>1. /\ input = "idle" /\ steps' = steps + 1 /\ UNCHANGED <<input, selected, b_paused>>
        /\ owner' = owner \/ owner' = [owner EXCEPT ![e].ignore = @ + 1]
    BY <1>8 DEF FrameNext, Request, loop
  <2>2. \A d \in Es : owner'[d].paused = owner[d].paused
    <3> DEFINE p == [owner[e] EXCEPT !.ignore = @ + 1]
    <3>1. CASE owner' = [owner EXCEPT ![e] = p]
      <4>1. p.paused = owner[e].paused
        BY <1>0 DEF Flags
      <4> HIDE DEF p
      <4> QED
        BY <1>0, <3>1, <4>1
    <3> QED
      BY <2>1, <3>1
  <2> QED
    BY <1>0, <2>1, <2>2 DEF HoldInv, PauseKnown, ReleasesUnbuffered, HeldTogether, PacedFreely
<1> QED
  BY <1>1, <1>2, <1>3, <1>4, <1>5, <1>6, <1>7, <1>8 DEF InputRequests

LEMMA ReturningKeepsHold ==
    ASSUME IInv, SleepInv, HoldInv, InputReturning
    PROVE  HoldInv'
<1>0. /\ cur \in Es /\ selected \subseteq Es /\ owner \in [Es -> Flags] /\ thread \in [Es -> Places]
      /\ fifo \in [Es -> Seq(Blocks)] /\ b_force_wake \in [Es -> BOOLEAN] /\ todo \subseteq Es
      /\ b_paused \in BOOLEAN /\ block \in [Es -> Blocks \cup {"none"}] /\ TypeOK
  BY DEF IInv, TypeOK
<1>1. CASE Join
  <2>1. /\ input = "join" /\ input' = "idle" /\ selected' = selected \ {cur}
        /\ UNCHANGED <<owner, thread, block, fifo, b_force_wake, steps, b_buffering, b_eof, b_paused>>
    BY <1>1 DEF Join, pipe, worker
  <2>2. HeldTogether'
    BY <2>1, HeldKept DEF HoldInv, Preparing, InLoop, Busy
  <2> QED
    BY <2>1, <2>2 DEF HoldInv, PauseKnown, ReleasesUnbuffered, PacedFreely
<1>2. CASE Flushed
  <2>1. /\ input = "flush"
        /\ UNCHANGED <<op, todo, cur, selected, steps, b_buffering, b_eof, b_paused, fifo, b_force_wake, block>>
    BY <1>2 DEF Flushed, esOut, pipe
  <2>2. CASE owner[cur].flushing
    <3>1. UNCHANGED <<input, owner, thread>>
      BY <1>2, <2>2 DEF Flushed
    <3>2. HeldTogether'
      BY <2>1, <3>1, HeldKept DEF HoldInv, Preparing, InLoop, Busy
    <3> QED
      BY <2>1, <3>1, <3>2 DEF HoldInv, PauseKnown, ReleasesUnbuffered, PacedFreely
  <2>3. CASE ~owner[cur].flushing
    <3>1. /\ owner' = [owner EXCEPT ![cur].first = TRUE, ![cur].has_data = FALSE, ![cur].waiting = TRUE]
          /\ SignalRequest(cur) /\ input' = "start"
      BY <1>2, <2>3 DEF Flushed
    <3>2. /\ owner'[cur].waiting /\ owner'[cur].paused = owner[cur].paused
          /\ \A d \in Es : d # cur => owner'[d] = owner[d]
      BY <1>0, <3>1 DEF Flags
    <3>3. /\ \A d \in Es : d # cur => thread'[d] = thread[d]
          /\ thread[cur] = "get" => thread'[cur] \in {"get", "unblock", "datecheck"}
      BY <1>0, <3>1, SignalWakes
    <3>4. fifo[cur] = <<>> /\ ~b_force_wake[cur] /\ thread[cur] = "get"
      BY <2>1, <2>3 DEF SleepInv, FlushAlone
    <3>5. thread'[cur] = "get"
      BY <1>0, <3>1, <3>4, Signalled
    <3>6. Held(cur)'
      <4>1. <<>> \in Seq({"data"})
        OBVIOUS
      <4> QED
        BY <2>1, <3>2, <3>4, <3>5, <4>1 DEF Held, Busy
    <3>7. HeldTogether'
      <4> SUFFICES ASSUME steps = 0, Preparing', ~b_eof, NEW d \in selected, d # cur
                   PROVE  InLoop(d)' \/ Held(d)'
        BY <2>1, <3>6 DEF HeldTogether
      <4>1. InLoop(d) \/ Held(d)
        BY <2>1, <3>1 DEF HoldInv, HeldTogether, Preparing
      <4>2. InLoop(d) => InLoop(d)'
        BY <2>1, <3>1 DEF InLoop
      <4>3. Held(d) => Held(d)'
        BY <1>0, <2>1, <3>2, <3>3 DEF Held, Busy
      <4> QED
        BY <4>1, <4>2, <4>3
    <3> QED
      BY <1>0, <2>1, <3>1, <3>2, <3>7 DEF HoldInv, PauseKnown, ReleasesUnbuffered, PacedFreely
  <2> QED
    BY <2>2, <2>3
<1>3. CASE AllStarted
  <2>1. /\ input = "start" /\ todo = {} /\ input' = "idle"
        /\ Preparing' => Preparing
        /\ UNCHANGED <<owner, thread, block, fifo, b_force_wake, selected, steps, b_eof, b_paused>>
    BY <1>3 DEF AllStarted, Preparing, pipe, worker
  <2>2. HeldTogether'
    BY <2>1, HeldKept DEF HoldInv, InLoop, Busy
  <2> QED
    BY <2>1, <2>2 DEF HoldInv, PauseKnown, ReleasesUnbuffered, PacedFreely
<1>4. CASE WaitAgain \/ AllReady \/ \E e \in Es : Wait(e)
  <2>1. /\ input \in {"waitall", "wait"} /\ input' \in {"waitall", "wait", "stopwait"}
        /\ UNCHANGED <<owner, selected, b_buffering, b_paused>>
    BY <1>4 DEF WaitAgain, AllReady, Wait, WaitFor, esOut
  <2> QED
    BY <2>1 DEF HoldInv, PauseKnown, ReleasesUnbuffered, HeldTogether, Preparing, PacedFreely
<1>5. CASE LoopEnds
  <2>1. /\ input \in {"stopwait", "pause"} /\ todo = {} /\ input' = "idle"
        /\ UNCHANGED <<owner, thread, block, fifo, b_force_wake, selected, steps, b_buffering, b_eof, b_paused>>
    BY <1>5 DEF LoopEnds, esOut, pipe, worker
  <2>2. HeldTogether'
    BY <2>1, HeldKept DEF HoldInv, Preparing, InLoop, Busy
  <2> QED
    BY <2>1, <2>2 DEF HoldInv, PauseKnown, ReleasesUnbuffered, PacedFreely
<1>6. CASE Paced
  <2>1. /\ input = "pace" /\ input' = "idle" /\ fifo' = [fifo EXCEPT ![cur] = Append(@, "data")]
        /\ UNCHANGED <<owner, thread, block, b_force_wake, selected, steps, b_buffering, b_eof, b_paused>>
    BY <1>6 DEF Paced, esOut, worker
  <2>2. ASSUME NEW d \in Es, fifo[d] \in Seq({"data"}) PROVE fifo'[d] \in Seq({"data"})
    <3>1. fifo'[d] \in {fifo[d], Append(fifo[d], "data")}
      BY <1>0, <2>1
    <3> QED
      BY <2>2, <3>1, PutData
  <2>3. HeldTogether'
    BY <1>0, <2>1, <2>2, HeldKept DEF HoldInv, Preparing, InLoop, Busy
  <2> QED
    BY <2>1, <2>3 DEF HoldInv, PauseKnown, ReleasesUnbuffered, PacedFreely
<1>7. ASSUME NEW e \in Es, StartWait(e) PROVE HoldInv'
  <2>1. /\ input = "start" /\ input' = "flush" /\ cur' = e /\ todo' = todo \ {e}
        /\ UNCHANGED <<op, selected, steps, b_buffering, b_eof, b_paused, b_force_wake, block>>
        /\ owner' = [owner EXCEPT ![e].waiting = FALSE, ![e].flushing = TRUE]
        /\ fifo' = [fifo EXCEPT ![e] = <<"flush">>] /\ SignalRequest(e)
    BY <1>7 DEF StartWait, esOut
  <2>2. /\ owner'[e].paused = owner[e].paused
        /\ \A d \in Es : d # e => owner'[d] = owner[d] /\ fifo'[d] = fifo[d]
    BY <1>0, <2>1 DEF Flags
  <2>3. \A d \in Es : d # e => thread'[d] = thread[d]
    BY <1>0, <2>1, SignalWakes
  <2>4. HeldTogether'
    <3> SUFFICES ASSUME steps = 0, Preparing', ~b_eof, NEW d \in selected, d # e
                 PROVE  InLoop(d)' \/ Held(d)'
      BY <2>1 DEF HeldTogether, InLoop
    <3>1. InLoop(d) \/ Held(d)
      BY <2>1 DEF HoldInv, HeldTogether, Preparing
    <3>2. InLoop(d) => InLoop(d)'
      BY <2>1 DEF InLoop
    <3>3. Held(d) => Held(d)'
      BY <1>0, <2>1, <2>2, <2>3 DEF Held, Busy
    <3> QED
      BY <3>1, <3>2, <3>3
  <2> QED
    BY <1>0, <2>1, <2>2, <2>4 DEF HoldInv, PauseKnown, ReleasesUnbuffered, PacedFreely
<1>8. ASSUME NEW e \in Es, StopWait(e) PROVE HoldInv'
  <2>1. /\ input = "stopwait" /\ UNCHANGED <<input, selected, b_buffering, b_paused>>
        /\ owner' = [owner EXCEPT ![e].waiting = FALSE]
    BY <1>8 DEF StopWait, esOut
  <2>2. \A d \in Es : owner'[d].paused = owner[d].paused
    BY <1>0, <2>1 DEF Flags
  <2> QED
    BY <1>0, <2>1, <2>2 DEF HoldInv, PauseKnown, ReleasesUnbuffered, HeldTogether, Preparing, PacedFreely
<1>9. ASSUME NEW e \in Es, PauseDecoder(e) PROVE HoldInv'
  <2>1. /\ input = "pause" /\ todo' = todo \ {e}
        /\ UNCHANGED <<input, op, cur, selected, steps, b_buffering, b_eof, b_paused, fifo, b_force_wake, block>>
        /\ \/ /\ owner' = [owner EXCEPT ![e].paused = (op = "pause"), ![e].ignore = 0]
              /\ SignalRequest(e)
           \/ owner[e].paused = (op = "pause") /\ UNCHANGED <<owner, thread>>
    BY <1>0, <1>9 DEF PauseDecoder, esOut, pipe, Flags
  <2>2. /\ owner'[e].paused = (op = "pause")
        /\ \A d \in Es : d # e => owner'[d] = owner[d]
        /\ \A d \in Es : owner'[d].waiting = owner[d].waiting
    <3> DEFINE p == [owner[e] EXCEPT !.paused = (op = "pause"), !.ignore = 0]
    <3>1. CASE owner' = owner /\ owner[e].paused = (op = "pause")
      BY <3>1
    <3>2. CASE owner' = [owner EXCEPT ![e] = p]
      <4>1. p.paused = (op = "pause") /\ p.waiting = owner[e].waiting
        BY <1>0 DEF Flags
      <4> HIDE DEF p
      <4> QED
        BY <1>0, <3>2, <4>1
    <3> QED
      BY <2>1, <3>1, <3>2
  <2>3. \A d \in Es : Busy(d)' => Busy(d)
    <3>1. CASE UNCHANGED thread
      BY <3>1 DEF Busy
    <3>2. CASE SignalRequest(e)
      BY <1>0, <3>2, Signalled DEF Busy
    <3> QED
      BY <2>1, <3>1, <3>2
  <2>4. HeldTogether'
    BY <1>0, <2>1, <2>2, <2>3, HeldKept DEF HoldInv, Preparing, InLoop
  <2> QED
    BY <1>0, <2>1, <2>2, <2>4 DEF HoldInv, PauseKnown, ReleasesUnbuffered, PacedFreely
<1> QED
  BY <1>1, <1>2, <1>3, <1>4, <1>5, <1>6, <1>7, <1>8, <1>9 DEF InputReturning

LEMMA HoldInductive == IInv /\ SleepInv /\ HoldInv /\ [Next]_vars => HoldInv'
<1> SUFFICES ASSUME IInv, SleepInv, HoldInv, [Next]_vars PROVE HoldInv'
  OBVIOUS
<1>1. CASE UNCHANGED vars
  BY <1>1 DEF vars, esOut, loop, pipe, worker, HoldInv, PauseKnown, ReleasesUnbuffered, HeldTogether,
              Preparing, InLoop, Held, Busy, PacedFreely
<1>2. CASE InputRequests
  BY <1>2, RequestsKeepHold
<1>3. CASE InputReturning
  BY <1>3, ReturningKeepsHold
<1>4. CASE \E e \in Es : DecoderThread(e) \/ Spurious(e)
  BY <1>4, ThreadKeepsHold
<1> QED
  BY <1>1, <1>2, <1>3, <1>4 DEF Next

LEMMA Progress == Spec => [](IInv /\ SleepInv /\ HoldInv)
<1>1. Init => HoldInv
  BY DEF Init, HoldInv, PauseKnown, ReleasesUnbuffered, HeldTogether, PacedFreely
<1> QED
  BY <1>1, SleepInit, SleepInductive, HoldInductive, Invariance, PTL DEF Spec

\* With any streams, however the seeks, pauses, selections and frame steps fall,
\* the input thread never waits for a decoder thread that sleeps, but when it
\* paces itself after a frame step.
THEOREM NoDeadlock == Spec => []NoMutualWait
<1>1. IInv /\ SleepInv /\ HoldInv => NoMutualWait
  <2> SUFFICES ASSUME IInv, SleepInv, HoldInv, WaitsForThread, ~(input = "pace" /\ steps > 0)
               PROVE  ~Stopped(cur)
    BY DEF NoMutualWait
  <2>0. cur \in Es /\ owner[cur] \in Flags /\ fifo[cur] \in Seq(Blocks) /\ steps \in Nat
        /\ PaceDepth \in Nat
    BY BoundsAreNat DEF IInv, TypeOK
  <2>1. CASE asleep /\ input = "flush"
    <3>1. /\ thread[cur] \notin {"none", "ended"}
          /\ owner[cur].flushing /\ (fifo[cur] = <<"flush">> \/ HandlesFlush(cur))
      BY <2>0, <2>1 DEF SleepInv, LoopOnSelected, Alive, FlushAlone
    <3>2. thread[cur] # "blocked"
      BY <2>0, <3>1 DEF SleepInv, BlockedInTurn, MayPass
    <3> QED
      BY <3>1, <3>2 DEF Stopped, HandlesFlush, Busy
  <2>2. CASE asleep /\ input = "wait"
    <3>1. /\ thread[cur] \notin {"none", "ended"}
          /\ MustWait(owner[cur]) /\ (b_force_wake[cur] \/ thread[cur] = "signal")
      BY <2>0, <2>2 DEF SleepInv, LoopOnSelected, Alive, WaitAnswered
    <3>2. thread[cur] # "blocked"
      BY <2>0, <3>1 DEF SleepInv, BlockedInTurn, MayPass, MustWait, Flags
    <3> QED
      BY <3>1, <3>2 DEF Stopped
  <2>3. CASE input = "join" /\ thread[cur] # "ended"
    <3>1. thread[cur] # "none" /\ cancelled[cur] /\ ~owner[cur].paused /\ ~owner[cur].waiting
      BY <2>0, <2>3 DEF SleepInv, LoopOnSelected, Alive, JoinReleases
    <3>2. thread[cur] # "blocked"
      BY <2>0, <3>1 DEF SleepInv, BlockedInTurn, MayPass
    <3> QED
      BY <2>3, <3>1, <3>2 DEF Stopped
  <2>4. CASE input = "pace" /\ Len(fifo[cur]) > PaceDepth
    <3>1. steps = 0 /\ fifo[cur] # <<>>
      BY <2>0, <2>4
    <3>2. /\ cur \in selected /\ thread[cur] \notin {"none", "ended"}
          /\ ~owner[cur].waiting /\ ~b_eof /\ (b_paused => b_buffering)
      BY <2>0, <2>4 DEF SleepInv, LoopOnSelected, Alive, HoldInv, PacedFreely
    <3>3. ~b_buffering
      BY <2>4, <3>1, <3>2 DEF HoldInv, HeldTogether, Preparing, InLoop, Held
    <3>4. ~owner[cur].paused
      BY <2>4, <3>2, <3>3 DEF HoldInv, PauseKnown
    <3>5. thread[cur] # "blocked"
      BY <2>0, <3>2, <3>4 DEF SleepInv, BlockedInTurn, MayPass
    <3> QED
      BY <3>1, <3>2, <3>5 DEF Stopped
  <2> QED
    BY <2>1, <2>2, <2>3, <2>4 DEF WaitsForThread, SleepInv, LoopOnSelected
<1> QED
  BY <1>1, Progress, PTL

\* Once the input neither pauses nor buffers and has told its decoders, none of
\* them is held back: all may pass DecoderWaitUnblock.
ReleasedWhenIdle ==
    input = "idle" /\ ~b_paused /\ ~b_buffering /\ steps = 0 =>
        \A e \in selected : thread[e] # "blocked"

\* Without frame steps, no decoder is left in DecoderWaitUnblock once es_out has
\* ended the buffering or the pause, in whatever order requests came.
THEOREM NobodyHeldBack == Spec => []ReleasedWhenIdle
<1>1. SleepInv /\ HoldInv /\ NoneLeftWaiting /\ TypeOK => ReleasedWhenIdle
  <2> SUFFICES ASSUME SleepInv, HoldInv, NoneLeftWaiting, TypeOK, input = "idle", ~b_paused,
                      ~b_buffering, steps = 0, NEW e \in selected
               PROVE  thread[e] # "blocked"
    BY DEF ReleasedWhenIdle
  <2>1. e \in Es /\ ~owner[e].waiting /\ ~owner[e].paused
    BY DEF TypeOK, NoneLeftWaiting, HoldInv, PauseKnown
  <2> QED
    BY <2>1 DEF SleepInv, BlockedInTurn, MayPass
<1> QED
  BY <1>1, Progress, NobodyLeftWaiting, TypeCorrect, PTL
=============================================================================
