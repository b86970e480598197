------------------------------- MODULE Decoder -------------------------------
(* The decoder threads of an input (src/input/decoder.c) under the calls the *)
(* input thread makes through es_out (src/input/es_out.c): the flags both    *)
(* sides read and write, and the waits on wait_request and wait_acknowledge. *)
(* The block FIFO between them is the one of BlockFifo, taken as a sequence. *)
(* The input thread loops over its decoders in any order.                    *)
EXTENDS Integers, Sequences

CONSTANTS
    Es,        \* the elementary streams
    Cats,      \* what their categories may be
    SoutModes, \* whether the input feeds a (paced) stream output or plays
    Packetized, \* those whose decoder has a packetizer
    FifoMax,   \* blocks that fill up a FIFO that is not paced
    PaceDepth, \* blocks above which block_FifoPace blocks
    MaxOut,    \* pictures or buffers that one block may give
    MaxBlocks, \* bound on the blocks demuxed
    MaxOps,    \* bound on the requests to the input thread
    MaxSteps   \* bound on the frame steps among them

ASSUME InputsAssumption ==
    Cats \subseteq [Es -> {"video", "audio", "spu"}] /\ SoutModes \subseteq BOOLEAN
ASSUME PacketizedAreEs == Packetized \subseteq Es
ASSUME BoundsAreNat ==
    /\ FifoMax \in Nat /\ PaceDepth \in Nat /\ MaxOut \in Nat \ {0}
    /\ MaxBlocks \in Nat /\ MaxSteps \in Nat /\ MaxOps \in Nat

VARIABLES
    (* the input thread, in es_out *)
    cat, sout, \* the category of each stream; the input has a stream output
    b_buffering, b_paused,
    extra,     \* i_buffering_extra_initial > 0
    b_eof,
    selected,  \* the streams that have a decoder
    input,     \* where it is: idle, or in a loop over the decoders
    op,        \* the request that loop serves
    todo,      \* the decoders the loop has not come to
    cur,       \* the decoder it is at
    asleep,    \* it waits on wait_acknowledge of cur
    sent, steps, ops,
    (* each decoder *)
    owner,     \* the flags of decoder_owner_sys_t
    fifo,      \* its blocks
    b_force_wake,
    cancelled,
    thread,    \* where its thread is
    block,     \* the block its thread processes
    stale,     \* what that block gives was sent before the last flush request
    left,      \* pictures or buffers that block has yet to give
    was_paused \* b_paused in DecoderPlayAudio

media == <<cat, sout>>
esOut == <<media, b_buffering, b_paused, extra, b_eof, selected, sent, steps, ops>>
loop == <<input, op, todo, cur, asleep>>
pipe == <<fifo, b_force_wake, cancelled>>
worker == <<thread, block, stale, left, was_paused>>
vars == <<esOut, loop, owner, pipe, worker>>

Blocks == {"data", "flush", "eos"}

Flags == [paused : BOOLEAN, ignore : 0..MaxSteps, waiting : BOOLEAN, first : BOOLEAN,
          has_data : BOOLEAN, vout : BOOLEAN, flushing : BOOLEAN, exit : BOOLEAN]

\* Where a decoder thread is: in its main loop, or on its way to the output with
\* a picture or a buffer.
Loop == {"none", "get", "signal", "stopwait", "decode", "ended"}
Playing == {"alloc", "allocsignal", "play", "unblock", "blocked", "date", "datecheck", "put"}
Places == Loop \cup Playing

TypeOK ==
    /\ cat \in Cats /\ sout \in SoutModes
    /\ b_buffering \in BOOLEAN /\ b_paused \in BOOLEAN /\ extra \in BOOLEAN /\ b_eof \in BOOLEAN
    /\ selected \subseteq Es
    /\ input \in {"idle", "start", "flush", "waitall", "wait", "stopwait", "pause", "join", "pace"}
    /\ op \in {"none", "seek", "select", "pause", "resume"}
    /\ todo \subseteq Es /\ cur \in Es /\ asleep \in BOOLEAN
    /\ sent \in 0..MaxBlocks /\ steps \in 0..MaxSteps /\ ops \in 0..MaxOps
    /\ owner \in [Es -> Flags]
    /\ \A e \in Es : owner[e].ignore <= steps
    /\ fifo \in [Es -> Seq(Blocks)]
    /\ b_force_wake \in [Es -> BOOLEAN] /\ cancelled \in [Es -> BOOLEAN]
    /\ thread \in [Es -> Places]
    /\ block \in [Es -> Blocks \cup {"none"}]
    /\ left \in [Es -> 0..MaxOut]
    /\ stale \in [Es -> BOOLEAN] /\ was_paused \in [Es -> BOOLEAN]

\* What a decoder does with its data; with a stream output it is a packetizer.
Kind(e) == IF sout THEN "sout" ELSE cat[e]

\* CreateDecoder
NewOwner == [paused |-> FALSE, ignore |-> 0, waiting |-> FALSE, first |-> TRUE,
             has_data |-> FALSE, vout |-> FALSE, flushing |-> FALSE, exit |-> FALSE]

\* The input has opened its streams: it is buffering, no decoder exists yet.
Init ==
    /\ cat \in Cats /\ sout \in SoutModes
    /\ b_buffering = TRUE /\ b_paused = FALSE /\ extra = FALSE /\ b_eof = FALSE
    /\ selected = {}
    /\ input = "idle" /\ op = "none" /\ todo = {} /\ cur \in Es /\ asleep = FALSE
    /\ sent = 0 /\ steps = 0 /\ ops = 0
    /\ owner = [e \in Es |-> NewOwner]
    /\ fifo = [e \in Es |-> <<>>]
    /\ b_force_wake = [e \in Es |-> FALSE] /\ cancelled = [e \in Es |-> FALSE]
    /\ thread = [e \in Es |-> "none"]
    /\ block = [e \in Es |-> "none"]
    /\ left = [e \in Es |-> 0]
    /\ stale = [e \in Es |-> FALSE] /\ was_paused = [e \in Es |-> FALSE]

-----------------------------------------------------------------------------
(* Condition variables.  The decoder thread alone waits on wait_request, the *)
(* input thread alone on wait_acknowledge.                                   *)

SignalRequest_Missing(e) == thread' = thread
SignalRequest(e) ==
    thread' = [thread EXCEPT ![e] = CASE @ = "blocked" -> "unblock"
                                      [] @ = "date" -> "datecheck"
                                      [] OTHER -> @]

SignalAcknowledge(e) == asleep' = (asleep /\ cur # e)

-----------------------------------------------------------------------------
(* The input thread: creating and deleting decoders                          *)

\* A new request to the input thread, which serves one at a time.
Request == input = "idle" /\ ops < MaxOps /\ ops' = ops + 1

\* EsCreateDecoder.  A decoder created while the input buffers waits with the
\* others.
Select(e) ==
    /\ Request /\ e \notin selected
    /\ selected' = selected \cup {e}
    /\ owner' = [owner EXCEPT ![e] = NewOwner]
    /\ fifo' = [fifo EXCEPT ![e] = <<>>]
    /\ b_force_wake' = [b_force_wake EXCEPT ![e] = FALSE]
    /\ cancelled' = [cancelled EXCEPT ![e] = FALSE]
    /\ thread' = [thread EXCEPT ![e] = "get"]
    /\ block' = [block EXCEPT ![e] = "none"]
    /\ left' = [left EXCEPT ![e] = 0]
    /\ IF b_buffering
       THEN input' = "start" /\ op' = "select" /\ todo' = {e}
       ELSE UNCHANGED <<input, op, todo>>
    /\ UNCHANGED <<media, b_buffering, b_paused, extra, b_eof, sent, steps, cur, asleep, stale, was_paused>>

\* What input_DecoderDelete clears so that nothing blocks the thread.
Released(o) == [o EXCEPT !.paused = FALSE, !.waiting = FALSE, !.flushing = TRUE, !.exit = TRUE]

\* EsDestroyDecoder.
Unselect(e) ==
    /\ Request /\ e \in selected
    /\ cancelled' = [cancelled EXCEPT ![e] = TRUE]
    /\ owner' = [owner EXCEPT ![e] = Released(@)]
    /\ SignalRequest(e)
    /\ input' = "join" /\ cur' = e
    /\ UNCHANGED <<media, b_buffering, b_paused, extra, b_eof, selected, sent, steps, op, todo, asleep,
                   fifo, b_force_wake, block, stale, left, was_paused>>

Join ==
    /\ input = "join" /\ thread[cur] = "ended"
    /\ selected' = selected \ {cur}
    /\ input' = "idle"
    /\ UNCHANGED <<media, b_buffering, b_paused, extra, b_eof, sent, steps, ops, op, todo, cur, asleep,
                   owner, pipe, worker>>

-----------------------------------------------------------------------------
(* The input thread: positions and buffering                                 *)

\* A seek, or a discontinuity of the stream: EsOutChangePosition.
ChangePosition ==
    /\ Request
    /\ input' = "start" /\ op' = "seek" /\ todo' = selected
    /\ b_eof' = FALSE
    /\ UNCHANGED <<media, b_buffering, b_paused, extra, selected, sent, steps, cur, asleep,
                   owner, pipe, worker>>

\* input_DecoderStartWait up to the wait of DecoderFlush.  What the thread works
\* on is stale from here on.
StartWait(e) ==
    /\ input = "start" /\ e \in todo
    /\ todo' = todo \ {e} /\ cur' = e
    /\ fifo' = [fifo EXCEPT ![e] = <<"flush">>]
    /\ stale' = [stale EXCEPT ![e] = thread[e] # "get"]
    /\ owner' = [owner EXCEPT ![e].waiting = FALSE, ![e].flushing = TRUE]
    /\ SignalRequest(e)
    /\ input' = "flush"
    /\ UNCHANGED <<esOut, op, asleep, b_force_wake, cancelled, block, left, was_paused>>

\* The end of DecoderFlush, and of input_DecoderStartWait.
Flushed ==
    /\ input = "flush" /\ ~asleep
    /\ IF owner[cur].flushing
       THEN asleep' = TRUE /\ UNCHANGED <<input, owner, thread>>
       ELSE /\ owner' = [owner EXCEPT ![cur].first = TRUE, ![cur].has_data = FALSE,
                                      ![cur].waiting = TRUE]
            /\ SignalRequest(cur)
            /\ input' = "start"
            /\ UNCHANGED asleep
    /\ UNCHANGED <<esOut, op, todo, cur, pipe, block, stale, left, was_paused>>

\* After a seek the input buffers, and forgets the frame steps.
AllStarted ==
    /\ input = "start" /\ todo = {}
    /\ input' = "idle"
    /\ IF op = "seek" THEN b_buffering' = TRUE /\ extra' = FALSE ELSE UNCHANGED <<b_buffering, extra>>
    /\ UNCHANGED <<media, b_paused, b_eof, selected, sent, steps, ops, op, todo, cur, asleep,
                   owner, pipe, worker>>

\* What the main loop of the input does between two requests: it demuxes, and at
\* the end of the stream asks es_out whether the decoders are empty.
Demuxing == input = "idle" /\ ~b_eof /\ (~b_paused \/ b_buffering)
PollingEmpty == input = "idle" /\ b_eof /\ ~b_paused

\* EsOutDecodersStopBuffering: enough is buffered, or the stream has ended.
\* After frame steps the decoders are taken for being let go already.
StopBuffering ==
    /\ b_buffering /\ (Demuxing \/ PollingEmpty)
    /\ b_buffering' = FALSE
    /\ IF extra
       THEN UNCHANGED <<input, todo>>
       ELSE input' = "waitall" /\ todo' = {e \in selected : cat[e] # "spu"}
    /\ UNCHANGED <<media, b_paused, extra, b_eof, selected, sent, steps, ops, op, cur, asleep,
                   owner, pipe, worker>>

\* input_DecoderWait from the test of its condition on.
MustWait_NotPaused(o) == o.waiting /\ ~o.has_data /\ ~o.paused
MustWait(o) == o.waiting /\ ~o.has_data

WaitFor(e, rest) ==
    /\ IF MustWait(owner[e])
       THEN /\ b_force_wake' = [b_force_wake EXCEPT ![e] = TRUE]
            /\ input' = "wait" /\ asleep' = TRUE
       ELSE input' = "waitall" /\ UNCHANGED <<b_force_wake, asleep>>
    /\ cur' = e /\ todo' = rest
    /\ UNCHANGED <<esOut, op, owner, fifo, cancelled, worker>>

Wait(e) == input = "waitall" /\ e \in todo /\ WaitFor(e, todo \ {e})
WaitAgain == input = "wait" /\ ~asleep /\ WaitFor(cur, todo)

AllReady_ButTheLast ==
    /\ input = "waitall" /\ todo = {}
    /\ input' = "stopwait" /\ todo' = selected \ {cur}
    /\ UNCHANGED <<esOut, op, cur, asleep, owner, pipe, worker>>
AllReady ==
    /\ input = "waitall" /\ todo = {}
    /\ input' = "stopwait" /\ todo' = selected
    /\ UNCHANGED <<esOut, op, cur, asleep, owner, pipe, worker>>

StopWait(e) ==
    /\ input = "stopwait" /\ e \in todo
    /\ todo' = todo \ {e}
    /\ owner' = [owner EXCEPT ![e].waiting = FALSE]
    /\ SignalRequest(e)
    /\ UNCHANGED <<esOut, input, op, cur, asleep, pipe, block, stale, left, was_paused>>

-----------------------------------------------------------------------------
(* The input thread: pause and frame steps                                   *)

\* EsOutChangePause.  Only this thread reads b_paused of es_out.
ChangePause ==
    /\ Request
    /\ b_paused' = ~b_paused
    /\ extra' = (extra /\ ~b_paused)
    /\ input' = "pause" /\ op' = (IF b_paused THEN "resume" ELSE "pause")
    /\ todo' = selected
    /\ UNCHANGED <<media, b_buffering, b_eof, selected, sent, steps, cur, asleep, owner, pipe, worker>>

\* input_DecoderChangePause
PauseDecoder(e) ==
    /\ input = "pause" /\ e \in todo
    /\ todo' = todo \ {e}
    /\ IF owner[e].paused # (op = "pause")
       THEN /\ owner' = [owner EXCEPT ![e].paused = (op = "pause"), ![e].ignore = 0]
            /\ SignalRequest(e)
       ELSE UNCHANGED <<owner, thread>>
    /\ UNCHANGED <<esOut, input, op, cur, asleep, pipe, block, stale, left, was_paused>>

\* The loops that end without more to do.
LoopEnds ==
    /\ input \in {"stopwait", "pause"} /\ todo = {}
    /\ input' = "idle"
    /\ UNCHANGED <<esOut, op, todo, cur, asleep, owner, pipe, worker>>

\* EsOutFrameNext on a video stream, whose decoder has a video output, not yet,
\* or never if it feeds a stream output.  It gives up if the clock is not set.
FrameNext(e) ==
    /\ Request /\ b_paused /\ ~b_buffering /\ steps < MaxSteps
    /\ e \in selected /\ cat[e] = "video"
    /\ steps' = steps + 1
    /\ IF owner[e].paused /\ owner[e].vout
       THEN owner' = [owner EXCEPT ![e].ignore = @ + 1] /\ SignalRequest(e)
       ELSE UNCHANGED <<owner, thread>>
    /\ \/ b_buffering' = TRUE /\ extra' \in {TRUE, extra}
       \/ ~extra /\ UNCHANGED <<b_buffering, extra>>
    /\ UNCHANGED <<media, b_paused, b_eof, selected, sent, loop, pipe, block, stale, left, was_paused>>

-----------------------------------------------------------------------------
(* The input thread: data                                                    *)

\* A FIFO that is not paced is emptied when it is full.
Put(f, b) == Append(IF Len(f) >= FifoMax THEN <<>> ELSE f, b)

\* EsOutSend and input_DecoderDecode.  Streams that go to the stream output are
\* paced, unless their decoder waits.
MayPace(e) == sout /\ ~owner[e].waiting

Send(e) ==
    /\ Demuxing /\ e \in selected /\ sent < MaxBlocks
    /\ sent' = sent + 1
    /\ IF MayPace(e) /\ Len(fifo[e]) > PaceDepth
       THEN input' = "pace" /\ cur' = e /\ UNCHANGED fifo
       ELSE /\ fifo' = [fifo EXCEPT ![e] = IF sout THEN Append(@, "data") ELSE Put(@, "data")]
            /\ UNCHANGED <<input, cur>>
    /\ UNCHANGED <<media, b_buffering, b_paused, extra, b_eof, selected, steps, ops, op, todo, asleep,
                   owner, b_force_wake, cancelled, worker>>

\* The end of block_FifoPace.
Paced ==
    /\ input = "pace" /\ Len(fifo[cur]) <= PaceDepth
    /\ fifo' = [fifo EXCEPT ![cur] = Append(@, "data")]
    /\ input' = "idle"
    /\ UNCHANGED <<esOut, op, todo, cur, asleep, owner, b_force_wake, cancelled, worker>>

\* The end of the stream: ES_OUT_SET_EOS, which does not pace.
EndOfStream ==
    /\ Demuxing
    /\ b_eof' = TRUE
    /\ fifo' = [e \in Es |-> IF e \in selected THEN Put(fifo[e], "eos") ELSE fifo[e]]
    /\ UNCHANGED <<media, b_buffering, b_paused, extra, selected, sent, steps, ops, loop,
                   owner, b_force_wake, cancelled, worker>>

-----------------------------------------------------------------------------
(* The decoder thread: the main loop                                         *)

\* block_FifoGet; a thread past its cancellation point still gets a block.  A
\* flush block gives what the codec still held.
Get(e) ==
    /\ thread[e] = "get" /\ (fifo[e] # <<>> \/ b_force_wake[e])
    /\ block' = [block EXCEPT ![e] = IF fifo[e] = <<>> THEN "none" ELSE Head(fifo[e])]
    /\ fifo' = [fifo EXCEPT ![e] = IF @ = <<>> THEN @ ELSE Tail(@)]
    /\ b_force_wake' = [b_force_wake EXCEPT ![e] = FALSE]
    /\ stale' = [stale EXCEPT ![e] = block'[e] = "flush"]
    /\ thread' = [thread EXCEPT ![e] = "signal"]
    /\ UNCHANGED <<esOut, loop, owner, cancelled, left, was_paused>>

Cancelled(e) ==
    /\ thread[e] = "get" /\ cancelled[e]
    /\ thread' = [thread EXCEPT ![e] = "ended"]
    /\ UNCHANGED <<esOut, loop, owner, pipe, block, stale, left, was_paused>>

\* DecoderSignalWait
SignalWait(e, has_data) ==
    IF owner[e].waiting
    THEN /\ owner' = [owner EXCEPT ![e].has_data = @ \/ has_data]
         /\ SignalAcknowledge(e)
    ELSE UNCHANGED <<owner, asleep>>

EndWait(e) == block[e] \in {"none", "eos"}

\* The end of a sound stream: without a packetizer to empty, DecoderPlayAudio is
\* called with nothing.
Drains(e) == Kind(e) = "audio" /\ e \notin Packetized /\ block[e] = "eos"

\* The codec will give any number of pictures or buffers out of the block, none
\* once it has failed.
Process(e) ==
    IF block[e] = "none"
    THEN thread' = [thread EXCEPT ![e] = "get"] /\ UNCHANGED left
    ELSE /\ thread' = [thread EXCEPT ![e] = "decode"]
         /\ \E n \in 0..(IF Drains(e) THEN 1 ELSE MaxOut) : left' = [left EXCEPT ![e] = n]

Signal(e) ==
    /\ thread[e] = "signal"
    /\ SignalWait(e, EndWait(e))
    /\ IF EndWait(e) THEN thread' = [thread EXCEPT ![e] = "stopwait"] /\ UNCHANGED left ELSE Process(e)
    /\ UNCHANGED <<esOut, input, op, todo, cur, pipe, block, stale, was_paused>>

\* input_DecoderStopWait called by the decoder thread itself.
StopOwnWait(e) ==
    /\ thread[e] = "stopwait"
    /\ owner' = [owner EXCEPT ![e].waiting = FALSE]
    /\ Process(e)
    /\ UNCHANGED <<esOut, loop, pipe, block, stale, was_paused>>

\* DecoderProcessOnFlush, at the end of DecoderProcess.
Acknowledges_Any(e) == owner[e].flushing
Acknowledges(e) == block[e] = "flush" /\ owner[e].flushing

BlockDone(e) ==
    /\ thread[e] = "decode" /\ left[e] = 0
    /\ IF Acknowledges(e)
       THEN owner' = [owner EXCEPT ![e].flushing = FALSE] /\ SignalAcknowledge(e)
       ELSE UNCHANGED <<owner, asleep>>
    /\ thread' = [thread EXCEPT ![e] = "get"]
    /\ UNCHANGED <<esOut, input, op, todo, cur, pipe, block, stale, left, was_paused>>

-----------------------------------------------------------------------------
(* The decoder thread: getting and playing pictures and buffers              *)

\* The thread goes on with the block, that may give n more.
Continue(e, n) ==
    /\ thread' = [thread EXCEPT ![e] = "decode"]
    /\ left' = [left EXCEPT ![e] = n]

\* One more picture or buffer; the first picture opens a video output.  No more
\* sound is taken out of a codec when the decoder is being deleted.
Decode(e) ==
    /\ thread[e] = "decode" /\ left[e] > 0
    /\ IF Kind(e) = "audio" /\ owner[e].exit /\ ~Drains(e)
       THEN Continue(e, 0)
       ELSE /\ thread' = [thread EXCEPT ![e] = IF Kind(e) = "video" THEN "alloc" ELSE "play"]
            /\ UNCHANGED left
    /\ owner' = [owner EXCEPT ![e].vout = @ \/ Kind(e) = "video"]
    /\ UNCHANGED <<esOut, loop, pipe, block, stale, was_paused>>

\* vout_new_buffer and DecoderDecodeVideo look whether the decoder is being
\* deleted.
VideoExit(e) ==
    /\ thread[e] \in {"alloc", "play"} /\ Kind(e) = "video" /\ owner[e].exit
    /\ Continue(e, 0)
    /\ UNCHANGED <<esOut, loop, owner, pipe, block, stale, was_paused>>

\* vout_new_buffer: the video output may have no picture free.
GetPicture(e) ==
    /\ thread[e] = "alloc" /\ ~owner[e].exit
    /\ thread' = [thread EXCEPT ![e] = "play"]
    /\ UNCHANGED <<esOut, loop, owner, pipe, block, stale, left, was_paused>>

NoPicture(e) ==
    /\ thread[e] = "alloc" /\ ~owner[e].exit
    /\ IF owner[e].flushing
       THEN Continue(e, 0)
       ELSE thread' = [thread EXCEPT ![e] = "allocsignal"] /\ UNCHANGED left
    /\ UNCHANGED <<esOut, loop, owner, pipe, block, stale, was_paused>>

\* A decoder short of pictures has buffered all it can.
AllocSignal(e) ==
    /\ thread[e] = "allocsignal"
    /\ SignalWait(e, TRUE)
    /\ thread' = [thread EXCEPT ![e] = "alloc"]
    /\ UNCHANGED <<esOut, input, op, todo, cur, pipe, block, stale, left, was_paused>>

\* What lets a thread out of DecoderWaitUnblock.
MayPass_NoFlush(o) ==
    IF o.paused THEN (o.waiting /\ ~o.has_data) \/ o.ignore > 0 ELSE ~o.waiting \/ ~o.has_data
MayPass(o) ==
    \/ o.flushing
    \/ o.paused /\ ((o.waiting /\ ~o.has_data) \/ o.ignore > 0)
    \/ ~o.paused /\ (~o.waiting \/ ~o.has_data)

UsesStep_Never(o) == FALSE
UsesStep(o) == o.paused /\ ~o.flushing /\ ~(o.waiting /\ ~o.has_data)

\* The thread leaves DecoderWaitUnblock with flags o, or sleeps in it.  A first
\* picture is shown while the decoder waits; sound and subtitles wait for their
\* date; the stream output takes the block, or fails for good.
Unblock(e, o) ==
    LET dated == Kind(e) \in {"audio", "spu"}
        stepped == IF UsesStep(o) THEN [o EXCEPT !.ignore = @ - 1] ELSE o
        shown == IF Kind(e) = "video" /\ o.waiting THEN [stepped EXCEPT !.first = FALSE] ELSE stepped
    IN  IF ~MayPass(o)
        THEN /\ owner' = [owner EXCEPT ![e] = o]
             /\ thread' = [thread EXCEPT ![e] = "blocked"]
             /\ UNCHANGED <<left, was_paused>>
        ELSE /\ owner' = [owner EXCEPT ![e] = shown]
             /\ was_paused' = [was_paused EXCEPT ![e] = o.paused]
             /\ IF o.flushing \/ (dated /\ o.exit) \/ Drains(e)
                THEN Continue(e, IF sout THEN 0 ELSE left[e] - 1)
                ELSE /\ thread' = [thread EXCEPT ![e] = IF dated THEN "date" ELSE "put"]
                     /\ UNCHANGED left

\* DecoderPlayVideo, DecoderPlayAudio, DecoderPlaySpu or DecoderPlaySout.  The
\* first picture after a seek does not count as data.
Counts(e) == owner[e].waiting /\ ~Drains(e) /\ (Kind(e) # "video" \/ ~owner[e].first)

Play(e) ==
    /\ thread[e] = "play"
    /\ IF Counts(e)
       THEN Unblock(e, [owner[e] EXCEPT !.has_data = TRUE]) /\ SignalAcknowledge(e)
       ELSE Unblock(e, owner[e]) /\ UNCHANGED asleep
    /\ UNCHANGED <<esOut, input, op, todo, cur, pipe, block, stale>>

PlayAgain(e) ==
    /\ thread[e] = "unblock"
    /\ Unblock(e, owner[e])
    /\ UNCHANGED <<esOut, loop, pipe, block, stale>>

Spurious(e) ==
    /\ thread[e] = "blocked"
    /\ thread' = [thread EXCEPT ![e] = "unblock"]
    /\ UNCHANGED <<esOut, loop, owner, pipe, block, stale, left, was_paused>>

\* The end of DecoderWaitDate.  Sound starts over when a pause began or ended
\* meanwhile.
DateEnds_NoRetry(e, reject) ==
    /\ IF reject
       THEN Continue(e, left[e] - 1)
       ELSE thread' = [thread EXCEPT ![e] = "put"] /\ UNCHANGED left
    /\ UNCHANGED <<owner, was_paused>>
DateEnds(e, reject) ==
    IF Kind(e) = "audio" /\ owner[e].paused # was_paused[e]
    THEN Unblock(e, owner[e])
    ELSE /\ IF reject
            THEN Continue(e, left[e] - 1)
            ELSE thread' = [thread EXCEPT ![e] = "put"] /\ UNCHANGED left
         /\ UNCHANGED <<owner, was_paused>>

DateReached(e) ==
    /\ thread[e] \in {"date", "datecheck"}
    /\ DateEnds(e, FALSE)
    /\ UNCHANGED <<esOut, loop, pipe, block, stale>>

DateSignalled(e) ==
    /\ thread[e] = "datecheck"
    /\ IF owner[e].flushing \/ owner[e].exit
       THEN DateEnds(e, TRUE)
       ELSE thread' = [thread EXCEPT ![e] = "date"] /\ UNCHANGED <<owner, left, was_paused>>
    /\ UNCHANGED <<esOut, loop, pipe, block, stale>>

\* The picture or the buffer is in the output.
Output(e) ==
    /\ thread[e] = "put"
    /\ Continue(e, left[e] - 1)
    /\ UNCHANGED <<esOut, loop, owner, pipe, block, stale, was_paused>>

-----------------------------------------------------------------------------
DecoderThread(e) ==
    \/ Get(e) \/ Cancelled(e) \/ Signal(e) \/ StopOwnWait(e) \/ BlockDone(e)
    \/ Decode(e) \/ VideoExit(e) \/ GetPicture(e) \/ NoPicture(e) \/ AllocSignal(e)
    \/ Play(e) \/ PlayAgain(e) \/ DateReached(e) \/ DateSignalled(e) \/ Output(e)

InputReturning ==
    \/ Join \/ Flushed \/ AllStarted \/ WaitAgain \/ AllReady \/ LoopEnds \/ Paced
    \/ \E e \in Es : StartWait(e) \/ Wait(e) \/ StopWait(e) \/ PauseDecoder(e)

InputRequests ==
    \/ ChangePosition \/ StopBuffering \/ ChangePause \/ EndOfStream
    \/ \E e \in Es : Select(e) \/ Unselect(e) \/ FrameNext(e) \/ Send(e)

Next == InputRequests \/ InputReturning \/ \E e \in Es : DecoderThread(e) \/ Spurious(e)

Spec == Init /\ [][Next]_vars

\* Both threads run, and dates come.  Nothing says that the video output ever
\* has a free picture, nor that the input gets more requests or data.
Fairness ==
    /\ WF_vars(InputReturning)
    /\ \A e \in Es : WF_vars(DecoderThread(e))

FairSpec == Spec /\ Fairness

-----------------------------------------------------------------------------
(* Properties                                                                *)

\* input_DecoderStartWait is a barrier: once its flush is acknowledged, nothing
\* that was sent before the seek is being decoded or played any more.
SeekIsBarrier ==
    \A e \in Es : stale[e] /\ thread[e] \notin {"get", "ended"} => owner[e].flushing

\* Decoders are let go together: none before each stream but the subtitles has
\* something to play.
ReadyTogether ==
    input = "stopwait" =>
        \A e \in selected : cat[e] # "spu" => owner[e].has_data \/ ~owner[e].waiting

\* Wherever es_out may call input_DecoderIsEmpty, which asserts it, no decoder
\* waits: nothing but the end of a buffering would let it go.  Frame steps break
\* it (EmptyAsserted).
NoneLeftWaiting == input = "idle" /\ ~b_buffering /\ steps = 0 =>
    \A e \in selected : ~owner[e].waiting

\* A picture or sound comes out only when its decoder may play.  Of a decoder that
\* waits nothing comes out but the first picture, or one picture per frame step;
\* of a paused one no sound, which DecoderPlayAudio asserts, and no picture but
\* these.  A frame step is used up by the picture it lets out.
Stepped(e) == owner'[e].ignore = owner[e].ignore - 1
OutputInTurn ==
    [][\A e \in Es : thread[e] # "put" /\ thread'[e] = "put" =>
            /\ owner[e].waiting => Kind(e) = "video" /\ (owner[e].first \/ Stepped(e))
            /\ Kind(e) = "audio" => ~owner[e].paused
            /\ Kind(e) = "video" /\ owner[e].paused =>
                   (owner[e].waiting /\ owner[e].first) \/ Stepped(e)]_vars

\* What the input thread waits for in the decoder it is at: an acknowledgement,
\* the end of the thread, or room in the FIFO.
WaitsForThread ==
    \/ asleep
    \/ input = "join" /\ thread[cur] # "ended"
    \/ input = "pace" /\ Len(fifo[cur]) > PaceDepth

\* A decoder thread that does not go on by itself: it has no block, or is held
\* back in DecoderWaitUnblock.
Stopped(e) ==
    \/ thread[e] \in {"none", "ended", "blocked"}
    \/ thread[e] = "get" /\ fifo[e] = <<>> /\ ~b_force_wake[e] /\ ~cancelled[e]

\* The input thread and a decoder never wait for each other: while the one waits
\* for the other's acknowledgement, end or progress, the other does not sleep
\* (but when it is paced after a frame step, see SendReturns).
NoMutualWait == WaitsForThread /\ ~(input = "pace" /\ steps > 0) => ~Stopped(cur)

\* Whatever the input thread is asked, it comes back from the decoders, except
\* from a paced FIFO after frame steps (SendReturns).
InputReturns == input # "idle" /\ ~(input = "pace" /\ steps > 0) ~> input = "idle"

\* A decoder does not stay blocked while the input neither pauses nor buffers.
\* Frame steps break it (EmptyAsserted).
DecoderReleased ==
    \A e \in Es : thread[e] = "blocked" ~> thread[e] # "blocked" \/ b_paused \/ b_buffering
                                                   \/ steps > 0

\* The assertion of input_DecoderIsEmpty, where the main loop has es_out call it:
\* at the end of the stream no decoder waits.
EmptyAsserted == PollingEmpty /\ ~b_buffering => \A e \in selected : ~owner[e].waiting

\* Pacing never deadlocks, as the comment of input_DecoderDecode has it.
SendReturns == input = "pace" ~> input # "pace"
=============================================================================
