# A TLA+ verification of the VLC core

The repository is the source tree of VLC 2.2.0 (`src/vlc-2.2.0`) with a few
vendored trees beside it (minidlna, contrib, gettext catalogues).  This directory
holds TLA+ models of libvlccore, the part of it that everything else is plugged
into, with the TLC configurations that check them and the TLAPS proofs about them.

## 1. Inventory

| Component | Source | State it keeps | Who touches it | What is hard about it |
|---|---|---|---|---|
| block FIFO | `src/misc/block.c` | linked list, tail pointer, depth, bytes, forced wake-up flag; two condition variables | input thread, decoder thread, access threads | lost wake-ups, cancellation inside a wait, stale tail pointer |
| timer | `src/posix/timer.c` | next date, interval, overruns; one thread per timer | any thread | re-arming races with the callback and with the time-out |
| picture pool | `src/misc/picture_pool.c` | per picture: a reference count and a list link; slave pools | decoder, video filters, video output | release of the last reference racing with the deletion of the pool |
| picture FIFO | `src/misc/picture_fifo.c` | linked list and tail pointer under a lock | decoder, video output | flush by date, in the middle of the list |
| video output control | `src/video_output/control.c` | command array, `is_dead`, `can_sleep`, `is_processing`; two condition variables | input and interface threads, video output thread | `WaitEmpty` must mean "executed", not "popped" |
| snapshot | `src/video_output/snapshot.c` | available flag, request count, list of pictures | interface threads, video output thread | a request that times out while its picture is on the way |
| decoder | `src/input/decoder.c` | pause, wait, flush, delay and preroll flags, first/has-data, its block FIFO; one thread | input thread (through es\_out), decoder thread, outputs | flags written by both threads, waits that must be let go on pause, flush and destruction |
| es\_out | `src/input/es_out.c` | programs, elementary streams, buffering state, pause state, rate | input thread | the order in which it starts, waits for and releases decoders |
| time shift | `src/input/es_out_timeshift.c` | command store between input and es\_out; a thread | input thread, time shift thread | replaying commands with a delay while commands still arrive |
| input thread | `src/input/input.c`, `control.c`, `var.c`, `event.c`, `resource.c` | state, control queue, seek points, resources | input thread, interfaces | control queue reduction, stop racing with a start |
| clock | `src/input/clock.c` | reference point, drift average, lateness table, pause date | input and decoder threads | conversion must stay monotone through rate changes and pauses |
| stream cache | `src/input/stream.c` | ring buffers | input thread | wrap-around and seeks |
| playlist | `src/playlist/*.c` | item tree, current array, request, the running input | playlist thread, interfaces | signals against the state the thread tests, restart of inputs |
| preparser and fetcher | `src/playlist/preparser.c`, `fetcher.c` | queue of items and a live flag; a detached thread | playlist, interfaces | the hand-over when the thread exits as an item is pushed |
| objects and variables | `src/misc/objects.c`, `variables.c`, `events.c` | reference counts, tree links, variable callbacks | every thread | callbacks that run while they are removed |
| threads | `src/posix/thread.c`, `src/misc/threads.c` | semaphores, rw-locks, thread cancellation | every thread | recursive read locks, writer starvation |
| video output | `src/video_output/video_output.c`, `vout_subpictures.c` | displayed picture, pause, filters, heap of subpictures | video output thread | display dates, filters over time |
| audio output | `src/audio_output/*.c` | synchronisation end, rate, requested volume | decoder thread, interfaces | drift correction, restart requests |
| stream output | `src/stream_output/*.c` | chain of modules, muxer inputs, announces | decoder threads | muxer waits for all its inputs |
| network servers | `src/network/*.c` | HTTP hosts, URLs, clients; TLS sessions | server thread, callers | client state machine |
| VLM | `src/input/vlm.c`, `vlmshell.c` | media, instances, schedules; a manager thread | interfaces, manager thread | schedules and instance removal |
| libvlc API | `lib/*.c` | media player, list player, event managers | applications | events delivered asynchronously during detach |
| modules, configuration, text, interface glue | `src/modules`, `src/config`, `src/text`, `src/interface` | banks and tables | start-up | none beyond start-up order |
| plugins | `modules/` | - | - | third-party formats and devices: out of scope |

They interact by direct calls under locks, by condition variables, and by
callbacks: the input thread reads and demultiplexes, `es_out` turns what it finds
into decoders and hands each a stream of blocks through a block FIFO; a decoder
thread produces pictures from the pool of the video output and puts them in its
picture FIFO, or sound straight into the audio output; the playlist thread owns
the input and is told of its end by a variable callback; timers and interfaces
call into all of them at any time.

Paths below are relative to `src/vlc-2.2.0/` of the repository.

What would make each part correct, beyond what section 3 checks:

| Component | Correct when |
|---|---|
| time shift | commands reach es\_out once, in order, and none is lost when the thread is stopped |
| input thread | the last request of each kind is served, and stopping ends the thread whatever it waits for |
| clock | dates handed to outputs grow with stream dates, through pauses and rate changes |
| preparser and fetcher | every item pushed is handled or released, and deletion waits for the thread |
| objects and variables | no callback runs after `var_DelCallback` has returned |
| libvlc events | no event is delivered after a detach |

## 2. Plan

Modules, in the order of what matters most to the program:

1. `BlockQueue`, `BlockFifo` - the queue between every producer thread and its
   consumer. *Done, with proofs, the refinement included.*
2. `Timer` - *done, with proofs.*
3. `Snapshot` - *done, with proofs.*
4. `VoutControl` - *done, with proofs.*
5. `Decoder` - the composition of es\_out, the decoder threads and their FIFOs,
   the core of playback. It takes the FIFO as a sequence, which is what
   `BlockFifo` is shown to implement. *Done, with proofs of the barrier, of
   the common start, and that the two threads never wait for each other.*
6. `PictureQueue`, `VoutPictures` - the composition of the picture pool, the
   picture FIFO, the video output thread, the decoder that fills it and the input
   thread that commands it. *Done, with proofs of the reference counts, of the fate
   of deleted pools, of the order of display and of when `vout_FixLeaks` may act.*
7. `Playlist` - the playlist thread and the input it owns. *Done, with proofs.*
8. `TimeShift`: the store of commands between the input and es\_out; abstract
   specification: a queue that loses nothing.
9. `Preparser`: the detached thread that hands over to a new one.
10. `InputControl`: the control queue and its reduction, against a reference
    definition over bounded queues.

Next proofs: every safety property that a run expects to hold is proved (a few on
conditions named in sections 3 and 4). So
are the facts most liveness properties rest on, as far as they can be stated without
time: `OnTime` (timer), `NoDeadlock` and `NobodyHeldBack` (decoder),
`ShortWhileOthersWait` (picture pool), `NoForgottenWork` (the others). The next
proofs are those of the modules above, and of the assertions of `NextItem` with
skips by more than one.

To keep the whole project checkable in minutes it stays at a dozen runs and forty
properties: a new module takes the place of weaker runs.

## 3. What is modelled and checked

Conventions. A section of code that holds a lock is one action; a wait on a
condition variable ends the action, because it drops the lock. Condition
variables wake up spuriously where the code's loops allow for it. Definitions
keep the names of the C fields and functions. An operator `X_Something` defined
next to `X` is `X` with a plausible bug; the runs are known to notice it, and no
specification uses it.

### BlockFifo, BlockQueue (`src/misc/block.c`)

`p_first`, `pp_last`, `p_next`, `i_depth`, `i_size` and `b_force_wake` are the
fields of `block_fifo_t`; `wait` and `wait_room` are the threads asleep on the
condition variables; `op` says which call a thread is in. `FifoGet`, `FifoShow`,
`FifoPace`, `FifoPut`, `FifoWake` and `FifoEmpty` are the functions of that name,
`Cancel` and `Unwind` are `vlc_cancel` and the clean-up handlers. A block is a
number, given out in order; `Offset` gives the bytes of the blocks before it.

- `fifo`: a reader that gets and shows, a paced writer that puts chains of up to
  three blocks, a thread that empties and wakes; the reader and the writer are
  cancelled at any time. The links, tail pointer and counters describe one list;
  that list refines `BlockQueue`, an abstract queue on which blocks are put in
  order, taken from the head, or all thrown away; no producer sleeps under its
  limits, no forced wake-up is missed, and no reader sleeps on a block another
  reader is not already coming for; a paced writer gets on and blocks leave, if
  the reader keeps reading (weak fairness of `FifoGet`). Five blocks and chains of
  three are enough for a chain to be cut at any place by a Get, an Empty or a
  cancellation.

The run has one reader and one paced producer, as the FIFOs of the core do. With
several readers and chains of several blocks (or `block_FifoShow`)
`NoStrandedReader` is false: `block_FifoPut` signals once per chain. It is proved
for one reader, and for several that only get, from producers that put one block
at a time (`ReadersNotStranded`); `NoForgottenProducer` holds for any number of
readers and producers. That a forced wake-up is not eaten by a reader that was
leaving anyway is a matter of who calls `block_FifoWake`: `NoMutualWait` and
`InputReturns` of `Decoder` cover it. An empty chain, which `block_FifoPut` ignores,
is left out.

### Timer (`src/posix/timer.c`)

`value`, `interval`, `overruns` are the fields of `struct vlc_timer`; `phase` is
where its thread is, `deadline` what it passed to `vlc_cond_timedwait`, `stamp`
the date it read after the callback. Overruns wrap at `UInt`. The history
variables count the shots since the last `vlc_timer_schedule`.

- `timer`: single-shot and periodic timers re-armed and disarmed at any moment,
  destroyed at any moment, over seven ticks with dates before, at and after
  now. A single shot fires once; shots and overruns account for every period; no
  shot comes ahead of its date (`NeverEarly`); the thread never fires a burst; an
  armed timer that is left alone fires; `vlc_timer_destroy` returns. An unsigned
  holds `UInt` = 4 values here, so that the count of missed periods wraps in the
  run: `NoBurst` speaks of the callbacks whose missed periods fit (`MissesFit`), for
  past that the code does move the date by too little. The clock itself is not
  bounded by it. Fairness: the thread runs, callbacks return, time passes.
- `timer_override` (violated): "This functions overrides any previous call to
  itself" (timer.c:160) is not what happens to a call made during the callback:
  the thread then adds a period to the new date, and even arms a timer that was
  just disarmed if an interval is given. `PeriodsAccounted` and `ArmedTimerFires`
  leave such calls out (`overlapped`).

Seen and not listed as a finding: a thread past its deadline but not yet
holding the lock does not look at the date again, so a timer re-armed for later
just then fires at once. `NeverEarly` says that this is the only way to be early.

### Snapshot (`src/video_output/snapshot.c`)

- `snapshot`: three callers, two calls each, deadlines that pass at any time
  (even before the first test), copies that fail, the output closed at any
  moment. Requests counted and copies not fetched are as many as the calls in
  progress (so no stale copy is given to a later snapshot, and no copy is made
  for nobody); nobody sleeps while a copy is there or the output closes; a call
  returns. Fairness: a timed wait returns at its deadline, and the caller runs.

### VoutControl (`src/video_output/control.c`, its callers in `video_output.c`)

`cmd`, `is_dead`, `can_sleep`, `is_processing` are the fields of
`vout_control_t`. A command is a number; whether it ends the thread (a display
that cannot be started, or `VOUT_CONTROL_CLEAN`) is chosen when it is sent.

- `vout_control`: two clients, two decoders, four commands, three pictures. A
  call that waits returns, after its command has run; nobody waits for a dead
  output; the thread never sleeps on a command or on a picture it has been told
  of; each command is run or freed, once; `vout_Close` ends the thread
  (`CallsReturn` covers both the calls and the end). Fairness: the output thread
  and callers inside a call run.

### VoutPictures, PictureQueue (`src/video_output/video_output.c`, `picture_pool.c`, `picture_fifo.c`)

`refs` is `gc.refcount` of each picture, `zombie` and `freed` say what
`picture_pool_Delete` and `Destroy` did with those of deleted pools, `fifo` is
`decoder_fifo`, `current`, `next` and `decoded` are the fields of
`vout->p->displayed`, `lock` is `picture_lock`. `codec` says what the decoder has
of a picture: to be output (`new`), linked once more to be kept after that
(`linked`), kept only, or forgotten by a faulty codec (`lost`). `thread` and
`task` say which command the output thread executes and how far it is.

Three threads act. The decoder gets, links, puts and releases pictures, asks for
a flush or for another format (a new pool while the codec may keep pictures of
the old one), and tries `vout_FixLeaks` when it gets none. The input thread
pauses, resumes and steps the output, asks whether it is empty, deletes the
decoder (the output is reset) and creates another one. The output thread executes
commands and displays. What it does under `picture_lock` is one action between two
states that others may see; without that lock (a frame step, and what a command
drops) it releases references one by one, each in two steps, the count and
`pf_destroy` (`todo`, `dying`).

- `vout_pictures`: `Dpb` = 1, so pools of three pictures, two formats, one picture
  lost at a time (898 000 states, the largest run: about three minutes). The count
  of a picture is the number of its holders; a picture of a deleted pool goes back
  with its last reference and not before; `vout_FixLeaks` robs the codec only if
  the codec leaks (the pool has room for what the codec and the output may keep);
  what is shown refines `PictureQueue`, the abstract order of display; a decoder
  that waits for a picture finds one. Two formats are enough for a picture to
  outlive its pool; with three pictures, every one of them is needed: one kept by
  the codec, one shown, one decoded last. Fairness: the output thread runs and gets
  `picture_lock` in the end (strong, as the decoder takes it again and again while
  it waits; it sleeps without it between two tries), and dates come.

After `vout_FixLeaks` has taken a picture from somebody who still has it
(`decoder = "robbed"`) nothing more is claimed. What rendering does with a
picture between `picture_Hold` and the release by the display, the reserved
pictures for filters and subpictures, dates, and direct rendering (a pool made by
the display) are left out; so are a request for a format similar to the one in
force, which changes nothing, and a display that cannot be restarted.

### Decoder (`src/input/decoder.c` under `src/input/es_out.c`)

`owner[e]` has the flags of `decoder_owner_sys_t`: `paused` and `ignore` (the
`pause` struct), `waiting`, `first`, `has_data`, `flushing`, `exit`, and `vout`
for a video output that exists. `thread[e]` is where the decoder's thread is
between two sections that hold the lock: waiting for a block, signalling,
decoding, short of a picture, in `DecoderWaitUnblock`, in `DecoderWaitDate`, or
putting a picture in the output. `input` is where the input thread is: idle, or
in a loop over its decoders (`start`/`flush` for `input_DecoderStartWait`,
`waitall`/`wait` for `input_DecoderWait`, `stopwait`, `pause`, `join`, `pace`).
A request is an operation of es\_out at an interface's will: a track selected or
dropped, a seek, a pause or resume, a frame step. `stale[e]` is a history
variable: the block being decoded was sent before the last flush request.

Left out on purpose: formats, preroll, closed captions, delays, programs,
recording, the dates themselves (a date may come at any time), failed
allocations. A codec gives any number of pictures up to `MaxOut` for a block, so
it may fail, and may still hold pictures when a flush or the end comes.

- `decoder`: a video and a sound stream, four requests, two blocks besides the
  flush and end-of-stream blocks. After a flush is acknowledged nothing from
  before the seek is decoded or played; no decoder is let go before each stream
  but the subtitles is ready; es\_out leaves no decoder waiting when it is idle;
  the input thread and the decoders never wait for each other, whichever of the two
  streams it is at (`NoMutualWait`); a waiting decoder lets out nothing but a first
  picture, or one picture for each frame step, and a paused one no sound and no
  picture but these (`OutputInTurn`). Four requests, one of which may be a frame step,
  are enough for select, select, seek and pause in any order, and for a step that is
  not used before the seek; with one picture per block a flush still meets a thread
  in each of its states.
- `decoder_live`: one stream of any category, played or sent to a paced stream
  output, with a frame step among four requests: the input thread and a decoder
  never wait for each other, the input thread comes back from every loop, and a
  decoder does not stay blocked when the input neither pauses nor buffers. Fairness: both
  threads run, so dates come and locks are granted;
  nothing is assumed about free pictures, further data or further requests.
- `decoder_empty`, `decoder_paced` (violated): an assertion and a comment of the
  code that a frame step breaks; see section 5.

### Playlist (`src/playlist/thread.c`, `control.c`, `item.c`, `tree.c`)

`request` is the struct of that name (`b_request`, `i_status`, `p_item`,
`i_skip`), `status`, `playing`, `current`, `index` and `reset` are
`status.i_status`, `status.p_item`, the array `current`, `i_current_index` and
`b_reset_currently_playing`. `phase` is the life of the input's thread up to its
last event, `die` whether it was told to stop, `callback` whether `InputEvent` is
on it. `pc` is where the playlist thread is: it holds the lock in `loop` and
`look`, and drops it to sleep, to remove the callback, to join the input, to
trigger "activity" and to terminate a video output.

A call is one action, since it holds the lock throughout: `PLAYLIST_STOP`,
`PLAYLIST_PLAY`, `PLAYLIST_VIEWPLAY`, `PLAYLIST_PAUSE`, `PLAYLIST_SKIP` by one, an
addition with or without `PLAYLIST_GO`, a deletion, `playlist_Deactivate`
(`Deactivate`, then `Kill` once it has the lock). One node holds all the items;
`loop`, `repeat`, `play-and-stop`, an item with `PLAYLIST_SKIP_FLAG` and the
failure of an input to start are left open: each is a choice of the model where
the code tests it, and so is `PLAYLIST_NO_REBUILD`, which keeps an addition from
signalling the thread. Skips by more than one are left out.

- `playlist`: two items of which one may be deleted (in a shuffled list, whose
  binary search may miss it), shuffling, four calls, inputs that end by themselves
  at any moment. The next input starts only after the last one was joined; the
  thread does not sleep on a request, on its end, nor on an input that has
  finished or has to be told; the index passes the end of the array, which the assertion
  of `NextItem` forbids, only after a pause of a stopped playlist; each
  request is served or overridden and `playlist_Deactivate` returns. Four calls allow a play, a skip or deletion while it is served, another
  request, and the end. An item that cannot be deleted keeps the list from
  becoming empty: see the next run. Fairness: the playlist thread runs, an input
  that is told to die does, a thread that waits for the lock gets it (strong for
  the input's event and `playlist_Deactivate`, as the playlist thread takes the
  lock again and again).
- `playlist_empty` (violated): the same with a list that can become empty; see
  section 5.

`PLAYLIST_PAUSE` is accepted without an input (control.c:125-131): it sets the
status without telling the thread. On a stopped playlist that finished its list
this makes the assertion on the index (thread.c:403) fail. The thread may be ending
the video output with the lock dropped (thread.c:531-534), and then goes straight
on to `NextItem` with the index at the end, or it may be asleep and wake up
spuriously. The model has both: `Abort` is the failed assertion, and the history
variable `idlePaused` says that a stopped playlist was paused in that way and has
not stopped or started an item since. `NeverPastEnd` says that nothing else makes
the assertion fail, however the list shrinks, grows and is shuffled.

Deadlock is not checked where the requests are bounded, or a codec, a caller or an
output may rightly stop for good; the liveness properties say what must not stop.

## 4. What is proved

TLAPS proves the following for all values of the constants; the assumptions are
those named next to the constants and say that bounds are naturals, roles are
disjoint and sets of threads are finite where they are counted.

| Module | Theorems | Inductive invariant |
|---|---|---|
| `BlockFifo_proofs` | types, `ListShape` (and the size), no producer forgotten, no forced wake missed, `RefinesBlockQueue`; no reader stranded, with one reader or with single blocks | the list and its counters support each other: the depth a Get subtracts from is positive because the list is `p_first..pp_last`; sleepers are in the call they sleep in |
| `Timer_proofs` | types, `SingleShotOnce`, `PeriodsAccounted`, `NoBurst`; no lost wake-up, and `NeverEarly` (`OnTime`) | `Spent`: a single shot that has fired has its date at 0 and the thread is not on its way to a second one; a shot under way belongs to the schedule or overlaps it |
| `Snapshot_proofs` | types, `Balanced`, `NoForgottenCaller` | their conjunction is inductive; counting uses the library's facts on cardinalities |
| `VoutControl_proofs` | types, `ExecutedOnReturn`, `NobodyWaitsForTheDead`, `NoForgottenWork`, `CommandsAccounted` | a command a client waits for is queued, running or done, and `is_processing` covers it; each command is in one place; a thread about to sleep has nothing to look at or will not (`can_sleep`) |
| `Decoder_proofs`, `DecoderOutput_proofs` | types, `SeekIsBarrier`, `ReadyTogether`, `NoneLeftWaiting`; `OutputInTurn`, `NoMutualWait`, and that no idle input leaves a decoder blocked (`NobodyHeldBack`) | below |
| `VoutPictures_proofs` | types, `RefsMatch`, `DeadPoolsDrained`, `ShownInOrder`, `RobbedOnlyIfLost`; a decoder short of pictures has some in front of the output (`ShortWhileOthersWait`) | below |
| `Playlist_proofs` | types, `OneInput`, `NoForgottenWork`, `NeverPastEnd` | an input the thread knows of has the callback on it (`Known`), one it closes is past its last event or on the way there (`Closing`), otherwise there is none (`Closed`); between its two looks at an input nobody can ask for anything (`Looking`); the index is in the array while there is an input, or while the status is not stopped and no stopped playlist was paused, until the array is rebuilt (`Within`) |

`SeekIsBarrier` is not inductive: the acknowledgement must come from the flush
block itself. The invariant says that a flush block is alone in its FIFO
(`FlushQueued`) or being handled (`FlushHandled`) only while the input thread is
in `DecoderFlush` for that decoder with `b_flushing` set. Then `Acknowledges`
holds only in a thread that has taken the flush block, and what it works on is
not stale. `ReadyTogether` rests on `PassedAreReady`: a decoder the loop of
`input_DecoderWait` has passed stays ready, because no step of a decoder thread
takes `b_has_data` back or sets `b_waiting` (`Advances`), and the input thread
itself is in that loop. The steps of the decoder thread are handled together by
`ThreadWorks`: all of them but taking a block and acknowledging a flush change
only the thread's place, what is left of its block, and its flags in the
direction `Advances` allows.

`NoneLeftWaiting` rests on `WaitInv`: as long as there was no frame step, a decoder
waits only while the input buffers, or while a loop of the input thread has yet to
let it go; the loop that makes decoders wait ends in a buffering, and the early
return of `EsOutDecodersStopBuffering` needs the extra buffering that only a frame
step leaves. `OutputInTurn` is an action property proved from `OutInv`: what sleeps
in `DecoderWaitUnblock` was counted as data or is a first picture (`Counted`), what
waits for its date was let through by neither a wait nor a pause, but with a frame
step (`LetThrough`), only a decoder that plays pictures has a video output, and
steps (`Stepless`), and when `input_DecoderStartWait` sets `b_waiting` after the
flush the thread has nothing on its way to the output (`NothingLeftToPlay`), so what
it counted before cannot be taken back under it.

`RefsMatch` needs three invariants. `Types` says that a new format is asked only
while there is a pool left. `Control` says that a next picture follows a current
one, that the thread has dropped everything when it looks for a command
(`Settled`), that somebody who peeks has the lock (`PeekLocked`), and that when a
reset ends its decoder is gone, nobody peeks and no picture is in the FIFO or on
screen (`Resetting`): this is why forcing every count to zero takes none away.
`Balanced` adds to the count itself that a picture is in the FIFO once
(`Distinct`) and not before it is put (`Fresh`). A step of the decoder moves one
picture (`OneInDecoder`); a step of the output thread changes each count by what
it and the FIFO gain or lose (`ThreadMoves`, `HoldAndDropBalance`).
`DeadPoolsDrained` rests on it: what somebody holds has a positive count
(`HeldIsCounted`), so a picture of a deleted pool is never taken up again once its
count is zero, and `zombie` and `freed` together are the pictures of deleted pools
(`Drained`).

`ShownInOrder` maps the output to `PictureQueue`: the queue is `current`, `next`
and `decoder_fifo`. Its invariant is `Unseen`: a picture the decoder has still to
put is neither in the FIFO nor on screen, and the last one taken from the FIFO is
not in it, so `Put` puts a new picture and `Again` repeats one that has left. What a
flush, a display or a command takes away leaves the rest in order; the lemmas on
`Within` say so once for sequences with parts removed.

`RobbedOnlyIfLost` is the count that `dpb_size` is for (`Frugal`): the output
thread has at most two pictures in hand, those it is about to drop included
(`InHand`), but when it empties everything, for a decoder that then waits or is
gone (`Works`); a decoder that asks has less than `Dpb` pictures of this pool
(`Asking`); whoever looked into an empty FIFO finds it empty (`Looked`). A pool of
`Dpb` + 2 therefore has one to spare, or the codec has lost one. The same count gives
`ShortWhileOthersWait`.

`RefinesBlockQueue` needs the contents of the FIFO in closed form, while its mapping
follows links step by step. The blocks of the list have consecutive numbers
(`ListShape`), so the contents are those from `p_first` to `pp_last` (`Queued`).
That the walk over `p_next` meets just these is not an induction the provers can do
with the library's theorems; it is proved by a least counterexample (`WalkIsMet`,
`LeastNat`, from `WFMin`, which takes no operator). For several readers
(`ReadersNotStranded`) the number of readers on their way to the lock is compared
with the number of blocks through every step.

`NoMutualWait` rests on `SleepInv`. The flush block the input thread waits for is
the next one of the decoder or in its hands (`FlushAlone`); a decoder it waits for
in `input_DecoderWait` has been force-woken, or is about to answer (`WaitAnswered`);
one it joins is neither paused nor waiting (`JoinReleases`); a thread asleep in
`DecoderWaitUnblock` may not pass, so it missed no signal (`BlockedInTurn`). Pacing
is the last case, and needs `HoldInv`: while the input buffers, all decoders are held
together (`HeldTogether`), and `EsOutSend` paces itself on a decoder only if it is
neither waiting nor, but for a frame step, paused (`PacedFreely`). `NobodyHeldBack`
follows: when the input is idle and neither pauses nor buffers, no thread sleeps in
`DecoderWaitUnblock`.

Only model-checked: the liveness properties, as fairness is out of the prover's
reach (`PacedWriterProceeds`, `BlocksLeave`, `ArmedTimerFires`, `DestroyReturns`,
`GetReturns`, `CallsReturn`, `DecoderServed`, `InputReturns`, `DecoderReleased`,
`RequestsServed`).

## 5. Findings

- `timer_override`: see Timer above.
- `decoder_empty`: `EsOutDecodersStopBuffering` returns early when a frame step
  extended the buffering (es\_out.c:640, marked "FIXME wrong ?"), without letting
  decoders go. A track selected during that buffering waits for ever, and
  `input_DecoderIsEmpty` asserts at the end of the stream that it does not.
- `decoder_paced`: with a stream output, a frame step makes the paused input
  demux; the FIFO of a paused decoder fills up and the input thread paces itself
  on it for ever. The code guards against this for a waiting decoder only.
- `playlist_empty`: `NextItem` returns at once when the playlist is empty and
  leaves `request.b_request` set. If the last item is deleted between a play
  request and the moment the thread looks at it, the thread goes round its loop
  with the lock held, for ever.

Observations no run is about:

- a frame step not yet used survives a seek while paused, and lets a second
  picture through a decoder that still waits for its first, against
  `assert( p_owner->b_first )` (decoder.c:1332). `OutputInTurn` allows this and no
  more: the picture is paid for with the step;
- a pause of a stopped playlist makes the assertion of thread.c:403 fail, see
  Playlist above; control.c:129 says of it "return without notifying the playlist
  thread as there is nothing to do";
- a command of the video output (a frame step, a flush) drops pictures without
  `picture_lock`: between the last `vlc_atomic_dec` and `pf_destroy` the decoder
  can get the picture again, and the `Unlock` of the pool then runs on a picture in
  use. The unlock of the pictures of the core does nothing;
- decoder.c:376 says that `b_waiting` is never modified inside the decoder thread,
  which `DecoderThread` itself does at the end of the stream
  (input\_DecoderStopWait);
- a track added during a pause gets a decoder that is not paused (the code says
  so);
- when the flush block cannot be allocated `b_flushing` stays set;
- a block the stream output path rejects because of a flush marks the decoder as
  failed.

## 6. What is not modelled, and why

The time shift, the preparser and the control queue of the input are the next
modules of the plan. Creating pools and copying pictures, rendering, subpictures
and the display plugins, the tree of the playlist, its sorting and loading, and
formats, preroll, captions and dates in the decoder are left out of the modules
that model the rest of their component. The clock, the
stream cache and the audio output are sequential arithmetic over ranges a model
checker cannot enumerate; network servers and VLM are mostly parsing; modules,
configuration and text are tables; plugins are third-party formats and devices
behind the interfaces of the core. The vendored trees beside `vlc-2.2.0` are not
part of the program's own logic.
