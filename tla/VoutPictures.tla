---------------------------- MODULE VoutPictures ----------------------------
(* The pictures of a video output: the pool they come from                   *)
(* (src/misc/picture_pool.c), the FIFO of decoded pictures                   *)
(* (src/misc/picture_fifo.c) and the three threads that pass references      *)
(* around (src/video_output/video_output.c): the decoder, the thread of the  *)
(* video output and the input thread that controls them.                     *)
EXTENDS Integers, Sequences, FiniteSets

CONSTANTS
    Dpb,       \* the dpb_size the decoder asks for: pictures it keeps at once
    MaxPools,  \* bound on the formats, hence pools, of the output
    MaxLost    \* bound on the pictures a faulty codec forgets to release

ASSUME PictureBounds == Dpb \in Nat \ {0} /\ MaxPools \in Nat \ {0} /\ MaxLost \in Nat

\* vout_InitWrapper without direct rendering, and with no more pictures than it
\* must have.  What picture_pool_Reserve sets aside for the filters and the
\* subpictures is not available to the decoder.
DisplayPictures == 1
PrivatePictures == 4
KeptPictures == 1
Reserved == DisplayPictures + PrivatePictures + KeptPictures
PoolSize_NoSlack == Dpb + KeptPictures
PoolSize == (Reserved + (1 + Dpb) - DisplayPictures) - PrivatePictures

None == 0
Pics == 1..(MaxPools * PoolSize)
PoolPics(k) == ((k - 1) * PoolSize + 1)..(k * PoolSize)

\* References the decoder has on a picture it got: to be output, linked once
\* more to be kept after that, kept only, or forgotten by the codec.
CodecRefs == [none |-> 0, new |-> 1, linked |-> 2, kept |-> 1, lost |-> 1]

VARIABLES
    refs,      \* gc.refcount of each picture
    pool,      \* the pool in use
    zombie,    \* pictures still referenced when their pool was deleted
    freed,     \* pictures given back to their creator
    codec,     \* what the decoder has of each picture
    fifo,      \* decoder_fifo
    current, next, decoded, \* vout->p->displayed
    lock,      \* who holds picture_lock: none, vout, decoder, input
    peeked,    \* picture held by picture_fifo_Peek, under picture_lock
    thread,    \* where the thread of the output is
    task,      \* what it does: display, or the command it executes
    first,     \* ThreadDisplayPicture began without a current picture
    todo,      \* how often it is about to release each picture
    dying,     \* picture whose last reference is gone, before pf_destroy
    paused,    \* pause.is_on
    asked,     \* the command each caller waits for
    decoder    \* run, want, empty (no picture left), checking, gone, robbed

store == <<refs, pool, zombie, freed>>
shown == <<current, next, decoded>>
steps == <<thread, task, first, todo, dying>>
vars == <<store, codec, fifo, shown, lock, peeked, steps, paused, asked, decoder>>

Callers == {"decoder", "input"}
InPool(p) == p \in PoolPics(pool)
Free == {p \in PoolPics(pool) : refs[p] = 0}
Having(state) == {p \in Pics : codec[p] \in state}
Queued == {fifo[i] : i \in DOMAIN fifo}
Is(p, q) == IF p = q THEN 1 ELSE 0
NoneOf == [p \in Pics |-> 0]

Init ==
    /\ refs = [p \in Pics |-> 0] /\ pool = 1 /\ zombie = {} /\ freed = {}
    /\ codec = [p \in Pics |-> "none"] /\ fifo = <<>>
    /\ current = None /\ next = None /\ decoded = None
    /\ lock = "none" /\ peeked = None
    /\ thread = "pop" /\ task = "display" /\ first = FALSE /\ todo = NoneOf /\ dying = None
    /\ paused = FALSE /\ asked = [c \in Callers |-> "none"]
    /\ decoder = "run"

-----------------------------------------------------------------------------
(* picture_Hold and picture_Release                                          *)

Hold(p) == refs' = [refs EXCEPT ![p] = @ + 1]

\* Destroy: back to the pool, or to its creator when the pool is gone.
Destroy_Zombie(p) == freed' = freed
Destroy(p) == freed' = freed \cup ({p} \cap zombie)

\* picture_Release under picture_lock, or by a caller that nobody disturbs.
Release(p) ==
    /\ refs[p] > 0
    /\ refs' = [refs EXCEPT ![p] = @ - 1]
    /\ IF refs[p] = 1 THEN Destroy(p) ELSE UNCHANGED freed
    /\ UNCHANGED <<pool, zombie>>

-----------------------------------------------------------------------------
(* The decoder                                                               *)

DecoderRuns == asked["decoder"] = "none" /\ lock = "none"

\* vout_new_buffer.  The codec keeps at most dpb_size pictures, this one
\* included.  With a new format, when it has output what it had of the old one but
\* may still keep some, the output gets another pool first; p_owner->lock and
\* p_vout = NULL keep the input thread away from it meanwhile.
NewBuffer ==
    /\ decoder = "run" /\ asked["decoder"] = "none"
    /\ decoder' = "want"
    /\ \/ /\ Cardinality(Having({"new", "linked", "kept"})) < Dpb
          /\ UNCHANGED asked
       \/ /\ pool < MaxPools /\ Having({"new", "linked"}) = {}
          /\ asked["input"] = "none" /\ lock # "input"
          /\ asked' = [asked EXCEPT !["decoder"] = "reinit"]
    /\ UNCHANGED <<store, codec, fifo, shown, lock, peeked, steps, paused>>

\* vout_GetPicture: the first free picture of the pool, locked and held.
GetPicture ==
    /\ decoder = "want" /\ DecoderRuns
    /\ IF Free = {}
       THEN decoder' = "empty" /\ UNCHANGED <<refs, codec>>
       ELSE \E p \in Free :
               /\ \A q \in Free : p <= q
               /\ Hold(p)
               /\ codec' = [codec EXCEPT ![p] = "new"]
               /\ decoder' = "run"
    /\ UNCHANGED <<pool, zombie, freed, fifo, shown, lock, peeked, steps, paused, asked>>

\* No picture, and the decoder is being flushed: vout_new_buffer fails.
GiveUp ==
    /\ decoder = "empty"
    /\ decoder' = "run"
    /\ UNCHANGED <<store, codec, fifo, shown, lock, peeked, steps, paused, asked>>

\* picture_fifo_Peek, as the first thing vout_FixLeaks and vout_IsEmpty do.
Peek(who) ==
    /\ lock = "none"
    /\ lock' = who
    /\ IF fifo = <<>>
       THEN UNCHANGED <<peeked, refs>>
       ELSE peeked' = Head(fifo) /\ Hold(Head(fifo))
    /\ UNCHANGED <<pool, zombie, freed, codec, fifo, shown, steps, paused, asked>>

FixLeaks == decoder = "empty" /\ Peek("decoder") /\ decoder' = "checking"

\* The rest of vout_FixLeaks when there is a picture in the FIFO, or a free one
\* that is got and released at once.
FixLeaksEnd_ReturnLocked ==
    /\ decoder = "checking"
    /\ \/ peeked # None /\ Release(peeked) /\ UNCHANGED lock
       \/ peeked = None /\ Free # {} /\ UNCHANGED store /\ lock' = "none"
    /\ peeked' = None /\ decoder' = "want"
    /\ UNCHANGED <<codec, fifo, shown, steps, paused, asked>>
FixLeaksEnd ==
    /\ decoder = "checking"
    /\ \/ peeked # None /\ Release(peeked)
       \/ peeked = None /\ Free # {} /\ UNCHANGED store
    /\ lock' = "none" /\ peeked' = None /\ decoder' = "want"
    /\ UNCHANGED <<codec, fifo, shown, steps, paused, asked>>

\* When there is none: picture_pool_NonEmpty(pool, false) makes one of them free
\* (the oldest one; its age is left open).  If somebody still has it, what the
\* decoder does then is not followed.
Seize(p) ==
    /\ decoder = "checking" /\ peeked = None /\ Free = {} /\ p \in PoolPics(pool)
    /\ refs' = [refs EXCEPT ![p] = 0]
    /\ codec' = [codec EXCEPT ![p] = IF @ = "lost" THEN "none" ELSE @]
    /\ decoder' = IF codec[p] = "lost" /\ refs[p] = 1 THEN "want" ELSE "robbed"
    /\ lock' = "none"
    /\ UNCHANGED <<pool, zombie, freed, fifo, shown, peeked, steps, paused, asked>>

\* vout_HoldPicture, to keep the picture after it is output.
LinkPicture(p) ==
    /\ decoder = "run" /\ DecoderRuns /\ codec[p] = "new"
    /\ codec' = [codec EXCEPT ![p] = "linked"]
    /\ Hold(p)
    /\ UNCHANGED <<pool, zombie, freed, fifo, shown, lock, peeked, steps, paused,
                   asked, decoder>>

\* vout_PutPicture.
PutPicture_Front(p) ==
    /\ decoder = "run" /\ DecoderRuns /\ codec[p] \in {"new", "linked"}
    /\ codec' = [codec EXCEPT ![p] = IF @ = "linked" THEN "kept" ELSE "none"]
    /\ fifo' = <<p>> \o fifo
    /\ UNCHANGED <<store, shown, lock, peeked, steps, paused, asked, decoder>>
PutPicture(p) ==
    /\ decoder = "run" /\ DecoderRuns /\ codec[p] \in {"new", "linked"}
    /\ codec' = [codec EXCEPT ![p] = IF @ = "linked" THEN "kept" ELSE "none"]
    /\ fifo' = Append(fifo, p)
    /\ UNCHANGED <<store, shown, lock, peeked, steps, paused, asked, decoder>>

\* vout_ReleasePicture.
ReleasePicture(p) ==
    /\ decoder = "run" /\ DecoderRuns /\ codec[p] \in {"new", "linked", "kept"}
    /\ codec' = [codec EXCEPT ![p] = IF @ = "linked" THEN "kept" ELSE "none"]
    /\ Release(p)
    /\ UNCHANGED <<fifo, shown, lock, peeked, steps, paused, asked, decoder>>

\* A faulty codec forgets a reference: the leak vout_FixLeaks is there for.
LosePicture(p) ==
    /\ decoder = "run" /\ asked["decoder"] = "none" /\ codec[p] \in {"new", "kept"}
    /\ Cardinality(Having({"lost"})) < MaxLost
    /\ codec' = [codec EXCEPT ![p] = "lost"]
    /\ UNCHANGED <<store, fifo, shown, lock, peeked, steps, paused, asked, decoder>>

\* vout_Flush by the decoder, at the date of its picture.
AskFlush ==
    /\ decoder = "run" /\ asked["decoder"] = "none"
    /\ asked' = [asked EXCEPT !["decoder"] = "flush"]
    /\ UNCHANGED <<store, codec, fifo, shown, lock, peeked, steps, paused, decoder>>

-----------------------------------------------------------------------------
(* The input thread                                                          *)

InputRuns ==
    /\ asked["input"] = "none" /\ lock # "input"
    /\ decoder \notin {"gone", "robbed"} /\ asked["decoder"] # "reinit"

\* vout_ChangePause and vout_NextPicture, which wait for the output.
AskInput(command) ==
    /\ InputRuns
    /\ command = "pause" <=> ~paused
    /\ asked' = [asked EXCEPT !["input"] = command]
    /\ UNCHANGED <<store, codec, fifo, shown, lock, peeked, steps, paused, decoder>>

IsEmpty == InputRuns /\ Peek("input") /\ UNCHANGED decoder

IsEmptyEnd ==
    /\ lock = "input"
    /\ IF peeked # None THEN Release(peeked) ELSE UNCHANGED store
    /\ lock' = "none" /\ peeked' = None
    /\ UNCHANGED <<codec, fifo, shown, steps, paused, asked, decoder>>

\* DeleteDecoder, with the codec closed; the output is reset.
DeleteDecoder ==
    /\ InputRuns /\ DecoderRuns /\ decoder = "run"
    /\ \A p \in Pics : codec[p] \in {"none", "lost"}
    /\ decoder' = "gone"
    /\ asked' = [asked EXCEPT !["input"] = "reset"]
    /\ UNCHANGED <<store, codec, fifo, shown, lock, peeked, steps, paused>>

\* Another decoder takes the output over, with the same format.
NewDecoder ==
    /\ decoder = "gone" /\ asked["input"] = "none"
    /\ decoder' = "run"
    /\ UNCHANGED <<store, codec, fifo, shown, lock, peeked, steps, paused, asked>>

-----------------------------------------------------------------------------
(* The thread of the video output.  It holds picture_lock while it displays, *)
(* but not while it executes a command: only there can others run between    *)
(* its steps, and a release takes two of them.                               *)

Quiet == todo = NoneOf /\ dying = None

\* picture_Release in the thread: the reference first, pf_destroy then.
ReleaseNext(p) ==
    /\ dying = None /\ todo[p] > 0 /\ refs[p] > 0
    /\ refs' = [refs EXCEPT ![p] = @ - 1]
    /\ todo' = [todo EXCEPT ![p] = @ - 1]
    /\ dying' = IF refs[p] = 1 THEN p ELSE None
    /\ UNCHANGED <<pool, zombie, freed, codec, fifo, shown, lock, peeked, thread, task,
                   first, paused, asked, decoder>>

DestroyNext ==
    /\ dying # None
    /\ Destroy(dying)
    /\ dying' = None
    /\ UNCHANGED <<refs, pool, zombie, codec, fifo, shown, lock, peeked, thread, task, first,
                   todo, paused, asked, decoder>>

\* A reference taken (none if held is None) and some dropped: at once under
\* picture_lock, where nobody sees what is in between, else one by one.
HoldAndDrop(held, dropped) ==
    IF lock = "vout"
    THEN /\ \A p \in Pics : refs[p] + Is(p, held) >= dropped[p]
         /\ refs' = [p \in Pics |-> refs[p] + Is(p, held) - dropped[p]]
         /\ freed' = freed \cup {p \in zombie : refs'[p] = 0}
         /\ UNCHANGED todo
    ELSE /\ refs' = [p \in Pics |-> refs[p] + Is(p, held)]
         /\ todo' = dropped
         /\ UNCHANGED freed

\* ThreadFilterFlush drops the pictures prepared so far.
Prepared_NextOnly == [p \in Pics |-> Is(p, next)]
Prepared == [p \in Pics |-> Is(p, current) + Is(p, next)]

\* vout_control_Pop with no command left: the thread displays.
StartDisplay ==
    /\ thread = "pop" /\ \A c \in Callers : asked[c] = "none"
    /\ lock = "none"
    /\ lock' = "vout"
    /\ thread' = "begin" /\ task' = "display"
    /\ UNCHANGED <<store, codec, fifo, shown, peeked, first, todo, dying, paused, asked,
                   decoder>>

\* ThreadControl: a step displays without picture_lock; leaving a pause, a flush
\* and what begins with one drop pictures first.
StartCommand(c) ==
    /\ thread = "pop" /\ asked[c] # "none"
    /\ task' = asked[c]
    /\ \/ asked[c] = "pause" /\ thread' = "finish" /\ UNCHANGED <<shown, todo>>
       \/ asked[c] = "step" /\ thread' = "begin" /\ UNCHANGED <<shown, todo>>
       \/ /\ asked[c] \notin {"pause", "step"}
          /\ thread' = IF asked[c] = "resume" THEN "finish" ELSE "flush"
          /\ todo' = Prepared /\ current' = None /\ next' = None
          /\ UNCHANGED decoded
    /\ UNCHANGED <<store, codec, fifo, lock, peeked, first, dying, paused, asked, decoder>>

\* What picture_fifo_Flush leaves of a FIFO when it keeps these pictures: they
\* stay in the same order.
Remains(keep) ==
    {f \in [1..Cardinality(keep) -> keep] :
        /\ \A p \in keep : \E i \in DOMAIN f : f[i] = p
        /\ \A i, j \in DOMAIN f : i < j =>
              \E a, b \in DOMAIN fifo : a < b /\ fifo[a] = f[i] /\ fifo[b] = f[j]}

\* The rest of ThreadFlush: the last picture and those of the FIFO, from a date
\* on (in any order of dates) for a flush, and all of them otherwise.
Flush ==
    /\ thread = "flush" /\ Quiet
    /\ \E keep \in SUBSET Queued, last \in {decoded, None} :
          /\ task # "flush" => keep = {} /\ last = None
          /\ decoded' = last
          /\ todo' = [p \in Pics |-> (IF p \in Queued \ keep THEN 1 ELSE 0)
                                     + (IF last = None THEN Is(p, decoded) ELSE 0)]
          /\ fifo' \in Remains(keep)
    /\ thread' = "finish"
    /\ UNCHANGED <<store, codec, current, next, lock, peeked, task, first, dying,
                   paused, asked, decoder>>

\* picture_pool_Delete in vout_EndWrapper, and the new pool of vout_InitWrapper.
\* ThreadReinit for a format the output takes for the one it has changes nothing,
\* and a display that cannot be started again ends the output: both are left out.
DeletePool ==
    /\ freed' = freed \cup Free
    /\ zombie' = zombie \cup (PoolPics(pool) \ Free)
    /\ pool' = pool + 1
    /\ UNCHANGED <<refs, codec, paused>>

\* picture_pool_NonEmpty(pool, true) and the end of ThreadReset.
FreePool ==
    /\ refs' = [p \in Pics |-> IF InPool(p) THEN 0 ELSE refs[p]]
    /\ codec' = [p \in Pics |-> IF InPool(p) THEN "none" ELSE codec[p]]
    /\ paused' = FALSE
    /\ UNCHANGED <<pool, zombie, freed>>

\* The command is done and its caller goes on.
Finish(c) ==
    /\ thread = "finish" /\ Quiet /\ asked[c] = task
    /\ asked' = [asked EXCEPT ![c] = "none"]
    /\ thread' = "pop"
    /\ \/ task = "reset" /\ FreePool
       \/ task = "reinit" /\ DeletePool
       \/ /\ task \notin {"reset", "reinit"}
          /\ paused' = (IF task = "flush" THEN paused ELSE task = "pause")
          /\ UNCHANGED <<store, codec>>
    /\ task' = "display"
    /\ UNCHANGED <<fifo, shown, lock, peeked, first, todo, dying, decoder>>

-----------------------------------------------------------------------------
(* ThreadDisplayPicture                                                      *)

\* A picture is taken from the FIFO.  A late one is dropped, unless the output
\* is paused or stepped; another one replaces displayed.decoded and follows the
\* current picture.  ThreadChangeFilters drops the pictures already prepared.
Pop ==
    LET p == Head(fifo)
    IN /\ fifo # <<>> /\ fifo' = Tail(fifo)
       /\ \/ /\ task = "display" /\ ~paused
             /\ HoldAndDrop(None, [q \in Pics |-> Is(q, p)])
             /\ UNCHANGED shown
          \/ \E change \in BOOLEAN :
                /\ HoldAndDrop(p, [q \in Pics |-> Is(q, decoded) + IF change THEN Prepared[q] ELSE 0])
                /\ current' = IF change \/ current = None THEN p ELSE current
                /\ next' = IF change \/ current = None THEN None ELSE p
                /\ decoded' = p
       /\ UNCHANGED <<pool, zombie>>

\* ThreadDisplayPreparePicture when there is no current picture: the last
\* decoded one again, if any.
PrepareFirst ==
    /\ thread = "begin" /\ Quiet
    /\ first' = (current = None)
    /\ IF current # None
       THEN thread' = "more" /\ UNCHANGED <<store, fifo, shown, todo>>
       ELSE IF decoded # None
       THEN /\ HoldAndDrop(decoded, NoneOf) /\ current' = decoded /\ thread' = "more"
            /\ UNCHANGED <<pool, zombie, fifo, next, decoded>>
       ELSE IF fifo = <<>>
       THEN thread' = "end" /\ UNCHANGED <<store, fifo, shown, todo>>
       ELSE Pop /\ thread' = IF current' = None THEN "begin" ELSE "more"
    /\ UNCHANGED <<codec, lock, peeked, task, dying, paused, asked, decoder>>

\* The loop that looks for the next picture.
PrepareMore ==
    /\ thread = "more" /\ Quiet
    /\ IF (~paused \/ task = "step") /\ next = None /\ fifo # <<>>
       THEN Pop /\ UNCHANGED thread
       ELSE thread' = "choose" /\ UNCHANGED <<store, fifo, shown, todo>>
    /\ UNCHANGED <<codec, lock, peeked, task, first, dying, paused, asked, decoder>>

\* The next picture replaces the current one when its time has come (due), or
\* always in a step; otherwise the current one may be shown again.  Rendering
\* holds the picture and the display releases it.  Thread calls again after a
\* success, but not after a refresh or a step; rendering may fail.
Choose(due, refresh) ==
    /\ thread = "choose" /\ Quiet
    /\ LET drop == task = "step" \/ (~paused /\ next # None /\ due)
           render == IF drop THEN next # None ELSE first \/ refresh
           again == render /\ task = "display" /\ (drop \/ ~refresh)
       IN /\ IF drop
             THEN HoldAndDrop(None, [q \in Pics |-> Is(q, current)]) /\ current' = next /\ next' = None
             ELSE UNCHANGED <<refs, freed, todo, current, next>>
          /\ thread' \in {"end"} \cup (IF again THEN {"begin"} ELSE {})
    /\ first' = FALSE
    /\ UNCHANGED <<pool, zombie, codec, fifo, decoded, lock, peeked, task, dying, paused, asked,
                   decoder>>

\* The caller of a step goes on.
EndDisplay ==
    /\ thread = "end" /\ Quiet
    /\ IF task = "display"
       THEN lock' = "none" /\ UNCHANGED asked
       ELSE asked' = [asked EXCEPT !["input"] = "none"] /\ UNCHANGED lock
    /\ thread' = "pop" /\ task' = "display"
    /\ UNCHANGED <<store, codec, fifo, shown, peeked, first, todo, dying, paused, decoder>>

-----------------------------------------------------------------------------
ThreadStep ==
    \/ DestroyNext \/ StartDisplay \/ Flush \/ PrepareFirst \/ PrepareMore
    \/ EndDisplay \/ \E p \in Pics : ReleaseNext(p)
    \/ \E c \in Callers : StartCommand(c) \/ Finish(c)
    \/ \E due, refresh \in BOOLEAN : Choose(due, refresh)

Next ==
    \/ NewBuffer \/ GetPicture \/ GiveUp \/ FixLeaks \/ FixLeaksEnd \/ AskFlush
    \/ \E p \in Pics : \/ LinkPicture(p) \/ PutPicture(p) \/ ReleasePicture(p)
                       \/ LosePicture(p) \/ Seize(p)
    \/ \E command \in {"pause", "resume", "step"} : AskInput(command)
    \/ IsEmpty \/ IsEmptyEnd \/ DeleteDecoder \/ NewDecoder
    \/ ThreadStep

Spec == Init /\ [][Next]_vars

\* The thread of the output runs, and gets picture_lock in the end, as those who take
\* it to look at the pictures sleep without it between two tries; time passes.
Fairness ==
    /\ WF_vars(ThreadStep) /\ SF_vars(StartDisplay)
    /\ WF_vars(IsEmptyEnd \/ FixLeaksEnd \/ \E p \in Pics : Seize(p))
    /\ SF_vars(\E refresh \in BOOLEAN : Choose(TRUE, refresh))

FairSpec == Spec /\ Fairness

-----------------------------------------------------------------------------
(* Properties                                                                *)

\* Types; no reference count goes below zero.
TypeOK ==
    /\ refs \in [Pics -> Nat] /\ pool \in 1..MaxPools
    /\ zombie \subseteq Pics /\ freed \subseteq Pics
    /\ codec \in [Pics -> DOMAIN CodecRefs] /\ fifo \in Seq(Pics)
    /\ {current, next, decoded, peeked, dying} \subseteq Pics \cup {None}
    /\ lock \in {"none", "vout"} \cup Callers
    /\ thread \in {"pop", "begin", "more", "choose", "end", "flush", "finish"}
    /\ task \in {"display", "pause", "resume", "step", "flush", "reset", "reinit"}
    /\ first \in BOOLEAN /\ todo \in [Pics -> Nat] /\ paused \in BOOLEAN
    /\ asked \in [Callers -> {"none", "pause", "resume", "step", "flush", "reset", "reinit"}]
    /\ decoder \in {"run", "want", "empty", "checking", "gone", "robbed"}

\* The references somebody has on a picture: the decoder, the FIFO, the thread of
\* the output, and who peeks.
Holders(p) ==
    CodecRefs[codec[p]] + (IF p \in Queued THEN 1 ELSE 0) + todo[p]
    + Is(p, current) + Is(p, next) + Is(p, decoded) + Is(p, peeked)

\* The count of a picture is the number of references on it, through pauses,
\* flushes, changes of format and of decoder: none is leaked or released twice,
\* and ThreadReset takes no count away from somebody.
RefsMatch == decoder # "robbed" => \A p \in Pics : refs[p] = Holders(p)

\* A picture of a deleted pool goes back to its creator with its last reference,
\* not before, and one of a living pool never does.
DeadPoolsDrained ==
    decoder # "robbed" => \A p \in Pics :
        p \in freed <=> p <= (pool - 1) * PoolSize /\ refs[p] = 0 /\ p # dying

\* "There is no reason that no pictures are available": vout_FixLeaks takes a
\* picture only from a codec that leaks, as the pool has room for dpb_size
\* pictures in the decoder and the ones the output keeps.
RobbedOnlyIfLost ==
    [][decoder = "checking" /\ decoder' = "robbed"
        => \E p \in PoolPics(pool) : codec[p] = "lost"]_vars

\* The pictures prepared to be shown.
InFront ==
    (IF current = None THEN <<>> ELSE <<current>>) \o (IF next = None THEN <<>> ELSE <<next>>)

\* Pictures are shown in the order they were put, across flushes, pauses, steps
\* and changes of filters; only the last one decoded may be shown again.
Shown == INSTANCE PictureQueue WITH
    queue <- InFront \o fifo,
    last <- decoded
ShownInOrder == Shown!Spec

\* A decoder that waits for a picture finds a free one in the end, which nobody else
\* takes, while the output is not paused and the codec leaks nothing.
DecoderServed ==
    []<>(\/ decoder \notin {"want", "empty", "checking"}
         \/ Free # {} \/ paused \/ Having({"lost"}) # {})
=============================================================================
