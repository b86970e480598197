------------------------- MODULE VoutPictures_proofs -------------------------
(* Proofs about VoutPictures, for any number of formats and pictures.        *)
EXTENDS VoutPictures, FiniteSetTheorems, SequenceTheorems, TLAPS

Counts == [Pics -> Nat]

-----------------------------------------------------------------------------
(* Pictures and pools                                                        *)

LEMMA PicsAreNumbers ==
    /\ PoolSize \in Nat \ {0} /\ MaxPools * PoolSize \in Nat
    /\ Pics \subseteq Nat \ {0} /\ None \notin Pics /\ IsFiniteSet(Pics)
<1>1. PoolSize = Dpb + 2
  BY PictureBounds DEF PoolSize, Reserved, DisplayPictures, PrivatePictures, KeptPictures
<1>2. PoolSize \in Nat \ {0}
  BY <1>1, PictureBounds
<1>3. MaxPools * PoolSize \in Nat
  BY <1>2, PictureBounds
<1>4. IsFiniteSet(Pics)
  BY <1>3, FS_Interval DEF Pics
<1> QED
  BY <1>2, <1>3, <1>4 DEF Pics, None

LEMMA PoolsBelowMax ==
    ASSUME NEW k \in 1..MaxPools
    PROVE  PoolPics(k) \subseteq Pics
<1> DEFINE S == PoolSize
<1>1. S \in Nat /\ k \in Nat \ {0} /\ MaxPools \in Nat /\ k <= MaxPools
  BY PicsAreNumbers, PictureBounds
<1> HIDE DEF S
<1>2. (k - 1) * S \in Nat /\ (MaxPools - k) * S \in Nat
  BY <1>1
<1>3. MaxPools * S = k * S + (MaxPools - k) * S /\ k * S \in Nat
  BY <1>1
<1>4. k * S <= MaxPools * S /\ MaxPools * S \in Nat
  BY <1>2, <1>3
<1>5. ((k - 1) * S + 1)..(k * S) \subseteq 1..(MaxPools * S)
  BY <1>2, <1>3, <1>4
<1> QED
  BY <1>5 DEF S, PoolPics, Pics

LEMMA CodecRefsValues ==
    /\ DOMAIN CodecRefs = {"none", "new", "linked", "kept", "lost"}
    /\ CodecRefs["none"] = 0 /\ CodecRefs["new"] = 1 /\ CodecRefs["linked"] = 2
    /\ CodecRefs["kept"] = 1 /\ CodecRefs["lost"] = 1
BY DEF CodecRefs

LEMMA IsValues == ASSUME NEW p, NEW q PROVE Is(p, q) \in {0, 1} /\ (Is(p, q) = 1 <=> p = q)
BY DEF Is

-----------------------------------------------------------------------------
(* Type correctness                                                          *)

StoreType == refs \in Counts /\ pool \in 1..MaxPools /\ zombie \subseteq Pics /\ freed \subseteq Pics
CodecType == codec \in [Pics -> DOMAIN CodecRefs]
FifoType == fifo \in Seq(Pics)
ShownType == {current, next, decoded} \subseteq Pics \cup {None}
LockType == lock \in {"none", "vout"} \cup Callers /\ peeked \in Pics \cup {None}
StepType ==
    /\ thread \in {"pop", "begin", "more", "choose", "end", "flush", "finish"}
    /\ task \in {"display", "pause", "resume", "step", "flush", "reset", "reinit"}
    /\ first \in BOOLEAN /\ todo \in Counts /\ dying \in Pics \cup {None}
CallType ==
    /\ paused \in BOOLEAN
    /\ asked \in [Callers -> {"none", "pause", "resume", "step", "flush", "reset", "reinit"}]
DecoderType == decoder \in {"run", "want", "empty", "checking", "gone", "robbed"}

\* What each caller asks for; a new format only while there is a pool for it.
Asks ==
    /\ asked["input"] \in {"none", "pause", "resume", "step", "reset"}
    /\ asked["decoder"] \in {"none", "flush", "reinit"}
    /\ asked["decoder"] = "reinit" => pool < MaxPools

Types ==
    /\ StoreType /\ CodecType /\ FifoType /\ ShownType /\ LockType /\ StepType /\ CallType
    /\ DecoderType /\ Asks

LEMMA TypesGiveTypeOK == Types => TypeOK
<1> SUFFICES ASSUME Types PROVE TypeOK
  OBVIOUS
<1> USE DEF Types
<1>1. {current, next, decoded, peeked, dying} \subseteq Pics \cup {None}
  BY DEF ShownType, LockType, StepType
<1>2. refs \in [Pics -> Nat] /\ todo \in [Pics -> Nat]
  BY DEF StoreType, StepType, Counts
<1> QED
  BY <1>1, <1>2, Zenon DEF TypeOK, StoreType, CodecType, FifoType, LockType, StepType, CallType,
     DecoderType

LEMMA UnchangedTypes ==
    /\ StoreType /\ UNCHANGED store => StoreType'
    /\ CodecType /\ UNCHANGED codec => CodecType'
    /\ FifoType /\ UNCHANGED fifo => FifoType'
    /\ ShownType /\ UNCHANGED shown => ShownType'
    /\ LockType /\ UNCHANGED <<lock, peeked>> => LockType'
    /\ StepType /\ UNCHANGED steps => StepType'
    /\ CallType /\ UNCHANGED <<paused, asked>> => CallType'
    /\ DecoderType /\ UNCHANGED decoder => DecoderType'
    /\ Asks /\ UNCHANGED <<asked, pool>> => Asks'
BY DEF StoreType, store, CodecType, FifoType, ShownType, shown, LockType, StepType, steps, CallType,
   DecoderType, Asks

LEMMA HoldTypes ==
    ASSUME StoreType, NEW p \in Pics, Hold(p), UNCHANGED <<pool, zombie, freed>>
    PROVE  StoreType'
BY DEF StoreType, Hold, Counts

LEMMA ReleaseTypes ==
    ASSUME StoreType, NEW p \in Pics, Release(p)
    PROVE  StoreType' /\ UNCHANGED <<pool, zombie>>
BY DEF StoreType, Release, Destroy, Counts

LEMMA DecoderKeepsTypes ==
    ASSUME Types
    PROVE  /\ NewBuffer \/ GetPicture \/ GiveUp \/ FixLeaks \/ FixLeaksEnd \/ AskFlush => Types'
           /\ \A p \in Pics : LinkPicture(p) \/ PutPicture(p) \/ ReleasePicture(p) => Types'
           /\ \A p \in Pics : LosePicture(p) \/ Seize(p) => Types'
<1> USE UnchangedTypes DEF Types
<1>1. ASSUME NewBuffer PROVE Types'
  <2>1. DecoderType'
    BY <1>1 DEF NewBuffer, DecoderType
  <2>2. CallType' /\ Asks'
    <3>1. CASE UNCHANGED asked
      BY <1>1, <3>1 DEF NewBuffer, CallType, Asks, store
    <3>2. CASE pool < MaxPools /\ asked' = [asked EXCEPT !["decoder"] = "reinit"]
      BY <1>1, <3>2 DEF NewBuffer, CallType, Asks, store, Callers
    <3> QED
      BY <1>1, <3>1, <3>2 DEF NewBuffer
  <2> QED
    BY <1>1, <2>1, <2>2 DEF NewBuffer
<1>2. ASSUME GetPicture PROVE Types'
  <2>1. CASE Free = {}
    BY <1>2, <2>1 DEF GetPicture, DecoderType, StoreType
  <2>2. CASE Free # {}
    <3>1. PICK q \in Free : Hold(q) /\ codec' = [codec EXCEPT ![q] = "new"] /\ decoder' = "run"
      BY <1>2, <2>2 DEF GetPicture
    <3>2. q \in Pics
      BY PoolsBelowMax DEF Free, StoreType
    <3>3. StoreType'
      BY <1>2, <3>1, <3>2, HoldTypes DEF GetPicture
    <3>4. CodecType' /\ DecoderType'
      BY <3>1, <3>2, CodecRefsValues DEF CodecType, DecoderType
    <3> QED
      BY <1>2, <3>3, <3>4 DEF GetPicture
  <2> QED
    BY <2>1, <2>2
<1>3. ASSUME GiveUp PROVE Types'
  BY <1>3 DEF GiveUp, DecoderType, Asks, store
<1>4. ASSUME NEW who \in Callers, Peek(who) PROVE StoreType' /\ LockType' /\ UNCHANGED pool
  <2>1. fifo # <<>> => Head(fifo) \in Pics
    BY DEF FifoType
  <2>2. StoreType'
    BY <1>4, <2>1, HoldTypes DEF Peek, StoreType
  <2> QED
    BY <1>4, <2>1, <2>2 DEF Peek, LockType
<1>5. ASSUME FixLeaks PROVE Types'
  <2>1. StoreType' /\ LockType' /\ UNCHANGED pool
    BY <1>4, <1>5 DEF FixLeaks, Callers
  <2> QED
    BY <1>5, <2>1 DEF FixLeaks, Peek, DecoderType
<1>6. ASSUME FixLeaksEnd PROVE Types'
  <2>1. StoreType' /\ UNCHANGED pool
    BY <1>6, ReleaseTypes DEF FixLeaksEnd, LockType, store
  <2> QED
    BY <1>6, <2>1 DEF FixLeaksEnd, LockType, DecoderType
<1>7. ASSUME AskFlush PROVE Types'
  <2>1. CallType' /\ Asks'
    BY <1>7 DEF AskFlush, CallType, Asks, Callers, store
  <2> QED
    BY <1>7, <2>1 DEF AskFlush
<1>8. ASSUME NEW p \in Pics, LinkPicture(p) PROVE Types'
  <2>1. StoreType' /\ UNCHANGED pool
    BY <1>8, HoldTypes DEF LinkPicture
  <2>2. CodecType'
    BY <1>8, CodecRefsValues DEF LinkPicture, CodecType
  <2> QED
    BY <1>8, <2>1, <2>2 DEF LinkPicture
<1>9. ASSUME NEW p \in Pics, PutPicture(p) PROVE Types'
  <2>1. CodecType' /\ FifoType'
    BY <1>9, CodecRefsValues DEF PutPicture, CodecType, FifoType
  <2> QED
    BY <1>9, <2>1 DEF PutPicture, store
<1>10. ASSUME NEW p \in Pics, ReleasePicture(p) PROVE Types'
  <2>1. StoreType' /\ UNCHANGED pool
    BY <1>10, ReleaseTypes DEF ReleasePicture
  <2>2. CodecType'
    BY <1>10, CodecRefsValues DEF ReleasePicture, CodecType
  <2> QED
    BY <1>10, <2>1, <2>2 DEF ReleasePicture
<1>11. ASSUME NEW p \in Pics, LosePicture(p) PROVE Types'
  <2>1. CodecType'
    BY <1>11, CodecRefsValues DEF LosePicture, CodecType
  <2> QED
    BY <1>11, <2>1 DEF LosePicture, store
<1>12. ASSUME NEW p \in Pics, Seize(p) PROVE Types'
  <2>1. StoreType'
    BY <1>12 DEF Seize, StoreType, Counts
  <2>2. CodecType'
    BY <1>12, CodecRefsValues DEF Seize, CodecType
  <2>3. LockType' /\ DecoderType'
    BY <1>12 DEF Seize, LockType, DecoderType
  <2> QED
    BY <1>12, <2>1, <2>2, <2>3 DEF Seize
<1> QED
  BY <1>1, <1>2, <1>3, <1>5, <1>6, <1>7, <1>8, <1>9, <1>10, <1>11, <1>12

LEMMA InputKeepsTypes ==
    ASSUME Types
    PROVE  /\ IsEmpty \/ IsEmptyEnd \/ DeleteDecoder \/ NewDecoder => Types'
           /\ \A command \in {"pause", "resume", "step"} : AskInput(command) => Types'
<1> USE UnchangedTypes DEF Types
<1>1. ASSUME IsEmpty PROVE Types'
  <2>1. fifo # <<>> => Head(fifo) \in Pics
    BY DEF FifoType
  <2>2. StoreType' /\ UNCHANGED pool
    BY <1>1, <2>1, HoldTypes DEF IsEmpty, Peek, StoreType
  <2>3. LockType'
    BY <1>1, <2>1 DEF IsEmpty, Peek, LockType, Callers
  <2> QED
    BY <1>1, <2>2, <2>3 DEF IsEmpty, Peek
<1>2. ASSUME IsEmptyEnd PROVE Types'
  <2>1. StoreType' /\ UNCHANGED pool
    BY <1>2, ReleaseTypes DEF IsEmptyEnd, LockType, store
  <2> QED
    BY <1>2, <2>1 DEF IsEmptyEnd, LockType
<1>3. ASSUME DeleteDecoder PROVE Types'
  <2>1. CallType' /\ Asks' /\ DecoderType'
    BY <1>3 DEF DeleteDecoder, CallType, Asks, DecoderType, Callers, store
  <2> QED
    BY <1>3, <2>1 DEF DeleteDecoder
<1>4. ASSUME NewDecoder PROVE Types'
  BY <1>4 DEF NewDecoder, DecoderType, store
<1>5. ASSUME NEW command \in {"pause", "resume", "step"}, AskInput(command) PROVE Types'
  <2>1. CallType' /\ Asks'
    BY <1>5 DEF AskInput, CallType, Asks, Callers, store
  <2> QED
    BY <1>5, <2>1 DEF AskInput
<1> QED
  BY <1>1, <1>2, <1>3, <1>4, <1>5

\* What a step that takes and drops references leaves of the counts.
LEMMA HoldAndDropTypes ==
    ASSUME Types, NEW held \in Pics \cup {None}, NEW dropped \in Counts,
           HoldAndDrop(held, dropped), UNCHANGED <<pool, zombie>>
    PROVE  StoreType' /\ todo' \in Counts
<1> USE DEF Types
<1>1. \A p \in Pics : refs[p] \in Nat /\ dropped[p] \in Nat /\ Is(p, held) \in Nat
  BY IsValues DEF StoreType, Counts
<1>2. CASE lock = "vout"
  BY <1>1, <1>2 DEF HoldAndDrop, StoreType, StepType, Counts
<1>3. CASE lock # "vout"
  BY <1>1, <1>3 DEF HoldAndDrop, StoreType, Counts
<1> QED
  BY <1>2, <1>3

LEMMA DropsAreCounts ==
    /\ NoneOf \in Counts /\ Prepared \in Counts
    /\ \A p : [q \in Pics |-> Is(q, p)] \in Counts
    /\ \A p, change : [q \in Pics |-> Is(q, p) + IF change THEN Prepared[q] ELSE 0] \in Counts
<1>1. \A p, q : Is(p, q) \in Nat
  BY IsValues
<1>2. NoneOf \in Counts /\ Prepared \in Counts
  BY <1>1 DEF NoneOf, Prepared, Counts
<1>3. \A q \in Pics : Prepared[q] \in Nat
  BY <1>2 DEF Counts
<1> QED
  BY <1>1, <1>2, <1>3 DEF Counts

LEMMA PopTypes ==
    ASSUME Types, Pop
    PROVE  StoreType' /\ FifoType' /\ ShownType' /\ todo' \in Counts /\ UNCHANGED pool
<1> USE DEF Types
<1>1. fifo # <<>> /\ fifo' = Tail(fifo) /\ Head(fifo) \in Pics /\ UNCHANGED <<pool, zombie>>
  BY DEF Pop, FifoType
<1>2. FifoType'
  BY <1>1 DEF FifoType
<1>3. CASE HoldAndDrop(None, [q \in Pics |-> Is(q, Head(fifo))]) /\ UNCHANGED shown
  BY <1>1, <1>2, <1>3, HoldAndDropTypes, DropsAreCounts, UnchangedTypes
<1>4. CASE \E change \in BOOLEAN :
              /\ HoldAndDrop(Head(fifo),
                     [q \in Pics |-> Is(q, decoded) + IF change THEN Prepared[q] ELSE 0])
              /\ current' = IF change \/ current = None THEN Head(fifo) ELSE current
              /\ next' = IF change \/ current = None THEN None ELSE Head(fifo)
              /\ decoded' = Head(fifo)
  <2>1. StoreType' /\ todo' \in Counts
    BY <1>1, <1>4, HoldAndDropTypes, DropsAreCounts
  <2>2. ShownType'
    BY <1>1, <1>4 DEF ShownType
  <2> QED
    BY <1>1, <1>2, <2>1, <2>2
<1> QED
  BY <1>3, <1>4 DEF Pop

LEMMA RemainsTypes ==
    ASSUME Types, NEW keep \in SUBSET Queued, NEW f \in Remains(keep)
    PROVE  f \in Seq(Pics) /\ DOMAIN f = 1..Len(f) /\ {f[i] : i \in DOMAIN f} = keep
<1> USE DEF Types
<1>1. Queued \subseteq Pics
  BY DEF Queued, FifoType
<1>2. IsFiniteSet(keep)
  BY <1>1, PicsAreNumbers, FS_Subset
<1>3. Cardinality(keep) \in Nat /\ f \in [1..Cardinality(keep) -> keep]
  BY <1>2, FS_CardinalityType DEF Remains
<1>4. f \in Seq(Pics)
  BY <1>1, <1>3
<1>5. {f[i] : i \in DOMAIN f} = keep
  BY <1>3 DEF Remains
<1> QED
  BY <1>4, <1>5

LEMMA CommandsKeepTypes ==
    ASSUME Types
    PROVE  /\ Flush => Types'
           /\ \A c \in Callers : StartCommand(c) \/ Finish(c) => Types'
<1> USE UnchangedTypes DEF Types
<1>1. ASSUME Flush PROVE Types'
  <2>1. PICK keep \in SUBSET Queued, last \in {decoded, None} :
           /\ decoded' = last
           /\ todo' = [p \in Pics |-> (IF p \in Queued \ keep THEN 1 ELSE 0)
                                      + (IF last = None THEN Is(p, decoded) ELSE 0)]
           /\ fifo' \in Remains(keep)
    BY <1>1 DEF Flush
  <2>2. FifoType'
    BY <2>1, RemainsTypes DEF FifoType
  <2>3. ShownType'
    BY <1>1, <2>1 DEF Flush, ShownType
  <2>4. todo' \in Counts
    BY <2>1, IsValues DEF Counts
  <2>5. StepType'
    BY <1>1, <2>4 DEF Flush, StepType
  <2> QED
    BY <1>1, <2>2, <2>3, <2>5 DEF Flush, store
<1>2. ASSUME NEW c \in Callers, StartCommand(c) PROVE Types'
  <2>1. asked[c] \in {"pause", "resume", "step", "reset", "flush", "reinit"}
    BY <1>2 DEF StartCommand, Asks, Callers
  <2>2. ShownType'
    BY <1>2 DEF StartCommand, ShownType, shown
  <2>3. todo' \in Counts
    BY <1>2, DropsAreCounts DEF StartCommand, StepType
  <2>4. thread' \in {"begin", "flush", "finish"}
    BY <1>2 DEF StartCommand
  <2>5. StepType'
    BY <1>2, <2>1, <2>3, <2>4 DEF StartCommand, StepType
  <2> QED
    BY <1>2, <2>2, <2>5 DEF StartCommand, store
<1>3. ASSUME NEW c \in Callers, Finish(c) PROVE Types'
  <2>1. StepType'
    BY <1>3 DEF Finish, StepType
  <2>2. asked' = [asked EXCEPT ![c] = "none"] /\ asked[c] = task
    BY <1>3 DEF Finish
  <2>3. CallType'
    <3>1. paused' \in BOOLEAN
      BY <1>3 DEF Finish, FreePool, DeletePool, CallType
    <3> QED
      BY <2>2, <3>1 DEF CallType
  <2>4. CASE task = "reset"
    <3>1. FreePool
      BY <1>3, <2>4 DEF Finish
    <3>2. StoreType' /\ UNCHANGED pool
      BY <3>1 DEF FreePool, StoreType, Counts
    <3>3. CodecType'
      BY <3>1, CodecRefsValues DEF FreePool, CodecType
    <3>4. Asks'
      BY <2>2, <3>2 DEF Asks, CallType, Callers
    <3> QED
      BY <1>3, <2>1, <2>3, <3>2, <3>3, <3>4 DEF Finish
  <2>5. CASE task = "reinit"
    <3>1. DeletePool
      BY <1>3, <2>5 DEF Finish
    <3>2. c = "decoder" /\ pool < MaxPools
      BY <2>2, <2>5 DEF Asks, Callers
    <3>3. PoolPics(pool) \subseteq Pics
      BY PoolsBelowMax DEF StoreType
    <3>4. StoreType'
      BY <3>1, <3>2, <3>3, PictureBounds DEF DeletePool, StoreType, Free
    <3>5. Asks'
      BY <2>2, <3>2 DEF Asks, CallType, Callers
    <3> QED
      BY <1>3, <2>1, <2>3, <3>1, <3>4, <3>5 DEF Finish, DeletePool
  <2>6. CASE task \notin {"reset", "reinit"}
    <3>1. UNCHANGED <<store, codec>>
      BY <1>3, <2>6 DEF Finish
    <3>2. Asks'
      BY <2>2, <3>1 DEF Asks, CallType, Callers, store
    <3> QED
      BY <1>3, <2>1, <2>3, <3>1, <3>2 DEF Finish
  <2> QED
    BY <2>4, <2>5, <2>6
<1> QED
  BY <1>1, <1>2, <1>3

LEMMA DisplayKeepsTypes ==
    ASSUME Types
    PROVE  /\ DestroyNext \/ StartDisplay \/ PrepareFirst \/ PrepareMore \/ EndDisplay => Types'
           /\ \A p \in Pics : ReleaseNext(p) => Types'
           /\ \A due, refresh \in BOOLEAN : Choose(due, refresh) => Types'
<1> USE UnchangedTypes DEF Types
<1>1. ASSUME DestroyNext PROVE Types'
  <2>1. StoreType' /\ StepType' /\ UNCHANGED pool
    BY <1>1 DEF DestroyNext, Destroy, StoreType, StepType
  <2> QED
    BY <1>1, <2>1 DEF DestroyNext
<1>2. ASSUME StartDisplay PROVE Types'
  BY <1>2 DEF StartDisplay, LockType, StepType, store
<1>3. ASSUME NEW p \in Pics, ReleaseNext(p) PROVE Types'
  <2>1. StoreType' /\ UNCHANGED pool
    BY <1>3 DEF ReleaseNext, StoreType, Counts
  <2>2. todo' \in Counts
    BY <1>3 DEF ReleaseNext, StepType, Counts
  <2>3. StepType'
    BY <1>3, <2>2 DEF ReleaseNext, StepType
  <2> QED
    BY <1>3, <2>1, <2>3 DEF ReleaseNext
<1>4. ASSUME PrepareFirst PROVE Types'
  <2>1. first' \in BOOLEAN /\ thread' \in {"begin", "more", "end"}
    BY <1>4 DEF PrepareFirst
  <2>2. StoreType' /\ FifoType' /\ ShownType' /\ todo' \in Counts /\ UNCHANGED pool
    <3>1. CASE Pop
      BY <3>1, PopTypes
    <3>2. CASE UNCHANGED <<store, fifo, shown, todo>>
      BY <3>2 DEF store, StepType
    <3>3. CASE /\ HoldAndDrop(decoded, NoneOf) /\ current' = decoded
               /\ UNCHANGED <<pool, zombie, fifo, next, decoded>>
      <4>1. decoded \in Pics \cup {None}
        BY DEF ShownType
      <4>2. StoreType' /\ todo' \in Counts
        BY <3>3, <4>1, HoldAndDropTypes, DropsAreCounts
      <4>3. ShownType'
        BY <3>3 DEF ShownType
      <4> QED
        BY <3>3, <4>2, <4>3
    <3> QED
      BY <1>4, <3>1, <3>2, <3>3 DEF PrepareFirst
  <2>3. StepType'
    BY <1>4, <2>1, <2>2 DEF PrepareFirst, StepType
  <2> QED
    BY <1>4, <2>2, <2>3 DEF PrepareFirst
<1>5. ASSUME PrepareMore PROVE Types'
  <2>1. StoreType' /\ FifoType' /\ ShownType' /\ todo' \in Counts /\ UNCHANGED pool
    BY <1>5, PopTypes DEF PrepareMore, store, StepType
  <2>2. StepType'
    BY <1>5, <2>1 DEF PrepareMore, StepType
  <2> QED
    BY <1>5, <2>1, <2>2 DEF PrepareMore
<1>6. ASSUME EndDisplay PROVE Types'
  <2>1. LockType' /\ StepType'
    BY <1>6 DEF EndDisplay, LockType, StepType
  <2>2. CallType' /\ Asks'
    BY <1>6 DEF EndDisplay, CallType, Asks, Callers, store
  <2> QED
    BY <1>6, <2>1, <2>2 DEF EndDisplay
<1>7. ASSUME NEW due \in BOOLEAN, NEW refresh \in BOOLEAN, Choose(due, refresh) PROVE Types'
  <2>1. thread' \in {"end", "begin"} /\ first' = FALSE
    BY <1>7 DEF Choose
  <2>2. StoreType' /\ ShownType' /\ todo' \in Counts /\ UNCHANGED pool
    <3>1. CASE /\ HoldAndDrop(None, [q \in Pics |-> Is(q, current)])
               /\ current' = next /\ next' = None
      <4>1. StoreType' /\ todo' \in Counts
        BY <1>7, <3>1, HoldAndDropTypes, DropsAreCounts DEF Choose
      <4>2. ShownType'
        BY <1>7, <3>1 DEF Choose, ShownType
      <4> QED
        BY <1>7, <4>1, <4>2 DEF Choose
    <3>2. CASE UNCHANGED <<refs, freed, todo, current, next>>
      BY <1>7, <3>2 DEF Choose, StoreType, ShownType, StepType
    <3> QED
      BY <1>7, <3>1, <3>2 DEF Choose
  <2>3. StepType'
    BY <1>7, <2>1, <2>2 DEF Choose, StepType
  <2> QED
    BY <1>7, <2>2, <2>3 DEF Choose
<1> QED
  BY <1>1, <1>2, <1>3, <1>4, <1>5, <1>6, <1>7

LEMMA TypesInit == Init => Types
<1> SUFFICES ASSUME Init PROVE Types
  OBVIOUS
<1>1. StoreType
  BY PictureBounds DEF Init, StoreType, Counts
<1>2. CodecType /\ FifoType /\ ShownType /\ LockType
  BY CodecRefsValues DEF Init, CodecType, FifoType, ShownType, LockType
<1>3. StepType
  BY DropsAreCounts DEF Init, StepType
<1>4. CallType /\ DecoderType /\ Asks
  BY DEF Init, CallType, DecoderType, Asks, Callers
<1> QED
  BY <1>1, <1>2, <1>3, <1>4 DEF Types

LEMMA TypesStep == Types /\ [Next]_vars => Types'
<1> SUFFICES ASSUME Types, [Next]_vars PROVE Types'
  OBVIOUS
<1>1. CASE UNCHANGED vars
  BY <1>1, UnchangedTypes DEF vars, Types, store
<1>2. CASE Next
  BY <1>2, DecoderKeepsTypes, InputKeepsTypes, CommandsKeepTypes, DisplayKeepsTypes
     DEF Next, ThreadStep
<1> QED
  BY <1>1, <1>2

LEMMA TypesHold == Spec => []Types
BY TypesInit, TypesStep, PTL DEF Spec

\* Types of the pictures and of the three threads: no reference count of a picture
\* goes below zero, and no pool is made after the last format.
THEOREM TypeCorrect == Spec => []TypeOK
<1> QED
  BY TypesHold, TypesGiveTypeOK, PTL

-----------------------------------------------------------------------------
(* Locks, and what a reset leaves                                            *)

\* A next picture follows a current one.
Ordered == next # None => current # None

\* The thread has nothing left to drop when it looks for a command.
Settled == thread = "pop" => Quiet

\* Somebody peeks only with picture_lock.
PeekLocked ==
    /\ peeked # None => lock \in Callers
    /\ lock = "decoder" <=> decoder = "checking"
    /\ lock = "input" => asked["input"] = "none"

DisplayLocked == thread \in {"begin", "more", "choose", "end"} /\ task = "display" => lock = "vout"

\* The output is reset once its decoder is gone, and has dropped every picture when
\* the command ends.
Resetting ==
    /\ asked["input"] = "reset" => decoder = "gone"
    /\ decoder = "gone" => \A p \in Pics : codec[p] \in {"none", "lost"}
    /\ thread \in {"flush", "finish"} /\ task = "reset" => asked["input"] = "reset"
    /\ thread = "flush" => current = None /\ next = None
    /\ thread = "finish" /\ task = "reset" =>
          fifo = <<>> /\ current = None /\ next = None /\ decoded = None

Control == Ordered /\ Settled /\ PeekLocked /\ DisplayLocked /\ Resetting

LEMMA DecoderKeepsControl ==
    ASSUME Types, Control
    PROVE  /\ NewBuffer \/ GetPicture \/ GiveUp \/ FixLeaks \/ FixLeaksEnd \/ AskFlush => Control'
           /\ \A p \in Pics : LinkPicture(p) \/ PutPicture(p) \/ ReleasePicture(p) => Control'
           /\ \A p \in Pics : LosePicture(p) \/ Seize(p) => Control'
<1> USE DEF Control, Ordered, Settled, PeekLocked, DisplayLocked, Resetting, Quiet, NoneOf, shown,
    steps, Callers
<1>1. NewBuffer => Control'
  BY DEF NewBuffer, Types, CallType
<1>2. GetPicture \/ GiveUp => Control'
  BY DEF GetPicture, GiveUp, DecoderRuns
<1>3. FixLeaks \/ FixLeaksEnd => Control'
  BY DEF FixLeaks, Peek, FixLeaksEnd
<1>4. AskFlush => Control'
  BY DEF AskFlush, Types, CallType
<1>5. ASSUME NEW p \in Pics, LinkPicture(p) \/ PutPicture(p) \/ ReleasePicture(p) PROVE Control'
  BY <1>5 DEF LinkPicture, PutPicture, ReleasePicture, DecoderRuns
<1>6. ASSUME NEW p \in Pics, LosePicture(p) \/ Seize(p) PROVE Control'
  BY <1>6 DEF LosePicture, Seize
<1> QED
  BY <1>1, <1>2, <1>3, <1>4, <1>5, <1>6

LEMMA InputKeepsControl ==
    ASSUME Types, Control
    PROVE  /\ IsEmpty \/ IsEmptyEnd \/ DeleteDecoder \/ NewDecoder => Control'
           /\ \A command \in {"pause", "resume", "step"} : AskInput(command) => Control'
<1> USE DEF Control, Ordered, Settled, PeekLocked, DisplayLocked, Resetting, Quiet, NoneOf, shown,
    steps, Callers, InputRuns
<1>1. IsEmpty \/ IsEmptyEnd => Control'
  BY DEF IsEmpty, Peek, IsEmptyEnd
<1>2. DeleteDecoder => Control'
  BY DEF DeleteDecoder, DecoderRuns, Types, CallType
<1>3. NewDecoder => Control'
  BY DEF NewDecoder
<1>4. ASSUME NEW command \in {"pause", "resume", "step"}, AskInput(command) PROVE Control'
  BY <1>4 DEF AskInput, Types, CallType
<1> QED
  BY <1>1, <1>2, <1>3, <1>4

LEMMA CommandsKeepControl ==
    ASSUME Types, Control
    PROVE  /\ Flush => Control'
           /\ \A c \in Callers : StartCommand(c) \/ Finish(c) => Control'
<1> USE DEF Control, Ordered, Settled, PeekLocked, DisplayLocked, Resetting, shown
<1>1. ASSUME Flush PROVE Control'
  <2>1. task = "reset" => decoded' = None /\ fifo' = <<>>
    <3>1. ASSUME task = "reset" PROVE fifo' \in Remains({}) /\ decoded' = None
      BY <1>1, <3>1 DEF Flush
    <3>2. \A f \in Remains({}) : f = <<>>
      BY FS_EmptySet DEF Remains
    <3> QED
      BY <3>1, <3>2
  <2> QED
    BY <1>1, <2>1 DEF Flush
<1>2. ASSUME NEW c \in Callers, StartCommand(c) PROVE Control'
  <2>1. task' = "reset" => asked["input"] = "reset"
    BY <1>2 DEF StartCommand, Types, Asks, Callers
  <2>2. task' # "display" /\ thread' \in {"begin", "finish", "flush"}
        /\ (thread' = "finish" => task' # "reset")
    BY <1>2 DEF StartCommand, Types, Asks, Callers
  <2>3. thread' = "flush" => current' = None /\ next' = None
    BY <1>2 DEF StartCommand
  <2>4. Ordered'
    BY <1>2 DEF StartCommand
  <2> QED
    BY <1>2, <2>1, <2>2, <2>3, <2>4 DEF StartCommand
<1>3. ASSUME NEW c \in Callers, Finish(c) PROVE Control'
  <2>1. /\ Quiet /\ thread' = "pop" /\ asked' = [asked EXCEPT ![c] = "none"]
        /\ UNCHANGED <<fifo, current, next, decoded, lock, peeked, todo, dying, decoder>>
    BY <1>3 DEF Finish
  <2>2. \A p \in Pics : codec[p] \in {"none", "lost"} => codec'[p] \in {"none", "lost"}
    BY <1>3 DEF Finish, FreePool, DeletePool, Types, CodecType
  <2>3. asked'["input"] = asked["input"] \/ asked'["input"] = "none"
    BY <2>1 DEF Types, CallType, Callers
  <2>4. Settled'
    BY <2>1 DEF Quiet
  <2> QED
    BY <2>1, <2>2, <2>3, <2>4
<1> QED
  BY <1>1, <1>2, <1>3

LEMMA PopKeepsOrder == Types /\ Pop => (Ordered => Ordered')
<1> SUFFICES ASSUME Types, Pop, Ordered PROVE Ordered'
  OBVIOUS
<1>1. Head(fifo) \in Pics /\ None \notin Pics
  BY PicsAreNumbers DEF Pop, Types, FifoType
<1> QED
  BY <1>1 DEF Pop, Ordered, shown

LEMMA DisplayKeepsControl ==
    ASSUME Types, Control
    PROVE  /\ DestroyNext \/ StartDisplay \/ PrepareFirst \/ PrepareMore \/ EndDisplay => Control'
           /\ \A p \in Pics : ReleaseNext(p) => Control'
           /\ \A due, refresh \in BOOLEAN : Choose(due, refresh) => Control'
<1> USE DEF Control, PeekLocked, DisplayLocked, Resetting, shown
<1>1. DestroyNext => Control'
  BY DEF DestroyNext, Ordered, Settled, Quiet
<1>2. StartDisplay => Control'
  BY DEF StartDisplay, Ordered, Settled, Callers
<1>3. ASSUME NEW p \in Pics, ReleaseNext(p) PROVE Control'
  <2>1. thread # "pop"
    BY <1>3 DEF ReleaseNext, Settled, Quiet, NoneOf
  <2> QED
    BY <1>3, <2>1 DEF ReleaseNext, Ordered, Settled
<1>4. ASSUME PrepareFirst PROVE Control'
  <2>1. Ordered'
    <3>1. CASE Pop
      BY <3>1, PopKeepsOrder
    <3>2. CASE ~Pop
      BY <1>4, <3>2 DEF PrepareFirst, Ordered
    <3> QED
      BY <3>1, <3>2
  <2>2. thread' \in {"begin", "more", "end"} /\ thread = "begin"
    BY <1>4 DEF PrepareFirst
  <2>3. UNCHANGED <<codec, lock, peeked, task, asked, decoder>>
    BY <1>4 DEF PrepareFirst
  <2> QED
    BY <2>1, <2>2, <2>3 DEF Settled
<1>5. ASSUME PrepareMore PROVE Control'
  <2>1. Ordered'
    <3>1. CASE Pop
      BY <3>1, PopKeepsOrder
    <3>2. CASE ~Pop
      BY <1>5, <3>2 DEF PrepareMore, Ordered
    <3> QED
      BY <3>1, <3>2
  <2>2. thread' \in {"choose", "more"} /\ thread = "more"
    BY <1>5 DEF PrepareMore
  <2>3. UNCHANGED <<codec, lock, peeked, task, asked, decoder>>
    BY <1>5 DEF PrepareMore
  <2> QED
    BY <2>1, <2>2, <2>3 DEF Settled
<1>6. ASSUME EndDisplay PROVE Control'
  <2>1. Settled' /\ Ordered'
    BY <1>6 DEF EndDisplay, Settled, Ordered, Quiet
  <2>2. asked'["input"] = asked["input"] \/ asked'["input"] = "none"
    BY <1>6 DEF EndDisplay, Types, CallType, Callers
  <2>3. task = "display" => lock = "vout" /\ lock' = "none" /\ peeked = None
    BY <1>6 DEF EndDisplay, Callers
  <2>4. task # "display" => UNCHANGED lock
    BY <1>6 DEF EndDisplay
  <2>5. thread' = "pop" /\ UNCHANGED <<codec, peeked, decoder>>
    BY <1>6 DEF EndDisplay
  <2> QED
    BY <2>1, <2>2, <2>3, <2>4, <2>5
<1>7. ASSUME NEW due \in BOOLEAN, NEW refresh \in BOOLEAN, Choose(due, refresh) PROVE Control'
  <2>1. Ordered'
    BY <1>7 DEF Choose, Ordered
  <2>2. thread' \in {"end", "begin"} /\ thread = "choose"
    BY <1>7 DEF Choose
  <2>3. UNCHANGED <<codec, lock, peeked, task, asked, decoder>>
    BY <1>7 DEF Choose
  <2> QED
    BY <2>1, <2>2, <2>3 DEF Settled
<1> QED
  BY <1>1, <1>2, <1>3, <1>4, <1>5, <1>6, <1>7

LEMMA ControlInit == Init => Control
BY DEF Init, Control, Ordered, Settled, Quiet, PeekLocked, DisplayLocked, Resetting, Callers

LEMMA ControlStep == Types /\ Control /\ [Next]_vars => Control'
<1> SUFFICES ASSUME Types, Control, [Next]_vars PROVE Control'
  OBVIOUS
<1>1. CASE UNCHANGED vars
  BY <1>1 DEF vars, shown, steps, Control, Ordered, Settled, Quiet, NoneOf, PeekLocked,
     DisplayLocked, Resetting
<1>2. CASE Next
  BY <1>2, DecoderKeepsControl, InputKeepsControl, CommandsKeepControl, DisplayKeepsControl
     DEF Next, ThreadStep
<1> QED
  BY <1>1, <1>2

-----------------------------------------------------------------------------
(* The counts match the references                                           *)

Matched == \A p \in Pics : refs[p] = Holders(p)

\* A picture is in the FIFO once, and not before the decoder has put it there.
Distinct == \A i, j \in DOMAIN fifo : fifo[i] = fifo[j] => i = j
Fresh == \A p \in Pics : codec[p] \in {"new", "linked"} => p \notin Queued

Balanced == Matched /\ Distinct /\ Fresh

\* The references others than the thread of the output is about to drop.
Kept(p) ==
    CodecRefs[codec[p]] + (IF p \in Queued THEN 1 ELSE 0)
    + Is(p, current) + Is(p, next) + Is(p, decoded) + Is(p, peeked)

LEMMA HoldersValue ==
    ASSUME Types, NEW p \in Pics
    PROVE  /\ CodecRefs[codec[p]] \in Nat /\ todo[p] \in Nat /\ refs[p] \in Nat
           /\ Kept(p) \in Nat /\ Holders(p) = Kept(p) + todo[p]
<1>1. CodecRefs[codec[p]] \in Nat
  BY CodecRefsValues DEF Types, CodecType
<1>2. todo[p] \in Nat /\ refs[p] \in Nat
  BY DEF Types, StepType, StoreType, Counts
<1>3. \A q : Is(p, q) \in Nat
  BY IsValues
<1> QED
  BY <1>1, <1>2, <1>3 DEF Kept, Holders

LEMMA FifoTail ==
    ASSUME Types, Distinct, fifo # <<>>, fifo' = Tail(fifo)
    PROVE  Head(fifo) \in Queued /\ Queued' = Queued \ {Head(fifo)} /\ Distinct'
<1>1. fifo \in Seq(Pics) /\ Len(fifo) \in Nat /\ DOMAIN fifo = 1..Len(fifo) /\ Len(fifo) > 0
  BY DEF Types, FifoType
<1>2. Head(fifo) = fifo[1] /\ DOMAIN fifo' = 1..(Len(fifo) - 1)
  BY <1>1
<1>3. \A i \in DOMAIN fifo' : fifo'[i] = fifo[i + 1] /\ i + 1 \in DOMAIN fifo
  BY <1>1, <1>2
<1>4. Distinct'
  BY <1>2, <1>3 DEF Distinct
<1>5. Queued' \subseteq Queued \ {Head(fifo)}
  BY <1>1, <1>2, <1>3 DEF Queued, Distinct
<1>6. ASSUME NEW i \in DOMAIN fifo, fifo[i] # Head(fifo) PROVE fifo[i] \in Queued'
  <2>1. i - 1 \in DOMAIN fifo' /\ fifo'[i - 1] = fifo[i]
    BY <1>1, <1>2, <1>3, <1>6
  <2> QED
    BY <2>1 DEF Queued
<1>7. Head(fifo) \in Queued
  BY <1>1, <1>2 DEF Queued
<1>8. ASSUME NEW q \in Queued \ {Head(fifo)} PROVE q \in Queued'
  <2>1. PICK i \in DOMAIN fifo : fifo[i] = q
    BY DEF Queued
  <2> QED
    BY <1>6, <2>1
<1> QED
  BY <1>4, <1>5, <1>7, <1>8

LEMMA FifoAppend ==
    ASSUME Types, Distinct, NEW p \in Pics, p \notin Queued, fifo' = Append(fifo, p)
    PROVE  Queued' = Queued \cup {p} /\ Distinct'
<1>1. fifo \in Seq(Pics) /\ Len(fifo) \in Nat /\ DOMAIN fifo = 1..Len(fifo)
  BY DEF Types, FifoType
<1>2. /\ DOMAIN fifo' = 1..(Len(fifo) + 1) /\ fifo'[Len(fifo) + 1] = p
      /\ \A i \in DOMAIN fifo : fifo'[i] = fifo[i]
  BY <1>1
<1>3. \A i \in DOMAIN fifo : fifo[i] # p
  BY DEF Queued
<1>4. Distinct'
  BY <1>1, <1>2, <1>3 DEF Distinct
<1> QED
  BY <1>1, <1>2, <1>4 DEF Queued

LEMMA FifoRemains ==
    ASSUME Types, Distinct, NEW keep \in SUBSET Queued, fifo' \in Remains(keep)
    PROVE  Queued' = keep /\ Distinct'
<1>1. DOMAIN fifo' = 1..Len(fifo') /\ {fifo'[i] : i \in DOMAIN fifo'} = keep /\ Len(fifo') \in Nat
  BY RemainsTypes
<1>2. ASSUME NEW i \in DOMAIN fifo', NEW j \in DOMAIN fifo', i < j PROVE fifo'[i] # fifo'[j]
  <2>1. PICK a, b \in DOMAIN fifo : a < b /\ fifo[a] = fifo'[i] /\ fifo[b] = fifo'[j]
    BY <1>2 DEF Remains
  <2>2. a # b
    BY <2>1 DEF Types, FifoType
  <2> QED
    BY <2>1, <2>2 DEF Distinct
<1>3. Distinct'
  BY <1>1, <1>2 DEF Distinct
<1> QED
  BY <1>1, <1>3 DEF Queued

LEMMA FifoUnchanged ==
    ASSUME UNCHANGED fifo
    PROVE  Queued' = Queued /\ (Distinct => Distinct')
BY DEF Queued, Distinct

\* A step that leaves the FIFO alone, and takes as many references to one picture as
\* somebody gets on it, keeps the balance.
LEMMA OnePicture ==
    ASSUME Types, Balanced, NEW q \in Pics, UNCHANGED fifo,
           \A p \in Pics \ {q} : refs'[p] = refs[p] /\ Holders(p)' = Holders(p),
           refs'[q] = Holders(q)',
           \A p \in Pics : codec'[p] \in {"new", "linked"} => p \notin Queued
    PROVE  Balanced'
<1>1. Queued' = Queued /\ Distinct'
  BY FifoUnchanged DEF Balanced
<1>2. Matched'
  BY DEF Balanced, Matched
<1>3. Fresh'
  BY <1>1 DEF Fresh
<1> QED
  BY <1>1, <1>2, <1>3 DEF Balanced

\* The same when only the count and what the decoder has of a picture change.
LEMMA OneInDecoder ==
    ASSUME Types, Balanced, NEW q \in Pics, NEW state \in DOMAIN CodecRefs,
           codec' = [codec EXCEPT ![q] = state],
           \A p \in Pics \ {q} : refs'[p] = refs[p],
           refs'[q] = refs[q] + CodecRefs[state] - CodecRefs[codec[q]],
           state \in {"new", "linked"} => q \notin Queued,
           UNCHANGED <<fifo, current, next, decoded, peeked, todo>>
    PROVE  Balanced'
<1>1. codec'[q] = state /\ \A p \in Pics \ {q} : codec'[p] = codec[p]
  BY DEF Types, CodecType
<1>2. Queued' = Queued
  BY FifoUnchanged
<1>3. \A p \in Pics : Holders(p)' = Holders(p) + CodecRefs[codec'[p]] - CodecRefs[codec[p]]
  <2> TAKE p \in Pics
  <2>1. CodecRefs[codec[p]] \in Nat /\ CodecRefs[codec'[p]] \in Nat
    BY <1>1, CodecRefsValues DEF Types, CodecType
  <2>2. todo[p] \in Nat /\ \A x : Is(p, x) \in Nat
    BY HoldersValue, IsValues
  <2>3. Holders(p)' = CodecRefs[codec'[p]] + (IF p \in Queued' THEN 1 ELSE 0) + todo'[p]
                      + Is(p, current') + Is(p, next') + Is(p, decoded') + Is(p, peeked')
    BY DEF Holders, Is
  <2> QED
    BY <1>2, <2>1, <2>2, <2>3 DEF Holders
<1>4. \A p \in Pics : refs[p] = Holders(p) /\ CodecRefs[codec[p]] \in Int /\ Holders(p) \in Int
  BY HoldersValue DEF Balanced, Matched
<1>5. \A p \in Pics : codec'[p] \in {"new", "linked"} => p \notin Queued
  BY <1>1 DEF Balanced, Fresh
<1>6. \A p \in Pics \ {q} : Holders(p)' = Holders(p)
  BY <1>1, <1>3, <1>4
<1>7. refs'[q] = Holders(q)'
  BY <1>1, <1>3, <1>4
<1> QED
  BY <1>5, <1>6, <1>7, OnePicture

\* A picture nobody has a reference on is nowhere.
LEMMA FreeIsNowhere ==
    ASSUME Types, Balanced, NEW p \in Pics, refs[p] = 0
    PROVE  codec[p] = "none" /\ p \notin Queued
<1>1. CodecRefs[codec[p]] = 0 /\ p \notin Queued
  <2>1. CodecRefs[codec[p]] \in Nat /\ todo[p] \in Nat /\ \A x : Is(p, x) \in Nat
    BY HoldersValue, IsValues
  <2>2. Holders(p) = 0
    BY DEF Balanced, Matched
  <2> QED
    BY <2>1, <2>2 DEF Holders
<1>2. codec[p] \in {"none", "new", "linked", "kept", "lost"}
  BY CodecRefsValues DEF Types, CodecType
<1> QED
  BY <1>1, <1>2, CodecRefsValues

\* A step that changes neither counts nor holders.
LEMMA NothingMoves ==
    ASSUME Balanced, UNCHANGED <<refs, codec, fifo, current, next, decoded, peeked, todo>>
    PROVE  Balanced'
<1>1. Queued' = Queued /\ Distinct'
  BY FifoUnchanged DEF Balanced
<1>2. \A p \in Pics : Holders(p)' = Holders(p)
  BY <1>1 DEF Holders, Is
<1>3. Matched'
  BY <1>2 DEF Balanced, Matched
<1>4. Fresh'
  BY <1>1 DEF Balanced, Fresh
<1> QED
  BY <1>1, <1>3, <1>4 DEF Balanced

\* Peeking takes a reference, which the end of it drops.
LEMMA PeekBalances ==
    ASSUME Types, Balanced, NEW q \in Pics \cup {None}, NEW r \in Pics \cup {None},
           peeked = q, peeked' = r, q = None \/ r = None,
           \A p \in Pics : refs'[p] = refs[p] + Is(p, r) - Is(p, q),
           UNCHANGED <<codec, fifo, current, next, decoded, todo>>
    PROVE  Balanced'
<1>1. Queued' = Queued /\ Distinct'
  BY FifoUnchanged DEF Balanced
<1>2. Matched'
  <2> SUFFICES ASSUME NEW p \in Pics PROVE refs'[p] = Holders(p)'
    BY DEF Matched
  <2>1. CodecRefs[codec[p]] \in Nat /\ todo[p] \in Nat /\ \A x : Is(p, x) \in Nat
    BY HoldersValue, IsValues
  <2>2. Holders(p)' = CodecRefs[codec[p]] + (IF p \in Queued THEN 1 ELSE 0) + todo[p]
                      + Is(p, current) + Is(p, next) + Is(p, decoded) + Is(p, r)
    BY <1>1 DEF Holders, Is
  <2>3. refs[p] = CodecRefs[codec[p]] + (IF p \in Queued THEN 1 ELSE 0) + todo[p]
                      + Is(p, current) + Is(p, next) + Is(p, decoded) + Is(p, q)
    BY DEF Balanced, Matched, Holders
  <2> QED
    BY <2>1, <2>2, <2>3
<1>3. Fresh'
  BY <1>1 DEF Balanced, Fresh
<1> QED
  BY <1>1, <1>2, <1>3 DEF Balanced

LEMMA PeekKeepsBalance ==
    ASSUME Types, Control, Balanced, NEW who \in Callers, Peek(who)
    PROVE  Balanced'
<1>1. peeked = None /\ \A p \in Pics : Is(p, None) = 0
  BY PicsAreNumbers DEF Peek, Control, PeekLocked, Callers, Is
<1>2. CASE fifo = <<>>
  BY <1>2, NothingMoves DEF Peek, shown, steps
<1>3. CASE fifo # <<>>
  <2>1. Head(fifo) \in Pics
    BY <1>3 DEF Types, FifoType
  <2>2. peeked' = Head(fifo) /\ Hold(Head(fifo))
    BY <1>3 DEF Peek
  <2>3. \A p \in Pics : refs'[p] = refs[p] + Is(p, Head(fifo)) - Is(p, None)
    BY <1>1, <2>1, <2>2, HoldersValue DEF Hold, Is, Types, StoreType, Counts
  <2> QED
    BY <1>1, <2>1, <2>2, <2>3, PeekBalances DEF Peek, shown, steps
<1> QED
  BY <1>2, <1>3

LEMMA UnpeekKeepsBalance ==
    ASSUME Types, Balanced, peeked' = None,
           \/ peeked # None /\ Release(peeked)
           \/ peeked = None /\ UNCHANGED refs,
           UNCHANGED <<codec, fifo, current, next, decoded, todo>>
    PROVE  Balanced'
<1>1. \A p \in Pics : Is(p, None) = 0
  BY PicsAreNumbers DEF Is
<1>2. peeked \in Pics \cup {None}
  BY DEF Types, LockType
<1>3. \A p \in Pics : refs'[p] = refs[p] + Is(p, None) - Is(p, peeked)
  BY <1>1, <1>2, HoldersValue DEF Release, Is, Types, StoreType, Counts
<1> QED
  BY <1>2, <1>3, PeekBalances

LEMMA DecoderKeepsBalance ==
    ASSUME Types, Control, Balanced
    PROVE  /\ NewBuffer \/ GetPicture \/ GiveUp \/ FixLeaks \/ FixLeaksEnd \/ AskFlush => Balanced'
           /\ \A p \in Pics : LinkPicture(p) \/ PutPicture(p) \/ ReleasePicture(p) => Balanced'
           /\ \A p \in Pics : LosePicture(p) => Balanced'
           /\ \A p \in Pics : Seize(p) /\ decoder' # "robbed" => Balanced'
<1> USE CodecRefsValues
<1>0. refs \in Counts /\ codec \in [Pics -> DOMAIN CodecRefs]
  BY DEF Types, StoreType, CodecType
<1>1. NewBuffer \/ GiveUp \/ AskFlush => Balanced'
  BY NothingMoves DEF NewBuffer, GiveUp, AskFlush, store, shown, steps
<1>2. ASSUME GetPicture PROVE Balanced'
  <2>1. CASE Free = {}
    BY <1>2, <2>1, NothingMoves DEF GetPicture, shown, steps
  <2>2. CASE Free # {}
    <3>1. PICK q \in Free : Hold(q) /\ codec' = [codec EXCEPT ![q] = "new"]
      BY <1>2, <2>2 DEF GetPicture
    <3>2. q \in Pics /\ refs[q] = 0
      BY PoolsBelowMax DEF Free, Types, StoreType
    <3>3. codec[q] = "none" /\ q \notin Queued
      BY <3>2, FreeIsNowhere
    <3>4. refs'[q] = 1 /\ \A p \in Pics \ {q} : refs'[p] = refs[p]
      BY <1>0, <3>1, <3>2 DEF Hold, Counts
    <3>5. "new" \in DOMAIN CodecRefs /\ refs'[q] = refs[q] + CodecRefs["new"] - CodecRefs[codec[q]]
      BY <3>2, <3>3, <3>4
    <3>6. UNCHANGED <<fifo, current, next, decoded, peeked, todo>>
      BY <1>2 DEF GetPicture, shown, steps
    <3> QED
      BY <3>1, <3>2, <3>3, <3>4, <3>5, <3>6, OneInDecoder
  <2> QED
    BY <2>1, <2>2
<1>3. FixLeaks => Balanced'
  BY PeekKeepsBalance DEF FixLeaks, Callers
<1>4. FixLeaksEnd => Balanced'
  BY UnpeekKeepsBalance DEF FixLeaksEnd, store, shown, steps
<1>5. ASSUME NEW q \in Pics, LinkPicture(q) PROVE Balanced'
  <2>1. /\ codec[q] = "new" /\ codec' = [codec EXCEPT ![q] = "linked"]
        /\ refs'[q] = refs[q] + 1 /\ \A p \in Pics \ {q} : refs'[p] = refs[p]
    BY <1>0, <1>5 DEF LinkPicture, Hold, Counts
  <2>2. refs[q] \in Nat /\ q \notin Queued
    BY <1>0, <2>1 DEF Counts, Balanced, Fresh
  <2>3. "linked" \in DOMAIN CodecRefs /\ refs'[q] = refs[q] + CodecRefs["linked"] - CodecRefs[codec[q]]
    BY <2>1, <2>2
  <2>4. UNCHANGED <<fifo, current, next, decoded, peeked, todo>>
    BY <1>5 DEF LinkPicture, shown, steps
  <2> QED
    BY <2>1, <2>2, <2>3, <2>4, OneInDecoder
<1>6. ASSUME NEW q \in Pics, ReleasePicture(q) PROVE Balanced'
  <2> DEFINE left == IF codec[q] = "linked" THEN "kept" ELSE "none"
  <2>1. /\ codec[q] \in {"new", "linked", "kept"} /\ codec' = [codec EXCEPT ![q] = left]
        /\ refs'[q] = refs[q] - 1 /\ \A p \in Pics \ {q} : refs'[p] = refs[p]
    BY <1>0, <1>6 DEF ReleasePicture, Release, Counts
  <2>2. refs[q] \in Nat /\ CodecRefs[left] - CodecRefs[codec[q]] = -1 /\ left \in {"kept", "none"}
    BY <1>0, <2>1 DEF Counts
  <2>3. refs'[q] = refs[q] + CodecRefs[left] - CodecRefs[codec[q]]
    BY <2>1, <2>2
  <2> HIDE DEF left
  <2> QED
    BY <1>6, <2>1, <2>2, <2>3, OneInDecoder DEF ReleasePicture, shown, steps
<1>7. ASSUME NEW q \in Pics, LosePicture(q) PROVE Balanced'
  <2>1. codec[q] \in {"new", "kept"} /\ codec' = [codec EXCEPT ![q] = "lost"] /\ UNCHANGED refs
    BY <1>7 DEF LosePicture, store
  <2>2. refs[q] \in Nat
    BY <1>0 DEF Counts
  <2>3. "lost" \in DOMAIN CodecRefs /\ refs'[q] = refs[q] + CodecRefs["lost"] - CodecRefs[codec[q]]
    BY <2>1, <2>2
  <2>4. UNCHANGED <<fifo, current, next, decoded, peeked, todo>>
    BY <1>7 DEF LosePicture, shown, steps
  <2> QED
    BY <2>1, <2>3, <2>4, OneInDecoder
<1>8. ASSUME NEW q \in Pics, Seize(q), decoder' # "robbed" PROVE Balanced'
  <2>1. /\ codec[q] = "lost" /\ refs[q] = 1 /\ codec' = [codec EXCEPT ![q] = "none"]
        /\ refs'[q] = 0 /\ \A p \in Pics \ {q} : refs'[p] = refs[p]
    BY <1>0, <1>8 DEF Seize, Counts
  <2>2. "none" \in DOMAIN CodecRefs /\ refs'[q] = refs[q] + CodecRefs["none"] - CodecRefs[codec[q]]
    BY <2>1
  <2>3. UNCHANGED <<fifo, current, next, decoded, peeked, todo>>
    BY <1>8 DEF Seize, shown, steps
  <2> QED
    BY <2>1, <2>2, <2>3, OneInDecoder
<1>9. ASSUME NEW q \in Pics, PutPicture(q) PROVE Balanced'
  <2> DEFINE left == IF codec[q] = "linked" THEN "kept" ELSE "none"
  <2>1. /\ codec[q] \in {"new", "linked"} /\ codec'[q] = left /\ UNCHANGED refs
        /\ \A p \in Pics \ {q} : codec'[p] = codec[p]
    BY <1>0, <1>9 DEF PutPicture, store
  <2>2. q \notin Queued
    BY <2>1 DEF Balanced, Fresh
  <2>3. Queued' = Queued \cup {q} /\ Distinct'
    BY <1>9, <2>2, FifoAppend DEF PutPicture, Balanced
  <2>4. CodecRefs[codec'[q]] = CodecRefs[codec[q]] - 1 /\ left \in {"kept", "none"}
    BY <2>1
  <2> HIDE DEF left
  <2>5. Matched'
    <3> SUFFICES ASSUME NEW p \in Pics PROVE refs'[p] = Holders(p)'
      BY DEF Matched
    <3>1. CodecRefs[codec[p]] \in Nat /\ todo[p] \in Nat /\ \A x : Is(p, x) \in Nat
      BY HoldersValue, IsValues
    <3>2. Holders(p)' = CodecRefs[codec'[p]] + (IF p \in Queued' THEN 1 ELSE 0) + todo[p]
                        + Is(p, current) + Is(p, next) + Is(p, decoded) + Is(p, peeked)
      BY <1>9 DEF PutPicture, shown, steps, Holders, Is
    <3>3. refs'[p] = CodecRefs[codec[p]] + (IF p \in Queued THEN 1 ELSE 0) + todo[p]
                        + Is(p, current) + Is(p, next) + Is(p, decoded) + Is(p, peeked)
      BY <2>1 DEF Balanced, Matched, Holders
    <3>4. CodecRefs[codec'[p]] + (IF p \in Queued' THEN 1 ELSE 0)
          = CodecRefs[codec[p]] + (IF p \in Queued THEN 1 ELSE 0)
      <4>1. CASE p = q
        BY <2>2, <2>3, <2>4, <3>1, <4>1
      <4>2. CASE p # q
        BY <2>1, <2>3, <4>2
      <4> QED
        BY <4>1, <4>2
    <3> QED
      BY <3>1, <3>2, <3>3, <3>4
  <2>6. Fresh'
    BY <2>1, <2>3, <2>4 DEF Balanced, Fresh
  <2> QED
    BY <2>3, <2>5, <2>6 DEF Balanced
<1> QED
  BY <1>1, <1>2, <1>3, <1>4, <1>5, <1>6, <1>7, <1>8, <1>9

LEMMA InputKeepsBalance ==
    ASSUME Types, Control, Balanced
    PROVE  /\ IsEmpty \/ IsEmptyEnd \/ DeleteDecoder \/ NewDecoder => Balanced'
           /\ \A command \in {"pause", "resume", "step"} : AskInput(command) => Balanced'
<1>1. IsEmpty => Balanced'
  BY PeekKeepsBalance DEF IsEmpty, Callers
<1>2. IsEmptyEnd => Balanced'
  BY UnpeekKeepsBalance DEF IsEmptyEnd, store, shown, steps
<1>3. DeleteDecoder \/ NewDecoder => Balanced'
  BY NothingMoves DEF DeleteDecoder, NewDecoder, store, shown, steps
<1>4. ASSUME NEW command \in {"pause", "resume", "step"}, AskInput(command) PROVE Balanced'
  BY <1>4, NothingMoves DEF AskInput, store, shown, steps
<1> QED
  BY <1>1, <1>2, <1>3, <1>4

\* What the FIFO and the thread of the output have of a picture.
Shares(p) ==
    (IF p \in Queued THEN 1 ELSE 0) + todo[p] + Is(p, current) + Is(p, next) + Is(p, decoded)

LEMMA SharesValue ==
    ASSUME Types, NEW p \in Pics
    PROVE  /\ Shares(p) \in Nat /\ CodecRefs[codec[p]] \in Nat /\ Is(p, peeked) \in Nat
           /\ refs[p] \in Nat
           /\ Holders(p) = CodecRefs[codec[p]] + Shares(p) + Is(p, peeked)
<1>1. todo[p] \in Nat /\ CodecRefs[codec[p]] \in Nat /\ refs[p] \in Nat
  BY HoldersValue
<1>2. \A q : Is(p, q) \in Nat
  BY IsValues
<1> QED
  BY <1>1, <1>2 DEF Shares, Holders

\* What a sum and one of its parts lose alike.
LEMMA SameLoss ==
    ASSUME NEW C \in Nat, NEW P \in Nat, NEW S \in Nat, NEW T \in Nat, NEW r \in Nat, NEW q \in Nat,
           r = C + S + P, q - T = r - S
    PROVE  q = C + T + P
OBVIOUS

\* A step of the thread keeps the balance when the count of each picture changes by
\* what it and the FIFO get or lose.
LEMMA ThreadMoves ==
    ASSUME Types, Types', Balanced, UNCHANGED <<codec, peeked>>,
           Distinct', Queued' \subseteq Queued,
           \A p \in Pics : refs'[p] - Shares(p)' = refs[p] - Shares(p)
    PROVE  Balanced'
<1>1. Matched'
  <2> SUFFICES ASSUME NEW p \in Pics PROVE refs'[p] = Holders(p)'
    BY DEF Matched
  <2>1. /\ Shares(p) \in Nat /\ CodecRefs[codec[p]] \in Nat /\ Is(p, peeked) \in Nat
        /\ refs[p] = CodecRefs[codec[p]] + Shares(p) + Is(p, peeked)
    BY SharesValue DEF Balanced, Matched
  <2>2. Shares(p)' \in Nat /\ refs'[p] \in Nat
    <3>1. todo'[p] \in Nat /\ refs'[p] \in Nat
      BY DEF Types, StepType, StoreType, Counts
    <3>2. \A q : Is(p, q) \in Nat
      BY IsValues
    <3>3. Shares(p)' = (IF p \in Queued' THEN 1 ELSE 0) + todo'[p]
                       + Is(p, current') + Is(p, next') + Is(p, decoded')
      BY DEF Shares, Is
    <3> QED
      BY <3>1, <3>2, <3>3
  <2>3. Holders(p)' = CodecRefs[codec[p]] + Shares(p)' + Is(p, peeked)
    <3>1. todo'[p] \in Nat
      BY DEF Types, StepType, Counts
    <3>2. \A q : Is(p, q) \in Nat
      BY IsValues
    <3>3. Shares(p)' = (IF p \in Queued' THEN 1 ELSE 0) + todo'[p]
                       + Is(p, current') + Is(p, next') + Is(p, decoded')
      BY DEF Shares, Is
    <3>4. Holders(p)' = CodecRefs[codec[p]] + (IF p \in Queued' THEN 1 ELSE 0) + todo'[p]
                       + Is(p, current') + Is(p, next') + Is(p, decoded') + Is(p, peeked)
      BY DEF Holders, Is
    <3> QED
      BY <2>1, <3>1, <3>2, <3>3, <3>4
  <2>4. refs'[p] - Shares(p)' = refs[p] - Shares(p)
    OBVIOUS
  <2> DEFINE S == Shares(p) T == Shares(p)' C == CodecRefs[codec[p]] P == Is(p, peeked)
  <2>5. /\ S \in Nat /\ T \in Nat /\ C \in Nat /\ P \in Nat /\ refs'[p] \in Nat /\ refs[p] \in Nat
        /\ refs[p] = C + S + P /\ refs'[p] - T = refs[p] - S
    BY <2>1, <2>2, <2>4, SharesValue
  <2>6. Holders(p)' = C + T + P
    BY <2>3
  <2> HIDE DEF S, T, C, P
  <2>7. refs'[p] = C + T + P
    BY <2>5, SameLoss
  <2> QED
    BY <2>6, <2>7
<1>2. Fresh'
  BY DEF Balanced, Fresh
<1> QED
  BY <1>1, <1>2 DEF Balanced

\* A reference held and some dropped: what the count loses the thread owes no more.
LEMMA HoldAndDropBalance ==
    ASSUME Types, todo = NoneOf, NEW held, NEW dropped \in Counts,
           HoldAndDrop(held, dropped), NEW p \in Pics
    PROVE  refs'[p] - todo'[p] = refs[p] + Is(p, held) - dropped[p]
<1>1. refs[p] \in Nat /\ todo[p] = 0 /\ dropped[p] \in Nat /\ Is(p, held) \in Nat
  BY HoldersValue, IsValues DEF NoneOf, Counts
<1> QED
  BY <1>1 DEF HoldAndDrop

\* The value of what the thread has of a picture after a step.
LEMMA SharesNext ==
    ASSUME NEW p \in Pics
    PROVE  Shares(p)' = (IF p \in Queued' THEN 1 ELSE 0) + todo'[p]
                        + Is(p, current') + Is(p, next') + Is(p, decoded')
BY DEF Shares, Is

LEMMA CommandsKeepBalance ==
    ASSUME Types, Types', Control, Balanced
    PROVE  /\ Flush => Balanced'
           /\ \A c \in Callers : StartCommand(c) \/ Finish(c) => Balanced'
<1>0. \A p \in Pics : \A x : Is(p, None) = 0 /\ Is(p, x) \in Nat
  BY PicsAreNumbers, IsValues DEF Is
<1>1. ASSUME Flush PROVE Balanced'
  <2>1. PICK keep \in SUBSET Queued, last \in {decoded, None} :
           /\ decoded' = last
           /\ todo' = [p \in Pics |-> (IF p \in Queued \ keep THEN 1 ELSE 0)
                                      + (IF last = None THEN Is(p, decoded) ELSE 0)]
           /\ fifo' \in Remains(keep)
    BY <1>1 DEF Flush
  <2>2. Queued' = keep /\ Distinct'
    BY <2>1, FifoRemains DEF Balanced
  <2>3. UNCHANGED <<refs, codec, peeked, current, next>> /\ todo = NoneOf
    BY <1>1 DEF Flush, Quiet, store
  <2>4. ASSUME NEW p \in Pics PROVE refs'[p] - Shares(p)' = refs[p] - Shares(p)
    <3>1. todo[p] = 0 /\ refs[p] \in Nat
      BY <2>3, HoldersValue DEF NoneOf
    <3>2. todo'[p] = (IF p \in Queued \ keep THEN 1 ELSE 0)
                     + (IF last = None THEN Is(p, decoded) ELSE 0)
      BY <2>1
    <3>3. (IF last = None THEN Is(p, decoded) ELSE 0) + Is(p, decoded') = Is(p, decoded)
      BY <1>0, <2>1
    <3>4. (IF p \in Queued' THEN 1 ELSE 0) + (IF p \in Queued \ keep THEN 1 ELSE 0)
          = (IF p \in Queued THEN 1 ELSE 0)
      BY <2>2
    <3>5. Shares(p)' = Shares(p)
      <4> DEFINE A == Is(p, decoded) B == Is(p, decoded')
                 C == IF last = None THEN Is(p, decoded) ELSE 0
                 D == IF p \in Queued' THEN 1 ELSE 0
                 E == IF p \in Queued \ keep THEN 1 ELSE 0
                 F == IF p \in Queued THEN 1 ELSE 0
                 G == Is(p, current) H == Is(p, next)
      <4>1. /\ A \in Nat /\ B \in Nat /\ C \in Nat /\ D \in Nat /\ E \in Nat /\ F \in Nat
            /\ G \in Nat /\ H \in Nat
        BY <1>0
      <4>2. Shares(p)' = D + (E + C) + G + H + B /\ Shares(p) = F + 0 + G + H + A
        BY <2>3, <3>1, <3>2, SharesNext DEF Shares
      <4>3. C + B = A /\ D + E = F
        BY <3>3, <3>4
      <4> HIDE DEF A, B, C, D, E, F, G, H
      <4> QED
        BY <4>1, <4>2, <4>3
    <3> QED
      BY <2>3, <3>5
  <2> QED
    BY <2>2, <2>3, <2>4, ThreadMoves
<1>2. ASSUME NEW c \in Callers, StartCommand(c) PROVE Balanced'
  <2>1. UNCHANGED <<refs, codec, fifo, peeked, decoded>> /\ todo = NoneOf
    BY <1>2 DEF StartCommand, store, shown, Control, Settled, Quiet
  <2>2. CASE UNCHANGED <<shown, todo>>
    BY <2>1, <2>2, NothingMoves DEF shown
  <2>3. CASE todo' = Prepared /\ current' = None /\ next' = None
    <3>1. Queued' = Queued /\ Distinct'
      BY <2>1, FifoUnchanged DEF Balanced
    <3>2. ASSUME NEW p \in Pics PROVE Shares(p)' = Shares(p)
      <4>1. todo[p] = 0 /\ todo'[p] = Is(p, current) + Is(p, next)
        BY <2>1, <2>3 DEF NoneOf, Prepared
      <4>2. Is(p, current') = 0 /\ Is(p, next') = 0 /\ Is(p, decoded') = Is(p, decoded)
        BY <1>0, <2>1, <2>3
      <4> QED
        BY <1>0, <3>1, <4>1, <4>2, SharesNext DEF Shares
    <3> QED
      BY <2>1, <3>1, <3>2, ThreadMoves
  <2> QED
    BY <1>2, <2>2, <2>3 DEF StartCommand
<1>3. ASSUME NEW c \in Callers, Finish(c) PROVE Balanced'
  <2>1. UNCHANGED <<fifo, current, next, decoded, peeked, todo>> /\ todo = NoneOf
    BY <1>3 DEF Finish, shown, Quiet
  <2>2. CASE task = "reset"
    <3>1. FreePool /\ thread = "finish"
      BY <1>3, <2>2 DEF Finish
    <3>2. fifo = <<>> /\ current = None /\ next = None /\ decoded = None
      BY <2>2, <3>1 DEF Control, Resetting
    <3>3. peeked = None
      <4>1. asked["input"] = "reset" /\ decoder = "gone"
        BY <2>2, <3>1 DEF Control, Resetting
      <4> QED
        BY <4>1 DEF Control, PeekLocked, Callers
    <3>4. Queued = {} /\ Queued' = {} /\ Distinct'
      BY <2>1, <3>2 DEF Queued, Distinct
    <3>5. ASSUME NEW p \in Pics PROVE refs'[p] = Holders(p)'
      <4>1. Holders(p)' = CodecRefs[codec'[p]]
        <5>1. CodecRefs[codec'[p]] \in Nat /\ todo'[p] = 0
          BY <2>1, CodecRefsValues DEF Types, CodecType, NoneOf
        <5>2. Is(p, current') = 0 /\ Is(p, next') = 0 /\ Is(p, decoded') = 0 /\ Is(p, peeked') = 0
          BY <1>0, <2>1, <3>2, <3>3
        <5>3. Holders(p)' = CodecRefs[codec'[p]] + (IF p \in Queued' THEN 1 ELSE 0) + todo'[p]
                       + Is(p, current') + Is(p, next') + Is(p, decoded') + Is(p, peeked')
          BY DEF Holders, Is
        <5> QED
          BY <3>4, <5>1, <5>2, <5>3
      <4>2. Holders(p) = CodecRefs[codec[p]] /\ refs[p] = Holders(p)
        <5>1. CodecRefs[codec[p]] \in Nat /\ todo[p] = 0
          BY <2>1, HoldersValue DEF NoneOf
        <5> QED
          BY <1>0, <3>2, <3>3, <3>4, <5>1 DEF Holders, Balanced, Matched
      <4>3. CASE InPool(p)
        BY <3>1, <4>1, <4>3, CodecRefsValues DEF FreePool
      <4>4. CASE ~InPool(p)
        BY <3>1, <4>1, <4>2, <4>4 DEF FreePool
      <4> QED
        BY <4>3, <4>4
    <3> QED
      BY <3>4, <3>5 DEF Balanced, Matched, Fresh
  <2>3. CASE task # "reset"
    BY <1>3, <2>1, <2>3, NothingMoves DEF Finish, DeletePool, store
  <2> QED
    BY <2>2, <2>3
<1> QED
  BY <1>1, <1>2, <1>3

\* A picture taken from the FIFO is dropped, or becomes the last one decoded and the
\* current or the next one, which then was free.
LEMMA PopKeepsBalance ==
    ASSUME Types, Types', Control, Balanced, todo = NoneOf, current = None \/ next = None,
           Pop, UNCHANGED <<codec, peeked>>
    PROVE  Balanced'
<1> DEFINE p == Head(fifo)
<1>0. \A q \in Pics : \A x : Is(q, None) = 0 /\ Is(q, x) \in Nat
  BY PicsAreNumbers, IsValues DEF Is
<1>1. fifo # <<>> /\ fifo' = Tail(fifo)
  BY DEF Pop
<1>2. p \in Queued /\ Queued' = Queued \ {p} /\ Distinct'
  BY <1>1, FifoTail DEF Balanced
<1>3. p \in Pics
  BY <1>1 DEF Types, FifoType
<1>4. \A q \in Pics : (IF q \in Queued THEN 1 ELSE 0) = (IF q \in Queued' THEN 1 ELSE 0) + Is(q, p)
  BY <1>2 DEF Is
<1>5. current = None => next = None
  BY DEF Control, Ordered
<1>6. \A q \in Pics : todo[q] = 0 /\ refs[q] \in Nat
  BY HoldersValue DEF NoneOf
<1>7. \A q \in Pics : todo'[q] \in Nat /\ refs'[q] \in Nat
  BY DEF Types, StepType, StoreType, Counts
<1> HIDE DEF p
<1>8. CASE HoldAndDrop(None, [q \in Pics |-> Is(q, p)]) /\ UNCHANGED shown
  <2>1. ASSUME NEW q \in Pics PROVE refs'[q] - Shares(q)' = refs[q] - Shares(q)
    <3>1. refs'[q] - todo'[q] = refs[q] + Is(q, None) - Is(q, p)
      BY <1>8, HoldAndDropBalance, DropsAreCounts
    <3>2. Is(q, current') = Is(q, current) /\ Is(q, next') = Is(q, next)
          /\ Is(q, decoded') = Is(q, decoded)
      BY <1>8 DEF shown
    <3> DEFINE A == Is(q, current) B == Is(q, next) C == Is(q, decoded) D == Is(q, p)
               E == IF q \in Queued' THEN 1 ELSE 0
    <3>3. A \in Nat /\ B \in Nat /\ C \in Nat /\ D \in Nat /\ E \in Nat
      BY <1>0
    <3>4. Shares(q) = (E + D) + 0 + A + B + C /\ Shares(q)' = E + todo'[q] + A + B + C
      BY <1>4, <1>6, <3>2, SharesNext DEF Shares
    <3>5. refs'[q] - todo'[q] = refs[q] - D
      BY <1>0, <1>6, <3>1
    <3> HIDE DEF A, B, C, D, E
    <3> QED
      BY <1>6, <1>7, <3>3, <3>4, <3>5
  <2> QED
    BY <1>2, <2>1, ThreadMoves
<1>9. ASSUME NEW change \in BOOLEAN,
             HoldAndDrop(p, [q \in Pics |-> Is(q, decoded) + IF change THEN Prepared[q] ELSE 0]),
             current' = IF change \/ current = None THEN p ELSE current,
             next' = IF change \/ current = None THEN None ELSE p,
             decoded' = p
      PROVE  Balanced'
  <2>1. ASSUME NEW q \in Pics PROVE refs'[q] - Shares(q)' = refs[q] - Shares(q)
    <3> DEFINE A == Is(q, current) B == Is(q, next) C == Is(q, decoded) D == Is(q, p)
               E == IF q \in Queued' THEN 1 ELSE 0
               K == IF change THEN A + B ELSE 0
    <3>1. refs'[q] - todo'[q] = refs[q] + D - (C + K)
      <4>1. [r \in Pics |-> Is(r, decoded) + IF change THEN Prepared[r] ELSE 0] \in Counts
        BY DropsAreCounts
      <4>2. refs'[q] - todo'[q]
            = refs[q] + Is(q, p) - [r \in Pics |-> Is(r, decoded) + IF change THEN Prepared[r] ELSE 0][q]
        BY <1>9, <4>1, HoldAndDropBalance
      <4>3. Prepared[q] = A + B
        BY DEF Prepared
      <4> QED
        BY <4>2, <4>3
    <3>2. A \in Nat /\ B \in Nat /\ C \in Nat /\ D \in Nat /\ E \in Nat /\ K \in Nat
      BY <1>0
    <3>3. Is(q, current') + Is(q, next') + K = A + B + D /\ Is(q, decoded') = D
      <4>1. Is(q, None) = 0
        BY <1>0
      <4>2. CASE change
        BY <1>9, <3>2, <4>1, <4>2
      <4>3. CASE ~change /\ current = None
        BY <1>5, <1>9, <3>2, <4>1, <4>3
      <4>4. CASE ~change /\ current # None
        BY <1>9, <3>2, <4>1, <4>4
      <4> QED
        BY <4>2, <4>3, <4>4
    <3>4. Is(q, current') \in Nat /\ Is(q, next') \in Nat
      BY <1>0
    <3> DEFINE X == Is(q, current') Y == Is(q, next')
    <3>5. Shares(q) = (E + D) + 0 + A + B + C /\ Shares(q)' = E + todo'[q] + X + Y + D
      BY <1>4, <1>6, <3>3, SharesNext DEF Shares
    <3> HIDE DEF A, B, C, D, E, K, X, Y
    <3> QED
      BY <1>6, <1>7, <3>1, <3>2, <3>3, <3>4, <3>5 DEF X, Y
  <2> QED
    BY <1>2, <2>1, ThreadMoves
<1> QED
  BY <1>8, <1>9 DEF Pop, p

LEMMA DisplayKeepsBalance ==
    ASSUME Types, Types', Control, Balanced
    PROVE  /\ DestroyNext \/ StartDisplay \/ PrepareFirst \/ PrepareMore \/ EndDisplay => Balanced'
           /\ \A p \in Pics : ReleaseNext(p) => Balanced'
           /\ \A due, refresh \in BOOLEAN : Choose(due, refresh) => Balanced'
<1>0. \A q \in Pics : \A x : Is(q, None) = 0 /\ Is(q, x) \in Nat
  BY PicsAreNumbers, IsValues DEF Is
<1>1. DestroyNext \/ StartDisplay \/ EndDisplay => Balanced'
  BY NothingMoves DEF DestroyNext, StartDisplay, EndDisplay, store, shown
<1>2. ASSUME NEW p \in Pics, ReleaseNext(p) PROVE Balanced'
  <2>1. Queued' = Queued /\ Distinct'
    BY <1>2, FifoUnchanged DEF ReleaseNext, Balanced
  <2>2. UNCHANGED <<codec, peeked, current, next, decoded>>
    BY <1>2 DEF ReleaseNext, shown
  <2>3. ASSUME NEW q \in Pics PROVE refs'[q] - Shares(q)' = refs[q] - Shares(q)
    <3>1. refs[q] \in Nat /\ todo[q] \in Nat
      BY HoldersValue
    <3>2. refs'[q] = refs[q] - Is(q, p) /\ todo'[q] = todo[q] - Is(q, p)
      BY <1>2, <3>1 DEF ReleaseNext, Is, Types, StoreType, StepType, Counts
    <3>3. /\ Shares(q) = (IF q \in Queued THEN 1 ELSE 0) + todo[q] + Is(q, current) + Is(q, next)
                         + Is(q, decoded)
          /\ Shares(q)' = (IF q \in Queued THEN 1 ELSE 0) + todo'[q] + Is(q, current) + Is(q, next)
                         + Is(q, decoded)
      BY <2>1, <2>2, SharesNext DEF Shares
    <3> QED
      BY <1>0, <3>1, <3>2, <3>3
  <2> QED
    BY <2>1, <2>2, <2>3, ThreadMoves
<1>3. ASSUME NEW held \in Pics \cup {None}, NEW dropped \in Counts, todo = NoneOf,
             HoldAndDrop(held, dropped), UNCHANGED <<codec, peeked, fifo, decoded>>,
             \A q \in Pics : Is(q, current') + Is(q, next') + dropped[q]
                             = Is(q, current) + Is(q, next) + Is(q, held)
      PROVE  Balanced'
  <2>1. Queued' = Queued /\ Distinct'
    BY <1>3, FifoUnchanged DEF Balanced
  <2>2. ASSUME NEW q \in Pics PROVE refs'[q] - Shares(q)' = refs[q] - Shares(q)
    <3> DEFINE A == Is(q, current) B == Is(q, next) C == Is(q, decoded) D == Is(q, held)
               E == IF q \in Queued THEN 1 ELSE 0
               X == Is(q, current') Y == Is(q, next') K == dropped[q]
    <3>1. refs'[q] - todo'[q] = refs[q] + D - K
      BY <1>3, HoldAndDropBalance
    <3>2. /\ A \in Nat /\ B \in Nat /\ C \in Nat /\ D \in Nat /\ E \in Nat
          /\ X \in Nat /\ Y \in Nat /\ K \in Nat
      BY <1>0 DEF Counts
    <3>3. X + Y + K = A + B + D
      BY <1>3
    <3>4. todo[q] = 0 /\ refs[q] \in Nat
      BY <1>3, HoldersValue DEF NoneOf
    <3>5. todo'[q] \in Nat /\ refs'[q] \in Nat
      BY DEF Types, StepType, StoreType, Counts
    <3>6. Shares(q) = E + 0 + A + B + C /\ Shares(q)' = E + todo'[q] + X + Y + C
      BY <1>3, <2>1, <3>4, SharesNext DEF Shares
    <3> HIDE DEF A, B, C, D, E, K, X, Y
    <3> QED
      BY <3>1, <3>2, <3>3, <3>4, <3>5, <3>6
  <2> QED
    BY <1>3, <2>1, <2>2, ThreadMoves
<1>4. ASSUME PrepareFirst PROVE Balanced'
  <2>1. todo = NoneOf /\ UNCHANGED <<codec, peeked>>
    BY <1>4 DEF PrepareFirst, Quiet
  <2>2. CASE UNCHANGED <<store, fifo, shown, todo>>
    BY <2>1, <2>2, NothingMoves DEF store, shown
  <2>3. CASE /\ current = None /\ HoldAndDrop(decoded, NoneOf) /\ current' = decoded
             /\ UNCHANGED <<fifo, next, decoded>>
    <3>1. decoded \in Pics \cup {None} /\ NoneOf \in Counts
      BY DropsAreCounts DEF Types, ShownType
    <3>2. ASSUME NEW q \in Pics
          PROVE  Is(q, current') + Is(q, next') + NoneOf[q] = Is(q, current) + Is(q, next) + Is(q, decoded)
      <4>1. Is(q, current) = 0 /\ Is(q, current') = Is(q, decoded) /\ Is(q, next') = Is(q, next)
        BY <1>0, <2>3
      <4>2. NoneOf[q] = 0 /\ Is(q, decoded) \in Nat /\ Is(q, next) \in Nat
        BY <1>0 DEF NoneOf
      <4> QED
        BY <4>1, <4>2
    <3> QED
      BY <1>3, <2>1, <2>3, <3>1, <3>2
  <2>4. CASE current = None /\ Pop
    BY <2>1, <2>4, PopKeepsBalance
  <2> QED
    BY <1>4, <2>2, <2>3, <2>4 DEF PrepareFirst
<1>5. ASSUME PrepareMore PROVE Balanced'
  <2>1. todo = NoneOf /\ UNCHANGED <<codec, peeked>>
    BY <1>5 DEF PrepareMore, Quiet
  <2>2. CASE UNCHANGED <<store, fifo, shown, todo>>
    BY <2>1, <2>2, NothingMoves DEF store, shown
  <2>3. CASE next = None /\ Pop
    BY <2>1, <2>3, PopKeepsBalance
  <2> QED
    BY <1>5, <2>2, <2>3 DEF PrepareMore
<1>6. ASSUME NEW due \in BOOLEAN, NEW refresh \in BOOLEAN, Choose(due, refresh) PROVE Balanced'
  <2>1. todo = NoneOf /\ UNCHANGED <<codec, peeked, fifo, decoded>>
    BY <1>6 DEF Choose, Quiet
  <2>2. CASE UNCHANGED <<refs, freed, todo, current, next>>
    BY <2>1, <2>2, NothingMoves
  <2>3. CASE /\ HoldAndDrop(None, [q \in Pics |-> Is(q, current)])
             /\ current' = next /\ next' = None
    <3> DEFINE dropped == [q \in Pics |-> Is(q, current)]
    <3>1. dropped \in Counts
      BY DropsAreCounts
    <3>2. ASSUME NEW q \in Pics
          PROVE  Is(q, current') + Is(q, next') + dropped[q] = Is(q, current) + Is(q, next) + Is(q, None)
      <4>1. Is(q, current') = Is(q, next) /\ Is(q, next') = 0 /\ Is(q, None) = 0
            /\ dropped[q] = Is(q, current)
        BY <1>0, <2>3
      <4>2. Is(q, current) \in Nat /\ Is(q, next) \in Nat
        BY <1>0
      <4> HIDE DEF dropped
      <4> QED
        BY <4>1, <4>2
    <3>3. HoldAndDrop(None, dropped)
      BY <2>3
    <3> HIDE DEF dropped
    <3> QED
      BY <1>3, <2>1, <3>1, <3>2, <3>3
  <2> QED
    BY <1>6, <2>2, <2>3 DEF Choose
<1> QED
  BY <1>1, <1>2, <1>4, <1>5, <1>6

-----------------------------------------------------------------------------
(* The pictures of deleted pools                                             *)

Old(p) == p <= (pool - 1) * PoolSize

Drained ==
    /\ \A p \in Pics : p \in zombie \cup freed <=> Old(p)
    /\ \A p \in Pics : p \in freed <=> Old(p) /\ refs[p] = 0 /\ p # dying
    /\ dying # None /\ Old(dying) => refs[dying] = 0

LEMMA OldIsOut ==
    ASSUME Types, NEW p \in PoolPics(pool)
    PROVE  p \in Pics /\ ~Old(p)
<1>1. p \in Pics
  BY PoolsBelowMax DEF Types, StoreType
<1>2. (pool - 1) * PoolSize \in Int
  BY PicsAreNumbers, PictureBounds DEF Types, StoreType
<1>3. p >= (pool - 1) * PoolSize + 1 /\ p \in Int
  BY <1>2 DEF PoolPics
<1> QED
  BY <1>1, <1>2, <1>3 DEF Old

\* A step that gives nothing back, and neither frees nor takes a picture of a deleted
\* pool.
LEMMA OldUntouched ==
    ASSUME Drained, UNCHANGED <<pool, zombie, freed, dying>>,
           \A p \in Pics : Old(p) => (refs'[p] = 0 <=> refs[p] = 0),
           Types
    PROVE  Drained'
<1>1. \A p : Old(p)' <=> Old(p)
  BY DEF Old
<1>2. dying \in Pics \cup {None}
  BY DEF Types, StepType
<1> QED
  BY <1>1, <1>2 DEF Drained

LEMMA ReleaseDrains ==
    ASSUME Types, Drained, NEW p \in Pics, Release(p), UNCHANGED dying
    PROVE  Drained'
<1>1. \A q : Old(q)' <=> Old(q)
  BY DEF Release, Old
<1>2. /\ refs[p] \in Nat /\ refs[p] > 0 /\ refs'[p] = refs[p] - 1 /\ UNCHANGED zombie
      /\ \A q \in Pics \ {p} : refs'[q] = refs[q]
  BY DEF Release, Types, StoreType, Counts
<1>3. freed' = IF refs[p] = 1 THEN freed \cup ({p} \cap zombie) ELSE freed
  BY DEF Release, Destroy
<1>4. p \notin freed /\ (Old(p) => p # dying)
  BY <1>2, PicsAreNumbers DEF Drained
<1>5. \A q \in Pics : q \in freed' <=> Old(q)' /\ refs'[q] = 0 /\ q # dying'
  <2> TAKE q \in Pics
  <2>1. CASE q = p
    <3>1. refs'[p] = 0 <=> refs[p] = 1
      BY <1>2
    <3> QED
      BY <1>1, <1>3, <1>4, <2>1, <3>1 DEF Drained
  <2>2. CASE q # p
    BY <1>1, <1>2, <1>3, <2>2 DEF Drained
  <2> QED
    BY <2>1, <2>2
<1>6. \A q \in Pics : q \in zombie' \cup freed' <=> Old(q)'
  BY <1>1, <1>2, <1>3 DEF Drained
<1>7. dying' # None /\ Old(dying)' => refs'[dying'] = 0
  BY <1>1, <1>2, <1>4 DEF Drained, Types, StepType
<1> QED
  BY <1>5, <1>6, <1>7 DEF Drained

\* What somebody has is not free, so that a further reference revives no picture.
LEMMA HeldIsCounted ==
    ASSUME Types, Balanced, NEW p \in Pics
    PROVE  p \in Queued \/ p = decoded \/ codec[p] = "new" => refs[p] > 0
<1>1. CodecRefs[codec[p]] \in Nat /\ todo[p] \in Nat /\ \A x : Is(p, x) \in Nat
  BY HoldersValue, IsValues
<1>2. refs[p] = CodecRefs[codec[p]] + (IF p \in Queued THEN 1 ELSE 0) + todo[p]
                + Is(p, current) + Is(p, next) + Is(p, decoded) + Is(p, peeked)
  BY DEF Balanced, Matched, Holders
<1>3. p = decoded => Is(p, decoded) = 1
  BY DEF Is
<1> QED
  BY <1>1, <1>2, <1>3, CodecRefsValues

LEMMA HeldAgain ==
    ASSUME Types, Drained, NEW p \in Pics, refs[p] > 0, Hold(p),
           UNCHANGED <<pool, zombie, freed, dying>>
    PROVE  Drained'
<1>1. \A q \in Pics : refs'[q] = 0 <=> refs[q] = 0
  BY DEF Hold, Types, StoreType, Counts
<1> QED
  BY <1>1, OldUntouched

LEMMA PeekKeepsDrained ==
    ASSUME Types, Balanced, Drained, NEW who, Peek(who)
    PROVE  Drained'
<1>1. CASE fifo = <<>>
  BY <1>1, OldUntouched DEF Peek, steps
<1>2. CASE fifo # <<>>
  <2>1. Head(fifo) \in Pics /\ Head(fifo) \in Queued
    BY <1>2 DEF Types, FifoType, Queued
  <2>2. refs[Head(fifo)] > 0
    BY <2>1, HeldIsCounted
  <2> QED
    BY <1>2, <2>1, <2>2, HeldAgain DEF Peek, steps
<1> QED
  BY <1>1, <1>2

LEMMA DecoderKeepsDrained ==
    ASSUME Types, Control, Balanced, Drained
    PROVE  /\ NewBuffer \/ GetPicture \/ GiveUp \/ FixLeaks \/ FixLeaksEnd \/ AskFlush => Drained'
           /\ \A p \in Pics : LinkPicture(p) \/ PutPicture(p) \/ ReleasePicture(p) => Drained'
           /\ \A p \in Pics : LosePicture(p) \/ Seize(p) => Drained'
<1>1. NewBuffer \/ GiveUp \/ AskFlush => Drained'
  BY OldUntouched DEF NewBuffer, GiveUp, AskFlush, store, steps
<1>2. ASSUME GetPicture PROVE Drained'
  <2>1. CASE Free = {}
    BY <1>2, <2>1, OldUntouched DEF GetPicture, steps
  <2>2. CASE Free # {}
    <3>1. PICK q \in Free : Hold(q)
      BY <1>2, <2>2 DEF GetPicture
    <3>2. \A p \in Pics : Old(p) => refs'[p] = refs[p]
      BY <3>1, OldIsOut DEF Free, Hold, Types, StoreType, Counts
    <3> QED
      BY <1>2, <3>2, OldUntouched DEF GetPicture, steps
  <2> QED
    BY <2>1, <2>2
<1>3. FixLeaks => Drained'
  BY PeekKeepsDrained DEF FixLeaks
<1>4. ASSUME FixLeaksEnd PROVE Drained'
  <2>1. CASE peeked # None /\ Release(peeked)
    BY <1>4, <2>1, ReleaseDrains DEF FixLeaksEnd, steps, Types, LockType
  <2>2. CASE UNCHANGED store
    BY <1>4, <2>2, OldUntouched DEF FixLeaksEnd, store, steps
  <2> QED
    BY <1>4, <2>1, <2>2 DEF FixLeaksEnd
<1>5. ASSUME NEW q \in Pics, LinkPicture(q) PROVE Drained'
  BY <1>5, HeldIsCounted, HeldAgain DEF LinkPicture, steps
<1>6. ASSUME NEW q \in Pics, ReleasePicture(q) PROVE Drained'
  BY <1>6, ReleaseDrains DEF ReleasePicture, steps
<1>7. ASSUME NEW q \in Pics, PutPicture(q) \/ LosePicture(q) PROVE Drained'
  BY <1>7, OldUntouched DEF PutPicture, LosePicture, store, steps
<1>8. ASSUME NEW q \in Pics, Seize(q) PROVE Drained'
  <2>1. \A p \in Pics : Old(p) => refs'[p] = refs[p]
    BY <1>8, OldIsOut DEF Seize, Types, StoreType, Counts
  <2> QED
    BY <1>8, <2>1, OldUntouched DEF Seize, steps
<1> QED
  BY <1>1, <1>2, <1>3, <1>4, <1>5, <1>6, <1>7, <1>8

LEMMA InputKeepsDrained ==
    ASSUME Types, Control, Balanced, Drained
    PROVE  /\ IsEmpty \/ IsEmptyEnd \/ DeleteDecoder \/ NewDecoder => Drained'
           /\ \A command \in {"pause", "resume", "step"} : AskInput(command) => Drained'
<1>1. IsEmpty => Drained'
  BY PeekKeepsDrained DEF IsEmpty
<1>2. ASSUME IsEmptyEnd PROVE Drained'
  <2>1. CASE peeked # None /\ Release(peeked)
    BY <1>2, <2>1, ReleaseDrains DEF IsEmptyEnd, steps, Types, LockType
  <2>2. CASE UNCHANGED store
    BY <1>2, <2>2, OldUntouched DEF IsEmptyEnd, store, steps
  <2> QED
    BY <1>2, <2>1, <2>2 DEF IsEmptyEnd
<1>3. DeleteDecoder \/ NewDecoder => Drained'
  BY OldUntouched DEF DeleteDecoder, NewDecoder, store, steps
<1>4. ASSUME NEW command \in {"pause", "resume", "step"}, AskInput(command) PROVE Drained'
  BY <1>4, OldUntouched DEF AskInput, store, steps
<1> QED
  BY <1>1, <1>2, <1>3, <1>4

\* When a pool is deleted, its free pictures go at once and the others are zombies.
LEMMA DeletePoolDrains ==
    ASSUME Types, Types', Drained, dying = None, dying' = None, DeletePool
    PROVE  Drained'
<1>1. \A p \in Pics : Old(p)' <=> Old(p) \/ p \in PoolPics(pool)
  <2> DEFINE S == PoolSize
  <2>1. S \in Nat /\ pool \in Nat \ {0} /\ Pics \subseteq Nat
    BY PicsAreNumbers, PictureBounds DEF Types, StoreType
  <2> HIDE DEF S
  <2>2. (pool - 1) * S \in Nat /\ pool * S \in Nat /\ (pool - 1) * S <= pool * S
    BY <2>1
  <2>3. (pool' - 1) * S = pool * S
    BY <2>1 DEF DeletePool
  <2> DEFINE a == (pool - 1) * S b == pool * S
  <2>4. \A p \in Pics : (Old(p)' <=> p <= b) /\ (Old(p) <=> p <= a) /\ (p \in PoolPics(pool) <=> p \in (a + 1)..b)
    BY <2>3 DEF Old, PoolPics, S
  <2>5. a \in Nat /\ b \in Nat /\ a <= b
    BY <2>2
  <2> HIDE DEF a, b
  <2> QED
    BY <2>1, <2>4, <2>5
<1>2. \A p \in PoolPics(pool) : ~Old(p)
  BY OldIsOut
<1>3. \A p \in Pics : (p \in freed' <=> p \in freed \/ (p \in PoolPics(pool) /\ refs[p] = 0))
                      /\ refs'[p] = refs[p] /\ p # None
                      /\ (p \in zombie' \cup freed' <=> p \in zombie \cup freed \/ p \in PoolPics(pool))
  BY PicsAreNumbers DEF DeletePool, Free
<1>4. \A p \in Pics : p \in zombie' \cup freed' <=> Old(p)'
  BY <1>1, <1>3 DEF Drained
<1>5. \A p \in Pics : p \in freed' <=> Old(p)' /\ refs'[p] = 0 /\ p # dying'
  BY <1>1, <1>2, <1>3 DEF Drained
<1> QED
  BY <1>4, <1>5 DEF Drained

LEMMA CommandsKeepDrained ==
    ASSUME Types, Types', Control, Drained
    PROVE  /\ Flush => Drained'
           /\ \A c \in Callers : StartCommand(c) \/ Finish(c) => Drained'
<1>1. Flush => Drained'
  BY OldUntouched DEF Flush, store
<1>2. ASSUME NEW c \in Callers, StartCommand(c) PROVE Drained'
  BY <1>2, OldUntouched DEF StartCommand, store
<1>3. ASSUME NEW c \in Callers, Finish(c) PROVE Drained'
  <2>1. dying = None /\ UNCHANGED dying
    BY <1>3 DEF Finish, Quiet
  <2>2. CASE FreePool
    <3>1. \A p \in Pics : Old(p) => refs'[p] = refs[p]
      BY <2>2, OldIsOut DEF FreePool, InPool
    <3> QED
      BY <2>1, <2>2, <3>1, OldUntouched DEF FreePool
  <2>3. CASE DeletePool
    BY <2>1, <2>3, DeletePoolDrains
  <2>4. CASE UNCHANGED store
    BY <2>1, <2>4, OldUntouched DEF store
  <2> QED
    BY <1>3, <2>2, <2>3, <2>4 DEF Finish
<1> QED
  BY <1>1, <1>2, <1>3

\* Under picture_lock a picture whose last reference is dropped goes at once.
LEMMA HoldAndDropDrains ==
    ASSUME Types, Types', Drained, dying = None, UNCHANGED <<pool, zombie, dying>>,
           NEW held \in Pics \cup {None}, held # None => refs[held] > 0,
           NEW dropped \in Counts, HoldAndDrop(held, dropped)
    PROVE  Drained'
<1>0. \A p \in Pics : /\ refs[p] \in Nat /\ Is(p, held) \in Nat /\ dropped[p] \in Nat /\ refs'[p] \in Nat
                      /\ (Is(p, held) = 0 \/ refs[p] > 0)
  <2>1. \A p \in Pics : refs[p] \in Nat /\ Is(p, held) \in Nat /\ dropped[p] \in Nat /\ refs'[p] \in Nat
    BY IsValues DEF Types, StoreType, Counts
  <2>2. \A p \in Pics : p # None /\ (Is(p, held) = 0 \/ p = held)
    BY PicsAreNumbers DEF Is
  <2> QED
    BY <2>1, <2>2
<1>1. CASE lock = "vout"
  <2>1. \A p \in Pics : refs'[p] = refs[p] + Is(p, held) - dropped[p]
    BY <1>1 DEF HoldAndDrop
  <2>2. \A p \in Pics : refs[p] = 0 => refs'[p] = 0
    BY <1>0, <2>1
  <2>3. freed' = freed \cup {p \in zombie : refs'[p] = 0} /\ zombie \subseteq Pics
    BY <1>1 DEF HoldAndDrop, Types, StoreType
  <2>4. \A p \in Pics : Old(p)' <=> Old(p)
    BY DEF Old
  <2> QED
    BY <2>2, <2>3, <2>4, PicsAreNumbers DEF Drained
<1>2. CASE lock # "vout"
  <2>1. \A p \in Pics : refs'[p] = refs[p] + Is(p, held)
    BY <1>2 DEF HoldAndDrop
  <2>2. \A p \in Pics : refs'[p] = 0 <=> refs[p] = 0
    BY <1>0, <2>1
  <2> QED
    BY <1>2, <2>2, OldUntouched DEF HoldAndDrop
<1> QED
  BY <1>1, <1>2

LEMMA DisplayKeepsDrained ==
    ASSUME Types, Types', Control, Balanced, Drained
    PROVE  /\ DestroyNext \/ StartDisplay \/ PrepareFirst \/ PrepareMore \/ EndDisplay => Drained'
           /\ \A p \in Pics : ReleaseNext(p) => Drained'
           /\ \A due, refresh \in BOOLEAN : Choose(due, refresh) => Drained'
<1>1. ASSUME DestroyNext PROVE Drained'
  <2>1. \A p : Old(p)' <=> Old(p)
    BY <1>1 DEF DestroyNext, Old
  <2>2. freed' = freed \cup ({dying} \cap zombie) /\ dying' = None /\ UNCHANGED <<refs, zombie>>
    BY <1>1 DEF DestroyNext, Destroy
  <2>3. dying \in Pics
    BY <1>1 DEF DestroyNext, Types, StepType
  <2> QED
    BY <2>1, <2>2, <2>3, PicsAreNumbers DEF Drained
<1>2. StartDisplay \/ EndDisplay => Drained'
  BY OldUntouched DEF StartDisplay, EndDisplay, store
<1>3. ASSUME NEW p \in Pics, ReleaseNext(p) PROVE Drained'
  <2>1. \A q : Old(q)' <=> Old(q)
    BY <1>3 DEF ReleaseNext, Old
  <2>2. /\ refs[p] \in Nat /\ refs[p] > 0 /\ refs'[p] = refs[p] - 1
        /\ \A q \in Pics \ {p} : refs'[q] = refs[q]
    BY <1>3 DEF ReleaseNext, Types, StoreType, Counts
  <2>3. dying = None /\ dying' = (IF refs[p] = 1 THEN p ELSE None) /\ UNCHANGED <<zombie, freed>>
    BY <1>3 DEF ReleaseNext
  <2>4. p \notin freed /\ (refs'[p] = 0 <=> refs[p] = 1)
    BY <2>2 DEF Drained
  <2>5. \A q \in Pics : q # None
    BY PicsAreNumbers
  <2> QED
    BY <2>1, <2>2, <2>3, <2>4, <2>5 DEF Drained
<1>4. ASSUME Pop, Quiet, UNCHANGED dying PROVE Drained'
  <2>1. Head(fifo) \in Pics /\ Head(fifo) \in Queued
    BY <1>4 DEF Pop, Types, FifoType, Queued
  <2>2. refs[Head(fifo)] > 0
    BY <2>1, HeldIsCounted
  <2>3. UNCHANGED <<pool, zombie>> /\ dying = None
    BY <1>4 DEF Pop, Quiet
  <2>4. PICK held \in {Head(fifo), None}, dropped \in Counts : HoldAndDrop(held, dropped)
    BY <1>4, DropsAreCounts DEF Pop
  <2> QED
    BY <1>4, <2>1, <2>2, <2>3, <2>4, HoldAndDropDrains
<1>5. ASSUME PrepareFirst PROVE Drained'
  <2>1. CASE Pop
    BY <1>4, <1>5, <2>1 DEF PrepareFirst
  <2>2. CASE UNCHANGED store
    BY <1>5, <2>2, OldUntouched DEF PrepareFirst, store
  <2>3. CASE decoded # None /\ HoldAndDrop(decoded, NoneOf) /\ UNCHANGED <<pool, zombie>>
    <3>1. decoded \in Pics
      BY <2>3 DEF Types, ShownType
    <3>2. refs[decoded] > 0
      BY <3>1, HeldIsCounted
    <3> QED
      BY <1>5, <2>3, <3>1, <3>2, HoldAndDropDrains, DropsAreCounts DEF PrepareFirst, Quiet
  <2> QED
    BY <1>5, <2>1, <2>2, <2>3 DEF PrepareFirst
<1>6. ASSUME PrepareMore PROVE Drained'
  <2>1. CASE Pop
    BY <1>4, <1>6, <2>1 DEF PrepareMore
  <2>2. CASE UNCHANGED store
    BY <1>6, <2>2, OldUntouched DEF PrepareMore, store
  <2> QED
    BY <1>6, <2>1, <2>2 DEF PrepareMore
<1>7. ASSUME NEW due \in BOOLEAN, NEW refresh \in BOOLEAN, Choose(due, refresh) PROVE Drained'
  <2>1. UNCHANGED <<pool, zombie, dying>> /\ dying = None
    BY <1>7 DEF Choose, Quiet
  <2>2. CASE UNCHANGED <<refs, freed>>
    BY <2>1, <2>2, OldUntouched
  <2>3. CASE HoldAndDrop(None, [q \in Pics |-> Is(q, current)])
    BY <2>1, <2>3, HoldAndDropDrains, DropsAreCounts
  <2> QED
    BY <1>7, <2>2, <2>3 DEF Choose
<1> QED
  BY <1>1, <1>2, <1>3, <1>5, <1>6, <1>7

-----------------------------------------------------------------------------
(* The theorem                                                               *)

IInv == Types /\ Control /\ (decoder # "robbed" => Balanced /\ Drained)

LEMMA BalancedInit == Init => Balanced /\ Drained
<1> SUFFICES ASSUME Init PROVE Balanced /\ Drained
  OBVIOUS
<1>1. Queued = {} /\ Distinct /\ Fresh
  BY DEF Init, Queued, Distinct, Fresh
<1>2. Matched
  BY <1>1, PicsAreNumbers, CodecRefsValues DEF Init, Matched, Holders, Is, NoneOf
<1>3. Drained
  <2>1. (pool - 1) * PoolSize = 0
    BY PicsAreNumbers DEF Init
  <2>2. \A p \in Pics : ~Old(p)
    BY <2>1, PicsAreNumbers DEF Old
  <2> QED
    BY <2>2 DEF Init, Drained
<1> QED
  BY <1>1, <1>2, <1>3 DEF Balanced

\* Once the decoder was robbed it stays so: nothing is claimed from there on.
LEMMA RobbedForGood == Types /\ decoder = "robbed" /\ [Next]_vars => decoder' = "robbed"
<1> SUFFICES ASSUME Types, decoder = "robbed", [Next]_vars PROVE decoder' = "robbed"
  OBVIOUS
<1>1. CASE UNCHANGED vars
  BY <1>1 DEF vars
<1>2. CASE ThreadStep
  BY <1>2 DEF ThreadStep, DestroyNext, StartDisplay, Flush, PrepareFirst, PrepareMore, EndDisplay,
     ReleaseNext, StartCommand, Finish, Choose
<1>3. CASE Next /\ ~ThreadStep
  BY <1>3 DEF Next, NewBuffer, GetPicture, GiveUp, FixLeaks, FixLeaksEnd, AskFlush, LinkPicture,
     PutPicture, ReleasePicture, LosePicture, Seize, AskInput, InputRuns, IsEmpty, IsEmptyEnd,
     DeleteDecoder, NewDecoder
<1> QED
  BY <1>1, <1>2, <1>3

LEMMA InvStep == IInv /\ [Next]_vars => IInv'
<1> SUFFICES ASSUME IInv, [Next]_vars PROVE IInv'
  OBVIOUS
<1>1. Types' /\ Control'
  BY TypesStep, ControlStep DEF IInv
<1>2. ASSUME decoder' # "robbed" PROVE Balanced' /\ Drained'
  <2>1. Types /\ Control /\ Balanced /\ Drained
    BY <1>2, RobbedForGood DEF IInv
  <2>2. CASE UNCHANGED vars
    BY <2>1, <2>2, NothingMoves, OldUntouched DEF vars, store, shown, steps
  <2>3. ASSUME Next PROVE Drained'
    BY <1>1, <2>1, <2>3, DecoderKeepsDrained, InputKeepsDrained, CommandsKeepDrained,
       DisplayKeepsDrained DEF Next, ThreadStep
  <2>4. ASSUME Next PROVE Balanced'
    BY <1>1, <1>2, <2>1, <2>4, DecoderKeepsBalance, InputKeepsBalance, CommandsKeepBalance,
       DisplayKeepsBalance DEF Next, ThreadStep
  <2> QED
    BY <2>2, <2>3, <2>4
<1> QED
  BY <1>1, <1>2 DEF IInv

LEMMA InvHolds == Spec => []IInv
<1>1. Init => IInv
  BY TypesInit, ControlInit, BalancedInit DEF IInv
<1> QED
  BY <1>1, InvStep, PTL DEF Spec

\* The count of every picture is the number of references the decoder, the FIFO, the
\* thread of the output and who peeks have on it: none is leaked or released twice.
THEOREM CountsMatch == Spec => []RefsMatch
<1>1. IInv => RefsMatch
  BY DEF IInv, Balanced, Matched, RefsMatch
<1> QED
  BY <1>1, InvHolds, PTL

\* A picture of a deleted pool goes back to its creator with its last reference, not
\* before, and a picture of a living pool never does.
THEOREM DeadPoolsDrain == Spec => []DeadPoolsDrained
<1>1. IInv => DeadPoolsDrained
  BY DEF IInv, Drained, DeadPoolsDrained, Old
<1> QED
  BY <1>1, InvHolds, PTL

-----------------------------------------------------------------------------
(* The pictures come out in the order they were put in                       *)

\* What is left of a sequence stands in order, at the end of a longer one too.
LEMMA WithinSame ==
    ASSUME NEW S, NEW s \in Seq(S)
    PROVE  Shown!Within(s, s)
BY DEF Shown!Within

LEMMA WithinLonger ==
    ASSUME NEW S, NEW s \in Seq(S), NEW v \in Seq(S)
    PROVE  Shown!Within(s, v \o s)
<1> DEFINE w == v \o s
<1>1. /\ w \in Seq(S) /\ Len(w) = Len(v) + Len(s)
      /\ \A i \in 1..(Len(v) + Len(s)) : w[i] = IF i <= Len(v) THEN v[i] ELSE s[i - Len(v)]
  BY ConcatProperties
<1>2. Len(v) \in Nat /\ Len(s) \in Nat /\ DOMAIN w = 1..Len(w) /\ DOMAIN s = 1..Len(s)
  BY <1>1
<1> HIDE DEF w
<1>3. \A i \in DOMAIN s : i + Len(v) \in DOMAIN w /\ w[i + Len(v)] = s[i]
  <2> TAKE i \in DOMAIN s
  <2>1. i + Len(v) \in 1..(Len(v) + Len(s)) /\ ~(i + Len(v) <= Len(v)) /\ (i + Len(v)) - Len(v) = i
    BY <1>2
  <2> QED
    BY <1>1, <1>2, <2>1
<1>4. \A i, j \in DOMAIN s : i < j => i + Len(v) < j + Len(v)
  BY <1>2
<1>5. Shown!Within(s, w)
  BY <1>3, <1>4 DEF Shown!Within
<1> QED
  BY <1>5 DEF w

LEMMA WithinBehind ==
    ASSUME NEW S, NEW s \in Seq(S), NEW t \in Seq(S), NEW x \in S, Shown!Within(t, s)
    PROVE  Shown!Within(<<x>> \o t, <<x>> \o s)
<1> DEFINE v == <<x>> \o s
           w == <<x>> \o t
<1>0. <<x>> \in Seq(S) /\ Len(<<x>>) = 1 /\ <<x>>[1] = x
  OBVIOUS
<1>1. /\ v \in Seq(S) /\ Len(v) = 1 + Len(s)
      /\ \A i \in 1..(1 + Len(s)) : v[i] = IF i <= 1 THEN <<x>>[i] ELSE s[i - 1]
  BY <1>0, ConcatProperties
<1>2. /\ w \in Seq(S) /\ Len(w) = 1 + Len(t)
      /\ \A i \in 1..(1 + Len(t)) : w[i] = IF i <= 1 THEN <<x>>[i] ELSE t[i - 1]
  BY <1>0, ConcatProperties
<1>3. /\ Len(t) \in Nat /\ Len(s) \in Nat /\ DOMAIN w = 1..(1 + Len(t)) /\ DOMAIN v = 1..(1 + Len(s))
      /\ DOMAIN s = 1..Len(s) /\ DOMAIN t = 1..Len(t)
  BY <1>1, <1>2
<1> HIDE DEF v, w
<1>4. 1 \in DOMAIN v /\ v[1] = x /\ w[1] = x
  BY <1>0, <1>1, <1>2, <1>3
<1>5. \A a \in DOMAIN s : a + 1 \in DOMAIN v /\ v[a + 1] = s[a] /\ 1 < a + 1
  <2> TAKE a \in DOMAIN s
  <2>1. a + 1 \in 1..(1 + Len(s)) /\ ~(a + 1 <= 1) /\ (a + 1) - 1 = a /\ 1 < a + 1
    BY <1>3
  <2> QED
    BY <1>1, <1>3, <2>1
<1>6. \A i \in DOMAIN w : i = 1 \/ (i - 1 \in DOMAIN t /\ w[i] = t[i - 1] /\ i > 1)
  <2> TAKE i \in DOMAIN w
  <2>1. i = 1 \/ (i \in 1..(1 + Len(t)) /\ ~(i <= 1) /\ i - 1 \in 1..Len(t) /\ i > 1)
    BY <1>3
  <2> QED
    BY <1>2, <1>3, <2>1
<1>7. ASSUME NEW i \in DOMAIN w
      PROVE  \E a \in DOMAIN v : v[a] = w[i]
  <2>1. CASE i = 1
    BY <1>4, <2>1
  <2>2. CASE i # 1
    <3>1. PICK a \in DOMAIN s : s[a] = t[i - 1]
      BY <1>6, <2>2 DEF Shown!Within
    <3> QED
      BY <1>5, <1>6, <2>2, <3>1
  <2> QED
    BY <2>1, <2>2
<1>8. ASSUME NEW i \in DOMAIN w, NEW j \in DOMAIN w, i < j
      PROVE  \E a, b \in DOMAIN v : a < b /\ v[a] = w[i] /\ v[b] = w[j]
  <2>0. i \in Int /\ j \in Int /\ i >= 1 /\ j > 1 /\ j - 1 \in DOMAIN t /\ w[j] = t[j - 1]
    BY <1>3, <1>6, <1>8
  <2>1. CASE i = 1
    <3>1. PICK b \in DOMAIN s : s[b] = t[j - 1]
      BY <2>0 DEF Shown!Within
    <3>2. b + 1 \in DOMAIN v /\ v[b + 1] = w[j] /\ 1 < b + 1
      BY <1>5, <2>0, <3>1
    <3> QED
      BY <1>4, <2>1, <3>2
  <2>2. CASE i # 1
    <3>1. i - 1 \in DOMAIN t /\ w[i] = t[i - 1] /\ i - 1 < j - 1
      BY <1>6, <1>8, <2>0, <2>2
    <3>2. PICK a, b \in DOMAIN s : a < b /\ s[a] = t[i - 1] /\ s[b] = t[j - 1]
      BY <2>0, <3>1 DEF Shown!Within
    <3>3. a + 1 < b + 1
      BY <1>3, <3>2
    <3>4. a + 1 \in DOMAIN v /\ v[a + 1] = w[i] /\ b + 1 \in DOMAIN v /\ v[b + 1] = w[j]
      BY <1>5, <2>0, <3>1, <3>2
    <3> QED
      BY <3>3, <3>4
  <2> QED
    BY <2>1, <2>2
<1>9. Shown!Within(w, v)
  BY <1>7, <1>8 DEF Shown!Within
<1> QED
  BY <1>9 DEF v, w

LEMMA HeadAndTail ==
    ASSUME NEW S, NEW s \in Seq(S), s # <<>>
    PROVE  Head(s) \in S /\ Tail(s) \in Seq(S) /\ s = <<Head(s)>> \o Tail(s)
<1>1. Head(s) \in S /\ Tail(s) \in Seq(S) /\ Len(Tail(s)) = Len(s) - 1
      /\ \A i \in 1..Len(Tail(s)) : Tail(s)[i] = s[i + 1]
  BY HeadTailProperties
<1> DEFINE t == Tail(s)
           h == Head(s)
           w == <<h>> \o t
<1>2. Len(s) \in Nat /\ Len(s) > 0 /\ h = s[1]
  OBVIOUS
<1>3. <<h>> \in Seq(S) /\ Len(<<h>>) = 1 /\ <<h>>[1] = h
  BY <1>1
<1>4. w \in Seq(S) /\ Len(w) = 1 + Len(t)
      /\ \A i \in 1..(1 + Len(t)) : w[i] = IF i <= 1 THEN <<h>>[i] ELSE t[i - 1]
  BY <1>1, <1>3, ConcatProperties
<1> HIDE DEF w
<1>5. Len(t) = Len(s) - 1 /\ \A i \in 1..Len(t) : t[i] = s[i + 1]
  BY <1>1
<1> HIDE DEF t, h
<1>6. ASSUME NEW i \in 1..Len(s) PROVE s[i] = w[i]
  <2>1. CASE i = 1
    BY <1>2, <1>3, <1>4, <1>5, <2>1
  <2>2. CASE i # 1
    <3>1. i - 1 \in 1..Len(t) /\ (i - 1) + 1 = i /\ ~(i <= 1) /\ i \in 1..(1 + Len(t))
      BY <1>2, <1>5, <2>2
    <3>2. t[i - 1] = s[i]
      BY <1>5, <3>1
    <3> QED
      BY <1>4, <3>1, <3>2
  <2> QED
    BY <2>1, <2>2
<1>7. Len(w) = Len(s)
  BY <1>2, <1>4, <1>5
<1>8. s = w
  BY <1>4, <1>6, <1>7, SeqEqual, Zenon
<1> QED
  BY <1>1, <1>8 DEF w, t, h

\* No picture of the FIFO was taken from it before, and nobody but the decoder has a
\* picture that the decoder has not put there.  Unlike the counts, this outlives a
\* picture taken from somebody.
Unseen ==
    /\ Distinct
    /\ decoded \notin Queued
    /\ \A p \in Pics : codec[p] \in {"new", "linked"} => p \notin Queued \cup {current, next, decoded}

LEMMA FreeIsNotShown ==
    ASSUME Types, Balanced, NEW p \in Pics, refs[p] = 0
    PROVE  p \notin {current, next, decoded}
<1>1. CodecRefs[codec[p]] \in Nat /\ todo[p] \in Nat /\ \A x : Is(p, x) \in Nat
  BY HoldersValue, IsValues
<1>2. Holders(p) = 0
  BY DEF Balanced, Matched
<1>3. Is(p, current) = 0 /\ Is(p, next) = 0 /\ Is(p, decoded) = 0
  BY <1>1, <1>2 DEF Holders
<1> QED
  BY <1>3 DEF Is

LEMMA UnseenUnchanged ==
    ASSUME Unseen, UNCHANGED <<fifo, shown>>,
           \A p \in Pics : codec'[p] \in {"new", "linked"} => codec[p] \in {"new", "linked"}
    PROVE  Unseen'
BY FifoUnchanged DEF Unseen, shown

LEMMA DecoderKeepsUnseen ==
    ASSUME IInv, Unseen
    PROVE  /\ NewBuffer \/ GetPicture \/ GiveUp \/ FixLeaks \/ FixLeaksEnd \/ AskFlush => Unseen'
           /\ \A p \in Pics : LinkPicture(p) \/ PutPicture(p) \/ ReleasePicture(p) => Unseen'
           /\ \A p \in Pics : LosePicture(p) \/ Seize(p) => Unseen'
<1>0. Types /\ codec \in [Pics -> DOMAIN CodecRefs]
  BY DEF IInv, Types, CodecType
<1>1. CASE NewBuffer \/ GiveUp \/ FixLeaks \/ FixLeaksEnd \/ AskFlush
  <2>1. UNCHANGED <<fifo, shown>> /\ codec' = codec
    BY <1>1 DEF NewBuffer, GiveUp, FixLeaks, FixLeaksEnd, AskFlush, Peek, shown
  <2> QED
    BY <2>1, UnseenUnchanged
<1>2. CASE GetPicture
  <2>1. CASE Free = {}
    BY <1>2, <2>1, UnseenUnchanged DEF GetPicture
  <2>2. CASE Free # {}
    <3>1. PICK q \in Free : codec' = [codec EXCEPT ![q] = "new"]
      BY <1>2, <2>2 DEF GetPicture
    <3>2. q \in Pics /\ refs[q] = 0
      BY <1>0, PoolsBelowMax DEF Free, Types, StoreType
    <3>3. Balanced
      BY <1>2 DEF IInv, GetPicture
    <3>4. q \notin Queued \cup {current, next, decoded}
      BY <1>0, <3>2, <3>3, FreeIsNowhere, FreeIsNotShown
    <3>5. UNCHANGED <<fifo, current, next, decoded>>
      BY <1>2 DEF GetPicture, shown
    <3>6. \A p \in Pics : codec'[p] \in {"new", "linked"} => p = q \/ codec[p] \in {"new", "linked"}
      BY <1>0, <3>1
    <3> QED
      BY <3>4, <3>5, <3>6, FifoUnchanged DEF Unseen
  <2> QED
    BY <2>1, <2>2
<1>3. ASSUME NEW p \in Pics, LinkPicture(p) \/ ReleasePicture(p) \/ LosePicture(p) \/ Seize(p)
      PROVE  Unseen'
  <2>1. UNCHANGED <<fifo, shown>>
    BY <1>3 DEF LinkPicture, ReleasePicture, LosePicture, Seize
  <2>2. \A q \in Pics : codec'[q] \in {"new", "linked"} => codec[q] \in {"new", "linked"}
    BY <1>0, <1>3 DEF LinkPicture, ReleasePicture, LosePicture, Seize
  <2> QED
    BY <2>1, <2>2, UnseenUnchanged
<1>4. ASSUME NEW p \in Pics, PutPicture(p)
      PROVE  Unseen'
  <2>1. p \notin Queued \cup {decoded} /\ fifo' = Append(fifo, p) /\ UNCHANGED <<current, next, decoded>>
    BY <1>4 DEF PutPicture, Unseen, shown
  <2>2. Queued' = Queued \cup {p} /\ Distinct'
    BY <1>0, <2>1, FifoAppend DEF Unseen
  <2>3. \A q \in Pics : codec'[q] \in {"new", "linked"} => q # p /\ codec[q] \in {"new", "linked"}
    BY <1>0, <1>4 DEF PutPicture
  <2> QED
    BY <2>1, <2>2, <2>3 DEF Unseen
<1> QED
  BY <1>1, <1>2, <1>3, <1>4

LEMMA PopKeepsUnseen ==
    ASSUME IInv, Unseen, Pop, codec' = codec
    PROVE  Unseen'
<1>0. Types
  BY DEF IInv
<1>1. Head(fifo) \in Queued /\ Queued' = Queued \ {Head(fifo)} /\ Distinct'
  BY <1>0, FifoTail DEF Pop, Unseen
<1>2. \/ current' = current /\ next' = next /\ decoded' = decoded
      \/ {current', next', decoded'} \subseteq {current, None, Head(fifo)} /\ decoded' = Head(fifo)
  BY DEF Pop, shown
<1>3. None \notin Pics
  BY PicsAreNumbers
<1> QED
  BY <1>1, <1>2, <1>3 DEF Unseen

LEMMA OthersKeepUnseen ==
    ASSUME IInv, Unseen
    PROVE  /\ IsEmpty \/ IsEmptyEnd \/ DeleteDecoder \/ NewDecoder => Unseen'
           /\ \A command \in {"pause", "resume", "step"} : AskInput(command) => Unseen'
           /\ ThreadStep => Unseen'
<1>0. Types /\ None \notin Pics
  BY PicsAreNumbers DEF IInv
<1>1. CASE IsEmpty \/ IsEmptyEnd \/ DeleteDecoder \/ NewDecoder
           \/ \E command \in {"pause", "resume", "step"} : AskInput(command)
  <2>1. UNCHANGED <<fifo, shown>> /\ codec' = codec
    BY <1>1 DEF IsEmpty, IsEmptyEnd, DeleteDecoder, NewDecoder, AskInput, Peek
  <2> QED
    BY <2>1, UnseenUnchanged
<1>2. CASE DestroyNext \/ StartDisplay \/ EndDisplay \/ \E p \in Pics : ReleaseNext(p)
  <2>1. UNCHANGED <<fifo, shown>> /\ codec' = codec
    BY <1>2 DEF DestroyNext, StartDisplay, EndDisplay, ReleaseNext
  <2> QED
    BY <2>1, UnseenUnchanged
<1>3. ASSUME NEW c \in Callers, StartCommand(c)
      PROVE  Unseen'
  <2>1. UNCHANGED <<fifo, codec, decoded>> /\ current' \in {current, None} /\ next' \in {next, None}
    BY <1>3 DEF StartCommand, shown
  <2> QED
    BY <1>0, <2>1, FifoUnchanged DEF Unseen
<1>4. ASSUME NEW c \in Callers, Finish(c)
      PROVE  Unseen'
  <2>1. UNCHANGED <<fifo, shown>>
    BY <1>4 DEF Finish
  <2>2. \A p \in Pics : codec'[p] \in {"new", "linked"} => codec[p] \in {"new", "linked"}
    BY <1>4 DEF Finish, FreePool, DeletePool
  <2> QED
    BY <2>1, <2>2, UnseenUnchanged
<1>5. CASE Flush
  <2>1. PICK keep \in SUBSET Queued : decoded' \in {decoded, None} /\ fifo' \in Remains(keep)
    BY <1>5 DEF Flush
  <2>2. Queued' = keep /\ Distinct'
    BY <1>0, <2>1, FifoRemains DEF Unseen
  <2>3. Queued \subseteq Pics
    BY <1>0 DEF Queued, Types, FifoType
  <2>4. UNCHANGED <<codec, current, next>>
    BY <1>5 DEF Flush
  <2> QED
    BY <1>0, <2>1, <2>2, <2>3, <2>4 DEF Unseen
<1>6. CASE PrepareFirst
  <2>1. codec' = codec
    BY <1>6 DEF PrepareFirst
  <2>2. CASE UNCHANGED <<fifo, shown>>
    BY <2>1, <2>2, UnseenUnchanged
  <2>3. CASE current' = decoded /\ UNCHANGED <<fifo, next, decoded>>
    BY <2>1, <2>3, FifoUnchanged DEF Unseen
  <2>4. CASE Pop
    BY <2>1, <2>4, PopKeepsUnseen
  <2> QED
    BY <1>6, <2>2, <2>3, <2>4 DEF PrepareFirst
<1>7. CASE PrepareMore
  <2>1. codec' = codec
    BY <1>7 DEF PrepareMore
  <2>2. CASE UNCHANGED <<fifo, shown>>
    BY <2>1, <2>2, UnseenUnchanged
  <2>3. CASE Pop
    BY <2>1, <2>3, PopKeepsUnseen
  <2> QED
    BY <1>7, <2>2, <2>3 DEF PrepareMore
<1>8. ASSUME NEW due \in BOOLEAN, NEW refresh \in BOOLEAN, Choose(due, refresh)
      PROVE  Unseen'
  <2>1. UNCHANGED <<fifo, codec, decoded>> /\ current' \in {current, next} /\ next' \in {next, None}
    BY <1>8 DEF Choose
  <2> QED
    BY <1>0, <2>1, FifoUnchanged DEF Unseen
<1> QED
  BY <1>1, <1>2, <1>3, <1>4, <1>5, <1>6, <1>7, <1>8 DEF ThreadStep

LEMMA UnseenHolds == Spec => []Unseen
<1>1. Init => Unseen
  BY PicsAreNumbers DEF Init, Unseen, Distinct, Queued
<1>2. IInv /\ Unseen /\ [Next]_vars => Unseen'
  <2> SUFFICES ASSUME IInv, Unseen, [Next]_vars PROVE Unseen'
    OBVIOUS
  <2>1. CASE UNCHANGED vars
    BY <2>1, UnseenUnchanged DEF vars
  <2>2. CASE Next
    BY <2>2, DecoderKeepsUnseen, OthersKeepUnseen DEF Next
  <2> QED
    BY <2>1, <2>2
<1> QED
  BY <1>1, <1>2, InvHolds, PTL DEF Spec

\* What is to be shown, from the screen on.
Line == InFront \o fifo

LEMMA LineIs ==
    Types /\ Ordered =>
       /\ Line \in Seq(Pics)
       /\ current = None => next = None /\ Line = fifo
       /\ current # None /\ next = None => Line = <<current>> \o fifo
       /\ next # None => current # None /\ Line = <<current>> \o (<<next>> \o fifo)
<1> SUFFICES ASSUME Types, Ordered
             PROVE  /\ Line \in Seq(Pics)
                    /\ current = None => next = None /\ Line = fifo
                    /\ current # None /\ next = None => Line = <<current>> \o fifo
                    /\ next # None => current # None /\ Line = <<current>> \o (<<next>> \o fifo)
  OBVIOUS
<1>1. fifo \in Seq(Pics) /\ current \in Pics \cup {None} /\ next \in Pics \cup {None}
  BY DEF Types, FifoType, ShownType
<1>2. \A s \in Seq(Pics) : <<>> \o s = s /\ s \o <<>> = s
  BY ConcatEmptySeq
<1>3. CASE current = None
  <2>1. next = None
    BY <1>3 DEF Ordered
  <2>2. <<>> \in Seq(Pics)
    OBVIOUS
  <2>3. Line = (<<>> \o <<>>) \o fifo
    BY <1>3, <2>1 DEF Line, InFront
  <2> QED
    BY <1>1, <1>2, <1>3, <2>1, <2>2, <2>3
<1>4. CASE current # None /\ next = None
  <2>1. <<current>> \in Seq(Pics)
    BY <1>1, <1>4
  <2>2. Line = (<<current>> \o <<>>) \o fifo
    BY <1>4 DEF Line, InFront
  <2>3. Line = <<current>> \o fifo
    BY <1>2, <2>1, <2>2
  <2>4. Line \in Seq(Pics)
    BY <1>1, <2>1, <2>3, ConcatProperties
  <2> QED
    BY <1>4, <2>3, <2>4
<1>5. CASE current # None /\ next # None
  <2>1. <<current>> \in Seq(Pics) /\ <<next>> \in Seq(Pics)
    BY <1>1, <1>5
  <2>2. Line = (<<current>> \o <<next>>) \o fifo
    BY <1>5 DEF Line, InFront
  <2>3. Line = <<current>> \o (<<next>> \o fifo)
    BY <1>1, <2>1, <2>2, ConcatAssociative
  <2>4. <<next>> \o fifo \in Seq(Pics)
    BY <1>1, <2>1, ConcatProperties
  <2>5. Line \in Seq(Pics)
    BY <2>1, <2>3, <2>4, ConcatProperties
  <2> QED
    BY <1>5, <2>3, <2>5
<1>6. CASE current = None /\ next # None
  BY <1>6 DEF Ordered
<1> QED
  BY <1>3, <1>4, <1>5, <1>6

LEMMA LineIsNext ==
    (Types /\ Ordered =>
       /\ Line \in Seq(Pics)
       /\ current = None => next = None /\ Line = fifo
       /\ current # None /\ next = None => Line = <<current>> \o fifo
       /\ next # None => current # None /\ Line = <<current>> \o (<<next>> \o fifo))'
BY LineIs, PTL

\* Who is in line.
Members(s) == {s[i] : i \in DOMAIN s}
InLine == Members(Line)

LEMMA MembersBehind ==
    ASSUME NEW S, NEW s \in Seq(S), NEW x \in S
    PROVE  Members(<<x>> \o s) = {x} \cup Members(s)
<1> DEFINE w == <<x>> \o s
<1>1. <<x>> \in Seq(S) /\ Len(<<x>>) = 1 /\ <<x>>[1] = x
  OBVIOUS
<1>2. /\ w \in Seq(S) /\ Len(w) = 1 + Len(s)
      /\ \A i \in 1..(1 + Len(s)) : w[i] = IF i <= 1 THEN <<x>>[i] ELSE s[i - 1]
  BY <1>1, ConcatProperties
<1>3. Len(s) \in Nat /\ DOMAIN w = 1..(1 + Len(s)) /\ DOMAIN s = 1..Len(s)
  BY <1>2
<1> HIDE DEF w
<1>4. w[1] = x /\ 1 \in DOMAIN w
  BY <1>1, <1>2, <1>3
<1>5. \A a \in DOMAIN s : a + 1 \in DOMAIN w /\ w[a + 1] = s[a]
  <2> TAKE a \in DOMAIN s
  <2>1. a + 1 \in 1..(1 + Len(s)) /\ ~(a + 1 <= 1) /\ (a + 1) - 1 = a
    BY <1>3
  <2> QED
    BY <1>2, <1>3, <2>1
<1>6. \A i \in DOMAIN w : i = 1 \/ (i - 1 \in DOMAIN s /\ w[i] = s[i - 1])
  <2> TAKE i \in DOMAIN w
  <2>1. i = 1 \/ (i \in 1..(1 + Len(s)) /\ ~(i <= 1) /\ i - 1 \in 1..Len(s))
    BY <1>3
  <2> QED
    BY <1>2, <1>3, <2>1
<1>7. Members(w) = {x} \cup Members(s)
  BY <1>4, <1>5, <1>6 DEF Members
<1> QED
  BY <1>7 DEF w

LEMMA WhoIsInLine ==
    ASSUME Types, Ordered
    PROVE  InLine = Queued \cup ({current, next} \ {None})
<1>1. fifo \in Seq(Pics) /\ Line \in Seq(Pics) /\ None \notin Pics
  BY LineIs, PicsAreNumbers DEF Types, FifoType
<1>2. Members(fifo) = Queued
  BY DEF Members, Queued
<1>3. CASE current = None
  BY <1>2, <1>3, LineIs DEF InLine
<1>4. CASE current # None /\ next = None
  <2>1. current \in Pics /\ Line = <<current>> \o fifo
    BY <1>4, LineIs DEF Types, ShownType
  <2>2. InLine = {current} \cup Queued
    BY <1>1, <1>2, <2>1, MembersBehind DEF InLine
  <2> QED
    BY <1>4, <2>2
<1>5. CASE next # None
  <2>1. current \in Pics /\ next \in Pics /\ Line = <<current>> \o (<<next>> \o fifo)
    BY <1>5, LineIs DEF Types, ShownType
  <2>2. <<next>> \o fifo \in Seq(Pics)
    <3>1. <<next>> \in Seq(Pics)
      BY <2>1
    <3> QED
      BY <1>1, <3>1, ConcatProperties
  <2>3. InLine = {current} \cup ({next} \cup Queued)
    BY <1>1, <1>2, <2>1, <2>2, MembersBehind DEF InLine
  <2> QED
    BY <1>1, <2>1, <2>3
<1> QED
  BY <1>3, <1>4, <1>5

\* Every step of the thread of the output that drops pictures, or moves them, shows
\* as a Leave.
LEMMA ShownLeaves ==
    ASSUME Types, Ordered, Types', Ordered', Shown!Within(Line', Line),
           decoded' \in {decoded, None} \cup InLine
    PROVE  Shown!Next
<1>1. Line' \in Seq(Pics)
  BY LineIsNext
<1>2. InLine = Shown!Queued
  BY DEF Shown!Queued, InLine, Members, Line
<1>3. Shown!Leave
  BY <1>1, <1>2, Zenon DEF Shown!Leave, Line
<1> QED
  BY <1>3 DEF Shown!Next

LEMMA LineUnchanged ==
    ASSUME UNCHANGED <<fifo, current, next>>
    PROVE  Line' = Line
BY DEF Line, InFront

LEMMA StutterShown ==
    ASSUME UNCHANGED <<fifo, shown>>
    PROVE  UNCHANGED <<Line, decoded>>
BY LineUnchanged DEF shown

LEMMA PopShows ==
    ASSUME Types, Ordered, Types', Ordered', Pop, next = None
    PROVE  Shown!Next
<1> DEFINE h == Head(fifo)
<1>1. fifo \in Seq(Pics) /\ fifo # <<>> /\ fifo' = Tail(fifo)
  BY DEF Pop, Types, FifoType
<1>2. h \in Pics /\ fifo' \in Seq(Pics) /\ fifo = <<h>> \o fifo'
  BY <1>1, HeadAndTail
<1>3. h \in Queued /\ None \notin Pics
  BY <1>1, PicsAreNumbers DEF Queued
<1>4. current \in Pics \cup {None}
  BY DEF Types, ShownType
<1>5. h \in InLine
  BY <1>3, WhoIsInLine
<1>6. Line = IF current = None THEN fifo ELSE <<current>> \o fifo
  BY LineIs
<1> HIDE DEF h
<1>7. CASE UNCHANGED shown
  <2>1. Line' = IF current = None THEN fifo' ELSE <<current>> \o fifo'
    BY <1>7, LineIsNext DEF shown
  <2>2. Shown!Within(fifo', fifo)
    <3>1. <<h>> \in Seq(Pics)
      BY <1>2
    <3> QED
      BY <1>2, <3>1, WithinLonger
  <2>3. Shown!Within(Line', Line)
    BY <1>1, <1>2, <1>4, <1>6, <2>1, <2>2, WithinBehind
  <2> QED
    BY <1>7, <2>3, ShownLeaves DEF shown
<1>8. CASE \E change \in BOOLEAN :
              /\ current' = IF change \/ current = None THEN h ELSE current
              /\ next' = IF change \/ current = None THEN None ELSE h
              /\ decoded' = h
  <2>1. CASE current' = h /\ next' = None
    <3>1. Line' = fifo
      BY <1>2, <1>3, <2>1, LineIsNext
    <3>2. CASE current = None
      BY <1>1, <1>6, <3>1, <3>2, WithinSame, <1>5, <1>8, ShownLeaves
    <3>3. CASE current # None
      <4>1. <<current>> \in Seq(Pics)
        BY <1>4, <3>3
      <4>2. Shown!Within(Line', Line)
        BY <1>1, <1>6, <3>1, <3>3, <4>1, WithinLonger
      <4> QED
        BY <1>5, <1>8, <4>2, ShownLeaves
    <3> QED
      BY <3>2, <3>3
  <2>2. CASE current # None /\ current' = current /\ next' = h
    <3>1. Line' = <<current>> \o (<<h>> \o fifo')
      BY <1>2, <1>3, <2>2, LineIsNext
    <3>2. Line' = Line /\ Line \in Seq(Pics)
      BY <1>2, <1>6, <2>2, <3>1, LineIs
    <3>3. Shown!Within(Line', Line)
      BY <3>2, WithinSame
    <3> QED
      BY <1>5, <1>8, <3>3, ShownLeaves
  <2> QED
    BY <1>8, <2>1, <2>2
<1> QED
  BY <1>7, <1>8 DEF Pop, h

LEMMA PutShows ==
    ASSUME Types, Ordered, Types', Ordered', Unseen, NEW p \in Pics, PutPicture(p)
    PROVE  Shown!Next
<1>1. fifo \in Seq(Pics) /\ fifo' = Append(fifo, p) /\ UNCHANGED <<current, next, decoded>>
  BY DEF PutPicture, Types, FifoType, shown
<1>2. fifo' = fifo \o <<p>> /\ <<p>> \in Seq(Pics)
  BY <1>1
<1>3. p \notin InLine
  BY WhoIsInLine DEF PutPicture, Unseen
<1>4. InFront \in Seq(Pics) /\ InFront' = InFront
  <2>1. current \in Pics \cup {None} /\ next \in Pics \cup {None}
    BY DEF Types, ShownType
  <2>2. (IF current = None THEN <<>> ELSE <<current>>) \in Seq(Pics)
    BY <2>1
  <2>3. (IF next = None THEN <<>> ELSE <<next>>) \in Seq(Pics)
    BY <2>1
  <2> QED
    BY <1>1, <2>2, <2>3, ConcatProperties DEF InFront
<1>5. Line' = Line \o <<p>>
  BY <1>1, <1>2, <1>4, ConcatAssociative DEF Line
<1>6. Line' = Append(Line, p)
  BY <1>5, LineIs
<1>7. InLine = Shown!Queued
  BY DEF Shown!Queued, InLine, Members, Line
<1>8. Shown!Put(p)
  BY <1>1, <1>3, <1>6, <1>7, Zenon DEF Shown!Put, Line
<1> QED
  BY <1>8 DEF Shown!Next

LEMMA FlushShows ==
    ASSUME Types, Control, Types', Ordered', Flush
    PROVE  Shown!Next
<1>1. current = None /\ next = None /\ Ordered /\ UNCHANGED <<current, next>>
  BY DEF Control, Resetting, Ordered, Flush
<1>2. PICK keep \in SUBSET Queued : decoded' \in {decoded, None} /\ fifo' \in Remains(keep)
  BY DEF Flush
<1>3. DOMAIN fifo' = 1..Len(fifo') /\ {fifo'[i] : i \in DOMAIN fifo'} = keep
  BY <1>2, RemainsTypes
<1>4. \A i \in DOMAIN fifo' : \E a \in DOMAIN fifo : fifo[a] = fifo'[i]
  BY <1>2, <1>3 DEF Queued
<1>5. \A i, j \in DOMAIN fifo' : i < j =>
         \E a, b \in DOMAIN fifo : a < b /\ fifo[a] = fifo'[i] /\ fifo[b] = fifo'[j]
  BY <1>2 DEF Remains
<1>6. Shown!Within(fifo', fifo)
  BY <1>4, <1>5, Zenon DEF Shown!Within
<1>7. Line = fifo
  BY <1>1, LineIs
<1>8. Line' = fifo'
  BY <1>1, LineIsNext
<1> QED
  BY <1>1, <1>2, <1>6, <1>7, <1>8, ShownLeaves

LEMMA CommandShows ==
    ASSUME Types, Ordered, Types', Ordered', NEW c \in Callers, StartCommand(c)
    PROVE  Shown!Next \/ UNCHANGED <<Line, decoded>>
<1>1. CASE UNCHANGED <<fifo, shown>>
  BY <1>1, StutterShown
<1>2. CASE current' = None /\ next' = None /\ UNCHANGED <<decoded, fifo>>
  <2>1. fifo \in Seq(Pics) /\ current \in Pics \cup {None} /\ next \in Pics \cup {None}
    BY DEF Types, FifoType, ShownType
  <2>2. Line' = fifo
    BY <1>2, LineIsNext
  <2>3. CASE current = None
    BY <2>1, <2>2, <2>3, WithinSame, LineIs, <1>2, ShownLeaves
  <2>4. CASE current # None /\ next = None
    <3>1. <<current>> \in Seq(Pics) /\ Line = <<current>> \o fifo
      BY <2>1, <2>4, LineIs
    <3>2. Shown!Within(Line', Line)
      BY <2>1, <2>2, <3>1, WithinLonger
    <3> QED
      BY <1>2, <3>2, ShownLeaves
  <2>5. CASE next # None
    <3>1. <<current>> \in Seq(Pics) /\ <<next>> \in Seq(Pics) /\ Line = <<current>> \o (<<next>> \o fifo)
      BY <2>1, <2>5, LineIs
    <3>2. <<current>> \o <<next>> \in Seq(Pics) /\ Line = (<<current>> \o <<next>>) \o fifo
      BY <2>1, <3>1, ConcatAssociative, ConcatProperties
    <3>3. Shown!Within(Line', Line)
      BY <2>1, <2>2, <3>2, WithinLonger
    <3> QED
      BY <1>2, <3>3, ShownLeaves
  <2> QED
    BY <2>3, <2>4, <2>5
<1> QED
  BY <1>1, <1>2 DEF StartCommand

LEMMA DisplayShows ==
    ASSUME Types, Ordered, Types', Ordered', Unseen
    PROVE  /\ PrepareFirst \/ PrepareMore => Shown!Next \/ UNCHANGED <<Line, decoded>>
           /\ \A due, refresh \in BOOLEAN :
                 Choose(due, refresh) => Shown!Next \/ UNCHANGED <<Line, decoded>>
<1>0. fifo \in Seq(Pics) /\ {current, next, decoded} \subseteq Pics \cup {None} /\ None \notin Pics
  BY PicsAreNumbers DEF Types, FifoType, ShownType
<1>1. CASE PrepareFirst
  <2>1. CASE UNCHANGED <<fifo, shown>>
    BY <2>1, StutterShown
  <2>2. CASE current = None /\ Pop
    BY <2>2, PopShows DEF Ordered
  <2>3. CASE current = None /\ decoded # None /\ current' = decoded /\ UNCHANGED <<fifo, next, decoded>>
    <3>1. next = None /\ Line = fifo
      BY <2>3, LineIs
    <3>2. Line' = <<decoded>> \o fifo
      BY <2>3, <3>1, LineIsNext
    <3>3. decoded \notin InLine \cup {None}
      BY <2>3, <3>1, WhoIsInLine DEF Unseen
    <3>4. InLine = Shown!Queued
      BY DEF Shown!Queued, InLine, Members, Line
    <3>5. Shown!Again
      BY <2>3, <3>1, <3>2, <3>3, <3>4, Zenon DEF Shown!Again, Line
    <3> QED
      BY <3>5 DEF Shown!Next
  <2> QED
    BY <1>1, <2>1, <2>2, <2>3 DEF PrepareFirst
<1>2. CASE PrepareMore
  <2>1. CASE UNCHANGED <<fifo, shown>>
    BY <2>1, StutterShown
  <2>2. CASE next = None /\ Pop
    BY <2>2, PopShows
  <2> QED
    BY <1>2, <2>1, <2>2 DEF PrepareMore
<1>3. ASSUME NEW due \in BOOLEAN, NEW refresh \in BOOLEAN, Choose(due, refresh)
      PROVE  Shown!Next \/ UNCHANGED <<Line, decoded>>
  <2>1. CASE UNCHANGED <<fifo, shown>>
    BY <2>1, StutterShown
  <2>2. CASE current' = next /\ next' = None /\ UNCHANGED <<fifo, decoded>>
    <3>1. CASE next = None
      <4>1. Line' = fifo
        BY <2>2, <3>1, LineIsNext
      <4>2. CASE current = None
        BY <1>0, <4>1, <4>2, LineIs, WithinSame, <2>2, ShownLeaves
      <4>3. CASE current # None
        <5>1. <<current>> \in Seq(Pics) /\ Line = <<current>> \o fifo
          BY <1>0, <3>1, <4>3, LineIs
        <5>2. Shown!Within(Line', Line)
          BY <1>0, <4>1, <5>1, WithinLonger
        <5> QED
          BY <2>2, <5>2, ShownLeaves
      <4> QED
        BY <4>2, <4>3
    <3>2. CASE next # None
      <4>1. Line' = <<next>> \o fifo /\ Line' \in Seq(Pics)
        BY <2>2, <3>2, LineIsNext
      <4>2. <<current>> \in Seq(Pics) /\ Line = <<current>> \o Line'
        BY <1>0, <3>2, <4>1, LineIs
      <4>3. Shown!Within(Line', Line)
        BY <4>1, <4>2, WithinLonger
      <4> QED
        BY <2>2, <4>3, ShownLeaves
    <3> QED
      BY <3>1, <3>2
  <2> QED
    BY <1>3, <2>1, <2>2 DEF Choose, shown
<1> QED
  BY <1>1, <1>2, <1>3

LEMMA ShownStep ==
    ASSUME IInv, IInv', Unseen, [Next]_vars
    PROVE  Shown!Next \/ UNCHANGED <<Line, decoded>>
<1>0. Types /\ Types' /\ Control /\ Ordered /\ Ordered'
  BY DEF IInv, Control
<1>1. CASE UNCHANGED vars
  BY <1>1, StutterShown DEF vars
<1>2. CASE \/ NewBuffer \/ GetPicture \/ GiveUp \/ FixLeaks \/ FixLeaksEnd \/ AskFlush
           \/ IsEmpty \/ IsEmptyEnd \/ DeleteDecoder \/ NewDecoder
           \/ \E command \in {"pause", "resume", "step"} : AskInput(command)
  <2>1. UNCHANGED <<fifo, shown>>
    BY <1>2 DEF NewBuffer, GetPicture, GiveUp, FixLeaks, FixLeaksEnd, AskFlush, Peek, IsEmpty,
       IsEmptyEnd, DeleteDecoder, NewDecoder, AskInput
  <2> QED
    BY <2>1, StutterShown
<1>3. ASSUME NEW p \in Pics, LinkPicture(p) \/ ReleasePicture(p) \/ LosePicture(p) \/ Seize(p)
      PROVE  UNCHANGED <<Line, decoded>>
  BY <1>3, StutterShown DEF LinkPicture, ReleasePicture, LosePicture, Seize
<1>4. ASSUME NEW p \in Pics, PutPicture(p) PROVE Shown!Next
  BY <1>0, <1>4, PutShows
<1>5. CASE ThreadStep
  <2>1. CASE DestroyNext \/ StartDisplay \/ EndDisplay \/ \E p \in Pics : ReleaseNext(p)
    BY <2>1, StutterShown DEF DestroyNext, StartDisplay, EndDisplay, ReleaseNext
  <2>2. ASSUME NEW c \in Callers, Finish(c) PROVE UNCHANGED <<Line, decoded>>
    BY <2>2, StutterShown DEF Finish
  <2> QED
    BY <1>0, <1>5, <2>1, <2>2, FlushShows, CommandShows, DisplayShows DEF ThreadStep
<1> QED
  BY <1>1, <1>2, <1>3, <1>4, <1>5 DEF Next

\* Pictures are shown in the order they were put, across flushes, pauses, steps, changes
\* of filters, of format and of decoder: the output implements the abstract PictureQueue.
THEOREM PicturesInOrder == Spec => ShownInOrder
<1>1. Init => Shown!Init
  BY DEF Init, Shown!Init, InFront
<1>2. IInv /\ IInv' /\ Unseen /\ [Next]_vars => [Shown!Next]_<<Line, decoded>>
  BY ShownStep
<1>3. IInv /\ IInv' /\ Unseen /\ [Next]_vars => [Shown!Next]_<<InFront \o fifo, decoded>>
  BY <1>2 DEF Line
<1> QED
  BY <1>1, <1>3, InvHolds, UnseenHolds, PTL DEF Spec, ShownInOrder, Shown!Spec

-----------------------------------------------------------------------------
(* The pool has room for the pictures of the decoder and of the output       *)

\* The thread executes a command that drops more than what is prepared.
Emptying == thread \in {"flush", "finish"} /\ task \in {"flush", "reset", "reinit"}

\* Such a command is the decoder's own, which waits for it, or comes once the decoder
\* is gone.
Works ==
    /\ thread = "flush" => task \in {"flush", "reset", "reinit"}
    /\ Emptying /\ task # "reset" => asked["decoder"] = task
    /\ asked["decoder"] # "none" => decoder \in {"run", "want"}

\* The last picture decoded is the last one prepared, if any is.
Follows == current # None => decoded = IF next = None THEN current ELSE next

\* The thread has references to two pictures, those it is about to drop included.
InHand ==
    Emptying \/ \E a, b \in Pics \cup {None} :
        \A p \in Pics : todo[p] > 0 \/ p \in {current, next, decoded} => p \in {a, b}

\* A picture of a pool to come is not with the decoder yet.
NotYet == \A p \in Pics : p > pool * PoolSize => codec[p] = "none"

\* A decoder that asks for a picture has less than dpb_size of this pool.
Mine == {p \in PoolPics(pool) : codec[p] \in {"new", "linked", "kept"}}
Asking ==
    decoder \in {"want", "empty", "checking"} /\ asked["decoder"] # "reinit" => Cardinality(Mine) < Dpb

\* Nothing was to be peeked at in an empty FIFO, and nobody else fills it.
Looked == decoder = "checking" /\ peeked = None => Queued = {}

Frugal == Works /\ Follows /\ InHand /\ NotYet /\ Asking /\ Looked

LEMMA WorksStep == Types /\ Control /\ Works /\ [Next]_vars => Works'
<1> SUFFICES ASSUME Types, Control, Works, [Next]_vars PROVE Works'
  OBVIOUS
<1>0. asked \in [Callers -> {"none", "pause", "resume", "step", "flush", "reset", "reinit"}] /\ Asks
      /\ Callers = {"decoder", "input"}
  BY DEF Types, CallType, Callers
<1> USE DEF Works, Emptying
<1>1. CASE UNCHANGED vars
  BY <1>1 DEF vars, steps
<1>2. CASE NewBuffer \/ AskFlush
  <2>1. asked["decoder"] = "none" /\ decoder' \in {"run", "want"} /\ UNCHANGED <<thread, task>>
    BY <1>2 DEF NewBuffer, AskFlush, steps
  <2> QED
    BY <2>1
<1>3. CASE GetPicture \/ GiveUp \/ FixLeaks \/ FixLeaksEnd \/ \E p \in Pics : Seize(p)
  BY <1>3 DEF GetPicture, DecoderRuns, GiveUp, FixLeaks, Peek, FixLeaksEnd, Seize, steps
<1>4. ASSUME NEW p \in Pics, LinkPicture(p) \/ PutPicture(p) \/ ReleasePicture(p) \/ LosePicture(p)
      PROVE  Works'
  BY <1>4 DEF LinkPicture, PutPicture, ReleasePicture, LosePicture, steps
<1>5. CASE IsEmpty \/ IsEmptyEnd \/ NewDecoder
  BY <1>5 DEF IsEmpty, Peek, IsEmptyEnd, NewDecoder, steps
<1>6. CASE DeleteDecoder \/ \E command \in {"pause", "resume", "step"} : AskInput(command)
  <2>1. asked'["decoder"] = asked["decoder"] /\ UNCHANGED <<thread, task>>
    BY <1>0, <1>6 DEF DeleteDecoder, AskInput, steps
  <2>2. asked["decoder"] # "none" => decoder' = decoder
    BY <1>6 DEF DeleteDecoder, DecoderRuns, AskInput
  <2> QED
    BY <2>1, <2>2
<1>7. ASSUME NEW c \in Callers, StartCommand(c) PROVE Works'
  <2>1. task' = asked[c] /\ UNCHANGED <<asked, decoder>> /\ thread' \in {"begin", "finish", "flush"}
    BY <1>7 DEF StartCommand
  <2>2. thread' = "flush" => task' \in {"flush", "reset", "reinit"}
    BY <1>0, <1>7 DEF StartCommand, Asks
  <2>3. task' \in {"flush", "reinit"} => c = "decoder"
    BY <1>0, <2>1 DEF Asks
  <2> QED
    BY <2>1, <2>2, <2>3
<1>8. ASSUME NEW c \in Callers, Finish(c) PROVE Works'
  <2>1. thread' = "pop" /\ decoder' = decoder /\ asked' = [asked EXCEPT ![c] = "none"]
    BY <1>8 DEF Finish
  <2>2. asked'["decoder"] # "none" => asked["decoder"] # "none"
    BY <1>0, <2>1
  <2> QED
    BY <2>1, <2>2
<1>9. CASE Flush
  BY <1>9 DEF Flush
<1>10. CASE EndDisplay
  <2>1. thread' = "pop" /\ decoder' = decoder /\ asked'["decoder"] = asked["decoder"]
    BY <1>0, <1>10 DEF EndDisplay
  <2> QED
    BY <2>1
<1>11. CASE DestroyNext \/ StartDisplay \/ \E p \in Pics : ReleaseNext(p)
  BY <1>11 DEF DestroyNext, StartDisplay, ReleaseNext
<1>12. CASE PrepareFirst \/ PrepareMore \/ \E due, refresh \in BOOLEAN : Choose(due, refresh)
  <2>1. thread' \in {"begin", "more", "choose", "end"} /\ UNCHANGED <<asked, decoder>>
    BY <1>12 DEF PrepareFirst, PrepareMore, Choose
  <2> QED
    BY <2>1
<1> QED
  BY <1>1, <1>2, <1>3, <1>4, <1>5, <1>6, <1>7, <1>8, <1>9, <1>10, <1>11, <1>12 DEF Next, ThreadStep

\* With nothing to drop, the thread has the current picture and the last decoded one.
LEMMA QuietHands ==
    ASSUME Types, Control, Follows, NEW p \in Pics, p \in {current, next, decoded}
    PROVE  p \in {current, decoded} /\ (current = None => p = decoded)
BY PicsAreNumbers DEF Control, Ordered, Follows

LEMMA HandsTypes ==
    ASSUME Types
    PROVE  {current, next, decoded} \subseteq Pics \cup {None} /\ None \notin Pics
           /\ (fifo # <<>> => Head(fifo) \in Pics) /\ todo \in Counts
BY PicsAreNumbers DEF Types, ShownType, FifoType, StepType

LEMMA NoneOfNone == ASSUME NEW p \in Pics PROVE ~(NoneOf[p] > 0)
BY DEF NoneOf

LEMMA PopKeepsHands ==
    ASSUME Types, Control, Follows, Quiet, Pop, next = None,
           thread \in {"begin", "more"}, thread' \in {"begin", "more"}
    PROVE  Follows' /\ InHand'
<1> DEFINE h == Head(fifo)
<1>1. h \in Pics /\ decoded \in Pics \cup {None} /\ None \notin Pics
  BY HandsTypes DEF Pop
<1> HIDE DEF h
<1>2. CASE task = "display" /\ UNCHANGED shown
           /\ HoldAndDrop(None, [q \in Pics |-> Is(q, Head(fifo))])
  <2>1. lock = "vout"
    BY <1>2 DEF Control, DisplayLocked
  <2>2. todo' = NoneOf /\ UNCHANGED <<current, next, decoded>>
    BY <1>2, <2>1 DEF HoldAndDrop, Quiet, shown
  <2>3. \A p \in Pics : todo'[p] > 0 \/ p \in {current', next', decoded'} => p \in {current, decoded}
    BY <2>2, NoneOfNone, QuietHands
  <2> QED
    BY <2>2, <2>3, HandsTypes DEF Follows, InHand
<1>3. ASSUME NEW change \in BOOLEAN,
             HoldAndDrop(h, [q \in Pics |-> Is(q, decoded) + IF change THEN Prepared[q] ELSE 0]),
             current' = IF change \/ current = None THEN h ELSE current,
             next' = IF change \/ current = None THEN None ELSE h,
             decoded' = h
      PROVE  Follows' /\ InHand'
  <2>1. Follows'
    BY <1>1, <1>3 DEF Follows
  <2>2. \A p \in Pics : p \in {current', next', decoded'} => p \in {h, decoded}
    BY <1>1, <1>3, QuietHands DEF Follows
  <2>3. ASSUME NEW p \in Pics, todo'[p] > 0 PROVE p \in {h, decoded}
    <3>1. todo' # NoneOf
      BY <2>3, NoneOfNone
    <3>2. todo' = [q \in Pics |-> Is(q, decoded) + IF change THEN Prepared[q] ELSE 0]
      BY <1>3, <3>1 DEF HoldAndDrop, Quiet
    <3>3. Is(p, decoded) + (IF change THEN Prepared[p] ELSE 0) > 0
      BY <2>3, <3>2
    <3>4. Prepared[p] = Is(p, current) + Is(p, next) /\ \A q : Is(p, q) \in {0, 1}
      BY IsValues DEF Prepared
    <3>5. Is(p, decoded) = 1 \/ Is(p, current) = 1 \/ Is(p, next) = 1
      BY <3>3, <3>4
    <3>6. p \in {current, next, decoded}
      BY <3>5, IsValues
    <3> QED
      BY <1>1, <3>6 DEF Follows
  <2>4. \A p \in Pics : todo'[p] > 0 \/ p \in {current', next', decoded'} => p \in {h, decoded}
    BY <2>2, <2>3
  <2> QED
    BY <1>1, <2>1, <2>4 DEF InHand
<1> QED
  BY <1>2, <1>3 DEF Pop, h

LEMMA DisplayKeepsHands ==
    ASSUME Types, Control, Follows, Ordered'
    PROVE  /\ PrepareFirst \/ PrepareMore => Follows' /\ InHand'
           /\ \A due, refresh \in BOOLEAN : Choose(due, refresh) => Follows' /\ InHand'
<1>0. {current, next, decoded} \subseteq Pics \cup {None} /\ None \notin Pics
  BY HandsTypes
<1>1. ASSUME Quiet, UNCHANGED <<shown, todo>> PROVE Follows' /\ InHand'
  <2>1. \A p \in Pics : todo'[p] > 0 \/ p \in {current', next', decoded'} => p \in {current, decoded}
    BY <1>1, NoneOfNone, QuietHands DEF Quiet, shown
  <2> QED
    BY <1>0, <1>1, <2>1 DEF Follows, InHand, shown
<1>2. CASE PrepareFirst
  <2>1. CASE UNCHANGED <<shown, todo>>
    BY <1>1, <1>2, <2>1 DEF PrepareFirst
  <2>2. CASE current = None /\ decoded # None /\ current' = decoded /\ UNCHANGED <<next, decoded>>
             /\ HoldAndDrop(decoded, NoneOf)
    <3>1. todo' = NoneOf /\ next = None
      BY <1>2, <2>2 DEF PrepareFirst, HoldAndDrop, Quiet, Control, Ordered
    <3>2. \A p \in Pics : todo'[p] > 0 \/ p \in {current', next', decoded'} => p \in {decoded, None}
      BY <2>2, <3>1, NoneOfNone
    <3> QED
      BY <1>0, <2>2, <3>1, <3>2 DEF Follows, InHand
  <2>3. CASE current = None /\ Pop /\ thread' \in {"begin", "more"}
    <3>1. next = None /\ Quiet /\ thread = "begin"
      BY <1>2, <2>3 DEF PrepareFirst, Control, Ordered
    <3> QED
      BY <2>3, <3>1, PopKeepsHands
  <2> QED
    BY <1>2, <2>1, <2>2, <2>3 DEF PrepareFirst
<1>3. CASE PrepareMore
  <2>1. CASE UNCHANGED <<shown, todo>>
    BY <1>1, <1>3, <2>1 DEF PrepareMore
  <2>2. CASE next = None /\ Pop /\ UNCHANGED thread
    BY <1>3, <2>2, PopKeepsHands DEF PrepareMore
  <2> QED
    BY <1>3, <2>1, <2>2 DEF PrepareMore
<1>4. ASSUME NEW due \in BOOLEAN, NEW refresh \in BOOLEAN, Choose(due, refresh)
      PROVE  Follows' /\ InHand'
  <2>1. CASE UNCHANGED <<current, next, todo>>
    BY <1>1, <1>4, <2>1 DEF Choose, shown
  <2>2. CASE HoldAndDrop(None, [q \in Pics |-> Is(q, current)]) /\ current' = next /\ next' = None
    <3>1. decoded' = decoded /\ Quiet
      BY <1>4 DEF Choose
    <3>2. Follows'
      BY <2>2, <3>1 DEF Follows, Control, Ordered
    <3>3. ASSUME NEW p \in Pics, todo'[p] > 0 PROVE p = current
      <4>1. todo' # NoneOf
        BY <3>3, NoneOfNone
      <4>2. todo' = [q \in Pics |-> Is(q, current)]
        BY <2>2, <3>1, <4>1 DEF HoldAndDrop, Quiet
      <4> QED
        BY <3>3, <4>2 DEF Is
    <3>4. \A p \in Pics : todo'[p] > 0 \/ p \in {current', next', decoded'} => p \in {current, decoded}
      BY <1>0, <2>2, <3>1, <3>3, QuietHands
    <3> QED
      BY <1>0, <3>2, <3>4 DEF InHand
  <2> QED
    BY <1>4, <2>1, <2>2 DEF Choose
<1> QED
  BY <1>2, <1>3, <1>4

LEMMA HandsUnchanged ==
    ASSUME Follows, InHand, UNCHANGED <<shown, thread, task>>,
           \A p \in Pics : todo'[p] > 0 => todo[p] > 0
    PROVE  Follows' /\ InHand'
<1>1. Follows'
  BY DEF Follows, shown
<1>2. CASE Emptying
  BY <1>1, <1>2 DEF Emptying, InHand
<1>3. CASE ~Emptying
  <2>1. PICK a, b \in Pics \cup {None} :
           \A p \in Pics : todo[p] > 0 \/ p \in {current, next, decoded} => p \in {a, b}
    BY <1>3 DEF InHand
  <2>2. \A p \in Pics : todo'[p] > 0 \/ p \in {current', next', decoded'} => p \in {a, b}
    BY <2>1 DEF shown
  <2> QED
    BY <1>1, <2>2 DEF InHand
<1> QED
  BY <1>2, <1>3

LEMMA HandsStep ==
    ASSUME Types, Control, Control', Works, Follows, InHand, [Next]_vars
    PROVE  Follows' /\ InHand'
<1>0. {current, next, decoded} \subseteq Pics \cup {None} /\ None \notin Pics
  BY HandsTypes
<1>1. ASSUME UNCHANGED <<shown, steps>> PROVE Follows' /\ InHand'
  BY <1>1, HandsUnchanged DEF steps
<1>2. CASE UNCHANGED vars
  BY <1>1, <1>2 DEF vars
<1>3. CASE Next /\ ~ThreadStep
  <2>1. UNCHANGED <<shown, steps>>
    BY <1>3 DEF Next, NewBuffer, GetPicture, GiveUp, FixLeaks, FixLeaksEnd, AskFlush, LinkPicture,
       PutPicture, ReleasePicture, LosePicture, Seize, AskInput, IsEmpty, IsEmptyEnd, Peek,
       DeleteDecoder, NewDecoder
  <2> QED
    BY <1>1, <2>1
<1>4. ASSUME NEW q \in Pics, ReleaseNext(q) PROVE Follows' /\ InHand'
  <2>1. todo' = [todo EXCEPT ![q] = @ - 1] /\ UNCHANGED <<shown, thread, task>> /\ todo \in Counts
    BY <1>4, HandsTypes DEF ReleaseNext
  <2>2. \A p \in Pics : todo'[p] > 0 => todo[p] > 0
    BY <2>1 DEF Counts
  <2> QED
    BY <2>1, <2>2, HandsUnchanged
<1>5. CASE DestroyNext
  BY <1>5, HandsUnchanged DEF DestroyNext
<1>6. ASSUME thread = "pop", Quiet, UNCHANGED <<shown, todo>> PROVE Follows' /\ InHand'
  <2>1. \A p \in Pics : todo'[p] > 0 \/ p \in {current', next', decoded'} => p \in {current, decoded}
    BY <1>6, NoneOfNone, QuietHands DEF Quiet, shown
  <2> QED
    BY <1>0, <1>6, <2>1 DEF Follows, InHand, shown
<1>7. CASE StartDisplay
  BY <1>6, <1>7 DEF StartDisplay, Control, Settled
<1>8. ASSUME NEW c \in Callers, StartCommand(c) PROVE Follows' /\ InHand'
  <2>1. thread = "pop" /\ Quiet
    BY <1>8 DEF StartCommand, Control, Settled
  <2>2. CASE UNCHANGED <<shown, todo>>
    BY <1>6, <2>1, <2>2
  <2>3. CASE todo' = Prepared /\ current' = None /\ next' = None /\ UNCHANGED decoded
    <3>1. \A p \in Pics : Prepared[p] > 0 => p \in {current, next}
      BY IsValues DEF Prepared, Is
    <3>2. \A p \in Pics : todo'[p] > 0 \/ p \in {current', next', decoded'} => p \in {current, decoded}
      BY <1>0, <2>3, <3>1, QuietHands
    <3> QED
      BY <1>0, <2>3, <3>2 DEF Follows, InHand
  <2> QED
    BY <1>8, <2>2, <2>3 DEF StartCommand
<1>9. CASE Flush
  <2>1. current' = None
    BY <1>9 DEF Flush, Control, Resetting
  <2>2. Emptying'
    BY <1>9 DEF Flush, Works, Emptying
  <2> QED
    BY <2>1, <2>2 DEF Follows, InHand
<1>10. ASSUME NEW c \in Callers, Finish(c) PROVE Follows' /\ InHand'
  <2>1. Quiet /\ UNCHANGED <<shown, todo>>
    BY <1>10 DEF Finish
  <2>2. \A p \in Pics : todo'[p] > 0 \/ p \in {current', next', decoded'} => p \in {current, decoded}
    BY <2>1, NoneOfNone, QuietHands DEF Quiet, shown
  <2> QED
    BY <1>0, <2>1, <2>2 DEF Follows, InHand, shown
<1>11. CASE EndDisplay
  <2>1. Quiet /\ UNCHANGED <<shown, todo>>
    BY <1>11 DEF EndDisplay
  <2>2. \A p \in Pics : todo'[p] > 0 \/ p \in {current', next', decoded'} => p \in {current, decoded}
    BY <2>1, NoneOfNone, QuietHands DEF Quiet, shown
  <2> QED
    BY <1>0, <2>1, <2>2 DEF Follows, InHand, shown
<1>12. CASE PrepareFirst \/ PrepareMore \/ \E due, refresh \in BOOLEAN : Choose(due, refresh)
  BY <1>12, DisplayKeepsHands DEF Control
<1> QED
  BY <1>2, <1>3, <1>4, <1>5, <1>7, <1>8, <1>9, <1>10, <1>11, <1>12 DEF ThreadStep

LEMMA PoolBounds ==
    ASSUME Types
    PROVE  /\ PoolSize = Dpb + 2 /\ Dpb \in Nat \ {0} /\ pool * PoolSize \in Nat
           /\ \A p \in PoolPics(pool) : p \in Pics /\ p <= pool * PoolSize
           /\ (pool + 1) * PoolSize >= pool * PoolSize /\ (pool + 1) * PoolSize \in Nat
           /\ \A p \in PoolPics(pool + 1) : p > pool * PoolSize
           /\ IsFiniteSet(PoolPics(pool)) /\ Cardinality(PoolPics(pool)) = Dpb + 2
<1>1. PoolSize = Dpb + 2 /\ Dpb \in Nat \ {0}
  BY PictureBounds DEF PoolSize, Reserved, DisplayPictures, PrivatePictures, KeptPictures
<1> DEFINE S == PoolSize
<1>2. S \in Nat /\ pool \in Nat /\ pool >= 1 /\ S = Dpb + 2
  BY <1>1 DEF Types, StoreType
<1> HIDE DEF S
<1>3. pool * S \in Nat /\ (pool + 1) * S = pool * S + S /\ (pool - 1) * S = pool * S - S
      /\ (pool - 1) * S \in Nat
  BY <1>2
<1>4. PoolPics(pool) = ((pool - 1) * S + 1)..(pool * S)
      /\ PoolPics(pool + 1) = (pool * S + 1)..((pool + 1) * S)
  <2>1. (pool + 1) - 1 = pool
    BY <1>2
  <2> QED
    BY <2>1, Zenon DEF PoolPics, S
<1>5. PoolPics(pool) \subseteq Pics
  BY PoolsBelowMax DEF Types, StoreType
<1>6. IsFiniteSet(PoolPics(pool)) /\ Cardinality(PoolPics(pool)) = Dpb + 2
  <2> DEFINE a == (pool - 1) * S + 1
             b == pool * S
  <2>1. a \in Int /\ b \in Int /\ ~(a > b) /\ b - a + 1 = Dpb + 2
    BY <1>1, <1>2, <1>3
  <2> HIDE DEF a, b
  <2>2. IsFiniteSet(a..b) /\ Cardinality(a..b) = Dpb + 2
    BY <2>1, FS_Interval
  <2> QED
    BY <1>4, <2>2 DEF a, b
<1>7. \A p \in PoolPics(pool) : p <= pool * S
  BY <1>3, <1>4
<1>8. ASSUME NEW p \in PoolPics(pool + 1) PROVE p > pool * S
  <2> DEFINE a == pool * S
             b == (pool + 1) * S
  <2>1. p \in (a + 1)..b
    BY <1>4, Zenon
  <2>2. a \in Nat
    BY <1>3
  <2>3. b = a + S
    BY <1>3, Zenon
  <2> HIDE DEF a, b
  <2>4. p > a
    BY <1>2, <2>1, <2>2, <2>3
  <2> QED
    BY <2>4 DEF a
<1>9. (pool + 1) * S >= pool * S /\ (pool + 1) * S \in Nat
  BY <1>2, <1>3
<1> QED
  BY <1>1, <1>3, <1>5, <1>6, <1>7, <1>8, <1>9 DEF S

LEMMA MineIsFinite ==
    ASSUME Types
    PROVE  /\ \A T \in SUBSET PoolPics(pool) : IsFiniteSet(T) /\ Cardinality(T) \in Nat
           /\ \A S, T \in SUBSET PoolPics(pool) : S \subseteq T => Cardinality(S) <= Cardinality(T)
<1>1. \A T \in SUBSET PoolPics(pool) : IsFiniteSet(T) /\ Cardinality(T) \in Nat
  BY PoolBounds, FS_Subset, FS_CardinalityType
<1>2. ASSUME NEW S \in SUBSET PoolPics(pool), NEW T \in SUBSET PoolPics(pool), S \subseteq T
      PROVE  Cardinality(S) <= Cardinality(T)
  BY <1>1, <1>2, FS_Subset
<1> QED
  BY <1>1, <1>2

\* A step that gives the decoder no picture, and does not make it ask for one.
LEMMA AskingKept ==
    ASSUME Types, Asking, pool' = pool,
           \A p \in Pics : codec'[p] \in {"new", "linked", "kept"} => codec[p] \in {"new", "linked", "kept"},
           decoder' \in {"want", "empty", "checking"} =>
              decoder \in {"want", "empty", "checking"}
              /\ (asked'["decoder"] # "reinit" => asked["decoder"] # "reinit")
    PROVE  Asking'
<1>1. Mine' \subseteq Mine /\ Mine \in SUBSET PoolPics(pool)
  BY PoolBounds DEF Mine
<1>2. Cardinality(Mine') <= Cardinality(Mine) /\ Cardinality(Mine) \in Nat /\ Cardinality(Mine') \in Nat
  <2>1. Mine' \in SUBSET PoolPics(pool)
    BY <1>1
  <2> QED
    BY <1>1, <2>1, MineIsFinite
<1>3. Dpb \in Nat
  BY PoolBounds
<1> QED
  BY <1>2, <1>3 DEF Asking

LEMMA AskingStep ==
    ASSUME Types, Works, NotYet, Asking, Control, [Next]_vars
    PROVE  Asking'
<1>0. asked \in [Callers -> {"none", "pause", "resume", "step", "flush", "reset", "reinit"}] /\ Asks
      /\ Callers = {"decoder", "input"} /\ codec \in [Pics -> DOMAIN CodecRefs]
  BY DEF Types, CallType, CodecType, Callers
<1>1. CASE UNCHANGED vars
  BY <1>1, AskingKept DEF vars, store
<1>2. CASE NewBuffer
  <2>1. UNCHANGED <<pool, codec>>
    BY <1>2 DEF NewBuffer, store
  <2>2. CASE Cardinality(Having({"new", "linked", "kept"})) < Dpb
    <3>1. Mine' \subseteq Having({"new", "linked", "kept"})
      BY <2>1, PoolBounds DEF Mine, Having
    <3>2. IsFiniteSet(Having({"new", "linked", "kept"}))
      BY PicsAreNumbers, FS_Subset DEF Having
    <3>3. Cardinality(Mine') <= Cardinality(Having({"new", "linked", "kept"})) /\ Cardinality(Mine') \in Nat
          /\ Cardinality(Having({"new", "linked", "kept"})) \in Nat
      BY <3>1, <3>2, FS_Subset, FS_CardinalityType
    <3>4. Dpb \in Nat
      BY PoolBounds
    <3> QED
      BY <2>2, <3>3, <3>4 DEF Asking
  <2>3. CASE asked' = [asked EXCEPT !["decoder"] = "reinit"]
    BY <1>0, <2>3 DEF Asking
  <2> QED
    BY <1>2, <2>2, <2>3 DEF NewBuffer
<1>3. CASE GetPicture
  <2>1. CASE decoder' = "run"
    BY <2>1 DEF Asking
  <2>2. CASE decoder = "want" /\ UNCHANGED <<codec, pool, asked>>
    BY <2>2, AskingKept
  <2> QED
    BY <1>3, <2>1, <2>2 DEF GetPicture
<1>4. CASE FixLeaks \/ FixLeaksEnd \/ \E p \in Pics : Seize(p)
  <2>1. decoder \in {"empty", "checking"} /\ UNCHANGED <<pool, asked>>
    BY <1>4 DEF FixLeaks, FixLeaksEnd, Seize, Peek, Release, store
  <2>2. \A p \in Pics : codec'[p] \in {"new", "linked", "kept"} => codec[p] \in {"new", "linked", "kept"}
    BY <1>0, <1>4 DEF FixLeaks, FixLeaksEnd, Seize, Peek
  <2> QED
    BY <2>1, <2>2, AskingKept
<1>5. CASE GiveUp \/ AskFlush \/ DeleteDecoder \/ NewDecoder
  <2>1. decoder' \in {"run", "gone"}
    BY <1>5 DEF GiveUp, AskFlush, DeleteDecoder, NewDecoder
  <2> QED
    BY <2>1 DEF Asking
<1>6. ASSUME NEW p \in Pics, LinkPicture(p) \/ PutPicture(p) \/ ReleasePicture(p) \/ LosePicture(p)
      PROVE  Asking'
  <2>1. decoder' = "run"
    BY <1>6 DEF LinkPicture, PutPicture, ReleasePicture, LosePicture
  <2> QED
    BY <2>1 DEF Asking
<1>7. CASE \/ IsEmpty \/ IsEmptyEnd \/ EndDisplay
           \/ \E command \in {"pause", "resume", "step"} : AskInput(command)
  <2>1. UNCHANGED <<pool, codec, decoder>>
    BY <1>7 DEF IsEmpty, IsEmptyEnd, Peek, Release, EndDisplay, AskInput, store
  <2>2. asked'["decoder"] = asked["decoder"]
    BY <1>0, <1>7 DEF IsEmpty, IsEmptyEnd, Peek, EndDisplay, AskInput
  <2> QED
    BY <2>1, <2>2, AskingKept
<1>8. ASSUME NEW c \in Callers, Finish(c) PROVE Asking'
  <2>1. asked[c] = task /\ asked' = [asked EXCEPT ![c] = "none"] /\ decoder' = decoder /\ thread = "finish"
    BY <1>8 DEF Finish
  <2>2. CASE task = "reinit" /\ DeletePool
    <3>1. pool' = pool + 1 /\ codec' = codec
      BY <2>2 DEF DeletePool
    <3>2. PoolPics(pool + 1) \subseteq Pics
      <4>1. pool + 1 \in 1..MaxPools
        <5>1. asked["decoder"] = "reinit"
          BY <1>0, <2>1, <2>2 DEF Asks
        <5> QED
          BY <1>0, <5>1, PictureBounds DEF Asks, Types, StoreType
      <4> QED
        BY <4>1, PoolsBelowMax
    <3>3. \A p \in PoolPics(pool + 1) : codec[p] = "none"
      BY <3>2, PoolBounds DEF NotYet
    <3>4. Mine' = {}
      BY <3>1, <3>3 DEF Mine
    <3>5. Cardinality(Mine') < Dpb
      BY <3>4, FS_EmptySet, PoolBounds
    <3> QED
      BY <3>5 DEF Asking
  <2>3. CASE task = "reset" /\ FreePool
    <3>1. decoder' = "gone"
      BY <2>1, <2>3 DEF Control, Resetting
    <3> QED
      BY <3>1 DEF Asking
  <2>4. CASE task \notin {"reset", "reinit"} /\ UNCHANGED <<store, codec>>
    <3>1. asked'["decoder"] # "reinit" => asked["decoder"] # "reinit"
      BY <1>0, <2>1, <2>4
    <3> QED
      BY <2>1, <2>4, <3>1, AskingKept DEF store
  <2> QED
    BY <1>8, <2>2, <2>3, <2>4 DEF Finish
<1>9. CASE \/ DestroyNext \/ StartDisplay \/ Flush \/ \E p \in Pics : ReleaseNext(p)
           \/ \E c \in Callers : StartCommand(c)
  BY <1>9, AskingKept DEF DestroyNext, StartDisplay, Flush, ReleaseNext, StartCommand, store
<1>10. CASE PrepareFirst \/ PrepareMore \/ \E due, refresh \in BOOLEAN : Choose(due, refresh)
  BY <1>10, AskingKept DEF PrepareFirst, PrepareMore, Choose, Pop, store
<1> QED
  BY <1>1, <1>2, <1>3, <1>4, <1>5, <1>6, <1>7, <1>8, <1>9, <1>10 DEF Next, ThreadStep

LEMMA NotYetStep == Types /\ NotYet /\ [Next]_vars => NotYet'
<1> SUFFICES ASSUME Types, NotYet, [Next]_vars PROVE NotYet'
  OBVIOUS
<1>0. codec \in [Pics -> DOMAIN CodecRefs] /\ pool * PoolSize \in Nat /\ Pics \subseteq Nat
  BY PoolBounds, PicsAreNumbers DEF Types, CodecType
<1>1. ASSUME UNCHANGED pool, \A p \in Pics : codec[p] = "none" => codec'[p] = "none"
      PROVE  NotYet'
  BY <1>1 DEF NotYet
<1>2. CASE UNCHANGED vars
  BY <1>1, <1>2 DEF vars, store
<1>3. CASE GetPicture
  <2>1. CASE UNCHANGED codec
    BY <1>1, <1>3, <2>1 DEF GetPicture
  <2>2. CASE \E q \in Free : codec' = [codec EXCEPT ![q] = "new"]
    <3>1. PICK q \in Free : codec' = [codec EXCEPT ![q] = "new"]
      BY <2>2
    <3>2. q \in Pics /\ q <= pool * PoolSize
      BY PoolBounds DEF Free
    <3>3. \A p \in Pics : p > pool * PoolSize => p # q
      BY <1>0, <3>2
    <3>4. pool' = pool
      BY <1>3 DEF GetPicture
    <3> QED
      BY <1>0, <3>1, <3>3, <3>4 DEF NotYet
  <2> QED
    BY <1>3, <2>1, <2>2 DEF GetPicture
<1>4. CASE \/ NewBuffer \/ GiveUp \/ FixLeaks \/ FixLeaksEnd \/ AskFlush \/ IsEmpty \/ IsEmptyEnd
           \/ DeleteDecoder \/ NewDecoder \/ \E command \in {"pause", "resume", "step"} : AskInput(command)
  <2>1. UNCHANGED <<pool, codec>>
    BY <1>4 DEF NewBuffer, GiveUp, FixLeaks, FixLeaksEnd, AskFlush, IsEmpty, IsEmptyEnd, Peek,
       Release, DeleteDecoder, NewDecoder, AskInput, store
  <2> QED
    BY <1>1, <2>1
<1>5. ASSUME NEW q \in Pics,
             LinkPicture(q) \/ PutPicture(q) \/ ReleasePicture(q) \/ LosePicture(q) \/ Seize(q)
      PROVE  NotYet'
  <2>1. pool' = pool
    BY <1>5 DEF LinkPicture, PutPicture, ReleasePicture, Release, LosePicture, Seize, store
  <2>2. \A p \in Pics : codec[p] = "none" => codec'[p] = "none"
    BY <1>0, <1>5 DEF LinkPicture, PutPicture, ReleasePicture, LosePicture, Seize
  <2> QED
    BY <1>1, <2>1, <2>2
<1>6. ASSUME NEW c \in Callers, Finish(c) PROVE NotYet'
  <2>1. CASE FreePool
    BY <1>1, <2>1 DEF FreePool
  <2>2. CASE DeletePool
    <3>1. \A p \in Pics : p > (pool + 1) * PoolSize => p > pool * PoolSize
      BY <1>0, PoolBounds
    <3> QED
      BY <2>2, <3>1 DEF DeletePool, NotYet
  <2>3. CASE UNCHANGED <<store, codec>>
    BY <1>1, <2>3 DEF store
  <2> QED
    BY <1>6, <2>1, <2>2, <2>3 DEF Finish
<1>7. CASE ThreadStep /\ ~(\E c \in Callers : Finish(c))
  <2>1. UNCHANGED <<pool, codec>>
    BY <1>7 DEF ThreadStep, DestroyNext, StartDisplay, Flush, ReleaseNext, StartCommand, PrepareFirst,
       PrepareMore, Choose, EndDisplay, Pop, store
  <2> QED
    BY <1>1, <2>1
<1> QED
  BY <1>2, <1>3, <1>4, <1>5, <1>6, <1>7 DEF Next, ThreadStep

LEMMA LookedStep == Types /\ Control /\ Looked /\ [Next]_vars => Looked'
<1> SUFFICES ASSUME Types, Control, Looked, [Next]_vars PROVE Looked'
  OBVIOUS
<1>1. ASSUME Queued' \subseteq Queued, UNCHANGED <<decoder, peeked>> PROVE Looked'
  BY <1>1 DEF Looked
<1>2. CASE UNCHANGED vars
  BY <1>1, <1>2, FifoUnchanged DEF vars
<1>3. ASSUME decoder' # "checking" PROVE Looked'
  BY <1>3 DEF Looked
<1>4. CASE FixLeaks
  <2>1. CASE fifo = <<>>
    BY <1>4, <2>1 DEF FixLeaks, Peek, Looked, Queued
  <2>2. CASE fifo # <<>>
    <3>1. peeked' # None
      BY <1>4, <2>2, HandsTypes DEF FixLeaks, Peek
    <3> QED
      BY <3>1 DEF Looked
  <2> QED
    BY <2>1, <2>2
<1>5. CASE IsEmpty \/ IsEmptyEnd
  <2>1. decoder # "checking" /\ decoder' = decoder
    BY <1>5 DEF IsEmpty, IsEmptyEnd, Peek, Control, PeekLocked
  <2> QED
    BY <1>3, <2>1
<1>6. CASE \/ NewBuffer \/ GetPicture \/ GiveUp \/ FixLeaksEnd \/ AskFlush \/ DeleteDecoder \/ NewDecoder
           \/ \E p \in Pics : \/ LinkPicture(p) \/ PutPicture(p) \/ ReleasePicture(p) \/ LosePicture(p)
                              \/ Seize(p)
  <2>1. decoder' # "checking"
    BY <1>6 DEF NewBuffer, GetPicture, GiveUp, FixLeaksEnd, AskFlush, DeleteDecoder, NewDecoder,
       LinkPicture, PutPicture, ReleasePicture, LosePicture, Seize
  <2> QED
    BY <1>3, <2>1
<1>7. CASE Flush
  <2>1. PICK keep \in SUBSET Queued : fifo' \in Remains(keep)
    BY <1>7 DEF Flush
  <2>2. Queued' = keep
    BY <2>1, RemainsTypes DEF Queued
  <2> QED
    BY <1>1, <1>7, <2>2 DEF Flush
<1>8. CASE PrepareFirst \/ PrepareMore
  <2>1. CASE UNCHANGED fifo
    BY <1>1, <1>8, <2>1, FifoUnchanged DEF PrepareFirst, PrepareMore
  <2>2. CASE Pop
    <3>1. fifo \in Seq(Pics) /\ fifo # <<>> /\ fifo' = Tail(fifo)
      BY <2>2 DEF Pop, Types, FifoType
    <3>2. Queued' \subseteq Queued
      BY <3>1 DEF Queued
    <3> QED
      BY <1>1, <1>8, <3>2 DEF PrepareFirst, PrepareMore
  <2> QED
    BY <1>8, <2>1, <2>2 DEF PrepareFirst, PrepareMore
<1>9. CASE \/ DestroyNext \/ StartDisplay \/ EndDisplay \/ \E p \in Pics : ReleaseNext(p)
           \/ \E c \in Callers : StartCommand(c) \/ Finish(c)
           \/ \E due, refresh \in BOOLEAN : Choose(due, refresh)
           \/ \E command \in {"pause", "resume", "step"} : AskInput(command)
  <2>1. UNCHANGED <<fifo, decoder, peeked>>
    BY <1>9 DEF DestroyNext, StartDisplay, EndDisplay, ReleaseNext, StartCommand, Finish, Choose,
       AskInput
  <2> QED
    BY <1>1, <2>1, FifoUnchanged
<1> QED
  BY <1>2, <1>4, <1>5, <1>6, <1>7, <1>8, <1>9 DEF Next, ThreadStep

LEMMA FrugalHolds == Spec => []Frugal
<1>1. Init => Frugal
  <2> SUFFICES ASSUME Init PROVE Frugal
    OBVIOUS
  <2>1. Works /\ Follows /\ NotYet /\ Asking /\ Looked
    BY DEF Init, Works, Emptying, Follows, NotYet, Asking, Looked, Callers
  <2>2. \A p \in Pics : todo[p] > 0 \/ p \in {current, next, decoded} => p \in {None, None}
    BY NoneOfNone DEF Init
  <2>3. InHand
    BY <2>2, Zenon DEF InHand
  <2> QED
    BY <2>1, <2>3 DEF Frugal
<1>2. IInv /\ IInv' /\ Frugal /\ [Next]_vars => Frugal'
  BY WorksStep, HandsStep, NotYetStep, AskingStep, LookedStep DEF IInv, Frugal
<1> QED
  BY <1>1, <1>2, InvHolds, PTL DEF Spec

LEMMA OneMore ==
    ASSUME NEW S, IsFiniteSet(S), NEW x
    PROVE  /\ IsFiniteSet(S \cup {x}) /\ Cardinality(S \cup {x}) \in Nat
           /\ Cardinality(S \cup {x}) <= Cardinality(S) + 1
<1>1. IsFiniteSet(S \cup {x}) /\ Cardinality(S) \in Nat
  BY FS_AddElement, FS_CardinalityType
<1>2. Cardinality(S \cup {x}) \in Nat
  BY <1>1, FS_CardinalityType
<1>3. Cardinality(S \cup {x}) = IF x \in S THEN Cardinality(S) ELSE Cardinality(S) + 1
  BY FS_AddElement
<1> QED
  BY <1>1, <1>2, <1>3

\* When the decoder finds no free picture while the FIFO is empty, the codec has forgotten
\* one: what it has and the two pictures of the thread do not fill the pool.
LEMMA PoolSuffices ==
    ASSUME IInv, Frugal, decoder \in {"want", "empty", "checking"}, asked["decoder"] = "none",
           peeked = None, Queued = {}, Free = {}
    PROVE  \E p \in PoolPics(pool) : codec[p] = "lost"
<1> SUFFICES ASSUME \A p \in PoolPics(pool) : codec[p] # "lost" PROVE FALSE
  OBVIOUS
<1>0. Types /\ Balanced /\ Control
  BY DEF IInv
<1>1. Queued = {} /\ Cardinality(Mine) < Dpb
  BY DEF Frugal, Asking
<1>2. ~Emptying
  BY <1>0 DEF Frugal, Works, Emptying, Control, Resetting
<1>3. PICK a, b \in Pics \cup {None} :
         \A p \in Pics : todo[p] > 0 \/ p \in {current, next, decoded} => p \in {a, b}
  BY <1>2 DEF Frugal, InHand
<1>4. ASSUME NEW p \in PoolPics(pool) PROVE p \in (Mine \cup {a}) \cup {b}
  <2>1. p \in Pics /\ refs[p] # 0
    BY <1>0, PoolBounds DEF Free
  <2>2. p # None
    BY <2>1, PicsAreNumbers
  <2>3. refs[p] = Holders(p) /\ todo[p] \in Nat
    BY <1>0, <2>1, HoldersValue DEF Balanced, Matched
  <2>4. Holders(p) = CodecRefs[codec[p]] + todo[p] + Is(p, current) + Is(p, next) + Is(p, decoded)
    <3>1. Is(p, peeked) = 0 /\ p \notin Queued
      BY <1>1, <2>2 DEF Is
    <3>2. CodecRefs[codec[p]] \in Nat /\ \A q : Is(p, q) \in Nat
      BY <1>0, <2>1, HoldersValue, IsValues
    <3> QED
      BY <2>3, <3>1, <3>2 DEF Holders
  <2>5. CASE codec[p] = "none"
    <3>1. todo[p] > 0 \/ Is(p, current) # 0 \/ Is(p, next) # 0 \/ Is(p, decoded) # 0
      BY <2>1, <2>3, <2>4, <2>5, CodecRefsValues, IsValues
    <3>2. todo[p] > 0 \/ p \in {current, next, decoded}
      BY <3>1 DEF Is
    <3> QED
      BY <1>3, <2>1, <3>2
  <2>6. CASE codec[p] # "none"
    <3>1. codec[p] \in {"new", "linked", "kept"}
      BY <1>0, <2>1, <2>6, CodecRefsValues DEF Types, CodecType
    <3> QED
      BY <3>1 DEF Mine
  <2> QED
    BY <2>5, <2>6
<1>5. IsFiniteSet(Mine) /\ Cardinality(Mine) \in Nat
  <2>1. Mine \in SUBSET PoolPics(pool)
    BY DEF Mine
  <2> QED
    BY <1>0, <2>1, MineIsFinite
<1>6. IsFiniteSet(Mine \cup {a}) /\ Cardinality(Mine \cup {a}) <= Cardinality(Mine) + 1
      /\ Cardinality(Mine \cup {a}) \in Nat
  BY <1>5, OneMore
<1> DEFINE All == (Mine \cup {a}) \cup {b}
<1>7. IsFiniteSet(All) /\ Cardinality(All) <= Cardinality(Mine \cup {a}) + 1 /\ Cardinality(All) \in Nat
  BY <1>6, OneMore
<1>8. PoolPics(pool) \in SUBSET All
  BY <1>4
<1> HIDE DEF All
<1>9. Cardinality(PoolPics(pool)) <= Cardinality(All)
  BY <1>7, <1>8, FS_Subset
<1>10. Cardinality(PoolPics(pool)) = Dpb + 2 /\ Dpb \in Nat
  BY <1>0, PoolBounds
<1> QED
  BY <1>1, <1>5, <1>6, <1>7, <1>9, <1>10

\* "There is no reason that no pictures are available": vout_FixLeaks takes a picture
\* from somebody only when a faulty codec has lost one, whatever dpb_size it asked for.
THEOREM NobodyRobbed == Spec => RobbedOnlyIfLost
<1>1. IInv /\ Frugal /\ [Next]_vars
         => [decoder = "checking" /\ decoder' = "robbed"
               => \E p \in PoolPics(pool) : codec[p] = "lost"]_vars
  <2> SUFFICES ASSUME IInv, Frugal, Next, decoder = "checking", decoder' = "robbed"
               PROVE  \E p \in PoolPics(pool) : codec[p] = "lost"
    OBVIOUS
  <2>1. ~ThreadStep
    BY DEF ThreadStep, DestroyNext, StartDisplay, Flush, PrepareFirst, PrepareMore, EndDisplay,
       ReleaseNext, StartCommand, Finish, Choose
  <2>2. PICK p \in Pics : Seize(p)
    BY <2>1 DEF Next, NewBuffer, GetPicture, GiveUp, FixLeaks, FixLeaksEnd, AskFlush, LinkPicture,
       PutPicture, ReleasePicture, LosePicture, AskInput, IsEmpty, IsEmptyEnd, Peek,
       DeleteDecoder, NewDecoder
  <2>3. peeked = None /\ Free = {} /\ Queued = {} /\ asked["decoder"] = "none"
    BY <2>2 DEF Seize, Frugal, Looked, Works
  <2> QED
    BY <2>3, PoolSuffices
<1> QED
  BY <1>1, InvHolds, FrugalHolds, PTL DEF Spec, RobbedOnlyIfLost

\* A decoder short of pictures has some in front of the output, which is to show them
\* and let them go: neither waits for a picture the other one keeps, unless the codec
\* has lost one.
ShortOnlyIfQueued ==
    /\ decoder \in {"want", "empty", "checking"} /\ asked["decoder"] = "none" /\ peeked = None
    /\ Free = {} /\ \A p \in PoolPics(pool) : codec[p] # "lost"
    => fifo # <<>>

\* What DecoderServed rests on: the two references of the output thread and what the
\* decoder may keep never exhaust the pool by themselves.
THEOREM ShortWhileOthersWait == Spec => []ShortOnlyIfQueued
<1>1. IInv /\ Frugal => ShortOnlyIfQueued
  <2>1. fifo = <<>> => Queued = {}
    BY DEF Queued
  <2> QED
    BY <2>1, PoolSuffices DEF ShortOnlyIfQueued
<1> QED
  BY <1>1, InvHolds, FrugalHolds, PTL
=============================================================================
