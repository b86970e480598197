--------------------------- MODULE Snapshot_proofs ---------------------------
(* Proofs about Snapshot, for any finite set of callers and any bounds.      *)
EXTENDS Snapshot, FiniteSetTheorems, TLAPS

IInv == TypeOK /\ Balanced /\ NoForgottenCaller

-----------------------------------------------------------------------------
(* The callers in a call                                                     *)

LEMMA PendingFinite == IsFiniteSet(Pending) /\ Cardinality(Pending) \in Nat
<1>1. Pending \subseteq Callers
  BY DEF Pending
<1> QED
  BY <1>1, CallersFinite, FS_Subset, FS_CardinalityType

\* What the number of calls in progress becomes when one caller moves.
LEMMA OneMoves ==
    ASSUME TypeOK, NEW c \in Callers, NEW s \in {"idle", "loop", "wait"},
           call' = [call EXCEPT ![c] = s]
    PROVE  /\ call[c] = "idle" /\ s # "idle" => Cardinality(Pending') = Cardinality(Pending) + 1
           /\ call[c] # "idle" /\ s = "idle" =>
                 Cardinality(Pending') = Cardinality(Pending) - 1 /\ Cardinality(Pending) > 0
           /\ (call[c] = "idle" <=> s = "idle") => Pending' = Pending
<1>1. call'[c] = s /\ \A d \in Callers \ {c} : call'[d] = call[d]
  BY DEF TypeOK
<1>2. CASE call[c] = "idle" /\ s # "idle"
  <2>1. Pending' = Pending \cup {c} /\ c \notin Pending
    BY <1>1, <1>2 DEF Pending
  <2> QED
    BY <1>2, <2>1, PendingFinite, FS_AddElement
<1>3. CASE call[c] # "idle" /\ s = "idle"
  <2>1. Pending' = Pending \ {c} /\ c \in Pending
    BY <1>1, <1>3 DEF Pending
  <2>2. Cardinality(Pending \ {c}) = Cardinality(Pending) - 1
    BY <2>1, PendingFinite, FS_RemoveElement
  <2>3. Cardinality(Pending \ {c}) \in Nat
    BY PendingFinite, FS_RemoveElement, FS_CardinalityType
  <2> QED
    BY <1>3, <2>1, <2>2, <2>3, PendingFinite
<1>4. CASE call[c] = "idle" <=> s = "idle"
  BY <1>1, <1>4 DEF Pending
<1> QED
  BY <1>2, <1>3, <1>4

\* Waking the callers up leaves them in their calls, none asleep.
LEMMA WakeCallersSteps ==
    ASSUME TypeOK, WakeCallers
    PROVE  call' \in [Callers -> {"idle", "loop", "wait"}] /\ Pending' = Pending /\ Asleep' = {}
BY DEF TypeOK, WakeCallers, Pending, Asleep

-----------------------------------------------------------------------------
(* A pass through the loop                                                   *)

\* Pass in a call that is counted already: count requests and the copies are as
\* many as the calls, this one included.
LEMMA PassSteps ==
    ASSUME TypeOK, NoForgottenCaller, NEW c \in Callers, call[c] # "wait",
           NEW count \in Nat, NEW late \in BOOLEAN, UNCHANGED is_available,
           count + Len(picture) = Cardinality(Pending) + IF call[c] = "idle" THEN 1 ELSE 0,
           Pass(c, count, late)
    PROVE  /\ call' \in [Callers -> {"idle", "loop", "wait"}]
           /\ request_count' \in Nat /\ picture' \in Seq(0..MaxFrames)
           /\ Balanced' /\ NoForgottenCaller'
<1> DEFINE n == Cardinality(Pending)
<1>1. n \in Nat /\ Len(picture) \in Nat
  BY PendingFinite DEF TypeOK
<1>2. CASE MustWait(late)
  <2>1. call' = [call EXCEPT ![c] = "wait"] /\ request_count' = count /\ picture' = picture
    BY <1>2 DEF Pass
  <2>2. is_available /\ picture = <<>>
    BY <1>2 DEF MustWait
  <2>3. Cardinality(Pending') = n + IF call[c] = "idle" THEN 1 ELSE 0
    <3>1. CASE call[c] = "idle"
      BY <2>1, <3>1, OneMoves
    <3>2. CASE call[c] # "idle"
      <4>1. Pending' = Pending
        BY <2>1, <3>2, OneMoves
      <4> QED
        BY <1>1, <3>2, <4>1
    <3> QED
      BY <3>1, <3>2
  <2>4. call' \in [Callers -> {"idle", "loop", "wait"}]
    BY <2>1 DEF TypeOK
  <2>5. Balanced'
    BY <1>1, <2>1, <2>3 DEF Balanced
  <2> QED
    BY <2>1, <2>2, <2>4, <2>5 DEF NoForgottenCaller, TypeOK
<1>3. CASE ~MustWait(late)
  <2>1. call' = [call EXCEPT ![c] = "idle"]
    BY <1>3 DEF Pass
  <2>2. Cardinality(Pending') = IF call[c] = "idle" THEN n ELSE n - 1
    BY <1>1, <2>1, OneMoves
  <2>3. call' \in [Callers -> {"idle", "loop", "wait"}]
    BY <2>1 DEF TypeOK
  <2>4. Asleep' \subseteq Asleep
    BY <2>1 DEF TypeOK, Asleep
  <2>5. call[c] # "idle" => n > 0
    BY <2>1, OneMoves
  <2>6. CASE picture # <<>>
    <3>1. request_count' = count /\ picture' = Tail(picture)
      BY <1>3, <2>6 DEF Pass
    <3>2. Tail(picture) \in Seq(0..MaxFrames) /\ Len(Tail(picture)) = Len(picture) - 1
      BY <2>6 DEF TypeOK
    <3>3. Asleep' = {}
      BY <2>4, <2>6 DEF NoForgottenCaller
    <3>4. Balanced'
      BY <1>1, <2>2, <3>1, <3>2 DEF Balanced
    <3> QED
      BY <2>3, <3>1, <3>2, <3>3, <3>4 DEF NoForgottenCaller
  <2>7. CASE picture = <<>>
    <3>1. request_count' = TakeBack(count) /\ picture' = picture /\ Len(picture) = 0
      BY <1>3, <2>7 DEF Pass
    <3>2. count > 0
      BY <1>1, <2>5, <3>1
    <3>3. request_count' = count - 1
      BY <3>1, <3>2 DEF TakeBack
    <3>4. Balanced'
      BY <1>1, <2>2, <3>1, <3>3 DEF Balanced
    <3>5. NoForgottenCaller'
      BY <2>4, <3>1 DEF NoForgottenCaller
    <3> QED
      BY <2>3, <3>1, <3>2, <3>3, <3>4, <3>5 DEF TypeOK
  <2> QED
    BY <2>6, <2>7
<1> QED
  BY <1>2, <1>3

-----------------------------------------------------------------------------
(* Preservation                                                              *)

LEMMA InitInv == Init => IInv
<1> SUFFICES ASSUME Init PROVE IInv
  OBVIOUS
<1>1. Pending = {} /\ Asleep = {}
  BY DEF Init, Pending, Asleep
<1>2. <<>> \in Seq(0..MaxFrames) /\ Len(<<>>) = 0 /\ 0 \in 0..MaxCalls /\ 0 \in 0..MaxFrames
  BY BoundsAreNat
<1>3. TypeOK
  BY <1>2 DEF Init, TypeOK
<1>4. Balanced
  <2>1. Cardinality(Pending) = 0
    BY <1>1, FS_EmptySet
  <2>2. request_count = 0 /\ Len(picture) = 0
    BY DEF Init
  <2> QED
    BY <2>1, <2>2 DEF Balanced
<1>5. NoForgottenCaller
  BY <1>1 DEF NoForgottenCaller
<1> QED
  BY <1>3, <1>4, <1>5 DEF IInv

LEMMA NextInv == IInv /\ [Next]_vars => IInv'
<1> SUFFICES ASSUME IInv, [Next]_vars PROVE IInv'
  OBVIOUS
<1> USE DEF IInv
<1>1. ASSUME NEW c \in Callers, Get(c) PROVE IInv'
  <2>1. PICK late \in BOOLEAN : Pass(c, request_count + 1, late)
    BY <1>1 DEF Get
  <2>2. request_count + 1 \in Nat /\ call[c] = "idle"
    BY <1>1 DEF Get, TypeOK
  <2>3. request_count + 1 + Len(picture) = Cardinality(Pending) + 1
    BY PendingFinite DEF Balanced, TypeOK
  <2>4. /\ call' \in [Callers -> {"idle", "loop", "wait"}]
        /\ request_count' \in Nat /\ picture' \in Seq(0..MaxFrames)
        /\ Balanced' /\ NoForgottenCaller'
    BY <1>1, <2>1, <2>2, <2>3, PassSteps DEF Get
  <2>5. calls' \in [Callers -> 0..MaxCalls]
    BY <1>1, BoundsAreNat DEF Get, TypeOK
  <2> QED
    BY <1>1, <2>4, <2>5 DEF Get, TypeOK
<1>2. ASSUME NEW c \in Callers, GetAgain(c) PROVE IInv'
  <2>1. request_count \in Nat /\ call[c] = "loop" /\ (c \in expired) \in BOOLEAN
    BY <1>2 DEF GetAgain, TypeOK
  <2>2. request_count + Len(picture) = Cardinality(Pending) + 0
    BY PendingFinite DEF Balanced, TypeOK
  <2>3. /\ call' \in [Callers -> {"idle", "loop", "wait"}]
        /\ request_count' \in Nat /\ picture' \in Seq(0..MaxFrames)
        /\ Balanced' /\ NoForgottenCaller'
    BY <1>2, <2>1, <2>2, PassSteps DEF GetAgain
  <2> QED
    BY <1>2, <2>3 DEF GetAgain, TypeOK
<1>3. ASSUME NEW c \in Callers, Expire(c) PROVE IInv'
  BY <1>3 DEF Expire, TypeOK, Balanced, NoForgottenCaller, Pending, Asleep
<1>4. ASSUME NEW c \in Callers, WaitReturns(c) PROVE IInv'
  <2>1. Pending' = Pending /\ Asleep' \subseteq Asleep
    BY <1>4 DEF WaitReturns, TypeOK, Pending, Asleep
  <2>2. TypeOK'
    BY <1>4 DEF WaitReturns, TypeOK
  <2> QED
    BY <1>4, <2>1, <2>2 DEF WaitReturns, Balanced, NoForgottenCaller
<1>5. CASE IsRequested
  BY <1>5, BoundsAreNat DEF IsRequested, TypeOK, Balanced, NoForgottenCaller, Pending, Asleep
<1>6. CASE Set
  <2>1. PICK n \in 0..request_count :
           picture' = [i \in 1..n |-> frame] \o picture /\ request_count' = request_count - n
    BY <1>6 DEF Set
  <2>2. n \in Nat /\ request_count - n \in Nat /\ request_count \in Nat /\ Len(picture) \in Nat
    BY <2>1 DEF TypeOK
  <2> DEFINE copies == [i \in 1..n |-> frame]
  <2>3. copies \in Seq(0..MaxFrames) /\ Len(copies) = n
    BY <2>2 DEF TypeOK
  <2>4. copies \o picture \in Seq(0..MaxFrames) /\ Len(copies \o picture) = n + Len(picture)
    BY <2>2, <2>3 DEF TypeOK
  <2> HIDE DEF copies
  <2>5. picture' \in Seq(0..MaxFrames) /\ Len(picture') = n + Len(picture)
    BY <2>1, <2>4 DEF copies
  <2>6. /\ call' \in [Callers -> {"idle", "loop", "wait"}]
        /\ Pending' = Pending /\ Asleep' = {}
    BY <1>6, WakeCallersSteps DEF Set
  <2>7. Balanced'
    BY <2>1, <2>2, <2>5, <2>6, PendingFinite DEF Balanced
  <2>8. TypeOK'
    BY <1>6, <2>1, <2>2, <2>5, <2>6 DEF Set, TypeOK
  <2> QED
    BY <2>6, <2>7, <2>8 DEF NoForgottenCaller
<1>7. CASE RenderFails
  BY <1>7 DEF RenderFails, TypeOK, Balanced, NoForgottenCaller, Pending, Asleep
<1>8. CASE End
  <2>1. /\ call' \in [Callers -> {"idle", "loop", "wait"}]
        /\ Pending' = Pending /\ Asleep' = {}
    BY <1>8, WakeCallersSteps DEF End
  <2> QED
    BY <1>8, <2>1 DEF End, TypeOK, Balanced, NoForgottenCaller
<1>9. CASE Clean
  <2>1. Cardinality(Pending) = 0
    BY <1>9, FS_EmptySet DEF Clean
  <2>2. Len(picture) = 0
    BY <2>1 DEF Balanced, TypeOK
  <2>3. picture' = <<>> /\ Len(<<>>) = 0 /\ <<>> \in Seq(0..MaxFrames)
    BY <1>9 DEF Clean
  <2>4. Pending' = Pending /\ Asleep' = {}
    BY <1>9 DEF Clean, Pending, Asleep
  <2>5. Balanced'
    BY <1>9, <2>2, <2>3, <2>4 DEF Clean, Balanced
  <2>6. TypeOK'
    BY <1>9, <2>3 DEF Clean, TypeOK
  <2> QED
    BY <2>4, <2>5, <2>6 DEF NoForgottenCaller
<1>10. CASE UNCHANGED vars
  BY <1>10 DEF vars, TypeOK, Balanced, NoForgottenCaller, Pending, Asleep
<1> QED
  BY <1>1, <1>2, <1>3, <1>4, <1>5, <1>6, <1>7, <1>8, <1>9, <1>10 DEF Next

LEMMA Inductive == Spec => []IInv
  BY InitInv, NextInv, PTL DEF Spec

-----------------------------------------------------------------------------
(* Theorems                                                                  *)

\* In particular the count of requests never wraps below zero.
THEOREM TypeCorrect == Spec => []TypeOK
<1>1. IInv => TypeOK
  BY DEF IInv
<1> QED
  BY <1>1, Inductive, PTL

\* Requests and copies match the calls in progress, whatever the order of
\* vout_snapshot_Set and of the deadlines.
THEOREM NothingLeftOver == Spec => []Balanced
<1>1. IInv => Balanced
  BY DEF IInv
<1> QED
  BY <1>1, Inductive, PTL

\* vout_snapshot_Get never sleeps on a copy or on an output being closed.
THEOREM NoCallerForgotten == Spec => []NoForgottenCaller
<1>1. IInv => NoForgottenCaller
  BY DEF IInv
<1> QED
  BY <1>1, Inductive, PTL
=============================================================================
