------------------------- MODULE VoutControl_proofs -------------------------
(* Proofs about VoutControl, for any clients, decoders and bounds.           *)
EXTENDS VoutControl, TLAPS

\* The command a client waits for, while the output lives, is executed, running
\* or still in the queue.
CommandsUnderWay ==
    ~is_dead => \A c \in Clients : mine[c] = 0 \/ mine[c] \in executed \cup Queued \cup Running

\* Whenever the thread may sleep, it has looked at every picture, or a decoder
\* has still to wake it up; a thread asleep has nothing in its queue.
Watchful ==
    /\ can_sleep /\ thread # "display" => seen = put \/ \E d \in Decoders : decoder[d] = "put"
    /\ thread = "wait" => can_sleep /\ cmd = <<>>

\* Each command is in one place only.
OnePlace ==
    /\ Queued \cap (executed \cup cleaned \cup Running) = {}
    /\ Running \cap (executed \cup cleaned) = {}
    /\ \A i, j \in DOMAIN cmd : cmd[i] = cmd[j] => i = j

\* The thread is gone exactly when the output is dead.
ExitedIsDead == is_dead <=> thread = "exited"

IInv ==
    /\ TypeOK /\ ExitedIsDead
    /\ CommandsUnderWay /\ ExecutedOnReturn
    /\ NobodyWaitsForTheDead
    /\ Watchful
    /\ OnePlace /\ CommandsAccounted

-----------------------------------------------------------------------------
(* Queues                                                                    *)

LEMMA AppendElements ==
    ASSUME NEW S, NEW s \in Seq(S), NEW e \in S
    PROVE  LET t == Append(s, e) IN {t[i] : i \in DOMAIN t} = {s[i] : i \in DOMAIN s} \cup {e}
<1> DEFINE t == Append(s, e)
<1>1. t \in Seq(S) /\ Len(t) = Len(s) + 1 /\ Len(s) \in Nat
  OBVIOUS
<1>2. DOMAIN t = 1..(Len(s) + 1) /\ DOMAIN s = 1..Len(s)
  BY <1>1
<1>3. \A i \in 1..Len(s) : t[i] = s[i]
  OBVIOUS
<1>4. t[Len(s) + 1] = e
  OBVIOUS
<1> HIDE DEF t
<1>5. ASSUME NEW i \in DOMAIN t PROVE t[i] \in {s[k] : k \in DOMAIN s} \cup {e}
  BY <1>1, <1>2, <1>3, <1>4
<1>6. ASSUME NEW i \in DOMAIN s PROVE s[i] \in {t[k] : k \in DOMAIN t}
  BY <1>1, <1>2, <1>3
<1>7. e \in {t[k] : k \in DOMAIN t}
  BY <1>1, <1>2, <1>4
<1>8. {t[i] : i \in DOMAIN t} = {s[i] : i \in DOMAIN s} \cup {e}
  BY <1>5, <1>6, <1>7
<1> QED
  BY <1>8 DEF t

LEMMA TailElements ==
    ASSUME NEW S, NEW s \in Seq(S), s # <<>>
    PROVE  /\ Head(s) \in S /\ Tail(s) \in Seq(S)
           /\ {s[i] : i \in DOMAIN s} = {Head(s)} \cup {Tail(s)[i] : i \in DOMAIN Tail(s)}
           /\ Head(s) = s[1] /\ 1 \in DOMAIN s
           /\ \A i \in DOMAIN Tail(s) : i + 1 \in DOMAIN s /\ Tail(s)[i] = s[i + 1]
           /\ DOMAIN Tail(s) \subseteq Nat \ {0}
<1> DEFINE t == Tail(s)
<1>1. t \in Seq(S) /\ Len(t) = Len(s) - 1 /\ Len(s) \in Nat \ {0} /\ Head(s) = s[1] /\ s[1] \in S
  OBVIOUS
<1>2. DOMAIN t = 1..(Len(s) - 1) /\ DOMAIN s = 1..Len(s)
  BY <1>1
<1>3. \A i \in 1..(Len(s) - 1) : t[i] = s[i + 1]
  OBVIOUS
<1> HIDE DEF t
<1>4. ASSUME NEW i \in DOMAIN s PROVE s[i] \in {s[1]} \cup {t[k] : k \in DOMAIN t}
  <2>1. CASE i = 1
    BY <2>1
  <2>2. CASE i # 1
    <3>1. i - 1 \in DOMAIN t /\ t[i - 1] = s[i]
      BY <1>1, <1>2, <1>3, <2>2
    <3> QED
      BY <3>1
  <2> QED
    BY <2>1, <2>2
<1>5. ASSUME NEW i \in DOMAIN t PROVE i + 1 \in DOMAIN s /\ t[i] = s[i + 1]
  BY <1>1, <1>2, <1>3
<1>6. 1 \in DOMAIN s
  BY <1>1, <1>2
<1>7. {s[i] : i \in DOMAIN s} = {s[1]} \cup {t[i] : i \in DOMAIN t}
  BY <1>4, <1>5, <1>6
<1>8. DOMAIN t \subseteq Nat \ {0}
  BY <1>1, <1>2
<1> QED
  BY <1>1, <1>5, <1>6, <1>7, <1>8 DEF t

-----------------------------------------------------------------------------
(* What the shared steps do                                                  *)

LEMMA PushSteps ==
    ASSUME TypeOK, NEW o \in Outcomes, Push(o)
    PROVE  /\ cmd' \in Seq(Ids) /\ outcome' \in [Ids -> Outcomes]
           /\ sent' = sent + 1 /\ sent' \in Ids
           /\ cleaned' \subseteq Ids
           /\ \/ is_dead /\ cmd' = cmd /\ thread' = thread /\ cleaned' = cleaned \cup {sent + 1}
              \/ ~is_dead /\ cmd' = Append(cmd, sent + 1) /\ cleaned' = cleaned
                 /\ thread' = IF thread = "wait" THEN "woken" ELSE thread
<1>1. sent + 1 \in Ids
  BY BoundsAreNat DEF TypeOK, Push, Ids
<1>2. outcome' \in [Ids -> Outcomes] /\ sent' = sent + 1
  BY <1>1 DEF TypeOK, Push
<1>3. CASE is_dead
  BY <1>1, <1>2, <1>3 DEF TypeOK, Push
<1>4. CASE ~is_dead
  <2>1. Append(cmd, sent + 1) \in Seq(Ids)
    BY <1>1 DEF TypeOK
  <2> QED
    BY <1>1, <1>2, <1>4, <2>1 DEF TypeOK, Push, SignalThread
<1> QED
  BY <1>3, <1>4

LEMMA TakeSteps ==
    ASSUME TypeOK, Take
    PROVE  \/ /\ cmd # <<>> /\ current' = Head(cmd) /\ cmd' = Tail(cmd)
              /\ current' \in Ids /\ cmd' \in Seq(Ids)
              /\ is_processing' = TRUE /\ thread' = "exec" /\ can_sleep' = can_sleep
           \/ /\ cmd = <<>> /\ can_sleep' = TRUE /\ thread' = "display"
              /\ current' = current /\ cmd' = cmd
<1>1. CASE cmd # <<>>
  <2>1. cmd \in Seq(Ids)
    BY DEF TypeOK
  <2>2. Head(cmd) \in Ids /\ Tail(cmd) \in Seq(Ids)
    BY <1>1, <2>1, TailElements
  <2> QED
    BY <1>1, <2>2 DEF Take
<1>2. CASE cmd = <<>>
  BY <1>2 DEF Take
<1> QED
  BY <1>1, <1>2

LEMMA PushTypes ==
    ASSUME TypeOK, NEW o \in Outcomes, Push(o)
    PROVE  /\ cmd' \in Seq(Ids) /\ outcome' \in [Ids -> Outcomes]
           /\ sent' \in 0..MaxCommands /\ cleaned' \subseteq Ids
           /\ thread' \in {"pop", "wait", "woken", "exec", "display", "exited"}
           /\ thread' = "exec" => thread = "exec"
<1>1. sent' \in 0..MaxCommands
  BY PushSteps, BoundsAreNat DEF TypeOK, Ids
<1> QED
  BY <1>1, PushSteps DEF TypeOK

LEMMA TakeTypes ==
    ASSUME TypeOK, Take
    PROVE  /\ cmd' \in Seq(Ids) /\ current' \in 0..MaxCommands /\ can_sleep' \in BOOLEAN
           /\ thread' \in {"exec", "display"}
           /\ thread' = "exec" => cmd # <<>> /\ current' # 0 /\ is_processing' = TRUE
           /\ thread' = "display" => cmd = <<>>
<1>1. \A i \in Ids : i \in 0..MaxCommands /\ i # 0
  BY BoundsAreNat DEF Ids
<1> QED
  BY <1>1, TakeSteps DEF TypeOK

-----------------------------------------------------------------------------
(* Types                                                                     *)

LEMMA InitType == Init => TypeOK
<1> SUFFICES ASSUME Init PROVE TypeOK
  OBVIOUS
<1>1. 1 \in Ids
  BY BoundsAreNat DEF Ids
<1>2. cmd \in Seq(Ids) /\ sent \in 0..MaxCommands
  <2>1. <<1>> \in Seq(Ids)
    BY <1>1
  <2>2. 1 \in 0..MaxCommands
    BY BoundsAreNat
  <2> QED
    BY <2>1, <2>2 DEF Init
<1>3. outcome \in [Ids -> Outcomes]
  BY DEF Init, Outcomes
<1>4. client \in [Clients -> {"idle", "pushed", "wait", "woken"}]
  BY DEF Init
<1>5. mine \in [Clients -> 0..MaxCommands] /\ current \in 0..MaxCommands
  <2>1. 0 \in 0..MaxCommands /\ 1 \in 0..MaxCommands
    BY BoundsAreNat
  <2> QED
    BY <2>1 DEF Init
<1>6. put \in 0..MaxPictures /\ seen \in 0..put
  <2>1. 0 \in 0..MaxPictures /\ 0 \in 0..0
    BY BoundsAreNat
  <2> QED
    BY <2>1 DEF Init
<1>7. /\ executed \subseteq Ids /\ cleaned \subseteq Ids /\ closing \in BOOLEAN
      /\ is_dead \in BOOLEAN /\ can_sleep \in BOOLEAN /\ is_processing \in BOOLEAN
      /\ decoder \in [Decoders -> {"idle", "put"}] /\ thread = "pop"
  BY DEF Init
<1> QED
  BY <1>2, <1>3, <1>4, <1>5, <1>6, <1>7 DEF TypeOK

LEMMA NextType == TypeOK /\ [Next]_vars => TypeOK'
<1> SUFFICES ASSUME TypeOK, [Next]_vars PROVE TypeOK'
  OBVIOUS
<1>1. ASSUME NEW c \in Clients, Send(c) PROVE TypeOK'
  <2>1. "go on" \in Outcomes /\ Push("go on")
    BY <1>1 DEF Send, Outcomes
  <2> QED
    BY <1>1, <2>1, PushTypes DEF TypeOK, Send
<1>2. ASSUME NEW c \in Clients, SendAndWait(c) PROVE TypeOK'
  <2>1. PICK o \in Outcomes : Push(o)
    BY <1>2 DEF SendAndWait
  <2>2. client' \in [Clients -> {"idle", "pushed", "wait", "woken"}]
    BY <1>2 DEF TypeOK, SendAndWait
  <2>3. mine' \in [Clients -> 0..MaxCommands]
    BY <1>2, <2>1, PushSteps DEF TypeOK, SendAndWait, Ids
  <2> QED
    BY <1>2, <2>1, <2>2, <2>3, PushTypes DEF TypeOK, SendAndWait
<1>3. ASSUME NEW c \in Clients, WaitEmpty(c) PROVE TypeOK'
  BY <1>3 DEF TypeOK, WaitEmpty, queue
<1>4. ASSUME NEW c \in Clients, Close(c) PROVE TypeOK'
  <2>1. "end" \in Outcomes /\ Push("end")
    BY <1>4 DEF Close, Outcomes
  <2> QED
    BY <1>4, <2>1, PushTypes DEF TypeOK, Close
<1>5. ASSUME NEW d \in Decoders, PutPicture(d) PROVE TypeOK'
  BY <1>5, BoundsAreNat DEF TypeOK, PutPicture, queue
<1>6. ASSUME NEW d \in Decoders, Wake(d) PROVE TypeOK'
  BY <1>6 DEF TypeOK, Wake, NoSleep, SignalThread
<1>7. CASE PopEmpty
  <2>1. client' \in [Clients -> {"idle", "pushed", "wait", "woken"}]
    BY <1>7 DEF TypeOK, PopEmpty, AcknowledgeAll
  <2>2. CASE can_sleep
    BY <1>7, <2>1, <2>2 DEF TypeOK, PopEmpty
  <2>3. CASE ~can_sleep
    BY <1>7, <2>1, <2>3, TakeTypes DEF TypeOK, PopEmpty
  <2> QED
    BY <2>2, <2>3
<1>8. CASE PopTake
  BY <1>8, TakeTypes DEF TypeOK, PopTake
<1>9. CASE TimedWaitEnds
  BY <1>9 DEF TypeOK, TimedWaitEnds, queue
<1>10. CASE Exec
  <2>1. client' \in [Clients -> {"idle", "pushed", "wait", "woken"}]
    BY <1>10 DEF TypeOK, Exec, AcknowledgeAll
  <2>2. executed' \subseteq Ids
    BY <1>10, BoundsAreNat DEF TypeOK, Exec, Ids
  <2> QED
    BY <1>10, <2>1, <2>2 DEF TypeOK, Exec
<1>11. CASE Display
  BY <1>11, BoundsAreNat DEF TypeOK, Display, queue
<1>12. CASE Clean
  BY <1>12 DEF TypeOK, Clean, Queued
<1>13. CASE UNCHANGED vars
  BY <1>13 DEF TypeOK, vars, queue
<1> QED
  BY <1>1, <1>2, <1>3, <1>4, <1>5, <1>6, <1>7, <1>8, <1>9, <1>10, <1>11, <1>12, <1>13 DEF Next

-----------------------------------------------------------------------------
(* How commands move                                                         *)

Stay == UNCHANGED <<executed, cleaned, sent>> /\ Queued' = Queued /\ Running' = Running

Enter ==
    /\ sent' = sent + 1 /\ Running' = Running /\ executed' = executed
    /\ \/ ~is_dead /\ Queued' = Queued \cup {sent + 1} /\ cleaned' = cleaned
          /\ cmd' = Append(cmd, sent + 1)
       \/ is_dead /\ Queued' = Queued /\ cleaned' = cleaned \cup {sent + 1} /\ cmd' = cmd

Start ==
    /\ UNCHANGED <<executed, cleaned, sent>> /\ is_processing' = TRUE
    /\ cmd # <<>> /\ cmd' = Tail(cmd) /\ Running = {} /\ Running' = {Head(cmd)}
    /\ Queued = {Head(cmd)} \cup Queued'

Finish ==
    /\ UNCHANGED <<cleaned, sent, cmd>>
    /\ Running = {current} /\ executed' = executed \cup {current} /\ Running' = {}
    /\ Queued' = Queued

Discard ==
    /\ UNCHANGED <<executed, sent>> /\ Running' = Running /\ is_dead
    /\ cleaned' = cleaned \cup Queued /\ Queued' = {} /\ cmd' = <<>>

LEMMA PushEnters ==
    ASSUME TypeOK, NEW o \in Outcomes, Push(o), UNCHANGED <<executed, current>>
    PROVE  Enter
<1>1. sent + 1 \in Ids /\ cmd \in Seq(Ids)
  BY BoundsAreNat DEF TypeOK, Push, Ids
<1>2. Running' = Running
  BY PushSteps DEF Running
<1>3. CASE is_dead
  BY <1>2, <1>3, PushSteps DEF Enter, Queued
<1>4. CASE ~is_dead
  <2>1. cmd' = Append(cmd, sent + 1)
    BY <1>4, PushSteps
  <2>2. Queued' = Queued \cup {sent + 1}
    BY <1>1, <2>1, AppendElements DEF Queued
  <2> QED
    BY <1>2, <1>4, <2>1, <2>2, PushSteps DEF Enter
<1> QED
  BY <1>3, <1>4

LEMMA TakeStarts ==
    ASSUME TypeOK, Take, thread # "exec", UNCHANGED <<executed, cleaned, sent>>
    PROVE  Start \/ (Stay /\ cmd' = cmd)
<1>1. CASE cmd # <<>>
  <2>1. cmd' = Tail(cmd) /\ current' = Head(cmd) /\ thread' = "exec" /\ is_processing' = TRUE
    BY <1>1, TakeSteps
  <2>2. cmd \in Seq(Ids)
    BY DEF TypeOK
  <2>3. Queued = {Head(cmd)} \cup Queued'
    BY <1>1, <2>1, <2>2, TailElements DEF Queued
  <2> QED
    BY <1>1, <2>1, <2>3 DEF Start, Running
<1>2. CASE cmd = <<>>
  BY <1>2, TakeSteps DEF Stay, Running, Queued
<1> QED
  BY <1>1, <1>2

LEMMA Moves ==
    ASSUME TypeOK, ExitedIsDead, [Next]_vars
    PROVE  Enter \/ Start \/ Finish \/ Discard \/ (Stay /\ cmd' = cmd)
<1> USE DEF Stay, Queued, Running
<1>1. ASSUME NEW c \in Clients, Send(c) PROVE Enter
  BY <1>1, PushEnters DEF Send, Outcomes
<1>2. ASSUME NEW c \in Clients, SendAndWait(c) PROVE Enter
  BY <1>2, PushEnters DEF SendAndWait
<1>3. ASSUME NEW c \in Clients, WaitEmpty(c) PROVE Stay /\ cmd' = cmd
  BY <1>3 DEF WaitEmpty, queue
<1>4. ASSUME NEW c \in Clients, Close(c) PROVE Enter
  BY <1>4, PushEnters DEF Close, Outcomes
<1>5. ASSUME NEW d \in Decoders, PutPicture(d) PROVE Stay /\ cmd' = cmd
  BY <1>5 DEF PutPicture, queue
<1>6. ASSUME NEW d \in Decoders, Wake(d) PROVE Stay /\ cmd' = cmd
  BY <1>6 DEF Wake, SignalThread
<1>7. CASE PopEmpty
  <2>1. CASE can_sleep
    BY <1>7, <2>1 DEF PopEmpty
  <2>2. CASE ~can_sleep
    BY <1>7, <2>2, TakeStarts DEF PopEmpty
  <2> QED
    BY <2>1, <2>2
<1>8. CASE PopTake
  BY <1>8, TakeStarts DEF PopTake
<1>9. CASE TimedWaitEnds
  BY <1>9 DEF TimedWaitEnds, queue
<1>10. CASE Exec
  BY <1>10 DEF Exec, Finish
<1>11. CASE Display
  BY <1>11 DEF Display, queue
<1>12. CASE Clean
  <2>1. Queued' = {}
    BY <1>12 DEF Clean
  <2> QED
    BY <1>12, <2>1 DEF Clean, Discard, ExitedIsDead
<1>13. CASE UNCHANGED vars
  BY <1>13 DEF vars, queue
<1> QED
  BY <1>1, <1>2, <1>3, <1>4, <1>5, <1>6, <1>7, <1>8, <1>9, <1>10, <1>11, <1>12, <1>13 DEF Next

-----------------------------------------------------------------------------
(* Preservation                                                              *)

LEMMA NextExited == TypeOK /\ ExitedIsDead /\ [Next]_vars => ExitedIsDead'
<1> SUFFICES ASSUME TypeOK, ExitedIsDead, [Next]_vars PROVE ExitedIsDead'
  OBVIOUS
<1> USE DEF ExitedIsDead
<1>1. ASSUME NEW o \in Outcomes, Push(o), is_dead' = is_dead PROVE ExitedIsDead'
  BY <1>1, PushSteps
<1>2. ASSUME NEW c \in Clients, Send(c) \/ SendAndWait(c) \/ Close(c) PROVE ExitedIsDead'
  BY <1>1, <1>2 DEF Send, SendAndWait, Close, Outcomes
<1>3. ASSUME NEW c \in Clients, WaitEmpty(c) PROVE ExitedIsDead'
  BY <1>3 DEF WaitEmpty, queue
<1>4. ASSUME NEW d \in Decoders, PutPicture(d) \/ Wake(d) PROVE ExitedIsDead'
  BY <1>4 DEF PutPicture, Wake, SignalThread, queue
<1>5. CASE PopEmpty
  BY <1>5, TakeTypes DEF PopEmpty
<1>6. CASE PopTake
  BY <1>6, TakeTypes DEF PopTake
<1>7. CASE TimedWaitEnds \/ Display \/ Clean
  BY <1>7 DEF TimedWaitEnds, Display, Clean, queue
<1>8. CASE Exec
  BY <1>8 DEF Exec
<1>9. CASE UNCHANGED vars
  BY <1>9 DEF vars, queue
<1> QED
  BY <1>2, <1>3, <1>4, <1>5, <1>6, <1>7, <1>8, <1>9 DEF Next

\* Only the death of the output changes is_dead, and it leaves no client waiting.
LEMMA NextNobodyWaits == TypeOK /\ NobodyWaitsForTheDead /\ [Next]_vars => NobodyWaitsForTheDead'
<1> SUFFICES ASSUME TypeOK, NobodyWaitsForTheDead, [Next]_vars PROVE NobodyWaitsForTheDead'
  OBVIOUS
<1> USE DEF NobodyWaitsForTheDead, TypeOK
<1>1. ASSUME NEW c \in Clients, Send(c) PROVE NobodyWaitsForTheDead'
  BY <1>1 DEF Send
<1>2. ASSUME NEW c \in Clients, SendAndWait(c) PROVE NobodyWaitsForTheDead'
  BY <1>2 DEF SendAndWait
<1>3. ASSUME NEW c \in Clients, WaitEmpty(c) PROVE NobodyWaitsForTheDead'
  BY <1>3 DEF WaitEmpty, queue
<1>4. ASSUME NEW c \in Clients, Close(c) PROVE NobodyWaitsForTheDead'
  BY <1>4 DEF Close
<1>5. ASSUME NEW d \in Decoders, PutPicture(d) \/ Wake(d) PROVE NobodyWaitsForTheDead'
  BY <1>5 DEF PutPicture, Wake, queue
<1>6. CASE PopEmpty
  BY <1>6 DEF PopEmpty, AcknowledgeAll
<1>7. CASE PopTake \/ TimedWaitEnds \/ Display \/ Clean
  BY <1>7 DEF PopTake, TimedWaitEnds, Display, Clean, queue
<1>8. CASE Exec
  BY <1>8 DEF Exec, AcknowledgeAll
<1>9. CASE UNCHANGED vars
  BY <1>9 DEF vars, queue
<1> QED
  BY <1>1, <1>2, <1>3, <1>4, <1>5, <1>6, <1>7, <1>8, <1>9 DEF Next

\* A client that ceases to wait has seen an empty queue and no command running.
LEMMA WaitEmptySeesAll ==
    ASSUME IInv, NEW c \in Clients, WaitEmpty(c), client'[c] = "idle"
    PROVE  is_dead \/ mine[c] = 0 \/ mine[c] \in executed
<1>1. is_dead \/ ~Busy
  BY DEF IInv, TypeOK, WaitEmpty
<1>2. ~Busy => Queued = {} /\ Running = {}
  BY DEF IInv, TypeOK, Busy, Queued, Running
<1> QED
  BY <1>1, <1>2 DEF IInv, CommandsUnderWay

LEMMA NextUnderWay == IInv /\ TypeOK' /\ [Next]_vars => CommandsUnderWay'
<1> SUFFICES ASSUME IInv, TypeOK', [Next]_vars, ~is_dead',
                    NEW c \in Clients, mine'[c] # 0
             PROVE  mine'[c] \in executed' \cup Queued' \cup Running'
  BY DEF CommandsUnderWay
<1>1. ~is_dead
  <2>1. is_dead => is_dead'
    BY DEF Next, Send, SendAndWait, WaitEmpty, Close, PutPicture, Wake, PopEmpty, PopTake,
           TimedWaitEnds, Exec, Display, Clean, vars, queue
  <2> QED
    BY <2>1
<1>2. Enter \/ Start \/ Finish \/ (Stay /\ cmd' = cmd)
  BY <1>1, Moves DEF IInv, Discard
<1>3. executed \cup Queued \cup Running \subseteq executed' \cup Queued' \cup Running'
  BY <1>1, <1>2 DEF Enter, Start, Finish, Stay
<1>4. mine'[c] = mine[c] \/ (Enter /\ mine'[c] = sent + 1)
  <2>1. mine' = mine \/ \E d \in Clients : SendAndWait(d)
    BY DEF Next, Send, WaitEmpty, Close, PutPicture, Wake, PopEmpty, PopTake,
           TimedWaitEnds, Exec, Display, Clean, vars, queue
  <2>2. ASSUME NEW d \in Clients, SendAndWait(d)
        PROVE  mine'[c] = mine[c] \/ (Enter /\ mine'[c] = sent + 1)
    <3>1. Enter
      BY <2>2, PushEnters DEF SendAndWait, IInv
    <3>2. mine' = [mine EXCEPT ![d] = sent + 1] /\ mine \in [Clients -> 0..MaxCommands]
      BY <2>2 DEF SendAndWait, IInv, TypeOK
    <3> QED
      BY <3>1, <3>2
  <2> QED
    BY <2>1, <2>2
<1>5. CASE mine'[c] = mine[c]
  BY <1>1, <1>3, <1>5 DEF IInv, CommandsUnderWay
<1>6. CASE Enter /\ mine'[c] = sent + 1
  BY <1>1, <1>6 DEF Enter
<1> QED
  BY <1>4, <1>5, <1>6

LEMMA NextExecuted == IInv /\ TypeOK' /\ [Next]_vars => ExecutedOnReturn'
<1> SUFFICES ASSUME IInv, TypeOK', [Next]_vars,
                    NEW c \in Clients, client'[c] = "idle", mine'[c] # 0
             PROVE  mine'[c] \in executed' \/ is_dead'
  BY DEF ExecutedOnReturn
<1>1. executed \subseteq executed'
  BY Moves DEF IInv, Enter, Start, Finish, Discard, Stay
<1>2. is_dead => is_dead'
  BY DEF Next, Send, SendAndWait, WaitEmpty, Close, PutPicture, Wake, PopEmpty, PopTake,
         TimedWaitEnds, Exec, Display, Clean, vars, queue
<1>3. mine'[c] = mine[c]
  BY DEF Next, Send, SendAndWait, WaitEmpty, Close, PutPicture, Wake, PopEmpty, PopTake,
         TimedWaitEnds, Exec, Display, Clean, vars, queue, IInv, TypeOK
<1>4. CASE client[c] = "idle"
  BY <1>1, <1>2, <1>3, <1>4 DEF IInv, ExecutedOnReturn
<1>5. CASE client[c] # "idle"
  <2>1. \A d \in Clients : WaitEmpty(d) /\ d # c => client'[c] = client[c]
    BY DEF WaitEmpty, IInv, TypeOK
  <2>2. WaitEmpty(c)
    BY <1>5, <2>1 DEF Next, Send, SendAndWait, Close, PutPicture, Wake, PopEmpty, PopTake,
         TimedWaitEnds, Exec, Display, Clean, vars, queue, AcknowledgeAll, IInv, TypeOK
  <2> QED
    BY <1>1, <1>2, <1>3, <2>2, WaitEmptySeesAll
<1> QED
  BY <1>4, <1>5

LEMMA NextWatchful == TypeOK /\ Watchful /\ [Next]_vars => Watchful'
<1> SUFFICES ASSUME TypeOK, Watchful, [Next]_vars PROVE Watchful'
  OBVIOUS
<1> USE DEF Watchful
<1>1. ASSUME NEW o \in Outcomes, Push(o), UNCHANGED <<can_sleep, decoder, put, seen>>
      PROVE  Watchful'
  BY <1>1, PushSteps
<1>2. ASSUME NEW c \in Clients, Send(c) \/ SendAndWait(c) \/ Close(c) PROVE Watchful'
  BY <1>1, <1>2 DEF Send, SendAndWait, Close, Outcomes
<1>3. ASSUME NEW c \in Clients, WaitEmpty(c) PROVE Watchful'
  BY <1>3 DEF WaitEmpty, queue
<1>4. ASSUME NEW d \in Decoders, PutPicture(d) PROVE Watchful'
  <2>1. decoder'[d] = "put"
    BY <1>4 DEF PutPicture, TypeOK
  <2> QED
    BY <1>4, <2>1 DEF PutPicture, queue
<1>5. ASSUME NEW d \in Decoders, Wake(d) PROVE Watchful'
  BY <1>5 DEF Wake, SignalThread, NoSleep
<1>6. CASE PopEmpty
  BY <1>6, TakeSteps DEF PopEmpty
<1>7. CASE PopTake
  <2>1. UNCHANGED <<decoder, put, seen>> /\ thread \in {"woken", "pop"}
    BY <1>7 DEF PopTake
  <2>2. thread' = "display" \/ (thread' = "exec" /\ can_sleep' = can_sleep)
    BY <1>7, TakeSteps DEF PopTake
  <2> QED
    BY <2>1, <2>2
<1>8. CASE TimedWaitEnds \/ Clean
  BY <1>8 DEF TimedWaitEnds, Clean, queue
<1>9. CASE Display
  BY <1>9 DEF Display, queue
<1>10. CASE Exec
  BY <1>10 DEF Exec
<1>11. CASE UNCHANGED vars
  BY <1>11 DEF vars, queue
<1> QED
  BY <1>2, <1>3, <1>4, <1>5, <1>6, <1>7, <1>8, <1>9, <1>10, <1>11 DEF Next

LEMMA NextAccounted ==
    ASSUME TypeOK, TypeOK', ExitedIsDead, OnePlace, CommandsAccounted, [Next]_vars
    PROVE  OnePlace' /\ CommandsAccounted'
<1> USE DEF OnePlace, CommandsAccounted
<1>1. /\ cmd \in Seq(Ids) /\ sent \in Nat
      /\ 1..(sent + 1) = 1..sent \cup {sent + 1} /\ sent + 1 \notin 1..sent
  BY DEF TypeOK
<1>2. CASE Enter
  <2>1. 1..sent' = 1..sent \cup {sent + 1} /\ sent + 1 \notin 1..sent
    BY <1>1, <1>2 DEF Enter
  <2>2. CommandsAccounted'
    BY <1>2, <2>1 DEF Enter
  <2>3. /\ (Queued \cap (executed \cup cleaned \cup Running) = {})'
        /\ (Running \cap (executed \cup cleaned) = {})'
    BY <1>2, <2>1 DEF Enter
  <2>4. ASSUME NEW i \in DOMAIN cmd', NEW j \in DOMAIN cmd', cmd'[i] = cmd'[j]
        PROVE  i = j
    <3>1. CASE cmd' = cmd
      BY <2>4, <3>1
    <3>2. CASE cmd' = Append(cmd, sent + 1)
      <4>1. DOMAIN cmd = 1..Len(cmd) /\ DOMAIN cmd' = 1..(Len(cmd) + 1) /\ Len(cmd) \in Nat
        BY <1>1, <3>2
      <4>2. cmd'[Len(cmd) + 1] = sent + 1 /\ \A k \in 1..Len(cmd) : cmd'[k] = cmd[k]
        BY <1>1, <3>2
      <4>3. \A k \in DOMAIN cmd : cmd[k] # sent + 1
        BY <2>1 DEF Queued
      <4>4. \A k \in 1..(Len(cmd) + 1) : k = Len(cmd) + 1 \/ k \in 1..Len(cmd)
        BY <4>1
      <4> QED
        BY <2>4, <4>1, <4>2, <4>3, <4>4
    <3> QED
      BY <1>2, <3>1, <3>2 DEF Enter
  <2> QED
    BY <2>2, <2>3, <2>4
<1>3. CASE Start
  <2>1. /\ Head(cmd) = cmd[1] /\ 1 \in DOMAIN cmd /\ DOMAIN Tail(cmd) \subseteq Nat \ {0}
        /\ \A i \in DOMAIN Tail(cmd) : i + 1 \in DOMAIN cmd /\ Tail(cmd)[i] = cmd[i + 1]
    BY <1>1, <1>3, TailElements DEF Start
  <2>2. ASSUME NEW i \in DOMAIN cmd', NEW j \in DOMAIN cmd', cmd'[i] = cmd'[j]
        PROVE  i = j
    <3>1. i + 1 = j + 1 /\ i \in Nat /\ j \in Nat
      BY <1>3, <2>1, <2>2 DEF Start
    <3> QED
      BY <3>1
  <2>3. Head(cmd) \notin Queued'
    <3>1. SUFFICES ASSUME NEW i \in DOMAIN Tail(cmd), Tail(cmd)[i] = cmd[1] PROVE FALSE
      BY <1>3, <2>1 DEF Start, Queued
    <3>2. i + 1 = 1 /\ i \in Nat \ {0}
      BY <2>1, <3>1
    <3> QED
      BY <3>2
  <2> QED
    BY <1>3, <2>2, <2>3 DEF Start
<1>4. CASE Finish
  BY <1>4 DEF Finish
<1>5. CASE Discard
  <2>1. /\ (Queued \cap (executed \cup cleaned \cup Running) = {})'
        /\ (\A i, j \in DOMAIN cmd : cmd[i] = cmd[j] => i = j)'
    BY <1>5 DEF Discard
  <2> QED
    BY <1>5, <2>1 DEF Discard
<1>6. CASE Stay /\ cmd' = cmd
  BY <1>6 DEF Stay
<1> QED
  BY <1>2, <1>3, <1>4, <1>5, <1>6, Moves

-----------------------------------------------------------------------------
(* Theorems                                                                  *)

LEMMA InitInv == Init => IInv
<1> SUFFICES ASSUME Init PROVE IInv
  OBVIOUS
<1>1. cmd = <<1>> /\ DOMAIN cmd = {1} /\ cmd[1] = 1
  <2>1. cmd = <<1>>
    BY DEF Init
  <2>2. DOMAIN <<1>> = {1} /\ <<1>>[1] = 1
    OBVIOUS
  <2> QED
    BY <2>1, <2>2
<1>6. Queued = {1} /\ Running = {}
  <2>1. Queued = {1}
    BY <1>1 DEF Queued
  <2>2. Running = {}
    BY DEF Init, Running
  <2> QED
    BY <2>1, <2>2
<1>2. TypeOK
  BY InitType
<1>3. CommandsUnderWay /\ ExecutedOnReturn
  BY <1>6 DEF Init, CommandsUnderWay, ExecutedOnReturn
<1>4. ExitedIsDead /\ NobodyWaitsForTheDead /\ Watchful
  BY DEF Init, ExitedIsDead, NobodyWaitsForTheDead, Watchful
<1>5. OnePlace /\ CommandsAccounted
  <2>1. \A i, j \in DOMAIN cmd : cmd[i] = cmd[j] => i = j
    BY <1>1
  <2>2. sent = 1 /\ executed = {} /\ cleaned = {}
    BY DEF Init
  <2>3. 1..1 = {1}
    OBVIOUS
  <2> QED
    BY <1>6, <2>1, <2>2, <2>3 DEF OnePlace, CommandsAccounted
<1> QED
  BY <1>2, <1>3, <1>4, <1>5 DEF IInv

LEMMA NextInv == IInv /\ [Next]_vars => IInv'
<1> SUFFICES ASSUME IInv, [Next]_vars PROVE IInv'
  OBVIOUS
<1>1. TypeOK'
  BY NextType DEF IInv
<1>2. ExitedIsDead' /\ NobodyWaitsForTheDead' /\ Watchful'
  BY NextExited, NextNobodyWaits, NextWatchful DEF IInv
<1>3. CommandsUnderWay' /\ ExecutedOnReturn'
  BY <1>1, NextUnderWay, NextExecuted
<1>4. OnePlace' /\ CommandsAccounted'
  BY <1>1, NextAccounted DEF IInv
<1> QED
  BY <1>1, <1>2, <1>3, <1>4 DEF IInv

LEMMA Inductive == Spec => []IInv
  BY InitInv, NextInv, PTL DEF Spec

\* The queue, its thread and its callers keep their types; in particular a
\* running command always counts as processing.
THEOREM TypeCorrect == Spec => []TypeOK
<1>1. IInv => TypeOK
  BY DEF IInv
<1> QED
  BY <1>1, Inductive, PTL

\* vout_control_WaitEmpty returns only when the command of its caller has run
\* to the end, or on a dead output.
THEOREM ReturnsAfterExecution == Spec => []ExecutedOnReturn
<1>1. IInv => ExecutedOnReturn
  BY DEF IInv
<1> QED
  BY <1>1, Inductive, PTL

\* vout_control_Dead leaves nobody in vout_control_WaitEmpty.
THEOREM DeathWakesAll == Spec => []NobodyWaitsForTheDead
<1>1. IInv => NobodyWaitsForTheDead
  BY DEF IInv
<1> QED
  BY <1>1, Inductive, PTL

\* The output thread never sleeps on a command, nor on a picture whose decoder
\* has already called vout_control_Wake.
THEOREM NoWorkForgotten == Spec => []NoForgottenWork
<1>1. IInv => NoForgottenWork
  BY DEF IInv, Watchful, NoForgottenWork
<1> QED
  BY <1>1, Inductive, PTL

\* Each command sent is queued, running, executed or freed.
THEOREM EveryCommandAccounted == Spec => []CommandsAccounted
<1>1. IInv => CommandsAccounted
  BY DEF IInv
<1> QED
  BY <1>1, Inductive, PTL
=============================================================================
