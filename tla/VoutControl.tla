---------------------------- MODULE VoutControl ----------------------------
(* The command queue of a video output (src/video_output/control.c) with the *)
(* thread that executes it and the callers of video_output.c.  A caller      *)
(* pushes a command and, for most commands, waits until the queue is empty;  *)
(* the decoder puts pictures in the output's FIFO and wakes the thread up.   *)
EXTENDS Integers, Sequences, FiniteSets

CONSTANTS
    Clients,      \* threads that send commands
    Decoders,     \* threads that put pictures
    MaxCommands,  \* bound on the commands ever sent
    MaxPictures   \* bound on the pictures ever put

ASSUME BoundsAreNat == MaxCommands \in Nat \ {0} /\ MaxPictures \in Nat

\* A command runs and lets the thread go on, or ends it: VOUT_CONTROL_CLEAN,
\* and INIT or REINIT when the display cannot be started (again).
Outcomes == {"go on", "end"}

Ids == 1..MaxCommands

VARIABLES
    is_dead, can_sleep, is_processing,
    cmd,       \* the array of commands, by number
    outcome,   \* what executing each command does
    sent,      \* number of commands sent
    executed,  \* the commands ThreadControl has run
    cleaned,   \* the commands freed without having run
    thread,    \* pop, wait (in the timed wait), woken, exec, display, exited
    current,   \* the command in ThreadControl
    client,    \* idle, pushed (sends the wait next), wait, woken
    mine,      \* the command each client waits for, 0 if none
    closing,   \* vout_Close has sent VOUT_CONTROL_CLEAN
    decoder,   \* idle, put (has to wake the thread up)
    put,       \* number of pictures put
    seen       \* pictures that were in the FIFO when the thread last displayed

queue == <<is_dead, can_sleep, is_processing, cmd>>
vars == <<queue, outcome, sent, executed, cleaned, thread, current, client, mine,
          closing, decoder, put, seen>>

TypeOK ==
    /\ is_dead \in BOOLEAN /\ can_sleep \in BOOLEAN /\ is_processing \in BOOLEAN
    /\ cmd \in Seq(Ids)
    /\ outcome \in [Ids -> Outcomes]
    /\ sent \in 0..MaxCommands
    /\ executed \subseteq Ids /\ cleaned \subseteq Ids
    /\ thread \in {"pop", "wait", "woken", "exec", "display", "exited"}
    /\ current \in 0..MaxCommands
    /\ client \in [Clients -> {"idle", "pushed", "wait", "woken"}]
    /\ mine \in [Clients -> 0..MaxCommands]
    /\ closing \in BOOLEAN
    /\ decoder \in [Decoders -> {"idle", "put"}]
    /\ put \in 0..MaxPictures /\ seen \in 0..put
    /\ thread = "exec" => is_processing /\ current # 0

\* The commands in the array, and the one that runs.
Queued == {cmd[i] : i \in DOMAIN cmd}
Running == IF thread = "exec" THEN {current} ELSE {}

\* VoutCreate: the queue is initialised, VOUT_CONTROL_INIT is pushed before the
\* thread exists, and the creator waits until it is done.
Init ==
    /\ is_dead = FALSE /\ can_sleep = TRUE /\ is_processing = FALSE
    /\ cmd = <<1>>
    /\ outcome \in {[i \in Ids |-> IF i = 1 THEN o ELSE "go on"] : o \in Outcomes}
    /\ sent = 1
    /\ executed = {} /\ cleaned = {}
    /\ thread = "pop"
    /\ current = 0
    /\ \E c \in Clients :
          /\ client = [d \in Clients |-> IF d = c THEN "pushed" ELSE "idle"]
          /\ mine = [d \in Clients |-> IF d = c THEN 1 ELSE 0]
    /\ closing = FALSE
    /\ decoder = [d \in Decoders |-> "idle"]
    /\ put = 0 /\ seen = 0

-----------------------------------------------------------------------------
(* Waking up                                                                 *)

\* vlc_cond_signal( &ctrl->wait_request ): only the output thread waits on it.
SignalThread_Missing == thread' = thread
SignalThread == thread' = IF thread = "wait" THEN "woken" ELSE thread

\* vlc_cond_broadcast( &ctrl->wait_acknowledge )
AcknowledgeAll_One ==
    client' \in {[client EXCEPT ![c] = "woken"] : c \in {d \in Clients : client[d] = "wait"}}
                  \cup (IF \E d \in Clients : client[d] = "wait" THEN {} ELSE {client})
AcknowledgeAll ==
    client' = [c \in Clients |-> IF client[c] = "wait" THEN "woken" ELSE client[c]]

-----------------------------------------------------------------------------
(* The callers                                                               *)

\* vout_control_Push of command number sent + 1.
Push_DeadLeaks(o) ==
    /\ sent < MaxCommands
    /\ sent' = sent + 1
    /\ outcome' = [outcome EXCEPT ![sent + 1] = o]
    /\ UNCHANGED cleaned
    /\ IF is_dead THEN UNCHANGED <<cmd, thread>> ELSE cmd' = Append(cmd, sent + 1) /\ SignalThread
Push(o) ==
    /\ sent < MaxCommands
    /\ sent' = sent + 1
    /\ outcome' = [outcome EXCEPT ![sent + 1] = o]
    /\ IF is_dead
       THEN /\ cleaned' = cleaned \cup {sent + 1}
            /\ UNCHANGED <<cmd, thread>>
       ELSE /\ cmd' = Append(cmd, sent + 1)
            /\ SignalThread
            /\ UNCHANGED cleaned

\* The calls that do not wait: vout_DisplayTitle, vout_PutSubpicture, ...
Send(c) ==
    /\ client[c] = "idle" /\ ~closing
    /\ Push("go on")
    /\ UNCHANGED <<is_dead, can_sleep, is_processing, executed, current, client, mine,
                   closing, decoder, put, seen>>

\* vout_ChangePause, vout_Flush, vout_Reset, vout_NextPicture, and vout_Request
\* on an output that is reused, which may fail to start its display again.
SendAndWait(c) ==
    /\ client[c] = "idle" /\ ~closing
    /\ \E o \in Outcomes : Push(o)
    /\ client' = [client EXCEPT ![c] = "pushed"]
    /\ mine' = [mine EXCEPT ![c] = sent + 1]
    /\ UNCHANGED <<is_dead, can_sleep, is_processing, executed, current, closing, decoder, put, seen>>

\* vout_control_WaitEmpty, from the test of its condition on.
Busy_QueueOnly == cmd # <<>>
Busy == cmd # <<>> \/ is_processing

WaitEmpty(c) ==
    /\ client[c] \in {"pushed", "woken"}
    /\ client' = [client EXCEPT ![c] = IF Busy /\ ~is_dead THEN "wait" ELSE "idle"]
    /\ UNCHANGED <<queue, outcome, sent, executed, cleaned, thread, current, mine,
                   closing, decoder, put, seen>>

\* vout_Close: no other caller is left, and the last command ends the thread.
Close(c) ==
    /\ ~closing /\ \A d \in Clients : client[d] = "idle"
    /\ Push("end")
    /\ closing' = TRUE
    /\ UNCHANGED <<is_dead, can_sleep, is_processing, executed, current, client, mine,
                   decoder, put, seen>>

\* vout_PutPicture: the picture goes into the FIFO, then vout_control_Wake.
PutPicture(d) ==
    /\ decoder[d] = "idle" /\ put < MaxPictures
    /\ put' = put + 1
    /\ decoder' = [decoder EXCEPT ![d] = "put"]
    /\ UNCHANGED <<queue, outcome, sent, executed, cleaned, thread, current, client, mine,
                   closing, seen>>

NoSleep_Ignored == can_sleep
NoSleep == FALSE

Wake(d) ==
    /\ decoder[d] = "put"
    /\ can_sleep' = NoSleep
    /\ SignalThread
    /\ decoder' = [decoder EXCEPT ![d] = "idle"]
    /\ UNCHANGED <<is_dead, is_processing, cmd, outcome, sent, executed, cleaned, current,
                   client, mine, closing, put, seen>>

-----------------------------------------------------------------------------
(* The video output thread                                                   *)

Take_NotProcessing ==
    IF cmd # <<>>
    THEN /\ current' = Head(cmd) /\ cmd' = Tail(cmd)
         /\ thread' = "exec"
         /\ UNCHANGED <<can_sleep, is_processing>>
    ELSE /\ can_sleep' = TRUE
         /\ thread' = "display"
         /\ UNCHANGED <<current, cmd>>

\* The end of vout_control_Pop: a command to run, or a look at the pictures.
Take ==
    IF cmd # <<>>
    THEN /\ current' = Head(cmd) /\ cmd' = Tail(cmd)
         /\ is_processing' = TRUE
         /\ thread' = "exec"
         /\ UNCHANGED can_sleep
    ELSE /\ can_sleep' = TRUE
         /\ thread' = "display"
         /\ UNCHANGED <<current, cmd>>

\* vout_control_Pop on an empty queue acknowledges the commands executed so
\* far, then sleeps unless there was a vout_control_Wake.
PopEmpty ==
    /\ thread = "pop" /\ cmd = <<>>
    /\ is_processing' = FALSE
    /\ AcknowledgeAll
    /\ IF can_sleep
       THEN thread' = "wait" /\ UNCHANGED <<can_sleep, current, cmd>>
       ELSE Take
    /\ UNCHANGED <<is_dead, outcome, sent, executed, cleaned, mine, closing, decoder, put, seen>>

\* vout_control_Pop finds a command at once, or after the timed wait, which
\* ends on a signal, at its deadline or spuriously.
PopTake ==
    /\ thread = "woken" \/ (thread = "pop" /\ cmd # <<>>)
    /\ Take
    /\ cmd = <<>> => UNCHANGED is_processing
    /\ UNCHANGED <<is_dead, outcome, sent, executed, cleaned, client, mine, closing, decoder, put, seen>>

TimedWaitEnds ==
    /\ thread = "wait"
    /\ thread' = "woken"
    /\ UNCHANGED <<queue, outcome, sent, executed, cleaned, current, client, mine,
                   closing, decoder, put, seen>>

\* What ThreadControl returns: whether the thread ends.
Ends == outcome[current] = "end"

\* ThreadControl.  A command that ends the thread ends in vout_control_Dead.
Exec ==
    /\ thread = "exec"
    /\ executed' = executed \cup {current}
    /\ IF Ends
       THEN thread' = "exited" /\ is_dead' = TRUE /\ AcknowledgeAll
       ELSE thread' = "pop" /\ UNCHANGED <<is_dead, client>>
    /\ UNCHANGED <<can_sleep, is_processing, cmd, outcome, sent, cleaned, current, mine,
                   closing, decoder, put, seen>>

\* ThreadDisplayPicture, until it has nothing more to do now.
Display ==
    /\ thread = "display"
    /\ seen' = put
    /\ thread' = "pop"
    /\ UNCHANGED <<queue, outcome, sent, executed, cleaned, current, client, mine,
                   closing, decoder, put>>

\* vout_control_Clean, once the closed output is released for the last time.
Clean ==
    /\ closing /\ thread = "exited" /\ cmd # <<>>
    /\ cleaned' = cleaned \cup Queued
    /\ cmd' = <<>>
    /\ UNCHANGED <<is_dead, can_sleep, is_processing, outcome, sent, executed, thread, current,
                   client, mine, closing, decoder, put, seen>>

-----------------------------------------------------------------------------
Next ==
    \/ \E c \in Clients : Send(c) \/ SendAndWait(c) \/ WaitEmpty(c) \/ Close(c)
    \/ \E d \in Decoders : PutPicture(d) \/ Wake(d)
    \/ PopEmpty \/ PopTake \/ TimedWaitEnds \/ Exec \/ Display \/ Clean

Spec == Init /\ [][Next]_vars

\* The thread runs, and so does a caller inside a call.
Fairness ==
    /\ WF_vars(PopEmpty) /\ WF_vars(PopTake) /\ WF_vars(TimedWaitEnds)
    /\ WF_vars(Exec) /\ WF_vars(Display)
    /\ \A c \in Clients : WF_vars(WaitEmpty(c))
    /\ \A d \in Decoders : WF_vars(Wake(d))

FairSpec == Spec /\ Fairness

-----------------------------------------------------------------------------
(* Properties                                                                *)

\* When a call that waits returns, its command has been executed to the end,
\* not merely taken from the queue, unless the output died.  vout_NextPicture and
\* vout_Request pass pointers to their own stack.
ExecutedOnReturn ==
    \A c \in Clients : client[c] = "idle" /\ mine[c] # 0 => mine[c] \in executed \/ is_dead

\* Nobody waits for a dead output thread.
NobodyWaitsForTheDead == is_dead => \A c \in Clients : client[c] # "wait"

\* The thread does not sleep with a command in its queue, nor with a picture it
\* has not looked at, unless the decoder is about to wake it up.
NoForgottenWork ==
    thread = "wait" => /\ cmd = <<>>
                       /\ seen = put \/ \E d \in Decoders : decoder[d] = "put"

\* Each command is executed or freed, never both, and none is left when the
\* output is released.
CommandsAccounted ==
    /\ executed \cap cleaned = {}
    /\ executed \cup cleaned \cup Queued \cup Running = 1..sent

\* Every call that waits returns, and vout_Close ends the thread it joins.
CallsReturn ==
    /\ \A c \in Clients : client[c] # "idle" ~> client[c] = "idle"
    /\ closing ~> thread = "exited"
=============================================================================
