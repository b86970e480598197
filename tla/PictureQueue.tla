---------------------------- MODULE PictureQueue ----------------------------
(* What a video output promises about the order of its pictures: they come   *)
(* out in the order they were put in, and one that was dropped or replaced   *)
(* does not come back, except that the last one taken from the decoder may   *)
(* be shown again when nothing else is left in front.                        *)
EXTENDS Integers, Sequences

CONSTANTS Pics, None

VARIABLES
    queue,  \* pictures to be shown, the one on screen first
    last    \* the last picture taken from the decoder

Queued == {queue[i] : i \in DOMAIN queue}

Init == queue = <<>> /\ last = None

Put(p) == p \notin Queued /\ queue' = Append(queue, p) /\ last' = last

\* Every element of t is in s, and they stand in the same order there.
Within(t, s) ==
    /\ \A i \in DOMAIN t : \E a \in DOMAIN s : s[a] = t[i]
    /\ \A i, j \in DOMAIN t : i < j => \E a, b \in DOMAIN s : a < b /\ s[a] = t[i] /\ s[b] = t[j]

\* Some pictures leave, the others stay in order.
Leave ==
    /\ queue' \in Seq(Pics) /\ Within(queue', queue)
    /\ last' \in {last, None} \cup Queued

Again == last \notin Queued \cup {None} /\ queue' = <<last>> \o queue /\ last' = last

Next == Leave \/ Again \/ \E p \in Pics : Put(p)

Spec == Init /\ [][Next]_<<queue, last>>
=============================================================================
