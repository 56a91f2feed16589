-------------------------- MODULE NotificationQueue --------------------------
(***************************************************************************)
(* What the arbiter promises about notifications: one bounded queue, first *)
(* in first out, whose head is the one on the panel.  Anything else that   *)
(* takes the panel empties it.                                             *)
(***************************************************************************)
EXTENDS Naturals, Sequences, SequencesExt

CONSTANTS Notifications, Capacity

VARIABLE queue

Init == queue = <<>>

\* shown at once: in the place of the head, which is gone
Post(n)  == queue' = IF queue = <<>> THEN <<n>> ELSE <<n>> \o Tail(queue)

\* behind what is there, while there is room
Stack(n) == Len(queue) < Capacity /\ queue' = Append(queue, n)

\* the head leaves by itself or dismissed; a waiting one only dismissed
Leave(i) == queue' = RemoveAt(queue, i)

Clear == queue' = <<>>

Next ==
    \/ \E n \in Notifications : Post(n) \/ Stack(n)
    \/ \E i \in DOMAIN queue : Leave(i)
    \/ Clear

Spec == Init /\ [][Next]_queue
=============================================================================
