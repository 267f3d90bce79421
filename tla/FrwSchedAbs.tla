---------------------------- MODULE FrwSchedAbs ----------------------------
(***************************************************************************)
(* What the event framework (wifi/driver/hi3881/frw) promises to those who *)
(* post events: an event accepted into a queue is handed out once, and the *)
(* events of one queue are handed out in the order of their acceptance.    *)
(* "chan" are the accepted events of each queue, "out" the events that     *)
(* have been handed out and whose handling is not over.  Nothing here      *)
(* tells which queue is served next; FrwSched implements this.             *)
(***************************************************************************)
EXTENDS Sequences

CONSTANTS Queues, Blocks
VARIABLES chan, out

InChan(b) == \E q \in Queues : \E i \in DOMAIN chan[q] : chan[q][i] = b

Init == chan = [q \in Queues |-> <<>>] /\ out = {}

Accept(q, b) ==
  /\ ~InChan(b) /\ b \notin out
  /\ chan' = [chan EXCEPT ![q] = Append(@, b)]
  /\ UNCHANGED out

HandOut(q) ==
  /\ chan[q] # <<>>
  /\ chan' = [chan EXCEPT ![q] = Tail(@)]
  /\ out' = out \cup {Head(chan[q])}

Finish(b) == b \in out /\ out' = out \ {b} /\ UNCHANGED chan

Next == \/ \E q \in Queues : HandOut(q) \/ \E b \in Blocks : Accept(q, b)
        \/ \E b \in Blocks : Finish(b)

Spec == Init /\ [][Next]_<<chan, out>>
=============================================================================
