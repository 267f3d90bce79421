----------------------------- MODULE StaConnAbs -----------------------------
(***************************************************************************)
(* What the station side of the driver (wifi/driver/hi3881/mac/hmac)       *)
(* promises to the host about its connection: every end of an attempt and  *)
(* every end of a connection is reported once, in order, and nothing else  *)
(* is.  Once an allocation or a send has failed a report can be missing,   *)
(* and a connection that has ended can be reported to end; but a success   *)
(* is still reported for the connection that was made, and only for it.    *)
(***************************************************************************)
EXTENDS Sequences

VARIABLES
  phase,   \* "down", "trying" or "up"
  told,    \* the reports under way to the host
  lossy    \* something has failed

conn == <<phase, told, lossy>>

Init == phase = "down" /\ told = <<>> /\ lossy = FALSE

\* a report, or none once something has failed
Tell(kind) == told' = Append(told, kind) \/ (told' = told /\ lossy')

Begin == phase = "down" /\ phase' = "trying" /\ UNCHANGED told
Succeed == phase = "trying" /\ phase' = "up" /\ Tell("up")
Give == phase = "trying" /\ phase' = "down" /\ Tell("failed")
Leave == phase \in {"trying", "up"} /\ phase' = "down" /\ Tell("gone")

\* something fails: an attempt or a connection ends unreported, one that has ended is
\* reported again
Silent == lossy' /\ phase' \in {phase, "down"} /\ UNCHANGED told
Again == lossy /\ phase = "down" /\ Tell("gone") /\ UNCHANGED phase

Deliver == told # <<>> /\ told' = Tail(told) /\ UNCHANGED phase

Step == Begin \/ Succeed \/ Give \/ Leave \/ Silent \/ Again \/ Deliver
Next == Step /\ (lossy => lossy')
Spec == Init /\ [][Next]_conn
=============================================================================
