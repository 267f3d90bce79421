----------------------------- MODULE WalScanAbs -----------------------------
(***************************************************************************)
(* What the scan service promises to its caller.  A request is taken when  *)
(* none is open; it is reported at most once and only while it is open;    *)
(* none is dropped: when its call returns, it is open or was reported, or  *)
(* the call has failed.  A request that is reported before its call        *)
(* returns may be failed by that call too, and what causes a report is not *)
(* said: the next request may be ended by something left of the last.      *)
(***************************************************************************)
EXTENDS Naturals

VARIABLES
  pending,     \* the open request, 0 when there is none
  calling,     \* the request whose call has not returned, 0 when there is none
  reported,    \* the requests whose end was reported
  failed       \* the requests whose call failed

vars == <<pending, calling, reported, failed>>

Init == pending = 0 /\ calling = 0 /\ reported = {} /\ failed = {}

Take == /\ pending = 0 /\ calling = 0
        /\ pending' \in Nat \ ({0} \cup reported \cup failed)
        /\ calling' = pending'
        /\ UNCHANGED <<reported, failed>>

Report == /\ pending # 0 /\ pending \notin reported
          /\ reported' = reported \cup {pending}
          /\ pending' = 0
          /\ UNCHANGED <<calling, failed>>

\* the caller knows what becomes of its request
Accounted == calling # 0 /\ (calling = pending \/ calling \in reported)

Succeed == /\ Accounted
           /\ calling' = 0
           /\ UNCHANGED <<pending, reported, failed>>

Fail == /\ Accounted
        /\ failed' = failed \cup {calling}
        /\ calling' = 0 /\ pending' = 0
        /\ UNCHANGED reported

Next == Take \/ Report \/ Succeed \/ Fail

Spec == Init /\ [][Next]_vars
=============================================================================
