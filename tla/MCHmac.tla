------------------------------- MODULE MCHmac -------------------------------
(***************************************************************************)
(* Small instances that do not interact, in one run: a receive session of  *)
(* RxReorder ("rx"), StaConn ("sta"), and FrwTimer ("timer") with a timer  *)
(* that threads use too and one of the event task.  The first state        *)
(* chooses which of them moves.                                            *)
(***************************************************************************)
EXTENDS RxReorder, StaConn, FrwTimer

VARIABLE which

all == <<which, vars, sta, timers>>

MCInit == which \in {"rx", "sta", "timer"} /\ Init /\ StaInit /\ TimerInit

\* the access points are alike, so the first connect may as well be to "a"
FirstToA == connects = 0 /\ connects' = 1 => req'.ap = {"a"}

\* bound: in one behaviour something fails or users are dropped, not both
OneKind == failures' = 0 \/ dropped' = "no"

\* a step of the station
Moves(step) == which = "sta" /\ step /\ FirstToA /\ OneKind /\ UNCHANGED <<which, vars, timers>>

MCNext ==
  \/ which = "rx" /\ Next /\ UNCHANGED <<which, sta, timers>>
  \/ which = "timer" /\ TimerNext /\ UNCHANGED <<which, vars, sta>>
  \/ Moves(StaNext)

\* the fairness of the station: no access point has to answer
MCFairness == WF_all(Moves(Events)) /\ WF_all(Moves(MgmtExpires)) /\ WF_all(Moves(MgmtPosts))

MCSpec == MCInit /\ [][MCNext]_all /\ MCFairness
=============================================================================
