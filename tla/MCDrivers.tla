----------------------------- MODULE MCDrivers -----------------------------
(***************************************************************************)
(* Small instances that do not interact, in one run: HiethQueues while no  *)
(* wait lasts too long ("eth") and while nothing is received ("late"), and *)
(* UartRing ("uart"), on one core and on two.  The first state chooses     *)
(* which of them moves.                                                    *)
(***************************************************************************)
EXTENDS HiethQueues, UartRing

VARIABLE which

all == <<which, hieth, uart>>

MCInit ==
  /\ which \in {"eth", "late", "uart"}
  /\ EthInit /\ Init
  /\ which \in {"eth", "late"} => block /\ ~smp
  /\ which = "uart" => rxFeed = 1

\* a step of the Ethernet driver
EthMoves(step) ==
  /\ \/ which = "eth" /\ step /\ ~expired'
     \/ which = "late" /\ step /\ hwFull' = <<>>
  /\ UNCHANGED <<which, uart>>

\* a step of the UART driver
UartMoves(step) == which = "uart" /\ step /\ UNCHANGED <<which, hieth>>

MCNext == EthMoves(EthNext) \/ UartMoves(Next)

\* the fairness of the instance that moves
MCFairness ==
  /\ WF_all(EthMoves(SenderStep)) /\ WF_all(EthMoves(DsrStep)) /\ SF_all(EthMoves(Isr))
  /\ WF_all(EthMoves(FeedOne)) /\ WF_all(EthMoves(MonitorFires)) /\ WF_all(EthMoves(MonitorDone))
  /\ SF_all(UartMoves(ReaderStep)) /\ WF_all(UartMoves(IsrStep))

MCSpec == MCInit /\ [][MCNext]_all /\ MCFairness

----------------------------------------------------------------------------
\* On one core a reader does not sleep beside bytes that have come (Hi35xxRead).
WakesOnOneCore == (which = "uart" /\ ~smp /\ reader = "wait" /\ ~Empty) ~> (reader # "wait")
=============================================================================
