---------------------------- MODULE HiethQueues ----------------------------
(***************************************************************************)
(* The packet queues of the Ethernet driver (src/hieth-sf/src/interface.c, *)
(* src/hieth-sf/src/ctrl.c): the ring of frames under transmission, the    *)
(* ring of receive buffers, and the three who work on them: a sender in    *)
(* EthDrvSend (one task, that of lwIP), the task eth_irq_Task (HisiEthDsr) *)
(* and the monitor timer.  The port (external) keeps MULTI_RXRDY raised    *)
(* while received frames wait, and raises TXQUE_RDY at each completion.    *)
(***************************************************************************)
EXTENDS Naturals, Sequences, FiniteSets

CONSTANTS
  TxSlots,     \* qSize: slots of the transmit ring
  XmitDepth,   \* hwXmitq: frames the port holds for transmission
  RxSlots,     \* HIETH_HWQ_RXQ_DEPTH: slots of the receive ring
  RecvDepth,   \* buffers the port holds for reception
  AllocFaults  \* bound on failed allocations

\* qSize is larger than the port's queue, and so is HIETH_HWQ_RXQ_DEPTH (128 and 52, 24 and 12)
ASSUME EthAssumption ==
  /\ XmitDepth \in Nat \ {0} /\ TxSlots \in Nat /\ TxSlots > XmitDepth
  /\ RecvDepth \in Nat \ {0} /\ RxSlots \in Nat /\ RxSlots > RecvDepth
  /\ AllocFaults \in Nat

VARIABLES
  txqHead, txqTail, txHwCnt, txBusy,   \* of HiethNetdevLocal
  hwTx,                 \* frames in the port, in the order of sending
  stEvent,              \* the events "TX_RX" and "CAN_SEND"
  irqOn, allPort,       \* the vector at the CPU; BITS_IRQS_ENA_ALLPORT
  txRdy,                \* TXQUE_RDY in the raw interrupt register
  sender,               \* where EthDrvSend is
  rxFeed, rxRelease,    \* of HiethPriv
  hwRx, hwFull,         \* buffers in the port: free; filled, not fetched
  inHand,               \* the frame EthDrvRecv has fetched and not yet counted, if any
  dsr, dsrTx,           \* where HiethDeliver is; TXQUE_RDY as it read it
  monitor,              \* monitorTimer: "off", "armed", or its function runs
  rxLock, fed,          \* who is in HiethFeedHw, and whether it fed a buffer
  failures,
  expired               \* history: a wait for EVENT_NET_CAN_SEND lasted the whole 40 ms

txVars  == <<txqHead, txqTail, txHwCnt, txBusy, hwTx>>
rxVars  == <<rxFeed, rxRelease, hwRx, hwFull, inHand, monitor, rxLock, fed, failures>>
irqVars == <<irqOn, allPort, txRdy>>
dsrVars == <<dsr, dsrTx>>
sendVars == <<sender, expired>>
hieth   == <<txVars, rxVars, irqVars, dsrVars, stEvent, sendVars>>

TxRing == 0..TxSlots - 1      \* a frame, or a buffer, is named by its slot
RxRing == 0..RxSlots - 1

EthTypeOK ==
  /\ txqHead \in TxRing /\ txqTail \in TxRing
  /\ txHwCnt \in Nat /\ txBusy \in BOOLEAN
  /\ hwTx \in Seq(TxRing) /\ Len(hwTx) <= XmitDepth
  /\ stEvent \subseteq {"TX_RX", "CAN_SEND"}
  /\ irqOn \in BOOLEAN /\ allPort \in BOOLEAN /\ txRdy \in BOOLEAN
  /\ sender \in {"idle", "test", "check", "wait", "send"} /\ expired \in BOOLEAN
  /\ rxFeed \in RxRing /\ rxRelease \in 0..RxSlots
  /\ hwRx \in Seq(RxRing) /\ hwFull \in Seq(RxRing) /\ Len(hwRx) + Len(hwFull) <= RecvDepth
  /\ inHand \in Seq(RxRing) /\ Len(inHand) <= 1
  /\ dsr \in {"sleep", "release", "clear", "read", "recv", "take", "count", "wrap", "feed",
               "ack", "unmask"}
  /\ dsrTx \in BOOLEAN /\ monitor \in {"off", "armed", "runs"}
  /\ rxLock \in {"free", "dsr", "monitor"} /\ fed \in BOOLEAN
  /\ failures \in 0..AllocFaults

\* the driver as RegisterHiethData leaves it, when its first HiethFeedHw found n buffers
EthInit ==
  /\ txqHead = 0 /\ txqTail = 0 /\ txHwCnt = 0 /\ txBusy = FALSE /\ hwTx = <<>>
  /\ stEvent = {} /\ irqOn = TRUE /\ allPort = TRUE /\ txRdy = FALSE
  /\ sender = "idle" /\ expired = FALSE /\ dsr = "sleep" /\ dsrTx = FALSE
  /\ monitor = "off" /\ failures = 0
  /\ rxLock = "free" /\ fed = FALSE
  /\ rxRelease = 0 /\ hwFull = <<>> /\ inHand = <<>>
  /\ \E n \in 1..RecvDepth :
       rxFeed = n /\ hwRx = [i \in 1..n |-> i - 1]

Next1(i, size) == (i + 1) % size

----------------------------------------------------------------------------
(* Transmission                                                            *)

Ready == Len(hwTx) < XmitDepth       \* TestXmitQueueReady

\* how many frames HiethXmitReleasePkt finds finished: it compares two counts
Finished_OneMore(inUse) == IF txHwCnt > inUse THEN txHwCnt - inUse + 1 ELSE 0  \* variant
Finished(inUse) == IF txHwCnt > inUse THEN txHwCnt - inUse ELSE 0

WakeSender_StaysBusy(n) ==           \* variant: the flag is not reset
  /\ txBusy' = txBusy
  /\ stEvent' = IF n > 0 /\ txBusy THEN stEvent \cup {"CAN_SEND"} ELSE stEvent
WakeSender(n) ==
  /\ txBusy' = (txBusy /\ n = 0)
  /\ stEvent' = IF n > 0 /\ txBusy THEN stEvent \cup {"CAN_SEND"} ELSE stEvent

\* HiethXmitReleasePkt, under tx_lock: frames are freed from the tail on
XmitReleasePkt ==
  LET n == Finished(Len(hwTx))
  IN /\ txqTail' = (txqTail + n) % TxSlots
     /\ txHwCnt' = txHwCnt - n
     /\ WakeSender(n)
     /\ UNCHANGED <<txqHead, hwTx>>

\* EthDrvSend disables the interrupt at its start and enables it at its end
SendBegin ==
  /\ sender = "idle" /\ sender' = "test" /\ irqOn' = FALSE
  /\ UNCHANGED <<txVars, rxVars, allPort, txRdy, dsrVars, stEvent, expired>>

\* HiethCanSend: a first test without the lock, and a look for finished frames
CanSendTest ==
  /\ sender = "test" /\ sender' = "check"
  /\ IF Ready THEN UNCHANGED <<txVars, stEvent>> ELSE XmitReleasePkt
  /\ UNCHANGED <<rxVars, irqVars, dsrVars, expired>>

RingFull == Next1(txqHead, TxSlots) = txqTail

CanSendCheck ==
  /\ sender = "check"
  /\ IF ~Ready \/ RingFull
     THEN sender' = "wait" /\ txBusy' = TRUE /\ irqOn' = TRUE
     ELSE sender' = "send" /\ UNCHANGED <<txBusy, irqOn>>
  /\ UNCHANGED <<txqHead, txqTail, txHwCnt, hwTx, rxVars, allPort, txRdy, dsrVars, stEvent, expired>>

\* the event is taken for room: nothing is tested again
CanSendWoken ==
  /\ sender = "wait" /\ "CAN_SEND" \in stEvent
  /\ stEvent' = stEvent \ {"CAN_SEND"} /\ sender' = "send" /\ irqOn' = FALSE
  /\ UNCHANGED <<txVars, rxVars, allPort, txRdy, dsrVars, expired>>

\* the frame is refused; EthXmit returns NETDEV_TX_OK all the same
CanSendTimesOut ==
  /\ sender = "wait" /\ sender' = "idle" /\ irqOn' = TRUE /\ expired' = TRUE
  /\ UNCHANGED <<txVars, rxVars, allPort, txRdy, dsrVars, stEvent>>

\* HiethSend and HiethXmitGso, under tx_lock; a full port ignores the frame (external)
Send ==
  /\ sender = "send" /\ sender' = "idle" /\ irqOn' = TRUE
  /\ txqHead' = Next1(txqHead, TxSlots)
  /\ txHwCnt' = txHwCnt + 1
  /\ hwTx' = IF Ready THEN Append(hwTx, txqHead) ELSE hwTx
  /\ UNCHANGED <<txqTail, txBusy, rxVars, allPort, txRdy, dsrVars, stEvent, expired>>

----------------------------------------------------------------------------
(* Reception                                                               *)

\* HiethFeedHw holds rx_lock; EthDrvRecv does not, and steps rxRelease past the ring
\* before it sets it to 0
RecvReady == Len(hwRx) + Len(hwFull) < RecvDepth
RxRingFull == Next1(rxFeed, RxSlots) = rxRelease

FeedBegin(who) ==
  /\ rxLock = "free" /\ rxLock' = who /\ fed' = FALSE
  /\ UNCHANGED <<rxFeed, rxRelease, hwRx, hwFull, inHand, failures>>

FeedOne ==
  /\ rxLock # "free"
  /\ RecvReady /\ ~RxRingFull
  /\ rxFeed' = Next1(rxFeed, RxSlots)
  /\ hwRx' = Append(hwRx, rxFeed)
  /\ fed' = TRUE
  /\ UNCHANGED <<rxRelease, hwFull, inHand, monitor, rxLock, failures,
                 txVars, irqVars, dsrVars, stEvent, sendVars>>

\* no room, or no memory
FeedEnd(who) ==
  /\ rxLock = who /\ rxLock' = "free"
  /\ \/ (~RecvReady \/ RxRingFull) /\ UNCHANGED failures
     \/ failures < AllocFaults /\ failures' = failures + 1
  /\ UNCHANGED <<rxFeed, rxRelease, hwRx, hwFull, inHand, fed>>

\* HiethMonitorFunc; a timer that found nothing to feed starts again
MonitorFires ==
  /\ monitor = "armed" /\ monitor' = "runs" /\ FeedBegin("monitor")
  /\ UNCHANGED <<txVars, irqVars, dsrVars, stEvent, sendVars>>

MonitorDone ==
  /\ FeedEnd("monitor")
  /\ monitor' = IF fed THEN "off" ELSE "armed"
  /\ UNCHANGED <<txVars, irqVars, dsrVars, stEvent, sendVars>>

----------------------------------------------------------------------------
(* The interrupt and HiethDeliver                                          *)

\* HisiEthIsr
Isr ==
  /\ irqOn /\ allPort /\ (txRdy \/ hwFull # <<>>)
  /\ irqOn' = FALSE /\ stEvent' = stEvent \cup {"TX_RX"}
  /\ UNCHANGED <<txVars, rxVars, allPort, txRdy, dsrVars, sendVars>>

Wakes ==
  /\ dsr = "sleep" /\ "TX_RX" \in stEvent
  /\ stEvent' = stEvent \ {"TX_RX"} /\ allPort' = FALSE /\ dsr' = "release"
  /\ UNCHANGED <<txVars, rxVars, irqOn, txRdy, dsrTx, sendVars>>

Releases ==
  /\ dsr = "release" /\ dsr' = "clear"
  /\ XmitReleasePkt
  /\ UNCHANGED <<rxVars, irqVars, dsrTx, sendVars>>

\* a completion between Releases and this is forgotten until the next
ClearsTxRdy ==
  /\ dsr = "clear" /\ dsr' = "read" /\ txRdy' = FALSE
  /\ UNCHANGED <<txVars, rxVars, irqOn, allPort, dsrTx, stEvent, sendVars>>

ReadsIrqStatus ==
  /\ dsr = "read" /\ dsrTx' = txRdy
  /\ dsr' = IF hwFull # <<>> THEN "recv" ELSE IF txRdy THEN "ack" ELSE "unmask"
  /\ UNCHANGED <<txVars, rxVars, irqVars, stEvent, sendVars>>

\* EthDrvRecv
Advance_KeepsLast ==                 \* variant: the last buffer counts as held
  rxRelease' = IF rxFeed = Next1(rxRelease, RxSlots) THEN rxRelease ELSE rxRelease + 1
Advance == rxRelease' = rxRelease + 1

\* a turn of the loop: HwSetRxpkgFinish takes the frame from the port, without rx_lock
RecvTakes ==
  /\ dsr = "recv" /\ hwFull # <<>> /\ dsr' = "take"
  /\ hwFull' = Tail(hwFull) /\ inHand' = <<Head(hwFull)>>
  /\ UNCHANGED <<rxFeed, rxRelease, hwRx, monitor, rxLock, fed, failures,
                 txVars, irqVars, dsrTx, stEvent, sendVars>>

\* it is looked up in rxNetbuf at rxRelease, under rx_lock
RecvLooksUp ==
  /\ dsr = "take" /\ rxLock = "free" /\ dsr' = "count"
  /\ UNCHANGED <<rxVars, txVars, irqVars, dsrTx, stEvent, sendVars>>

\* EthDrvRecv counts it, without the lock, and hands it up
RecvCounts ==
  /\ dsr = "count" /\ inHand' = <<>> /\ Advance
  /\ dsr' = IF rxRelease + 1 = RxSlots THEN "wrap" ELSE "recv"
  /\ UNCHANGED <<rxFeed, hwRx, hwFull, monitor, rxLock, fed, failures,
                 txVars, irqVars, dsrTx, stEvent, sendVars>>

RecvWraps ==
  /\ dsr = "wrap" /\ dsr' = "recv" /\ rxRelease' = 0
  /\ UNCHANGED <<rxFeed, hwRx, hwFull, inHand, monitor, rxLock, fed, failures,
                 txVars, irqVars, dsrTx, stEvent, sendVars>>

RecvDone ==
  /\ dsr = "recv" /\ hwFull = <<>> /\ dsr' = "feed"
  /\ FeedBegin("dsr")
  /\ UNCHANGED <<monitor, txVars, irqVars, dsrTx, stEvent, sendVars>>

\* the timer is needed when the port has no buffer left: no interrupt would come
NeedsMonitor_Never == FALSE          \* variant
NeedsMonitor == ~fed /\ rxRelease = rxFeed

Refilled ==
  /\ dsr = "feed" /\ dsr' = "ack"
  /\ FeedEnd("dsr")
  /\ monitor' = IF NeedsMonitor THEN "armed" ELSE monitor
  /\ UNCHANGED <<txVars, irqVars, dsrTx, stEvent, sendVars>>

ClearsIrqs ==
  /\ dsr = "ack" /\ dsr' = "unmask"
  /\ txRdy' = (txRdy /\ ~dsrTx)
  /\ UNCHANGED <<txVars, rxVars, irqOn, allPort, dsrTx, stEvent, sendVars>>

Unmasks ==
  /\ dsr = "unmask" /\ dsr' = "sleep" /\ dsrTx' = FALSE
  /\ allPort' = TRUE /\ irqOn' = TRUE
  /\ UNCHANGED <<txVars, rxVars, txRdy, stEvent, sendVars>>

----------------------------------------------------------------------------
(* The port (external)                                                     *)

PortSent ==
  /\ hwTx # <<>> /\ hwTx' = Tail(hwTx) /\ txRdy' = TRUE
  /\ UNCHANGED <<txqHead, txqTail, txHwCnt, txBusy, rxVars, irqOn, allPort, dsrVars, stEvent, sendVars>>

PortReceived ==
  /\ hwRx # <<>> /\ hwRx' = Tail(hwRx) /\ hwFull' = Append(hwFull, Head(hwRx))
  /\ UNCHANGED <<rxFeed, rxRelease, inHand, monitor, rxLock, fed, failures,
                 txVars, irqVars, dsrVars, stEvent, sendVars>>

----------------------------------------------------------------------------
SenderStep == CanSendTest \/ CanSendCheck \/ CanSendWoken \/ Send
DsrStep == Wakes \/ Releases \/ ClearsTxRdy \/ ReadsIrqStatus \/ RecvTakes \/ RecvLooksUp
             \/ RecvCounts \/ RecvWraps \/ RecvDone \/ Refilled \/ ClearsIrqs \/ Unmasks
FeedStep == FeedOne \/ MonitorFires \/ MonitorDone

\* what ends the wait may have been forgotten (ClearsTxRdy)
Waits == sender = "wait" /\ UNCHANGED hieth

EthNext == Waits \/ SendBegin \/ SenderStep \/ CanSendTimesOut \/ DsrStep \/ FeedStep \/ Isr
          \/ PortSent \/ PortReceived
EthSpec == EthInit /\ [][EthNext]_hieth

\* The tasks, the interrupt and the timer go on; nobody has to send, and the port
\* need not do anything.
EthFairness ==
  /\ WF_hieth(SenderStep) /\ WF_hieth(DsrStep)
  /\ SF_hieth(Isr)       \* it is pending, and comes when the vector is enabled
  /\ WF_hieth(FeedOne) /\ WF_hieth(MonitorFires) /\ WF_hieth(MonitorDone)
EthLiveSpec == EthSpec /\ EthFairness

----------------------------------------------------------------------------
(* Properties                                                              *)

\* the n slots of a ring from one on
Slots(from, n, size) == [i \in 1..n |-> (from + i - 1) % size]
Distance(from, to, size) == (to + size - from) % size

\* The ring holds txHwCnt frames, those in the port are the last of them in their
\* order: a frame is never freed while the port sends it (HiethXmitReleasePkt infers
\* from two counts which frames are finished).  After a wait that lasted too long the event
\* that ends it is taken by the next sender, who finds no room (CanSendWoken).
RingExact ==
  ~expired =>
  /\ txHwCnt < TxSlots /\ Distance(txqTail, txqHead, TxSlots) = txHwCnt
  /\ Len(hwTx) <= txHwCnt
  /\ hwTx = Slots(txqTail + txHwCnt - Len(hwTx), Len(hwTx), TxSlots)

\* A frame is handed to the port only when it has room, and to the ring likewise,
\* although a woken sender does not test again (HiethCanSend).
SendsIntoRoom == ~expired /\ sender = "send" => Ready /\ ~RingFull

\* The driver and the port agree on the buffers: the slots from rxRelease to rxFeed
\* hold, in this order, the frame in hand, what the port filled and what it can still fill;
\* so the buffer EthDrvRecv looks up and passes up is that of the frame the port reported,
\* although it takes the frame and counts it without the lock HiethFeedHw holds.
RxMatch ==
  inHand \o hwFull \o hwRx
    = Slots(rxRelease, Distance(rxRelease % RxSlots, rxFeed, RxSlots), RxSlots)

\* A port that has run out of buffers gets some again, whatever allocations failed and
\* although it then raises no interrupt.
RxRevives == (hwRx = <<>>) ~> (hwRx # <<>>)
=============================================================================
