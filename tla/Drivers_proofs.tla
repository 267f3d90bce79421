--------------------------- MODULE Drivers_proofs ---------------------------
(***************************************************************************)
(* Proofs about the rings of the drivers, for every size of them:          *)
(* HiethQueues, where driver and port agree on frames and buffers, and     *)
(* UartRing, whose two indices and their bytes are a queue (UartFifo).     *)
(***************************************************************************)
EXTENDS HiethQueues, UartRing, NumberLemmas, SequenceTheorems, TLAPS

----------------------------------------------------------------------------
(* The slots of a ring, as HiethQueues names them                          *)

LEMMA SlotsAre ==
  ASSUME NEW M \in Nat \ {0}, NEW a \in Int, NEW n \in Nat
  PROVE  /\ Slots(a, n, M) \in Seq(0..M - 1) /\ Len(Slots(a, n, M)) = n
         /\ \A i \in 1..n : Slots(a, n, M)[i] = (a + i - 1) % M
<1>1. \A i \in 1..n : (a + i - 1) % M \in 0..M - 1
  BY ModRange
<1>2. QED BY <1>1 DEF Slots

\* a sequence is a stretch of the ring when its elements are
LEMMA SlotsIs ==
  ASSUME NEW M \in Nat \ {0}, NEW a \in Int, NEW s \in Seq(0..M - 1),
         \A i \in 1..Len(s) : s[i] = (a + i - 1) % M
  PROVE  s = Slots(a, Len(s), M)
<1>1. Len(s) \in Nat /\ DOMAIN s = 1..Len(s)
  OBVIOUS
<1>2. QED BY <1>1 DEF Slots

LEMMA ModWithin == \A M \in Nat \ {0} : \A a \in 0..M - 1 : a % M = a
<1> SUFFICES ASSUME NEW M \in Nat \ {0}, NEW a \in 0..M - 1 PROVE a % M = a
  OBVIOUS
<1>1. a = 0 * M + a
  OBVIOUS
<1>2. QED BY <1>1, ModIs

LEMMA ModTwice == \A M \in Nat \ {0}, a \in Int : (a % M) % M = a % M
BY ModRange, ModWithin

LEMMA SlotsAgain ==
  ASSUME NEW M \in Nat \ {0}, NEW a \in Int, NEW b \in Int, NEW n \in Nat, a % M = b % M
  PROVE  Slots(a, n, M) = Slots(b, n, M)
<1>1. ASSUME NEW i \in 1..n PROVE (a + i - 1) % M = (b + i - 1) % M
  <2>1. PICK j \in Int : j = i - 1
    OBVIOUS
  <2>2. ((a % M) + j) % M = (a + j) % M /\ ((b % M) + j) % M = (b + j) % M
    BY ModAdd
  <2>3. (a + j) % M = (b + j) % M
    BY <2>2
  <2>4. a + i - 1 = a + j /\ b + i - 1 = b + j
    BY <2>1
  <2>5. QED BY <2>3, <2>4
<1>2. QED BY <1>1 DEF Slots

LEMMA SlotsTail ==
  ASSUME NEW M \in Nat \ {0}, NEW a \in Int, NEW n \in Nat \ {0}
  PROVE  Tail(Slots(a, n, M)) = Slots(a + 1, n - 1, M)
<1> DEFINE s == Slots(a, n, M)
<1>1. s \in Seq(0..M - 1) /\ Len(s) = n /\ \A i \in 1..n : s[i] = (a + i - 1) % M
  BY SlotsAre
<1> HIDE DEF s
<1>2. Tail(s) \in Seq(0..M - 1) /\ Len(Tail(s)) = n - 1
      /\ \A i \in 1..n - 1 : Tail(s)[i] = s[i + 1]
  BY <1>1
<1>3. ASSUME NEW i \in 1..n - 1 PROVE Tail(s)[i] = ((a + 1) + i - 1) % M
  <2>1. i + 1 \in 1..n /\ a + (i + 1) - 1 = (a + 1) + i - 1
    OBVIOUS
  <2>2. QED BY <1>1, <1>2, <2>1
<1>4. a + 1 \in Int
  OBVIOUS
<1>5. Tail(s) = Slots(a + 1, Len(Tail(s)), M)
  BY <1>2, <1>3, <1>4, SlotsIs
<1>6. QED BY <1>2, <1>5 DEF s

LEMMA SlotsAppend ==
  ASSUME NEW M \in Nat \ {0}, NEW a \in Int, NEW n \in Nat, NEW e, e = (a + n) % M
  PROVE  Append(Slots(a, n, M), e) = Slots(a, n + 1, M)
<1> DEFINE s == Slots(a, n, M)
<1>1. s \in Seq(0..M - 1) /\ Len(s) = n /\ \A i \in 1..n : s[i] = (a + i - 1) % M
  BY SlotsAre
<1>2. e \in 0..M - 1
  BY ModRange
<1> HIDE DEF s
<1>3. Append(s, e) \in Seq(0..M - 1) /\ Len(Append(s, e)) = n + 1
      /\ \A i \in 1..n + 1 : Append(s, e)[i] = IF i = n + 1 THEN e ELSE s[i]
  BY <1>1, <1>2
<1>4. ASSUME NEW i \in 1..n + 1 PROVE Append(s, e)[i] = (a + i - 1) % M
  <2>1. CASE i = n + 1
    <3>1. a + i - 1 = a + n
      BY <2>1
    <3>2. QED BY <1>3, <2>1, <3>1
  <2>2. CASE i # n + 1
    <3>1. i \in 1..n
      BY <2>2
    <3>2. QED BY <1>1, <1>3, <2>2, <3>1
  <2>3. QED BY <2>1, <2>2
<1>5. Append(s, e) = Slots(a, Len(Append(s, e)), M)
  BY <1>3, <1>4, SlotsIs
<1>6. QED BY <1>3, <1>5 DEF s

\* the distance of two indices, where the second is d slots on
LEMMA DistanceIs ==
  ASSUME NEW M \in Nat \ {0}, NEW a \in 0..M - 1, NEW d \in 0..M - 1, NEW b, b = (a + d) % M
  PROVE  Distance(a, b, M) = d
<1>1. PICK x \in Int : x = a + d
  OBVIOUS
<1>2. PICK k \in Int : x = k * M + (x % M)
  BY ModSplit
<1>3. b \in 0..M - 1 /\ b = x % M
  BY <1>1, ModRange
<1>4. b + M - a = (1 - k) * M + d
  BY <1>1, <1>2, <1>3
<1>5. b + M - a \in Int /\ 1 - k \in Int
  BY <1>3
<1>6. (b + M - a) % M = d
  BY <1>4, <1>5, ModIs
<1>7. QED BY <1>6 DEF Distance

----------------------------------------------------------------------------
(* The ring of frames under transmission                                   *)

\* the ring from tail to head holds cnt frames, of which the port has the last ones
RingIs(M, tail, head, cnt, hw) ==
  /\ cnt < M /\ head = (tail + cnt) % M
  /\ Len(hw) <= cnt
  /\ hw = Slots(tail + cnt - Len(hw), Len(hw), M)

\* indices that move on with the ring
LEMMA RingMoves ==
  ASSUME NEW M \in Nat \ {0}, NEW x \in Int, NEW n \in Nat
  PROVE  ((x % M) + n) % M = (x + n) % M /\ Slots(x % M, n, M) = Slots(x, n, M)
<1>1. x % M \in Int
  BY ModRange
<1>2. (x % M) % M = x % M
  BY ModTwice
<1>3. Slots(x % M, n, M) = Slots(x, n, M)
  BY <1>1, <1>2, SlotsAgain
<1>4. ((x % M) + n) % M = (x + n) % M
  <2>1. n \in Int
    OBVIOUS
  <2>2. QED BY <2>1, ModAdd
<1>5. QED BY <1>3, <1>4

\* the frames that are no longer in the port are freed
LEMMA RingReleased ==
  ASSUME NEW M \in Nat \ {0}, NEW tail \in 0..M - 1, NEW head \in 0..M - 1, NEW cnt \in Nat, NEW hw \in Seq(0..M - 1),
         RingIs(M, tail, head, cnt, hw)
  PROVE  RingIs(M, (tail + (cnt - Len(hw))) % M, head, Len(hw), hw)
<1>1. PICK n \in Nat : n = Len(hw)
  OBVIOUS
<1>2. PICK x \in Int : x = tail + (cnt - n)
  OBVIOUS
<1>3. ((x % M) + n) % M = (x + n) % M /\ Slots(x % M, n, M) = Slots(x, n, M)
  BY RingMoves
<1>4. x + n = tail + cnt /\ tail + cnt - n = x
  BY <1>2
<1>5. PICK t \in 0..M - 1 : t = x % M
  BY ModRange
<1>6. t \in Int
  OBVIOUS
<1>7. t + n - n = t
  OBVIOUS
<1>8. head = (t + n) % M /\ hw = Slots(t + n - n, n, M) /\ n <= n /\ n < M
  <2>1. head = (tail + cnt) % M /\ cnt < M /\ n <= cnt /\ hw = Slots(tail + cnt - n, n, M)
    BY <1>1 DEF RingIs
  <2>2. head = (x + n) % M
    BY <1>4, <2>1
  <2>3. hw = Slots(x, n, M)
    BY <1>4, <2>1
  <2>4. n < M
    BY <2>1
  <2>5. QED BY <1>3, <1>5, <1>7, <2>2, <2>3, <2>4
<1>9. QED BY <1>1, <1>2, <1>5, <1>8 DEF RingIs

\* a frame is put into the ring and given to the port
LEMMA RingSent ==
  ASSUME NEW M \in Nat \ {0}, NEW tail \in 0..M - 1, NEW head \in 0..M - 1, NEW cnt \in Nat, NEW hw \in Seq(0..M - 1),
         RingIs(M, tail, head, cnt, hw), cnt + 1 < M
  PROVE  RingIs(M, tail, Next1(head, M), cnt + 1, Append(hw, head))
<1>1. PICK n \in Nat : n = Len(hw)
  OBVIOUS
<1>2. PICK x \in Int : x = tail + cnt - n
  OBVIOUS
<1>3. x + n = tail + cnt /\ head = (x + n) % M /\ hw = Slots(x, n, M)
  BY <1>1, <1>2 DEF RingIs
<1>4. Append(hw, head) = Slots(x, n + 1, M)
  BY <1>3, SlotsAppend
<1>5. Len(Append(hw, head)) = n + 1
  BY <1>1
<1>6. Next1(head, M) = (tail + (cnt + 1)) % M
  <2>1. PICK y \in Int : y = tail + cnt
    OBVIOUS
  <2>2. ((y % M) + 1) % M = (y + 1) % M
    BY RingMoves
  <2>3. y + 1 = tail + (cnt + 1) /\ head = y % M
    BY <2>1 DEF RingIs
  <2>4. QED BY <2>2, <2>3 DEF Next1
<1>7. tail + (cnt + 1) - (n + 1) = x /\ n + 1 <= cnt + 1
  BY <1>1, <1>2 DEF RingIs
<1>8. QED BY <1>4, <1>5, <1>6, <1>7 DEF RingIs

\* the port has sent its oldest frame
LEMMA RingShrinks ==
  ASSUME NEW M \in Nat \ {0}, NEW tail \in 0..M - 1, NEW head \in 0..M - 1, NEW cnt \in Nat, NEW hw \in Seq(0..M - 1),
         RingIs(M, tail, head, cnt, hw), hw # <<>>
  PROVE  RingIs(M, tail, head, cnt, Tail(hw))
<1>1. PICK n \in Nat \ {0} : n = Len(hw)
  BY EmptySeq
<1>2. PICK x \in Int : x = tail + cnt - n
  OBVIOUS
<1>3. hw = Slots(x, n, M)
  BY <1>1, <1>2 DEF RingIs
<1>4. Tail(hw) = Slots(x + 1, n - 1, M)
  BY <1>3, SlotsTail
<1>5. Len(Tail(hw)) = n - 1
  BY <1>1
<1>6. tail + cnt - (n - 1) = x + 1 /\ n - 1 <= cnt
  BY <1>1, <1>2 DEF RingIs
<1>7. QED BY <1>4, <1>5, <1>6 DEF RingIs

\* the test of HiethCanSend for a free slot compares the indices
LEMMA RingHasRoom ==
  ASSUME NEW M \in Nat \ {0}, NEW tail \in 0..M - 1, NEW head \in 0..M - 1, NEW cnt \in Nat, NEW hw \in Seq(0..M - 1),
         RingIs(M, tail, head, cnt, hw)
  PROVE  Next1(head, M) = tail <=> cnt + 1 = M
<1>1. PICK y \in Int : y = tail + cnt
  OBVIOUS
<1>2. ((y % M) + 1) % M = (y + 1) % M
  BY RingMoves
<1>3. Next1(head, M) = (y + 1) % M
  BY <1>1, <1>2 DEF RingIs, Next1
<1>4. PICK z \in Int : z = y + 1
  OBVIOUS
<1>5. tail % M = tail
  BY ModWithin
<1>6. ASSUME cnt + 1 = M PROVE z % M = tail
  <2>1. z = 1 * M + tail /\ tail \in 0..M - 1
    BY <1>1, <1>4, <1>6
  <2>2. QED BY <2>1, ModIs
<1>7. ASSUME z % M = tail PROVE cnt + 1 = M
  <2>1. SUFFICES ASSUME cnt + 1 < M PROVE FALSE
    BY DEF RingIs
  <2>2. z - tail < M /\ tail - z < M
    BY <1>1, <1>4, <2>1
  <2>3. tail \in Int /\ z % M = tail % M
    BY <1>5, <1>7
  <2>4. z = tail
    BY <2>2, <2>3, ModSame
  <2>5. QED BY <1>1, <1>4, <2>4
<1>8. QED BY <1>3, <1>4, <1>6, <1>7

\* the oldest of the buffers, all of which the port had, is passed up
LEMMA RingTaken ==
  ASSUME NEW M \in Nat \ {0}, NEW tail \in 0..M - 1, NEW head \in 0..M - 1, NEW hw \in Seq(0..M - 1),
         RingIs(M, tail, head, Len(hw), hw), hw # <<>>
  PROVE  RingIs(M, Next1(tail, M), head, Len(Tail(hw)), Tail(hw))
<1>1. PICK n \in Nat \ {0} : n = Len(hw)
  BY EmptySeq
<1>2. head = (tail + n) % M /\ n < M /\ hw = Slots(tail, n, M)
  <2>1. tail + n - n = tail
    OBVIOUS
  <2>2. QED BY <1>1, <2>1 DEF RingIs
<1>3. PICK k \in Nat : k = n - 1
  OBVIOUS
<1>4. Tail(hw) = Slots(tail + 1, k, M) /\ Len(Tail(hw)) = k
  <2>1. tail \in Int
    OBVIOUS
  <2>2. Tail(Slots(tail, n, M)) = Slots(tail + 1, n - 1, M)
    BY <2>1, SlotsTail
  <2>3. Len(Tail(hw)) = Len(hw) - 1
    OBVIOUS
  <2>4. QED BY <1>1, <1>2, <1>3, <2>2, <2>3
<1>5. PICK x \in Int : x = tail + 1
  OBVIOUS
<1>6. ((x % M) + k) % M = (x + k) % M /\ Slots(x % M, k, M) = Slots(x, k, M)
  BY RingMoves
<1>7. PICK t \in 0..M - 1 : t = x % M
  BY ModRange
<1>8. x + k = tail + n /\ t + k - k = t /\ k < M
  BY <1>2, <1>3, <1>5
<1>9. head = (t + k) % M /\ Tail(hw) = Slots(t, k, M)
  BY <1>2, <1>4, <1>5, <1>6, <1>7, <1>8
<1>10. Next1(tail, M) = t
  BY <1>5, <1>7 DEF Next1
<1>11. Tail(hw) = Slots(t + k - k, k, M)
  BY <1>8, <1>9
<1>12. RingIs(M, t, head, k, Tail(hw))
  <2>1. k <= k
    OBVIOUS
  <2>2. QED BY <1>4, <1>8, <1>9, <1>11, <2>1 DEF RingIs
<1>13. QED BY <1>4, <1>10, <1>12

----------------------------------------------------------------------------
(* HiethQueues.  Until a wait lasts too long: the flag txBusy and the      *)
(* event "CAN_SEND" are only there while the sender waits, and when the    *)
(* event is, or the sender is about to send, there is room.  A sender who  *)
(* finds the port full has just released what is finished, so whatever is  *)
(* released later has left the port.                                       *)

LEMMA EthSizes ==
  /\ TxSlots \in Nat \ {0} /\ XmitDepth \in Nat /\ XmitDepth < TxSlots
  /\ RxSlots \in Nat \ {0} /\ RecvDepth \in Nat /\ RecvDepth < RxSlots
BY EthAssumption

MaySend == sender = "send" \/ (sender = "wait" /\ "CAN_SEND" \in stEvent)

TxIInv ==
  /\ RingIs(TxSlots, txqTail, txqHead, txHwCnt, hwTx)
  /\ sender # "wait" => ~txBusy /\ "CAN_SEND" \notin stEvent
  /\ txBusy => "CAN_SEND" \notin stEvent
  /\ sender \in {"check", "wait"} => Ready \/ txHwCnt = Len(hwTx)
  /\ MaySend => Ready /\ txHwCnt + 1 < TxSlots

\* the frame in hand and all buffers of the port, those it filled first
Buffers == inHand \o hwFull \o hwRx

RxIInv ==
  /\ rxRelease = RxSlots <=> dsr = "wrap"
  /\ inHand # <<>> <=> dsr \in {"take", "count"}
  /\ RingIs(RxSlots, rxRelease % RxSlots, rxFeed, Len(Buffers), Buffers)

EthIInv == EthTypeOK /\ RxIInv /\ (~expired => TxIInv)

\* a step that leaves transmission alone
TxQuiet ==
  /\ UNCHANGED <<txVars, sendVars>>
  /\ "CAN_SEND" \in stEvent' <=> "CAN_SEND" \in stEvent

LEMMA TxQuietKeeps == (~expired => TxIInv) /\ TxQuiet => (~expired => TxIInv)'
BY DEF TxQuiet, TxIInv, txVars, sendVars, MaySend, Ready

\* a step that leaves reception alone
RxQuiet ==
  /\ UNCHANGED rxVars
  /\ dsr' = "wrap" <=> dsr = "wrap"
  /\ dsr' \in {"take", "count"} <=> dsr \in {"take", "count"}

LEMMA RxQuietKeeps == RxIInv /\ RxQuiet => RxIInv'
BY DEF RxQuiet, RxIInv, rxVars, Buffers

LEMMA ReleaseType ==
  ASSUME EthTypeOK, XmitReleasePkt
  PROVE  /\ txqTail' \in TxRing /\ txHwCnt' \in Nat /\ txBusy' \in BOOLEAN
         /\ stEvent' \subseteq {"TX_RX", "CAN_SEND"}
         /\ txqHead' = txqHead /\ hwTx' = hwTx
<1>0. Len(hwTx) \in Nat /\ txHwCnt \in Nat
  BY DEF EthTypeOK
<1>1. PICK n \in Nat : n = Finished(Len(hwTx)) /\ n <= txHwCnt
  BY <1>0 DEF Finished
<1>2. txqTail' = (txqTail + n) % TxSlots /\ txHwCnt' = txHwCnt - n
  BY <1>1 DEF XmitReleasePkt
<1>3. PICK x \in Int : x = txqTail + n
  BY DEF EthTypeOK, TxRing
<1>4. x % TxSlots \in 0..TxSlots - 1
  BY EthSizes, ModRange
<1>5. txBusy' \in BOOLEAN
  BY Zenon DEF XmitReleasePkt, WakeSender, EthTypeOK
<1>6. txqTail' \in TxRing /\ txHwCnt' \in Nat
  BY <1>0, <1>1, <1>2, <1>3, <1>4 DEF TxRing
<1>7. stEvent' \subseteq {"TX_RX", "CAN_SEND"}
  BY DEF XmitReleasePkt, WakeSender, EthTypeOK
<1>8. QED BY <1>5, <1>6, <1>7 DEF XmitReleasePkt

\* after a release the ring holds what the port has; who waits is only woken into room
LEMMA ReleaseKeeps ==
  ASSUME EthTypeOK, TxIInv, XmitReleasePkt
  PROVE  /\ RingIs(TxSlots, txqTail', txqHead', txHwCnt', hwTx') /\ txHwCnt' = Len(hwTx')
         /\ sender # "wait" => ~txBusy' /\ "CAN_SEND" \notin stEvent'
         /\ txBusy' => "CAN_SEND" \notin stEvent'
         /\ "CAN_SEND" \in stEvent' \ stEvent => Ready' /\ txHwCnt' + 1 < TxSlots
<1>1. PICK k \in Nat : k = Len(hwTx)
  BY DEF EthTypeOK
<1>2. k <= txHwCnt /\ txHwCnt < TxSlots /\ txHwCnt \in Nat
  BY <1>1 DEF TxIInv, RingIs, EthTypeOK
<1>3. Finished(Len(hwTx)) = txHwCnt - k
  BY <1>1, <1>2 DEF Finished
<1>4. txqTail' = (txqTail + (txHwCnt - Len(hwTx))) % TxSlots /\ txHwCnt' = k
      /\ txqHead' = txqHead /\ hwTx' = hwTx
  BY <1>1, <1>2, <1>3 DEF XmitReleasePkt
<1>5. RingIs(TxSlots, txqTail', txqHead', txHwCnt', hwTx')
  BY <1>1, <1>4, EthSizes, RingReleased DEF TxIInv, EthTypeOK, TxRing
<1>6. /\ sender # "wait" => ~txBusy' /\ "CAN_SEND" \notin stEvent'
      /\ txBusy' => "CAN_SEND" \notin stEvent'
  <2>1. PICK n : n = Finished(Len(hwTx))
    OBVIOUS
  <2>2. /\ txBusy' = (txBusy /\ n = 0)
        /\ stEvent' = IF n > 0 /\ txBusy THEN stEvent \cup {"CAN_SEND"} ELSE stEvent
    BY <2>1 DEF XmitReleasePkt, WakeSender
  <2>3. n = 0 => ~(n > 0)
    OBVIOUS
  <2>4. QED BY <2>2, <2>3 DEF TxIInv
<1>7. ASSUME "CAN_SEND" \in stEvent' \ stEvent PROVE Ready' /\ txHwCnt' + 1 < TxSlots
  <2>1. txHwCnt - k > 0 /\ txBusy
    BY <1>2, <1>3, <1>7 DEF XmitReleasePkt, WakeSender
  <2>2. sender = "wait"
    BY <2>1 DEF TxIInv
  <2>3. Ready
    BY <1>1, <2>1, <2>2 DEF TxIInv
  <2>4. QED BY <1>2, <1>4, <2>1, <2>3, EthSizes DEF Ready
<1>8. txHwCnt' = Len(hwTx')
  BY <1>1, <1>4
<1>9. QED BY <1>5, <1>6, <1>7, <1>8

LEMMA TxStep ==
  ASSUME EthTypeOK, ~expired => TxIInv, EthNext, ~expired'
  PROVE  TxIInv'
<1>1. ~expired /\ TxIInv
  BY DEF EthNext, Waits, SendBegin, SenderStep, CanSendTest, CanSendCheck, CanSendWoken, Send,
     CanSendTimesOut, DsrStep, Wakes, Releases, ClearsTxRdy, ReadsIrqStatus, RecvTakes,
     RecvLooksUp, RecvCounts, RecvWraps, RecvDone, Refilled, ClearsIrqs, Unmasks, FeedStep, FeedOne, MonitorFires, MonitorDone, Isr,
     PortSent, PortReceived, hieth, sendVars
<1> USE <1>1
<1> SUFFICES ASSUME ~TxQuiet PROVE TxIInv'
  BY TxQuietKeeps
<1>2. CASE SendBegin
  BY <1>2 DEF SendBegin, TxIInv, MaySend, txVars
<1>3. CASE CanSendTest
  <2>1. CASE Ready
    BY <1>3, <2>1 DEF CanSendTest, TxIInv, MaySend, txVars, Ready
  <2>2. CASE ~Ready
    <3>1. XmitReleasePkt
      BY <1>3, <2>2 DEF CanSendTest
    <3>2. sender = "test" /\ sender' = "check"
      BY <1>3 DEF CanSendTest
    <3>3. QED BY <3>1, <3>2, ReleaseKeeps DEF TxIInv, MaySend
  <2>3. QED BY <2>1, <2>2
<1>4. CASE CanSendCheck
  <2>1. RingFull <=> txHwCnt + 1 = TxSlots
    BY RingHasRoom, EthSizes DEF RingFull, TxIInv, EthTypeOK, TxRing
  <2>2. txHwCnt < TxSlots
    BY DEF TxIInv, RingIs
  <2>3. CASE ~Ready \/ RingFull
    BY <1>4, <2>3 DEF CanSendCheck, TxIInv, MaySend, Ready
  <2>4. CASE ~(~Ready \/ RingFull)
    <3>1. txHwCnt + 1 < TxSlots
      BY <2>1, <2>2, <2>4, EthSizes DEF EthTypeOK
    <3>2. QED BY <1>4, <2>4, <3>1 DEF CanSendCheck, TxIInv, MaySend, Ready
  <2>5. QED BY <2>3, <2>4
<1>5. CASE CanSendWoken
  <2>1. ~txBusy
    BY <1>5 DEF CanSendWoken, TxIInv
  <2>2. QED BY <1>5, <2>1 DEF CanSendWoken, TxIInv, MaySend, Ready, txVars
<1>6. CASE Send
  <2>1. Ready /\ txHwCnt + 1 < TxSlots
    BY <1>6 DEF Send, TxIInv, MaySend
  <2>2. RingIs(TxSlots, txqTail, Next1(txqHead, TxSlots), txHwCnt + 1, Append(hwTx, txqHead))
    BY <2>1, RingSent, EthSizes DEF TxIInv, EthTypeOK, TxRing
  <2>3. QED BY <1>6, <2>1, <2>2 DEF Send, TxIInv, MaySend
<1>7. CASE Releases
  <2>1. XmitReleasePkt /\ sender' = sender
    BY <1>7 DEF Releases, sendVars
  <2>2. "CAN_SEND" \in stEvent => "CAN_SEND" \in stEvent'
    BY <2>1 DEF XmitReleasePkt, WakeSender
  <2>3. hwTx' = hwTx
    BY <2>1 DEF XmitReleasePkt
  <2>4. Len(hwTx) \in Nat /\ txHwCnt \in Nat /\ Len(hwTx) <= txHwCnt
    BY DEF TxIInv, RingIs, EthTypeOK
  <2>5. /\ RingIs(TxSlots, txqTail', txqHead', txHwCnt', hwTx') /\ txHwCnt' = Len(hwTx)
        /\ sender # "wait" => ~txBusy' /\ "CAN_SEND" \notin stEvent'
        /\ txBusy' => "CAN_SEND" \notin stEvent'
        /\ "CAN_SEND" \in stEvent' \ stEvent => Ready' /\ txHwCnt' + 1 < TxSlots
    BY <2>1, <2>3, ReleaseKeeps
  <2>6. MaySend' => Ready' /\ txHwCnt' + 1 < TxSlots
    <3>1. SUFFICES ASSUME MaySend' PROVE Ready' /\ txHwCnt' + 1 < TxSlots
      OBVIOUS
    <3>2. CASE MaySend
      <4>1. Ready /\ txHwCnt + 1 < TxSlots
        BY <3>2 DEF TxIInv
      <4>2. Len(hwTx) + 1 < TxSlots
        BY <2>4, <4>1, EthSizes
      <4>3. QED BY <2>3, <2>5, <4>1, <4>2 DEF Ready
    <3>3. CASE ~MaySend
      BY <2>1, <2>5, <3>1, <3>3 DEF MaySend
    <3>4. QED BY <3>2, <3>3
  <2>7. QED BY <2>1, <2>3, <2>5, <2>6 DEF TxIInv
<1>8. CASE PortSent
  <2>1. RingIs(TxSlots, txqTail, txqHead, txHwCnt, Tail(hwTx)) /\ Len(Tail(hwTx)) = Len(hwTx) - 1
    BY <1>8, RingShrinks, EthSizes, SMTT(30) DEF PortSent, TxIInv, EthTypeOK, TxRing
  <2>2. Len(Tail(hwTx)) < XmitDepth
    <3>1. PICK k \in Nat : k = Len(hwTx)
      BY DEF EthTypeOK
    <3>2. k <= XmitDepth
      BY <3>1 DEF EthTypeOK
    <3>3. QED BY <2>1, <3>1, <3>2, EthSizes
  <2>3. QED BY <1>8, <2>1, <2>2 DEF PortSent, TxIInv, MaySend, Ready, sendVars
<1>9. ~Waits /\ ~CanSendTimesOut
  BY DEF Waits, CanSendTimesOut, hieth, TxQuiet
<1>10. ~FeedStep /\ ~Isr /\ ~PortReceived
  BY DEF FeedStep, FeedOne, MonitorFires, MonitorDone, Isr, PortReceived, TxQuiet, sendVars
<1>11. DsrStep => Releases
  BY DEF DsrStep, Wakes, ClearsTxRdy, ReadsIrqStatus, RecvTakes, RecvLooksUp, RecvCounts,
     RecvWraps, RecvDone, Refilled, ClearsIrqs, Unmasks, TxQuiet, sendVars
<1>12. QED
  BY <1>2, <1>3, <1>4, <1>5, <1>6, <1>7, <1>8, <1>9, <1>10, <1>11 DEF EthNext, SenderStep

LEMMA AtMostOne == \A k \in Nat : k <= 1 => k \in {0, 1}
OBVIOUS

LEMMA BuffersType ==
  ASSUME EthTypeOK
  PROVE  /\ Buffers \in Seq(0..RxSlots - 1) /\ Len(Buffers) = Len(inHand) + Len(hwFull) + Len(hwRx)
         /\ Len(hwFull) \in Nat /\ Len(hwRx) \in Nat /\ Len(inHand) \in {0, 1}
         /\ rxRelease % RxSlots \in 0..RxSlots - 1 /\ rxFeed \in 0..RxSlots - 1
<1>1. rxRelease % RxSlots \in 0..RxSlots - 1
  BY EthSizes, ModRange DEF EthTypeOK
<1>2. /\ inHand \in Seq(0..RxSlots - 1) /\ hwFull \in Seq(0..RxSlots - 1)
      /\ hwRx \in Seq(0..RxSlots - 1) /\ rxFeed \in 0..RxSlots - 1 /\ Len(inHand) <= 1
  BY DEF EthTypeOK, RxRing
<1>3. PICK s \in Seq(0..RxSlots - 1) : s = inHand \o hwFull
  BY <1>2, ConcatProperties
<1>4. Len(s) = Len(inHand) + Len(hwFull)
  BY <1>2, <1>3, ConcatProperties
<1>5. s \o hwRx \in Seq(0..RxSlots - 1) /\ Len(s \o hwRx) = Len(s) + Len(hwRx)
  BY <1>2, ConcatProperties
<1>6. Len(inHand) \in Nat /\ Len(hwFull) \in Nat /\ Len(hwRx) \in Nat
  BY <1>2, LenProperties
<1>7. Len(inHand) \in {0, 1}
  BY <1>2, <1>6, AtMostOne
<1>8. QED BY <1>1, <1>2, <1>3, <1>4, <1>5, <1>6, <1>7 DEF Buffers

LEMMA OneIsSeq ==
  ASSUME NEW S, NEW e \in S
  PROVE  <<e>> \in Seq(S) /\ Len(<<e>>) = 1 /\ <<e>>[1] = e
OBVIOUS

LEMMA HeadFirst ==
  ASSUME NEW S, NEW f \in Seq(S), NEW t \in Seq(S), f # <<>>
  PROVE  <<Head(f)>> \o Tail(f) \o t = <<>> \o f \o t
<1>1. PICK n \in Nat \ {0} : n = Len(f)
  BY EmptySeq
<1>2. PICK h \in Seq(S) : h = <<Head(f)>>
  BY HeadTailProperties, OneIsSeq
<1>3. Len(h) = 1 /\ h[1] = f[1]
  <2>1. Head(f) = f[1] /\ Head(f) \in S
    BY HeadTailProperties
  <2>2. QED BY <1>2, <2>1, OneIsSeq
<1>4. PICK r \in Seq(S) : r = Tail(f)
  BY HeadTailProperties
<1>5. Len(r) = n - 1 /\ \A i \in 1..n - 1 : r[i] = f[i + 1]
  BY <1>1, <1>4, HeadTailProperties
<1>6. h \o r \in Seq(S) /\ Len(h \o r) = n
      /\ \A i \in 1..n : (h \o r)[i] = IF i <= 1 THEN h[i] ELSE r[i - 1]
  <2>1. h \o r \in Seq(S) /\ Len(h \o r) = Len(h) + Len(r)
    BY ConcatProperties
  <2>2. \A i \in 1..Len(h) + Len(r) : (h \o r)[i] = IF i <= Len(h) THEN h[i] ELSE r[i - Len(h)]
    BY ConcatProperties
  <2>3. Len(h) + Len(r) = n
    BY <1>3, <1>5
  <2>4. QED BY <1>3, <2>1, <2>2, <2>3
<1>7. ASSUME NEW i \in 1..n PROVE (h \o r)[i] = f[i]
  <2>1. CASE i = 1
    BY <1>3, <1>6, <2>1
  <2>2. CASE i # 1
    <3>1. i - 1 \in 1..n - 1 /\ (i - 1) + 1 = i /\ ~(i <= 1)
      BY <2>2
    <3>2. QED BY <1>5, <1>6, <3>1
  <2>3. QED BY <2>1, <2>2
<1>8. h \o r = f
  BY <1>1, <1>6, <1>7, SeqEqual
<1>9. <<>> \o f = f
  BY ConcatEmptySeq
<1>10. QED BY <1>2, <1>4, <1>8, <1>9

LEMMA TailOfOne ==
  ASSUME NEW S, NEW g \in Seq(S), NEW s \in Seq(S), Len(g) = 1
  PROVE  Tail(g \o s) = s /\ g \o s # <<>>
<1>1. PICK n \in Nat : n = Len(s)
  BY LenProperties
<1>2. PICK c \in Seq(S) : c = g \o s
  BY ConcatProperties
<1>3. Len(c) = n + 1 /\ \A i \in 1..n + 1 : c[i] = IF i <= 1 THEN g[i] ELSE s[i - 1]
  <2>1. Len(c) = Len(g) + Len(s)
    BY <1>2, ConcatProperties
  <2>2. \A i \in 1..Len(g) + Len(s) : c[i] = IF i <= Len(g) THEN g[i] ELSE s[i - Len(g)]
    BY <1>2, ConcatProperties
  <2>3. Len(g) + Len(s) = n + 1
    BY <1>1
  <2>4. QED BY <2>1, <2>2, <2>3
<1>4. c # <<>>
  BY <1>3, EmptySeq
<1>5. Tail(c) \in Seq(S) /\ Len(Tail(c)) = n
      /\ \A i \in 1..n : Tail(c)[i] = c[i + 1]
  BY <1>3, <1>4, HeadTailProperties
<1>6. ASSUME NEW i \in 1..n PROVE Tail(c)[i] = s[i]
  <2>1. i + 1 \in 1..n + 1 /\ ~(i + 1 <= 1) /\ (i + 1) - 1 = i
    OBVIOUS
  <2>2. QED BY <1>3, <1>5, <2>1
<1>7. Tail(c) = s
  BY <1>1, <1>5, <1>6, SeqEqual
<1>8. QED BY <1>2, <1>4, <1>7

LEMMA FirstCounted ==
  ASSUME NEW S, NEW g \in Seq(S), NEW f \in Seq(S), NEW t \in Seq(S), g # <<>>, Len(g) <= 1
  PROVE  <<>> \o f \o t = Tail(g \o f \o t) /\ g \o f \o t # <<>>
<1>1. Len(g) = 1
  <2>1. Len(g) \in Nat \ {0}
    BY EmptySeq
  <2>2. QED BY <2>1, AtMostOne
<1>2. <<>> \o f = f
  BY ConcatEmptySeq
<1>3. PICK s \in Seq(S) : s = f \o t
  BY ConcatProperties
<1>4. g \o f \o t = g \o s
  BY <1>3, ConcatAssociative
<1>5. QED BY <1>1, <1>2, <1>3, <1>4, TailOfOne

\* The port has room for one more only after the frame in hand was taken from it; then the test
\* of HiethFeedHw for a full ring still counts that frame.
LEMMA RoomForOne ==
  \A f, w, D, M \in Nat : f + w < D /\ D < M /\ 1 + f + w + 1 # M => 1 + f + w + 1 < M
OBVIOUS

LEMMA FedIntoRoom ==
  ASSUME EthTypeOK, RxIInv, FeedOne
  PROVE  Len(Buffers) + 1 < RxSlots
<1>1. PICK f \in Nat, h \in {0, 1}, w \in Nat :
        f = Len(hwFull) /\ h = Len(inHand) /\ w = Len(hwRx) /\ Len(Buffers) = h + f + w
  BY BuffersType
<1>2. w + f < RecvDepth /\ ~RxRingFull
  BY <1>1 DEF FeedOne, RecvReady
<1>3. CASE h = 0
  BY <1>1, <1>2, <1>3, EthSizes
<1>4. CASE h = 1
  <2>1. inHand # <<>>
    <3>1. Len(inHand) = 1
      BY <1>1, <1>4
    <3>2. Len(<<>>) = 0
      BY EmptySeq
    <3>3. QED BY <3>1, <3>2
  <2>2. rxRelease # RxSlots
    BY <2>1 DEF RxIInv
  <2>3. rxRelease \in 0..RxSlots - 1
    BY <2>2, EthSizes DEF EthTypeOK
  <2>4. rxRelease % RxSlots = rxRelease
    BY <2>3, EthSizes, ModWithin
  <2>5. PICK n \in Nat : n = Len(Buffers)
    BY <1>1
  <2>6. Next1(rxFeed, RxSlots) = rxRelease <=> n + 1 = RxSlots
    BY <2>3, <2>4, <2>5, BuffersType, EthSizes, RingHasRoom, SMTT(30) DEF RxIInv
  <2>7. n + 1 # RxSlots
    BY <1>2, <2>6 DEF RxRingFull
  <2>8. f + w < RecvDepth /\ RecvDepth < RxSlots /\ RecvDepth \in Nat /\ RxSlots \in Nat
    BY <1>2, EthSizes
  <2>9. 1 + f + w + 1 # RxSlots
    BY <1>1, <1>4, <2>5, <2>7
  <2>10. QED BY <1>1, <1>4, <2>8, <2>9, RoomForOne
<1>5. QED BY <1>3, <1>4

LEMMA RxStep ==
  ASSUME EthTypeOK, RxIInv, EthNext
  PROVE  RxIInv'
<1> SUFFICES ASSUME ~RxQuiet PROVE RxIInv'
  BY RxQuietKeeps
<1>1. CASE FeedOne
  <2>1. Len(Buffers) + 1 < RxSlots
    BY <1>1, FedIntoRoom
  <2>2. RingIs(RxSlots, rxRelease % RxSlots, Next1(rxFeed, RxSlots), Len(Buffers) + 1,
               Append(Buffers, rxFeed))
    BY <2>1, BuffersType, EthSizes, RingSent DEF RxIInv
  <2>3. Buffers' = Append(Buffers, rxFeed)
    BY <1>1, SMTT(30) DEF FeedOne, Buffers, EthTypeOK, RxRing
  <2>4. Len(Append(Buffers, rxFeed)) = Len(Buffers) + 1
    BY BuffersType
  <2>5. QED BY <1>1, <2>2, <2>3, <2>4 DEF FeedOne, RxIInv, dsrVars
<1>2. CASE RecvTakes
  <2>1. hwFull # <<>> /\ hwFull' = Tail(hwFull) /\ hwRx' = hwRx /\ inHand' = <<Head(hwFull)>>
        /\ inHand = <<>>
    BY <1>2 DEF RecvTakes, RxIInv
  <2>2. Buffers' = Buffers
    BY <2>1, HeadFirst DEF Buffers, EthTypeOK
  <2>3. QED BY <1>2, <2>2 DEF RecvTakes, RxIInv
<1>3. CASE RecvCounts
  <2>1. inHand # <<>> /\ inHand' = <<>> /\ hwFull' = hwFull /\ hwRx' = hwRx
        /\ rxRelease' = rxRelease + 1 /\ rxFeed' = rxFeed /\ rxRelease # RxSlots
    BY <1>3 DEF RecvCounts, Advance, RxIInv
  <2>2. rxRelease \in 0..RxSlots - 1
    BY <2>1, EthSizes DEF EthTypeOK
  <2>3. rxRelease % RxSlots = rxRelease
    BY <2>2, EthSizes, ModWithin
  <2>4. Buffers' = Tail(Buffers) /\ Buffers # <<>>
    <3>1. inHand \in Seq(RxRing) /\ hwFull \in Seq(RxRing) /\ hwRx \in Seq(RxRing) /\ Len(inHand) <= 1
      BY DEF EthTypeOK
    <3>2. Buffers' = <<>> \o hwFull \o hwRx
      BY <2>1 DEF Buffers
    <3>3. PICK g \in Seq(RxRing), f \in Seq(RxRing), t \in Seq(RxRing) :
            g = inHand /\ f = hwFull /\ t = hwRx
      BY <3>1
    <3>4. g # <<>> /\ Len(g) <= 1
      BY <2>1, <3>1, <3>3
    <3>5. <<>> \o f \o t = Tail(g \o f \o t) /\ g \o f \o t # <<>>
      BY <3>4, FirstCounted, SMTT(30)
    <3>6. QED BY <3>2, <3>3, <3>5 DEF Buffers
  <2>5. RingIs(RxSlots, Next1(rxRelease % RxSlots, RxSlots), rxFeed, Len(Tail(Buffers)),
               Tail(Buffers))
    BY <2>4, BuffersType, EthSizes, RingTaken DEF RxIInv
  <2>6. RingIs(RxSlots, rxRelease' % RxSlots, rxFeed', Len(Buffers'), Buffers')
    BY <2>1, <2>3, <2>4, <2>5 DEF Next1
  <2>7. (rxRelease' = RxSlots <=> dsr' = "wrap") /\ dsr' \notin {"take", "count"}
    BY <1>3, <2>1 DEF RecvCounts
  <2>8. QED BY <2>1, <2>6, <2>7 DEF RxIInv
<1>4. CASE RecvLooksUp
  BY <1>4 DEF RecvLooksUp, RxQuiet
<1>5. CASE RecvWraps
  <2>1. rxRelease = RxSlots /\ rxRelease' = 0 /\ dsr' = "recv"
    BY <1>5 DEF RecvWraps, RxIInv
  <2>2. RxSlots % RxSlots = 0 /\ 0 % RxSlots = 0
    <3>1. RxSlots = 1 * RxSlots + 0 /\ 0 = 0 * RxSlots + 0 /\ 0 \in 0..RxSlots - 1
      BY EthSizes
    <3>2. QED BY <3>1, EthSizes, ModIs
  <2>3. UNCHANGED <<Buffers, rxFeed, inHand>> /\ dsr = "wrap"
    BY <1>5 DEF RecvWraps, Buffers
  <2>4. RxSlots # 0
    BY EthSizes
  <2>5. QED BY <2>1, <2>2, <2>3, <2>4 DEF RxIInv
<1>6. CASE PortReceived
  <2>1. hwRx # <<>> /\ hwRx' = Tail(hwRx) /\ hwFull' = Append(hwFull, Head(hwRx))
    BY <1>6 DEF PortReceived
  <2>2. Buffers' = Buffers
    <3>1. inHand \in Seq(RxRing) /\ hwFull \in Seq(RxRing) /\ hwRx \in Seq(RxRing)
      BY DEF EthTypeOK
    <3>2. hwFull' \o hwRx' = hwFull \o hwRx
      BY <2>1, <3>1
    <3>3. inHand' = inHand
      BY <1>6 DEF PortReceived
    <3>4. (inHand \o hwFull') \o hwRx' = inHand \o (hwFull' \o hwRx')
      <4>1. hwFull' \in Seq(RxRing) /\ hwRx' \in Seq(RxRing)
        BY <2>1, <3>1
      <4>2. PICK g \in Seq(RxRing), f \in Seq(RxRing), t \in Seq(RxRing) :
              g = inHand /\ f = hwFull' /\ t = hwRx'
        BY <3>1, <4>1
      <4>3. (g \o f) \o t = g \o (f \o t)
        BY ConcatAssociative
      <4>4. QED BY <4>2, <4>3
    <3>5. (inHand \o hwFull) \o hwRx = inHand \o (hwFull \o hwRx)
      BY <3>1, ConcatAssociative
    <3>6. QED BY <3>2, <3>3, <3>4, <3>5 DEF Buffers
  <2>3. QED BY <1>6, <2>2 DEF PortReceived, RxIInv, dsrVars
<1>7. CASE RecvDone
  BY <1>7 DEF RecvDone, FeedBegin, RxIInv, Buffers
<1>8. CASE Refilled
  BY <1>8 DEF Refilled, FeedEnd, RxIInv, Buffers
<1>9. CASE MonitorFires \/ MonitorDone
  BY <1>9 DEF MonitorFires, MonitorDone, FeedBegin, FeedEnd, RxIInv, Buffers, dsrVars
<1>10. ~Waits /\ ~SendBegin /\ ~SenderStep /\ ~CanSendTimesOut /\ ~Isr /\ ~PortSent
  BY DEF Waits, SendBegin, SenderStep, CanSendTest, CanSendCheck, CanSendWoken, Send,
     CanSendTimesOut, Isr, PortSent, RxQuiet, hieth, dsrVars
<1>11. ~Wakes /\ ~Releases /\ ~ClearsTxRdy /\ ~ReadsIrqStatus /\ ~ClearsIrqs /\ ~Unmasks
  BY DEF Wakes, Releases, ClearsTxRdy, ReadsIrqStatus, ClearsIrqs, Unmasks, RxQuiet
<1>12. QED
  BY <1>1, <1>2, <1>3, <1>4, <1>5, <1>6, <1>7, <1>8, <1>9, <1>10, <1>11
     DEF EthNext, DsrStep, FeedStep

LEMMA NextSlot == \A M \in Nat \ {0}, i \in Nat : Next1(i, M) \in 0..M - 1
<1> SUFFICES ASSUME NEW M \in Nat \ {0}, NEW i \in Nat PROVE Next1(i, M) \in 0..M - 1
  OBVIOUS
<1>1. i + 1 \in Int
  OBVIOUS
<1>2. QED BY <1>1, ModRange DEF Next1

\* the flags of the driver, and everything else
EthFlags ==
  /\ irqOn \in BOOLEAN /\ allPort \in BOOLEAN /\ txRdy \in BOOLEAN /\ txBusy \in BOOLEAN
  /\ dsrTx \in BOOLEAN /\ fed \in BOOLEAN /\ expired \in BOOLEAN

EthPlaces ==
  /\ txqHead \in TxRing /\ txqTail \in TxRing /\ txHwCnt \in Nat
  /\ hwTx \in Seq(TxRing) /\ Len(hwTx) <= XmitDepth
  /\ stEvent \subseteq {"TX_RX", "CAN_SEND"}
  /\ sender \in {"idle", "test", "check", "wait", "send"}
  /\ rxFeed \in RxRing /\ rxRelease \in 0..RxSlots
  /\ hwRx \in Seq(RxRing) /\ hwFull \in Seq(RxRing) /\ Len(hwRx) + Len(hwFull) <= RecvDepth
  /\ inHand \in Seq(RxRing) /\ Len(inHand) <= 1
  /\ dsr \in {"sleep", "release", "clear", "read", "recv", "take", "count", "wrap", "feed",
               "ack", "unmask"}
  /\ monitor \in {"off", "armed", "runs"}
  /\ rxLock \in {"free", "dsr", "monitor"}
  /\ failures \in 0..AllocFaults

LEMMA TypeIsBoth == EthTypeOK <=> EthFlags /\ EthPlaces
BY Zenon DEF EthTypeOK, EthFlags, EthPlaces

LEMMA FlagsStep == EthFlags /\ EthNext => EthFlags'
<1> SUFFICES ASSUME EthFlags, EthNext PROVE EthFlags'
  OBVIOUS
<1>1. XmitReleasePkt => txBusy' \in BOOLEAN
  BY Zenon DEF XmitReleasePkt, WakeSender, EthFlags
<1>2. CASE SendBegin \/ CanSendTest \/ CanSendCheck \/ CanSendWoken \/ CanSendTimesOut \/ Send
  BY <1>1, <1>2, Zenon DEF SendBegin, CanSendTest, CanSendCheck, CanSendWoken, CanSendTimesOut, Send,
     EthFlags, txVars, rxVars, irqVars, dsrVars
<1>3. CASE FeedOne \/ MonitorFires \/ MonitorDone \/ RecvDone \/ Refilled
  BY <1>3, Zenon DEF FeedOne, MonitorFires, MonitorDone, RecvDone, Refilled, FeedBegin, FeedEnd,
     EthFlags, txVars, irqVars, dsrVars, sendVars
<1>4. CASE Isr \/ Wakes \/ Releases \/ ClearsTxRdy \/ ReadsIrqStatus \/ ClearsIrqs \/ Unmasks
  BY <1>1, <1>4, Zenon DEF Isr, Wakes, Releases, ClearsTxRdy, ReadsIrqStatus, ClearsIrqs, Unmasks,
     EthFlags, txVars, rxVars, irqVars, dsrVars, sendVars
<1>5. CASE RecvTakes \/ RecvLooksUp \/ RecvCounts \/ RecvWraps \/ PortSent \/ PortReceived \/ Waits
  BY <1>5, Zenon DEF RecvTakes, RecvLooksUp, RecvCounts, RecvWraps, PortSent, PortReceived, Waits, hieth,
     EthFlags, txVars, rxVars, irqVars, dsrVars, sendVars
<1>6. QED
  BY <1>2, <1>3, <1>4, <1>5 DEF EthNext, SenderStep, DsrStep, FeedStep

LEMMA EthTypeStep ==
  ASSUME EthTypeOK, RxIInv, EthNext
  PROVE  EthTypeOK'
<1> SUFFICES EthPlaces'
  <2>1. EthFlags'
    BY FlagsStep, TypeIsBoth
  <2>2. QED BY <2>1, Zenon DEF EthTypeOK, EthFlags, EthPlaces
<1>0. EthPlaces /\ EthTypeOK
  BY TypeIsBoth
<1>1. CASE SendBegin \/ CanSendCheck \/ CanSendWoken \/ CanSendTimesOut
  <2>1. CASE SendBegin
    BY <1>0, <2>1 DEF SendBegin, EthPlaces, txVars, rxVars, dsrVars
  <2>2. CASE CanSendCheck
    BY <1>0, <2>2 DEF CanSendCheck, EthPlaces, rxVars, dsrVars
  <2>3. CASE CanSendWoken
    BY <1>0, <2>3 DEF CanSendWoken, EthPlaces, txVars, rxVars, dsrVars
  <2>4. CASE CanSendTimesOut
    BY <1>0, <2>4 DEF CanSendTimesOut, EthPlaces, txVars, rxVars, dsrVars
  <2>5. QED BY <1>1, <2>1, <2>2, <2>3, <2>4
<1>2. CASE CanSendTest
  <2>1. CASE Ready
    BY <1>0, <1>2, <2>1 DEF CanSendTest, EthPlaces, txVars, rxVars, irqVars, dsrVars
  <2>2. CASE ~Ready
    BY <1>0, <1>2, <2>2, ReleaseType DEF CanSendTest, EthPlaces, rxVars, irqVars, dsrVars
  <2>3. QED BY <2>1, <2>2
<1>3. CASE Send
  <2>1. txqHead' \in TxRing
    BY <1>0, <1>3, NextSlot, EthSizes DEF Send, EthPlaces, TxRing
  <2>2. hwTx' \in Seq(TxRing) /\ Len(hwTx') <= XmitDepth
    BY <1>0, <1>3, EthSizes DEF Send, EthPlaces, Ready
  <2>3. QED BY <1>0, <1>3, <2>1, <2>2 DEF Send, EthPlaces, rxVars, dsrVars
<1>4. CASE FeedOne
  <2>1. rxFeed' \in RxRing
    BY <1>0, <1>4, NextSlot, EthSizes DEF FeedOne, EthPlaces, RxRing
  <2>2. hwRx' \in Seq(RxRing) /\ Len(hwRx') + Len(hwFull') <= RecvDepth
    BY <1>0, <1>4, EthSizes DEF FeedOne, EthPlaces, RecvReady
  <2>3. QED BY <1>0, <1>4, <2>1, <2>2 DEF FeedOne, EthPlaces, txVars, irqVars, dsrVars, sendVars
<1>5. CASE MonitorFires \/ MonitorDone \/ RecvDone \/ Refilled
  <2>1. failures' \in 0..AllocFaults
    BY <1>0, <1>5, EthAssumption DEF MonitorFires, MonitorDone, RecvDone, Refilled, FeedBegin, FeedEnd, EthPlaces
  <2>2. CASE MonitorFires
    BY <1>0, <2>1, <2>2 DEF MonitorFires, FeedBegin, EthPlaces, txVars, irqVars, dsrVars, sendVars
  <2>3. CASE MonitorDone
    BY <1>0, <2>1, <2>3 DEF MonitorDone, FeedEnd, EthPlaces, txVars, irqVars, dsrVars, sendVars
  <2>4. CASE RecvDone
    BY <1>0, <2>1, <2>4 DEF RecvDone, FeedBegin, EthPlaces, txVars, irqVars, sendVars
  <2>5. CASE Refilled
    BY <1>0, <2>1, <2>5 DEF Refilled, FeedEnd, EthPlaces, txVars, irqVars, sendVars
  <2>6. QED BY <1>5, <2>2, <2>3, <2>4, <2>5
<1>6. CASE RecvTakes \/ RecvLooksUp \/ RecvCounts
  <2>1. CASE RecvTakes
    <3>1. /\ hwFull' \in Seq(RxRing) /\ Len(hwFull') = Len(hwFull) - 1 /\ Len(hwFull) \in Nat
          /\ inHand' \in Seq(RxRing) /\ Len(inHand') = 1
      BY <1>0, <2>1 DEF RecvTakes, EthPlaces
    <3>2. PICK k \in Nat : k = Len(hwRx)
      BY <1>0 DEF EthPlaces
    <3>3. hwRx' = hwRx /\ k + Len(hwFull) <= RecvDepth
      BY <1>0, <2>1, <3>2 DEF RecvTakes, EthPlaces
    <3>4. Len(hwRx') + Len(hwFull') <= RecvDepth
      BY <3>1, <3>2, <3>3, EthSizes
    <3>5. QED BY <1>0, <2>1, <3>1, <3>3, <3>4 DEF RecvTakes, EthPlaces, txVars, irqVars, sendVars
  <2>2. CASE RecvLooksUp
    BY <1>0, <2>2 DEF RecvLooksUp, EthPlaces, txVars, rxVars, irqVars, sendVars
  <2>3. CASE RecvCounts
    <3>1. rxRelease' \in 0..RxSlots
      BY <1>0, <2>3, EthSizes DEF RecvCounts, Advance, RxIInv, EthPlaces
    <3>2. inHand' \in Seq(RxRing) /\ Len(inHand') = 0
      BY <2>3, EmptySeq DEF RecvCounts
    <3>3. QED BY <1>0, <2>3, <3>1, <3>2 DEF RecvCounts, EthPlaces, txVars, irqVars, sendVars
  <2>4. QED BY <1>6, <2>1, <2>2, <2>3
<1>7. CASE RecvWraps
  BY <1>0, <1>7, EthSizes DEF RecvWraps, EthPlaces, txVars, irqVars, sendVars
<1>8. CASE Isr \/ Wakes \/ ClearsTxRdy \/ ReadsIrqStatus \/ ClearsIrqs \/ Unmasks
  <2>1. CASE Isr
    BY <1>0, <2>1 DEF Isr, EthPlaces, txVars, rxVars, dsrVars, sendVars
  <2>2. CASE Wakes
    BY <1>0, <2>2 DEF Wakes, EthPlaces, txVars, rxVars, sendVars
  <2>3. CASE ClearsTxRdy
    BY <1>0, <2>3 DEF ClearsTxRdy, EthPlaces, txVars, rxVars, sendVars
  <2>4. CASE ReadsIrqStatus
    BY <1>0, <2>4 DEF ReadsIrqStatus, EthPlaces, txVars, rxVars, irqVars, sendVars
  <2>5. CASE ClearsIrqs
    BY <1>0, <2>5 DEF ClearsIrqs, EthPlaces, txVars, rxVars, sendVars
  <2>6. CASE Unmasks
    BY <1>0, <2>6 DEF Unmasks, EthPlaces, txVars, rxVars, sendVars
  <2>7. QED BY <1>8, <2>1, <2>2, <2>3, <2>4, <2>5, <2>6
<1>9. CASE Releases
  BY <1>0, <1>9, ReleaseType DEF Releases, EthPlaces, rxVars, irqVars, sendVars
<1>10. CASE PortSent
  <2>1. hwTx' \in Seq(TxRing) /\ Len(hwTx') <= XmitDepth
    <3>1. PICK k \in Nat : k = Len(hwTx)
      BY <1>0 DEF EthPlaces
    <3>2. Len(hwTx') = k - 1 /\ hwTx' \in Seq(TxRing) /\ k <= XmitDepth
      BY <1>0, <1>10, <3>1 DEF PortSent, EthPlaces
    <3>3. QED BY <3>2, EthSizes
  <2>2. QED BY <1>0, <1>10, <2>1 DEF PortSent, EthPlaces, rxVars, dsrVars, sendVars
<1>11. CASE PortReceived
  <2>1. hwFull' \in Seq(RxRing) /\ Len(hwFull') = Len(hwFull) + 1 /\ Len(hwFull) \in Nat
    BY <1>0, <1>11 DEF PortReceived, EthPlaces
  <2>2. hwRx' \in Seq(RxRing) /\ Len(hwRx') = Len(hwRx) - 1 /\ Len(hwRx) \in Nat
    BY <1>0, <1>11 DEF PortReceived, EthPlaces
  <2>3. Len(hwRx') + Len(hwFull') <= RecvDepth
    <3>1. Len(hwRx) + Len(hwFull) <= RecvDepth
      BY <1>0 DEF EthPlaces
    <3>2. QED BY <2>1, <2>2, <3>1, EthSizes
  <2>4. QED
    BY <1>0, <1>11, <2>1, <2>2, <2>3 DEF PortReceived, EthPlaces, txVars, irqVars, dsrVars, sendVars
<1>12. CASE Waits
  BY <1>0, <1>12 DEF Waits, EthPlaces, hieth, txVars, rxVars, irqVars, dsrVars, sendVars
<1>13. QED
  BY <1>1, <1>2, <1>3, <1>4, <1>5, <1>6, <1>7, <1>8, <1>9, <1>10, <1>11, <1>12
     DEF EthNext, SenderStep, DsrStep, FeedStep

LEMMA EthIInvInit == EthInit => EthIInv
<1> SUFFICES ASSUME EthInit PROVE EthIInv
  OBVIOUS
<1>1. PICK n \in 1..RecvDepth : rxFeed = n /\ hwRx = [i \in 1..n |-> i - 1]
  BY DEF EthInit
<1>2. n < RxSlots /\ n \in Nat /\ \A i \in 1..n : i - 1 \in 0..RxSlots - 1
  BY EthSizes
<1>3. hwRx \in Seq(RxRing) /\ Len(hwRx) = n
  BY <1>1, <1>2 DEF RxRing
<1>4. /\ hwFull = <<>> /\ hwTx = <<>> /\ hwTx \in Seq(TxRing) /\ hwFull \in Seq(RxRing)
      /\ Len(hwTx) = 0 /\ Len(hwFull) = 0
      /\ inHand = <<>> /\ inHand \in Seq(RxRing) /\ Len(inHand) = 0
  BY EmptySeq DEF EthInit
<1>5. EthTypeOK
  <2>1. 0 \in TxRing /\ 0 \in 0..RxSlots /\ rxFeed \in RxRing /\ 0 \in 0..AllocFaults
    BY <1>1, <1>2, EthSizes, EthAssumption DEF TxRing, RxRing
  <2>2. Len(hwRx) + Len(hwFull) <= RecvDepth /\ Len(hwTx) <= XmitDepth /\ Len(inHand) <= 1
    BY <1>1, <1>3, <1>4, EthSizes
  <2>3. QED BY <1>3, <1>4, <2>1, <2>2 DEF EthInit, EthTypeOK
<1>6. RxIInv
  <2>1. rxRelease = 0 /\ dsr = "sleep" /\ 0 # RxSlots
    BY EthSizes DEF EthInit
  <2>2. Buffers = hwRx
    <3>1. <<>> \o hwRx = hwRx /\ <<>> \o <<>> = <<>>
      BY <1>3, ConcatEmptySeq, EmptySeq
    <3>2. QED BY <1>4, <3>1 DEF Buffers
  <2>3. \A a \in 0..RxSlots - 1 : a % RxSlots = a
    BY EthSizes, ModWithin
  <2>4. 0 % RxSlots = 0 /\ n % RxSlots = n
    BY <1>2, <2>3, EthSizes
  <2>5. \A i \in 1..n : hwRx[i] = (0 + i - 1) % RxSlots
    <3>1. SUFFICES ASSUME NEW i \in 1..n PROVE hwRx[i] = (0 + i - 1) % RxSlots
      OBVIOUS
    <3>2. i - 1 \in 0..RxSlots - 1 /\ 0 + i - 1 = i - 1 /\ hwRx[i] = i - 1
      BY <1>1, <1>2
    <3>3. QED BY <2>3, <3>2
  <2>6. hwRx = Slots(0, n, RxSlots)
    <3>1. hwRx \in Seq(0..RxSlots - 1) /\ 0 \in Int /\ \A i \in 1..Len(hwRx) : hwRx[i] = (0 + i - 1) % RxSlots
      BY <1>3, <2>5 DEF RxRing
    <3>2. hwRx = Slots(0, Len(hwRx), RxSlots)
      BY <3>1, EthSizes, SlotsIs
    <3>3. QED BY <1>3, <3>2
  <2>7. 0 + n = n /\ 0 + n - n = 0 /\ n <= n
    BY <1>2
  <2>8. RingIs(RxSlots, 0, rxFeed, n, hwRx)
    BY <1>1, <1>2, <1>3, <2>4, <2>6, <2>7 DEF RingIs
  <2>9. QED BY <1>3, <1>4, <2>1, <2>2, <2>4, <2>8 DEF RxIInv
<1>7. TxIInv
  <2>1. 0 % TxSlots = 0
    BY EthSizes, ModWithin
  <2>2. hwTx = Slots(0, 0, TxSlots)
    BY <1>4, EthSizes, SlotsAre
  <2>3. RingIs(TxSlots, 0, 0, 0, hwTx)
    BY <1>4, <2>1, <2>2, EthSizes DEF RingIs
  <2>4. QED BY <2>3 DEF EthInit, TxIInv, MaySend
<1>8. QED BY <1>5, <1>6, <1>7 DEF EthIInv

LEMMA EthIInvStep == EthIInv /\ [EthNext]_hieth => EthIInv'
<1> SUFFICES ASSUME EthIInv, [EthNext]_hieth PROVE EthIInv'
  OBVIOUS
<1>1. CASE EthNext
  BY <1>1, EthTypeStep, RxStep, TxStep DEF EthIInv
<1>2. CASE UNCHANGED hieth
  <2>1. TxQuiet /\ RxQuiet
    BY <1>2 DEF hieth, TxQuiet, RxQuiet, dsrVars
  <2>2. EthTypeOK'
    BY <1>2 DEF EthIInv, EthTypeOK, hieth, txVars, rxVars, irqVars, dsrVars, sendVars
  <2>3. QED BY <2>1, <2>2, TxQuietKeeps, RxQuietKeeps DEF EthIInv
<1>3. QED BY <1>1, <1>2

LEMMA EthIInvAlways == EthSpec => []EthIInv
BY EthIInvInit, EthIInvStep, PTL DEF EthSpec

\* Every variable of the Ethernet driver keeps its type: the indices stay inside their rings, save
\* for the step in which EthDrvRecv has passed the end, and the port is never given more frames or
\* buffers than it holds.
THEOREM EthTypeCorrect == EthSpec => []EthTypeOK
<1>1. EthIInv => EthTypeOK
  BY DEF EthIInv
<1>2. QED BY <1>1, EthIInvAlways, PTL

\* As long as no wait for room has run out, a frame is never freed while the port sends it, although
\* HiethXmitReleasePkt only compares two counts to find out which frames are finished.
THEOREM RingAlwaysExact == EthSpec => []RingExact
<1>1. EthIInv => RingExact
  <2> SUFFICES ASSUME EthIInv, ~expired PROVE RingExact
    BY DEF RingExact
  <2>1. RingIs(TxSlots, txqTail, txqHead, txHwCnt, hwTx) /\ EthTypeOK
    BY DEF EthIInv, TxIInv
  <2>2. txHwCnt \in 0..TxSlots - 1 /\ txqTail \in 0..TxSlots - 1
    BY <2>1, EthSizes DEF RingIs, EthTypeOK, TxRing
  <2>3. Distance(txqTail, txqHead, TxSlots) = txHwCnt
    BY <2>1, <2>2, EthSizes, DistanceIs DEF RingIs
  <2>4. QED BY <2>1, <2>3 DEF RingExact, RingIs
<1>2. QED BY <1>1, EthIInvAlways, PTL

\* As long as no wait for room has run out, a frame is given to the port and to the ring only when
\* both have room: the event that ends the wait of HiethCanSend is only set when there is, and
\* nobody takes the room before the sender goes on.
THEOREM AlwaysSendsIntoRoom == EthSpec => []SendsIntoRoom
<1>1. EthIInv => SendsIntoRoom
  <2> SUFFICES ASSUME EthIInv, ~expired, sender = "send" PROVE Ready /\ ~RingFull
    BY DEF SendsIntoRoom
  <2>1. Ready /\ txHwCnt + 1 < TxSlots
    BY DEF EthIInv, TxIInv, MaySend
  <2>2. RingFull <=> txHwCnt + 1 = TxSlots
    BY RingHasRoom, EthSizes DEF RingFull, EthIInv, TxIInv, EthTypeOK, TxRing
  <2>3. QED BY <2>1, <2>2, EthSizes DEF EthIInv, EthTypeOK
<1>2. QED BY <1>1, EthIInvAlways, PTL

\* The driver and the port agree on every receive buffer at every moment, so a frame that
\* EthDrvRecv passes up is the one the port has reported, also while HiethFeedHw runs beside it and
\* while rxRelease stands behind the end of the ring.
THEOREM RxAlwaysMatches == EthSpec => []RxMatch
<1>1. EthIInv => RxMatch
  <2> SUFFICES ASSUME EthIInv PROVE RxMatch
    OBVIOUS
  <2>1. PICK n \in Nat : n = Len(Buffers)
    BY BuffersType DEF EthIInv
  <2>2. PICK t \in 0..RxSlots - 1 : t = rxRelease % RxSlots
    BY BuffersType DEF EthIInv
  <2>3. n < RxSlots /\ rxFeed = (t + n) % RxSlots /\ Buffers = Slots(t + n - n, n, RxSlots)
    BY <2>1, <2>2 DEF EthIInv, RxIInv, RingIs
  <2>4. Distance(t, rxFeed, RxSlots) = n
    BY <2>3, EthSizes, DistanceIs
  <2>5. rxRelease \in Int /\ t + n - n = t
    BY DEF EthIInv, EthTypeOK
  <2>6. Slots(t, n, RxSlots) = Slots(rxRelease, n, RxSlots)
    BY <2>2, <2>5, EthSizes, RingMoves
  <2>7. QED BY <2>2, <2>3, <2>4, <2>5, <2>6 DEF RxMatch, Buffers
<1>2. QED BY <1>1, EthIInvAlways, PTL

----------------------------------------------------------------------------
(* A port without buffers raises no interrupt: who gives it some again?    *)

\* what a port in need waits for: the interrupt, for frames that are still to be fetched
IrqComes == allPort /\ (irqOn \/ "TX_RX" \in stEvent \/ sender \in {"test", "check", "send"})

Receiving == {"recv", "take", "count", "wrap"}

PortRemembered ==
  hwRx = <<>> =>
    \/ monitor # "off"                       \* HiethMonitorFunc tries again
    \/ dsr \in Receiving \cup {"feed"}       \* EthDrvRecv is on its way to HiethFeedHw
    \/ hwFull # <<>> /\ (dsr = "sleep" => IrqComes)

\* Who holds rx_lock is known by its place; what it fed is still there, or EthDrvRecv is at it.
FeedInv ==
  /\ monitor = "runs" <=> rxLock = "monitor"
  /\ dsr = "feed" <=> rxLock = "dsr"
  /\ rxLock = "dsr" /\ fed => hwFull # <<>> \/ hwRx # <<>>
  /\ rxLock = "monitor" /\ fed => hwFull # <<>> \/ hwRx # <<>> \/ dsr \in Receiving
  /\ hwFull = <<>> /\ hwRx = <<>> => monitor # "off" \/ dsr \in Receiving \cup {"feed"}

IrqInv == dsr = "sleep" => IrqComes

LEMMA IrqStep == IrqInv /\ [EthNext]_hieth => IrqInv'
<1> SUFFICES ASSUME IrqInv, [EthNext]_hieth PROVE IrqInv'
  OBVIOUS
<1> USE DEF IrqInv, IrqComes
<1>1. CASE SendBegin \/ CanSendTest \/ CanSendCheck \/ CanSendWoken \/ CanSendTimesOut \/ Send
  BY <1>1 DEF SendBegin, CanSendTest, CanSendCheck, CanSendWoken, CanSendTimesOut, Send,
     XmitReleasePkt, WakeSender, irqVars, dsrVars
<1>2. CASE FeedStep \/ Isr \/ PortSent \/ PortReceived \/ Waits \/ UNCHANGED hieth
  BY <1>2 DEF FeedStep, FeedOne, MonitorFires, MonitorDone, Isr, PortSent, PortReceived, Waits,
     hieth, irqVars, dsrVars, sendVars
<1>3. CASE DsrStep
  BY <1>3 DEF DsrStep, Wakes, Releases, ClearsTxRdy, ReadsIrqStatus, RecvTakes, RecvLooksUp,
     RecvCounts, RecvWraps, RecvDone, Refilled, ClearsIrqs, Unmasks
<1>4. QED BY <1>1, <1>2, <1>3 DEF EthNext, SenderStep

\* the driver's test for a port without buffers compares its two indices
LEMMA IndicesMeet ==
  ASSUME EthIInv, dsr = "feed", rxRelease # rxFeed
  PROVE  hwFull # <<>> \/ hwRx # <<>>
<1> SUFFICES ASSUME hwFull = <<>>, hwRx = <<>> PROVE FALSE
  OBVIOUS
<1>1. Len(Buffers) = 0
  <2>1. Len(hwFull) = 0 /\ Len(hwRx) = 0 /\ Len(inHand) = 0
    BY DEF EthIInv, RxIInv
  <2>2. QED BY <2>1, BuffersType DEF EthIInv
<1>2. PICK r \in 0..RxSlots - 1 : r = rxRelease
  BY EthSizes DEF EthIInv, EthTypeOK, RxIInv
<1>3. r % RxSlots = r /\ r + 0 = r
  BY EthSizes, ModWithin
<1>4. rxFeed = r
  BY <1>1, <1>2, <1>3 DEF EthIInv, RxIInv, RingIs
<1>5. QED BY <1>2, <1>4

LEMMA FeedStepKeeps == EthIInv /\ FeedInv /\ [EthNext]_hieth => FeedInv'
<1> SUFFICES ASSUME EthIInv, FeedInv, [EthNext]_hieth PROVE FeedInv'
  OBVIOUS
<1> USE DEF FeedInv, Receiving
<1>0. hwFull \in Seq(RxRing) /\ hwRx \in Seq(RxRing)
  BY DEF EthIInv, EthTypeOK
<1>1. CASE FeedOne
  <2>1. hwRx' # <<>>
    BY <1>0, <1>1, SMTT(30) DEF FeedOne, EthIInv, EthTypeOK
  <2>2. QED BY <1>1, <2>1 DEF FeedOne, dsrVars
<1>2. CASE MonitorFires
  BY <1>2 DEF MonitorFires, FeedBegin, dsrVars
<1>3. CASE MonitorDone
  BY <1>3 DEF MonitorDone, FeedEnd, dsrVars
<1>4. CASE RecvTakes
  BY <1>4 DEF RecvTakes
<1>5. CASE RecvLooksUp \/ RecvCounts \/ RecvWraps
  BY <1>5 DEF RecvLooksUp, RecvCounts, RecvWraps, rxVars
<1>6. CASE RecvDone
  BY <1>6 DEF RecvDone, FeedBegin
<1>7. CASE Refilled
  <2>1. ~NeedsMonitor => hwFull # <<>> \/ hwRx # <<>>
    BY <1>7, IndicesMeet DEF Refilled, NeedsMonitor, FeedEnd
  <2>2. QED BY <1>7, <2>1 DEF Refilled, FeedEnd
<1>8. CASE PortReceived
  <2>1. hwFull' # <<>>
    BY <1>0, <1>8 DEF PortReceived
  <2>2. QED BY <1>8, <2>1 DEF PortReceived, dsrVars
<1>9. CASE Wakes \/ Releases \/ ClearsTxRdy \/ ReadsIrqStatus \/ ClearsIrqs \/ Unmasks
  BY <1>9 DEF Wakes, Releases, ClearsTxRdy, ReadsIrqStatus, ClearsIrqs, Unmasks, rxVars
<1>10. CASE SenderStep \/ SendBegin \/ CanSendTimesOut \/ Isr \/ PortSent \/ Waits \/ UNCHANGED hieth
  BY <1>10 DEF SenderStep, SendBegin, CanSendTest, CanSendCheck, CanSendWoken, Send,
     CanSendTimesOut, Isr, PortSent, Waits, hieth, rxVars, dsrVars
<1>11. QED BY <1>1, <1>2, <1>3, <1>4, <1>5, <1>6, <1>7, <1>8, <1>9, <1>10
       DEF EthNext, DsrStep, FeedStep

\* A port without a free buffer is never forgotten, whatever allocations failed and whoever held
\* rx_lock: EthDrvRecv is about to feed it, the monitor timer runs, or frames are left whose
\* interrupt is enabled or announced, or will be enabled by the sender (HiethFeedHw, HisiEthIsr).
\* It is what RxRevives needs besides fairness.
THEOREM PortNeverForgotten == EthSpec => []PortRemembered
<1>1. EthInit => FeedInv /\ IrqInv
  <2> SUFFICES ASSUME EthInit PROVE FeedInv /\ IrqInv
    OBVIOUS
  <2>1. PICK n \in 1..RecvDepth : rxFeed = n /\ hwRx = [i \in 1..n |-> i - 1]
    BY DEF EthInit
  <2>2. hwRx # <<>>
    BY <2>1, EthSizes
  <2>3. QED BY <2>2 DEF EthInit, FeedInv, IrqInv, IrqComes
<1>2. EthIInv /\ FeedInv /\ IrqInv /\ [EthNext]_hieth => FeedInv' /\ IrqInv'
  BY FeedStepKeeps, IrqStep
<1>3. FeedInv /\ IrqInv => PortRemembered
  BY DEF FeedInv, IrqInv, PortRemembered, Receiving
<1>4. QED BY <1>1, <1>2, <1>3, EthIInvAlways, PTL DEF EthSpec

----------------------------------------------------------------------------
(* UartRing.  Indices are told by how far they are from rp: wp is "Held"   *)
(* bytes on, newWp at most the burst further, and newRp between rp and wp. *)

N == BUF_SIZE

LEMMA UartSizes ==
  /\ N \in Nat \ {0} /\ Burst \in Nat \ {0} /\ N + Burst \in Nat \ {0}
  /\ Slot = 0..N - 1 /\ Numbers = 0..N + Burst - 1 /\ Numbers \subseteq Byte /\ Junk \in Byte
BY UartAssumption DEF N, Slot, Numbers, Byte

\* d slots on from a
On(a, d) == (a + d) % N
Dist(a, b) == Distance(a, b, N)

LEMMA OnIs ==
  ASSUME NEW a \in Slot, NEW d \in Nat
  PROVE  On(a, d) \in Slot /\ (d < N => Dist(a, On(a, d)) = d)
<1>1. PICK x \in Int : x = a + d
  BY UartSizes
<1>2. On(a, d) \in Slot
  BY <1>1, UartSizes, ModRange DEF On
<1>3. ASSUME d < N PROVE Dist(a, On(a, d)) = d
  BY <1>3, UartSizes, DistanceIs DEF On, Dist
<1>4. QED BY <1>2, <1>3

LEMMA OnAgain ==
  ASSUME NEW a \in Slot, NEW d \in Nat, NEW e \in Nat
  PROVE  On(On(a, d), e) = On(a, d + e)
<1>1. PICK x \in Int : x = a + d
  BY UartSizes
<1>2. ((x % N) + e) % N = (x + e) % N
  BY UartSizes, RingMoves
<1>3. x + e = a + (d + e)
  BY <1>1, UartSizes
<1>4. QED BY <1>1, <1>2, <1>3 DEF On

\* every index is some way on from every other
LEMMA DistIs ==
  ASSUME NEW a \in Slot, NEW b \in Slot
  PROVE  /\ Dist(a, b) \in 0..N - 1 /\ Dist(a, b) \in Nat /\ Dist(a, b) < N
         /\ On(a, Dist(a, b)) = b
<1>1. PICK x \in Int : x = b + N - a
  BY UartSizes
<1>2. PICK d \in 0..N - 1 : d = x % N
  BY UartSizes, ModRange
<1>3. Dist(a, b) = d
  BY <1>1, <1>2 DEF Dist, Distance
<1>4. PICK k \in Int : x = k * N + d
  BY <1>2, UartSizes, ModSplit
<1>5. a + d = (1 - k) * N + b
  BY <1>1, <1>4, UartSizes
<1>6. a + d \in Int /\ 1 - k \in Int /\ b \in 0..N - 1
  BY UartSizes
<1>7. (a + d) % N = b
  BY <1>5, <1>6, UartSizes, ModIs
<1>8. d \in Nat /\ d < N
  BY <1>2, UartSizes
<1>9. QED BY <1>2, <1>3, <1>7, <1>8 DEF On

LEMMA OnZero == \A a \in Slot : On(a, 0) = a /\ Dist(a, a) = 0
<1> SUFFICES ASSUME NEW a \in Slot PROVE On(a, 0) = a /\ Dist(a, a) = 0
  OBVIOUS
<1>1. a % N = a /\ a + 0 = a
  BY UartSizes, ModWithin
<1>2. On(a, 0) = a
  BY <1>1 DEF On
<1>3. Dist(a, On(a, 0)) = 0
  BY OnIs, UartSizes
<1>4. QED BY <1>2, <1>3

\* between two stretches from a
LEMMA DistOn ==
  ASSUME NEW a \in Slot, NEW d \in Nat, NEW e \in Nat, e < N
  PROVE  Dist(On(a, d), On(a, d + e)) = e
BY OnIs, OnAgain

\* an index that runs past the end is wrapped once
LEMMA WrapIs ==
  ASSUME NEW a \in Slot, NEW n \in 0..N - 1
  PROVE  Wrap(a + n) = On(a, n)
<1>1. CASE a + n >= N
  <2>1. a + n = 1 * N + (a + n - N) /\ a + n - N \in 0..N - 1 /\ a + n \in Int
    BY <1>1, UartSizes
  <2>2. (a + n) % N = a + n - N
    BY <2>1, UartSizes, ModIs
  <2>3. Wrap(a + n) = a + n - N
    BY <1>1, <2>1, UartSizes, SMT DEF Wrap, N
  <2>4. QED BY <2>2, <2>3 DEF On
<1>2. CASE ~(a + n >= N)
  <2>1. a + n \in 0..N - 1
    BY <1>2, UartSizes
  <2>2. (a + n) % N = a + n
    BY <2>1, UartSizes, ModWithin
  <2>3. Wrap(a + n) = a + n
    BY <1>2 DEF Wrap, N
  <2>4. QED BY <2>2, <2>3 DEF On
<1>3. QED BY <1>1, <1>2

----------------------------------------------------------------------------
(* Stretches of the ring's bytes                                           *)

Stretch(d, a, n) == [i \in 1..n |-> d[On(a, i - 1)]]

LEMMA StretchType ==
  ASSUME NEW d \in [Slot -> Byte], NEW a \in Slot, NEW n \in Nat
  PROVE  /\ Stretch(d, a, n) \in Seq(Byte) /\ Len(Stretch(d, a, n)) = n
         /\ \A i \in 1..n : Stretch(d, a, n)[i] = d[On(a, i - 1)]
<1>1. \A i \in 1..n : i - 1 \in Nat
  OBVIOUS
<1>2. \A i \in 1..n : d[On(a, i - 1)] \in Byte
  BY <1>1, OnIs
<1>3. QED BY <1>2 DEF Stretch

LEMMA StretchIs ==
  ASSUME NEW d \in [Slot -> Byte], NEW a \in Slot, NEW s \in Seq(Byte),
         \A i \in 1..Len(s) : s[i] = d[On(a, i - 1)]
  PROVE  s = Stretch(d, a, Len(s))
<1>1. Len(s) \in Nat /\ DOMAIN s = 1..Len(s)
  OBVIOUS
<1>2. QED BY <1>1 DEF Stretch

\* the bytes of two rings that agree there
LEMMA StretchSame ==
  ASSUME NEW d, NEW e, NEW a \in Slot, NEW n \in 0..N - 1,
         \A x \in Slot : Dist(a, x) < n => e[x] = d[x]
  PROVE  Stretch(e, a, n) = Stretch(d, a, n)
<1>1. ASSUME NEW i \in 1..n PROVE e[On(a, i - 1)] = d[On(a, i - 1)]
  <2>1. i - 1 \in Nat /\ i - 1 < n /\ i - 1 < N
    BY UartSizes
  <2>2. On(a, i - 1) \in Slot /\ Dist(a, On(a, i - 1)) = i - 1
    BY <2>1, OnIs
  <2>3. QED BY <2>1, <2>2
<1>2. QED BY <1>1 DEF Stretch

LEMMA StretchJoin ==
  ASSUME NEW d \in [Slot -> Byte], NEW a \in Slot, NEW n \in Nat, NEW m \in Nat
  PROVE  Stretch(d, a, n) \o Stretch(d, On(a, n), m) = Stretch(d, a, n + m)
<1> DEFINE s == Stretch(d, a, n)
           t == Stretch(d, On(a, n), m)
<1>1. On(a, n) \in Slot
  BY OnIs
<1>2. s \in Seq(Byte) /\ Len(s) = n /\ \A i \in 1..n : s[i] = d[On(a, i - 1)]
  BY StretchType
<1>3. t \in Seq(Byte) /\ Len(t) = m /\ \A i \in 1..m : t[i] = d[On(On(a, n), i - 1)]
  BY <1>1, StretchType
<1> HIDE DEF s, t
<1>4. s \o t \in Seq(Byte) /\ Len(s \o t) = n + m
      /\ \A i \in 1..n + m : (s \o t)[i] = IF i <= n THEN s[i] ELSE t[i - n]
  <2>1. s \o t \in Seq(Byte) /\ Len(s \o t) = Len(s) + Len(t)
    BY <1>2, <1>3, ConcatProperties
  <2>2. \A i \in 1..Len(s) + Len(t) : (s \o t)[i] = IF i <= Len(s) THEN s[i] ELSE t[i - Len(s)]
    BY <1>2, <1>3, ConcatProperties
  <2>3. QED BY <1>2, <1>3, <2>1, <2>2
<1>5. ASSUME NEW i \in 1..n + m PROVE (s \o t)[i] = d[On(a, i - 1)]
  <2>1. CASE i <= n
    BY <1>2, <1>4, <2>1
  <2>2. CASE ~(i <= n)
    <3>1. PICK j \in 1..m : j = i - n
      BY <2>2
    <3>2. j - 1 \in Nat /\ n + (j - 1) = i - 1
      BY <3>1
    <3>3. On(On(a, n), j - 1) = On(a, i - 1)
      BY <3>2, OnAgain, ZenonT(30)
    <3>4. QED BY <1>3, <1>4, <2>2, <3>1, <3>3
  <2>3. QED BY <2>1, <2>2
<1>6. s \o t = Stretch(d, a, Len(s \o t))
  BY <1>4, <1>5, StretchIs
<1>7. QED BY <1>4, <1>6 DEF s, t

LEMMA StretchFront ==
  ASSUME NEW d \in [Slot -> Byte], NEW a \in Slot, NEW n \in Nat, NEW k \in 0..n
  PROVE  SubSeq(Stretch(d, a, n), 1, k) = Stretch(d, a, k)
<1> DEFINE s == Stretch(d, a, n)
<1>1. s \in Seq(Byte) /\ Len(s) = n /\ \A i \in 1..n : s[i] = d[On(a, i - 1)]
  BY StretchType
<1> HIDE DEF s
<1>2. SubSeq(s, 1, k) \in Seq(Byte) /\ Len(SubSeq(s, 1, k)) = k
      /\ \A i \in 1..k : SubSeq(s, 1, k)[i] = s[i]
  BY <1>1
<1>3. \A i \in 1..k : SubSeq(s, 1, k)[i] = d[On(a, i - 1)]
  BY <1>1, <1>2
<1>4. SubSeq(s, 1, k) = Stretch(d, a, Len(SubSeq(s, 1, k)))
  BY <1>2, <1>3, StretchIs
<1>5. QED BY <1>2, <1>4 DEF s

\* what is left of a sequence when its front is taken
LEMMA JoinedRest ==
  ASSUME NEW S, NEW s \in Seq(S), NEW t \in Seq(S)
  PROVE  SubSeq(s \o t, Len(s) + 1, Len(s \o t)) = t
OBVIOUS

----------------------------------------------------------------------------
(* The invariant, and what is waiting in the ring                          *)

UartIInv ==
  /\ TypeOK
  /\ isr = "idle" => newWp = wp
  /\ Len(got) <= Dist(rp, wp) /\ Dist(rp, wp) <= Dist(rp, newWp)
  /\ (reader = "rp") = (got # <<>>)
  /\ reader = "rp" => newRp = On(rp, Len(got))

\* between two places on one stretch
LEMMA DistBetween ==
  ASSUME NEW a \in Slot, NEW g \in Nat, NEW h \in 0..N - 1, g <= h
  PROVE  Dist(On(a, g), On(a, h)) = h - g
<1>1. PICK e \in Nat : e = h - g
  BY UartSizes
<1>2. h = g + e /\ e < N
  BY <1>1, UartSizes
<1>3. QED BY <1>1, <1>2, DistOn

LEMMA FromIs ==
  ASSUME NEW d, NEW a \in Slot, NEW b \in Slot
  PROVE  [i \in 1..((b + BUF_SIZE - a) % BUF_SIZE) |-> d[(a + i - 1) % BUF_SIZE]]
           = Stretch(d, a, Dist(a, b))
<1>1. \A i \in Int : a + i - 1 = a + (i - 1)
  BY UartSizes
<1>2. PICK n \in Nat : n = Dist(a, b)
  BY DistIs, UartSizes
<1>3. (b + BUF_SIZE - a) % BUF_SIZE = n
  BY <1>2 DEF Dist, Distance, N
<1>4. \A i \in 1..n : d[(a + i - 1) % BUF_SIZE] = d[On(a, i - 1)]
  <2> TAKE i \in 1..n
  <2>1. a + i - 1 = a + (i - 1)
    BY <1>1
  <2>2. QED BY <2>1 DEF On, N
<1>5. [i \in 1..n |-> d[(a + i - 1) % BUF_SIZE]] = [i \in 1..n |-> d[On(a, i - 1)]]
  BY <1>4
<1>6. QED BY <1>2, <1>3, <1>5 DEF Stretch

Content(d, a, b, g) == g \o Stretch(d, On(a, Len(g)), Dist(a, b) - Len(g))

\* what a read has copied, and what is behind it
LEMMA ContentIs ==
  ASSUME NEW d \in [Slot -> Byte], NEW a \in Slot, NEW b \in Slot, NEW g \in Seq(Byte),
         Len(g) <= Dist(a, b)
  PROVE  /\ g = <<>> => Content(d, a, b, g) = Stretch(d, a, Dist(a, b))
         /\ g \o Stretch(d, On(a, Len(g)), Dist(On(a, Len(g)), b)) = Content(d, a, b, g)
<1>1. Dist(a, b) \in 0..N - 1 /\ On(a, Dist(a, b)) = b /\ Len(g) \in Nat
  BY DistIs
<1>2. Dist(On(a, Len(g)), b) = Dist(a, b) - Len(g)
  BY <1>1, DistBetween
<1>3. ASSUME g = <<>> PROVE Content(d, a, b, g) = Stretch(d, a, Dist(a, b))
  <2>1. Len(g) = 0 /\ Dist(a, b) - Len(g) = Dist(a, b)
    BY <1>1, <1>3, UartSizes
  <2>2. On(a, Len(g)) = a
    BY <2>1, OnZero
  <2>3. Stretch(d, a, Dist(a, b)) \in Seq(Byte)
    BY <1>1, StretchType
  <2>4. <<>> \o Stretch(d, a, Dist(a, b)) = Stretch(d, a, Dist(a, b))
    BY <2>3, ConcatEmptySeq
  <2>5. QED BY <1>3, <2>1, <2>2, <2>4 DEF Content
<1>4. QED BY <1>2, <1>3 DEF Content

LEMMA WaitingIs ==
  /\ UartIInv => Waiting = Content(data, rp, newWp, got)
  /\ UartIInv' => Waiting' = Content(data', rp', newWp', got')
<1>1. ASSUME UartIInv PROVE Waiting = Content(data, rp, newWp, got)
  <2>1. /\ data \in [Slot -> Byte] /\ rp \in Slot /\ newWp \in Slot /\ newRp \in Slot
        /\ wp \in Slot /\ got \in Seq(Byte)
    BY <1>1 DEF UartIInv, TypeOK
  <2>2. Len(got) <= Dist(rp, newWp)
    <3>1. Len(got) <= Dist(rp, wp) /\ Dist(rp, wp) <= Dist(rp, newWp)
      BY <1>1 DEF UartIInv
    <3>2. Dist(rp, wp) \in 0..N - 1 /\ Dist(rp, newWp) \in 0..N - 1 /\ Len(got) \in Nat
      BY <2>1, DistIs
    <3>3. QED BY <3>1, <3>2, UartSizes
  <2>3. From(rp, newWp) = Stretch(data, rp, Dist(rp, newWp))
        /\ From(newRp, newWp) = Stretch(data, newRp, Dist(newRp, newWp))
    BY <2>1, FromIs DEF From
  <2>4. QED BY <1>1, <2>1, <2>2, <2>3, ContentIs DEF Waiting, UartIInv
<1>2. ASSUME UartIInv' PROVE Waiting' = Content(data', rp', newWp', got')
  <2>1. /\ data' \in [Slot -> Byte] /\ rp' \in Slot /\ newWp' \in Slot /\ newRp' \in Slot
        /\ wp' \in Slot /\ got' \in Seq(Byte)
    BY <1>2 DEF UartIInv, TypeOK
  <2>2. Len(got') <= Dist(rp', newWp')
    <3>1. Len(got') <= Dist(rp', wp') /\ Dist(rp', wp') <= Dist(rp', newWp')
      BY <1>2 DEF UartIInv
    <3>2. Dist(rp', wp') \in 0..N - 1 /\ Dist(rp', newWp') \in 0..N - 1 /\ Len(got') \in Nat
      BY <2>1, DistIs
    <3>3. QED BY <3>1, <3>2, UartSizes
  <2>3. From(rp, newWp)' = Stretch(data', rp', Dist(rp', newWp'))
        /\ From(newRp, newWp)' = Stretch(data', newRp', Dist(newRp', newWp'))
    BY <2>1, FromIs DEF From
  <2>4. (reader' = "rp") = (got' # <<>>) /\ (reader' = "rp" => newRp' = On(rp', Len(got')))
    BY <1>2 DEF UartIInv
  <2>5. QED BY <2>1, <2>2, <2>3, <2>4, ContentIs DEF Waiting
<1>3. QED BY <1>1, <1>2

----------------------------------------------------------------------------
(* The steps                                                               *)

LEMMA HeldIs ==
  UartIInv => /\ Held = Dist(rp, wp) /\ Held \in 0..N - 1 /\ wp = On(rp, Held)
              /\ Dist(rp, newWp) \in 0..N - 1 /\ newWp = On(rp, Dist(rp, newWp))
              /\ Len(got) \in Nat
<1> SUFFICES ASSUME UartIInv
    PROVE  /\ Held = Dist(rp, wp) /\ Held \in 0..N - 1 /\ wp = On(rp, Held)
           /\ Dist(rp, newWp) \in 0..N - 1 /\ newWp = On(rp, Dist(rp, newWp))
           /\ Len(got) \in Nat
  OBVIOUS
<1>1. rp \in Slot /\ wp \in Slot /\ newWp \in Slot /\ got \in Seq(Byte)
  BY DEF UartIInv, TypeOK
<1>2. Held = Dist(rp, wp)
  BY DEF Held, Dist, Distance, N
<1>3. QED BY <1>1, <1>2, DistIs

LEMMA LineNumber == \A x \in Int : x % (N + Burst) \in Numbers
<1>1. PICK M \in Nat \ {0} : M = N + Burst
  BY UartSizes
<1>2. Numbers = 0..M - 1
  BY <1>1, UartSizes
<1>3. QED BY <1>1, <1>2, ModRange

\* what a burst puts into the ring
LEMMA BurstFits ==
  ASSUME UartIInv, NEW count \in 1..Burst, RecvNotify(count)
  PROVE  LET n == Accepted(count)
         IN  /\ n \in 0..count
             /\ n = count \/ Held + n = N - 1
             /\ newWp = wp /\ Held + n \in 0..N - 1
             /\ newWp' = On(rp, Held + n) /\ Dist(rp, newWp') = Held + n
<1> DEFINE n == Accepted(count)
<1>1. Held \in 0..N - 1 /\ wp = On(rp, Held) /\ count \in Nat
  BY HeldIs, UartSizes
<1>2. n \in 0..count /\ (n = count \/ Held + n = N - 1) /\ Held + n \in 0..N - 1 /\ n \in 0..N - 1
  <2>1. n = IF count < N - 1 - Held THEN count ELSE N - 1 - Held
    BY DEF Accepted, Min2, N
  <2>2. QED BY <1>1, <2>1, UartSizes
<1> HIDE DEF n
<1>3. wp \in Slot /\ rp \in Slot
  BY DEF UartIInv, TypeOK
<1>4. newWp = wp
  BY DEF UartIInv, RecvNotify
<1>5. newWp' = Wrap(wp + n)
  BY DEF RecvNotify, n
<1>6. newWp' = On(wp, n)
  BY <1>2, <1>3, <1>5, WrapIs
<1>7. newWp' = On(rp, Held + n)
  BY <1>1, <1>2, <1>3, <1>6, OnAgain
<1>8. Held + n \in Nat /\ Held + n < N
  BY <1>1, <1>2, UartSizes
<1>9. Dist(rp, newWp') = Held + n
  BY <1>3, <1>7, <1>8, OnIs
<1>10. QED BY <1>2, <1>4, <1>7, <1>9 DEF n

LEMMA BurstData ==
  ASSUME UartIInv, NEW count \in 1..Burst, RecvNotify(count)
  PROVE  LET n == Accepted(count)
         IN  /\ data' \in [Slot -> Byte]
             /\ \A i \in Slot : Dist(wp, i) < n => data'[i] = (next + Dist(wp, i)) % (N + Burst)
             /\ \A i \in Slot : ~(Dist(wp, i) < n) => data'[i] = data[i]
<1> DEFINE n == Accepted(count)
<1>1. data' = [i \in Slot |-> IF Dist(wp, i) < n THEN (next + Dist(wp, i)) % (N + Burst)
                                                 ELSE data[i]]
  BY DEF RecvNotify, Dist, Distance, N
<1>2. wp \in Slot /\ next \in Nat /\ data \in [Slot -> Byte]
  BY UartSizes DEF UartIInv, TypeOK
<1> HIDE DEF n
<1>3. ASSUME NEW i \in Slot PROVE (next + Dist(wp, i)) % (N + Burst) \in Byte
  <2>1. PICK k \in 0..N - 1 : k = Dist(wp, i)
    BY <1>2, DistIs
  <2>2. PICK x \in Int : x = next + k
    BY <1>2, UartSizes
  <2>3. QED BY <2>1, <2>2, LineNumber, UartSizes
<1>4. data' \in [Slot -> Byte]
  BY <1>1, <1>2, <1>3
<1>5. QED BY <1>1, <1>4 DEF n

LEMMA UartInit == Init => UartIInv
<1> SUFFICES ASSUME Init PROVE UartIInv
  OBVIOUS
<1>1. 0 \in Slot /\ 1 \in Numbers
  BY UartSizes
<1>2. TypeOK
  <2>1. [i \in Slot |-> Junk] \in [Slot -> Byte]
    BY UartSizes
  <2>2. <<>> \in Seq(Byte) /\ Len(<<>>) < BUF_SIZE
    BY UartSizes DEF N
  <2>3. QED BY <1>1, <2>1, <2>2 DEF Init, TypeOK
<1>3. Dist(rp, wp) = 0 /\ Dist(rp, newWp) = 0
  BY <1>1, OnZero DEF Init
<1>4. QED BY <1>2, <1>3 DEF Init, UartIInv

LEMMA BurstKeeps ==
  ASSUME UartIInv, NEW count \in 1..Burst, RecvNotify(count)
  PROVE  UartIInv'
<1>1. Held = Dist(rp, wp) /\ Held \in 0..N - 1
  BY HeldIs
<1>2. PICK n \in Nat : n = Accepted(count)
  <2>1. Accepted(count) \in 0..count
    BY BurstFits
  <2>2. QED BY <2>1, UartSizes
<1>3. Dist(rp, newWp') = Held + n /\ newWp' = On(rp, Held + n) /\ Held + n \in Nat
  BY <1>1, <1>2, BurstFits, UartSizes
<1>4. rp \in Slot /\ next \in Nat /\ count \in Nat
  BY UartSizes DEF UartIInv, TypeOK
<1>5. newWp' \in Slot
  BY <1>3, <1>4, OnIs
<1>6. next' \in Numbers
  <2>1. PICK x \in Int : x = next + count
    BY <1>4
  <2>2. QED BY <2>1, LineNumber DEF RecvNotify, N
<1>7. TypeOK'
  BY <1>5, <1>6, BurstData DEF UartIInv, TypeOK, RecvNotify, readVars, mode
<1>8. Dist(rp, wp) <= Dist(rp, newWp')
  BY <1>1, <1>2, <1>3, UartSizes
<1>9. QED BY <1>7, <1>8 DEF UartIInv, RecvNotify, readVars

LEMMA CopyIs ==
  ASSUME UartIInv, NEW count \in 1..MaxCount, Copy(count)
  PROVE  \E n \in 0..Held :
           /\ got' = Stretch(data, rp, n) /\ newRp' = On(rp, n)
           /\ got' \in Seq(Byte) /\ Len(got') = n
           /\ (reader' = "rp") = (got' # <<>>) /\ reader' \in {"rp", "empty"}
<1>1. /\ Held = Dist(rp, wp) /\ Held \in 0..N - 1 /\ count \in Nat
  BY HeldIs, UartAssumption
<1>2. rp \in Slot /\ wp \in Slot /\ data \in [Slot -> Byte]
  BY DEF UartIInv, TypeOK
<1>3. PICK n : n = Min2(count, Held)
  OBVIOUS
<1>4. n \in 0..Held /\ n \in 0..N - 1
  BY <1>1, <1>3, UartSizes DEF Min2
<1>5. got' = SubSeq(From(rp, wp), 1, n) /\ newRp' = Wrap(rp + n)
      /\ reader' = IF n = 0 THEN "empty" ELSE "rp"
  BY <1>3 DEF Copy
<1>6. From(rp, wp) = Stretch(data, rp, Held)
  BY <1>1, <1>2, FromIs DEF From
<1>7. got' = Stretch(data, rp, n)
  BY <1>1, <1>2, <1>4, <1>5, <1>6, StretchFront
<1>8. newRp' = On(rp, n)
  BY <1>2, <1>4, <1>5, WrapIs
<1>9. got' \in Seq(Byte) /\ Len(got') = n
  BY <1>2, <1>4, <1>7, StretchType
<1>10. (n = 0) = (got' = <<>>)
  BY <1>9
<1>11. (reader' = "rp") = (got' # <<>>)
  BY <1>5, <1>10
<1>12. QED BY <1>4, <1>5, <1>7, <1>8, <1>9, <1>11

LEMMA CopyKeeps ==
  ASSUME UartIInv, NEW count \in 1..MaxCount, Copy(count)
  PROVE  UartIInv'
<1>1. PICK n \in 0..Held :
        /\ got' = Stretch(data, rp, n) /\ newRp' = On(rp, n)
        /\ got' \in Seq(Byte) /\ Len(got') = n
        /\ (reader' = "rp") = (got' # <<>>) /\ reader' \in {"rp", "empty"}
  BY CopyIs
<1>2. Held = Dist(rp, wp) /\ Held \in 0..N - 1
  BY HeldIs
<1>3. n \in Nat /\ n < BUF_SIZE /\ n <= Dist(rp, wp)
  BY <1>2, UartSizes DEF N
<1>4. newRp' \in Slot
  BY <1>1, <1>3, OnIs DEF UartIInv, TypeOK
<1>5. UNCHANGED <<data, wp, rp, rxEvent, block, smp, isr, newWp, next>>
  BY DEF Copy, writer, mode
<1>6. TypeOK'
  BY <1>1, <1>3, <1>4, <1>5 DEF UartIInv, TypeOK
<1>7. QED BY <1>1, <1>3, <1>5, <1>6 DEF UartIInv

LEMMA StoreRpIs ==
  ASSUME UartIInv, StoreRp
  PROVE  /\ Len(got) \in 1..Dist(rp, wp) /\ rp' = On(rp, Len(got)) /\ rp' \in Slot
         /\ Dist(rp', wp) = Dist(rp, wp) - Len(got)
         /\ Dist(rp', newWp) = Dist(rp, newWp) - Len(got)
         /\ data' \in [Slot -> Byte]
         /\ \A x \in Slot : ~(Dist(rp, x) < Len(got)) => data'[x] = data[x]
<1>1. /\ rp \in Slot /\ wp \in Slot /\ newWp \in Slot /\ got \in Seq(Byte)
      /\ data \in [Slot -> Byte]
  BY DEF UartIInv, TypeOK
<1>2. got # <<>> /\ rp' = On(rp, Len(got)) /\ Len(got) <= Dist(rp, wp)
      /\ Dist(rp, wp) <= Dist(rp, newWp)
  BY DEF UartIInv, StoreRp
<1>3. Dist(rp, wp) \in 0..N - 1 /\ Dist(rp, newWp) \in 0..N - 1
      /\ On(rp, Dist(rp, wp)) = wp /\ On(rp, Dist(rp, newWp)) = newWp
  BY <1>1, DistIs
<1>4. PICK g \in Nat : g = Len(got)
  BY <1>1
<1>5. g \in 1..Dist(rp, wp) /\ g <= Dist(rp, newWp)
  BY <1>1, <1>2, <1>3, <1>4, UartSizes
<1>6. Dist(rp', wp) = Dist(rp, wp) - g /\ Dist(rp', newWp) = Dist(rp, newWp) - g
  BY <1>1, <1>2, <1>3, <1>4, <1>5, DistBetween
<1>7. data' = [i \in Slot |-> IF Dist(rp, i) < Len(got) THEN Junk ELSE data[i]]
  BY DEF StoreRp, Dist, Distance, N
<1>8. data' \in [Slot -> Byte] /\ \A x \in Slot : ~(Dist(rp, x) < Len(got)) => data'[x] = data[x]
  BY <1>1, <1>7, UartSizes
<1>9. rp' \in Slot
  BY <1>1, <1>2, <1>4, OnIs
<1>10. QED BY <1>2, <1>4, <1>5, <1>6, <1>8, <1>9

LEMMA StoreRpKeeps == ASSUME UartIInv, StoreRp PROVE UartIInv'
<1>1. UNCHANGED <<wp, rxEvent, block, smp, isr, newWp, next, newRp>> /\ got' = <<>>
      /\ reader' = "empty"
  BY DEF StoreRp, writer, mode
<1>2. <<>> \in Seq(Byte) /\ Len(<<>>) = 0
  OBVIOUS
<1>3. TypeOK'
  BY <1>1, <1>2, StoreRpIs, UartSizes DEF UartIInv, TypeOK, N
<1>4. Dist(rp, wp) \in 0..N - 1 /\ Dist(rp, newWp) \in 0..N - 1 /\ Len(got) \in 1..Dist(rp, wp)
      /\ Dist(rp, wp) <= Dist(rp, newWp)
  BY HeldIs, StoreRpIs DEF UartIInv
<1>5. 0 <= Dist(rp', wp) /\ Dist(rp', wp) <= Dist(rp', newWp)
  BY <1>4, StoreRpIs, UartSizes
<1>6. QED BY <1>1, <1>2, <1>3, <1>5 DEF UartIInv

LEMMA UartStep == UartIInv /\ [Next]_uart => UartIInv'
<1> SUFFICES ASSUME UartIInv, [Next]_uart PROVE UartIInv'
  OBVIOUS
<1>1. ASSUME NEW count \in 1..Burst, RecvNotify(count) PROVE UartIInv'
  BY <1>1, BurstKeeps
<1>2. CASE Notify
  BY <1>2 DEF UartIInv, TypeOK, Notify, readVars, mode
<1>3. CASE StoreWp
  <2>1. Dist(rp, newWp) <= Dist(rp, newWp)
    BY HeldIs, UartSizes
  <2>2. Len(got) <= Dist(rp, newWp)
    BY HeldIs, UartSizes DEF UartIInv
  <2>3. TypeOK'
    BY <1>3 DEF UartIInv, TypeOK, StoreWp, readVars, mode
  <2>4. QED BY <1>3, <2>1, <2>2, <2>3 DEF UartIInv, StoreWp, readVars, mode
<1>4. CASE ReadBegin
  BY <1>4 DEF UartIInv, TypeOK, ReadBegin, writer, mode
<1>5. CASE ReadTest
  BY <1>5 DEF UartIInv, TypeOK, ReadTest, writer, mode
<1>6. CASE ReadWoken
  BY <1>6 DEF UartIInv, TypeOK, ReadWoken, writer, mode
<1>7. ASSUME NEW count \in 1..MaxCount, Copy(count) PROVE UartIInv'
  BY <1>7, CopyKeeps
<1>8. CASE StoreRp
  BY <1>8, StoreRpKeeps
<1>9. CASE ReadTestAgain
  BY <1>9 DEF UartIInv, TypeOK, ReadTestAgain, writer, mode
<1>10. CASE EventClear
  BY <1>10 DEF UartIInv, TypeOK, EventClear, writer, mode
<1>11. ASSUME NEW b \in BOOLEAN, SetTransMode(b) PROVE UartIInv'
  <2>1. rxEvent' \in BOOLEAN
    BY <1>11 DEF SetTransMode
  <2>2. QED BY <1>11, <2>1 DEF UartIInv, TypeOK, SetTransMode, writer, readVars
<1>12. CASE UNCHANGED uart
  BY <1>12 DEF UartIInv, TypeOK, uart, writer, readVars, mode
<1>13. QED BY <1>1, <1>2, <1>3, <1>4, <1>5, <1>6, <1>7, <1>8, <1>9, <1>10, <1>11, <1>12
       DEF Next, ReaderStep, IsrStep

LEMMA UartIInvAlways == Spec => []UartIInv
BY UartInit, UartStep, PTL DEF Spec

\* The type invariant of UartRing: the indices stay in the buffer, and one read never
\* copies as many bytes as the buffer has slots (Pl011Read, PL011UartRecvNotify).
THEOREM UartTypeCorrect == Spec => []TypeOK
<1>1. UartIInv => TypeOK
  BY DEF UartIInv
<1>2. QED BY <1>1, UartIInvAlways, PTL

\* On one core the handler sets the event before it publishes bytes, and the reader, who
\* alone clears it, does not move meanwhile: it may lack the event only beside an empty
\* buffer.
UartEventInv == ~smp /\ reader = "wait" => rxEvent \/ (Empty /\ isr # "wp")

LEMMA UartEventStep == TypeOK /\ UartEventInv /\ [Next]_uart => UartEventInv'
<1> SUFFICES ASSUME TypeOK, UartEventInv, [Next]_uart PROVE UartEventInv'
  OBVIOUS
<1> USE DEF UartEventInv, Empty, Runs, writer, readVars, mode
<1>1. ASSUME NEW count \in 1..Burst, RecvNotify(count) PROVE UartEventInv'
  BY <1>1 DEF RecvNotify
<1>2. CASE Notify
  BY <1>2 DEF Notify
<1>3. CASE StoreWp
  BY <1>3 DEF StoreWp
<1>4. CASE ReadBegin
  BY <1>4 DEF ReadBegin
<1>5. CASE ReadTest
  BY <1>5 DEF ReadTest, MustWait
<1>6. CASE ReadWoken
  BY <1>6 DEF ReadWoken
<1>7. ASSUME NEW count \in 1..MaxCount, Copy(count) PROVE UartEventInv'
  BY <1>7 DEF Copy
<1>8. CASE StoreRp
  BY <1>8 DEF StoreRp
<1>9. CASE ReadTestAgain
  BY <1>9 DEF ReadTestAgain
<1>10. CASE EventClear
  BY <1>10 DEF EventClear
<1>11. ASSUME NEW b \in BOOLEAN, SetTransMode(b) PROVE UartEventInv'
  BY <1>11 DEF SetTransMode
<1>12. CASE UNCHANGED uart
  BY <1>12 DEF uart
<1>13. QED BY <1>1, <1>2, <1>3, <1>4, <1>5, <1>6, <1>7, <1>8, <1>9, <1>10, <1>11, <1>12
       DEF Next, ReaderStep, IsrStep

\* On one core a task that waits in Hi35xxRead beside bytes finds its event set, whatever
\* the sizes: the safety half of WakesOnOneCore.  On two cores it does not hold.
THEOREM EventAlwaysStands == Spec => []EventStands
<1>1. Init => UartEventInv
  BY DEF Init, UartEventInv
<1>2. TypeOK /\ UartEventInv /\ [Next]_uart => UartEventInv'
  BY UartEventStep
<1>3. UartEventInv => EventStands
  BY DEF UartEventInv, EventStands
<1>4. QED BY <1>1, <1>2, <1>3, UartTypeCorrect, PTL DEF Spec

----------------------------------------------------------------------------
(* UartFifo is implemented                                                 *)

LEMMA ContractStart == Init => Abs!Init
<1> SUFFICES ASSUME Init PROVE Abs!Init
  OBVIOUS
<1>1. UartIInv /\ got = <<>> /\ rp \in Slot /\ newWp = rp /\ data \in [Slot -> Byte]
  BY UartInit DEF UartIInv, TypeOK, Init
<1>2. Dist(rp, newWp) = 0
  BY <1>1, OnZero
<1>3. Waiting = Stretch(data, rp, 0)
  <2>1. <<>> \in Seq(Byte) /\ Len(<<>>) = 0
    OBVIOUS
  <2>2. Len(<<>>) <= Dist(rp, newWp) /\ newWp \in Slot
    BY <1>1, <1>2, <2>1
  <2>3. Content(data, rp, newWp, <<>>) = Stretch(data, rp, 0)
    BY <1>1, <1>2, <2>1, <2>2, ContentIs
  <2>4. QED BY <1>1, <2>3, WaitingIs
<1>4. Waiting = <<>>
  BY <1>1, <1>3, StretchType
<1>5. QED BY <1>4 DEF Abs!Init, Init

\* no step but that of a burst and that of a read changes what is waiting
LEMMA ContractCopy ==
  ASSUME UartIInv, NEW count \in 1..MaxCount, Copy(count)
  PROVE  Waiting' = Waiting
<1>1. PICK n \in 0..Held :
        /\ got' = Stretch(data, rp, n) /\ newRp' = On(rp, n)
        /\ got' \in Seq(Byte) /\ Len(got') = n
        /\ (reader' = "rp") = (got' # <<>>) /\ reader' \in {"rp", "empty"}
  BY CopyIs
<1>2. UartIInv'
  BY CopyKeeps
<1>3. got = <<>> /\ data' = data /\ rp' = rp /\ newWp' = newWp
  BY DEF UartIInv, Copy, writer, mode
<1>4. rp \in Slot /\ data \in [Slot -> Byte] /\ newWp \in Slot /\ got \in Seq(Byte)
  BY DEF UartIInv, TypeOK
<1>5. PICK t \in 0..N - 1 : t = Dist(rp, newWp)
  BY HeldIs
<1>6. n \in Nat /\ t - n \in Nat /\ n + (t - n) = t
  <2>1. Held \in 0..N - 1 /\ Held <= t
    BY <1>5, HeldIs DEF UartIInv
  <2>2. QED BY <1>5, <2>1, UartSizes
<1>7. Waiting = Stretch(data, rp, t)
  <2>1. Len(got) = 0
    BY <1>3
  <2>2. Len(got) <= Dist(rp, newWp)
    BY <1>5, <2>1, UartSizes
  <2>3. QED BY <1>3, <1>4, <1>5, <2>2, WaitingIs, ContentIs
<1>8. Waiting' = Content(data, rp, newWp, got')
  BY <1>2, <1>3, WaitingIs
<1>9. Waiting' = Stretch(data, rp, n) \o Stretch(data, On(rp, n), t - n)
  BY <1>1, <1>5, <1>8 DEF Content
<1>10. Stretch(data, rp, n) \o Stretch(data, On(rp, n), t - n) = Stretch(data, rp, n + (t - n))
  BY <1>4, <1>6, StretchJoin
<1>11. QED BY <1>6, <1>7, <1>9, <1>10

LEMMA ContractGet ==
  ASSUME UartIInv, StoreRp
  PROVE  Abs!Next
<1>1. UartIInv' /\ got' = <<>> /\ newWp' = newWp /\ next' = next
  BY StoreRpKeeps DEF StoreRp, writer, mode
<1>2. /\ rp \in Slot /\ newWp \in Slot /\ wp \in Slot /\ got \in Seq(Byte)
      /\ data \in [Slot -> Byte]
  BY DEF UartIInv, TypeOK
<1>3. PICK g \in Nat : g = Len(got)
  BY <1>2
<1>4. PICK t \in 0..N - 1 : t = Dist(rp, newWp)
  BY HeldIs
<1>5. /\ g \in 1..t /\ rp' = On(rp, g) /\ rp' \in Slot /\ Dist(rp', newWp) = t - g
      /\ data' \in [Slot -> Byte]
      /\ \A x \in Slot : ~(Dist(rp, x) < g) => data'[x] = data[x]
  <2>1. Dist(rp, wp) <= t /\ Dist(rp, wp) \in 0..N - 1
    BY <1>4, HeldIs DEF UartIInv
  <2>2. g \in 1..t
    BY <1>3, <1>4, <2>1, StoreRpIs, UartSizes
  <2>3. QED BY <1>3, <1>4, <2>2, StoreRpIs
<1>6. PICK m \in Nat : m = t - g /\ m < N
  BY <1>4, <1>5, UartSizes
<1> DEFINE rest == Stretch(data, rp', m)
<1>7. Waiting = got \o rest
  <2>1. Waiting = Content(data, rp, newWp, got)
    BY WaitingIs
  <2>2. QED BY <1>3, <1>4, <1>5, <1>6, <2>1 DEF Content
<1>8. Waiting' = Stretch(data', rp', m)
  <2>1. <<>> \in Seq(Byte) /\ Len(<<>>) = 0
    OBVIOUS
  <2>2. Dist(rp', newWp) = m /\ Len(<<>>) <= Dist(rp', newWp)
    BY <1>5, <1>6, <2>1, UartSizes
  <2>3. Content(data', rp', newWp, <<>>) = Stretch(data', rp', m)
    BY <1>2, <1>5, <2>1, <2>2, ContentIs, ZenonT(30)
  <2>4. QED BY <1>1, <2>3, WaitingIs
<1>9. Stretch(data', rp', m) = rest
  <2>1. ASSUME NEW x \in Slot, Dist(rp', x) < m PROVE data'[x] = data[x]
    <3>1. PICK e \in Nat : e = Dist(rp', x) /\ e < N
      BY <1>5, DistIs
    <3>2. x = On(rp', e)
      BY <1>5, <3>1, DistIs
    <3>3. x = On(rp, g + e)
      BY <1>2, <1>5, <3>2, OnAgain, UartSizes
    <3>4. g + e \in Nat /\ g + e < N /\ ~(g + e < g)
      BY <1>4, <1>5, <1>6, <2>1, <3>1, UartSizes
    <3>5. Dist(rp, x) = g + e
      BY <1>2, <3>3, <3>4, OnIs
    <3>6. QED BY <1>5, <3>4, <3>5
  <2>2. m \in 0..N - 1
    BY <1>6, UartSizes
  <2>3. QED BY <1>5, <2>1, <2>2, StretchSame
<1>10. rest \in Seq(Byte)
  BY <1>2, <1>5, <1>6, StretchType
<1> HIDE DEF rest
<1>11. SubSeq(got \o rest, g + 1, Len(got \o rest)) = rest
  BY <1>2, <1>3, <1>10, JoinedRest
<1>12. Len(got \o rest) = g + Len(rest) /\ Len(rest) \in Nat
  BY <1>2, <1>3, <1>10, ConcatProperties
<1>13. g \in 1..Len(Waiting)
  BY <1>3, <1>5, <1>7, <1>12, UartSizes
<1>14. Waiting' = SubSeq(Waiting, g + 1, Len(Waiting))
  BY <1>7, <1>8, <1>9, <1>11
<1>15. QED BY <1>1, <1>13, <1>14 DEF Abs!Next, Abs!Get

LEMMA ContractPut ==
  ASSUME UartIInv, NEW count \in 1..Burst, RecvNotify(count)
  PROVE  Abs!Next
<1>1. UartIInv' /\ got' = got /\ rp' = rp /\ newWp = wp
  BY BurstKeeps, BurstFits DEF RecvNotify, readVars
<1>2. /\ rp \in Slot /\ newWp \in Slot /\ wp \in Slot /\ got \in Seq(Byte)
      /\ data \in [Slot -> Byte]
  BY DEF UartIInv, TypeOK
<1>3. PICK n \in 0..count : n = Accepted(count)
  BY BurstFits
<1>4. PICK h \in Nat : h = Held /\ h < N
  BY HeldIs, UartSizes
<1>5. n \in Nat /\ (n = count \/ h + n = N - 1) /\ h + n \in 0..N - 1 /\ Dist(rp, newWp') = h + n
  BY <1>3, <1>4, BurstFits, UartSizes
<1>6. PICK g \in Nat : g = Len(got) /\ g <= h
  BY <1>4, HeldIs DEF UartIInv
<1>7. PICK m \in Nat : m = h - g /\ m < N
  BY <1>4, <1>6, UartSizes
<1>8. PICK a \in Slot : a = On(rp, g)
  BY <1>2, <1>6, OnIs
<1>9. wp = On(a, m)
  <2>1. wp = On(rp, h)
    BY <1>4, HeldIs
  <2>2. g + m = h
    BY <1>4, <1>6, <1>7, UartSizes
  <2>3. On(On(rp, g), m) = On(rp, g + m)
    BY <1>2, <1>6, <1>7, OnAgain
  <2>4. QED BY <1>8, <2>1, <2>2, <2>3
<1>10. Waiting = got \o Stretch(data, a, m)
  <2>1. Dist(rp, newWp) = h
    BY <1>1, <1>4, HeldIs
  <2>2. QED BY <1>6, <1>7, <1>8, <2>1, WaitingIs DEF Content
<1>11. Waiting' = got \o Stretch(data', a, m + n)
  <2>1. (h + n) - g = m + n
    BY <1>4, <1>5, <1>6, <1>7, UartSizes
  <2>2. QED BY <1>1, <1>5, <1>6, <1>8, <2>1, WaitingIs DEF Content
<1>12. data' \in [Slot -> Byte]
  BY BurstData
<1>13. Stretch(data', a, m + n) = Stretch(data', a, m) \o Stretch(data', wp, n)
  BY <1>5, <1>7, <1>8, <1>9, <1>12, StretchJoin
<1>14. Stretch(data', a, m) = Stretch(data, a, m)
  <2>1. ASSUME NEW x \in Slot, Dist(a, x) < m PROVE data'[x] = data[x]
    <3>1. PICK k \in Nat : k = Dist(wp, x) /\ x = On(wp, k)
      BY <1>2, DistIs
    <3>2. ASSUME k < n PROVE FALSE
      <4>1. m + k \in Nat /\ m + k < N
        BY <1>4, <1>5, <1>6, <1>7, <3>2, UartSizes
      <4>2. x = On(a, m + k)
        BY <1>8, <1>9, <3>1, <4>1, OnAgain
      <4>3. Dist(a, x) = m + k
        BY <1>8, <4>1, <4>2, OnIs
      <4>4. QED BY <2>1, <4>1, <4>3
    <3>3. QED BY <1>3, <3>1, <3>2, BurstData
  <2>2. m \in 0..N - 1
    BY <1>7, UartSizes
  <2>3. QED BY <1>8, <2>1, <2>2, StretchSame
<1> DEFINE new == [i \in 1..n |-> (next + (i - 1)) % (N + Burst)]
<1>15. Stretch(data', wp, n) = new
  <2>1. ASSUME NEW i \in 1..n PROVE data'[On(wp, i - 1)] = (next + (i - 1)) % (N + Burst)
    <3>1. PICK k \in Nat : k = i - 1
      BY <1>5
    <3>2. k < n /\ k < N
      BY <1>4, <1>5, <3>1, UartSizes
    <3>3. On(wp, k) \in Slot /\ Dist(wp, On(wp, k)) = k
      BY <1>2, <3>2, OnIs
    <3>4. QED BY <1>3, <3>1, <3>2, <3>3, BurstData
  <2>2. QED BY <2>1 DEF Stretch
<1>16. new \in Seq(Byte)
  <2>1. Stretch(data', wp, n) \in Seq(Byte)
    BY <1>2, <1>5, <1>12, StretchType
  <2>2. QED BY <1>15, <2>1
<1>17. Stretch(data, a, m) \in Seq(Byte) /\ Len(Stretch(data, a, m)) = m
  BY <1>2, <1>7, <1>8, StretchType
<1> HIDE DEF new
<1>18. Waiting' = Waiting \o new
  <2>1. Waiting' = got \o (Stretch(data, a, m) \o new)
    BY <1>11, <1>13, <1>14, <1>15
  <2>2. got \o (Stretch(data, a, m) \o new) = (got \o Stretch(data, a, m)) \o new
    BY <1>2, <1>16, <1>17, ConcatAssociative, SMTT(30)
  <2>3. QED BY <1>10, <2>1, <2>2
<1>19. Len(Waiting) = h
  <2>1. Len(Waiting) = g + m
    BY <1>2, <1>6, <1>10, <1>17, ConcatProperties
  <2>2. QED BY <2>1, <1>4, <1>6, <1>7, UartSizes
<1>20. BUF_SIZE - 1 + Burst + 1 = N + Burst
  BY UartSizes DEF N
<1>21. new = [i \in 1..n |-> Abs!Plus(next, i - 1)] /\ next' = Abs!Plus(next, count)
  BY <1>20 DEF Abs!Plus, new, RecvNotify, N
<1>22. n = count \/ Len(Waiting) + n = BUF_SIZE - 1
  BY <1>5, <1>19 DEF N
<1>23. Abs!Put(count)
  BY <1>3, <1>18, <1>21, <1>22 DEF Abs!Put
<1>24. QED BY <1>23 DEF Abs!Next

LEMMA ContractSteps == UartIInv /\ [Next]_uart => [Abs!Next]_<<Waiting, next>>
<1> SUFFICES ASSUME UartIInv, [Next]_uart PROVE [Abs!Next]_<<Waiting, next>>
  OBVIOUS
<1>1. ASSUME NEW count \in 1..Burst, RecvNotify(count) PROVE Abs!Next
  BY <1>1, ContractPut
<1>2. CASE StoreRp
  BY <1>2, ContractGet
<1>3. ASSUME NEW count \in 1..MaxCount, Copy(count) PROVE UNCHANGED <<Waiting, next>>
  BY <1>3, ContractCopy DEF Copy, writer, mode
<1>4. ASSUME UNCHANGED <<data, newWp, next, rp, newRp, got>>,
             (reader = "rp") = (reader' = "rp")
      PROVE  UNCHANGED <<Waiting, next>>
  BY <1>4 DEF Waiting, From
<1>5. CASE Notify \/ StoreWp \/ ReadBegin \/ ReadTest \/ ReadWoken
  BY <1>4, <1>5 DEF Notify, StoreWp, ReadBegin, ReadTest, ReadWoken, writer, readVars, mode
<1>6. CASE ReadTestAgain \/ EventClear
  BY <1>4, <1>6 DEF ReadTestAgain, EventClear, writer, mode
<1>7. ASSUME NEW b \in BOOLEAN, SetTransMode(b) PROVE UNCHANGED <<Waiting, next>>
  BY <1>4, <1>7 DEF SetTransMode, writer, readVars, mode
<1>8. CASE UNCHANGED uart
  BY <1>4, <1>8 DEF uart, writer, readVars, mode
<1>9. QED BY <1>1, <1>2, <1>3, <1>5, <1>6, <1>7, <1>8 DEF Next, ReaderStep, IsrStep

\* The receive buffer of the UART is a bounded queue: bytes come out once, in the order
\* of the line, and only the end of a burst that found it full is missing, for every size
\* of the buffer, burst and read, with the handler on the reader's core or on another
\* (PL011UartRecvNotify and Pl011Read: two indices and no lock).
THEOREM FifoContractHolds == Spec => FifoContract
<1>1. Init => Abs!Init
  BY ContractStart
<1>2. UartIInv /\ [Next]_uart => [Abs!Next]_<<Waiting, next>>
  BY ContractSteps
<1>3. QED BY <1>1, <1>2, UartIInvAlways, PTL DEF Spec, FifoContract, Abs!Spec
=============================================================================
