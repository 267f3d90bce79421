---------------------------- MODULE Wifi_proofs ----------------------------
(***************************************************************************)
(* Proofs about the two modules of the run "wifi".  BaSessions, for every  *)
(* finite number of users and tids, and every limit: the counts of         *)
(* sessions, the table of LUT indices, and that requests are timed.        *)
(* HccTx, for every number of packets, every credit and every assembly     *)
(* limit: types, credits, nothing stranded, a clean end, the contract.     *)
(***************************************************************************)
EXTENDS BaSessions, HccTx, NumberLemmas, SequenceTheorems, TLAPS

----------------------------------------------------------------------------
(* BaSessions: the sessions and their counts.                              *)

\* the numbers of users and tids are finite, the limits are numbers
BaConstants ==
  /\ IsFiniteSet(Users) /\ IsFiniteSet(Tids)
  /\ RxUse \subseteq Sessions /\ TxUse \subseteq Sessions
  /\ MaxRx \in Nat \ {0} /\ MaxTx \in Nat /\ MaxAttempts \in Nat
  /\ MaxToken \in Nat /\ MaxFailures \in Nat

LEMMA FiniteSessions == BaConstants => IsFiniteSet(Sessions)
  BY FS_Product DEF BaConstants, Sessions

----------------------------------------------------------------------------
(* What every state looks like: the arrays have an entry for each session, *)
(* and a receiving session that is there was accepted.                     *)

RxShape ==
  /\ rx \in [Sessions -> {None} \cup [policy : {"immediate"}, lut : Lut]]
  /\ rxNum \in Nat /\ luts \subseteq Lut

TxShape ==
  /\ tx \in [Sessions -> {None} \cup [state : {"inprogress", "complete"}, token : Token]]
  /\ timer \in [Sessions -> {"off", "armed", "queued"}]
  /\ attempts \in [Sessions -> 0..MaxAttempts]
  /\ asked \in [Sessions -> SUBSET Token]
  /\ txNum \in Nat /\ token \in Token /\ failed \in 0..MaxFailures
  /\ pending = None \/ pending \in [session : Sessions, token : Token]

LEMMA SessionIsThere ==
  /\ \A p, l : [policy |-> p, lut |-> l] # None
  /\ \A a, n : [state |-> a, token |-> n] # None
  /\ \A s, n : [session |-> s, token |-> n] # None
  BY DEF None

RxIInv == RxShape /\ RxCountExact /\ NoLutLost

\* the sessions that there are besides s
RxOthers(s) == { t \in Sessions : rx[t] # None } \ {s}

\* Resetting s leaves a count and a table that are right for the other sessions.
LEMMA RxWithout ==
  ASSUME BaConstants, RxIInv, NEW s \in Sessions
  PROVE  /\ IsFiniteSet(RxOthers(s)) /\ Cardinality(RxOthers(s)) = NumAfterReset(s)
         /\ NumAfterReset(s) \in Nat /\ NumAfterReset(s) <= MaxRx
         /\ rx[s] # None => NumAfterReset(s) = Less(rxNum)
         /\ LutsAfterReset(s) \subseteq Lut
         /\ rx[s] # None => LutsAfterReset(s) = LutsWithout(luts, rx[s])
         /\ \A l \in LutsAfterReset(s) : \E t \in RxOthers(s) : rx[t].lut = l
<1> DEFINE Live == { t \in Sessions : rx[t] # None }
<1>1. IsFiniteSet(Live) /\ Cardinality(Live) = rxNum /\ rxNum \in Nat /\ rxNum <= MaxRx
  BY FiniteSessions, FS_Subset DEF RxIInv, RxCountExact, RxShape
<1>2. /\ IsFiniteSet(Live \ {s})
      /\ Cardinality(Live \ {s}) = IF s \in Live THEN Cardinality(Live) - 1 ELSE Cardinality(Live)
  BY <1>1, FS_RemoveElement
<1>3. Cardinality(Live \ {s}) \in Nat
  BY <1>2, FS_CardinalityType
<1>4. MaxRx \in Nat
  BY DEF BaConstants
<1>5. /\ Cardinality(RxOthers(s)) = NumAfterReset(s)
      /\ NumAfterReset(s) \in Nat /\ NumAfterReset(s) <= MaxRx
  <2>1. CASE rx[s] = None
    BY <1>1, <1>2, <2>1, <1>4 DEF NumAfterReset, RxOthers
  <2>2. CASE rx[s] # None
    <3>1. rxNum # 0
      BY <1>1, <1>2, <1>3, <2>2
    <3>2. QED BY <1>1, <1>2, <1>4, <2>2, <3>1 DEF NumAfterReset, RxOthers, Less
  <2>3. QED BY <2>1, <2>2
<1>6. \A l \in LutsAfterReset(s) : \E t \in RxOthers(s) : rx[t].lut = l
  <2>1. rx[s] # None => rx[s].policy = "immediate" /\ rx[s].lut # NoLut
    BY <1>4 DEF RxIInv, RxShape, Lut, NoLut
  <2>2. QED BY <2>1 DEF RxIInv, NoLutLost, LutsAfterReset, LutsWithout, RxOthers
<1>7. QED
  BY <1>2, <1>5, <1>6 DEF RxOthers, RxIInv, RxShape, LutsAfterReset, LutsWithout, NumAfterReset

LEMMA RxStepKeeps ==
  ASSUME BaConstants, RxIInv, NEW s \in Sessions,
         RxAddbaReqNoMemory(s) \/ (\E p \in Policy : RxAddbaReq(s, p)) \/ RxEnds(s)
  PROVE  RxIInv'
<1> DEFINE Live2 == { t \in Sessions : rx'[t] # None }
<1> USE RxWithout
<1>0. MaxRx \in Nat \ {0} /\ IsFiniteSet(Sessions)
  BY FiniteSessions DEF BaConstants
\* s is gone, or was refused
<1>1. ASSUME rx' = [rx EXCEPT ![s] = None], rxNum' = NumAfterReset(s),
             luts' \subseteq LutsAfterReset(s)
      PROVE  RxIInv'
  <2>1. RxShape'
    BY <1>1 DEF RxShape, RxIInv
  <2>2. Live2 = RxOthers(s) /\ \A t \in RxOthers(s) : rx'[t] = rx[t]
    BY <1>1 DEF RxOthers, RxIInv, RxShape
  <2>3. RxCountExact'
    BY <1>1, <2>2 DEF RxCountExact
  <2>4. NoLutLost'
    BY <1>1, <2>2 DEF NoLutLost
  <2>5. QED BY <2>1, <2>3, <2>4 DEF RxIInv
<1>2. CASE RxAddbaReqNoMemory(s)
  BY <1>1, <1>2 DEF RxAddbaReqNoMemory
<1>3. CASE RxEnds(s)
  BY <1>1, <1>3 DEF RxEnds, ResetRx
<1>4. ASSUME NEW p \in Policy, RxAddbaReq(s, p) PROVE RxIInv'
  <2> DEFINE num == NumAfterReset(s)
             table == LutsAfterReset(s)
             check == Check(p, num + 1, table)
             new == [policy |-> p, lut |-> check.lut]
  <2>0. num \in Nat /\ num <= MaxRx /\ table \subseteq Lut
    OBVIOUS
  <2>1. CASE check.ok /\ rx' = [rx EXCEPT ![s] = new] /\ rxNum' = num + 1
              /\ luts' = table \cup {check.lut}
    <3>1. p = "immediate" /\ num + 1 <= MaxRx /\ check.lut \in Lut \ table
      <4>1. p # "delayed" /\ ~(num + 1 > MaxRx) /\ ~(Lut \subseteq table)
             /\ check.lut = Min(Lut \ table)
        BY <2>1, <2>0, <1>0 DEF Check
      <4>2. Lut \ table \subseteq 0..MaxRx
        BY <1>0 DEF Lut
      <4> HIDE DEF num, table, check
      <4>3. Min(Lut \ table) \in Lut \ table
        BY <4>1, <4>2, <1>0, LowestIndex
      <4>4. num + 1 <= MaxRx
        BY <4>1, <2>0, <1>0
      <4>5. QED BY <4>1, <4>3, <4>4 DEF Policy
    <3> HIDE DEF check
    <3>2. new \in [policy : {"immediate"}, lut : Lut] /\ new # None
      BY <3>1, SessionIsThere
    <3>3. RxShape'
      BY <2>0, <2>1, <3>1, <3>2 DEF RxShape, RxIInv
    <3>4. Live2 = RxOthers(s) \cup {s} /\ s \notin RxOthers(s)
      BY <2>1, <3>2 DEF RxOthers, RxIInv, RxShape
    <3>5. Cardinality(Live2) = num + 1
      <4>1. IsFiniteSet(RxOthers(s)) /\ Cardinality(RxOthers(s)) = num
        OBVIOUS
      <4> HIDE DEF num, Live2
      <4>2. QED BY <3>4, <4>1, FS_AddElement
    <3>6. RxCountExact'
      BY <2>1, <3>1, <3>5 DEF RxCountExact
    <3>7. rx'[s].lut = check.lut /\ \A t \in RxOthers(s) : rx'[t] = rx[t]
      BY <2>1 DEF RxOthers, RxIInv, RxShape
    <3>8. NoLutLost'
      BY <2>1, <3>4, <3>7 DEF NoLutLost
    <3>9. QED BY <3>3, <3>6, <3>8 DEF RxIInv
  <2>2. CASE rx' = [rx EXCEPT ![s] = None] /\ rxNum' = RefusedCount(num)
              /\ luts' = LutsWithout(IF check.ok THEN table \cup {check.lut} ELSE table, new)
    <3>1. RefusedCount(num) = num
      BY <2>0 DEF RefusedCount, Less
    <3>2. luts' \subseteq table
      <4>1. CASE check.ok
        <5>1. p # "delayed" /\ check.lut # NoLut
          <6>1. p # "delayed" /\ ~(Lut \subseteq table) /\ check.lut = Min(Lut \ table)
            BY <4>1, <2>0, <1>0 DEF Check
          <6>2. Lut \ table \subseteq 0..MaxRx
            BY <1>0 DEF Lut
          <6>3. check.lut \in Lut
            BY <6>1, <6>2, <1>0, LowestIndex
          <6>4. QED BY <6>1, <6>3, <1>0 DEF Lut, NoLut
        <5> HIDE DEF check
        <5>2. QED BY <2>2, <4>1, <5>1 DEF LutsWithout, Policy
      <4>2. CASE ~check.ok
        <5> HIDE DEF check
        <5>1. QED BY <2>2, <4>2 DEF LutsWithout
      <4>3. QED BY <4>1, <4>2
    <3>3. QED BY <1>1, <2>2, <3>1, <3>2
  <2>3. QED BY <1>4, <2>1, <2>2 DEF RxAddbaReq
<1>5. QED BY <1>2, <1>3, <1>4


\* A user that leaves takes its sessions and their indices along.
LEMMA TidClearKeepsRx ==
  ASSUME BaConstants, RxIInv, NEW u \in Users, TidClear(u)
  PROVE  RxIInv'
<1> DEFINE Live == { t \in Sessions : rx[t] # None }
           old == { t \in Sessions : t[1] = u /\ rx[t] # None }
<1>1. /\ IsFiniteSet(Live) /\ Cardinality(Live) = rxNum /\ rxNum \in Nat
      /\ MaxRx \in Nat /\ rxNum <= MaxRx
  BY FiniteSessions, FS_Subset DEF RxIInv, RxCountExact, RxShape, BaConstants
<1>2. Live \cap old = old
  OBVIOUS
<1>3. IsFiniteSet(old) /\ Cardinality(old) \in Nat /\ Cardinality(old) <= rxNum
  BY <1>1, FS_Subset, FS_CardinalityType
<1>4. Cardinality(Live \ old) = rxNum - Cardinality(old)
  <2> HIDE DEF Live, old
  <2>1. QED BY <1>1, <1>2, FS_Difference
<1>5. /\ rx' = [s \in Sessions |-> IF s[1] = u THEN None ELSE rx[s]]
      /\ luts' = luts \ { rx[s].lut : s \in old }
      /\ rxNum' = IF rxNum < Cardinality(old) THEN 0 ELSE rxNum - Cardinality(old)
  BY Zenon DEF TidClear
<1>6. { t \in Sessions : rx'[t] # None } = Live \ old
  BY <1>5
<1>7. RxCountExact' /\ rxNum' \in Nat
  <2> HIDE DEF Live, old
  <2>1. rxNum' = rxNum - Cardinality(old) /\ rxNum' <= MaxRx /\ rxNum' \in Nat
    BY <1>1, <1>3, <1>5
  <2>2. QED BY <1>4, <1>6, <2>1 DEF RxCountExact
<1>8. NoLutLost'
  <2> SUFFICES ASSUME NEW l \in luts' PROVE \E s \in Sessions : rx'[s] # None /\ rx'[s].lut = l
    BY DEF NoLutLost
  <2>1. PICK s \in Sessions : rx[s] # None /\ rx[s].lut = l
    BY <1>5 DEF RxIInv, NoLutLost
  <2>2. s \notin old
    BY <1>5, <2>1
  <2>3. QED BY <1>5, <2>1, <2>2
<1>9. QED BY <1>5, <1>7, <1>8 DEF RxIInv, RxShape

----------------------------------------------------------------------------
(* Sending sessions                                                        *)

TxIInv == TxShape /\ TxCountExact

TxOthers(s) == { t \in Sessions : tx[t] # None } \ {s}
TxNumAfterReset(s) == IF tx[s] = None THEN txNum ELSE Less(txNum)

\* The count is right for the others once s is reset.
LEMMA TxWithout ==
  ASSUME BaConstants, TxIInv, NEW s \in Sessions
  PROVE  /\ IsFiniteSet(TxOthers(s)) /\ Cardinality(TxOthers(s)) = TxNumAfterReset(s)
         /\ TxNumAfterReset(s) \in Nat
<1> DEFINE Live == { t \in Sessions : tx[t] # None }
<1>1. IsFiniteSet(Live) /\ Cardinality(Live) = txNum /\ txNum \in Nat
  BY FiniteSessions, FS_Subset DEF TxIInv, TxCountExact, TxShape
<1>2. /\ IsFiniteSet(Live \ {s})
      /\ Cardinality(Live \ {s}) = IF s \in Live THEN Cardinality(Live) - 1 ELSE Cardinality(Live)
  BY <1>1, FS_RemoveElement
<1>3. Cardinality(Live \ {s}) \in Nat
  BY <1>2, FS_CardinalityType
<1>4. CASE tx[s] = None
  BY <1>1, <1>2, <1>4 DEF TxNumAfterReset, TxOthers
<1>5. CASE tx[s] # None
  <2>1. txNum # 0
    BY <1>1, <1>2, <1>3, <1>5
  <2>2. QED BY <1>1, <1>2, <1>5, <2>1 DEF TxNumAfterReset, TxOthers, Less
<1>6. QED BY <1>4, <1>5

\* s is gone from the array and the count together.
LEMMA ResetTxExact ==
  ASSUME BaConstants, TxIInv, NEW s \in Sessions, ResetTx(s)
  PROVE  TxCountExact' /\ txNum' \in Nat
         /\ tx' \in [Sessions -> {None} \cup [state : {"inprogress", "complete"}, token : Token]]
         /\ timer' \in [Sessions -> {"off", "armed", "queued"}]
<1>1. tx' = [tx EXCEPT ![s] = None] /\ txNum' = TxNumAfterReset(s)
      /\ timer' = [timer EXCEPT ![s] = "off"]
  BY DEF ResetTx, TxNumAfterReset
<1>2. { t \in Sessions : tx'[t] # None } = TxOthers(s)
  BY <1>1 DEF TxOthers, TxIInv, TxShape
<1>3. QED BY <1>1, <1>2, TxWithout DEF TxCountExact, TxIInv, TxShape

LEMMA FaultType == ASSUME BaConstants, failed \in 0..MaxFailures, Failure \/ NoFailure
                   PROVE  failed' \in 0..MaxFailures
  BY DEF BaConstants, Failure, NoFailure

LEMMA SendRequestType ==
  ASSUME BaConstants, TxShape, NEW s \in Sessions, SendRequest(s)
  PROVE  /\ token' \in Token /\ failed' \in 0..MaxFailures
         /\ asked' \in [Sessions -> SUBSET Token]
         /\ pending' = None \/ pending' \in [session : Sessions, token : Token]
<1>1. token + 1 \in Token /\ token' = token + 1
  BY DEF SendRequest, Token, TxShape, BaConstants
<1>2. failed' \in 0..MaxFailures
  BY FaultType DEF SendRequest, TxShape
<1>3. CASE Failure /\ UNCHANGED <<pending, asked>>
  BY <1>1, <1>2, <1>3 DEF TxShape
<1>4. CASE pending' = [session |-> s, token |-> token + 1]
            /\ asked' = [asked EXCEPT ![s] = @ \cup {token + 1}]
  BY <1>1, <1>2, <1>4 DEF TxShape
<1>5. QED BY <1>3, <1>4 DEF SendRequest

LEMMA InstallKeepsTx ==
  ASSUME BaConstants, TxIInv, Install
  PROVE  TxIInv'
<1> DEFINE s == pending.session
           new == [state |-> "inprogress", token |-> pending.token]
<1>1. s \in Sessions /\ pending.token \in Token
  BY DEF Install, TxIInv, TxShape
<1>2. failed' \in 0..MaxFailures
  BY FaultType DEF Install, TxIInv, TxShape
<1>3. CASE Failure /\ ResetTx(s)
  BY <1>1, <1>2, <1>3, ResetTxExact DEF Install, TxIInv, TxShape
<1>4. CASE tx' = [tx EXCEPT ![s] = new] /\ txNum' = CountAfter(s)
            /\ timer' = [timer EXCEPT ![s] = TimerAfter(s)]
  <2>1. new \in [state : {"inprogress", "complete"}, token : Token] /\ new # None
    BY <1>1, SessionIsThere
  <2> HIDE DEF s, new
  <2>2. { t \in Sessions : tx'[t] # None } = TxOthers(s) \cup {s} /\ s \notin TxOthers(s)
    BY <1>1, <1>4, <2>1 DEF TxOthers, TxIInv, TxShape
  <2>3. Cardinality(TxOthers(s) \cup {s}) = TxNumAfterReset(s) + 1 /\ TxNumAfterReset(s) \in Nat
    BY <1>1, <2>2, TxWithout, FS_AddElement
  <2>4. txNum' = TxNumAfterReset(s) + 1
    BY <1>4 DEF CountAfter, TxNumAfterReset
  <2>5. TxCountExact' /\ txNum' \in Nat
    BY <2>2, <2>3, <2>4 DEF TxCountExact
  <2>6. QED BY <1>1, <1>2, <1>4, <2>1, <2>5 DEF Install, TxIInv, TxShape, TimerAfter
<1>5. QED BY <1>3, <1>4 DEF Install


LEMMA RequestKeepsTx ==
  ASSUME BaConstants, TxIInv, NEW s \in Sessions, XmitRequest(s) \/ CreateBa(s)
  PROVE  TxIInv'
<1>1. SendRequest(s) /\ UNCHANGED <<tx, txNum, timer>>
  BY DEF XmitRequest, CreateBa, txVars
<1>2. attempts' \in [Sessions -> 0..MaxAttempts]
  <2>1. CASE XmitRequest(s)
    <3>1. attempts[s] + 1 \in 0..MaxAttempts
      BY <2>1 DEF XmitRequest, NeedsSession, TxIInv, TxShape, BaConstants
    <3>2. QED BY <2>1, <3>1 DEF XmitRequest, TxIInv, TxShape
  <2>2. CASE CreateBa(s)
    BY <2>2 DEF CreateBa, txVars, TxIInv, TxShape
  <2>3. QED BY <2>1, <2>2
<1>3. QED BY <1>1, <1>2, SendRequestType DEF TxIInv, TxShape, TxCountExact

LEMMA RspKeepsTx ==
  ASSUME BaConstants, TxIInv, NEW s \in Sessions, NEW n \in Token, NEW a \in BOOLEAN,
         RxAddbaRsp(s, n, a)
  PROVE  TxIInv'
<1>1. asked' \in [Sessions -> SUBSET Token] /\ UNCHANGED <<token, pending>>
  BY DEF RxAddbaRsp, TxIInv, TxShape
<1>2. failed' \in 0..MaxFailures
  BY FaultType DEF RxAddbaRsp, TxDelba, TxIInv, TxShape
<1>3. CASE ResetTx(s) /\ UNCHANGED attempts
  BY <1>1, <1>2, <1>3, ResetTxExact DEF TxIInv, TxShape
<1>4. CASE UNCHANGED txVars
  BY <1>1, <1>2, <1>4 DEF txVars, TxIInv, TxShape, TxCountExact
<1>5. CASE timer' = [timer EXCEPT ![s] = "off"] /\ UNCHANGED <<tx, txNum, attempts>>
  BY <1>1, <1>2, <1>5 DEF TxIInv, TxShape, TxCountExact
<1>6. CASE /\ tx[s] # None /\ tx' = [tx EXCEPT ![s].state = "complete"]
           /\ timer' = [timer EXCEPT ![s] = "off"] /\ attempts' = [attempts EXCEPT ![s] = 0]
           /\ UNCHANGED txNum
  <2> DEFINE new == [tx[s] EXCEPT !.state = "complete"]
  <2>1. new \in [state : {"inprogress", "complete"}, token : Token] /\ new # None
    <3>1. tx[s] \in [state : {"inprogress", "complete"}, token : Token]
      BY <1>6 DEF TxIInv, TxShape
    <3>2. new \in [state : {"inprogress", "complete"}, token : Token]
      BY <3>1
    <3>3. QED BY <3>2, SessionIsThere
  <2>2. tx' = [tx EXCEPT ![s] = new]
    BY <1>6
  <2> HIDE DEF new
  <2>3. tx' \in [Sessions -> {None} \cup [state : {"inprogress", "complete"}, token : Token]]
        /\ { t \in Sessions : tx'[t] # None } = { t \in Sessions : tx[t] # None }
    BY <1>6, <2>1, <2>2 DEF TxIInv, TxShape
  <2>4. 0 \in 0..MaxAttempts
    BY DEF BaConstants
  <2>5. QED BY <1>1, <1>2, <1>6, <2>3, <2>4 DEF TxIInv, TxShape, TxCountExact
<1>7. CASE tx[s] = None
  BY <1>3, <1>7, <1>4 DEF RxAddbaRsp, TxDelba, txVars
<1>8. CASE tx[s] # None
  BY <1>3, <1>4, <1>5, <1>6, <1>8 DEF RxAddbaRsp
<1>9. QED BY <1>7, <1>8

LEMMA EndKeepsTx ==
  ASSUME BaConstants, TxIInv, NEW s \in Sessions,
         TxEnds(s) \/ TimerExpires(s) \/ AddbaTimeout(s)
  PROVE  TxIInv'
<1>1. UNCHANGED <<attempts, token, pending, asked>>
  BY DEF TxEnds, TimerExpires, AddbaTimeout
<1>2. failed' \in 0..MaxFailures
  BY FaultType DEF TxEnds, TimerExpires, AddbaTimeout, TxIInv, TxShape
<1>3. CASE ResetTx(s)
  BY <1>1, <1>2, <1>3, ResetTxExact DEF TxIInv, TxShape
<1>4. ASSUME NEW w \in {"off", "armed", "queued"}, timer' = [timer EXCEPT ![s] = w],
             UNCHANGED <<tx, txNum>>
      PROVE  TxIInv'
  BY <1>1, <1>2, <1>4 DEF TxIInv, TxShape, TxCountExact
<1>5. QED BY <1>3, <1>4 DEF TxEnds, TimerExpires, AddbaTimeout

LEMMA TidClearKeepsTx ==
  ASSUME BaConstants, TxIInv, NEW u \in Users, TidClear(u)
  PROVE  TxIInv'
<1> DEFINE Live == { t \in Sessions : tx[t] # None }
           gone == { t \in Sessions : t[1] = u /\ tx[t] # None }
<1>1. IsFiniteSet(Live) /\ Cardinality(Live) = txNum /\ txNum \in Nat
  BY FiniteSessions, FS_Subset DEF TxIInv, TxCountExact, TxShape
<1>2. Live \cap gone = gone
  OBVIOUS
<1>3. IsFiniteSet(gone) /\ Cardinality(gone) \in Nat /\ Cardinality(gone) <= txNum
  BY <1>1, FS_Subset, FS_CardinalityType
<1>4. Cardinality(Live \ gone) = txNum - Cardinality(gone)
  <2> HIDE DEF Live, gone
  <2>1. QED BY <1>1, <1>2, FS_Difference
<1>5. /\ tx' = [s \in Sessions |-> IF s[1] = u THEN None ELSE tx[s]]
      /\ timer' = [s \in Sessions |-> IF s[1] = u THEN "off" ELSE timer[s]]
      /\ txNum' = IF txNum < Cardinality(gone) THEN 0 ELSE txNum - Cardinality(gone)
      /\ UNCHANGED <<attempts, token, pending, asked, failed>>
  BY Zenon DEF TidClear
<1>6. { t \in Sessions : tx'[t] # None } = Live \ gone
  BY <1>5
<1>7. TxCountExact' /\ txNum' \in Nat
  <2> HIDE DEF Live, gone
  <2>1. txNum' = txNum - Cardinality(gone) /\ txNum' \in Nat
    BY <1>1, <1>3, <1>5
  <2>2. QED BY <1>4, <1>6, <2>1 DEF TxCountExact
<1>8. QED BY <1>5, <1>7 DEF TxIInv, TxShape

----------------------------------------------------------------------------
BaIInv == RxIInv /\ TxIInv

LEMMA BaIInvInit == BaConstants /\ BaInit => BaIInv
<1> SUFFICES ASSUME BaConstants, BaInit PROVE BaIInv
  OBVIOUS
<1>1. RxShape /\ TxShape
  BY DEF BaInit, RxShape, TxShape, BaConstants, Token, Lut
<1>2. { s \in Sessions : rx[s] # None } = {} /\ { s \in Sessions : tx[s] # None } = {}
  BY DEF BaInit
<1>3. RxCountExact /\ TxCountExact
  BY <1>2, FS_EmptySet DEF BaInit, RxCountExact, TxCountExact, BaConstants
<1>4. NoLutLost
  BY DEF BaInit, NoLutLost
<1>5. QED BY <1>1, <1>3, <1>4 DEF BaIInv, RxIInv, TxIInv

LEMMA BaIInvStep ==
  ASSUME BaConstants, BaIInv, [BaNext]_ba
  PROVE  BaIInv'
<1> USE DEF BaIInv
<1>0. RxUse \subseteq Sessions /\ TxUse \subseteq Sessions
  BY DEF BaConstants
<1>1. ASSUME UNCHANGED rxVars PROVE RxIInv'
  BY <1>1 DEF rxVars, RxIInv, RxShape, RxCountExact, NoLutLost
<1>2. ASSUME UNCHANGED <<txVars, token, pending, asked>>, failed' \in 0..MaxFailures PROVE TxIInv'
  BY <1>2 DEF txVars, TxIInv, TxShape, TxCountExact
<1>3. ASSUME NEW s \in RxUse,
             RxAddbaReqNoMemory(s) \/ (\E p \in Policy : RxAddbaReq(s, p)) \/ RxEnds(s)
      PROVE  BaIInv'
  <2>1. UNCHANGED <<txVars, token, pending, asked>>
    BY <1>3 DEF RxAddbaReqNoMemory, RxAddbaReq, RxEnds
  <2>2. failed' \in 0..MaxFailures
    BY <1>3, FaultType DEF RxAddbaReqNoMemory, RxAddbaReq, RxEnds, TxIInv, TxShape
  <2>3. QED BY <1>0, <1>2, <1>3, <2>1, <2>2, RxStepKeeps
<1>4. ASSUME NEW s \in TxUse, XmitRequest(s) \/ CreateBa(s) PROVE BaIInv'
  BY <1>0, <1>1, <1>4, RequestKeepsTx DEF XmitRequest, CreateBa
<1>5. ASSUME NEW s \in TxUse, TxEnds(s) \/ TimerExpires(s) \/ AddbaTimeout(s) PROVE BaIInv'
  BY <1>0, <1>1, <1>5, EndKeepsTx DEF TxEnds, TimerExpires, AddbaTimeout
<1>6. ASSUME NEW s \in TxUse, NEW n \in Token, NEW a \in BOOLEAN, RxAddbaRsp(s, n, a)
      PROVE  BaIInv'
  BY <1>0, <1>1, <1>6, RspKeepsTx DEF RxAddbaRsp
<1>7. CASE Install
  BY <1>1, <1>7, InstallKeepsTx DEF Install
<1>8. ASSUME NEW u \in Users, TidClear(u) PROVE BaIInv'
  BY <1>8, TidClearKeepsRx, TidClearKeepsTx
<1>9. CASE UNCHANGED ba
  BY <1>1, <1>2, <1>9 DEF ba, TxIInv, TxShape
<1>10. QED
  BY <1>3, <1>4, <1>5, <1>6, <1>7, <1>8, <1>9 DEF BaNext, RxStep, TxStep, TimerStep

LEMMA BaIInvHolds == BaConstants => (BaSpec => []BaIInv)
<1> SUFFICES ASSUME BaConstants PROVE BaSpec => []BaIInv
  OBVIOUS
<1>1. BaInit => BaIInv
  BY BaIInvInit
<1>2. BaIInv /\ [BaNext]_ba => BaIInv'
  BY BaIInvStep
<1>3. QED BY <1>1, <1>2, PTL DEF BaSpec

\* Type correctness.
THEOREM BaTypeCorrect == BaConstants => (BaSpec => []BaTypeOK)
<1> SUFFICES ASSUME BaConstants PROVE BaSpec => []BaTypeOK
  OBVIOUS
<1>1. BaIInv => BaTypeOK
  BY DEF BaIInv, RxIInv, TxIInv, RxShape, TxShape, BaTypeOK, Policy
<1>2. QED BY <1>1, BaIInvHolds, PTL

\* rx_ba_session_num is the number of receiving sessions, and within its limit, whatever
\* was refused, replaced, not sent or cleared (hmac_mgmt_rx_addba_req).
THEOREM RxCounted == BaConstants => (BaSpec => []RxCountExact)
<1> SUFFICES ASSUME BaConstants PROVE BaSpec => []RxCountExact
  OBVIOUS
<1>1. BaIInv => RxCountExact
  BY DEF BaIInv, RxIInv
<1>2. QED BY <1>1, BaIInvHolds, PTL

\* tx_ba_session_num is the number of sending sessions, although the task that sends and
\* the event task both change it (hmac_mgmt_set_ba_tx_info).
THEOREM TxCounted == BaConstants => (BaSpec => []TxCountExact)
<1> SUFFICES ASSUME BaConstants PROVE BaSpec => []TxCountExact
  OBVIOUS
<1>1. BaIInv => TxCountExact
  BY DEF BaIInv, TxIInv
<1>2. QED BY <1>1, BaIInvHolds, PTL

\* Every LUT index that is taken belongs to a session, so none is lost for ever
\* (hmac_ba_reset_rx_handle).
THEOREM LutsBelong == BaConstants => (BaSpec => []NoLutLost)
<1> SUFFICES ASSUME BaConstants PROVE BaSpec => []NoLutLost
  OBVIOUS
<1>1. BaIInv => NoLutLost
  BY DEF BaIInv, RxIInv
<1>2. QED BY <1>1, BaIInvHolds, PTL

----------------------------------------------------------------------------
(* A request is timed: the safety half of RequestsEnd.                     *)

RequestTimed ==
  failed = 0 =>
    \A s \in Sessions : tx[s] # None /\ tx[s].state = "inprogress" => timer[s] # "off"

LEMMA TimedStep ==
  ASSUME BaConstants, TxIInv, RequestTimed, [BaNext]_ba
  PROVE  RequestTimed'
<1> SUFFICES ASSUME failed' = 0, NEW s \in Sessions,
                    tx'[s] # None, tx'[s].state = "inprogress"
             PROVE  timer'[s] # "off"
  BY DEF RequestTimed
<1>1. RxUse \subseteq Sessions /\ TxUse \subseteq Sessions
  BY DEF BaConstants
<1>2. /\ tx \in [Sessions -> {None} \cup [state : {"inprogress", "complete"}, token : Token]]
      /\ timer \in [Sessions -> {"off", "armed", "queued"}] /\ failed \in Nat
      /\ pending = None \/ pending \in [session : Sessions, token : Token]
  BY DEF TxIInv, TxShape
<1>3. ~Failure /\ (failed' = failed => failed = 0)
  BY <1>2 DEF Failure
\* where nothing about s is changed, or s is reset
<1>4. ASSUME failed' = failed, tx' = tx, timer' = timer PROVE timer'[s] # "off"
  BY <1>3, <1>4 DEF RequestTimed
<1>5. ASSUME failed' = failed, NEW t \in Sessions, ResetTx(t) PROVE timer'[s] # "off"
  <2>1. tx' = [tx EXCEPT ![t] = None] /\ timer' = [timer EXCEPT ![t] = "off"]
    BY <1>5 DEF ResetTx
  <2>2. s # t
    BY <1>2, <2>1
  <2>3. tx'[s] = tx[s] /\ timer'[s] = timer[s]
    BY <1>2, <2>1, <2>2
  <2>4. QED BY <1>3, <1>5, <2>3 DEF RequestTimed
<1>6. ASSUME NEW t \in RxUse,
             RxAddbaReqNoMemory(t) \/ (\E p \in Policy : RxAddbaReq(t, p)) \/ RxEnds(t)
      PROVE  timer'[s] # "off"
  <2>1. tx' = tx /\ timer' = timer
    BY <1>6 DEF RxAddbaReqNoMemory, RxAddbaReq, RxEnds, txVars
  <2>2. failed' = failed
    BY <1>3, <1>6 DEF RxAddbaReqNoMemory, RxAddbaReq, RxEnds, NoFailure
  <2>3. QED BY <1>4, <2>1, <2>2
<1>7. ASSUME NEW t \in TxUse, XmitRequest(t) \/ CreateBa(t) PROVE timer'[s] # "off"
  <2>1. tx' = tx /\ timer' = timer /\ SendRequest(t)
    BY <1>7 DEF XmitRequest, CreateBa, txVars
  <2>2. failed' = failed
    BY <1>3, <2>1 DEF SendRequest, NoFailure
  <2>3. QED BY <1>4, <2>1, <2>2
<1>8. ASSUME NEW t \in TxUse, TxEnds(t) PROVE timer'[s] # "off"
  BY <1>1, <1>5, <1>8 DEF TxEnds
<1>9. ASSUME NEW t \in TxUse, TimerExpires(t) PROVE timer'[s] # "off"
  <2>1. /\ timer' = [timer EXCEPT ![t] = "queued"] /\ tx' = tx /\ failed' = failed
    BY <1>9 DEF TimerExpires
  <2>2. timer'[s] = "queued" \/ timer'[s] = timer[s]
    BY <1>2, <2>1
  <2>3. timer[s] # "off"
    BY <1>3, <2>1 DEF RequestTimed
  <2>4. QED BY <2>2, <2>3
<1>10. ASSUME NEW t \in TxUse, AddbaTimeout(t) PROVE timer'[s] # "off"
  BY <1>1, <1>3, <1>5, <1>10 DEF AddbaTimeout, NoFailure
<1>11. ASSUME NEW t \in TxUse, NEW n \in Token, NEW a \in BOOLEAN, RxAddbaRsp(t, n, a)
       PROVE  timer'[s] # "off"
  <2>1. CASE tx[t] = None
    <3>1. NoFailure /\ ResetTx(t)
      BY <1>3, <1>11, <2>1 DEF RxAddbaRsp, TxDelba
    <3>2. QED BY <1>1, <1>5, <3>1 DEF NoFailure
  <2>2. CASE tx[t] # None
    <3>1. NoFailure /\ (\/ tx' = tx /\ timer' = timer
                       \/ ResetTx(t)
                       \/ /\ tx' = [tx EXCEPT ![t].state = "complete"]
                          /\ timer' = [timer EXCEPT ![t] = "off"])
      BY <1>3, <1>11, <2>2 DEF RxAddbaRsp, txVars
    <3>2. CASE /\ tx' = [tx EXCEPT ![t].state = "complete"]
               /\ timer' = [timer EXCEPT ![t] = "off"]
      <4>1. t \in Sessions /\ tx'[t].state = "complete"
        BY <1>1, <1>2, <2>2, <3>2
      <4>2. s # t /\ tx'[s] = tx[s] /\ timer'[s] = timer[s]
        BY <1>2, <3>2, <4>1
      <4>3. QED BY <1>3, <3>1, <4>2 DEF NoFailure, RequestTimed
    <3>3. QED BY <1>1, <1>4, <1>5, <3>1, <3>2 DEF NoFailure
  <2>3. QED BY <2>1, <2>2
<1>12. CASE Install
  <2>1. PICK t \in Sessions : t = pending.session
    BY <1>2, <1>12 DEF Install
  <2>2. CASE NoFailure /\ timer' = [timer EXCEPT ![t] = "armed"]
             /\ tx' = [tx EXCEPT ![t] = [state |-> "inprogress", token |-> pending.token]]
    <3>1. s # t => tx'[s] = tx[s] /\ timer'[s] = timer[s]
      BY <1>2, <2>2
    <3>2. s = t => timer'[s] = "armed"
      BY <1>2, <2>2
    <3>3. QED BY <1>3, <2>2, <3>1, <3>2 DEF NoFailure, RequestTimed
  <2>3. QED BY <1>3, <1>12, <2>1, <2>2 DEF Install, TimerAfter
<1>13. ASSUME NEW u \in Users, TidClear(u) PROVE timer'[s] # "off"
  <2>1. /\ tx' = [t \in Sessions |-> IF t[1] = u THEN None ELSE tx[t]]
        /\ timer' = [t \in Sessions |-> IF t[1] = u THEN "off" ELSE timer[t]]
        /\ failed' = failed
    BY <1>13, Zenon DEF TidClear
  <2>2. s[1] # u /\ tx'[s] = tx[s] /\ timer'[s] = timer[s]
    BY <2>1
  <2>3. QED BY <1>3, <2>1, <2>2 DEF RequestTimed
<1>14. CASE UNCHANGED ba
  BY <1>4, <1>14 DEF ba, txVars
<1>15. QED
  BY <1>6, <1>7, <1>8, <1>9, <1>10, <1>11, <1>12, <1>13, <1>14 DEF BaNext, RxStep, TxStep, TimerStep

\* As long as no allocation and no send has failed, a request in progress has its timer armed or
\* the end of the timer on its way: the two halves of the request, the answer, the time-out and the
\* end of the session, which the two tasks make in any order, never leave it without either
\* (hmac_mgmt_set_ba_tx_info, hmac_mgmt_rx_addba_rsp, hmac_mgmt_tx_addba_timeout).
THEOREM RequestsAlwaysTimed == BaConstants => (BaSpec => []RequestTimed)
<1> SUFFICES ASSUME BaConstants PROVE BaSpec => []RequestTimed
  OBVIOUS
<1>1. BaInit => RequestTimed
  BY DEF BaInit, RequestTimed
<1>2. BaIInv /\ RequestTimed /\ [BaNext]_ba => RequestTimed'
  BY TimedStep DEF BaIInv
<1>3. QED BY <1>1, <1>2, BaIInvHolds, PTL DEF BaSpec

----------------------------------------------------------------------------
(* The indices of the receiving sessions below the limit.                  *)

\* no more pairs receive than there are indices
FewReceive == Cardinality(RxUse) <= MaxRx

LutIInv ==
  /\ \A s \in Sessions : rx[s] # None => s \in RxUse /\ rx[s].lut \in luts
  /\ LutsUnique

\* the step of a session that ends with none, or with an index nobody else has
LEMMA LutGiven ==
  ASSUME BaConstants, RxIInv, LutIInv, NEW s \in RxUse, NEW new,
         rx' = [rx EXCEPT ![s] = new], new = None \/ new.lut \in luts' \ LutsAfterReset(s),
         LutsAfterReset(s) \subseteq luts'
  PROVE  LutIInv'
<1>1. s \in Sessions /\ rx \in [Sessions -> {None} \cup [policy : {"immediate"}, lut : Lut]]
  BY DEF BaConstants, RxIInv, RxShape
<1>2. ASSUME NEW t \in Sessions, t # s
      PROVE  rx'[t] = rx[t] /\ (rx[t] # None => t \in RxUse /\ rx[t].lut \in LutsAfterReset(s))
  <2>1. rx'[t] = rx[t]
    BY <1>1, <1>2
  <2>2. rx[t] # None => t \in RxUse /\ rx[t].lut \in luts
    BY DEF LutIInv
  <2>3. rx[t] # None /\ rx[s] # None => rx[t].lut # rx[s].lut
    BY <1>1, <1>2 DEF LutIInv, LutsUnique
  <2>4. QED BY <2>1, <2>2, <2>3 DEF LutsAfterReset, LutsWithout
<1>3. rx'[s] = new
  BY <1>1
<1>4. \A t \in Sessions : rx'[t] # None => t \in RxUse /\ rx'[t].lut \in luts'
  BY <1>2, <1>3
<1>5. ASSUME NEW t \in Sessions, NEW u \in Sessions, t # u, rx'[t] # None, rx'[u] # None
      PROVE  rx'[t].lut # rx'[u].lut
  <2>1. CASE t # s /\ u # s
    BY <1>2, <1>5, <2>1 DEF LutIInv, LutsUnique
  <2>2. CASE t = s
    BY <1>2, <1>3, <1>5, <2>2
  <2>3. CASE u = s
    BY <1>2, <1>3, <1>5, <2>3
  <2>4. QED BY <2>1, <2>2, <2>3
<1>6. QED BY <1>4, <1>5 DEF LutIInv, LutsUnique

\* below the limit, only a delayed session is refused
LEMMA Admitted ==
  ASSUME BaConstants, IsFiniteSet(RxUse), FewReceive, RxIInv, LutIInv, NEW s \in RxUse
  PROVE  NumAfterReset(s) + 1 <= MaxRx
<1>1. s \in Sessions
  BY DEF BaConstants
<1>2. /\ IsFiniteSet(RxOthers(s)) /\ Cardinality(RxOthers(s)) = NumAfterReset(s)
      /\ NumAfterReset(s) \in Nat
  BY <1>1, RxWithout
<1>3. RxOthers(s) \subseteq RxUse \ {s}
  BY DEF RxOthers, LutIInv
<1>4. IsFiniteSet(RxUse \ {s}) /\ Cardinality(RxUse \ {s}) = Cardinality(RxUse) - 1
  BY FS_RemoveElement
<1>5. Cardinality(RxOthers(s)) <= Cardinality(RxUse \ {s})
  BY <1>3, <1>4, FS_Subset
<1>6. Cardinality(RxUse) \in Nat /\ MaxRx \in Nat
  BY FS_CardinalityType DEF BaConstants
<1>7. QED BY <1>2, <1>4, <1>5, <1>6 DEF FewReceive

LEMMA LutRequest ==
  ASSUME BaConstants, IsFiniteSet(RxUse), FewReceive, RxIInv, LutIInv,
         NEW s \in RxUse, NEW p \in Policy, RxAddbaReq(s, p)
  PROVE  LutIInv'
<1>1. PICK num : num = NumAfterReset(s)
  OBVIOUS
<1>2. PICK table : table = LutsAfterReset(s)
  OBVIOUS
<1>3. PICK check : check = Check(p, num + 1, table)
  OBVIOUS
<1>4. PICK new : new = [policy |-> p, lut |-> check.lut]
  OBVIOUS
<1>5. MaxRx \in Nat /\ num \in Nat /\ num + 1 <= MaxRx /\ table \subseteq Lut
  BY <1>1, <1>2, Admitted, RxWithout DEF BaConstants
<1>6. check.ok => p = "immediate" /\ check.lut \in Lut \ table
  <2> SUFFICES ASSUME check.ok PROVE p = "immediate" /\ check.lut \in Lut \ table
    OBVIOUS
  <2>1. p # "delayed" /\ ~(Lut \subseteq table) /\ check.lut = Min(Lut \ table)
    BY <1>3, <1>5 DEF Check
  <2>2. Lut \ table \in SUBSET (0..MaxRx) /\ Lut \ table # {}
    BY <1>5, <2>1 DEF Lut
  <2>3. Min(Lut \ table) \in Lut \ table
    BY <1>5, <2>2, LowestIndex
  <2>4. QED BY <2>1, <2>3 DEF Policy
<1>7. ~check.ok => p = "delayed" \/ check.lut = NoLut
  BY <1>3, <1>5 DEF Check
<1>8. CASE check.ok /\ rx' = [rx EXCEPT ![s] = new] /\ luts' = table \cup {check.lut}
  BY <1>2, <1>4, <1>6, <1>8, LutGiven
<1>9. CASE /\ rx' = [rx EXCEPT ![s] = None]
           /\ luts' = LutsWithout(IF check.ok THEN table \cup {check.lut} ELSE table, new)
  <2>1. CASE check.ok
    BY <1>2, <1>4, <1>6, <1>9, <2>1, LutGiven DEF LutsWithout
  <2>2. CASE ~check.ok
    <3>1. luts' = table
      BY <1>4, <1>7, <1>9, <2>2 DEF LutsWithout
    <3>2. QED BY <1>2, <1>9, <3>1, LutGiven
  <2>3. QED BY <2>1, <2>2
<1>10. QED BY <1>1, <1>2, <1>3, <1>4, <1>8, <1>9 DEF RxAddbaReq

LEMMA LutStep ==
  ASSUME BaConstants, IsFiniteSet(RxUse), FewReceive, RxIInv, LutIInv, [BaNext]_ba
  PROVE  LutIInv'
<1>1. ASSUME UNCHANGED rxVars PROVE LutIInv'
  BY <1>1 DEF rxVars, LutIInv, LutsUnique
<1>2. ASSUME NEW s \in RxUse, RxAddbaReqNoMemory(s) \/ RxEnds(s) PROVE LutIInv'
  <2>1. /\ rx' = [rx EXCEPT ![s] = None] /\ luts' = LutsAfterReset(s)
    BY <1>2 DEF RxAddbaReqNoMemory, RxEnds, ResetRx, LutsAfterReset
  <2>2. QED BY <2>1, LutGiven
<1>3. ASSUME NEW s \in RxUse, NEW p \in Policy, RxAddbaReq(s, p) PROVE LutIInv'
  BY <1>3, LutRequest
<1>4. CASE TxStep \/ Install \/ TimerStep
  <2>1. UNCHANGED rxVars
    BY <1>4 DEF TxStep, XmitRequest, CreateBa, TxEnds, RxAddbaRsp, Install, TimerStep,
                TimerExpires, AddbaTimeout
  <2>2. QED BY <1>1, <2>1
<1>5. ASSUME NEW u \in Users, TidClear(u) PROVE LutIInv'
  <2> DEFINE old == { s \in Sessions : s[1] = u /\ rx[s] # None }
             given == { rx[s].lut : s \in old }
  <2>1. /\ rx' = [s \in Sessions |-> IF s[1] = u THEN None ELSE rx[s]]
        /\ luts' = luts \ given
    BY <1>5, Zenon DEF TidClear
  <2>2. ASSUME NEW s \in Sessions, rx'[s] # None
        PROVE  rx'[s] = rx[s] /\ s \in RxUse /\ rx[s].lut \in luts'
    <3>1. rx'[s] = rx[s] /\ rx[s] # None /\ s \notin old
      BY <2>1, <2>2
    <3>2. s \in RxUse /\ rx[s].lut \in luts
      BY <3>1 DEF LutIInv
    <3>3. \A t \in old : rx[t].lut # rx[s].lut
      BY <3>1 DEF LutIInv, LutsUnique
    <3>4. QED BY <2>1, <3>1, <3>2, <3>3
  <2>3. QED BY <2>2 DEF LutIInv, LutsUnique
<1>6. CASE UNCHANGED ba
  BY <1>1, <1>6 DEF ba
<1>7. QED BY <1>2, <1>3, <1>4, <1>5, <1>6 DEF BaNext, RxStep

\* Where no more pairs of a user and a tid receive than there are LUT indices, no two sessions get
\* the same index, whatever is replaced, refused or cleared: what breaks LutsUnique is the refusal
\* at the limit alone, which gives back an index that was never taken (hmac_mgmt_check_set_rx_ba_ok,
\* hmac_ba_reset_rx_handle).
THEOREM LutsUniqueBelowLimit ==
  BaConstants /\ IsFiniteSet(RxUse) /\ FewReceive => (BaSpec => []LutsUnique)
<1> SUFFICES ASSUME BaConstants, IsFiniteSet(RxUse), FewReceive PROVE BaSpec => []LutsUnique
  OBVIOUS
<1>1. BaInit => LutIInv
  BY DEF BaInit, LutIInv, LutsUnique
<1>2. BaIInv /\ LutIInv /\ [BaNext]_ba => LutIInv'
  BY LutStep DEF BaIInv
<1>3. LutIInv => LutsUnique
  BY DEF LutIInv
<1>4. QED BY <1>1, <1>2, <1>3, BaIInvHolds, PTL DEF BaSpec

----------------------------------------------------------------------------
(* HccTx: queues of packets.                                               *)

\* the position of a key frame among the others is a position of the queue
LEMMA FrontAndRest ==
  ASSUME NEW S, NEW s \in Seq(S), NEW n \in 0..Len(s)
  PROVE  /\ Front(s, n) \in Seq(S) /\ Len(Front(s, n)) = n
         /\ Rest(s, n) \in Seq(S) /\ Len(Rest(s, n)) = Len(s) - n
<1>1. Len(s) \in Nat /\ \A i \in 1..Len(s) : s[i] \in S
  BY LenProperties, ElementOfSeq
<1>2. Front(s, n) \in Seq(S) /\ Len(Front(s, n)) = n
  BY <1>1, SubSeqProperties DEF Front
<1>3. Rest(s, n) \in Seq(S) /\ Len(Rest(s, n)) = Len(s) - n
  BY <1>1, SubSeqProperties DEF Rest
<1>4. QED BY <1>2, <1>3

----------------------------------------------------------------------------
(* Sequences of packets: no packet twice, those of a class in order.       *)

Once(s) == \A i, j \in DOMAIN s : s[i] = s[j] => i = j

InOrder(s, c) ==
  \A i, j \in DOMAIN s : i < j /\ s[i][1] = c /\ s[j][1] = c => s[i][2] < s[j][2]

Older(S, T, c) == \A p \in S, q \in T : p[1] = c /\ q[1] = c => p[2] < q[2]

LEMMA NoPacket ==
  /\ Elems(<<>>) = {} /\ Once(<<>>) /\ \A c : InOrder(<<>>, c)
  /\ \A p : Elems(<<p>>) = {p} /\ Once(<<p>>) /\ \A c : InOrder(<<p>>, c)
BY DEF Elems, Once, InOrder

LEMMA AppendPacket ==
  ASSUME NEW S, NEW s \in Seq(S), NEW p \in S, p \notin Elems(s)
  PROVE  /\ Elems(Append(s, p)) = Elems(s) \cup {p}
         /\ Once(s) => Once(Append(s, p))
         /\ \A c : InOrder(s, c) /\ Older(Elems(s), {p}, c) => InOrder(Append(s, p), c)
<1> DEFINE t == Append(s, p)
<1>1. /\ Len(s) \in Nat /\ DOMAIN s = 1..Len(s) /\ DOMAIN t = 1..Len(s) + 1
      /\ \A i \in 1..Len(s) : t[i] = s[i]
      /\ t[Len(s) + 1] = p
  BY LenProperties, AppendProperties
<1> HIDE DEF t
<1>2. Elems(t) = Elems(s) \cup {p}
  BY <1>1 DEF Elems
<1>3. \A i \in 1..Len(s) : s[i] \in Elems(s)
  BY <1>1 DEF Elems
<1>4. ASSUME Once(s) PROVE Once(t)
  BY <1>1, <1>3, <1>4 DEF Once
<1>5. ASSUME NEW c, InOrder(s, c), Older(Elems(s), {p}, c) PROVE InOrder(t, c)
  BY <1>1, <1>3, <1>5 DEF InOrder, Older
<1>6. QED BY <1>2, <1>4, <1>5 DEF t

LEMMA JoinPackets ==
  ASSUME NEW S, NEW a \in Seq(S), NEW b \in Seq(S)
  PROVE  /\ Elems(a \o b) = Elems(a) \cup Elems(b)
         /\ Once(a) /\ Once(b) /\ Elems(a) \cap Elems(b) = {} => Once(a \o b)
         /\ \A c : InOrder(a, c) /\ InOrder(b, c) /\ Older(Elems(a), Elems(b), c) => InOrder(a \o b, c)
<1> DEFINE t == a \o b
           m == Len(a)
           n == Len(b)
<1>1. /\ m \in Nat /\ n \in Nat /\ DOMAIN a = 1..m /\ DOMAIN b = 1..n /\ DOMAIN t = 1..m + n
      /\ \A i \in 1..m + n : t[i] = IF i <= m THEN a[i] ELSE b[i - m]
  BY LenProperties, ConcatProperties
<1> HIDE DEF t, m, n
<1>2. \A i \in 1..m : a[i] \in Elems(a) /\ t[i] = a[i]
  BY <1>1 DEF Elems
<1>3. \A i \in 1..n : b[i] \in Elems(b) /\ t[i + m] = b[i]
  <2> SUFFICES ASSUME NEW i \in 1..n PROVE b[i] \in Elems(b) /\ t[i + m] = b[i]
    OBVIOUS
  <2>1. i + m \in 1..m + n /\ ~(i + m <= m) /\ (i + m) - m = i
    BY <1>1
  <2>2. t[i + m] = b[i]
    BY <1>1, <2>1
  <2>3. QED BY <1>1, <2>2 DEF Elems
<1>4. \A i \in 1..m + n : i \in 1..m \/ (i - m \in 1..n /\ t[i] = b[i - m] /\ i = (i - m) + m)
  BY <1>1
<1>5. Elems(t) = Elems(a) \cup Elems(b)
  <2>1. ASSUME NEW x \in Elems(t) PROVE x \in Elems(a) \cup Elems(b)
    BY <1>1, <1>2, <1>3, <1>4 DEF Elems
  <2>2. ASSUME NEW x \in Elems(a) PROVE x \in Elems(t)
    BY <1>1, <1>2 DEF Elems
  <2>3. ASSUME NEW x \in Elems(b) PROVE x \in Elems(t)
    <3>1. PICK i \in 1..n : x = b[i]
      BY <1>1 DEF Elems
    <3>2. i + m \in 1..m + n /\ t[i + m] = x
      BY <1>1, <1>3, <3>1
    <3>3. QED BY <1>1, <3>2 DEF Elems
  <2>4. QED BY <2>1, <2>2, <2>3
<1>6. ASSUME Once(a), Once(b), Elems(a) \cap Elems(b) = {} PROVE Once(t)
  <2> SUFFICES ASSUME NEW i \in 1..m + n, NEW j \in 1..m + n, t[i] = t[j] PROVE i = j
    BY <1>1 DEF Once
  <2>1. CASE i \in 1..m /\ j \in 1..m
    BY <1>1, <1>2, <1>6, <2>1 DEF Once
  <2>2. CASE i \in 1..m /\ j \notin 1..m
    BY <1>2, <1>3, <1>4, <1>6, <2>2
  <2>3. CASE i \notin 1..m /\ j \in 1..m
    BY <1>2, <1>3, <1>4, <1>6, <2>3
  <2>4. CASE i \notin 1..m /\ j \notin 1..m
    <3>1. i - m \in 1..n /\ j - m \in 1..n /\ b[i - m] = b[j - m]
      BY <1>4, <2>4
    <3>2. i - m = j - m
      BY <1>1, <1>6, <3>1 DEF Once
    <3>3. QED BY <1>1, <3>2
  <2>5. QED BY <2>1, <2>2, <2>3, <2>4
<1>7. ASSUME NEW c, InOrder(a, c), InOrder(b, c), Older(Elems(a), Elems(b), c) PROVE InOrder(t, c)
  <2> SUFFICES ASSUME NEW i \in 1..m + n, NEW j \in 1..m + n, i < j, t[i][1] = c, t[j][1] = c
               PROVE  t[i][2] < t[j][2]
    BY <1>1 DEF InOrder
  <2>1. CASE i \in 1..m /\ j \in 1..m
    BY <1>1, <1>2, <1>7, <2>1 DEF InOrder
  <2>2. CASE i \in 1..m /\ j \notin 1..m
    BY <1>2, <1>3, <1>4, <1>7, <2>2 DEF Older
  <2>3. CASE i \notin 1..m /\ j \notin 1..m
    <3>1. i - m \in 1..n /\ j - m \in 1..n /\ i - m < j - m /\ t[i] = b[i - m] /\ t[j] = b[j - m]
      BY <1>1, <1>4, <2>3
    <3>2. QED BY <1>1, <1>7, <3>1, SMTT(30) DEF InOrder
  <2>4. CASE i \notin 1..m /\ j \in 1..m
    BY <1>1, <2>4
  <2>5. QED BY <2>1, <2>2, <2>3, <2>4
<1>8. QED BY <1>5, <1>6, <1>7 DEF t

LEMMA CutPackets ==
  ASSUME NEW S, NEW s \in Seq(S), NEW n \in 0..Len(s)
  PROVE  /\ Elems(s) = Elems(Front(s, n)) \cup Elems(Rest(s, n))
         /\ Once(s) => /\ Once(Front(s, n)) /\ Once(Rest(s, n))
                       /\ Elems(Front(s, n)) \cap Elems(Rest(s, n)) = {}
         /\ \A c : InOrder(s, c) =>
              /\ InOrder(Front(s, n), c) /\ InOrder(Rest(s, n), c)
              /\ Older(Elems(Front(s, n)), Elems(Rest(s, n)), c)
<1> DEFINE f == Front(s, n)
           r == Rest(s, n)
           l == Len(s)
<1>1. /\ l \in Nat /\ n \in Nat /\ n <= l /\ DOMAIN s = 1..l /\ DOMAIN f = 1..n /\ DOMAIN r = 1..l - n
      /\ \A i \in 1..n : f[i] = s[i]
      /\ \A i \in 1..l - n : r[i] = s[n + i]
  <2>1. l \in Nat /\ n \in Nat /\ n <= l /\ DOMAIN s = 1..l /\ \A i \in 1..l : s[i] \in S
    BY LenProperties, ElementOfSeq
  <2>2. f \in Seq(S) /\ Len(f) = n /\ r \in Seq(S) /\ Len(r) = l - n
    BY FrontAndRest
  <2>3. \A i \in 1..n : f[i] = s[i]
    <3>1. \A i \in 1..n : f[i] = s[1 + i - 1]
      BY <2>1, SubSeqProperties DEF Front
    <3>2. QED BY <2>1, <3>1
  <2>4. \A i \in 1..l - n : r[i] = s[n + i]
    <3>1. \A i \in 1..l - (n + 1) + 1 : r[i] = s[(n + 1) + i - 1]
      BY <2>1, SubSeqProperties DEF Rest
    <3>2. QED BY <2>1, <3>1
  <2>5. QED BY <2>1, <2>2, <2>3, <2>4, LenProperties
<1> HIDE DEF f, r, l
<1>2. \A i \in 1..n : f[i] \in Elems(f) /\ i \in 1..l
  BY <1>1 DEF Elems
<1>3. \A i \in 1..l - n : r[i] \in Elems(r) /\ n + i \in 1..l
  <2>1. \A i \in 1..l - n : r[i] \in Elems(r)
    BY <1>1 DEF Elems
  <2>2. \A i \in 1..l - n : n + i \in 1..l
    BY <1>1
  <2>3. QED BY <2>1, <2>2
<1>4. \A x \in Elems(f) : \E i \in 1..n : x = s[i] /\ i \in 1..l
  BY <1>1 DEF Elems
<1>5. \A x \in Elems(r) : \E i \in 1..l : x = s[i] /\ n < i
  <2> TAKE x \in Elems(r)
  <2>1. PICK i \in 1..l - n : x = r[i]
    BY <1>1 DEF Elems
  <2>2. n + i \in 1..l /\ x = s[n + i] /\ n < n + i
    BY <1>1, <2>1
  <2>3. QED BY <2>2
<1>6. Elems(s) = Elems(f) \cup Elems(r)
  <2>1. ASSUME NEW x \in Elems(s) PROVE x \in Elems(f) \cup Elems(r)
    <3>1. PICK i \in 1..l : x = s[i]
      BY <1>1 DEF Elems
    <3>2. CASE i <= n
      BY <1>1, <1>2, <3>1, <3>2
    <3>3. CASE n < i
      <4>1. i - n \in 1..l - n /\ n + (i - n) = i
        BY <1>1, <3>3
      <4>2. QED BY <1>1, <1>3, <3>1, <4>1
    <3>4. QED BY <1>1, <3>2, <3>3
  <2>2. QED BY <1>1, <1>4, <1>5, <2>1 DEF Elems
<1>7. ASSUME Once(s) PROVE Once(f) /\ Once(r) /\ Elems(f) \cap Elems(r) = {}
  <2>1. Once(f)
    BY <1>1, <1>2, <1>7 DEF Once
  <2>2. Once(r)
    <3> SUFFICES ASSUME NEW i \in 1..l - n, NEW j \in 1..l - n, r[i] = r[j] PROVE i = j
      BY <1>1 DEF Once
    <3>1. n + i = n + j
      BY <1>1, <1>3, <1>7 DEF Once
    <3>2. QED BY <1>1, <3>1
  <2>3. ASSUME NEW x \in Elems(f), x \in Elems(r) PROVE FALSE
    BY <1>1, <1>4, <1>5, <1>7, <2>3 DEF Once
  <2>4. QED BY <2>1, <2>2, <2>3
<1>8. ASSUME NEW c, InOrder(s, c)
      PROVE  InOrder(f, c) /\ InOrder(r, c) /\ Older(Elems(f), Elems(r), c)
  <2>1. InOrder(f, c)
    BY <1>1, <1>2, <1>8 DEF InOrder
  <2>2. InOrder(r, c)
    <3> SUFFICES ASSUME NEW i \in 1..l - n, NEW j \in 1..l - n, i < j, r[i][1] = c, r[j][1] = c
                 PROVE  r[i][2] < r[j][2]
      BY <1>1 DEF InOrder
    <3>1. n + i \in 1..l /\ n + j \in 1..l /\ n + i < n + j /\ r[i] = s[n + i] /\ r[j] = s[n + j]
      BY <1>1
    <3>2. PICK g : g = n + i
      OBVIOUS
    <3>3. PICK h : h = n + j
      OBVIOUS
    <3>4. g \in DOMAIN s /\ h \in DOMAIN s /\ g < h /\ r[i] = s[g] /\ r[j] = s[h]
      BY <1>1, <3>1, <3>2, <3>3
    <3>5. QED BY <1>8, <3>4 DEF InOrder
  <2>3. Older(Elems(f), Elems(r), c)
    <3> SUFFICES ASSUME NEW p \in Elems(f), NEW q \in Elems(r), p[1] = c, q[1] = c
                 PROVE  p[2] < q[2]
      BY DEF Older
    <3>1. PICK i \in 1..n : p = s[i] /\ i \in 1..l
      BY <1>4
    <3>2. PICK j \in 1..l : q = s[j] /\ n < j
      BY <1>5
    <3>3. i \in DOMAIN s /\ j \in DOMAIN s /\ i < j
      BY <1>1, <3>1, <3>2
    <3>4. QED BY <1>8, <3>1, <3>2, <3>3 DEF InOrder
  <2>4. QED BY <2>1, <2>2, <2>3
<1>9. QED BY <1>6, <1>7, <1>8 DEF f, r

LEMMA HeadPacket ==
  ASSUME NEW S, NEW s \in Seq(S), s # <<>>
  PROVE  /\ 1 \in 0..Len(s) /\ Front(s, 1) = <<Head(s)>> /\ Rest(s, 1) = Tail(s)
         /\ Head(s) \in S /\ Tail(s) \in Seq(S)
<1>1. Len(s) \in Nat /\ Len(s) # 0 /\ \A i \in 1..Len(s) : s[i] \in S
  BY LenProperties, ElementOfSeq, EmptySeq
<1>2. Head(s) \in S /\ Tail(s) \in Seq(S) /\ Head(s) = s[1]
  BY HeadTailProperties
<1>3. Front(s, 1) = <<Head(s)>>
  <2>1. Front(s, 1) \in Seq(S) /\ Len(Front(s, 1)) = 1 /\ <<Head(s)>> \in Seq(S)
    <3>1. 1 \in 0..Len(s)
      BY <1>1
    <3>2. Front(s, 1) \in Seq(S) /\ Len(Front(s, 1)) = 1
      BY <3>1, FrontAndRest
    <3>3. QED BY <1>2, <3>2
  <2>2. Front(s, 1)[1] = s[1]
    <3>1. \A i \in 1..1 - 1 + 1 : Front(s, 1)[i] = s[1 + i - 1]
      BY <1>1, SubSeqProperties DEF Front
    <3>2. QED BY <3>1
  <2>3. Len(<<Head(s)>>) = 1 /\ <<Head(s)>>[1] = s[1]
    BY <1>2
  <2>4. \A i \in 1..Len(Front(s, 1)) : Front(s, 1)[i] = <<Head(s)>>[i]
    BY <2>1, <2>2, <2>3
  <2>5. QED BY <2>1, <2>3, <2>4, SeqEqual
<1>4. Rest(s, 1) = Tail(s)
  BY TailIsSubSeq DEF Rest
<1>5. QED BY <1>1, <1>2, <1>3, <1>4

----------------------------------------------------------------------------
(* Where the accepted packets are: each once in what is assembled or in a  *)
(* queue, data frames in the order of their acceptance from the head of    *)
(* what is assembled to the tail of LO, commands in that order in HI.      *)

Sound(a, lo, hi, n) ==
  /\ Once(a) /\ Once(lo) /\ Once(hi)
  /\ Elems(a) \cap Elems(lo) = {} /\ Elems(hi) \cap (Elems(a) \cup Elems(lo)) = {}
  /\ InOrder(a, "data") /\ InOrder(lo, "data") /\ Older(Elems(a), Elems(lo), "data")
  /\ InOrder(hi, "cmd")
  /\ \A p \in Elems(a) \cup Elems(lo) : p[1] # "cmd"
  /\ \A p \in Elems(a) \cup Elems(lo) \cup Elems(hi) : p[2] <= n[p[1]]

LEMMA ElemsType ==
  ASSUME NEW S, NEW s \in Seq(S)
  PROVE  Elems(s) \subseteq S
BY ElementOfSeq, LenProperties DEF Elems

LEMMA PacketType ==
  ASSUME NEW p \in Packets
  PROVE  p[1] \in Classes /\ p[2] \in Nat /\ p = <<p[1], p[2]>>
BY DEF Packets

LEMMA SoundCleared ==
  ASSUME NEW a, NEW lo, NEW hi, NEW n, Sound(a, lo, hi, n)
  PROVE  Sound(a, <<>>, <<>>, n) /\ Sound(<<>>, <<>>, <<>>, n)
BY NoPacket DEF Sound, Older

LEMMA SoundRestored ==
  ASSUME NEW a \in Seq(Packets), NEW lo \in Seq(Packets), NEW hi \in Seq(Packets), NEW n,
         Sound(a, lo, hi, n)
  PROVE  /\ Sound(<<>>, a \o lo, hi, n) /\ Elems(a \o lo) = Elems(a) \cup Elems(lo)
         /\ Sound(<<>>, lo, a \o hi, n) /\ Elems(a \o hi) = Elems(a) \cup Elems(hi)
<1>1. /\ Elems(a \o lo) = Elems(a) \cup Elems(lo) /\ Once(a \o lo) /\ InOrder(a \o lo, "data")
      /\ Elems(a \o hi) = Elems(a) \cup Elems(hi) /\ Once(a \o hi)
  BY JoinPackets DEF Sound
<1>2. InOrder(a \o hi, "cmd")
  <2>1. InOrder(a, "cmd") /\ Older(Elems(a), Elems(hi), "cmd")
    BY DEF Sound, InOrder, Older, Elems
  <2>2. QED BY <2>1, JoinPackets DEF Sound
<1>3. QED BY <1>1, <1>2, NoPacket DEF Sound, Older

\* what hcc_send_data_packet sends from LO, the assembly of what follows, and what it sends from HI
LEMMA SoundSentLow ==
  ASSUME NEW a, NEW lo \in Seq(Packets), NEW hi, NEW n, Sound(a, lo, hi, n),
         NEW out, NEW rest,
         \/ a = <<>> /\ lo # <<>> /\ out = <<Head(lo)>> /\ rest = Tail(lo)
         \/ out = a /\ rest = lo
  PROVE  /\ Sound(<<>>, rest, hi, n)
         /\ Elems(a) \cup Elems(lo) = Elems(out) \cup Elems(rest)
         /\ Elems(out) \cap Elems(rest) = {}
         /\ Older(Elems(out), Elems(rest), "data")
<1>1. CASE a = <<>> /\ lo # <<>> /\ out = <<Head(lo)>> /\ rest = Tail(lo)
  <2>1. 1 \in 0..Len(lo) /\ Front(lo, 1) = out /\ Rest(lo, 1) = rest
    BY <1>1, HeadPacket
  <2>2. Elems(lo) = Elems(out) \cup Elems(rest) /\ Elems(out) \cap Elems(rest) = {}
        /\ Once(rest)
    BY <2>1, CutPackets DEF Sound
  <2>3. InOrder(rest, "data") /\ Older(Elems(out), Elems(rest), "data")
    BY <2>1, CutPackets DEF Sound
  <2>4. Sound(<<>>, rest, hi, n)
    BY <1>1, <2>2, <2>3, NoPacket DEF Sound, Older
  <2>5. QED BY <1>1, <2>2, <2>3, <2>4, NoPacket
<1>2. CASE out = a /\ rest = lo
  BY <1>2, NoPacket DEF Sound, Older
<1>3. QED BY <1>1, <1>2

LEMMA SoundAssembled ==
  ASSUME NEW s \in Seq(Packets), NEW hi, NEW n, Sound(<<>>, s, hi, n), NEW m \in 0..Len(s)
  PROVE  /\ Sound(Front(s, m), Rest(s, m), hi, n)
         /\ Elems(s) = Elems(Front(s, m)) \cup Elems(Rest(s, m))
<1> DEFINE f == Front(s, m)
           r == Rest(s, m)
<1>1. Once(s) /\ InOrder(s, "data")
  BY DEF Sound
<1>2. Elems(s) = Elems(f) \cup Elems(r) /\ Once(f) /\ Once(r) /\ Elems(f) \cap Elems(r) = {}
  BY <1>1, CutPackets
<1>3. InOrder(f, "data") /\ InOrder(r, "data") /\ Older(Elems(f), Elems(r), "data")
  BY <1>1, CutPackets
<1> HIDE DEF f, r
<1>4. Sound(f, r, hi, n)
  BY <1>2, <1>3 DEF Sound
<1>5. QED BY <1>2, <1>4 DEF f, r

LEMMA SoundSentHigh ==
  ASSUME NEW a, NEW lo, NEW hi \in Seq(Packets), NEW n, Sound(a, lo, hi, n),
         NEW out, NEW rest,
         \/ a = <<>> /\ hi # <<>> /\ out = <<Head(hi)>> /\ rest = Tail(hi)
         \/ out = a /\ rest = hi
  PROVE  /\ Sound(<<>>, lo, rest, n)
         /\ Elems(a) \cup Elems(hi) = Elems(out) \cup Elems(rest)
         /\ Elems(out) \cap Elems(rest) = {} /\ Elems(out) \cap Elems(lo) = {}
         /\ Older(Elems(out), Elems(rest), "cmd")
<1>1. CASE a = <<>> /\ hi # <<>> /\ out = <<Head(hi)>> /\ rest = Tail(hi)
  <2>1. 1 \in 0..Len(hi) /\ Front(hi, 1) = out /\ Rest(hi, 1) = rest
    BY <1>1, HeadPacket
  <2>2. Elems(hi) = Elems(out) \cup Elems(rest) /\ Elems(out) \cap Elems(rest) = {}
        /\ Once(rest)
    BY <2>1, CutPackets DEF Sound
  <2>3. InOrder(rest, "cmd") /\ Older(Elems(out), Elems(rest), "cmd")
    BY <2>1, CutPackets DEF Sound
  <2>4. QED BY <1>1, <2>2, <2>3, NoPacket DEF Sound
<1>2. CASE out = a /\ rest = hi
  BY <1>2, NoPacket DEF Sound, Older
<1>3. QED BY <1>1, <1>2

\* hcc_sort_key_frame puts the key frame somewhere and leaves the others in their order
LEMMA SortedIn ==
  ASSUME NEW s \in Seq(Packets), NEW p \in Packets, p \notin Elems(s), p[1] = "key"
  PROVE  /\ Elems(SortKeyFrame(s, p)) = Elems(s) \cup {p}
         /\ Once(s) => Once(SortKeyFrame(s, p))
         /\ InOrder(s, "data") => InOrder(SortKeyFrame(s, p), "data")
<1>1. PICK i \in 0..Len(s) : SortKeyFrame(s, p) = Front(s, i) \o <<p>> \o Rest(s, i)
  <2> DEFINE others == { i \in DOMAIN s : Class(s[i]) # "key" }
             i == IF others = {} THEN Len(s) ELSE Min(others)
  <2>1. Len(s) \in Nat /\ DOMAIN s = 1..Len(s)
    BY LenProperties
  <2>2. i \in 0..Len(s)
    <3>1. others \in SUBSET (0..Len(s)) /\ others \subseteq DOMAIN s
      BY <2>1
    <3> HIDE DEF others
    <3>2. others # {} => Min(others) \in others
      BY <2>1, <3>1, LowestIndex
    <3>3. QED BY <2>1, <3>1, <3>2
  <2>3. SortKeyFrame(s, p) = Front(s, i) \o <<p>> \o Rest(s, i)
    BY DEF SortKeyFrame
  <2> HIDE DEF i
  <2>4. QED BY <2>2, <2>3
<1> DEFINE f == Front(s, i)
           r == Rest(s, i)
           fp == f \o <<p>>
<1>2. f \in Seq(Packets) /\ r \in Seq(Packets) /\ <<p>> \in Seq(Packets) /\ fp \in Seq(Packets)
  BY FrontAndRest, ConcatProperties
<1>3. Elems(<<p>>) = {p} /\ Once(<<p>>) /\ InOrder(<<p>>, "data")
  BY NoPacket
<1>4. Elems(s) = Elems(f) \cup Elems(r)
  BY CutPackets
<1>5. Elems(fp) = Elems(f) \cup {p} /\ Elems(fp \o r) = Elems(fp) \cup Elems(r)
  <2>1. Elems(fp) = Elems(f) \cup {p}
    <3>1. PICK one : one = <<p>>
      OBVIOUS
    <3>2. one \in Seq(Packets) /\ f \in Seq(Packets) /\ fp = f \o one
      BY <1>2, <3>1
    <3> HIDE DEF f, fp
    <3>3. Elems(f \o one) = Elems(f) \cup Elems(one)
      BY <3>2, JoinPackets
    <3>4. QED BY <1>3, <3>1, <3>2, <3>3
  <2> HIDE DEF fp, r
  <2>2. Elems(fp \o r) = Elems(fp) \cup Elems(r)
    BY <1>2, JoinPackets
  <2>3. QED BY <2>1, <2>2
<1>6. ASSUME Once(s) PROVE Once(fp \o r)
  <2>1. Once(f) /\ Once(r) /\ Elems(f) \cap Elems(r) = {}
    BY <1>6, CutPackets
  <2>2. Elems(f) \cap Elems(<<p>>) = {} /\ Elems(fp) \cap Elems(r) = {}
    BY <1>3, <1>4, <1>5, <2>1
  <2>3. Once(fp)
    BY <1>2, <1>3, <2>1, <2>2, JoinPackets
  <2> HIDE DEF fp, r
  <2>4. QED BY <1>2, <2>1, <2>2, <2>3, JoinPackets
<1>7. ASSUME InOrder(s, "data") PROVE InOrder(fp \o r, "data")
  <2>1. InOrder(f, "data") /\ InOrder(r, "data") /\ Older(Elems(f), Elems(r), "data")
    BY <1>7, CutPackets
  <2>2. Older(Elems(f), Elems(<<p>>), "data") /\ Older(Elems(fp), Elems(r), "data")
    BY <1>3, <1>5, <2>1 DEF Older
  <2>3. InOrder(fp, "data")
    BY <1>2, <1>3, <2>1, <2>2, JoinPackets
  <2> HIDE DEF fp, r
  <2>4. QED BY <1>2, <2>1, <2>2, <2>3, JoinPackets
<1>8. QED BY <1>1, <1>4, <1>5, <1>6, <1>7

----------------------------------------------------------------------------
(* Types and credits.                                                      *)

\* What the transmit thread holds: a descriptor is out during a transfer, and what is
\* assembled fits in the credit that is left.
HccIInv ==
  /\ TypeOK
  /\ at = "transfer" => descrs <= 1
  /\ WithinCredit

USE HccAssumption

LEMMA HccInit == Init => HccIInv
<1> SUFFICES ASSUME Init PROVE HccIInv
  OBVIOUS
<1>1. queue \in [Queues -> Seq(Packets)] /\ asm \in Seq(Packets) /\ batch \in Seq(Packets)
  BY EmptySeq DEF Init
<1>2. remain \in 0..MaxCredit /\ faults \in 0..MaxFaults
  BY DEF Init
<1>3. sent \in [Classes -> Nat] /\ \A c \in Classes : sent[c] <= Most[c]
  BY DEF Init
<1>4. TypeOK
  <2>1. descrs \in 0..2 /\ cur \in Queues
    BY DEF Init, Queues
  <2>2. at \in {"new", "allowed", "test", "sleep", "enter", "round", "transfer", "clear", "gone"}
    BY Zenon DEF Init
  <2>3. /\ ex \in {"no", "flag", "signal", "stop", "join", "drain", "free", "freed"}
        /\ sig \in {"no", "pending", "lost"}
    BY Zenon DEF Init
  <2>4. overflow \in BOOLEAN /\ abandon \in BOOLEAN /\ exitFlag \in BOOLEAN /\ stop \in BOOLEAN
    BY Zenon DEF Init
  <2>5. QED BY <1>1, <1>2, <1>3, <2>1, <2>2, <2>3, <2>4, Zenon DEF TypeOK
<1>5. QED BY <1>4 DEF Init, HccIInv, WithinCredit

\* where the thread, the exit and their flags are
FlagTypes ==
  /\ at \in {"new", "allowed", "test", "sleep", "enter", "round", "transfer", "clear", "gone"}
  /\ overflow \in BOOLEAN /\ abandon \in BOOLEAN
  /\ exitFlag \in BOOLEAN /\ sig \in {"no", "pending", "lost"} /\ stop \in BOOLEAN
  /\ ex \in {"no", "flag", "signal", "stop", "join", "drain", "free", "freed"}

LEMMA FlagsKept ==
  ASSUME TypeOK, UNCHANGED <<at, flagVars, exitVars>>
  PROVE  FlagTypes'
BY Zenon DEF TypeOK, FlagTypes, flagVars, exitVars

\* a step that sets none of the numbers and packets
LEMMA RestKept ==
  ASSUME HccIInv, FlagTypes', cur' \in Queues,
         UNCHANGED <<queue, asm, remain, batch, descrs, sent, faults>>,
         at' \in {"round", "transfer"} => at' = at
  PROVE  HccIInv'
<1>1. TypeOK'
  BY Zenon DEF HccIInv, TypeOK, FlagTypes
<1>2. QED BY <1>1 DEF HccIInv, WithinCredit

LEMMA PassOverType ==
  ASSUME TypeOK, PassOver
  PROVE  /\ at' \in {"enter", "test"} /\ cur' \in Queues
         /\ remain' = 0 /\ batch' = <<>> /\ batch' \in Seq(Packets)
  BY EmptySeq DEF PassOver, TypeOK, Queues

LEMMA FaultsType ==
  ASSUME TypeOK, Fault \/ UNCHANGED faults
  PROVE  faults' \in 0..MaxFaults
  BY DEF Fault, TypeOK

LEMMA LimitsType ==
  ASSUME TypeOK, ReadLimits
  PROVE  overflow' \in BOOLEAN /\ abandon' \in BOOLEAN
<1>1. CASE cur = "LO"
  <2>1. overflow' = (Len(queue["LO"]) > LowLimit) /\ abandon' = (Len(queue["LO"]) > KeyLimit)
    BY <1>1, Zenon DEF ReadLimits
  <2> DEFINE low == Len(queue["LO"]) > LowLimit
             key == Len(queue["LO"]) > KeyLimit
  <2>2. low \in BOOLEAN /\ key \in BOOLEAN
    OBVIOUS
  <2> HIDE DEF low, key
  <2>3. overflow' = low /\ abandon' = key
    BY <2>1, Zenon DEF low, key
  <2>4. QED BY <2>2, <2>3, Zenon
<1>2. CASE cur # "LO"
  BY <1>2 DEF ReadLimits, TypeOK, flagVars
<1>3. QED BY <1>1, <1>2

\* where hcc_sort_key_frame puts a key frame is in the queue
LEMMA SortType ==
  ASSUME NEW s \in Seq(Packets), NEW p \in Packets
  PROVE  SortKeyFrame(s, p) \in Seq(Packets)
<1> DEFINE others == { i \in DOMAIN s : Class(s[i]) # "key" }
           i == IF others = {} THEN Len(s) ELSE Min(others)
<1>1. Len(s) \in Nat /\ DOMAIN s = 1..Len(s)
  BY LenProperties
<1>2. i \in 0..Len(s)
  <2>1. others \in SUBSET (0..Len(s)) /\ others \subseteq DOMAIN s
    BY <1>1
  <2> HIDE DEF others
  <2>2. others # {} => Min(others) \in others
    BY <1>1, <2>1, LowestIndex
  <2>3. QED BY <1>1, <2>1, <2>2
<1> HIDE DEF i
<1>3. <<p>> \in Seq(Packets)
  OBVIOUS
<1>4. Front(s, i) \o <<p>> \o Rest(s, i) \in Seq(Packets)
  BY <1>2, <1>3, FrontAndRest, ConcatProperties
<1>5. QED BY <1>4 DEF SortKeyFrame, i

LEMMA HostTxStep ==
  ASSUME HccIInv, NEW c \in Classes, HostTx(c)
  PROVE  HccIInv'
<1> DEFINE p == <<c, sent[c] + 1>>
<1>1. p \in Packets /\ sent' \in [Classes -> Nat] /\ \A d \in Classes : sent'[d] <= Most[d]
  BY SMTT(30) DEF HostTx, Packets, HccIInv, TypeOK
<1>2. queue["HI"] \in Seq(Packets) /\ queue["LO"] \in Seq(Packets)
  BY DEF HccIInv, TypeOK, Queues
<1>3. /\ Append(queue["HI"], p) \in Seq(Packets) /\ Append(queue["LO"], p) \in Seq(Packets)
      /\ SortKeyFrame(queue["LO"], p) \in Seq(Packets)
  BY <1>1, <1>2, SortType
<1>4. queue' \in [Queues -> Seq(Packets)]
  BY <1>3 DEF HostTx, HccIInv, TypeOK, Classes
<1>5. FlagTypes'
  BY FlagsKept DEF HostTx, HccIInv, thread
<1>6. UNCHANGED <<asm, at, cur, remain, batch, descrs, faults>>
  BY DEF HostTx, thread
<1>7. TypeOK'
  BY <1>1, <1>4, <1>5, <1>6, Zenon DEF HccIInv, TypeOK, FlagTypes
<1>8. QED BY <1>6, <1>7 DEF HccIInv, WithinCredit

LEMMA RestoreType ==
  ASSUME TypeOK, Restore
  PROVE  asm' = <<>> /\ asm' \in Seq(Packets) /\ Len(asm') = 0
         /\ queue' \in [Queues -> Seq(Packets)]
  BY ConcatProperties, EmptySeq DEF TypeOK, Restore

LEMMA AssembleWithin ==
  ASSUME NEW s \in Seq(Packets), NEW room \in Nat, TypeOK, Assemble(s, room)
  PROVE  asm' \in Seq(Packets) /\ Len(asm') <= room
         /\ queue' \in [Queues -> Seq(Packets)] /\ (Fault \/ UNCHANGED faults)
<1>1. Len(s) \in Nat
  BY LenProperties
<1>2. PICK n \in 0..Min2(Min2(Len(s), AssemMax), room) :
        (Fault \/ UNCHANGED faults) /\ asm' = Front(s, n) /\ queue' = [queue EXCEPT ![cur] = Rest(s, n)]
  BY DEF Assemble
<1>3. n \in 0..Len(s) /\ n <= room
  BY <1>1, <1>2 DEF Min2
<1>4. QED BY <1>2, <1>3, FrontAndRest DEF TypeOK

LEMMA RoundStep ==
  ASSUME HccIInv, Round
  PROVE  HccIInv'
<1> DEFINE single == asm = <<>>
           rest == IF single THEN Tail(queue[cur]) ELSE queue[cur]
           out == IF single THEN <<Head(queue[cur])>> ELSE asm
           left == IF remain >= Len(out) THEN remain - Len(out) ELSE 0
<1>1. queue[cur] \in Seq(Packets) /\ asm \in Seq(Packets) /\ remain \in 0..MaxCredit
  BY DEF HccIInv, TypeOK
<1>2. rest \in Seq(Packets) /\ out \in Seq(Packets)
  <2>1. CASE single
    <3>1. Head(queue[cur]) \in Packets /\ Tail(queue[cur]) \in Seq(Packets)
      BY <1>1, <2>1, HeadTailProperties DEF Round
    <3>2. QED BY <2>1, <3>1
  <2>2. CASE ~single
    BY <1>1, <2>2
  <2>3. QED BY <2>1, <2>2
<1>3. left \in 0..MaxCredit /\ left \in Nat
  <2>1. Len(out) \in Nat
    BY <1>2, LenProperties
  <2> HIDE DEF out
  <2>2. QED BY <1>1, <2>1
<1>4. /\ at = "round" /\ remain # 0 /\ descrs > 0
      /\ descrs' = descrs - 1 /\ batch' = out /\ remain' = left /\ at' = "transfer"
      /\ IF cur = "LO" THEN Assemble(rest, left)
         ELSE asm' = <<>> /\ queue' = [queue EXCEPT ![cur] = rest] /\ UNCHANGED faults
      /\ UNCHANGED <<cur, flagVars, sent, exitVars>>
  BY Zenon DEF Round
<1> HIDE DEF single, rest, out, left
<1>5. /\ asm' \in Seq(Packets) /\ Len(asm') <= left
      /\ queue' \in [Queues -> Seq(Packets)] /\ faults' \in 0..MaxFaults
  <2>1. CASE cur = "LO"
    BY <1>2, <1>3, <1>4, <2>1, AssembleWithin, FaultsType DEF HccIInv
  <2>2. CASE cur # "LO"
    <3>1. asm' = <<>> /\ queue' = [queue EXCEPT ![cur] = rest] /\ UNCHANGED faults
      BY <1>4, <2>2
    <3>2. QED BY <1>2, <1>3, <3>1, EmptySeq DEF HccIInv, TypeOK
  <2>3. QED BY <2>1, <2>2
<1>6. QED
  BY <1>2, <1>3, <1>4, <1>5 DEF HccIInv, TypeOK, WithinCredit, flagVars, exitVars

LEMMA HccStep ==
  ASSUME HccIInv, [Next]_vars
  PROVE  HccIInv'
<1> USE DEF thread, flagVars, exitVars
<1>0. TypeOK
  BY DEF HccIInv
<1>1. ASSUME NEW c \in Classes, HostTx(c) PROVE HccIInv'
  BY <1>1, HostTxStep
<1>2. CASE Round
  BY <1>2, RoundStep
<1>3. CASE AllowSignal \/ Start \/ LoopTest \/ Wake \/ ThreadLeaves
  <2>1. FlagTypes'
    BY <1>0, <1>3, Zenon DEF AllowSignal, Start, LoopTest, Wake, ThreadLeaves, TypeOK, FlagTypes
  <2>2. /\ UNCHANGED <<queue, asm, remain, batch, descrs, sent, faults>> /\ cur' \in {cur, "HI"}
        /\ at' \notin {"round", "transfer"}
    BY <1>3 DEF AllowSignal, Start, LoopTest, Wake, ThreadLeaves
  <2>3. QED BY <1>0, <2>1, <2>2, RestKept DEF TypeOK, Queues
<1>4. CASE EnterEmpty
  BY <1>0, <1>4, PassOverType DEF EnterEmpty, HccIInv, TypeOK, WithinCredit
<1>5. CASE EnterNoCreditInfo
  BY <1>0, <1>5, FaultsType DEF EnterNoCreditInfo, HccIInv, TypeOK, WithinCredit
<1>6. CASE ClearTxQueues
  BY <1>0, <1>6, PassOverType, EmptySeq DEF ClearTxQueues, HccIInv, TypeOK, WithinCredit
<1>7. CASE EnterFlowControlled
  <2>1. overflow' \in BOOLEAN /\ abandon' \in BOOLEAN
    BY <1>0, <1>7, LimitsType DEF EnterFlowControlled
  <2>2. PassOver
    BY <1>7 DEF EnterFlowControlled
  <2>3. QED BY <1>0, <1>7, <2>1, <2>2, PassOverType DEF EnterFlowControlled, HccIInv, TypeOK, WithinCredit
<1>8. ASSUME NEW n \in 1..MaxCredit, EnterGranted(n) PROVE HccIInv'
  <2>1. /\ asm' = <<>> /\ asm' \in Seq(Packets) /\ Len(asm') = 0
        /\ queue' \in [Queues -> Seq(Packets)]
    BY <1>0, <1>8, RestoreType DEF EnterGranted
  <2>2. overflow' \in BOOLEAN /\ abandon' \in BOOLEAN
    BY <1>0, <1>8, LimitsType DEF EnterGranted
  <2>3. CASE at' = "round" /\ remain' = Min2(n, Len(queue[cur])) /\ UNCHANGED <<cur, batch, faults>>
    <3>1. Len(queue[cur]) \in Nat
      BY <1>0, LenProperties DEF TypeOK
    <3>2. remain' \in 0..MaxCredit
      BY <2>3, <3>1 DEF Min2
    <3>3. QED BY <1>8, <2>1, <2>2, <2>3, <3>2 DEF EnterGranted, HccIInv, TypeOK, WithinCredit
  <2>4. CASE PassOver /\ (Fault \/ UNCHANGED faults)
    <3>1. UNCHANGED <<descrs, sent, exitVars>>
      BY <1>8 DEF EnterGranted
    <3>2. /\ at' \in {"enter", "test"} /\ cur' \in Queues
          /\ remain' = 0 /\ batch' \in Seq(Packets)
      BY <1>0, <2>4, PassOverType
    <3>3. faults' \in 0..MaxFaults
      BY <1>0, <2>4, FaultsType
    <3>4. QED BY <1>0, <2>1, <2>2, <3>1, <3>2, <3>3 DEF HccIInv, TypeOK, WithinCredit
  <2>5. QED BY <1>8, <2>3, <2>4 DEF EnterGranted
<1>9. CASE RoundOver
  BY <1>0, <1>9, PassOverType, FaultsType DEF RoundOver, HccIInv, TypeOK, WithinCredit
<1>10. CASE Transfer
  <2>1. descrs' \in 0..2 /\ faults' \in 0..MaxFaults
    BY <1>0, <1>10, FaultsType DEF Transfer, HccIInv, TypeOK
  <2>2. CASE at' = "round" /\ batch' = <<>> /\ UNCHANGED <<cur, remain, faults>>
    BY <1>10, <2>1, <2>2, EmptySeq DEF Transfer, HccIInv, TypeOK, WithinCredit
  <2>3. CASE Fault /\ PassOver
    BY <1>0, <1>10, <2>1, <2>3, PassOverType DEF Transfer, HccIInv, TypeOK, WithinCredit
  <2>4. QED BY <1>10, <2>2, <2>3 DEF Transfer
<1>11. CASE ClearAllQueues
  <2>1. faults' \in 0..MaxFaults
    BY <1>0, <1>11 DEF ClearAllQueues, TypeOK
  <2>2. QED BY <1>11, <2>1, EmptySeq DEF ClearAllQueues, HccIInv, TypeOK, WithinCredit
<1>12. CASE ExitPurge
  BY <1>12 DEF ExitPurge, HccIInv, TypeOK, WithinCredit
<1>13. CASE ExitStep
  <2>1. FlagTypes'
    BY <1>0, <1>13, Zenon DEF ExitStep, ExitSetFlag, ExitSignal, ExitStop, ExitJoined, ExitClear,
                              ExitFree, ExitAt, TypeOK, FlagTypes
  <2>2. UNCHANGED <<asm, at, cur, remain, batch, descrs, sent, faults>>
    BY <1>13 DEF ExitStep, ExitSetFlag, ExitSignal, ExitStop, ExitJoined, ExitClear, ExitFree, ExitAt
  <2>3. queue' = queue \/ queue' = [q \in Queues |-> <<>>]
    BY <1>13 DEF ExitStep, ExitSetFlag, ExitSignal, ExitStop, ExitJoined, ExitClear, ExitFree, ExitAt
  <2>4. queue' \in [Queues -> Seq(Packets)]
    BY <1>0, <2>3, EmptySeq DEF TypeOK
  <2>5. TypeOK'
    BY <1>0, <2>1, <2>2, <2>4, Zenon DEF TypeOK, FlagTypes
  <2>6. QED BY <2>2, <2>5 DEF HccIInv, WithinCredit
<1>14. CASE Idle \/ UNCHANGED vars
  BY <1>14 DEF Idle, vars, HccIInv, TypeOK, WithinCredit
<1>15. QED
  BY <1>1, <1>2, <1>3, <1>4, <1>5, <1>6, <1>7, <1>8, <1>9, <1>10, <1>11, <1>12, <1>13, <1>14
     DEF Next, ThreadStep

\* Type correctness.
THEOREM HccTypeCorrect == Spec => []TypeOK
<1>1. HccIInv => TypeOK
  BY DEF HccIInv
<1>2. HccIInv /\ [Next]_vars => HccIInv'
  BY HccStep
<1>3. QED BY <1>1, <1>2, HccInit, PTL DEF Spec

\* hcc_build_next_assem_descr never assembles more than the device has granted and not
\* used yet, whatever was put back, flow controlled or failed before.
THEOREM CreditKept == Spec => []WithinCredit
<1>1. HccIInv => WithinCredit
  BY DEF HccIInv
<1>2. HccIInv /\ [Next]_vars => HccIInv'
  BY HccStep
<1>3. QED BY <1>1, <1>2, HccInit, PTL DEF Spec

----------------------------------------------------------------------------
(* Nothing is left assembled: the part of QueuesDrain that is about the    *)
(* packets between a queue and the bus.                                    *)

\* both descriptors are there but for the transfer's own, and what is assembled outside a pass
\* was left there by a failure
NothingStranded ==
  ex = "no" =>
    /\ descrs = IF at = "transfer" THEN 1 ELSE 2
    /\ at \notin {"round", "transfer"} /\ faults = 0 => asm = <<>>

LEMMA StrandStep ==
  ASSUME HccIInv, NothingStranded, [Next]_vars
  PROVE  NothingStranded'
<1> USE DEF thread, flagVars, exitVars, PassOver
<1>0. faults \in Nat
  BY DEF HccIInv, TypeOK
<1>1. CASE ex # "no" \/ ex' # "no"
  <2>1. ex # "no" => ex' # "no"
    BY DEF Next, ThreadStep, AllowSignal, Start, LoopTest, Wake, ThreadLeaves, EnterEmpty,
           EnterNoCreditInfo, ClearTxQueues, EnterFlowControlled, EnterGranted, RoundOver, Round,
           Transfer, ExitStep, ExitSetFlag, ExitSignal, ExitStop, ExitJoined, ExitClear, ExitFree,
           ExitAt, ExitPurge, ClearAllQueues, HostTx, Idle, vars
  <2>2. QED BY <1>1, <2>1 DEF NothingStranded
<1> SUFFICES ASSUME ex = "no", ex' = "no",
                    descrs = IF at = "transfer" THEN 1 ELSE 2,
                    at \notin {"round", "transfer"} /\ faults = 0 => asm = <<>>
             PROVE  NothingStranded'
  BY <1>1 DEF NothingStranded
<1>2. CASE \/ AllowSignal \/ Start \/ LoopTest \/ Wake \/ ThreadLeaves
           \/ EnterEmpty \/ EnterFlowControlled
  BY <1>2 DEF AllowSignal, Start, LoopTest, Wake, ThreadLeaves, EnterEmpty, EnterFlowControlled,
              NothingStranded
<1>3. CASE EnterNoCreditInfo \/ ClearTxQueues
  BY <1>0, <1>3 DEF EnterNoCreditInfo, ClearTxQueues, Fault, NothingStranded
<1>4. ASSUME NEW n \in 1..MaxCredit, EnterGranted(n) PROVE NothingStranded'
  BY <1>4 DEF EnterGranted, Restore, NothingStranded
<1>5. CASE RoundOver
  <2>1. CASE remain = 0
    <3>1. at = "round" /\ Len(asm) <= 0 /\ asm \in Seq(Packets)
      BY <1>5, <2>1 DEF RoundOver, HccIInv, TypeOK, WithinCredit
    <3>2. asm = <<>>
      BY <3>1, LenProperties, EmptySeq
    <3>3. QED BY <1>5, <3>1, <3>2 DEF RoundOver, NothingStranded
  <2>2. CASE remain # 0
    <3>1. at = "round" /\ descrs # 0 /\ faults' # 0 /\ descrs' = descrs /\ at' # "transfer"
      BY <1>0, <1>5, <2>2 DEF RoundOver, Fault
    <3>2. QED BY <3>1 DEF NothingStranded
  <2>3. QED BY <2>1, <2>2
<1>6. CASE Round
  BY <1>6 DEF Round, NothingStranded
<1>7. CASE Transfer
  <2>1. at = "transfer" /\ descrs' = 2
    BY <1>7 DEF Transfer
  <2>2. CASE at' = "round"
    BY <2>1, <2>2 DEF NothingStranded
  <2>3. CASE Fault /\ PassOver
    <3>1. faults' # 0 /\ at' # "transfer"
      BY <1>0, <2>3 DEF Fault
    <3>2. QED BY <2>1, <3>1 DEF NothingStranded
  <2>4. QED BY <1>7, <2>2, <2>3 DEF Transfer
<1>8. CASE ClearAllQueues
  BY <1>8 DEF ClearAllQueues, NothingStranded
<1>9. CASE \E c \in Classes : HostTx(c)
  BY <1>9 DEF HostTx, NothingStranded
<1>10. CASE ExitPurge \/ ExitStep
  BY <1>10 DEF ExitPurge, ExitStep, ExitSetFlag, ExitSignal, ExitStop, ExitJoined, ExitClear,
               ExitFree, ExitAt
<1>11. CASE Idle \/ UNCHANGED vars
  BY <1>11 DEF Idle, vars, NothingStranded
<1>12. QED
  BY <1>2, <1>3, <1>4, <1>5, <1>6, <1>7, <1>8, <1>9, <1>10, <1>11 DEF Next, ThreadStep

\* Until the driver is unloaded, the transmit thread never falls asleep over assembled packets unless a
\* failure has left them, and never runs out of descriptors: a pass ends only when its credit is used
\* up, and with it what was assembled (hcc_host_proc_tx_queue_impl, hcc_build_next_assem_descr).
THEOREM AssembledIsSent == Spec => []NothingStranded
<1>1. Init => NothingStranded
  BY DEF Init, NothingStranded
<1>2. HccIInv /\ NothingStranded /\ [Next]_vars => (HccIInv /\ NothingStranded)'
  BY HccStep, StrandStep
<1>3. QED BY <1>1, <1>2, HccInit, PTL DEF Spec

----------------------------------------------------------------------------
(* Every step keeps the order, and is a step of HccTxAbs or none of its.   *)

Lo == queue["LO"]
Hi == queue["HI"]

OrderIInv ==
  /\ Sound(asm, Lo, Hi, sent)
  /\ at # "transfer" => batch = <<>>

\* the state HccTxAbs sees
Outside == <<sent, { p \in Elems(queue["HI"]) : Class(p) = "cmd" },
             { p \in Waiting : Class(p) = "data" },
             { p \in Waiting : Class(p) = "key" } \cup { p \in Elems(queue["HI"]) : Class(p) # "cmd" },
             Elems(batch)>>
Promised == OrderIInv' /\ (Abs!Next \/ UNCHANGED Outside)

LEMMA QueuesType ==
  ASSUME TypeOK
  PROVE  /\ asm \in Seq(Packets) /\ Lo \in Seq(Packets) /\ Hi \in Seq(Packets)
         /\ Elems(asm) \subseteq Packets /\ Elems(Lo) \subseteq Packets /\ Elems(Hi) \subseteq Packets
         /\ queue \in [Queues -> Seq(Packets)] /\ cur \in {"HI", "LO"} /\ sent \in [Classes -> Nat]
<1>1. asm \in Seq(Packets) /\ Lo \in Seq(Packets) /\ Hi \in Seq(Packets)
  BY DEF TypeOK, Lo, Hi, Queues
<1>2. QED BY <1>1, ElemsType DEF TypeOK, Queues

\* a step that leaves the packets where they are
LEMMA PacketsStay ==
  ASSUME OrderIInv, UNCHANGED <<queue, asm, batch, sent>>, at' # "transfer"
  PROVE  at # "transfer" => Promised
BY DEF OrderIInv, Promised, Outside, Waiting, Lo, Hi

LEMMA PassOverStays ==
  ASSUME OrderIInv, PassOver, UNCHANGED <<queue, asm, sent>>, at # "transfer"
  PROVE  Promised
BY PacketsStay DEF PassOver, OrderIInv

\* queues are cleared
LEMMA Cleared ==
  ASSUME OrderIInv, queue' = [q \in Queues |-> <<>>], asm' \in {asm, <<>>},
         UNCHANGED sent, at' # "transfer", at # "transfer", batch' = <<>>
  PROVE  Promised
<1>1. Lo' = <<>> /\ Hi' = <<>> /\ queue'["LO"] = <<>> /\ queue'["HI"] = <<>> /\ batch = <<>>
  BY DEF Lo, Hi, Queues, OrderIInv
<1>2. OrderIInv'
  BY <1>1, SoundCleared DEF OrderIInv
<1>3. Elems(asm') \subseteq Elems(asm) /\ Elems(queue'["LO"]) = {} /\ Elems(queue'["HI"]) = {}
  BY <1>1, NoPacket
<1>4. Abs!Drop
  BY <1>1, <1>3 DEF Abs!Drop, Waiting
<1>5. QED BY <1>2, <1>4 DEF Promised, Abs!Next

\* what was assembled goes back to the front of the queue being served
LEMMA Restored ==
  ASSUME TypeOK, OrderIInv, Restore, UNCHANGED <<sent, batch>>, at' # "transfer", at # "transfer"
  PROVE  Promised
<1>1. batch = <<>> /\ Sound(asm, Lo, Hi, sent) /\ asm' = <<>> /\ Elems(<<>>) = {}
  BY NoPacket DEF OrderIInv, Restore
<1>2. CASE cur = "LO"
  <2>1. Lo' = asm \o Lo /\ Hi' = Hi
    BY <1>2 DEF Restore, Lo, Hi, TypeOK, Queues
  <2>2. Sound(<<>>, Lo', Hi, sent) /\ Elems(Lo') = Elems(asm) \cup Elems(Lo)
    BY <1>1, <2>1, QueuesType, SoundRestored
  <2>3. OrderIInv'
    BY <1>1, <2>1, <2>2 DEF OrderIInv
  <2>4. Waiting' = Waiting
    BY <1>1, <2>2 DEF Waiting, Lo
  <2>5. QED BY <2>1, <2>3, <2>4 DEF Promised, Outside, Hi
<1>3. CASE cur = "HI"
  <2>1. Lo' = Lo /\ Hi' = asm \o Hi
    BY <1>3 DEF Restore, Lo, Hi, TypeOK, Queues
  <2>2. Sound(<<>>, Lo, Hi', sent) /\ Elems(Hi') = Elems(asm) \cup Elems(Hi)
    BY <1>1, <2>1, QueuesType, SoundRestored
  <2>3. OrderIInv'
    BY <1>1, <2>1, <2>2 DEF OrderIInv
  <2>4. /\ Waiting = Elems(asm) \cup Elems(Lo) /\ Waiting' = Elems(Lo)
        /\ Elems(queue'["HI"]) = Elems(asm) \cup Elems(queue["HI"])
    BY <1>1, <2>1, <2>2 DEF Waiting, Lo, Hi
  <2>5. /\ \A p \in Elems(asm) : Class(p) \in {"data", "key"}
        /\ Elems(asm) \cap Elems(Lo) = {}
        /\ \A p \in Elems(asm), q \in Elems(Lo) :
             Class(p) = "data" /\ Class(q) = "data" => p[2] < q[2]
    BY <1>1, QueuesType, PacketType DEF Sound, Older, Class, Classes
  <2>6. Abs!Stray
    <3>1. { p \in Elems(queue'["HI"]) : Class(p) = "cmd" } = { p \in Elems(queue["HI"]) : Class(p) = "cmd" }
      BY <2>4, <2>5
    <3> DEFINE dat == { p \in Waiting : Class(p) = "data" }
               dat1 == { p \in Elems(Lo) : Class(p) = "data" }
    <3>2. dat1 \subseteq dat /\ dat \ dat1 = { p \in Elems(asm) : Class(p) = "data" }
          /\ \A p \in dat \ dat1, q \in dat1 : p[2] < q[2]
      BY <2>4, <2>5
    <3>3. dat' = dat1
      BY <2>4
    <3>4. ({ p \in Waiting : Class(p) = "key" } \cup { p \in Elems(queue["HI"]) : Class(p) # "cmd" })'
            = ({ p \in Waiting : Class(p) = "key" } \cup { p \in Elems(queue["HI"]) : Class(p) # "cmd" })
              \cup (dat \ dat1)
      BY <2>4, <2>5, <3>2
    <3>5. QED BY <3>1, <3>2, <3>3, <3>4 DEF Abs!Stray, Abs!Oldest
  <2>7. QED BY <2>3, <2>6 DEF Promised, Abs!Next
<1>4. QED BY <1>2, <1>3, QueuesType

\* a packet is accepted
LEMMA Accepted ==
  ASSUME TypeOK, OrderIInv, NEW c \in Classes, HostTx(c)
  PROVE  Promised
<1>1. PICK p : p = <<c, sent[c] + 1>>
  OBVIOUS
<1>2. p \in Packets /\ p[1] = c /\ p[2] = sent[c] + 1 /\ sent[c] \in Nat
  <2>1. sent[c] \in Nat /\ sent[c] + 1 \in 1..Most[c] /\ Most[c] \in Nat
    BY DEF HostTx, TypeOK
  <2>2. <<c, sent[c] + 1>> \in {c} \X (1..Most[c])
    BY <2>1
  <2>3. QED BY <1>1, <2>1, <2>2 DEF Packets
<1>3. /\ sent' = [sent EXCEPT ![c] = @ + 1] /\ asm' = asm /\ batch' = batch /\ at' = at
      /\ queue' = CASE c = "cmd"  -> [queue EXCEPT !["HI"] = Append(@, p)]
                    [] c = "data" -> [queue EXCEPT !["LO"] = Append(@, p)]
                    [] c = "key"  -> [queue EXCEPT !["LO"] = SortKeyFrame(@, p)]
  BY <1>1 DEF HostTx, thread
<1>4. \A q \in Elems(asm) \cup Elems(Lo) \cup Elems(Hi) :
        q # p /\ (q[1] = c => q[2] < p[2]) /\ q[2] <= sent'[q[1]] /\ q[1] \in Classes
  <2> TAKE q \in Elems(asm) \cup Elems(Lo) \cup Elems(Hi)
  <2>1. q \in Packets /\ q[1] \in Classes /\ q[2] \in Nat /\ q[2] <= sent[q[1]]
    BY QueuesType, PacketType DEF OrderIInv, Sound
  <2>2. sent[q[1]] \in Nat /\ sent'[q[1]] \in Nat /\ sent[q[1]] <= sent'[q[1]]
    <3>1. PICK d \in Classes : d = q[1]
      BY <2>1
    <3>2. sent \in [Classes -> Nat] /\ sent' = [sent EXCEPT ![c] = @ + 1]
      BY <1>3, QueuesType
    <3>3. sent[d] \in Nat /\ sent'[d] = IF d = c THEN sent[d] + 1 ELSE sent[d]
      BY <3>1, <3>2
    <3>4. sent[d] \in Nat /\ sent'[d] \in Nat /\ sent[d] <= sent'[d]
      BY <3>3
    <3>5. QED BY <3>1, <3>4
  <2>3. q[1] = c => q[2] < p[2]
    BY <1>2, <2>1
  <2>4. QED BY <1>2, <2>1, <2>2, <2>3
<1>5. p[2] <= sent'[p[1]] /\ \A d \in Classes \ {c} : sent'[d] = sent[d]
  BY <1>2, <1>3 DEF TypeOK
<1>6. Sound(asm, Lo, Hi, sent) /\ (at # "transfer" => batch = <<>>)
  BY DEF OrderIInv
<1>7. CASE c = "cmd"
  <2>1. queue' = [queue EXCEPT !["HI"] = Append(@, p)]
    BY <1>3, <1>7
  <2>2. Lo' = Lo /\ Hi' = Append(Hi, p)
    BY <2>1, QueuesType DEF Lo, Hi, Queues
  <2>3. p \notin Elems(Hi) /\ Older(Elems(Hi), {p}, "cmd")
    BY <1>4, <1>7 DEF Older
  <2>4. Elems(Hi') = Elems(Hi) \cup {p} /\ Once(Hi') /\ InOrder(Hi', "cmd")
    BY <1>2, <1>6, <2>2, <2>3, QueuesType, AppendPacket DEF Sound
  <2>5. Sound(asm, Lo, Hi', sent')
    BY <1>4, <1>5, <1>6, <2>4 DEF Sound
  <2>6. OrderIInv'
    BY <1>3, <1>6, <2>2, <2>5 DEF OrderIInv
  <2>7. Waiting' = Waiting /\ Elems(queue'["HI"]) = Elems(queue["HI"]) \cup {p}
    BY <1>3, <2>2, <2>4 DEF Waiting, Lo, Hi
  <2>8. Abs!Accept(c)
    BY <1>1, <1>2, <1>3, <1>7, <2>7 DEF Abs!Accept, Class
  <2>9. QED BY <2>6, <2>8 DEF Promised, Abs!Next, Classes
<1>8. CASE c # "cmd"
  <2> DEFINE lo1 == IF c = "data" THEN Append(Lo, p) ELSE SortKeyFrame(Lo, p)
  <2>1. Lo' = lo1 /\ Hi' = Hi
    <3>1. c = "data" => queue' = [queue EXCEPT !["LO"] = Append(@, p)]
      BY <1>3
    <3>2. c = "key" => queue' = [queue EXCEPT !["LO"] = SortKeyFrame(@, p)]
      BY <1>3
    <3>3. c = "data" \/ c = "key"
      BY <1>8 DEF Classes
    <3>4. QED BY <3>1, <3>2, <3>3, QueuesType DEF Lo, Hi, Queues
  <2>2. p \notin Elems(Lo) /\ (c = "data" => Older(Elems(Lo), {p}, "data"))
    BY <1>4 DEF Older
  <2>3. Elems(lo1) = Elems(Lo) \cup {p} /\ Once(lo1) /\ InOrder(lo1, "data")
    <3>1. CASE c = "data"
      BY <1>2, <1>6, <2>2, <3>1, QueuesType, AppendPacket DEF Sound
    <3>2. CASE c = "key"
      BY <1>2, <1>6, <2>2, <3>2, QueuesType, SortedIn DEF Sound
    <3>3. QED BY <1>8, <3>1, <3>2 DEF Classes
  <2> HIDE DEF lo1
  <2>4. Older(Elems(asm), Elems(lo1), "data")
    BY <1>2, <1>4, <1>6, <2>3 DEF Sound, Older
  <2>5. Sound(asm, lo1, Hi, sent')
    <3>1. \A q \in Elems(asm) \cup Elems(lo1) : q[1] # "cmd"
      BY <1>2, <1>6, <1>8, <2>3 DEF Sound
    <3>2. \A q \in Elems(asm) \cup Elems(lo1) \cup Elems(Hi) : q[2] <= sent'[q[1]]
      BY <1>4, <1>5, <2>3
    <3>3. Elems(asm) \cap Elems(lo1) = {} /\ Elems(Hi) \cap (Elems(asm) \cup Elems(lo1)) = {}
      BY <1>4, <1>6, <2>3 DEF Sound
    <3>4. QED BY <1>6, <2>3, <2>4, <3>1, <3>2, <3>3 DEF Sound
  <2>6. OrderIInv'
    BY <1>3, <1>6, <2>1, <2>5 DEF OrderIInv
  <2>7. Waiting' = Waiting \cup {p} /\ Elems(queue'["HI"]) = Elems(queue["HI"])
    BY <1>3, <2>1, <2>3 DEF Waiting, Lo, Hi
  <2>8. Abs!Accept(c)
    BY <1>1, <1>2, <1>3, <1>8, <2>7 DEF Abs!Accept, Class, Classes
  <2>9. QED BY <2>6, <2>8 DEF Promised, Abs!Next, Classes
<1>9. QED BY <1>7, <1>8

\* what is sent is the oldest of its class, and what is assembled next stays in order
LEMMA Sent ==
  ASSUME TypeOK, OrderIInv, Round
  PROVE  Promised
<1> DEFINE single == asm = <<>>
           rest == IF single THEN Tail(queue[cur]) ELSE queue[cur]
           out == IF single THEN <<Head(queue[cur])>> ELSE asm
           left == IF remain >= Len(out) THEN remain - Len(out) ELSE 0
<1>1. /\ at = "round" /\ (single => queue[cur] # <<>>)
      /\ batch' = out /\ remain' = left /\ at' = "transfer"
      /\ IF cur = "LO" THEN Assemble(rest, left)
         ELSE asm' = <<>> /\ queue' = [queue EXCEPT ![cur] = rest] /\ UNCHANGED faults
      /\ UNCHANGED <<cur, flagVars, sent, exitVars>>
  BY Zenon DEF Round
<1>2. Sound(asm, Lo, Hi, sent) /\ batch = <<>> /\ Elems(batch) = {} /\ sent' = sent
  BY <1>1, NoPacket DEF OrderIInv
<1>3. out \in Seq(Packets) /\ rest \in Seq(Packets) /\ left \in Nat
  <2>1. out \in Seq(Packets) /\ rest \in Seq(Packets)
    <3>1. queue[cur] \in Seq(Packets) /\ asm \in Seq(Packets)
      BY DEF TypeOK
    <3>2. CASE single
      <4>1. Head(queue[cur]) \in Packets /\ Tail(queue[cur]) \in Seq(Packets)
        BY <1>1, <3>1, <3>2, HeadTailProperties
      <4>2. QED BY <3>2, <4>1
    <3>3. CASE ~single
      BY <3>1, <3>3
    <3>4. QED BY <3>2, <3>3
  <2>2. Len(out) \in Nat /\ remain \in Nat
    BY <2>1, LenProperties DEF TypeOK
  <2> HIDE DEF out, rest
  <2>3. QED BY <2>1, <2>2
<1>4. CASE cur = "LO"
  <2>1. Assemble(rest, left)
    BY <1>1, <1>4
  <2> HIDE DEF left
  <2>2. PICK m \in 0..Min2(Min2(Len(rest), AssemMax), left) :
          asm' = Front(rest, m) /\ queue' = [queue EXCEPT ![cur] = Rest(rest, m)]
    BY <2>1, Zenon DEF Assemble
  <2>3. m \in 0..Len(rest)
    <3> HIDE DEF rest
    <3>1. Len(rest) \in Nat
      BY <1>3, LenProperties
    <3>2. QED BY <1>3, <2>2, <3>1 DEF Min2
  <2>4. \/ asm = <<>> /\ Lo # <<>> /\ out = <<Head(Lo)>> /\ rest = Tail(Lo)
        \/ out = asm /\ rest = Lo
    BY <1>1, <1>4 DEF Lo
  <2>5. Lo' = Rest(rest, m) /\ Hi' = Hi
    BY <1>4, <2>2, QueuesType DEF Lo, Hi, Queues
  <2> HIDE DEF out, rest, single
  <2>6. /\ Sound(asm', Lo', Hi, sent)
        /\ Elems(asm) \cup Elems(Lo) = Elems(out) \cup (Elems(asm') \cup Elems(Lo'))
        /\ Elems(out) \cap (Elems(asm') \cup Elems(Lo')) = {}
        /\ Older(Elems(out), Elems(asm') \cup Elems(Lo'), "data")
    <3>1. /\ Sound(<<>>, rest, Hi, sent)
          /\ Elems(asm) \cup Elems(Lo) = Elems(out) \cup Elems(rest)
          /\ Elems(out) \cap Elems(rest) = {}
          /\ Older(Elems(out), Elems(rest), "data")
      BY <1>2, <2>4, QueuesType, SoundSentLow
    <3>2. /\ Sound(Front(rest, m), Rest(rest, m), Hi, sent)
          /\ Elems(rest) = Elems(Front(rest, m)) \cup Elems(Rest(rest, m))
      BY <1>3, <2>3, <3>1, SoundAssembled
    <3>3. QED BY <2>2, <2>5, <3>1, <3>2
  <2>7. OrderIInv'
    BY <1>1, <1>2, <2>5, <2>6 DEF OrderIInv
  <2>8. /\ Waiting = Elems(out) \cup Waiting' /\ Elems(out) \cap Waiting' = {}
        /\ Elems(batch') = Elems(out) /\ Elems(queue'["HI"]) = Elems(queue["HI"])
        /\ \A p \in Elems(out), q \in Waiting' : Class(p) = "data" /\ Class(q) = "data" => p[2] < q[2]
        /\ \A p \in Elems(out) : Class(p) \in {"data", "key"} /\ p \notin Elems(queue["HI"])
    <3>1. Waiting = Elems(asm) \cup Elems(Lo) /\ Waiting' = Elems(asm') \cup Elems(Lo')
      BY DEF Waiting, Lo
    <3>2. \A p \in Elems(out) : p[1] \in {"data", "key"} /\ p \notin Elems(Hi)
      BY <1>2, <2>6, QueuesType, PacketType DEF Sound, Classes
    <3>3. QED BY <1>1, <2>5, <2>6, <3>1, <3>2 DEF Older, Class, Hi
  <2>9. Abs!Send
    BY <1>2, <2>8 DEF Abs!Send, Abs!Oldest
  <2>10. QED BY <2>7, <2>9 DEF Promised, Abs!Next
<1>5. CASE cur = "HI"
  <2>1. asm' = <<>> /\ queue' = [queue EXCEPT ![cur] = rest]
    BY <1>1, <1>5
  <2>2. Lo' = Lo /\ Hi' = rest
    BY <1>5, <2>1, QueuesType DEF Lo, Hi, Queues
  <2>3. \/ asm = <<>> /\ Hi # <<>> /\ out = <<Head(Hi)>> /\ rest = Tail(Hi)
        \/ out = asm /\ rest = Hi
    BY <1>1, <1>5 DEF Hi
  <2> HIDE DEF out, rest, single
  <2>4. /\ Sound(<<>>, Lo, rest, sent)
        /\ Elems(asm) \cup Elems(Hi) = Elems(out) \cup Elems(rest)
        /\ Elems(out) \cap Elems(rest) = {} /\ Elems(out) \cap Elems(Lo) = {}
        /\ Older(Elems(out), Elems(rest), "cmd")
    BY <1>2, <2>3, QueuesType, SoundSentHigh
  <2>5. OrderIInv'
    BY <1>1, <1>2, <2>1, <2>2, <2>4 DEF OrderIInv
  <2>6. Waiting = Elems(asm) \cup Elems(Lo) /\ Waiting' = Elems(Lo) /\ Elems(batch') = Elems(out)
        /\ Elems(queue["HI"]) = Elems(Hi) /\ Elems(queue'["HI"]) = Elems(rest)
    BY <1>1, <2>1, <2>2, NoPacket DEF Waiting, Lo, Hi
  <2>7. asm = <<>> \/ (out = asm /\ rest = Hi)
    BY <2>3
  <2>8. Abs!Send
    <3>1. CASE asm = <<>>
      <4>1. Waiting' = Waiting /\ Elems(Hi) = Elems(out) \cup Elems(rest)
        BY <2>4, <2>6, <3>1, NoPacket
      <4>2. \A p \in Elems(out), q \in Elems(rest) : Class(p) = "cmd" /\ Class(q) = "cmd" => p[2] < q[2]
        BY <2>4 DEF Older, Class
      <4>3. \A p \in Elems(out) : p \notin Waiting /\ p \notin Elems(rest)
        BY <2>4, <2>6, <3>1, <4>1
      <4>4. QED BY <1>2, <2>6, <4>1, <4>2, <4>3 DEF Abs!Send, Abs!Oldest
    <3>2. CASE out = asm /\ rest = Hi
      <4>1. \A p \in Elems(asm) : Class(p) \in {"data", "key"}
        BY <1>2, QueuesType, PacketType DEF Sound, Class, Classes
      <4>2. \A p \in Elems(asm), q \in Elems(Lo) : Class(p) = "data" /\ Class(q) = "data" => p[2] < q[2]
        BY <1>2 DEF Sound, Older, Class
      <4>3. Elems(asm) \cap Elems(Lo) = {} /\ Elems(asm) \cap Elems(Hi) = {}
        BY <1>2 DEF Sound
      <4>4. QED BY <1>2, <2>6, <3>2, <4>1, <4>2, <4>3 DEF Abs!Send, Abs!Oldest
    <3>3. QED BY <2>7, <3>1, <3>2
  <2>9. QED BY <2>5, <2>8 DEF Promised, Abs!Next
<1>6. QED BY <1>4, <1>5, QueuesType

LEMMA OrderStep ==
  ASSUME TypeOK, OrderIInv, [Next]_vars
  PROVE  Promised
<1> USE DEF thread
<1>1. ASSUME NEW c \in Classes, HostTx(c) PROVE Promised
  BY <1>1, Accepted
<1>2. CASE Round
  BY <1>2, Sent
<1>3. CASE AllowSignal \/ Start \/ LoopTest \/ Wake \/ ThreadLeaves \/ EnterNoCreditInfo
  BY <1>3, PacketsStay DEF AllowSignal, Start, LoopTest, Wake, ThreadLeaves, EnterNoCreditInfo
<1>4. CASE EnterEmpty \/ EnterFlowControlled \/ RoundOver
  BY <1>4, PassOverStays DEF EnterEmpty, EnterFlowControlled, RoundOver
<1>5. CASE ClearTxQueues
  <2>1. at' # "transfer" /\ batch' = <<>>
    BY <1>5 DEF ClearTxQueues, PassOver
  <2>2. QED BY <1>5, <2>1, Cleared DEF ClearTxQueues
<1>6. ASSUME NEW n \in 1..MaxCredit, EnterGranted(n) PROVE Promised
  <2>1. at' # "transfer" /\ batch' = batch
    BY <1>6 DEF EnterGranted, PassOver, OrderIInv
  <2>2. QED BY <1>6, <2>1, Restored DEF EnterGranted
<1>7. CASE Transfer
  <2>1. UNCHANGED <<queue, asm, sent>> /\ batch' = <<>>
    BY <1>7 DEF Transfer, PassOver
  <2>2. OrderIInv'
    BY <2>1 DEF OrderIInv, Lo, Hi
  <2>3. Abs!Land
    BY <2>1, NoPacket DEF Abs!Land, Waiting
  <2>4. QED BY <2>2, <2>3 DEF Promised, Abs!Next
<1>8. CASE ClearAllQueues
  <2>1. batch = <<>> /\ at # "transfer"
    BY <1>8 DEF ClearAllQueues, OrderIInv
  <2>2. QED BY <1>8, <2>1, Cleared DEF ClearAllQueues
<1>9. CASE ExitClear
  <2>1. Lo' = <<>> /\ Hi' = <<>> /\ queue'["LO"] = <<>> /\ queue'["HI"] = <<>>
        /\ UNCHANGED <<asm, batch, at, sent>>
    BY <1>9 DEF ExitClear, ExitAt, Lo, Hi, Queues
  <2>2. OrderIInv'
    BY <2>1, SoundCleared DEF OrderIInv
  <2>3. Elems(queue'["LO"]) = {} /\ Elems(queue'["HI"]) = {}
    BY <2>1, NoPacket
  <2>4. Abs!Drop
    BY <2>1, <2>3 DEF Abs!Drop, Waiting
  <2>5. QED BY <2>2, <2>4 DEF Promised, Abs!Next
<1>10. CASE \/ ExitSetFlag \/ ExitSignal \/ ExitStop \/ ExitJoined \/ ExitFree
            \/ ExitPurge \/ Idle \/ UNCHANGED vars
  <2>1. UNCHANGED <<queue, asm, batch, at, sent>>
    BY <1>10 DEF ExitSetFlag, ExitSignal, ExitStop, ExitJoined, ExitFree, ExitAt, ExitPurge, Idle, vars
  <2>2. QED BY <2>1 DEF OrderIInv, Promised, Outside, Waiting, Lo, Hi
<1>11. QED
  BY <1>1, <1>2, <1>3, <1>4, <1>5, <1>6, <1>7, <1>8, <1>9, <1>10
     DEF Next, ThreadStep, ExitStep

\* Assembling packets for the next transfer, putting them back in front of whichever queue is
\* served, clearing the queues after a failure and unloading never send a packet twice or a command
\* before an older one; a data frame overtakes an older one only after it was put back into the
\* queue of the commands (hcc_host_tx, hcc_host_proc_tx_queue_impl, hcc_send_assemble_reset).
THEOREM TransmitContractHolds == Spec => TransmitContract
<1>1. Init => OrderIInv /\ Abs!Init
  <2> SUFFICES ASSUME Init PROVE OrderIInv /\ Abs!Init
    OBVIOUS
  <2>1. Lo = <<>> /\ Hi = <<>> /\ queue["LO"] = <<>> /\ queue["HI"] = <<>> /\ asm = <<>>
        /\ batch = <<>> /\ sent = [c \in Classes |-> 0]
    BY DEF Init, Lo, Hi, Queues
  <2>2. OrderIInv
    BY <2>1, NoPacket DEF OrderIInv, Sound, Older
  <2>3. Abs!Init
    BY <2>1, NoPacket DEF Abs!Init, Waiting, Classes
  <2>4. QED BY <2>2, <2>3
<1>2. TypeOK /\ OrderIInv /\ [Next]_vars => OrderIInv' /\ [Abs!Next]_(Abs!chan)
  BY OrderStep DEF Promised, Outside, Abs!chan
<1>3. QED BY <1>1, <1>2, HccTypeCorrect, PTL DEF Spec, TransmitContract, Abs!Spec

=============================================================================
