---------------------------- MODULE WlanPm_proofs ----------------------------
(***************************************************************************)
(* Proofs about WlanPm for every set of votes, every retry count and every *)
(* watchdog count; those about votes and the watchdog on the hypothesis    *)
(* ~SplitVote, that the lock of the votes excludes others, which a lock on *)
(* each caller's stack does not do.                                        *)
(***************************************************************************)
EXTENDS WlanPm, TLAPS

\* the labels a voter can be at, and those from which its bit is set
Voting == {"addCancel", "lock", "held", "degraded"} \cup WakeLabels

\* The mutex is held by the thread that is inside wlan_pm_wakeup_dev, or by
\* the sleep work between its check and its end.
LockInv ==
  /\ \A p \in Callers : pc[p] \in WakeLabels => lock = p
  /\ pc["wq"] \in SleepLabels => lock = "wq"

\* A vote's bit is set from the first write until its removal; between a read and a
\* write, which one voter at a time is in, vote_status is what was read.
VoteInv ==
  /\ \A v \in Voters : \/ pc[v] \in {"idle", "remFeed"}
                       \/ pc[v] \in {"addWrite", "remWrite"} /\ seen[v] = votes
                       \/ pc[v] \in Voting
  /\ \A v \in Voters : pc[v] \in Voting \cup {"remWrite"} => v \in votes
  /\ \A u, v \in Voters :
       pc[u] \in {"addWrite", "remWrite"} /\ pc[v] \in {"addWrite", "remWrite"} => u = v

\* A sleep work that found no vote keeps new voters in cancel_work_sync.
SleepInv ==
  pc["wq"] \in {"slInit", "slSend", "slWait", "slSet"}
    => \A v \in Voters : pc[v] \in {"idle", "addWrite", "addCancel", "remFeed"}

\* A thread that wakes the chip found it asleep, so nobody holds a vote.
WakeInv ==
  /\ \A p \in Callers : pc[p] \in MidWakeup => \A v \in Voters : pc[v] # "held"
  /\ \A p \in Callers : pc[p] \in {"wakeTry", "wakeWrite", "wakeWait"} => devState # "ALLOW"
  /\ \A v \in Voters : pc[v] = "retOk" => devState # "ALLOW"

Inv == TypeOK /\ LockInv /\ VoteInv /\ SleepInv /\ WakeInv /\ VoteKeepsAwake

USE DEF At, Goto, voteVars, wdgVars, ackVars, chipVars, histVars, Threads, Callers

LEMMA LabelFacts ==
  /\ WakeLabels \subseteq Labels
  /\ SleepLabels \subseteq Labels
  /\ {"idle", "addWrite", "addCancel", "lock", "held", "degraded", "remWrite", "remFeed",
      "enFeed", "disCancel", "slLock", "slAck", "slClear", "wkClear", "set"} \subseteq Labels
  /\ {"wake", "wakeSet", "wakeTry", "wakeWrite", "wakeWait", "wakeFail", "retOk",
      "retFail", "retNoPm", "slCheck", "slInit", "slSend", "slWait", "slSet", "slReg",
      "slFail"} \subseteq Labels
  BY DEF Labels, WakeLabels, SleepLabels

\* Type correctness holds from the start and is kept by every step.
THEOREM TypeCorrect == Spec => []TypeOK
<1>1. Init => TypeOK
  <2> SUFFICES ASSUME Init PROVE TypeOK
    OBVIOUS
  <2>1. pc \in [Threads -> Labels]
    BY LabelFacts DEF Init
  <2>2. seen \in [Voters -> SUBSET Voters]
    BY DEF Init
  <2>3. packet \in 0..MaxPacket /\ curr \in 0..CheckCnt /\ tries \in Nat
    BY CheckCntAssumption, TryTimesAssumption, MaxPacketAssumption DEF Init
  <2>4. QED BY <2>1, <2>2, <2>3 DEF Init, TypeOK, SleepAcks, NoOne
<1>2. TypeOK /\ [Next]_vars => TypeOK'
  <2> SUFFICES ASSUME TypeOK, [Next]_vars PROVE TypeOK'
    OBVIOUS
  <2> USE CheckCntAssumption, TryTimesAssumption, MaxPacketAssumption DEF TypeOK
  <2>1. ASSUME NEW p \in Callers, Caller(p) PROVE TypeOK'
    <3>1. CASE Lock(p)
      <4>1. pc' \in [Threads -> Labels] BY <3>1, LabelFacts DEF Lock
      <4>2. QED BY <3>1, <4>1 DEF Lock
    <3>2. CASE WakeCheck(p)
      <4>1. pc' \in [Threads -> Labels] BY <3>2, LabelFacts DEF WakeCheck
      <4>2. QED BY <3>2, <4>1 DEF WakeCheck
    <3>3. CASE WakeSet(p)
      <4>1. pc' \in [Threads -> Labels] BY <3>3, LabelFacts DEF WakeSet
      <4>2. QED BY <3>3, <4>1 DEF WakeSet
    <3>4. CASE WakeSemaTimeout(p)
      <4>1. pc' \in [Threads -> Labels] BY <3>4, LabelFacts DEF WakeSemaTimeout
      <4>2. QED BY <3>4, <4>1 DEF WakeSemaTimeout
    <3>5. CASE WakeTry(p)
      <4>1. pc' \in [Threads -> Labels] BY <3>5, LabelFacts DEF WakeTry
      <4>2. wkDone' \in BOOLEAN /\ wkWait' \in BOOLEAN /\ wakeReg' \in BOOLEAN BY <3>5 DEF WakeTry
      <4>3. UNCHANGED <<lock, enable, devState, voteVars, wdgVars, tries, slWait, slDone,
                       slpack, wkPend, slReq, chipOk, d2h, histVars>>
        BY <3>5 DEF WakeTry
      <4>4. QED BY <4>1, <4>2, <4>3
    <3>6. CASE WakeGiveUp(p)
      <4>1. pc' \in [Threads -> Labels] BY <3>6, LabelFacts DEF WakeGiveUp
      <4>2. QED BY <3>6, <4>1 DEF WakeGiveUp
    <3>7. CASE WakeWrite(p)
      <4>1. pc' \in [Threads -> Labels] BY <3>7, LabelFacts DEF WakeWrite
      <4>2. wakeReg' \in BOOLEAN /\ wkPend' \in BOOLEAN BY <3>7 DEF WakeWrite
      <4>3. QED BY <3>7, <4>1, <4>2 DEF WakeWrite
    <3>8. CASE WakeWriteFails(p)
      <4>1. pc' \in [Threads -> Labels] BY <3>8, LabelFacts DEF WakeWriteFails
      <4>2. QED BY <3>8, <4>1 DEF WakeWriteFails
    <3>9. CASE WakeDone(p)
      <4>1. pc' \in [Threads -> Labels] BY <3>9, LabelFacts DEF WakeDone, Feed
      <4>2. wkDone' \in BOOLEAN /\ timer' \in BOOLEAN /\ blind' \in BOOLEAN BY <3>9 DEF WakeDone, Feed
      <4>3. QED BY <3>9, <4>1, <4>2 DEF WakeDone
    <3>10. CASE WakeTimeout(p)
      <4>1. pc' \in [Threads -> Labels] BY <3>10, LabelFacts DEF WakeTimeout
      <4>2. wkPend' \in BOOLEAN BY <3>10 DEF WakeTimeout
      <4>3. UNCHANGED <<lock, enable, devState, voteVars, wdgVars, ackVars, wakeReg, slReq,
                       chipOk, d2h, histVars>>
        BY <3>10 DEF WakeTimeout
      <4>4. tries' \in Nat BY <3>10 DEF WakeTimeout
      <4>5. QED BY <4>1, <4>2, <4>3, <4>4
    <3>11. CASE WakeFail(p)
      <4>1. pc' \in [Threads -> Labels] BY <3>11, LabelFacts DEF WakeFail
      <4>2. QED BY <3>11, <4>1 DEF WakeFail
    <3>12. QED
      BY <2>1, <3>1, <3>2, <3>3, <3>4, <3>5, <3>6, <3>7, <3>8, <3>9, <3>10, <3>11 DEF
      Caller, Wakeup
  <2>2. ASSUME NEW v \in Voters, Voter(v) PROVE TypeOK'
    <3>2. CASE AddVoteRead(v)
      <4>1. pc' \in [Threads -> Labels] BY <3>2, LabelFacts DEF AddVoteRead
      <4>2. QED BY <3>2, <4>1 DEF AddVoteRead
    <3>3. CASE AddVoteWrite(v)
      <4>1. pc' \in [Threads -> Labels] BY <3>3, LabelFacts DEF AddVoteWrite
      <4>2. QED BY <3>3, <4>1 DEF AddVoteWrite
    <3>4. CASE AddVoteCancel(v)
      <4>1. pc' \in [Threads -> Labels] BY <3>4, LabelFacts DEF AddVoteCancel, CancelSleepWork
      <4>2. queued' \in BOOLEAN BY <3>4 DEF AddVoteCancel, CancelSleepWork
      <4>3. QED BY <3>4, <4>1, <4>2 DEF AddVoteCancel, CancelSleepWork
    <3>5. CASE AddVoteReturn(v)
      <4>1. pc' \in [Threads -> Labels] BY <3>5, LabelFacts DEF AddVoteReturn, NoOne
      <4>2. QED BY <3>5, <4>1 DEF AddVoteReturn, NoOne
    <3>7. CASE RemoveVoteRead(v)
      <4>1. pc' \in [Threads -> Labels] BY <3>7, LabelFacts DEF RemoveVoteRead
      <4>2. QED BY <3>7, <4>1 DEF RemoveVoteRead
    <3>8. CASE RemoveVoteWrite(v)
      <4>1. pc' \in [Threads -> Labels] BY <3>8, LabelFacts DEF RemoveVoteWrite
      <4>2. QED BY <3>8, <4>1 DEF RemoveVoteWrite
    <3>9. CASE RemoveVoteFeed(v)
      <4>1. pc' \in [Threads -> Labels] BY <3>9, LabelFacts DEF RemoveVoteFeed, Feed
      <4>2. timer' \in BOOLEAN BY <3>9 DEF RemoveVoteFeed, Feed
      <4>3. QED BY <3>9, <4>1, <4>2 DEF RemoveVoteFeed
    <3>10. QED
      BY <2>2, <3>2, <3>3, <3>4, <3>5, <3>7, <3>8, <3>9 DEF Voter
  <2>3. CASE Ctl
    <3>1. CASE Enable
      <4>1. pc' \in [Threads -> Labels] BY <3>1, LabelFacts DEF Enable
      <4>2. enable' \in BOOLEAN BY <3>1 DEF Enable
      <4>3. QED BY <3>1, <4>1, <4>2 DEF Enable
    <3>2. CASE EnableFeed
      <4>1. pc' \in [Threads -> Labels] BY <3>2, LabelFacts DEF EnableFeed, Feed
      <4>2. timer' \in BOOLEAN BY <3>2 DEF EnableFeed, Feed
      <4>3. QED BY <3>2, <4>1, <4>2 DEF EnableFeed
    <3>3. CASE Disable
      <4>1. pc' \in [Threads -> Labels] BY <3>3, LabelFacts DEF Disable
      <4>2. QED BY <3>3, <4>1 DEF Disable
    <3>4. CASE DisableReturn
      <4>1. pc' \in [Threads -> Labels] BY <3>4, LabelFacts DEF DisableReturn, NoOne
      <4>2. enable' \in BOOLEAN BY <3>4 DEF DisableReturn, NoOne
      <4>3. QED BY <3>4, <4>1, <4>2 DEF DisableReturn, NoOne
    <3>5. CASE DisableCancel
      <4>1. pc' \in [Threads -> Labels] BY <3>5, LabelFacts DEF DisableCancel, CancelSleepWork
      <4>2. queued' \in BOOLEAN BY <3>5 DEF DisableCancel, CancelSleepWork
      <4>3. QED BY <3>5, <4>1, <4>2 DEF DisableCancel, CancelSleepWork
    <3>6. QED
      BY <2>3, <3>1, <3>2, <3>3, <3>4, <3>5 DEF Ctl
  <2>4. CASE Tx
    <3>1. CASE TxBegin
      <4>1. pc' \in [Threads -> Labels] BY <3>1, LabelFacts DEF TxBegin
      <4>2. QED BY <3>1, <4>1 DEF TxBegin
    <3>2. CASE TxTransfer
      <4>1. pc' \in [Threads -> Labels] BY <3>2, LabelFacts DEF TxTransfer, NoOne
      <4>2. QED BY <3>2, <4>1 DEF TxTransfer, NoOne
    <3>3. QED
      BY <2>4, <3>1, <3>2 DEF Tx
  <2>5. CASE SleepWork
    <3>1. CASE SleepWorkStart
      <4>1. pc' \in [Threads -> Labels] BY <3>1, LabelFacts DEF SleepWorkStart
      <4>2. queued' \in BOOLEAN BY <3>1 DEF SleepWorkStart
      <4>3. QED BY <3>1, <4>1, <4>2 DEF SleepWorkStart
    <3>2. CASE SleepLock
      <4>1. pc' \in [Threads -> Labels] BY <3>2, LabelFacts DEF SleepLock
      <4>2. QED BY <3>2, <4>1 DEF SleepLock
    <3>3. CASE SleepRefused
      <4>1. pc' \in [Threads -> Labels] BY <3>3, LabelFacts DEF SleepRefused
      <4>2. QED BY <3>3, <4>1 DEF SleepRefused
    <3>4. CASE SleepNotNeeded
      <4>1. pc' \in [Threads -> Labels] BY <3>4, LabelFacts DEF SleepNotNeeded, NoOne
      <4>2. QED BY <3>4, <4>1 DEF SleepNotNeeded, NoOne
    <3>5. CASE SleepCheck
      <4>1. pc' \in [Threads -> Labels] BY <3>5, LabelFacts DEF SleepCheck
      <4>2. QED BY <3>5, <4>1 DEF SleepCheck
    <3>6. CASE SleepInit
      <4>1. pc' \in [Threads -> Labels] BY <3>6, LabelFacts DEF SleepInit, SleepAcks
      <4>2. slDone' \in BOOLEAN /\ slWait' \in BOOLEAN BY <3>6 DEF SleepInit, SleepAcks
      <4>3. QED BY <3>6, <4>1, <4>2 DEF SleepInit, SleepAcks
    <3>7. CASE SleepSend
      <4>1. pc' \in [Threads -> Labels] BY <3>7, LabelFacts DEF SleepSend
      <4>2. slReq' \in BOOLEAN /\ chipOk' \in BOOLEAN /\ stale' \in BOOLEAN BY <3>7 DEF SleepSend, OldAnswer
      <4>3. QED BY <3>7, <4>1, <4>2 DEF SleepSend
    <3>8. CASE SleepSendFails
      <4>1. pc' \in [Threads -> Labels] BY <3>8, LabelFacts DEF SleepSendFails
      <4>2. slWait' \in BOOLEAN BY <3>8 DEF SleepSendFails
      <4>3. QED BY <3>8, <4>1, <4>2 DEF SleepSendFails
    <3>9. CASE SleepAnswered
      <4>1. pc' \in [Threads -> Labels] BY <3>9, LabelFacts DEF SleepAnswered
      <4>2. slDone' \in BOOLEAN BY <3>9 DEF SleepAnswered
      <4>3. QED BY <3>9, <4>1, <4>2 DEF SleepAnswered
    <3>10. CASE SleepTimeout
      <4>1. pc' \in [Threads -> Labels] BY <3>10, LabelFacts DEF SleepTimeout
      <4>2. slReq' \in BOOLEAN BY <3>10 DEF SleepTimeout
      <4>3. UNCHANGED <<lock, enable, devState, voteVars, wdgVars, tries, ackVars, wakeReg,
                       wkPend, chipOk, d2h, histVars>>
        BY <3>10 DEF SleepTimeout
      <4>4. QED BY <4>1, <4>2, <4>3
    <3>11. CASE SleepSet
      <4>1. pc' \in [Threads -> Labels] BY <3>11, LabelFacts DEF SleepSet
      <4>2. QED BY <3>11, <4>1 DEF SleepSet
    <3>12. CASE SleepReg
      <4>1. pc' \in [Threads -> Labels] BY <3>12, LabelFacts DEF SleepReg, NoOne
      <4>2. wakeReg' \in BOOLEAN /\ stale' \in BOOLEAN BY <3>12 DEF SleepReg, NoOne
      <4>3. QED BY <3>12, <4>1, <4>2 DEF SleepReg, NoOne
    <3>13. CASE SleepFail
      <4>1. pc' \in [Threads -> Labels] BY <3>13, LabelFacts DEF SleepFail, Feed, NoOne
      <4>2. timer' \in BOOLEAN /\ stale' \in BOOLEAN BY <3>13 DEF SleepFail, Feed, NoOne
      <4>3. QED BY <3>13, <4>1, <4>2 DEF SleepFail, NoOne
    <3>14. QED
      BY <2>5, <3>1, <3>2, <3>3, <3>4, <3>5, <3>6, <3>7, <3>8, <3>9, <3>10, <3>11, <3>12,
      <3>13 DEF SleepWork
  <2>6. CASE WdgTimeout
    <3>1. CASE WdgOff
      <4>1. timer' \in BOOLEAN BY <3>1 DEF WdgOff
      <4>2. QED BY <2>6, <3>1, <4>1 DEF WdgTimeout, WdgOff
    <3>2. CASE WdgTraffic BY <2>6, <3>2 DEF WdgTimeout, WdgTraffic
    <3>3. CASE WdgIdle
      <4>1. curr' \in 0..CheckCnt
        BY <3>3 DEF WdgIdle
      <4>2. queued' \in BOOLEAN /\ timer' \in BOOLEAN
        BY <3>3 DEF WdgIdle
      <4>3. packet' = packet
        BY <3>3 DEF WdgIdle
      <4>4. QED BY <2>6, <4>1, <4>2, <4>3 DEF WdgTimeout
    <3>4. QED BY <2>6, <3>1, <3>2, <3>3 DEF WdgTimeout
  <2>7. CASE Rx
    <3>1. CASE RxWakeAck
      <4>1. pc' \in [Threads -> Labels] BY <3>1, LabelFacts DEF RxWakeAck
      <4>2. wkDone' \in BOOLEAN BY <3>1 DEF RxWakeAck
      <4>3. QED BY <3>1, <4>1, <4>2 DEF RxWakeAck
    <3>2. CASE RxClear
      <4>1. pc' \in [Threads -> Labels] BY <3>2, LabelFacts DEF RxClear
      <4>2. slWait' \in BOOLEAN /\ wkWait' \in BOOLEAN BY <3>2 DEF RxClear
      <4>3. UNCHANGED <<lock, enable, devState, voteVars, wdgVars, tries, wkDone, slDone, slpack,
                       chipVars>>
        BY <3>2 DEF RxClear
      <4>4. QED BY <4>1, <4>2, <4>3
    <3>3. ASSUME NEW m \in SleepAcks, RxSleepAck(m) PROVE TypeOK'
      <4>1. pc' \in [Threads -> Labels] BY <3>3, LabelFacts DEF RxSleepAck
      <4>2. slDone' \in BOOLEAN BY <3>3 DEF RxSleepAck
      <4>3. QED BY <3>3, <4>1, <4>2 DEF RxSleepAck
    <3>4. ASSUME NEW m \in Messages, RxIgnore(m) PROVE TypeOK'
      BY <3>4 DEF RxIgnore
    <3>5. CASE RxSleepDone
      <4>1. pc' \in [Threads -> Labels] BY <3>5, LabelFacts DEF RxSleepDone
      <4>2. slDone' \in BOOLEAN BY <3>5 DEF RxSleepDone
      <4>3. QED BY <3>5, <4>1, <4>2 DEF RxSleepDone
    <3>6. QED BY <2>7, <3>1, <3>2, <3>3, <3>4, <3>5 DEF Rx
  <2>8. CASE Exc
    <3>1. pc' \in [Threads -> Labels]
      BY <2>8, LabelFacts DEF Exc, ExcCheck, ExcSet
    <3>2. QED BY <2>8, <3>1 DEF Exc, ExcCheck, ExcSet
  <2>9. CASE Chip
    <3>1. CASE ChipWake
      <4>1. wkPend' \in BOOLEAN /\ d2h' \in SUBSET Messages
        BY <3>1 DEF ChipWake, Messages
      <4>2. QED BY <3>1, <4>1 DEF ChipWake
    <3>2. ASSUME NEW m \in SleepAcks, ChipSleepAnswer(m) PROVE TypeOK'
      <4>1. slReq' \in BOOLEAN /\ chipOk' \in BOOLEAN /\ d2h' \in SUBSET Messages
        BY <3>2 DEF ChipSleepAnswer, Messages, SleepAcks
      <4>2. QED BY <3>2, <4>1 DEF ChipSleepAnswer
    <3>3. QED BY <2>9, <3>1, <3>2 DEF Chip
  <2>10. CASE UNCHANGED vars BY <2>10 DEF vars
  <2>11. QED
    BY <2>1, <2>2, <2>3, <2>4, <2>5, <2>6, <2>7, <2>8, <2>9, <2>10 DEF Next
<1>3. QED BY <1>1, <1>2, PTL DEF Spec

\* The invariant that makes the votes work, when setting and clearing a bit
\* is atomic: proved together, because each part rests on the others.
VoteIInv == LockInv /\ VoteInv /\ SleepInv /\ WakeInv /\ VoteKeepsAwake

LEMMA VoteIInvInit == Init => VoteIInv
  BY DEF Init, VoteIInv, LockInv, VoteInv, SleepInv, WakeInv, VoteKeepsAwake,
         Voting, WakeLabels, SleepLabels, MidWakeup

LEMMA VoteIInvStep ==
  ASSUME ~SplitVote, TypeOK, VoteIInv, [Next]_vars
  PROVE  VoteIInv'
  <2> /\ pc \in [Threads -> Labels] /\ devState \in {"DISALLOW", "ALLOW", "EXCEPTION"}
      /\ votes \in SUBSET Voters /\ seen \in [Voters -> SUBSET Voters]
    BY DEF TypeOK
  <2> USE VotersAssumption
      DEF VoteIInv, LockInv, VoteInv, SleepInv, WakeInv, VoteKeepsAwake,
          Voting, WakeLabels, SleepLabels, MidWakeup
  <2>1. ASSUME NEW p \in Callers, Caller(p) PROVE VoteIInv'
    <3>1. CASE Lock(p) BY <3>1 DEF Lock, NoOne
    <3>2. CASE WakeCheck(p) BY <3>2 DEF WakeCheck
    <3>3. CASE WakeSet(p) BY <3>3 DEF WakeSet
    <3>4. CASE WakeSemaTimeout(p) BY <3>4 DEF WakeSemaTimeout
    <3>5. CASE WakeTry(p) BY <3>5 DEF WakeTry
    <3>6. CASE WakeGiveUp(p) BY <3>6 DEF WakeGiveUp
    <3>7. CASE WakeWrite(p) BY <3>7 DEF WakeWrite
    <3>8. CASE WakeWriteFails(p) BY <3>8 DEF WakeWriteFails
    <3>9. CASE WakeDone(p) BY <3>9 DEF WakeDone
    <3>10. CASE WakeTimeout(p) BY <3>10 DEF WakeTimeout
    <3>11. CASE WakeFail(p) BY <3>11 DEF WakeFail
    <3>12. QED
      BY <2>1, <3>1, <3>2, <3>3, <3>4, <3>5, <3>6, <3>7, <3>8, <3>9, <3>10, <3>11 DEF
      Caller, Wakeup
  <2>2. ASSUME NEW v \in Voters, Voter(v) PROVE VoteIInv'
    <3>2. CASE AddVoteRead(v) BY <3>2 DEF AddVoteRead, VoteLock
    <3>3. CASE AddVoteWrite(v) BY <3>3 DEF AddVoteWrite
    <3>4. CASE AddVoteCancel(v) BY <3>4 DEF AddVoteCancel, CancelSleepWork
    <3>5. CASE AddVoteReturn(v) BY <3>5 DEF AddVoteReturn
    <3>7. CASE RemoveVoteRead(v) BY <3>7 DEF RemoveVoteRead, VoteLock
    <3>8. CASE RemoveVoteWrite(v) BY <3>8 DEF RemoveVoteWrite
    <3>9. CASE RemoveVoteFeed(v) BY <3>9 DEF RemoveVoteFeed
    <3>10. QED
      BY <2>2, <3>2, <3>3, <3>4, <3>5, <3>7, <3>8, <3>9 DEF Voter
  <2>3. CASE Ctl
    <3>1. CASE Enable BY <3>1 DEF Enable
    <3>2. CASE EnableFeed BY <3>2 DEF EnableFeed
    <3>3. CASE Disable BY <3>3 DEF Disable
    <3>4. CASE DisableReturn BY <3>4 DEF DisableReturn
    <3>5. CASE DisableCancel BY <3>5 DEF DisableCancel, CancelSleepWork
    <3>6. QED
      BY <2>3, <3>1, <3>2, <3>3, <3>4, <3>5 DEF Ctl
  <2>4. CASE Tx
    <3>1. CASE TxBegin BY <3>1 DEF TxBegin
    <3>2. CASE TxTransfer BY <3>2 DEF TxTransfer
    <3>3. QED
      BY <2>4, <3>1, <3>2 DEF Tx
  <2>5. CASE SleepWork
    <3>1. CASE SleepWorkStart BY <3>1 DEF SleepWorkStart
    <3>2. CASE SleepLock BY <3>2 DEF SleepLock, NoOne
    <3>3. CASE SleepRefused BY <3>3 DEF SleepRefused
    <3>4. CASE SleepNotNeeded BY <3>4 DEF SleepNotNeeded
    <3>5. CASE SleepCheck BY <3>5 DEF SleepCheck
    <3>6. CASE SleepInit BY <3>6 DEF SleepInit
    <3>7. CASE SleepSend BY <3>7 DEF SleepSend
    <3>8. CASE SleepSendFails BY <3>8 DEF SleepSendFails
    <3>9. CASE SleepAnswered BY <3>9 DEF SleepAnswered
    <3>10. CASE SleepTimeout BY <3>10 DEF SleepTimeout
    <3>11. CASE SleepSet BY <3>11 DEF SleepSet
    <3>12. CASE SleepReg BY <3>12 DEF SleepReg
    <3>13. CASE SleepFail BY <3>13 DEF SleepFail
    <3>14. QED
      BY <2>5, <3>1, <3>2, <3>3, <3>4, <3>5, <3>6, <3>7, <3>8, <3>9, <3>10, <3>11, <3>12,
      <3>13 DEF SleepWork
  <2>6. CASE WdgTimeout BY <2>6 DEF WdgTimeout
  <2>7. CASE Rx
    <3>1. CASE RxWakeAck BY <3>1 DEF RxWakeAck
    <3>2. CASE RxClear BY <3>2 DEF RxClear
    <3>3. ASSUME NEW m \in SleepAcks, RxSleepAck(m) PROVE VoteIInv'
      BY <3>3 DEF RxSleepAck
    <3>4. ASSUME NEW m \in Messages, RxIgnore(m) PROVE VoteIInv'
      BY <3>4 DEF RxIgnore
    <3>5. CASE RxSleepDone BY <3>5 DEF RxSleepDone
    <3>6. QED BY <2>7, <3>1, <3>2, <3>3, <3>4, <3>5 DEF Rx
  <2>8. CASE Exc BY <2>8 DEF Exc, ExcCheck, ExcSet
  <2>9. CASE Chip BY <2>9 DEF Chip, ChipWake, ChipSleepAnswer
  <2>10. CASE UNCHANGED vars BY <2>10 DEF vars
  <2>11. QED
    BY <2>1, <2>2, <2>3, <2>4, <2>5, <2>6, <2>7, <2>8, <2>9, <2>10 DEF Next

\* A vote whose wlan_pm_add_vote returned with the chip awake keeps the host
\* from letting the chip sleep.
THEOREM VotesAreKept == ~SplitVote => (Spec => []VoteKeepsAwake)
<1> SUFFICES ASSUME ~SplitVote PROVE Spec => []VoteKeepsAwake
  OBVIOUS
<1>1. TypeOK /\ VoteIInv /\ [Next]_vars => VoteIInv'
  BY VoteIInvStep
<1>2. VoteIInv => VoteKeepsAwake
  BY DEF VoteIInv
<1>3. QED BY <1>1, <1>2, TypeCorrect, VoteIInvInit, PTL DEF Spec

\* Every step of the code is a step of the contract, or changes nothing of it.
LEMMA ContractStep ==
  ASSUME ~SplitVote, TypeOK, VoteIInv, [Next]_vars
  PROVE  [Abs!Next]_<<devState, HeldVotes>>
  <2> /\ pc \in [Threads -> Labels] /\ devState \in {"DISALLOW", "ALLOW", "EXCEPTION"}
      /\ votes \in SUBSET Voters /\ seen \in [Voters -> SUBSET Voters]
    BY DEF TypeOK
  <2> USE VotersAssumption
      DEF VoteIInv, LockInv, VoteInv, SleepInv, WakeInv, VoteKeepsAwake,
          Voting, WakeLabels, SleepLabels, MidWakeup, HeldVotes,
          Abs!Next, Abs!Hold, Abs!Release, Abs!Sleep, Abs!Wake, Abs!Except
  <2>1. ASSUME NEW p \in Callers, Caller(p) PROVE [Abs!Next]_<<devState, HeldVotes>>
    <3>1. CASE Lock(p) BY <3>1 DEF Lock, NoOne
    <3>2. CASE WakeCheck(p) BY <3>2 DEF WakeCheck
    <3>3. CASE WakeSet(p) BY <3>3 DEF WakeSet
    <3>4. CASE WakeSemaTimeout(p) BY <3>4 DEF WakeSemaTimeout
    <3>5. CASE WakeTry(p) BY <3>5 DEF WakeTry
    <3>6. CASE WakeGiveUp(p) BY <3>6 DEF WakeGiveUp
    <3>7. CASE WakeWrite(p) BY <3>7 DEF WakeWrite
    <3>8. CASE WakeWriteFails(p) BY <3>8 DEF WakeWriteFails
    <3>9. CASE WakeDone(p) BY <3>9 DEF WakeDone
    <3>10. CASE WakeTimeout(p) BY <3>10 DEF WakeTimeout
    <3>11. CASE WakeFail(p) BY <3>11 DEF WakeFail
    <3>12. QED
      BY <2>1, <3>1, <3>2, <3>3, <3>4, <3>5, <3>6, <3>7, <3>8, <3>9, <3>10, <3>11 DEF
      Caller, Wakeup
  <2>2. ASSUME NEW v \in Voters, Voter(v) PROVE [Abs!Next]_<<devState, HeldVotes>>
    <3>2. CASE AddVoteRead(v) BY <3>2 DEF AddVoteRead, VoteLock
    <3>3. CASE AddVoteWrite(v) BY <3>3 DEF AddVoteWrite
    <3>4. CASE AddVoteCancel(v) BY <3>4 DEF AddVoteCancel, CancelSleepWork
    <3>5. CASE AddVoteReturn(v) BY <3>5 DEF AddVoteReturn
    <3>7. CASE RemoveVoteRead(v) BY <3>7 DEF RemoveVoteRead, VoteLock
    <3>8. CASE RemoveVoteWrite(v) BY <3>8 DEF RemoveVoteWrite
    <3>9. CASE RemoveVoteFeed(v) BY <3>9 DEF RemoveVoteFeed
    <3>10. QED
      BY <2>2, <3>2, <3>3, <3>4, <3>5, <3>7, <3>8, <3>9 DEF Voter
  <2>3. CASE Ctl
    <3>1. CASE Enable BY <3>1 DEF Enable
    <3>2. CASE EnableFeed BY <3>2 DEF EnableFeed
    <3>3. CASE Disable BY <3>3 DEF Disable
    <3>4. CASE DisableReturn BY <3>4 DEF DisableReturn
    <3>5. CASE DisableCancel BY <3>5 DEF DisableCancel, CancelSleepWork
    <3>6. QED
      BY <2>3, <3>1, <3>2, <3>3, <3>4, <3>5 DEF Ctl
  <2>4. CASE Tx
    <3>1. CASE TxBegin BY <3>1 DEF TxBegin
    <3>2. CASE TxTransfer BY <3>2 DEF TxTransfer
    <3>3. QED
      BY <2>4, <3>1, <3>2 DEF Tx
  <2>5. CASE SleepWork
    <3>1. CASE SleepWorkStart BY <3>1 DEF SleepWorkStart
    <3>2. CASE SleepLock BY <3>2 DEF SleepLock
    <3>3. CASE SleepRefused BY <3>3 DEF SleepRefused
    <3>4. CASE SleepNotNeeded BY <3>4 DEF SleepNotNeeded
    <3>5. CASE SleepCheck BY <3>5 DEF SleepCheck
    <3>6. CASE SleepInit BY <3>6 DEF SleepInit
    <3>7. CASE SleepSend BY <3>7 DEF SleepSend
    <3>8. CASE SleepSendFails BY <3>8 DEF SleepSendFails
    <3>9. CASE SleepAnswered BY <3>9 DEF SleepAnswered
    <3>10. CASE SleepTimeout BY <3>10 DEF SleepTimeout
    <3>11. CASE SleepSet BY <3>11 DEF SleepSet
    <3>12. CASE SleepReg BY <3>12 DEF SleepReg
    <3>13. CASE SleepFail BY <3>13 DEF SleepFail
    <3>14. QED
      BY <2>5, <3>1, <3>2, <3>3, <3>4, <3>5, <3>6, <3>7, <3>8, <3>9, <3>10, <3>11, <3>12,
      <3>13 DEF SleepWork
  <2>6. CASE WdgTimeout BY <2>6 DEF WdgTimeout
  <2>7. CASE Rx
    <3>1. CASE RxWakeAck BY <3>1 DEF RxWakeAck
    <3>2. CASE RxClear BY <3>2 DEF RxClear
    <3>3. ASSUME NEW m \in SleepAcks, RxSleepAck(m)
          PROVE  [Abs!Next]_<<devState, HeldVotes>>
      BY <3>3 DEF RxSleepAck
    <3>4. ASSUME NEW m \in Messages, RxIgnore(m)
          PROVE  [Abs!Next]_<<devState, HeldVotes>>
      BY <3>4 DEF RxIgnore
    <3>5. CASE RxSleepDone BY <3>5 DEF RxSleepDone
    <3>6. QED BY <2>7, <3>1, <3>2, <3>3, <3>4, <3>5 DEF Rx
  <2>8. CASE Exc BY <2>8 DEF Exc, ExcCheck, ExcSet
  <2>9. CASE Chip BY <2>9 DEF Chip, ChipWake, ChipSleepAnswer
  <2>10. CASE UNCHANGED vars BY <2>10 DEF vars
  <2>11. QED
    BY <2>1, <2>2, <2>3, <2>4, <2>5, <2>6, <2>7, <2>8, <2>9, <2>10 DEF Next

\* The detailed module implements the contract of the votes.
THEOREM ContractKept == ~SplitVote => (Spec => VoteContract)
<1> SUFFICES ASSUME ~SplitVote PROVE Spec => VoteContract
  OBVIOUS
<1>1. Init => Abs!Init
  BY DEF Init, Abs!Init, HeldVotes
<1>2. TypeOK /\ VoteIInv /\ [Next]_vars => VoteIInv'
  BY VoteIInvStep
<1>3. TypeOK /\ VoteIInv /\ [Next]_vars => [Abs!Next]_<<devState, HeldVotes>>
  BY ContractStep
<1>4. QED
  BY <1>1, <1>2, <1>3, TypeCorrect, VoteIInvInit, PTL DEF Spec, VoteContract, Abs!Spec

\* The host's picture of the chip's wake-up register: set whenever the host
\* thinks the chip awake, except while a thread is waking it; and with power
\* management off, unless that was done blindly.  Handshakes run only with
\* power management on, because disabling takes the mutex.
RegIInv ==
  /\ LockInv
  /\ devState = "DISALLOW" /\ ~Waking => wakeReg
  /\ \A p \in Callers : pc[p] = "wakeWait" => wakeReg
  /\ pc["wq"] = "slReg" => devState # "DISALLOW"
  /\ \A p \in Callers : pc[p] \in MidWakeup => enable
  /\ pc["wq"] \in {"slInit", "slSend", "slWait", "slSet", "slReg"} => enable
  /\ ~enable => wakeReg \/ blind
  /\ pc["ctl"] = "retOk" => wakeReg \/ blind
  /\ pc["ctl"] = "retNoPm" => ~enable
  /\ TransferOnlyAwake

LEMMA RegIInvStep ==
  ASSUME TypeOK, RegIInv, [Next]_vars
  PROVE  RegIInv'
  <2> /\ pc \in [Threads -> Labels] /\ devState \in {"DISALLOW", "ALLOW", "EXCEPTION"}
      /\ votes \in SUBSET Voters /\ seen \in [Voters -> SUBSET Voters]
    BY DEF TypeOK
  <2> USE VotersAssumption
      DEF RegIInv, LockInv, Waking, TransferOnlyAwake, WakeLabels, SleepLabels, MidWakeup
  <2>1. ASSUME NEW p \in Callers, Caller(p) PROVE RegIInv'
    <3>1. CASE Lock(p) BY <3>1 DEF Lock, NoOne
    <3>2. CASE WakeCheck(p) BY <3>2 DEF WakeCheck
    <3>3. CASE WakeSet(p) BY <3>3 DEF WakeSet
    <3>4. CASE WakeSemaTimeout(p) BY <3>4 DEF WakeSemaTimeout
    <3>5. CASE WakeTry(p) BY <3>5 DEF WakeTry
    <3>6. CASE WakeGiveUp(p) BY <3>6 DEF WakeGiveUp
    <3>7. CASE WakeWrite(p) BY <3>7 DEF WakeWrite
    <3>8. CASE WakeWriteFails(p) BY <3>8 DEF WakeWriteFails
    <3>9. CASE WakeDone(p) BY <3>9 DEF WakeDone
    <3>10. CASE WakeTimeout(p) BY <3>10 DEF WakeTimeout
    <3>11. CASE WakeFail(p) BY <3>11 DEF WakeFail
    <3>12. QED
      BY <2>1, <3>1, <3>2, <3>3, <3>4, <3>5, <3>6, <3>7, <3>8, <3>9, <3>10, <3>11 DEF
      Caller, Wakeup
  <2>2. ASSUME NEW v \in Voters, Voter(v) PROVE RegIInv'
    <3>2. CASE AddVoteRead(v) BY <3>2 DEF AddVoteRead, VoteLock
    <3>3. CASE AddVoteWrite(v) BY <3>3 DEF AddVoteWrite
    <3>4. CASE AddVoteCancel(v) BY <3>4 DEF AddVoteCancel, CancelSleepWork
    <3>5. CASE AddVoteReturn(v) BY <3>5 DEF AddVoteReturn
    <3>7. CASE RemoveVoteRead(v) BY <3>7 DEF RemoveVoteRead, VoteLock
    <3>8. CASE RemoveVoteWrite(v) BY <3>8 DEF RemoveVoteWrite
    <3>9. CASE RemoveVoteFeed(v) BY <3>9 DEF RemoveVoteFeed
    <3>10. QED
      BY <2>2, <3>2, <3>3, <3>4, <3>5, <3>7, <3>8, <3>9 DEF Voter
  <2>3. CASE Ctl
    <3>1. CASE Enable BY <3>1 DEF Enable
    <3>2. CASE EnableFeed BY <3>2 DEF EnableFeed
    <3>3. CASE Disable BY <3>3 DEF Disable
    <3>4. CASE DisableReturn BY <3>4 DEF DisableReturn
    <3>5. CASE DisableCancel BY <3>5 DEF DisableCancel, CancelSleepWork
    <3>6. QED
      BY <2>3, <3>1, <3>2, <3>3, <3>4, <3>5 DEF Ctl
  <2>4. CASE Tx
    <3>1. CASE TxBegin BY <3>1 DEF TxBegin
    <3>2. CASE TxTransfer BY <3>2 DEF TxTransfer
    <3>3. QED
      BY <2>4, <3>1, <3>2 DEF Tx
  <2>5. CASE SleepWork
    <3>1. CASE SleepWorkStart BY <3>1 DEF SleepWorkStart
    <3>2. CASE SleepLock BY <3>2 DEF SleepLock, NoOne
    <3>3. CASE SleepRefused BY <3>3 DEF SleepRefused
    <3>4. CASE SleepNotNeeded BY <3>4 DEF SleepNotNeeded
    <3>5. CASE SleepCheck BY <3>5 DEF SleepCheck
    <3>6. CASE SleepInit BY <3>6 DEF SleepInit
    <3>7. CASE SleepSend BY <3>7 DEF SleepSend
    <3>8. CASE SleepSendFails BY <3>8 DEF SleepSendFails
    <3>9. CASE SleepAnswered BY <3>9 DEF SleepAnswered
    <3>10. CASE SleepTimeout BY <3>10 DEF SleepTimeout
    <3>11. CASE SleepSet BY <3>11 DEF SleepSet
    <3>12. CASE SleepReg BY <3>12 DEF SleepReg
    <3>13. CASE SleepFail BY <3>13 DEF SleepFail
    <3>14. QED
      BY <2>5, <3>1, <3>2, <3>3, <3>4, <3>5, <3>6, <3>7, <3>8, <3>9, <3>10, <3>11, <3>12,
      <3>13 DEF SleepWork
  <2>6. CASE WdgTimeout BY <2>6 DEF WdgTimeout
  <2>7. CASE Rx
    <3>1. CASE RxWakeAck BY <3>1 DEF RxWakeAck
    <3>2. CASE RxClear BY <3>2 DEF RxClear
    <3>3. ASSUME NEW m \in SleepAcks, RxSleepAck(m) PROVE RegIInv'
      BY <3>3 DEF RxSleepAck
    <3>4. ASSUME NEW m \in Messages, RxIgnore(m) PROVE RegIInv'
      BY <3>4 DEF RxIgnore
    <3>5. CASE RxSleepDone BY <3>5 DEF RxSleepDone
    <3>6. QED BY <2>7, <3>1, <3>2, <3>3, <3>4, <3>5 DEF Rx
  <2>8. CASE Exc BY <2>8 DEF Exc, ExcCheck, ExcSet
  <2>9. CASE Chip BY <2>9 DEF Chip, ChipWake, ChipSleepAnswer
  <2>10. CASE UNCHANGED vars BY <2>10 DEF vars
  <2>11. QED
    BY <2>1, <2>2, <2>3, <2>4, <2>5, <2>6, <2>7, <2>8, <2>9, <2>10 DEF Next

\* What keeps the watchdog alive besides the votes' invariant.
WdgIInv ==
  /\ pc["ctl"] = "disCancel" => ~enable
  /\ pc["wq"] = "slReg" => devState # "DISALLOW"
  /\ WatchdogAlive

LEMMA WdgIInvStep ==
  ASSUME ~SplitVote, TypeOK, LockInv, VoteInv, WdgIInv, [Next]_vars
  PROVE  WdgIInv'
  <2> /\ pc \in [Threads -> Labels] /\ devState \in {"DISALLOW", "ALLOW", "EXCEPTION"}
      /\ votes \in SUBSET Voters /\ seen \in [Voters -> SUBSET Voters]
    BY DEF TypeOK
  <2> USE VotersAssumption
      DEF WdgIInv, WatchdogAlive, SleepWorkBusy, LockInv, VoteInv, Waking,
          Voting, WakeLabels, SleepLabels, MidWakeup
  <2>1. ASSUME NEW p \in Callers, Caller(p) PROVE WdgIInv'
    <3>1. CASE Lock(p) BY <3>1 DEF Lock, NoOne
    <3>2. CASE WakeCheck(p) BY <3>2 DEF WakeCheck
    <3>3. CASE WakeSet(p) BY <3>3 DEF WakeSet
    <3>4. CASE WakeSemaTimeout(p) BY <3>4 DEF WakeSemaTimeout
    <3>5. CASE WakeTry(p) BY <3>5 DEF WakeTry
    <3>6. CASE WakeGiveUp(p) BY <3>6 DEF WakeGiveUp
    <3>7. CASE WakeWrite(p) BY <3>7 DEF WakeWrite
    <3>8. CASE WakeWriteFails(p) BY <3>8 DEF WakeWriteFails
    <3>9. CASE WakeDone(p) BY <3>9 DEF WakeDone, Feed
    <3>10. CASE WakeTimeout(p) BY <3>10 DEF WakeTimeout
    <3>11. CASE WakeFail(p) BY <3>11 DEF WakeFail
    <3>12. QED
      BY <2>1, <3>1, <3>2, <3>3, <3>4, <3>5, <3>6, <3>7, <3>8, <3>9, <3>10, <3>11 DEF
      Caller, Wakeup
  <2>2. ASSUME NEW v \in Voters, Voter(v) PROVE WdgIInv'
    <3>2. CASE AddVoteRead(v) BY <3>2 DEF AddVoteRead, VoteLock
    <3>3. CASE AddVoteWrite(v) BY <3>3 DEF AddVoteWrite
    <3>4. CASE AddVoteCancel(v) BY <3>4 DEF AddVoteCancel, CancelSleepWork
    <3>5. CASE AddVoteReturn(v) BY <3>5 DEF AddVoteReturn
    <3>7. CASE RemoveVoteRead(v) BY <3>7 DEF RemoveVoteRead, VoteLock
    <3>8. CASE RemoveVoteWrite(v) BY <3>8 DEF RemoveVoteWrite
    <3>9. CASE RemoveVoteFeed(v) BY <3>9 DEF RemoveVoteFeed, Feed
    <3>10. QED
      BY <2>2, <3>2, <3>3, <3>4, <3>5, <3>7, <3>8, <3>9 DEF Voter
  <2>3. CASE Ctl
    <3>1. CASE Enable BY <3>1 DEF Enable
    <3>2. CASE EnableFeed BY <3>2 DEF EnableFeed, Feed
    <3>3. CASE Disable BY <3>3 DEF Disable
    <3>4. CASE DisableReturn BY <3>4 DEF DisableReturn
    <3>5. CASE DisableCancel BY <3>5 DEF DisableCancel, CancelSleepWork
    <3>6. QED
      BY <2>3, <3>1, <3>2, <3>3, <3>4, <3>5 DEF Ctl
  <2>4. CASE Tx
    <3>1. CASE TxBegin BY <3>1 DEF TxBegin
    <3>2. CASE TxTransfer BY <3>2 DEF TxTransfer
    <3>3. QED
      BY <2>4, <3>1, <3>2 DEF Tx
  <2>5. CASE SleepWork
    <3>1. CASE SleepWorkStart BY <3>1 DEF SleepWorkStart
    <3>2. CASE SleepLock BY <3>2 DEF SleepLock, NoOne
    <3>3. CASE SleepRefused BY <3>3 DEF SleepRefused
    <3>4. CASE SleepNotNeeded BY <3>4 DEF SleepNotNeeded
    <3>5. CASE SleepCheck BY <3>5 DEF SleepCheck
    <3>6. CASE SleepInit BY <3>6 DEF SleepInit
    <3>7. CASE SleepSend BY <3>7 DEF SleepSend
    <3>8. CASE SleepSendFails BY <3>8 DEF SleepSendFails
    <3>9. CASE SleepAnswered BY <3>9 DEF SleepAnswered
    <3>10. CASE SleepTimeout BY <3>10 DEF SleepTimeout
    <3>11. CASE SleepSet BY <3>11 DEF SleepSet
    <3>12. CASE SleepReg BY <3>12 DEF SleepReg
    <3>13. CASE SleepFail BY <3>13 DEF SleepFail, Feed
    <3>14. QED
      BY <2>5, <3>1, <3>2, <3>3, <3>4, <3>5, <3>6, <3>7, <3>8, <3>9, <3>10, <3>11, <3>12,
      <3>13 DEF SleepWork
  <2>6. CASE WdgTimeout
    <3>1. CASE WdgOff BY <2>6, <3>1 DEF WdgTimeout, WdgOff
    <3>2. CASE WdgTraffic BY <2>6, <3>2 DEF WdgTimeout, WdgTraffic
    <3>3. CASE WdgIdle BY <2>6, <3>3 DEF WdgTimeout, WdgIdle
    <3>4. QED BY <2>6, <3>1, <3>2, <3>3 DEF WdgTimeout
  <2>7. CASE Rx
    <3>1. CASE RxWakeAck BY <3>1 DEF RxWakeAck
    <3>2. CASE RxClear BY <3>2 DEF RxClear
    <3>3. ASSUME NEW m \in SleepAcks, RxSleepAck(m) PROVE WdgIInv'
      BY <3>3 DEF RxSleepAck
    <3>4. ASSUME NEW m \in Messages, RxIgnore(m) PROVE WdgIInv'
      BY <3>4 DEF RxIgnore
    <3>5. CASE RxSleepDone BY <3>5 DEF RxSleepDone
    <3>6. QED BY <2>7, <3>1, <3>2, <3>3, <3>4, <3>5 DEF Rx
  <2>8. CASE Exc BY <2>8 DEF Exc, ExcCheck, ExcSet
  <2>9. CASE Chip
    <3>1. CASE ChipWake BY <3>1 DEF ChipWake
    <3>2. ASSUME NEW m \in SleepAcks, ChipSleepAnswer(m) PROVE WdgIInv'
      BY <3>2 DEF ChipSleepAnswer
    <3>3. QED BY <2>9, <3>1, <3>2 DEF Chip
  <2>10. CASE UNCHANGED vars BY <2>10 DEF vars
  <2>11. QED
    BY <2>1, <2>2, <2>3, <2>4, <2>5, <2>6, <2>7, <2>8, <2>9, <2>10 DEF Next

\* A transfer that wlan_pm_wakeup_dev allowed meets a chip told to stay awake, with power
\* management on or off, unless it was switched off after a failed wake-up
\* (wlan_pm_disable_check_wakeup) and none has succeeded since.
THEOREM TransfersMeetAwakeChip == Spec => []TransferOnlyAwake
<1>1. Init => RegIInv
  BY DEF Init, RegIInv, LockInv, WakeLabels, SleepLabels, Waking, MidWakeup, TransferOnlyAwake
<1>2. TypeOK /\ RegIInv /\ [Next]_vars => RegIInv'
  BY RegIInvStep
<1>3. RegIInv => TransferOnlyAwake
  BY DEF RegIInv
<1>4. QED BY <1>1, <1>2, <1>3, TypeCorrect, PTL DEF Spec

\* If updates of vote_status are atomic, the sleep watchdog is never lost: whatever cancels,
\* refuses or fails the sleep work feeds wlan_pm_feed_wdg again.  The hypothesis is needed: a
\* vote lost by two callers of wlan_pm_add_vote and wlan_pm_remove_vote (run lostvote) is not
\* covered.
THEOREM WatchdogNeverLost == ~SplitVote => (Spec => []WatchdogAlive)
<1> SUFFICES ASSUME ~SplitVote PROVE Spec => []WatchdogAlive
  OBVIOUS
<1>1. Init => WdgIInv
  BY DEF Init, WdgIInv, WatchdogAlive
<1>2. TypeOK /\ VoteIInv /\ [Next]_vars => VoteIInv'
  BY VoteIInvStep
<1>3. TypeOK /\ VoteIInv /\ WdgIInv /\ [Next]_vars => WdgIInv'
  BY WdgIInvStep DEF VoteIInv
<1>4. WdgIInv => WatchdogAlive
  BY DEF WdgIInv
<1>5. QED BY <1>1, <1>2, <1>3, <1>4, TypeCorrect, VoteIInvInit, PTL DEF Spec

\* If no earlier answer was to come when the sleep request in progress was sent, at most one
\* answer is under way, and what is known of it is what the chip said.
AckIInv ==
  /\ pc["wq"] = "slWait" /\ ~stale =>
       /\ slReq => d2h \cap SleepAcks = {} /\ pc["rx"] # "slAck" /\ ~slDone
       /\ \A m \in d2h \cap SleepAcks :
            pc["rx"] # "slAck" /\ ~slDone /\ (chipOk <=> m = "ALLOW_SLEEP")
       /\ pc["rx"] = "slAck" => ~slDone /\ (chipOk <=> slpack = "ALLOW_SLEEP")
       /\ slDone => (chipOk <=> slpack = "ALLOW_SLEEP")
  /\ pc["wq"] = "slSet" /\ ~stale => ~slReq
  /\ SleepAgreed

LEMMA AckIInvStep ==
  ASSUME TypeOK, AckIInv, [Next]_vars
  PROVE  AckIInv'
  <2> /\ pc \in [Threads -> Labels] /\ devState \in {"DISALLOW", "ALLOW", "EXCEPTION"}
      /\ votes \in SUBSET Voters /\ seen \in [Voters -> SUBSET Voters]
    BY DEF TypeOK
  <2> USE VotersAssumption
      DEF AckIInv, SleepAgreed, WakeLabels, SleepLabels, SleepAcks
  <2>1. ASSUME NEW p \in Callers, Caller(p) PROVE AckIInv'
    <3>1. CASE Lock(p) BY <3>1 DEF Lock, NoOne
    <3>2. CASE WakeCheck(p) BY <3>2 DEF WakeCheck
    <3>3. CASE WakeSet(p) BY <3>3 DEF WakeSet
    <3>4. CASE WakeSemaTimeout(p) BY <3>4 DEF WakeSemaTimeout
    <3>5. CASE WakeTry(p) BY <3>5 DEF WakeTry
    <3>6. CASE WakeGiveUp(p) BY <3>6 DEF WakeGiveUp
    <3>7. CASE WakeWrite(p) BY <3>7 DEF WakeWrite
    <3>8. CASE WakeWriteFails(p) BY <3>8 DEF WakeWriteFails
    <3>9. CASE WakeDone(p) BY <3>9 DEF WakeDone
    <3>10. CASE WakeTimeout(p) BY <3>10 DEF WakeTimeout
    <3>11. CASE WakeFail(p) BY <3>11 DEF WakeFail
    <3>12. QED
      BY <2>1, <3>1, <3>2, <3>3, <3>4, <3>5, <3>6, <3>7, <3>8, <3>9, <3>10, <3>11 DEF
      Caller, Wakeup
  <2>2. ASSUME NEW v \in Voters, Voter(v) PROVE AckIInv'
    <3>2. CASE AddVoteRead(v) BY <3>2 DEF AddVoteRead, VoteLock
    <3>3. CASE AddVoteWrite(v) BY <3>3 DEF AddVoteWrite
    <3>4. CASE AddVoteCancel(v) BY <3>4 DEF AddVoteCancel, CancelSleepWork
    <3>5. CASE AddVoteReturn(v) BY <3>5 DEF AddVoteReturn
    <3>7. CASE RemoveVoteRead(v) BY <3>7 DEF RemoveVoteRead, VoteLock
    <3>8. CASE RemoveVoteWrite(v) BY <3>8 DEF RemoveVoteWrite
    <3>9. CASE RemoveVoteFeed(v) BY <3>9 DEF RemoveVoteFeed
    <3>10. QED
      BY <2>2, <3>2, <3>3, <3>4, <3>5, <3>7, <3>8, <3>9 DEF Voter
  <2>3. CASE Ctl
    <3>1. CASE Enable BY <3>1 DEF Enable
    <3>2. CASE EnableFeed BY <3>2 DEF EnableFeed
    <3>3. CASE Disable BY <3>3 DEF Disable
    <3>4. CASE DisableReturn BY <3>4 DEF DisableReturn
    <3>5. CASE DisableCancel BY <3>5 DEF DisableCancel, CancelSleepWork
    <3>6. QED
      BY <2>3, <3>1, <3>2, <3>3, <3>4, <3>5 DEF Ctl
  <2>4. CASE Tx
    <3>1. CASE TxBegin BY <3>1 DEF TxBegin
    <3>2. CASE TxTransfer BY <3>2 DEF TxTransfer
    <3>3. QED
      BY <2>4, <3>1, <3>2 DEF Tx
  <2>5. CASE SleepWork
    <3>1. CASE SleepWorkStart BY <3>1 DEF SleepWorkStart
    <3>2. CASE SleepLock BY <3>2 DEF SleepLock, NoOne
    <3>3. CASE SleepRefused BY <3>3 DEF SleepRefused
    <3>4. CASE SleepNotNeeded BY <3>4 DEF SleepNotNeeded
    <3>5. CASE SleepCheck BY <3>5 DEF SleepCheck
    <3>6. CASE SleepInit BY <3>6 DEF SleepInit
    <3>7. CASE SleepSend BY <3>7 DEF SleepSend, OldAnswer
    <3>8. CASE SleepSendFails BY <3>8 DEF SleepSendFails
    <3>9. CASE SleepAnswered BY <3>9 DEF SleepAnswered
    <3>10. CASE SleepTimeout BY <3>10 DEF SleepTimeout
    <3>11. CASE SleepSet BY <3>11 DEF SleepSet
    <3>12. CASE SleepReg BY <3>12 DEF SleepReg
    <3>13. CASE SleepFail BY <3>13 DEF SleepFail
    <3>14. QED
      BY <2>5, <3>1, <3>2, <3>3, <3>4, <3>5, <3>6, <3>7, <3>8, <3>9, <3>10, <3>11, <3>12,
      <3>13 DEF SleepWork
  <2>6. CASE WdgTimeout BY <2>6 DEF WdgTimeout
  <2>7. CASE Rx
    <3>1. CASE RxWakeAck BY <3>1 DEF RxWakeAck
    <3>2. CASE RxClear BY <3>2 DEF RxClear
    <3>3. ASSUME NEW m \in SleepAcks, RxSleepAck(m) PROVE AckIInv'
      BY <3>3 DEF RxSleepAck
    <3>4. ASSUME NEW m \in Messages, RxIgnore(m) PROVE AckIInv'
      BY <3>4 DEF RxIgnore
    <3>5. CASE RxSleepDone BY <3>5 DEF RxSleepDone
    <3>6. QED BY <2>7, <3>1, <3>2, <3>3, <3>4, <3>5 DEF Rx
  <2>8. CASE Exc BY <2>8 DEF Exc, ExcCheck, ExcSet
  <2>9. CASE Chip
    <3>1. CASE ChipWake BY <3>1 DEF ChipWake
    <3>2. ASSUME NEW m \in SleepAcks, ChipSleepAnswer(m) PROVE AckIInv'
      BY <3>2 DEF ChipSleepAnswer
    <3>3. QED BY <2>9, <3>1, <3>2 DEF Chip
  <2>10. CASE UNCHANGED vars BY <2>10 DEF vars
  <2>11. QED
    BY <2>1, <2>2, <2>3, <2>4, <2>5, <2>6, <2>7, <2>8, <2>9, <2>10 DEF Next

\* The host acts on an ALLOW answer only if the chip gave it to this request, however late
\* answers come, unless an earlier one was still to come when wlan_pm_allow_dev_sleep sent the
\* request.
THEOREM SleepIsAgreed == Spec => []SleepAgreed
<1>1. Init => AckIInv
  BY DEF Init, AckIInv, SleepAgreed
<1>2. TypeOK /\ AckIInv /\ [Next]_vars => AckIInv'
  BY AckIInvStep
<1>3. AckIInv => SleepAgreed
  BY DEF AckIInv
<1>4. QED BY <1>1, <1>2, <1>3, TypeCorrect, PTL DEF Spec

\* what ExceptionStays says of one step
Stays ==
  devState = "EXCEPTION" =>
    /\ devState' = "EXCEPTION" \/ Waking \/ At("wq", "slSet")
    /\ \A p \in Threads : pc'[p] \in {"wakeSet", "slInit"} => pc'[p] = pc[p]

LEMMA ExceptionStep ==
  ASSUME TypeOK, [Next]_vars
  PROVE  Stays
  <2> pc \in [Threads -> Labels]
    BY DEF TypeOK
  <2> USE DEF Stays, Waking, MidWakeup, WakeLabels
  <2>1. ASSUME NEW p \in Callers, Caller(p) PROVE Stays
    <3>1. CASE Lock(p) BY <3>1 DEF Lock, NoOne
    <3>2. CASE WakeCheck(p) BY <3>2 DEF WakeCheck
    <3>3. CASE WakeSet(p) BY <3>3 DEF WakeSet
    <3>4. CASE WakeSemaTimeout(p) BY <3>4 DEF WakeSemaTimeout
    <3>5. CASE WakeTry(p) BY <3>5 DEF WakeTry
    <3>6. CASE WakeGiveUp(p) BY <3>6 DEF WakeGiveUp
    <3>7. CASE WakeWrite(p) BY <3>7 DEF WakeWrite
    <3>8. CASE WakeWriteFails(p) BY <3>8 DEF WakeWriteFails
    <3>9. CASE WakeDone(p) BY <3>9 DEF WakeDone
    <3>10. CASE WakeTimeout(p) BY <3>10 DEF WakeTimeout
    <3>11. CASE WakeFail(p) BY <3>11 DEF WakeFail
    <3>12. QED
      BY <2>1, <3>1, <3>2, <3>3, <3>4, <3>5, <3>6, <3>7, <3>8, <3>9, <3>10, <3>11 DEF
      Caller, Wakeup
  <2>2. ASSUME NEW v \in Voters, Voter(v) PROVE Stays
    <3>2. CASE AddVoteRead(v) BY <3>2 DEF AddVoteRead, VoteLock
    <3>3. CASE AddVoteWrite(v) BY <3>3 DEF AddVoteWrite
    <3>4. CASE AddVoteCancel(v) BY <3>4 DEF AddVoteCancel, CancelSleepWork
    <3>5. CASE AddVoteReturn(v) BY <3>5 DEF AddVoteReturn
    <3>7. CASE RemoveVoteRead(v) BY <3>7 DEF RemoveVoteRead, VoteLock
    <3>8. CASE RemoveVoteWrite(v) BY <3>8 DEF RemoveVoteWrite
    <3>9. CASE RemoveVoteFeed(v) BY <3>9 DEF RemoveVoteFeed
    <3>10. QED
      BY <2>2, <3>2, <3>3, <3>4, <3>5, <3>7, <3>8, <3>9 DEF Voter
  <2>3. CASE Ctl
    <3>1. CASE Enable BY <3>1 DEF Enable
    <3>2. CASE EnableFeed BY <3>2 DEF EnableFeed
    <3>3. CASE Disable BY <3>3 DEF Disable
    <3>4. CASE DisableReturn BY <3>4 DEF DisableReturn
    <3>5. CASE DisableCancel BY <3>5 DEF DisableCancel, CancelSleepWork
    <3>6. QED
      BY <2>3, <3>1, <3>2, <3>3, <3>4, <3>5 DEF Ctl
  <2>4. CASE Tx
    <3>1. CASE TxBegin BY <3>1 DEF TxBegin
    <3>2. CASE TxTransfer BY <3>2 DEF TxTransfer
    <3>3. QED
      BY <2>4, <3>1, <3>2 DEF Tx
  <2>5. CASE SleepWork
    <3>1. CASE SleepWorkStart BY <3>1 DEF SleepWorkStart
    <3>2. CASE SleepLock BY <3>2 DEF SleepLock, NoOne
    <3>3. CASE SleepRefused BY <3>3 DEF SleepRefused
    <3>4. CASE SleepNotNeeded BY <3>4 DEF SleepNotNeeded
    <3>5. CASE SleepCheck BY <3>5 DEF SleepCheck
    <3>6. CASE SleepInit BY <3>6 DEF SleepInit
    <3>7. CASE SleepSend BY <3>7 DEF SleepSend
    <3>8. CASE SleepSendFails BY <3>8 DEF SleepSendFails
    <3>9. CASE SleepAnswered BY <3>9 DEF SleepAnswered
    <3>10. CASE SleepTimeout BY <3>10 DEF SleepTimeout
    <3>11. CASE SleepSet BY <3>11 DEF SleepSet
    <3>12. CASE SleepReg BY <3>12 DEF SleepReg
    <3>13. CASE SleepFail BY <3>13 DEF SleepFail
    <3>14. QED
      BY <2>5, <3>1, <3>2, <3>3, <3>4, <3>5, <3>6, <3>7, <3>8, <3>9, <3>10, <3>11, <3>12,
      <3>13 DEF SleepWork
  <2>6. CASE WdgTimeout BY <2>6 DEF WdgTimeout
  <2>7. CASE Rx
    <3>1. CASE RxWakeAck BY <3>1 DEF RxWakeAck
    <3>2. CASE RxClear BY <3>2 DEF RxClear
    <3>3. ASSUME NEW m \in SleepAcks, RxSleepAck(m) PROVE Stays
      BY <3>3 DEF RxSleepAck
    <3>4. ASSUME NEW m \in Messages, RxIgnore(m) PROVE Stays
      BY <3>4 DEF RxIgnore
    <3>5. CASE RxSleepDone BY <3>5 DEF RxSleepDone
    <3>6. QED BY <2>7, <3>1, <3>2, <3>3, <3>4, <3>5 DEF Rx
  <2>8. CASE Exc BY <2>8 DEF Exc, ExcCheck, ExcSet
  <2>9. CASE Chip
    <3>1. CASE ChipWake BY <3>1 DEF ChipWake
    <3>2. ASSUME NEW m \in SleepAcks, ChipSleepAnswer(m) PROVE Stays
      BY <3>2 DEF ChipSleepAnswer
    <3>3. QED BY <2>9, <3>1, <3>2 DEF Chip
  <2>10. CASE UNCHANGED vars BY <2>10 DEF vars
  <2>11. QED
    BY <2>1, <2>2, <2>3, <2>4, <2>5, <2>6, <2>7, <2>8, <2>9, <2>10 DEF Next

\* After an exception report no handshake begins, neither wlan_pm_wakeup_dev's nor
\* wlan_pm_sleep_work's, and only one in progress overwrites the state: oal_exception_submit takes
\* no mutex, and needs none for this.
THEOREM ExceptionIsKept == Spec => ExceptionStays
<1>1. TypeOK /\ [Next]_vars => Stays
  BY ExceptionStep
<1>2. QED BY <1>1, TypeCorrect, PTL DEF Spec, ExceptionStays, Stays

==============================================================================
