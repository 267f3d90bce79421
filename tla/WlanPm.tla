------------------------------- MODULE WlanPm -------------------------------
(***************************************************************************)
(* Host side power management of the Hi3881 Wi-Fi chip                     *)
(* (wifi/driver/hi3881/oal/plat_pm_wlan.c): the sleep watchdog, the sleep  *)
(* work and its request/answer handshake, the wake-up handshake with its   *)
(* retries, sleep votes, enabling and disabling, and the exception report. *)
(*                                                                         *)
(* Threads: one voter per vote id (wlan_pm_add_vote/remove_vote), "ctl"    *)
(* (hi_wifi_plat_pm_enable/disable), "tx" (the HCC transmit thread), "wq"  *)
(* (the pm_wq worker that runs sleep_work), "rx" (the SDIO message         *)
(* handler), "exc" (oal_exception_submit).  pc[p] is where a thread is;    *)
(* the labels of wlan_pm_wakeup_dev are shared by the threads that call it *)
(* with the HCC transfer mutex held.                                       *)
(***************************************************************************)
EXTENDS Naturals

CONSTANTS
  Voters,      \* the vote ids in use (wlan_pm_vote_id)
  CheckCnt,    \* wdg_timeout_cnt: idle watchdog periods before a sleep work
  TryTimes,    \* WLAN_TRY_WAKEUP_FAIL_TIMES
  MaxPacket,   \* bound on packet_cnt (only zero / non-zero is ever tested)
  SplitVote,   \* TRUE: "vote_status |= bit" of one thread can come between the read and
               \* the write of another's
  LateAck,     \* TRUE: an answer can be delivered after its waiter timed out
  Active       \* which of the threads "tx", "exc" take part

ASSUME CheckCntAssumption == CheckCnt \in Nat \ {0}
ASSUME TryTimesAssumption == TryTimes \in Nat \ {0}
ASSUME MaxPacketAssumption == MaxPacket \in Nat \ {0}
ASSUME SplitVoteAssumption == SplitVote \in BOOLEAN
ASSUME LateAckAssumption == LateAck \in BOOLEAN
ASSUME VotersAssumption == Voters \cap {"ctl", "tx", "wq", "rx", "exc", "nobody"} = {}

VARIABLES
  pc,          \* where each thread is
  lock,        \* who holds hcc tx_transfer_lock
  enable,      \* wlan_pm_enable
  devState,    \* wlan_dev_state: "DISALLOW", "ALLOW" or "EXCEPTION"
  votes,       \* vote_status as the set of the bits that are 1
  seen,        \* what a voter read of vote_status before it writes it back
  packet,      \* packet_cnt
  curr,        \* wdg_timeout_curr_cnt
  timer,       \* watchdog_timer is pending
  queued,      \* sleep_work is queued on pm_wq
  tries,       \* wakeup_times of the wake-up in progress
  wkWait, wkDone,    \* g_wakeup_dev_wait_ack, completion wakeup_done
  slWait, slDone,    \* g_dev_sleep_wait_ack, completion sleep_request_ack
  slpack,      \* slpack: the last sleep answer taken
  wakeReg,     \* the chip's SDIO wake-up register: TRUE is "stay awake"
  wkPend,      \* the chip has a wake-up it has not answered yet
  slReq,       \* the chip has an H2D_MSG_SLEEP_REQ it has not answered yet
  chipOk,      \* the chip's answer to the latest sleep request was ALLOW
  d2h,         \* message register: D2H messages the host has not handled
  stale,       \* history: when the sleep request in progress was sent, an earlier one was
               \* not answered yet or its answer was still under way
  blind        \* history: power management was disabled although the wake-up had failed,
               \* and no wake-up has succeeded since

histVars == <<stale, blind>>
chipVars == <<wakeReg, wkPend, slReq, chipOk, d2h, histVars>>   \* the chip, and its history
ackVars  == <<wkWait, wkDone, slWait, slDone, slpack>>
wdgVars  == <<packet, curr, timer, queued>>
voteVars == <<votes, seen>>
vars == <<pc, lock, enable, devState, voteVars, wdgVars, tries, ackVars, chipVars>>

NoOne    == "nobody"
Callers  == Voters \cup {"ctl", "tx"}       \* threads that call wlan_pm_wakeup_dev
Threads  == Callers \cup {"wq", "rx", "exc"}
Messages == {"WAKEUP_SUCC", "ALLOW_SLEEP", "DISALLOW_SLEEP"}
SleepAcks == {"ALLOW_SLEEP", "DISALLOW_SLEEP"}

WakeLabels == {"wake", "wakeSet", "wakeTry", "wakeWrite", "wakeWait", "wakeFail",
               "retOk", "retFail", "retNoPm"}
SleepLabels == {"slCheck", "slInit", "slSend", "slWait", "slSet", "slReg", "slFail"}
Labels == WakeLabels \cup SleepLabels \cup
          {"idle", "addWrite", "addCancel", "lock", "held", "degraded",
           "remWrite", "remFeed", "enFeed", "disCancel", "slLock",
           "slAck", "slClear", "wkClear", "set"}

TypeOK ==
  /\ pc \in [Threads -> Labels]
  /\ lock \in Callers \cup {"wq", NoOne}
  /\ enable \in BOOLEAN
  /\ devState \in {"DISALLOW", "ALLOW", "EXCEPTION"}
  /\ votes \in SUBSET Voters
  /\ seen \in [Voters -> SUBSET Voters]
  /\ packet \in 0..MaxPacket
  /\ curr \in 0..CheckCnt
  /\ timer \in BOOLEAN /\ queued \in BOOLEAN
  /\ tries \in Nat
  /\ wkWait \in BOOLEAN /\ wkDone \in BOOLEAN
  /\ slWait \in BOOLEAN /\ slDone \in BOOLEAN
  /\ slpack \in SleepAcks
  /\ wakeReg \in BOOLEAN /\ wkPend \in BOOLEAN
  /\ slReq \in BOOLEAN /\ chipOk \in BOOLEAN
  /\ d2h \in SUBSET Messages
  /\ stale \in BOOLEAN /\ blind \in BOOLEAN

\* wlan_pm_init: power management off, no vote, the chip awake
Init ==
  /\ pc = [p \in Threads |-> "idle"]
  /\ lock = NoOne
  /\ enable = FALSE
  /\ devState = "DISALLOW"
  /\ votes = {}
  /\ seen = [v \in Voters |-> {}]
  /\ packet = 0 /\ curr = 0
  /\ timer = FALSE /\ queued = FALSE
  /\ tries = 0
  /\ wkWait = FALSE /\ wkDone = FALSE
  /\ slWait = FALSE /\ slDone = FALSE
  /\ slpack = "DISALLOW_SLEEP"
  /\ wakeReg = TRUE /\ wkPend = FALSE
  /\ slReq = FALSE /\ chipOk = FALSE
  /\ d2h = {}
  /\ stale = FALSE /\ blind = FALSE

At(p, l) == pc[p] = l
Goto(p, l) == pc' = [pc EXCEPT ![p] = l]

\* sleep_work is queued or executing (work_busy)
SleepWorkBusy == queued \/ ~At("wq", "idle")

\* wlan_pm_feed_wdg
Feed == timer' = IF enable /\ votes = {} THEN TRUE ELSE timer

-----------------------------------------------------------------------------
(* hcc_tx_transfer_lock: what a thread does next once it has the mutex.    *)

Lock(p) ==
  /\ At(p, "lock")
  /\ lock = NoOne
  /\ lock' = p
  /\ IF p = "ctl" /\ ~enable          \* already disabled: unlock and return
     THEN Goto(p, "retOk")
     ELSE Goto(p, "wake")
  /\ UNCHANGED <<enable, devState, voteVars, wdgVars, tries, ackVars, chipVars>>

-----------------------------------------------------------------------------
(* wlan_pm_wakeup_dev and wlan_pm_wakeup_dev_again                         *)

WakeCheck_NoException(p) ==   \* variant: an exception is not tested for
  /\ At(p, "wake")
  /\ Goto(p, IF devState = "DISALLOW" THEN "retOk"
             ELSE IF ~enable THEN "retNoPm" ELSE "wakeSet")
  /\ UNCHANGED <<lock, enable, devState, voteVars, wdgVars, tries, ackVars, chipVars>>

\* the early returns
WakeCheck(p) ==
  /\ At(p, "wake")
  /\ Goto(p, IF devState = "DISALLOW" THEN "retOk"
             ELSE IF ~enable THEN "retNoPm"
             ELSE IF devState = "EXCEPTION" THEN "retFail"
             ELSE "wakeSet")
  /\ UNCHANGED <<lock, enable, devState, voteVars, wdgVars, tries, ackVars, chipVars>>

WakeSet_NoState(p) ==         \* variant: the state keeps saying "asleep"
  /\ At(p, "wakeSet")
  /\ Goto(p, "wakeTry")
  /\ UNCHANGED <<lock, enable, devState, voteVars, wdgVars, tries, ackVars, chipVars>>

\* g_chan_wake_sema is free: the state is changed before the chip is woken
WakeSet(p) ==
  /\ At(p, "wakeSet")
  /\ devState' = "DISALLOW"
  /\ Goto(p, "wakeTry")
  /\ UNCHANGED <<lock, enable, voteVars, wdgVars, tries, ackVars, chipVars>>

\* g_chan_wake_sema is not released in time
WakeSemaTimeout(p) ==
  /\ At(p, "wakeSet")
  /\ Goto(p, "wakeFail")
  /\ UNCHANGED <<lock, enable, devState, voteVars, wdgVars, tries, ackVars, chipVars>>

\* one round: arm the completion; from the second on, write "may sleep" first
WakeTry(p) ==
  /\ At(p, "wakeTry")
  /\ tries < TryTimes
  /\ wkDone' = FALSE
  /\ wkWait' = TRUE
  /\ wakeReg' = IF tries = 0 THEN wakeReg ELSE FALSE
  /\ Goto(p, "wakeWrite")
  /\ UNCHANGED <<lock, enable, devState, voteVars, wdgVars, tries, slWait, slDone,
                 slpack, wkPend, slReq, chipOk, d2h, histVars>>

WakeGiveUp(p) ==
  /\ At(p, "wakeTry")
  /\ tries >= TryTimes
  /\ Goto(p, "wakeFail")
  /\ UNCHANGED <<lock, enable, devState, voteVars, wdgVars, tries, ackVars, chipVars>>

\* oal_sdio_wakeup_dev writes the register ...
WakeWrite(p) ==
  /\ At(p, "wakeWrite")
  /\ wakeReg' = TRUE
  /\ wkPend' = TRUE
  /\ Goto(p, "wakeWait")
  /\ UNCHANGED <<lock, enable, devState, voteVars, wdgVars, tries, ackVars, slReq, chipOk,
                 d2h, histVars>>

\* ... or fails, and the round is over
WakeWriteFails(p) ==
  /\ At(p, "wakeWrite")
  /\ tries' = tries + 1
  /\ Goto(p, "wakeTry")
  /\ UNCHANGED <<lock, enable, devState, voteVars, wdgVars, ackVars, chipVars>>

WakeDone_NoFeed(p) ==         \* variant: the watchdog is not restarted
  /\ At(p, "wakeWait")
  /\ wkDone
  /\ wkDone' = FALSE
  /\ curr' = 0 /\ packet' = 0 /\ tries' = 0
  /\ Goto(p, "retOk")
  /\ UNCHANGED <<lock, enable, devState, voteVars, timer, queued, wkWait, slWait,
                 slDone, slpack, chipVars>>

\* the completion arrives: reset the watchdog's counters and feed it
WakeDone(p) ==
  /\ At(p, "wakeWait")
  /\ wkDone
  /\ wkDone' = FALSE
  /\ curr' = 0 /\ packet' = 0
  /\ Feed
  /\ tries' = 0
  /\ blind' = FALSE
  /\ Goto(p, "retOk")
  /\ UNCHANGED <<lock, enable, devState, voteVars, queued, wkWait, slWait,
                 slDone, slpack, wakeReg, wkPend, slReq, chipOk, d2h, stale>>

WakeTimeout(p) ==
  /\ At(p, "wakeWait")
  /\ ~wkDone
  /\ ~LateAck => "WAKEUP_SUCC" \notin d2h
  /\ tries' = tries + 1
  /\ wkPend' = IF LateAck THEN wkPend ELSE FALSE
  /\ Goto(p, "wakeTry")
  /\ UNCHANGED <<lock, enable, devState, voteVars, wdgVars, ackVars, wakeReg, slReq,
                 chipOk, d2h, histVars>>

\* every round failed: back to ALLOW, and the failure is reported
WakeFail(p) ==
  /\ At(p, "wakeFail")
  /\ devState' = "ALLOW"
  /\ tries' = 0
  /\ Goto(p, "retFail")
  /\ UNCHANGED <<lock, enable, voteVars, wdgVars, ackVars, chipVars>>

Wakeup(p) == \/ WakeCheck(p) \/ WakeSet(p) \/ WakeSemaTimeout(p) \/ WakeTry(p)
             \/ WakeGiveUp(p) \/ WakeWrite(p) \/ WakeWriteFails(p) \/ WakeDone(p)
             \/ WakeTimeout(p) \/ WakeFail(p)

-----------------------------------------------------------------------------
(* wlan_pm_add_vote and wlan_pm_remove_vote.  Their spin lock is a local   *)
(* variable of each call, so it excludes nobody.                           *)

\* nobody is between the read and the write, if the lock excluded others
VoteLock == SplitVote \/ \A u \in Voters : pc[u] \notin {"addWrite", "remWrite"}

AddVoteRead(v) ==
  /\ At(v, "idle") /\ VoteLock
  /\ seen' = [seen EXCEPT ![v] = votes]
  /\ Goto(v, "addWrite")
  /\ UNCHANGED <<lock, enable, devState, votes, wdgVars, tries, ackVars, chipVars>>

AddVoteWrite(v) ==
  /\ At(v, "addWrite")
  /\ votes' = seen[v] \cup {v}
  /\ seen' = [seen EXCEPT ![v] = {}]
  /\ Goto(v, "addCancel")
  /\ UNCHANGED <<lock, enable, devState, wdgVars, tries, ackVars, chipVars>>

\* oal_cancel_work_sync(&sleep_work): dequeue it, or wait until it has run
CancelSleepWork(p, from, to) ==
  /\ At(p, from)
  /\ At("wq", "idle")
  /\ queued' = FALSE
  /\ Goto(p, to)
  /\ UNCHANGED <<lock, enable, devState, voteVars, packet, curr, timer, tries, ackVars,
                 chipVars>>

AddVoteCancel(v) == CancelSleepWork(v, "addCancel", "lock")

\* the wake-up's result is only logged: the vote stands either way
AddVoteReturn(v) ==
  /\ pc[v] \in {"retOk", "retFail", "retNoPm"}
  /\ lock' = NoOne
  /\ Goto(v, IF At(v, "retOk") THEN "held" ELSE "degraded")
  /\ UNCHANGED <<enable, devState, voteVars, wdgVars, tries, ackVars, chipVars>>

RemoveVoteRead(v) ==
  /\ pc[v] \in {"held", "degraded"} /\ VoteLock
  /\ seen' = [seen EXCEPT ![v] = votes]
  /\ Goto(v, "remWrite")
  /\ UNCHANGED <<lock, enable, devState, votes, wdgVars, tries, ackVars, chipVars>>

RemoveVoteWrite_All(v) ==     \* variant: every vote is cleared
  /\ At(v, "remWrite")
  /\ votes' = {} /\ seen' = [seen EXCEPT ![v] = {}]
  /\ Goto(v, "remFeed")
  /\ UNCHANGED <<lock, enable, devState, wdgVars, tries, ackVars, chipVars>>

RemoveVoteWrite(v) ==
  /\ At(v, "remWrite")
  /\ votes' = seen[v] \ {v}
  /\ seen' = [seen EXCEPT ![v] = {}]
  /\ Goto(v, "remFeed")
  /\ UNCHANGED <<lock, enable, devState, wdgVars, tries, ackVars, chipVars>>

RemoveVoteFeed(v) ==
  /\ At(v, "remFeed")
  /\ Feed
  /\ Goto(v, "idle")
  /\ UNCHANGED <<lock, enable, devState, voteVars, packet, curr, queued, tries, ackVars,
                 chipVars>>

Voter(v) == \/ AddVoteRead(v) \/ AddVoteWrite(v) \/ AddVoteCancel(v) \/ AddVoteReturn(v)
            \/ RemoveVoteRead(v) \/ RemoveVoteWrite(v) \/ RemoveVoteFeed(v)

-----------------------------------------------------------------------------
(* hi_wifi_plat_pm_enable and wlan_pm_disable_check_wakeup(HI_TRUE)        *)

Enable ==
  /\ At("ctl", "idle")
  /\ ~enable
  /\ enable' = TRUE
  /\ curr' = 0 /\ packet' = 0
  /\ Goto("ctl", "enFeed")
  /\ UNCHANGED <<lock, devState, voteVars, timer, queued, tries, ackVars, chipVars>>

EnableFeed ==
  /\ At("ctl", "enFeed")
  /\ Feed
  /\ Goto("ctl", "idle")
  /\ UNCHANGED <<lock, enable, devState, voteVars, packet, curr, queued, tries, ackVars,
                 chipVars>>

Disable ==
  /\ At("ctl", "idle")
  /\ Goto("ctl", "lock")
  /\ UNCHANGED <<lock, enable, devState, voteVars, wdgVars, tries, ackVars, chipVars>>

\* a failed wake-up does not stop the disabling
DisableReturn ==
  /\ pc["ctl"] \in {"retOk", "retFail", "retNoPm"}
  /\ enable' = FALSE
  /\ lock' = NoOne
  /\ blind' = (At("ctl", "retFail") \/ blind)
  /\ Goto("ctl", IF enable THEN "disCancel" ELSE "idle")
  /\ UNCHANGED <<devState, voteVars, wdgVars, tries, ackVars, wakeReg, wkPend, slReq, chipOk,
                 d2h, stale>>

DisableCancel == CancelSleepWork("ctl", "disCancel", "idle")

Ctl == Enable \/ EnableFeed \/ Disable \/ DisableReturn \/ DisableCancel

-----------------------------------------------------------------------------
(* The transmit thread: a transfer wakes the chip under the mutex, and is  *)
(* counted only if the wake-up succeeded (oal_sdio_transfer_netbuf_list).  *)

TxBegin ==
  /\ At("tx", "idle")
  /\ Goto("tx", "lock")
  /\ UNCHANGED <<lock, enable, devState, voteVars, wdgVars, tries, ackVars, chipVars>>

TxTransfer ==
  /\ pc["tx"] \in {"retOk", "retFail", "retNoPm"}
  /\ packet' = IF At("tx", "retFail") \/ packet = MaxPacket THEN packet ELSE packet + 1
  /\ lock' = NoOne
  /\ Goto("tx", "idle")
  /\ UNCHANGED <<enable, devState, voteVars, curr, timer, queued, tries, ackVars, chipVars>>

Tx == TxBegin \/ TxTransfer

-----------------------------------------------------------------------------
(* wlan_pm_wdg_timeout                                                     *)

\* disabled or voted against: the timer is not restarted
WdgOff ==
  /\ ~enable \/ votes # {}
  /\ packet' = 0
  /\ timer' = FALSE
  /\ UNCHANGED <<curr, queued>>

WdgTraffic ==
  /\ packet > 0
  /\ packet' = 0 /\ curr' = 0
  /\ timer' = TRUE
  /\ UNCHANGED queued

\* curr is capped at CheckCnt: the code only asks whether it has got there
WdgIdle ==
  /\ packet = 0
  /\ curr' = IF curr < CheckCnt THEN curr + 1 ELSE CheckCnt
  /\ IF curr' = CheckCnt /\ ~SleepWorkBusy
     THEN queued' = TRUE /\ timer' = FALSE      \* submitted: not restarted
     ELSE timer' = TRUE /\ UNCHANGED queued
  /\ UNCHANGED packet

WdgTimeout ==
  /\ timer
  /\ \/ WdgOff
     \/ enable /\ votes = {} /\ (WdgTraffic \/ WdgIdle)
  /\ UNCHANGED <<pc, lock, enable, devState, voteVars, tries, ackVars, chipVars>>

-----------------------------------------------------------------------------
(* wlan_pm_sleep_work: wlan_pm_dev_sleep_request, wlan_pm_allow_dev_sleep  *)

SleepWorkStart ==
  /\ At("wq", "idle") /\ queued
  /\ queued' = FALSE
  /\ curr' = 0 /\ packet' = 0
  /\ Goto("wq", "slLock")
  /\ UNCHANGED <<lock, enable, devState, voteVars, timer, tries, ackVars, chipVars>>

SleepLock ==
  /\ At("wq", "slLock")
  /\ lock = NoOne
  /\ lock' = "wq"
  /\ Goto("wq", "slCheck")
  /\ UNCHANGED <<enable, devState, voteVars, wdgVars, tries, ackVars, chipVars>>

\* disabled or voted against
SleepRefused ==
  /\ At("wq", "slCheck")
  /\ ~enable \/ votes # {}
  /\ Goto("wq", "slFail")
  /\ UNCHANGED <<lock, enable, devState, voteVars, wdgVars, tries, ackVars, chipVars>>

\* asleep already, or in exception: return without feeding the watchdog
SleepNotNeeded ==
  /\ At("wq", "slCheck")
  /\ enable /\ votes = {}
  /\ devState # "DISALLOW"
  /\ lock' = NoOne
  /\ Goto("wq", "idle")
  /\ UNCHANGED <<enable, devState, voteVars, wdgVars, tries, ackVars, chipVars>>

SleepCheck ==
  /\ At("wq", "slCheck")
  /\ enable /\ votes = {}
  /\ devState = "DISALLOW"
  /\ Goto("wq", "slInit")
  /\ UNCHANGED <<lock, enable, devState, voteVars, wdgVars, tries, ackVars, chipVars>>

SleepInit ==
  /\ At("wq", "slInit")
  /\ slpack' = "ALLOW_SLEEP"
  /\ slDone' = FALSE
  /\ slWait' = TRUE
  /\ Goto("wq", "slSend")
  /\ UNCHANGED <<lock, enable, devState, voteVars, wdgVars, tries, wkWait, wkDone, chipVars>>

\* an answer to an earlier request that is still to come, or to be handed over
OldAnswer == slReq \/ d2h \cap SleepAcks # {} \/ At("rx", "slAck") \/ slDone

SleepSend ==
  /\ At("wq", "slSend")
  /\ slReq' = TRUE
  /\ chipOk' = FALSE
  /\ stale' = OldAnswer
  /\ Goto("wq", "slWait")
  /\ UNCHANGED <<lock, enable, devState, voteVars, wdgVars, tries, ackVars, wakeReg,
                 wkPend, d2h, blind>>

SleepSendFails ==
  /\ At("wq", "slSend")
  /\ slWait' = FALSE
  /\ Goto("wq", "slFail")
  /\ UNCHANGED <<lock, enable, devState, voteVars, wdgVars, tries, wkWait, wkDone, slDone,
                 slpack, chipVars>>

SleepAnswered ==
  /\ At("wq", "slWait")
  /\ slDone
  /\ slDone' = FALSE
  /\ Goto("wq", IF slpack = "ALLOW_SLEEP" THEN "slSet" ELSE "slFail")
  /\ UNCHANGED <<lock, enable, devState, voteVars, wdgVars, tries, wkWait, wkDone, slWait,
                 slpack, chipVars>>

\* the GPIO tells the chip that the request is over; slWait stays set
SleepTimeout ==
  /\ At("wq", "slWait")
  /\ ~slDone
  /\ ~LateAck => (d2h \cap SleepAcks = {} /\ ~At("rx", "slAck"))
  /\ slReq' = IF LateAck THEN slReq ELSE FALSE
  /\ Goto("wq", "slFail")
  /\ UNCHANGED <<lock, enable, devState, voteVars, wdgVars, tries, ackVars, wakeReg,
                 wkPend, chipOk, d2h, histVars>>

SleepSet_Unlock ==            \* variant: unlocked before the register is written
  /\ At("wq", "slSet")
  /\ devState' = "ALLOW"
  /\ lock' = NoOne
  /\ Goto("wq", "slReg")
  /\ UNCHANGED <<enable, voteVars, wdgVars, tries, ackVars, chipVars>>

SleepSet ==
  /\ At("wq", "slSet")
  /\ devState' = "ALLOW"
  /\ Goto("wq", "slReg")
  /\ UNCHANGED <<lock, enable, voteVars, wdgVars, tries, ackVars, chipVars>>

\* oal_sdio_sleep_dev, then unlock
SleepReg ==
  /\ At("wq", "slReg")
  /\ wakeReg' = FALSE
  /\ lock' = NoOne
  /\ stale' = FALSE
  /\ Goto("wq", "idle")
  /\ UNCHANGED <<enable, devState, voteVars, wdgVars, tries, ackVars, wkPend, slReq,
                 chipOk, d2h, blind>>

SleepFail_NoFeed ==           \* variant: the watchdog is not restarted
  /\ At("wq", "slFail")
  /\ lock' = NoOne
  /\ stale' = FALSE
  /\ Goto("wq", "idle")
  /\ UNCHANGED <<enable, devState, voteVars, wdgVars, tries, ackVars, wakeReg, wkPend,
                 slReq, chipOk, d2h, blind>>

\* every way out that does not sleep feeds the watchdog before it unlocks
SleepFail ==
  /\ At("wq", "slFail")
  /\ Feed
  /\ lock' = NoOne
  /\ stale' = FALSE
  /\ Goto("wq", "idle")
  /\ UNCHANGED <<enable, devState, voteVars, packet, curr, queued, tries, ackVars, wakeReg,
                 wkPend, slReq, chipOk, d2h, blind>>

SleepWork == \/ SleepWorkStart \/ SleepLock \/ SleepRefused \/ SleepNotNeeded
             \/ SleepCheck \/ SleepInit \/ SleepSend \/ SleepSendFails
             \/ SleepAnswered \/ SleepTimeout \/ SleepSet \/ SleepReg \/ SleepFail

-----------------------------------------------------------------------------
(* The SDIO message handler: wlan_pm_ack_handle, wlan_pm_wakeup_dev_ack.   *)
(* Each completes the waiter first and clears the wait flag afterwards; a  *)
(* sleep answer is stored before.                                          *)

RxSleepAck_NoStore(m) ==      \* variant: the answer's content is not stored
  /\ At("rx", "idle")
  /\ m \in d2h \cap SleepAcks
  /\ slWait
  /\ d2h' = d2h \ {m}
  /\ Goto("rx", "slAck")
  /\ UNCHANGED <<lock, enable, devState, voteVars, wdgVars, tries, ackVars, wakeReg, wkPend,
                 slReq, chipOk, histVars>>

RxSleepAck(m) ==
  /\ At("rx", "idle")
  /\ m \in d2h \cap SleepAcks
  /\ slWait
  /\ d2h' = d2h \ {m}
  /\ slpack' = m
  /\ Goto("rx", "slAck")
  /\ UNCHANGED <<lock, enable, devState, voteVars, wdgVars, tries, wkWait, wkDone, slWait,
                 slDone, wakeReg, wkPend, slReq, chipOk, histVars>>

RxSleepDone ==
  /\ At("rx", "slAck")
  /\ slDone' = TRUE
  /\ Goto("rx", "slClear")
  /\ UNCHANGED <<lock, enable, devState, voteVars, wdgVars, tries, wkWait, wkDone, slWait,
                 slpack, chipVars>>

RxWakeAck ==
  /\ At("rx", "idle")
  /\ "WAKEUP_SUCC" \in d2h
  /\ wkWait
  /\ d2h' = d2h \ {"WAKEUP_SUCC"}
  /\ wkDone' = TRUE
  /\ Goto("rx", "wkClear")
  /\ UNCHANGED <<lock, enable, devState, voteVars, wdgVars, tries, wkWait, slWait, slDone,
                 slpack, wakeReg, wkPend, slReq, chipOk, histVars>>

\* nobody waits for the answer
RxIgnore(m) ==
  /\ At("rx", "idle")
  /\ m \in d2h
  /\ IF m \in SleepAcks THEN ~slWait ELSE ~wkWait
  /\ d2h' = d2h \ {m}
  /\ UNCHANGED <<pc, lock, enable, devState, voteVars, wdgVars, tries, ackVars, wakeReg,
                 wkPend, slReq, chipOk, histVars>>

RxClear ==
  /\ pc["rx"] \in {"slClear", "wkClear"}
  /\ slWait' = IF At("rx", "slClear") THEN FALSE ELSE slWait
  /\ wkWait' = IF At("rx", "wkClear") THEN FALSE ELSE wkWait
  /\ Goto("rx", "idle")
  /\ UNCHANGED <<lock, enable, devState, voteVars, wdgVars, tries, wkDone, slDone, slpack,
                 chipVars>>

Rx == \/ RxWakeAck \/ RxSleepDone \/ RxClear
      \/ \E m \in SleepAcks : RxSleepAck(m)
      \/ \E m \in Messages : RxIgnore(m)

-----------------------------------------------------------------------------
(* oal_exception_submit: the state is tested, then set, without the mutex. *)
(* The exception worker that resets the chip is not part of this module.   *)

ExcCheck ==
  /\ At("exc", "idle")
  /\ devState # "ALLOW"
  /\ Goto("exc", "set")
  /\ UNCHANGED <<lock, enable, devState, voteVars, wdgVars, tries, ackVars, chipVars>>

ExcSet ==
  /\ At("exc", "set")
  /\ devState' = "EXCEPTION"
  /\ Goto("exc", "idle")
  /\ UNCHANGED <<lock, enable, voteVars, wdgVars, tries, ackVars, chipVars>>

Exc == ExcCheck \/ ExcSet

-----------------------------------------------------------------------------
(* The chip (external): it answers a sleep request as it likes, and a      *)
(* wake-up unless it misses it.                                            *)

ChipSleepAnswer(m) ==
  /\ slReq
  /\ slReq' = FALSE
  /\ d2h' = d2h \cup {m}
  /\ chipOk' = (m = "ALLOW_SLEEP")
  /\ UNCHANGED <<pc, lock, enable, devState, voteVars, wdgVars, tries, ackVars, wakeReg,
                 wkPend, histVars>>

ChipWake ==
  /\ wkPend
  /\ wkPend' = FALSE
  /\ d2h' = d2h \cup {"WAKEUP_SUCC"}
  /\ UNCHANGED <<pc, lock, enable, devState, voteVars, wdgVars, tries, ackVars, wakeReg,
                 slReq, chipOk, histVars>>

Chip == ChipWake \/ \E m \in SleepAcks : ChipSleepAnswer(m)

-----------------------------------------------------------------------------
Caller(p) == Lock(p) \/ Wakeup(p)

Next == \/ \E p \in Callers : Caller(p)
        \/ \E v \in Voters : Voter(v)
        \/ "tx" \in Active /\ Tx
        \/ "exc" \in Active /\ Exc
        \/ Ctl \/ WdgTimeout \/ SleepWork \/ Rx \/ Chip

Spec == Init /\ [][Next]_vars

Fairness ==
  /\ \A p \in Callers : WF_vars(Caller(p))
  /\ \A v \in Voters : WF_vars(AddVoteWrite(v) \/ AddVoteCancel(v) \/ AddVoteReturn(v)
                                \/ RemoveVoteWrite(v) \/ RemoveVoteFeed(v))
  /\ WF_vars(EnableFeed \/ DisableReturn \/ DisableCancel)
  /\ WF_vars(TxTransfer)
  /\ WF_vars(SleepWork)
  /\ WF_vars(WdgTimeout)
  /\ WF_vars(Rx)

LiveSpec == Spec /\ Fairness

-----------------------------------------------------------------------------
(* Properties                                                              *)

MidWakeup == {"wakeSet", "wakeTry", "wakeWrite", "wakeWait", "wakeFail"}
Waking == \E p \in Callers : pc[p] \in MidWakeup

\* Once wlan_pm_add_vote has returned with the chip awake, the host does not
\* let the chip sleep until the vote is removed: not by a sleep work that
\* was already in progress, and not by another thread's failed wake-up.
VoteKeepsAwake == \A v \in Voters : At(v, "held") => devState # "ALLOW"

\* The contract of the votes: every step of this module is a step of
\* WlanPmAbs, in which the chip is let to sleep only when no vote is held.
HeldVotes == {v \in Voters : At(v, "held")}
Abs == INSTANCE WlanPmAbs WITH state <- devState, held <- HeldVotes
VoteContract == Abs!Spec

\* The sleep watchdog is never lost: enabled, without votes and with the
\* chip kept awake, the timer is pending or a sleep work is on its way
\* (unless a thread is just about to feed the watchdog).
WatchdogAlive ==
  (/\ enable /\ votes = {} /\ devState = "DISALLOW"
   /\ ~Waking /\ ~At("ctl", "enFeed")
   /\ \A v \in Voters : ~At(v, "remFeed"))
  => timer \/ SleepWorkBusy

\* A transfer that wlan_pm_wakeup_dev allowed meets a chip whose wake-up
\* register is set, whatever the order of retries, sleep works, votes and
\* disablings.  The one exception: wlan_pm_disable_check_wakeup went on after
\* a failed wake-up and none has succeeded since; with power management off
\* wlan_pm_wakeup_dev then lets transfers through to a chip that may sleep.
TransferOnlyAwake ==
  /\ At("tx", "retOk") => wakeReg
  /\ At("tx", "retNoPm") => wakeReg \/ blind

\* The host acts on an ALLOW answer only if it is the chip's answer to the
\* request in progress, also when answers come after their time-out.  The one
\* exception: an answer to an earlier request was still to come when this one
\* was sent; nothing in the message tells the host which it answers.
SleepAgreed == At("wq", "slSet") /\ ~stale => chipOk

\* After an exception reported by oal_exception_submit no sleep and no wake-up
\* handshake begins, and the state is not overwritten except by the one that
\* was already in progress when the exception struck.
ExceptionStays ==
  [][devState = "EXCEPTION" =>
       /\ devState' = "EXCEPTION" \/ Waking \/ At("wq", "slSet")
       /\ \A p \in Threads : pc'[p] \in {"wakeSet", "slInit"} => pc'[p] = pc[p]]_vars

\* In quiet the host keeps asking the chip to sleep, however often the chip
\* refuses, misses a message or answers late.
Quiet == /\ enable /\ votes = {} /\ devState = "DISALLOW"
         /\ \A p \in Callers \cup {"exc"} : At(p, "idle")
KeepsAsking == <>[]Quiet => []<>At("wq", "slSend")

=============================================================================
