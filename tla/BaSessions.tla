----------------------------- MODULE BaSessions -----------------------------
(***************************************************************************)
(* The block ack sessions of a device: their set-up, refusal and end       *)
(* (mac/hmac/hmac_mgmt_bss_comm.c, mac/hmac/hmac_blockack.c), with the     *)
(* counts of sessions and the table of the LUT indices of the receiving    *)
(* ones.  Everything runs on the event task but the first request of a     *)
(* sending session, which the task that transmits the frame makes: it      *)
(* tests and sends, and installs the session afterwards; the event task    *)
(* can handle the answer in between.  Bounds: MaxToken, MaxFailures.         *)
(***************************************************************************)
EXTENDS Naturals, FiniteSets, FiniteSetsExt

CONSTANTS
  Users, Tids,
  RxUse, TxUse,  \* bound: the pairs that may have a receiving, a sending session
  MaxRx,         \* WLAN_MAX_RX_BA and HAL_MAX_BA_LUT_SIZE
  MaxTx,         \* WLAN_MAX_TX_BA
  MaxAttempts,   \* HMAC_ADDBA_EXCHANGE_ATTEMPTS
  MaxToken,      \* bound on ba_dialog_token
  MaxFailures      \* bound on failed allocations and sends

VARIABLES
  rx,            \* ba_rx_info: None, or the policy and the LUT index
  rxNum, luts,   \* rx_ba_session_num; the bits of auc_rx_ba_lut_idx_table
  tx, txNum,     \* ba_tx_info: None, or state and token; tx_ba_session_num
  timer,         \* addba_timer: "off", "armed", or its expiry is "queued"
  attempts, token,     \* tx_ba_attemps, ba_dialog_token
  pending,       \* a request sent that is not installed yet, or None
  asked,         \* tokens that can still be answered, by session
  failed

rxVars == <<rx, rxNum, luts>>
txVars == <<tx, txNum, timer, attempts>>
ba == <<rxVars, txVars, token, pending, asked, failed>>

Sessions == Users \X Tids
None == [none |-> TRUE]
Lut == 0..MaxRx - 1
NoLut == MaxRx                   \* DMAC_INVALID_BA_LUT_INDEX
Policy == {"immediate", "delayed"}
Token == 0..MaxToken

BaTypeOK ==
  /\ \A s \in Sessions :
       /\ rx[s] = None \/ rx[s] \in [policy : Policy, lut : Lut \cup {NoLut}]
       /\ tx[s] = None \/ tx[s] \in [state : {"inprogress", "complete"}, token : Token]
       /\ timer[s] \in {"off", "armed", "queued"} /\ attempts[s] \in 0..MaxAttempts
       /\ asked[s] \subseteq Token
  /\ rxNum \in Nat /\ txNum \in Nat /\ luts \subseteq Lut
  /\ token \in Token /\ failed \in 0..MaxFailures
  /\ pending = None \/ pending \in [session : Sessions, token : Token]

BaInit ==
  /\ rx = [s \in Sessions |-> None] /\ rxNum = 0 /\ luts = {}
  /\ tx = [s \in Sessions |-> None] /\ txNum = 0
  /\ timer = [s \in Sessions |-> "off"] /\ attempts = [s \in Sessions |-> 0]
  /\ token = 0 /\ pending = None /\ asked = [s \in Sessions |-> {}] /\ failed = 0

Failure == failed < MaxFailures /\ failed' = failed + 1
NoFailure == UNCHANGED failed
Less(n) == IF n = 0 THEN 0 ELSE n - 1      \* hmac_rx_ba_session_decr

----------------------------------------------------------------------------
(* Receiving sessions                                                      *)

\* hmac_ba_reset_rx_handle, on the count and the table
LutsWithout_Kept(table, old) == table         \* variant: the index is not given back
LutsWithout(table, old) ==
  IF old.policy = "immediate" /\ old.lut # NoLut THEN table \ {old.lut} ELSE table

\* what is left when a session there is, if any, has been reset for a new one
NumAfterReset(s) == IF rx[s] = None THEN rxNum ELSE Less(rxNum)
LutsAfterReset(s) == IF rx[s] = None THEN luts ELSE LutsWithout(luts, rx[s])

ResetRx(s) ==
  /\ rx' = [rx EXCEPT ![s] = None]
  /\ rxNum' = Less(rxNum)
  /\ luts' = LutsWithout(luts, rx[s])

\* hmac_mgmt_rx_addba_req, without memory for the session
RxAddbaReqNoMemory(s) ==
  /\ Failure
  /\ rx' = [rx EXCEPT ![s] = None]
  /\ rxNum' = NumAfterReset(s) /\ luts' = LutsAfterReset(s)
  /\ UNCHANGED <<txVars, token, pending, asked>>

\* hmac_mgmt_check_set_rx_ba_ok, when the session counts already: a refused one has
\* the index of the cleared structure, 0, unless the table was full
Check(policy, num, table) ==
  CASE policy = "delayed" \/ num > MaxRx -> [ok |-> FALSE, lut |-> 0]
    [] Lut \subseteq table               -> [ok |-> FALSE, lut |-> NoLut]
    [] OTHER                             -> [ok |-> TRUE, lut |-> Min(Lut \ table)]

\* the response is not sent
RefusedCount_Kept(num) == num + 1    \* variant: a refused session stays counted
RefusedCount(num) == Less(num + 1)

RxAddbaReq(s, policy) ==
  LET num   == NumAfterReset(s)
      table == LutsAfterReset(s)
      check == Check(policy, num + 1, table)
      new   == [policy |-> policy, lut |-> check.lut]
      taken == IF check.ok THEN table \cup {check.lut} ELSE table
  IN /\ \/ /\ check.ok /\ NoFailure
           /\ rx' = [rx EXCEPT ![s] = new] /\ rxNum' = num + 1 /\ luts' = taken
        \/ /\ (~check.ok /\ NoFailure) \/ (check.ok /\ Failure)
           /\ rx' = [rx EXCEPT ![s] = None] /\ rxNum' = RefusedCount(num)
           /\ luts' = LutsWithout(taken, new)
     /\ UNCHANGED <<txVars, token, pending, asked>>

\* hmac_mgmt_rx_delba from the sender, or hmac_rx_bar_delba, which sends one and does
\* nothing when that fails
RxEnds(s) ==
  /\ rx[s] # None /\ ResetRx(s)
  /\ UNCHANGED <<txVars, token, pending, asked, failed>>

----------------------------------------------------------------------------
(* Sending sessions                                                        *)

\* hmac_ba_reset_tx_handle
ResetTx(s) ==
  /\ tx' = [tx EXCEPT ![s] = None] /\ timer' = [timer EXCEPT ![s] = "off"]
  /\ txNum' = IF tx[s] = None THEN txNum ELSE Less(txNum)

\* hmac_mgmt_tx_addba_req up to the event; the answer can come from now on
SendRequest(s) ==
  /\ token < MaxToken /\ token' = token + 1
  /\ \/ Failure /\ UNCHANGED <<pending, asked>>
     \/ /\ NoFailure
        /\ pending' = [session |-> s, token |-> token + 1]
        /\ asked' = [asked EXCEPT ![s] = @ \cup {token + 1}]

\* hmac_tid_need_ba_session, in the task of the frame
NeedsSession(s) == tx[s] = None /\ txNum < MaxTx /\ attempts[s] < MaxAttempts

XmitRequest(s) ==
  /\ pending = None /\ NeedsSession(s)
  /\ attempts' = [attempts EXCEPT ![s] = @ + 1]
  /\ SendRequest(s)
  /\ UNCHANGED <<rxVars, tx, txNum, timer>>

\* hmac_create_ba_event: nothing is tested; here the two halves are one step
CreateBa(s) ==
  /\ pending = None
  /\ SendRequest(s)
  /\ UNCHANGED <<rxVars, txVars>>

\* hmac_mgmt_set_ba_tx_info: a session there is already is reset
CountAfter_NoReset(s) == txNum + 1       \* variant: the old session is overwritten
CountAfter(s) == (IF tx[s] = None THEN txNum ELSE Less(txNum)) + 1

TimerAfter_None(s) == "off"              \* variant: no time-out for the request
TimerAfter(s) == "armed"

Install ==
  /\ pending # None /\ pending' = None
  /\ LET s == pending.session
     IN \/ Failure /\ ResetTx(s)
        \/ /\ NoFailure
           /\ tx' = [tx EXCEPT ![s] = [state |-> "inprogress", token |-> pending.token]]
           /\ txNum' = CountAfter(s)
           /\ timer' = [timer EXCEPT ![s] = TimerAfter(s)]
  /\ UNCHANGED <<rxVars, attempts, token, asked>>

\* hmac_mgmt_tx_delba: without memory, or when it cannot be sent, nothing happens
TxDelba(s) == (Failure /\ UNCHANGED <<tx, txNum, timer>>) \/ (NoFailure /\ ResetTx(s))

\* hmac_mgmt_rx_addba_rsp with token n; an event that cannot be allocated leaves the
\* session in progress, its timer destroyed
RxAddbaRsp(s, n, accepted) ==
  /\ n \in asked[s] /\ asked' = [asked EXCEPT ![s] = @ \ {n}]
  /\ IF tx[s] = None
     THEN TxDelba(s) /\ UNCHANGED attempts
     ELSE IF tx[s].state = "complete" \/ tx[s].token # n
     THEN NoFailure /\ UNCHANGED txVars
     ELSE \/ Failure /\ timer' = [timer EXCEPT ![s] = "off"] /\ UNCHANGED <<tx, txNum, attempts>>
          \/ ~accepted /\ NoFailure /\ ResetTx(s) /\ UNCHANGED attempts
          \/ /\ accepted /\ NoFailure
             /\ tx' = [tx EXCEPT ![s].state = "complete"]
             /\ timer' = [timer EXCEPT ![s] = "off"] /\ attempts' = [attempts EXCEPT ![s] = 0]
             /\ UNCHANGED txNum
  /\ UNCHANGED <<rxVars, token, pending>>

TimerExpires(s) ==
  /\ timer[s] = "armed" /\ timer' = [timer EXCEPT ![s] = "queued"]
  /\ UNCHANGED <<rxVars, tx, txNum, attempts, token, pending, asked, failed>>

\* hmac_mgmt_tx_addba_timeout
AddbaTimeout(s) ==
  /\ timer[s] = "queued"
  /\ \/ NoFailure /\ ResetTx(s)
     \/ Failure /\ timer' = [timer EXCEPT ![s] = "off"] /\ UNCHANGED <<tx, txNum>>
  /\ UNCHANGED <<rxVars, attempts, token, pending, asked>>

\* hmac_mgmt_rx_delba from the receiver; or hmac_del_ba_event, or aggregation switched
\* off (hmac_check_if_mgmt_tx_action)
TxEnds(s) ==
  /\ tx[s] # None /\ ResetTx(s)
  /\ UNCHANGED <<rxVars, attempts, token, pending, asked, failed>>

\* hmac_tid_clear: the user leaves, or authenticates again
TidClear(u) ==
  LET old == { s \in Sessions : s[1] = u /\ rx[s] # None }
      sent == { s \in Sessions : s[1] = u /\ tx[s] # None }
  IN /\ old \cup sent # {}
     /\ rx' = [s \in Sessions |-> IF s[1] = u THEN None ELSE rx[s]]
     /\ luts' = luts \ { rx[s].lut : s \in old }
     /\ rxNum' = IF rxNum < Cardinality(old) THEN 0 ELSE rxNum - Cardinality(old)
     /\ tx' = [s \in Sessions |-> IF s[1] = u THEN None ELSE tx[s]]
     /\ timer' = [s \in Sessions |-> IF s[1] = u THEN "off" ELSE timer[s]]
     /\ txNum' = IF txNum < Cardinality(sent) THEN 0 ELSE txNum - Cardinality(sent)
     /\ UNCHANGED <<attempts, token, pending, asked, failed>>

----------------------------------------------------------------------------
RxStep == \E s \in RxUse :
  RxAddbaReqNoMemory(s) \/ (\E p \in Policy : RxAddbaReq(s, p)) \/ RxEnds(s)
TxStep == \E s \in TxUse :
  XmitRequest(s) \/ CreateBa(s) \/ TxEnds(s) \/ (\E n \in Token, a \in BOOLEAN : RxAddbaRsp(s, n, a))
TimerStep == \E s \in TxUse : TimerExpires(s) \/ AddbaTimeout(s)

BaNext == RxStep \/ TxStep \/ Install \/ TimerStep \/ \E u \in Users : TidClear(u)
BaSpec == BaInit /\ [][BaNext]_ba

\* The task that sends finishes its request, timers expire and are handled; no peer
\* has to answer.
BaFairness == WF_ba(Install) /\ WF_ba(TimerStep)
BaLiveSpec == BaSpec /\ BaFairness

----------------------------------------------------------------------------
(* Properties                                                              *)

\* The count that is incremented before the check and decremented by every reset is
\* the number of sessions, whatever was refused, replaced or not sent.
RxCountExact == rxNum = Cardinality({ s \in Sessions : rx[s] # None }) /\ rxNum <= MaxRx

\* The same for the sending side, whose sessions two tasks create and several events end.
TxCountExact == txNum = Cardinality({ s \in Sessions : tx[s] # None })

\* No LUT index is lost: one that is taken belongs to a session.
NoLutLost == \A l \in luts : \E s \in Sessions : rx[s] # None /\ rx[s].lut = l

\* No two sessions have one LUT index (hmac_blockack.c:807, "if lut index is valid, del
\* lut index alloc before").
LutsUnique ==
  \A s, t \in Sessions : s # t /\ rx[s] # None /\ rx[t] # None => rx[s].lut # rx[t].lut

\* A request for a session does not stay without a result, when no allocation or send
\* fails: an answer, or the end of its timer, decides.
RequestsEnd ==
  \A s \in TxUse :
    (tx[s] # None /\ tx[s].state = "inprogress")
      ~> (tx[s] = None \/ tx[s].state = "complete" \/ failed > 0)
=============================================================================
