------------------------------ MODULE StaConn ------------------------------
(***************************************************************************)
(* The connection of a station to an access point: join, authentication,   *)
(* association, their retries and time-outs, the end of a connection, and  *)
(* the reports to the host (wifi/driver/hi3881/mac/hmac: hmac_mgmt_sta.c,  *)
(* hmac_sme_sta.c, hmac_fsm.c, parts of hmac_config.c).  One event task    *)
(* runs all handlers; a thread of the host posts one request at a time and *)
(* waits for it; the kernel's timer runs beside both.  The host itself is  *)
(* external.  Bounds: MaxConnects, MaxFailures; MaxAuth, MaxAsoc and       *)
(* MaxReject are 3, 5 and 10 in the code.                                  *)
(***************************************************************************)
EXTENDS Naturals, Sequences, FiniteSets, FiniteSetsExt

CONSTANTS
  Aps,
  MaxAuth, MaxAsoc, MaxReject,   \* MAX_AUTH_CNT, MAX_ASOC_CNT, MAX_ASOC_REJECT_CNT
  MaxConnects,                   \* bound on the connects the host asks for
  MaxFailures                    \* bound on failed allocations and sends

VARIABLES
  state,        \* vap_state
  user,         \* the user of assoc_vap_id: {} or {its address}
  joined,       \* auc_bssid: {} or {an address}
  authMode,     \* auth_mode: "auto" or another
  authCnt, asocCnt,
  rejected,     \* pre_assoc_status = MAC_REJECT_TEMP
  mgmtTimer,
  ieBuf,        \* puc_asoc_req_ie_buff, or NoBuf
  live,         \* the allocated ones
  reports,      \* events to the host that are queued
  req,          \* the request of the host's thread, or NoReq
  host,         \* "idle", "connecting" or "connected"
  connects, failures,
  dropped       \* history: the device's disassociation event has deleted a user: "no",
                \* "now" until one is added again, "once" from then on

attempt == <<authMode, authCnt, asocCnt, rejected>>
buffers == <<ieBuf, live>>
sta == <<state, user, joined, attempt, mgmtTimer, buffers, reports, req, host, connects, failures,
         dropped>>

Waits == {"WAIT_AUTH_SEQ2", "WAIT_AUTH_SEQ4", "WAIT_ASOC"}
States == {"FAKE_UP", "WAIT_SCAN", "SCAN_COMP", "JOIN_COMP", "AUTH_COMP", "UP"} \cup Waits
Modes == {"auto", "fixed"}
NoBuf == 0
Buffers == 1..MaxConnects + 1
Addr == {{}} \cup { {a} : a \in Aps }
Kinds == {"up", "failed", "gone"}
Report == [kind : Kinds, buf : Buffers \cup {NoBuf}]
NoReq == [kind |-> "none", ap |-> {}, mode |-> "auto"]
Request == [kind : {"none", "connect", "kick"}, ap : Addr, mode : Modes]
Off == [registered |-> FALSE, armed |-> FALSE, firing |-> FALSE, events |-> 0]

StaTypeOK ==
  /\ state \in States /\ user \in Addr /\ joined \in Addr
  /\ authMode \in Modes /\ authCnt \in Nat /\ asocCnt \in Nat /\ rejected \in BOOLEAN
  /\ mgmtTimer \in [registered : BOOLEAN, armed : BOOLEAN, firing : BOOLEAN, events : Nat]
  /\ ieBuf \in Buffers \cup {NoBuf} /\ live \subseteq Buffers
  /\ reports \in Seq(Report) /\ req \in Request
  /\ host \in {"idle", "connecting", "connected"}
  /\ connects \in 0..MaxConnects /\ failures \in 0..MaxFailures /\ dropped \in {"no", "now", "once"}

StaInit ==
  /\ state = "FAKE_UP" /\ user = {} /\ joined = {}
  /\ authMode = "auto" /\ authCnt = 0 /\ asocCnt = 0 /\ rejected = FALSE
  /\ mgmtTimer = Off /\ ieBuf = NoBuf /\ live = {}
  /\ reports = <<>> /\ req = NoReq /\ host = "idle" /\ connects = 0 /\ failures = 0
  /\ dropped = "no"

Fails == failures < MaxFailures /\ failures' = failures + 1
Works == UNCHANGED failures

----------------------------------------------------------------------------
(* The timer: a create keeps the id of a registered one, and with it the   *)
(* expiry that is queued; a destroyed id is not found any more.            *)

Destroyed(t) == [t EXCEPT !.registered = FALSE, !.armed = FALSE, !.events = 0]
Created(t) == [t EXCEPT !.registered = TRUE, !.armed = TRUE]

MgmtExpires ==
  /\ mgmtTimer.armed /\ ~mgmtTimer.firing
  /\ mgmtTimer' = [mgmtTimer EXCEPT !.armed = FALSE, !.firing = TRUE]
  /\ UNCHANGED <<state, user, dropped, joined, attempt, buffers, reports, req, host, connects,
                 failures>>

\* frw_timer_timeout_proc_event, which reads the id when it runs
MgmtPosts ==
  /\ mgmtTimer.firing
  /\ \/ /\ mgmtTimer.registered /\ Works
        /\ mgmtTimer' = [mgmtTimer EXCEPT !.firing = FALSE, !.events = @ + 1]
     \/ /\ IF mgmtTimer.registered THEN Fails ELSE Works      \* no event, or one nobody finds
        /\ mgmtTimer' = [mgmtTimer EXCEPT !.firing = FALSE]
  /\ UNCHANGED <<state, user, dropped, joined, attempt, buffers, reports, req, host, connects>>

----------------------------------------------------------------------------
(* The steps of an attempt.  Each takes the timer as the handler has left  *)
(* it and sets state, user, mgmtTimer, failures, and where it touches      *)
(* them the buffers and the reports.                                       *)

\* hmac_mgmt_encap_auth_req adds the access point as the user, unless there is one
UserFor(ap) == IF user = {} THEN ap ELSE user

\* hmac_sta_wait_auth in JOIN_COMP; a failure is reported to the device only
SendAuth(t, ap) ==
  /\ \/ /\ Works /\ state' = "WAIT_AUTH_SEQ2" /\ user' = UserFor(ap) /\ mgmtTimer' = Created(t)
     \/ /\ Fails /\ mgmtTimer' = t
        /\ \/ state' = "JOIN_COMP" /\ user' \in {user, UserFor(ap)}    \* no buffer, not sent
           \/ state' = "FAKE_UP" /\ user = {} /\ user' = {}            \* no user
  /\ dropped' = IF dropped = "now" /\ user' # {} THEN "once" ELSE dropped

\* hmac_sta_wait_asoc in AUTH_COMP: the buffer of an earlier request is freed; what a
\* first request that finds no memory leaves, a repeated one frees.  Without a user
\* nothing is sent, and no timer runs either.
SendAsoc(t, first) ==
  LET others == live \ {ieBuf}
  IN \/ /\ Works /\ user # {} /\ others # Buffers
        /\ state' = "WAIT_ASOC" /\ mgmtTimer' = Created(t)
        /\ ieBuf' = Min(Buffers \ others) /\ live' = others \cup {ieBuf'}
     \/ /\ Fails \/ (Works /\ user = {})
        /\ state' = "AUTH_COMP" /\ mgmtTimer' = t
        /\ \/ ieBuf' = NoBuf /\ live' = others
           \/ first /\ failures' # failures /\ UNCHANGED buffers

\* hmac_report_connect_failed_result: the report takes the buffer along
ReportFailed_Kept ==                     \* variant: the VAP keeps the buffer as well
  /\ UNCHANGED buffers /\ reports' = Append(reports, [kind |-> "failed", buf |-> ieBuf])
ReportFailed ==
  /\ ieBuf' = NoBuf
  /\ \/ reports' = Append(reports, [kind |-> "failed", buf |-> ieBuf]) /\ UNCHANGED live
     \/ failures' # failures /\ live' = live \ {ieBuf} /\ UNCHANGED reports

\* hmac_user_del
DelUser_Kept == UNCHANGED <<user, dropped>>     \* variant: the user stays
DelUser == (user' = {} \/ (failures' # failures /\ user' = user)) /\ UNCHANGED dropped

\* the end of an attempt
GiveUp(t) ==
  /\ state' = "FAKE_UP" /\ mgmtTimer' = t
  /\ Works \/ Fails
  /\ DelUser /\ ReportFailed

\* an attempt more
Counted_Not(cnt) == cnt                  \* variant: the retries are not counted
Counted(cnt) == cnt + 1

\* hmac_handle_auth_rsp_sta, not successful
AuthFailed(t, unsupported) ==
  IF (unsupported \/ authCnt >= MaxAuth) /\ authMode = "auto"
  THEN /\ authMode' = "fixed" /\ authCnt' = 0 /\ SendAuth(t, joined)
       /\ UNCHANGED <<buffers, reports>>
  ELSE IF authCnt < MaxAuth
  THEN /\ authCnt' = Counted(authCnt) /\ SendAuth(t, joined)
       /\ UNCHANGED <<authMode, buffers, reports>>
  ELSE GiveUp(t) /\ UNCHANGED <<authMode, authCnt>>

\* the same, successful
Authenticated(t) == asocCnt' = 1 /\ SendAsoc(t, TRUE) /\ UNCHANGED <<user, dropped, reports>>

\* hmac_handle_asoc_rsp_sta, not successful, with cnt attempts made
AsocFailed(t, cnt, temporarily) ==
  IF cnt >= (IF temporarily THEN MaxReject ELSE MaxAsoc)
  THEN GiveUp(t) /\ asocCnt' = cnt
  ELSE asocCnt' = Counted(cnt) /\ SendAsoc(t, FALSE) /\ UNCHANGED <<user, dropped, reports>>

\* hmac_sta_wait_asoc_rx_complete_handle, hmac_asoc_rsp_success_proc
Associated(t) ==
  /\ state' = "UP" /\ mgmtTimer' = t /\ ieBuf' = NoBuf
  /\ \/ Works /\ reports' = Append(reports, [kind |-> "up", buf |-> ieBuf]) /\ UNCHANGED live
     \/ Fails /\ live' = live \ {ieBuf} /\ UNCHANGED reports
  /\ UNCHANGED <<user, dropped, asocCnt>>

----------------------------------------------------------------------------
(* What the event task receives.                                           *)

quiet == <<joined, rejected, req, host, connects>>

\* hmac_sta_wait_auth_seq2_rx
AuthSeq2(answer) ==
  /\ state = "WAIT_AUTH_SEQ2"
  /\ \/ answer = "open" /\ Authenticated(Destroyed(mgmtTimer)) /\ UNCHANGED <<authMode, authCnt>>
     \/ /\ answer = "shared"
        /\ \/ /\ Works /\ user # {} /\ state' = "WAIT_AUTH_SEQ4"
              /\ mgmtTimer' = Created(Destroyed(mgmtTimer))
           \/ (Fails \/ (Works /\ user = {})) /\ UNCHANGED <<state, mgmtTimer>>
        /\ UNCHANGED <<user, dropped, authMode, authCnt, asocCnt, buffers, reports>>
     \/ /\ answer \in {"refused", "unsupported"}
        /\ AuthFailed(Destroyed(mgmtTimer), answer = "unsupported") /\ UNCHANGED asocCnt
  /\ UNCHANGED quiet

\* hmac_sta_wait_auth_seq4_rx; any other answer waits for the time-out
AuthSeq4 ==
  /\ state = "WAIT_AUTH_SEQ4"
  /\ Authenticated(Destroyed(mgmtTimer))
  /\ UNCHANGED <<quiet, authMode, authCnt>>

\* hmac_sta_wait_asoc_rx
AsocRsp(from, answer) ==
  /\ state = "WAIT_ASOC" /\ rejected' = (answer = "temporarily")
  /\ IF answer = "ok" /\ user = {from}
     THEN \/ Associated(Destroyed(mgmtTimer))
          \/ AsocFailed(Destroyed(mgmtTimer), MaxAsoc, FALSE)    \* no protocol in common
     ELSE UNCHANGED <<state, user, dropped, asocCnt, mgmtTimer, buffers, reports, failures>>
  /\ UNCHANGED <<joined, authMode, authCnt, req, host, connects>>

\* hmac_mgmt_timeout_sta
MgmtTimeout ==
  /\ mgmtTimer.events > 0
  /\ LET t == Destroyed(mgmtTimer)
     IN CASE state \in {"WAIT_AUTH_SEQ2", "WAIT_AUTH_SEQ4"} ->
               AuthFailed(t, FALSE) /\ UNCHANGED asocCnt
          [] state = "WAIT_ASOC" ->
               AsocFailed(t, asocCnt, rejected) /\ UNCHANGED <<authMode, authCnt>>
          [] OTHER -> /\ mgmtTimer' = t
                      /\ UNCHANGED <<state, user, dropped, authMode, authCnt, asocCnt, buffers,
                                     reports, failures>>
  /\ UNCHANGED quiet

\* the end of a connection or an attempt that is reported as such; the timer is not
\* touched, the buffer stays for the next request
Ends ==
  /\ state' = "FAKE_UP"
  /\ Works \/ Fails
  /\ DelUser
  /\ \/ reports' = Append(reports, [kind |-> "gone", buf |-> NoBuf])
     \/ failures' # failures /\ UNCHANGED reports
  /\ UNCHANGED <<joined, attempt, mgmtTimer, buffers, connects>>

\* hmac_sta_rx_deauth_req, accepted, and the end of an SA query
Deauth(from) == state = "UP" /\ user = {from} /\ Ends /\ UNCHANGED <<req, host>>

\* hmac_proc_disasoc_misc_event: the device has lost the access point
Lost_Any == Ends /\ UNCHANGED <<req, host>>     \* variant: whether there is a user or not
Lost == user # {} /\ Ends /\ UNCHANGED <<req, host>>

\* hmac_mgmt_send_disasoc_deauth_event, for the disassociation of the user (for another
\* address and a deauthentication only frames are sent): the user of a station is deleted
\* too, but its state stays and nobody is told
DeviceDisassoc ==
  /\ user # {}
  /\ \/ (Works \/ Fails) /\ user' = {} /\ dropped' = "now"
     \/ Fails /\ UNCHANGED <<user, dropped>>
  /\ UNCHANGED <<state, joined, attempt, mgmtTimer, buffers, reports, req, host, connects>>

\* hmac_fsm_handle_scan_req, the states that a scan changes; in UP it runs behind
ScanFrom_Up == {"FAKE_UP", "SCAN_COMP", "JOIN_COMP", "AUTH_COMP", "UP"}    \* variant
ScanFrom == {"FAKE_UP", "SCAN_COMP", "JOIN_COMP", "AUTH_COMP"}

\* hmac_scan_proc_scan_req_event, hmac_scan_proc_scan_comp_event_vap (or its time-out)
ScanState(from, to) ==
  /\ state \in from /\ state' = to
  /\ UNCHANGED <<user, dropped, joined, attempt, mgmtTimer, buffers, reports, req, host, connects,
                 failures>>
ScanStart == ScanState(ScanFrom, "WAIT_SCAN")
ScanEnd == ScanState({"WAIT_SCAN"}, "SCAN_COMP")

----------------------------------------------------------------------------
(* The host (external) and its requests.  It is told the end of a          *)
(* connection by a report, and that a request failed by its result.        *)

Refused == IF host = "connecting" THEN "idle" ELSE host

\* wal_cfg80211_connect, until the request is queued
Connect(ap, mode) ==
  /\ host = "idle" /\ req = NoReq /\ connects < MaxConnects
  /\ host' = "connecting" /\ req' = [kind |-> "connect", ap |-> {ap}, mode |-> mode]
  /\ connects' = connects + 1
  /\ UNCHANGED <<state, user, dropped, joined, attempt, mgmtTimer, buffers, reports, failures>>

\* hmac_config_connect; in other states than the two the request succeeds and does nothing
JoinStates == {"FAKE_UP", "SCAN_COMP"}
ConnectHandled ==
  /\ req.kind = "connect" /\ req' = NoReq
  /\ \/ /\ state \in JoinStates /\ joined' = req.ap /\ authMode' = req.mode /\ authCnt' = 1
        /\ SendAuth(mgmtTimer, req.ap) /\ UNCHANGED host
     \/ /\ state \notin JoinStates /\ authMode' = req.mode /\ Works
        /\ UNCHANGED <<state, user, dropped, joined, authCnt, mgmtTimer, host>>
     \/ /\ authMode' \in {authMode, req.mode} /\ host' = Refused
        /\ \/ Works /\ UNCHANGED joined              \* not in the results of the scan
           \/ Fails /\ joined' \in {joined} \cup (IF state \in JoinStates THEN {req.ap} ELSE {})
        /\ UNCHANGED <<state, user, dropped, authCnt, mgmtTimer>>
  /\ UNCHANGED <<asocCnt, rejected, buffers, reports, connects>>

\* wal_cfg80211_disconnect, in the thread of the host
Disconnect ==
  /\ host # "idle" /\ req = NoReq
  /\ IF user = {}
     THEN host' = Refused /\ UNCHANGED req
     ELSE req' = [kind |-> "kick", ap |-> user, mode |-> "auto"] /\ UNCHANGED host
  /\ UNCHANGED <<state, user, dropped, joined, attempt, mgmtTimer, buffers, reports, connects,
                 failures>>

\* hmac_config_kick_user_vap
KickHandled ==
  /\ req.kind = "kick" /\ req' = NoReq
  /\ \/ user = req.ap /\ Ends /\ UNCHANGED host
     \/ /\ user # req.ap /\ state' = "FAKE_UP" /\ host' = Refused
        /\ UNCHANGED <<user, dropped, joined, attempt, mgmtTimer, buffers, reports, connects,
                       failures>>

\* wal_asoc_comp_proc_sta, wal_disasoc_comp_proc_sta
Deliver ==
  /\ reports # <<>> /\ reports' = Tail(reports)
  /\ live' = live \ {Head(reports).buf}
  /\ host' = IF Head(reports).kind = "up" THEN "connected" ELSE "idle"
  /\ UNCHANGED <<state, user, dropped, joined, attempt, mgmtTimer, ieBuf, req, connects, failures>>

----------------------------------------------------------------------------
Peer ==
  \/ (\E x \in {"open", "shared", "refused", "unsupported"} : AuthSeq2(x)) \/ AuthSeq4
  \/ \E a \in Aps : Deauth(a) \/ \E x \in {"ok", "temporarily", "refused"} : AsocRsp(a, x)
Scans == ScanStart \/ ScanEnd
Asks == Disconnect \/ \E a \in Aps, m \in Modes : Connect(a, m)
Events == ConnectHandled \/ KickHandled \/ Deliver \/ MgmtTimeout
Clock == MgmtExpires \/ MgmtPosts

StaNext == Peer \/ Lost \/ DeviceDisassoc \/ Scans \/ Asks \/ Events \/ Clock
StaSpec == StaInit /\ [][StaNext]_sta

\* The event task handles what is queued, the kernel's timer runs; no access point has
\* to answer, and the host need not ask.
StaFairness == WF_sta(Events) /\ WF_sta(MgmtExpires) /\ WF_sta(MgmtPosts)
StaLiveSpec == StaSpec /\ StaFairness

----------------------------------------------------------------------------
(* Properties                                                              *)

Trying == state \in Waits

\* The buffer of the association request has one owner, the VAP or a report to the host,
\* through retries, time-outs and reports that are lost, and is freed exactly once
\* (hmac_mgmt_sta.c:846, "freed only after it was reported to the kernel").
IeOwned ==
  LET owned == { i \in DOMAIN reports : reports[i].buf # NoBuf }
  IN /\ live = ({ieBuf} \ {NoBuf}) \cup { reports[i].buf : i \in owned }
     /\ \A i, j \in owned : reports[i].buf # ieBuf /\ (i # j => reports[i].buf # reports[j].buf)

\* Whoever waits for an access point, or is connected, has it as its user, and unless a
\* deletion has failed it is the one of the last join; only the device's disassociation
\* event takes it away, and then nobody else takes its place.
OwnAp ==
  Trying \/ state = "UP" =>
    IF dropped = "now" THEN user = {} ELSE user # {} /\ (failures = 0 => user = joined)

lossy == failures > 0 \/ dropped # "no"

\* When nothing has failed and no user was dropped, what the host knows, with the reports
\* under way, is what is: after any race of a disconnect, a lost access point, a time-out
\* and stale reports.
HostAgrees ==
  ~lossy =>
    (state = "UP" <=>
       IF reports = <<>> THEN host = "connected" ELSE reports[Len(reports)].kind = "up")

\* StaConnAbs: every end is reported once and in order, unless something fails or the
\* user was dropped.
Conn == INSTANCE StaConnAbs WITH
  phase <- IF Trying THEN "trying" ELSE IF state = "UP" THEN "up" ELSE "down",
  told  <- [i \in DOMAIN reports |-> reports[i].kind]
ConnContract == Conn!Spec

\* A host that waits for an attempt under way gets an answer when no access point says a
\* word: the time-outs count the attempts down.
RequestAnswered == (host = "connecting" /\ Trying /\ ~lossy) ~> (host # "connecting" \/ lossy)
=============================================================================
