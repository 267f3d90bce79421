--------------------------- MODULE StaConn_proofs ---------------------------
(***************************************************************************)
(* Proofs about StaConn for any access points, limits of attempts, number  *)
(* of connects and failures: types and the user, the buffer, what the host *)
(* knows, the contract with it, and that attempts come to an end.          *)
(***************************************************************************)
EXTENDS StaConn, NumberLemmas, SequenceTheorems, TLAPS

\* the bounds are numbers
StaConstants == MaxConnects \in Nat /\ MaxFailures \in Nat /\ MaxAsoc \in Nat

Timer == [registered : BOOLEAN, armed : BOOLEAN, firing : BOOLEAN, events : Nat]

LEMMA TimerType ==
  ASSUME NEW t \in Timer
  PROVE  /\ Destroyed(t) \in Timer /\ Created(t) \in Timer
         /\ [t EXCEPT !.armed = FALSE, !.firing = TRUE] \in Timer
         /\ [t EXCEPT !.firing = FALSE] \in Timer
         /\ t.events + 1 \in Nat
         /\ \A n \in Nat : [t EXCEPT !.firing = FALSE, !.events = n] \in Timer
<1>1. t.events + 1 \in Nat /\ 0 \in Nat
  BY DEF Timer
<1>2. QED BY <1>1 DEF Timer, Destroyed, Created

LEMMA FailuresType ==
  ASSUME StaConstants, failures \in 0..MaxFailures, Fails \/ Works
  PROVE  /\ failures' \in 0..MaxFailures /\ failures' >= failures
         /\ Fails => failures' > 0
         /\ failures' # failures => failures' > 0
BY DEF StaConstants, Fails, Works

----------------------------------------------------------------------------
(* What the helpers do to state, user, timer and failures.                 *)

\* the mark of a user that was dropped goes only when one is added
DropMove ==
  \/ dropped' = dropped /\ (dropped = "now" => user' \in {user, {}})
  \/ dropped' = "once" /\ dropped = "now"
  \/ dropped' = "now" /\ user' = {}

LEMMA SendAuthDoes ==
  ASSUME StaConstants, StaTypeOK, NEW t \in Timer, NEW ap \in Addr, SendAuth(t, ap)
  PROVE  /\ mgmtTimer' \in Timer /\ failures' \in 0..MaxFailures
         /\ \/ state' = "WAIT_AUTH_SEQ2" /\ user' = UserFor(ap) /\ failures' = failures
            \/ state' \in {"JOIN_COMP", "FAKE_UP"} /\ user' \in {user, UserFor(ap)} /\ failures' > 0
         /\ user' \in Addr /\ DropMove
<1>1. failures \in 0..MaxFailures /\ user \in Addr
  BY DEF StaTypeOK
<1>2. user' \in {user, UserFor(ap)} /\ user' \in Addr
  BY <1>1 DEF SendAuth, UserFor
<1>3. (Works \/ Fails) /\ mgmtTimer' \in {t, Created(t)}
  BY DEF SendAuth
<1>4. DropMove
  BY DEF SendAuth, DropMove
<1>5. CASE Works /\ state' = "WAIT_AUTH_SEQ2" /\ user' = UserFor(ap)
  BY <1>1, <1>2, <1>3, <1>4, <1>5, TimerType DEF Works
<1>6. CASE Fails /\ state' \in {"JOIN_COMP", "FAKE_UP"}
  BY <1>1, <1>2, <1>3, <1>4, <1>6, TimerType, FailuresType
<1>7. QED BY <1>5, <1>6 DEF SendAuth

LEMMA FreeBuffer ==
  ASSUME StaConstants, NEW others, others # Buffers, others \subseteq Buffers
  PROVE  Min(Buffers \ others) \in Buffers \ others
BY LowestIndex, MaxConnects + 1 \in Nat, Buffers \ others \in SUBSET (0..(MaxConnects + 1)) DEF Buffers, StaConstants

LEMMA SendAsocDoes ==
  ASSUME StaConstants, StaTypeOK, NEW t \in Timer, NEW first \in BOOLEAN, SendAsoc(t, first)
  PROVE  /\ mgmtTimer' \in Timer /\ failures' \in 0..MaxFailures
         /\ \/ state' = "WAIT_ASOC" /\ failures' = failures
            \/ state' = "AUTH_COMP" /\ (failures' > 0 \/ user = {})
         /\ \/ /\ ieBuf' \in Buffers \ (live \ {ieBuf})
               /\ live' = (live \ {ieBuf}) \cup {ieBuf'}
            \/ ieBuf' = NoBuf /\ live' = live \ {ieBuf}
            \/ UNCHANGED <<ieBuf, live>>
<1>1. failures \in 0..MaxFailures /\ live \subseteq Buffers
  BY DEF StaTypeOK
<1> DEFINE others == live \ {ieBuf}
<1>2. CASE /\ Works /\ others # Buffers /\ state' = "WAIT_ASOC" /\ mgmtTimer' = Created(t)
           /\ ieBuf' = Min(Buffers \ others) /\ live' = others \cup {ieBuf'}
  <2>1. ieBuf' \in Buffers \ others
    BY <1>1, <1>2, FreeBuffer
  <2>2. QED BY <1>1, <1>2, <2>1, TimerType DEF Works
<1>3. CASE (Fails \/ (Works /\ user = {})) /\ state' = "AUTH_COMP" /\ mgmtTimer' = t
  <2>1. \/ ieBuf' = NoBuf /\ live' = others
        \/ UNCHANGED buffers
    BY <1>3 DEF SendAsoc
  <2>2. QED BY <1>1, <1>3, <2>1, FailuresType DEF buffers
<1>4. QED BY <1>2, <1>3, Zenon DEF SendAsoc

----------------------------------------------------------------------------
(* What an action can do to the buffers and reports, and to the connection *)
(* as the host and the access point know it.  Every invariant follows from *)
(* these two descriptions.                                                 *)

Tells(kind, buf) == reports' = Append(reports, [kind |-> kind, buf |-> buf])

BufMove ==
  \/ UNCHANGED <<ieBuf, live, reports>>
  \/ /\ ieBuf' \in Buffers \ (live \ {ieBuf}) /\ live' = (live \ {ieBuf}) \cup {ieBuf'}
     /\ UNCHANGED reports
  \/ ieBuf' = NoBuf /\ live' = live \ {ieBuf} /\ UNCHANGED reports
  \/ ieBuf' = NoBuf /\ live' = live /\ \E kind \in Kinds : Tells(kind, ieBuf)
  \/ Tells("gone", NoBuf) /\ UNCHANGED <<ieBuf, live>>
  \/ /\ reports # <<>> /\ reports' = Tail(reports)
     /\ live' = live \ {Head(reports).buf} /\ UNCHANGED ieBuf

Told(kind) == (\E buf \in Buffers \cup {NoBuf} : Tells(kind, buf)) \/ (lossy' /\ UNCHANGED reports)

Stays ==       \* includes a repeated request
  /\ Trying' = Trying /\ (state' = "UP") = (state = "UP")
  /\ UNCHANGED <<user, dropped, joined, reports, req, host>>
Rejoins ==     \* for a user that was dropped
  /\ Trying /\ Trying' /\ state' # "UP" /\ user = {} /\ user' = joined
  /\ UNCHANGED <<joined, reports, req, host>>
Drops ==
  /\ user' = {} /\ dropped' = "now"
  /\ UNCHANGED <<state, joined, reports, req, host>>
Begins ==
  /\ req.kind = "connect" /\ ~Trying /\ state # "UP"
  /\ state' = "WAIT_AUTH_SEQ2" /\ user' = UserFor(req.ap) /\ joined' = req.ap /\ req' = NoReq
  /\ UNCHANGED <<reports, host>>
FailsSilently ==
  /\ lossy' /\ ~Trying' /\ state' # "UP" /\ (failures' > 0 \/ user' = {})
  /\ req' \in {req, NoReq} /\ UNCHANGED <<reports, host>>
Succeeds ==
  /\ Trying /\ state' = "UP" /\ Told("up")
  /\ UNCHANGED <<user, dropped, joined, req, host>>
Stops(kind) ==
  /\ state' = "FAKE_UP" /\ (user' = {} \/ failures' > 0) /\ Told(kind)
  /\ UNCHANGED <<joined, host>>
Gives == Trying /\ Stops("failed") /\ UNCHANGED req
Leaves == user # {} /\ Stops("gone") /\ req' \in {req, NoReq}
Hears ==
  /\ reports # <<>> /\ reports' = Tail(reports)
  /\ host' = IF Head(reports).kind = "up" THEN "connected" ELSE "idle"
  /\ UNCHANGED <<state, user, dropped, joined, req>>
Requests ==
  /\ req'.ap # {}
  /\ \/ host = "idle" /\ host' = "connecting" /\ req'.kind = "connect"
     \/ host' = host /\ req'.kind = "kick" /\ req'.ap = user
  /\ UNCHANGED <<state, user, dropped, joined, reports>>
IsRefused ==
  /\ \/ host' = Refused /\ (state' = state \/ (state' = "FAKE_UP" /\ req.kind = "kick" /\ user # req.ap))
     \/ host' = host /\ state' = state
  /\ (joined' = joined \/ (failures' > 0 /\ joined' # {}))
  /\ (req' = NoReq \/ req' = req) /\ UNCHANGED <<user, dropped, reports>>

Move ==
  /\ failures' \in 0..MaxFailures /\ failures' >= failures /\ DropMove
  /\ \/ Stays \/ Rejoins \/ Drops \/ Begins \/ FailsSilently \/ Succeeds \/ Gives \/ Leaves
     \/ Hears \/ Requests \/ IsRefused

\* the types of what BufMove and Move do not describe
CtlType ==
  /\ state \in States /\ user \in Addr /\ joined \in Addr
  /\ authMode \in Modes /\ authCnt \in Nat /\ asocCnt \in Nat /\ rejected \in BOOLEAN
  /\ mgmtTimer \in Timer /\ req \in Request
  /\ host \in {"idle", "connecting", "connected"} /\ connects \in 0..MaxConnects

\* Who waits or is connected has a user, or it was dropped, and without failures it is the
\* one joined; a request names somebody, and nobody else becomes the user while a kick is
\* queued.
OwnIInv ==
  /\ Trying \/ state = "UP" => joined # {} /\ (dropped = "now" \/ user # {})
  /\ dropped = "now" => user = {}
  /\ failures = 0 => user = {} \/ (user = joined /\ (Trying \/ state = "UP"))
  /\ req.kind # "none" => req.ap # {}
  /\ failures = 0 /\ req.kind = "kick" =>
       user \in {req.ap, {}} /\ (Trying \/ state = "UP" => joined = req.ap)

LEMMA Constants ==
  /\ "WAIT_AUTH_SEQ2" \in States /\ "WAIT_AUTH_SEQ4" \in States /\ "WAIT_ASOC" \in States
  /\ "FAKE_UP" \in States /\ "WAIT_SCAN" \in States /\ "SCAN_COMP" \in States
  /\ "JOIN_COMP" \in States /\ "AUTH_COMP" \in States /\ "UP" \in States
  /\ {} \in Addr /\ NoReq \in Request /\ NoReq.kind = "none" /\ NoReq.ap = {}
BY DEF States, Waits, Addr, NoReq, Request, Modes

LEMMA Types == StaConstants /\ StaTypeOK =>
  /\ CtlType /\ mgmtTimer \in Timer /\ Destroyed(mgmtTimer) \in Timer
  /\ failures \in 0..MaxFailures /\ ieBuf \in Buffers \cup {NoBuf} /\ live \subseteq Buffers
  /\ dropped \in {"no", "now", "once"}
BY TimerType DEF CtlType, Timer, StaTypeOK

LEMMA SameCtl ==
  ASSUME StaConstants, StaTypeOK,
         UNCHANGED <<joined, authMode, authCnt, asocCnt, rejected, req, host, connects>>,
         mgmtTimer' \in Timer, state' \in States, user' \in Addr
  PROVE  CtlType'
BY Types DEF CtlType

----------------------------------------------------------------------------
(* The end of an attempt or a connection.                                  *)

LEMMA GiveUpDoes ==
  ASSUME StaConstants, StaTypeOK, Trying, NEW t \in Timer, GiveUp(t), UNCHANGED <<joined, req, host>>
  PROVE  /\ BufMove /\ Move
         /\ state' = "FAKE_UP" /\ mgmtTimer' \in Timer /\ user' \in Addr
<1>1. /\ failures' \in 0..MaxFailures /\ failures' >= failures
      /\ failures' # failures => failures' > 0 /\ lossy'
  BY Types, FailuresType DEF GiveUp, lossy
<1>2. (user' = {} \/ (failures' > 0 /\ user' = user)) /\ dropped' = dropped /\ DropMove
  BY <1>1 DEF GiveUp, DelUser, DropMove
<1>3. /\ ieBuf' = NoBuf
      /\ \/ Tells("failed", ieBuf) /\ UNCHANGED live
         \/ lossy' /\ live' = live \ {ieBuf} /\ UNCHANGED reports
  BY <1>1 DEF GiveUp, ReportFailed, Tells
<1>4. BufMove
  BY <1>3, "failed" \in Kinds DEF BufMove, Kinds
<1>5. Told("failed")
  BY <1>3, Types DEF Told
<1>6. Gives
  BY <1>2, <1>5 DEF Gives, Stops, GiveUp
<1>7. QED BY <1>1, <1>2, <1>4, <1>6, Constants, Types DEF Move, GiveUp, CtlType

LEMMA EndsDoes ==
  ASSUME StaConstants, StaTypeOK, user # {}, Ends, UNCHANGED host, req' \in {req, NoReq}
  PROVE  CtlType' /\ BufMove /\ Move
<1>1. /\ failures' \in 0..MaxFailures /\ failures' >= failures
      /\ failures' # failures => failures' > 0 /\ lossy'
  BY Types, FailuresType DEF Ends, lossy
<1>2. (user' = {} \/ (failures' > 0 /\ user' = user)) /\ dropped' = dropped /\ DropMove
  BY <1>1 DEF Ends, DelUser, DropMove
<1>3. UNCHANGED <<ieBuf, live>> /\ (Tells("gone", NoBuf) \/ (lossy' /\ UNCHANGED reports))
  BY <1>1 DEF Ends, buffers, Tells
<1>4. BufMove
  BY <1>3 DEF BufMove
<1>5. Leaves
  BY <1>2, <1>3 DEF Leaves, Stops, Told, Ends
<1>6. CtlType'
  BY <1>2, Types, Constants DEF CtlType, Ends, attempt
<1>7. QED BY <1>1, <1>2, <1>4, <1>5, <1>6 DEF Move

----------------------------------------------------------------------------
(* What follows an answer or a time-out.                                   *)

\* a request is sent again, for the same user, or the attempt ends in silence
LEMMA Repeated ==
  ASSUME StaConstants, StaTypeOK, OwnIInv, Trying, NEW t \in Timer, SendAuth(t, joined),
         UNCHANGED <<joined, req, host, ieBuf, live, reports>>
  PROVE  /\ BufMove /\ Move
         /\ state' \in States /\ mgmtTimer' \in Timer /\ user' \in Addr
<1>1. joined # {} /\ joined \in Addr
  BY DEF OwnIInv, StaTypeOK
<1>2. /\ mgmtTimer' \in Timer /\ failures' \in 0..MaxFailures /\ user' \in Addr /\ DropMove
      /\ \/ state' = "WAIT_AUTH_SEQ2" /\ user' = UserFor(joined) /\ failures' = failures
         \/ state' \in {"JOIN_COMP", "FAKE_UP"} /\ failures' > 0 /\ failures' >= failures
  <2>1. SendAuth(t, joined) => failures' >= failures
    BY Types, FailuresType DEF SendAuth
  <2>2. QED BY <1>1, <2>1, SendAuthDoes
<1>3. CASE state' = "WAIT_AUTH_SEQ2" /\ user' = UserFor(joined) /\ failures' = failures
  <2>1. CASE user # {}
    <3>1. user' = user /\ dropped' = dropped
      BY <1>3, <2>1 DEF UserFor, SendAuth, OwnIInv
    <3>2. Stays
      BY <1>3, <3>1 DEF Stays, Trying, Waits
    <3>3. QED BY <1>2, <1>3, <3>2, Types, Constants DEF Move, BufMove
  <2>2. CASE user = {}
    <3>1. Rejoins
      BY <1>3, <2>2 DEF Rejoins, Trying, Waits, UserFor
    <3>2. QED BY <1>2, <1>3, <3>1, Types, Constants DEF Move, BufMove
  <2>3. QED BY <2>1, <2>2
<1>4. CASE state' \in {"JOIN_COMP", "FAKE_UP"} /\ failures' > 0 /\ failures' >= failures
  <2>1. FailsSilently
    BY <1>4 DEF FailsSilently, Trying, Waits, lossy
  <2>2. QED BY <1>2, <1>4, <2>1, Constants DEF Move, BufMove
<1>5. QED BY <1>2, <1>3, <1>4

LEMMA AuthFailedDoes ==
  ASSUME StaConstants, StaTypeOK, OwnIInv, Trying, NEW t \in Timer, NEW u \in BOOLEAN,
         AuthFailed(t, u), UNCHANGED <<quiet, asocCnt>>
  PROVE  CtlType' /\ BufMove /\ Move
<1>1. authMode' \in Modes /\ authCnt' \in Nat
  BY Types DEF AuthFailed, Counted, CtlType, Modes
<1>2. UNCHANGED <<joined, req, host, rejected, connects, asocCnt>>
  BY DEF quiet
<1>3. \/ SendAuth(t, joined) /\ UNCHANGED <<ieBuf, live, reports>>
      \/ GiveUp(t)
  BY Zenon DEF AuthFailed, buffers
<1>4. BufMove /\ Move /\ state' \in States /\ mgmtTimer' \in Timer /\ user' \in Addr
  <2>1. CASE SendAuth(t, joined) /\ UNCHANGED <<ieBuf, live, reports>>
    BY <1>2, <2>1, Repeated
  <2>2. CASE GiveUp(t)
    BY <1>2, <2>2, GiveUpDoes, Constants
  <2>3. QED BY <1>3, <2>1, <2>2
<1>5. CtlType'
  BY <1>1, <1>2, <1>4, Types DEF CtlType
<1>6. QED BY <1>4, <1>5

\* the association is asked for
LEMMA Asked ==
  ASSUME StaConstants, StaTypeOK, OwnIInv, Trying, NEW t \in Timer, NEW first \in BOOLEAN,
         SendAsoc(t, first), UNCHANGED <<user, dropped, joined, req, host, reports>>
  PROVE  /\ BufMove /\ Move
         /\ state' \in States /\ mgmtTimer' \in Timer
<1>1. /\ mgmtTimer' \in Timer /\ failures' \in 0..MaxFailures
      /\ \/ state' = "WAIT_ASOC" /\ failures' = failures
         \/ state' = "AUTH_COMP" /\ lossy' /\ (failures' > 0 \/ user' = {})
      /\ \/ ieBuf' \in Buffers \ (live \ {ieBuf}) /\ live' = (live \ {ieBuf}) \cup {ieBuf'}
         \/ ieBuf' = NoBuf /\ live' = live \ {ieBuf}
         \/ UNCHANGED <<ieBuf, live>>
  BY SendAsocDoes DEF lossy, OwnIInv
<1>2. failures' >= failures /\ DropMove
  BY Types, FailuresType DEF SendAsoc, DropMove
<1>3. BufMove
  BY <1>1 DEF BufMove
<1>4. CASE state' = "WAIT_ASOC" /\ failures' = failures
  <2>1. Stays
    BY <1>4 DEF Stays, Trying, Waits
  <2>2. QED BY <1>1, <1>2, <1>3, <1>4, <2>1, Constants DEF Move
<1>5. CASE state' = "AUTH_COMP" /\ lossy' /\ (failures' > 0 \/ user' = {})
  <2>1. FailsSilently
    BY <1>5 DEF FailsSilently, Trying, Waits
  <2>2. QED BY <1>1, <1>2, <1>3, <1>5, <2>1, Constants DEF Move
<1>6. QED BY <1>1, <1>4, <1>5

LEMMA AuthenticatedDoes ==
  ASSUME StaConstants, StaTypeOK, OwnIInv, Trying, NEW t \in Timer, Authenticated(t),
         UNCHANGED <<quiet, authMode, authCnt>>
  PROVE  CtlType' /\ BufMove /\ Move
<1>1. /\ UNCHANGED <<user, dropped, joined, req, host, rejected, connects, reports>>
      /\ asocCnt' \in Nat
  BY DEF quiet, Authenticated
<1>2. BufMove /\ Move /\ state' \in States /\ mgmtTimer' \in Timer
  BY <1>1, Asked DEF Authenticated
<1>3. QED BY <1>1, <1>2, Types DEF CtlType

LEMMA AsocFailedDoes ==
  ASSUME StaConstants, StaTypeOK, OwnIInv, Trying, NEW t \in Timer, NEW cnt \in Nat,
         NEW b \in BOOLEAN,
         AsocFailed(t, cnt, b), UNCHANGED <<joined, req, host>>
  PROVE  /\ BufMove /\ Move /\ asocCnt' \in Nat
         /\ state' \in States /\ mgmtTimer' \in Timer /\ user' \in Addr
<1>1. \/ GiveUp(t) /\ asocCnt' = cnt
      \/ asocCnt' = Counted(cnt) /\ SendAsoc(t, FALSE) /\ UNCHANGED <<user, dropped, reports>>
  BY Zenon DEF AsocFailed
<1>2. CASE GiveUp(t) /\ asocCnt' = cnt
  BY <1>2, GiveUpDoes, Constants
<1>3. CASE asocCnt' = Counted(cnt) /\ SendAsoc(t, FALSE) /\ UNCHANGED <<user, dropped, reports>>
  <2>1. asocCnt' \in Nat
    BY <1>3 DEF Counted
  <2>2. BufMove /\ Move /\ state' \in States /\ mgmtTimer' \in Timer
    BY <1>3, Asked
  <2>3. QED BY <1>3, <2>1, <2>2, Types DEF CtlType
<1>4. QED BY <1>1, <1>2, <1>3

LEMMA AssociatedDoes ==
  ASSUME StaConstants, StaTypeOK, Trying, NEW t \in Timer, Associated(t),
         UNCHANGED <<joined, req, host>>
  PROVE  /\ BufMove /\ Move /\ asocCnt' \in Nat
         /\ state' \in States /\ mgmtTimer' \in Timer /\ user' \in Addr
<1>1. /\ failures' \in 0..MaxFailures /\ failures' >= failures /\ (Fails => lossy')
  BY Types, FailuresType DEF Associated, lossy
<1>2. /\ ieBuf' = NoBuf
      /\ \/ Tells("up", ieBuf) /\ UNCHANGED live
         \/ lossy' /\ live' = live \ {ieBuf} /\ UNCHANGED reports
  BY <1>1 DEF Associated, Tells
<1>3. BufMove
  BY <1>2, "up" \in Kinds DEF BufMove, Kinds
<1>4. Succeeds /\ DropMove
  BY <1>2, Types DEF Succeeds, Told, Associated, DropMove
<1>5. QED BY <1>1, <1>3, <1>4, Constants, Types DEF Move, CtlType, Associated

----------------------------------------------------------------------------
(* The actions.                                                            *)

LEMMA AuthSeq2Does ==
  ASSUME StaConstants, StaTypeOK, OwnIInv, NEW answer, AuthSeq2(answer)
  PROVE  CtlType' /\ BufMove /\ Move
<1> DEFINE t == Destroyed(mgmtTimer)
<1>1. Trying /\ UNCHANGED quiet /\ t \in Timer
  BY Types DEF AuthSeq2, Trying, Waits
<1>2. CASE answer = "open"
  BY <1>1, <1>2, AuthenticatedDoes DEF AuthSeq2
<1>3. CASE answer = "shared"
  <2>1. /\ UNCHANGED <<user, dropped, authMode, authCnt, asocCnt, ieBuf, live, reports>>
        /\ \/ Works /\ state' = "WAIT_AUTH_SEQ4" /\ mgmtTimer' = Created(t)
           \/ (Works \/ Fails) /\ UNCHANGED <<state, mgmtTimer>>
    BY <1>3 DEF AuthSeq2, buffers
  <2>2. failures' \in 0..MaxFailures /\ failures' >= failures
    BY <2>1, Types, FailuresType
  <2>3. mgmtTimer' \in Timer /\ state' \in States
    BY <1>1, <2>1, Types, TimerType, Constants DEF CtlType
  <2>4. Stays
    BY <1>1, <2>1 DEF Stays, Trying, Waits, quiet, AuthSeq2
  <2>5. DropMove
    BY <2>1 DEF DropMove
  <2>6. QED BY <1>1, <2>1, <2>2, <2>3, <2>4, <2>5, Types DEF Move, BufMove, CtlType, quiet
<1>4. CASE answer \in {"refused", "unsupported"}
  BY <1>1, <1>4, AuthFailedDoes DEF AuthSeq2
<1>5. QED BY <1>2, <1>3, <1>4 DEF AuthSeq2

LEMMA AsocRspDoes ==
  ASSUME StaConstants, StaTypeOK, OwnIInv, NEW from, NEW answer, AsocRsp(from, answer)
  PROVE  CtlType' /\ BufMove /\ Move
<1> DEFINE t == Destroyed(mgmtTimer)
<1>1. Trying /\ t \in Timer /\ rejected' \in BOOLEAN
      /\ UNCHANGED <<joined, authMode, authCnt, req, host, connects>>
  BY Types DEF AsocRsp, Trying, Waits
<1>2. CASE Associated(t)
  BY <1>1, <1>2, AssociatedDoes, Types DEF CtlType
<1>3. CASE AsocFailed(t, MaxAsoc, FALSE)
  BY <1>1, <1>3, AsocFailedDoes, Types DEF CtlType, StaConstants
<1>4. CASE UNCHANGED <<state, user, dropped, asocCnt, mgmtTimer, buffers, reports, failures>>
  BY <1>1, <1>4, Types DEF CtlType, BufMove, buffers, Move, DropMove, Stays, Trying
<1>5. QED BY <1>2, <1>3, <1>4 DEF AsocRsp

LEMMA MgmtTimeoutDoes ==
  ASSUME StaConstants, StaTypeOK, OwnIInv, MgmtTimeout
  PROVE  CtlType' /\ BufMove /\ Move
<1> DEFINE t == Destroyed(mgmtTimer)
<1>1. t \in Timer /\ UNCHANGED quiet /\ asocCnt \in Nat /\ rejected \in BOOLEAN
  BY Types DEF MgmtTimeout, CtlType
<1>2. CASE state \in {"WAIT_AUTH_SEQ2", "WAIT_AUTH_SEQ4"}
  <2>1. AuthFailed(t, FALSE) /\ UNCHANGED asocCnt
    BY <1>2 DEF MgmtTimeout
  <2>2. Trying
    BY <1>2 DEF Trying, Waits
  <2>3. QED BY <1>1, <2>1, <2>2, AuthFailedDoes
<1>3. CASE state = "WAIT_ASOC"
  <2>1. AsocFailed(t, asocCnt, rejected) /\ UNCHANGED <<authMode, authCnt>>
    BY <1>3 DEF MgmtTimeout
  <2>2. Trying
    BY <1>3 DEF Trying, Waits
  <2>3. QED BY <1>1, <2>1, <2>2, AsocFailedDoes, Types DEF CtlType, quiet
<1>4. CASE state \notin {"WAIT_AUTH_SEQ2", "WAIT_AUTH_SEQ4", "WAIT_ASOC"}
  <2>1. /\ mgmtTimer' = t
        /\ UNCHANGED <<state, user, dropped, authMode, authCnt, asocCnt, buffers, reports,
                       failures>>
    BY <1>4 DEF MgmtTimeout
  <2>2. QED BY <1>1, <2>1, Types DEF CtlType, BufMove, buffers, Move, DropMove, Stays, Trying, quiet
<1>5. QED BY <1>2, <1>3, <1>4

LEMMA ConnectDoes ==
  ASSUME StaConstants, StaTypeOK, NEW a \in Aps, NEW m \in Modes, Connect(a, m)
  PROVE  CtlType' /\ BufMove /\ Move
<1>1. {a} \in Addr /\ {a} # {}
  BY DEF Addr
<1>2. CtlType'
  BY <1>1, Types DEF CtlType, Connect, Request, attempt, StaConstants
<1>3. Requests
  BY <1>1 DEF Requests, Connect
<1>4. QED BY <1>2, <1>3, Types DEF BufMove, Move, DropMove, Connect, buffers

LEMMA ConnectHandledDoes ==
  ASSUME StaConstants, StaTypeOK, OwnIInv, ConnectHandled
  PROVE  CtlType' /\ BufMove /\ Move
<1>1. /\ req.kind = "connect" /\ req.ap \in Addr /\ req.mode \in Modes /\ req' = NoReq
      /\ UNCHANGED <<asocCnt, rejected, ieBuf, live, reports, connects>>
  BY Types DEF ConnectHandled, CtlType, Request, buffers
<1>2. BufMove
  BY <1>1 DEF BufMove
<1>3. CASE /\ state \in JoinStates /\ joined' = req.ap /\ authMode' = req.mode /\ authCnt' = 1
           /\ SendAuth(mgmtTimer, req.ap) /\ UNCHANGED host
  <2>1. /\ mgmtTimer' \in Timer /\ failures' \in 0..MaxFailures /\ user' \in Addr /\ DropMove
        /\ \/ state' = "WAIT_AUTH_SEQ2" /\ user' = UserFor(req.ap) /\ failures' = failures
           \/ state' \in {"JOIN_COMP", "FAKE_UP"} /\ failures' > 0
    BY <1>1, <1>3, SendAuthDoes, Types
  <2>2. failures' >= failures
    BY <1>3, Types, FailuresType DEF SendAuth
  <2>3. ~Trying /\ state # "UP"
    BY <1>3 DEF JoinStates, Trying, Waits
  <2>4. Begins \/ FailsSilently
    BY <1>1, <1>3, <2>1, <2>3 DEF Begins, FailsSilently, Trying, Waits, lossy
  <2>5. QED BY <1>1, <1>2, <1>3, <2>1, <2>2, <2>4, Types, Constants DEF Move, CtlType
<1>4. CASE /\ state \notin JoinStates /\ authMode' = req.mode /\ Works
           /\ UNCHANGED <<state, user, dropped, joined, authCnt, mgmtTimer, host>>
  <2>1. IsRefused
    BY <1>1, <1>4 DEF IsRefused
  <2>2. QED BY <1>1, <1>2, <1>4, <2>1, Types, FailuresType, Constants DEF Move, DropMove, CtlType
<1>5. CASE /\ authMode' \in {authMode, req.mode} /\ host' = Refused
           /\ \/ Works /\ UNCHANGED joined
              \/ Fails /\ joined' \in {joined} \cup (IF state \in JoinStates THEN {req.ap} ELSE {})
           /\ UNCHANGED <<state, user, dropped, authCnt, mgmtTimer>>
  <2>1. /\ failures' \in 0..MaxFailures /\ failures' >= failures /\ (Fails => failures' > 0)
        /\ DropMove
    BY <1>5, Types, FailuresType DEF DropMove
  <2>2. IsRefused
    BY <1>1, <1>5, <2>1, Types DEF IsRefused, OwnIInv
  <2>3. joined' \in Addr /\ host' \in {"idle", "connecting", "connected"} /\ authMode' \in Modes
    BY <1>1, <1>5, Types DEF CtlType, Refused
  <2>4. QED BY <1>1, <1>2, <1>5, <2>1, <2>2, <2>3, Types, Constants DEF Move, CtlType
<1>6. QED BY <1>3, <1>4, <1>5, Zenon DEF ConnectHandled

LEMMA DisconnectDoes ==
  ASSUME StaConstants, StaTypeOK, Disconnect
  PROVE  CtlType' /\ BufMove /\ Move
<1>1. /\ UNCHANGED <<state, user, dropped, joined, mgmtTimer, ieBuf, live, reports, connects,
                     failures>>
      /\ UNCHANGED <<authMode, authCnt, asocCnt, rejected>>
  BY DEF Disconnect, buffers, attempt
<1>2. CASE user = {} /\ host' = Refused /\ UNCHANGED req
  BY <1>1, <1>2, Types DEF CtlType, BufMove, Move, DropMove, IsRefused, Refused
<1>3. CASE user # {} /\ req' = [kind |-> "kick", ap |-> user, mode |-> "auto"] /\ UNCHANGED host
  <2>1. req' \in Request
    BY <1>3, Types DEF CtlType, Request, Modes
  <2>2. Requests
    BY <1>1, <1>3 DEF Requests
  <2>3. QED BY <1>1, <1>3, <2>1, <2>2, Types DEF CtlType, BufMove, Move, DropMove
<1>4. QED BY <1>2, <1>3 DEF Disconnect

LEMMA KickHandledDoes ==
  ASSUME StaConstants, StaTypeOK, OwnIInv, KickHandled
  PROVE  CtlType' /\ BufMove /\ Move
<1>1. req.kind = "kick" /\ req' = NoReq /\ req.ap # {}
  BY DEF KickHandled, OwnIInv
<1>2. CASE user = req.ap /\ Ends /\ UNCHANGED host
  BY <1>1, <1>2, EndsDoes
<1>3. CASE /\ user # req.ap /\ state' = "FAKE_UP" /\ host' = Refused
           /\ UNCHANGED <<user, dropped, joined, attempt, mgmtTimer, buffers, reports, connects,
                          failures>>
  <2>1. IsRefused
    BY <1>1, <1>3 DEF IsRefused
  <2>2. CtlType'
    BY <1>1, <1>3, Types, Constants DEF CtlType, Refused, attempt
  <2>3. QED BY <1>3, <2>1, <2>2, Types DEF BufMove, Move, DropMove, buffers
<1>4. QED BY <1>2, <1>3 DEF KickHandled

LEMMA DeliverDoes ==
  ASSUME StaConstants, StaTypeOK, Deliver
  PROVE  CtlType' /\ BufMove /\ Move
<1>1. Hears
  BY DEF Hears, Deliver
<1>2. BufMove
  BY DEF BufMove, Deliver
<1>3. CtlType'
  BY Types DEF CtlType, Deliver, attempt
<1>4. QED BY <1>1, <1>2, <1>3, Types DEF Move, DropMove, Deliver

LEMMA QuietDoes ==
  ASSUME StaConstants, StaTypeOK, MgmtExpires \/ MgmtPosts \/ ScanStart \/ ScanEnd \/ UNCHANGED sta
  PROVE  CtlType' /\ BufMove /\ Move
<1>1. /\ UNCHANGED <<user, dropped, joined, authMode, authCnt, asocCnt, rejected, ieBuf, live,
                     reports, req, host, connects>>
      /\ \/ state' = state
         \/ state \in ScanFrom \cup {"WAIT_SCAN"} /\ state' \in {"WAIT_SCAN", "SCAN_COMP"}
  BY DEF MgmtExpires, MgmtPosts, ScanStart, ScanEnd, ScanState, buffers, attempt, sta
<1>2. Works \/ Fails
  BY DEF MgmtExpires, MgmtPosts, ScanStart, ScanEnd, ScanState, Works, sta
<1>3. mgmtTimer' \in Timer
  <2>1. \/ mgmtTimer' = mgmtTimer
        \/ mgmtTimer' = [mgmtTimer EXCEPT !.armed = FALSE, !.firing = TRUE]
        \/ mgmtTimer' = [mgmtTimer EXCEPT !.firing = FALSE, !.events = @ + 1]
        \/ mgmtTimer' = [mgmtTimer EXCEPT !.firing = FALSE]
    BY DEF MgmtExpires, MgmtPosts, ScanStart, ScanEnd, ScanState, sta
  <2>2. mgmtTimer \in Timer /\ mgmtTimer.events + 1 \in Nat
    BY Types, TimerType
  <2>3. QED BY <2>1, <2>2, TimerType
<1>4. Stays
  BY <1>1 DEF Stays, Trying, Waits, ScanFrom
<1>5. state' \in States
  BY <1>1, Types, Constants DEF CtlType
<1>6. QED BY <1>1, <1>2, <1>3, <1>4, <1>5, Types, FailuresType DEF CtlType, BufMove, Move, DropMove

LEMMA DropsDoes ==
  ASSUME StaConstants, StaTypeOK, DeviceDisassoc
  PROVE  CtlType' /\ BufMove /\ Move
<1>1. /\ UNCHANGED <<state, joined, authMode, authCnt, asocCnt, rejected, mgmtTimer, ieBuf, live,
                     reports, req, host, connects>>
      /\ Works \/ Fails
      /\ (user' = {} /\ dropped' = "now") \/ UNCHANGED <<user, dropped>>
  BY DEF DeviceDisassoc, attempt, buffers
<1>2. CtlType'
  BY <1>1, Types, Constants DEF CtlType
<1>3. (Drops \/ Stays) /\ DropMove
  BY <1>1 DEF Drops, Stays, DropMove, Trying
<1>4. QED BY <1>1, <1>2, <1>3, Types, FailuresType DEF Move, BufMove

LEMMA StepDoes ==
  ASSUME StaConstants, StaTypeOK, OwnIInv, [StaNext]_sta
  PROVE  CtlType' /\ BufMove /\ Move
<1>1. ASSUME NEW x, AuthSeq2(x) PROVE CtlType' /\ BufMove /\ Move
  BY <1>1, AuthSeq2Does
<1>2. CASE AuthSeq4
  <2>1. Trying /\ Destroyed(mgmtTimer) \in Timer
    BY <1>2, Types DEF AuthSeq4, Trying, Waits
  <2>2. QED BY <1>2, <2>1, AuthenticatedDoes DEF AuthSeq4
<1>3. ASSUME NEW a, Deauth(a) PROVE CtlType' /\ BufMove /\ Move
  BY <1>3, EndsDoes DEF Deauth
<1>4. ASSUME NEW a, NEW x, AsocRsp(a, x) PROVE CtlType' /\ BufMove /\ Move
  BY <1>4, AsocRspDoes
<1>5. CASE Lost
  BY <1>5, EndsDoes DEF Lost
<1>6. ASSUME NEW a \in Aps, NEW m \in Modes, Connect(a, m) PROVE CtlType' /\ BufMove /\ Move
  BY <1>6, ConnectDoes
<1>7. CASE Scans \/ Clock \/ UNCHANGED sta
  BY <1>7, QuietDoes DEF Scans, Clock
<1>8. CASE Disconnect
  BY <1>8, DisconnectDoes
<1>9. CASE Events
  BY <1>9, ConnectHandledDoes, KickHandledDoes, DeliverDoes, MgmtTimeoutDoes DEF Events
<1>10. CASE DeviceDisassoc
  BY <1>10, DropsDoes
<1>11. QED BY <1>1, <1>2, <1>3, <1>4, <1>5, <1>6, <1>7, <1>8, <1>9, <1>10 DEF StaNext, Peer, Asks

----------------------------------------------------------------------------
(* Types, and the user of a connection                                     *)

LEMMA BufTypes ==
  ASSUME StaConstants, StaTypeOK, BufMove
  PROVE  ieBuf' \in Buffers \cup {NoBuf} /\ live' \subseteq Buffers /\ reports' \in Seq(Report)
<1>1. ieBuf \in Buffers \cup {NoBuf} /\ live \subseteq Buffers /\ reports \in Seq(Report)
  BY DEF StaTypeOK
<1>2. ASSUME NEW k \in Kinds, NEW b \in Buffers \cup {NoBuf}, Tells(k, b)
      PROVE  reports' \in Seq(Report)
  <2>1. [kind |-> k, buf |-> b] \in Report
    BY DEF Report
  <2>2. QED BY <1>1, <1>2, <2>1, AppendProperties DEF Tells
<1>3. ASSUME reports # <<>> PROVE Tail(reports) \in Seq(Report)
  BY <1>1, <1>3, HeadTailProperties
<1>4. "gone" \in Kinds
  BY DEF Kinds
<1>5. QED BY <1>1, <1>2, <1>3, <1>4 DEF BufMove

LEMMA TypeParts ==
  ASSUME StaConstants, CtlType, failures \in 0..MaxFailures, reports \in Seq(Report),
         ieBuf \in Buffers \cup {NoBuf}, live \subseteq Buffers, dropped \in {"no", "now", "once"}
  PROVE  StaTypeOK
BY DEF StaTypeOK, CtlType, Timer

LEMMA TypeStep ==
  ASSUME StaConstants, StaTypeOK, OwnIInv, [StaNext]_sta
  PROVE  StaTypeOK'
<1>1. /\ CtlType' /\ failures' \in 0..MaxFailures /\ reports' \in Seq(Report)
      /\ ieBuf' \in Buffers \cup {NoBuf} /\ live' \subseteq Buffers
      /\ dropped' \in {"no", "now", "once"}
  BY StepDoes, BufTypes, Types DEF Move, DropMove
<1>2. QED BY <1>1 DEF StaTypeOK, CtlType, Timer

LEMMA OwnStep ==
  ASSUME StaConstants, StaTypeOK, OwnIInv, Move
  PROVE  OwnIInv'
<1> USE DEF OwnIInv
<1>1. /\ failures \in Nat /\ failures' \in Nat /\ failures' >= failures
      /\ failures' = 0 => failures = 0 /\ ~(failures' > 0)
      /\ dropped' = "now" => user' = {}
  BY Types DEF Move, DropMove, StaConstants
<1>2. NoReq.kind = "none"
  BY DEF NoReq
<1>3. CASE Stays
  BY <1>1, <1>3 DEF Stays
<1>4. CASE Rejoins
  BY <1>1, <1>4 DEF Rejoins
<1>5. CASE Drops
  BY <1>1, <1>5 DEF Drops, Trying
<1>6. CASE Begins
  <2>1. user' # {} /\ (failures' = 0 => user' = joined')
    BY <1>1, <1>6 DEF Begins, UserFor
  <2>2. Trying' /\ joined' # {}
    BY <1>6 DEF Begins, Trying, Waits
  <2>3. QED BY <1>1, <1>2, <1>6, <2>1, <2>2 DEF Begins
<1>7. CASE FailsSilently
  <2>1. CASE failures' > 0
    BY <1>1, <1>2, <1>7, <2>1 DEF FailsSilently
  <2>2. CASE failures' = 0
    BY <1>1, <1>2, <1>7, <2>2 DEF FailsSilently
  <2>3. QED BY <1>1, <2>1, <2>2
<1>8. CASE Succeeds
  BY <1>1, <1>8 DEF Succeeds
<1>9. CASE Gives \/ Leaves
  <2>1. ~Trying' /\ state' # "UP" /\ (user' = {} \/ failures' > 0) /\ req' \in {req, NoReq}
    BY <1>9 DEF Gives, Leaves, Stops, Trying, Waits
  <2>2. QED BY <1>1, <1>2, <2>1
<1>10. CASE Hears
  BY <1>1, <1>10 DEF Hears, Trying
<1>11. CASE Requests
  BY <1>1, <1>11 DEF Requests, Trying
<1>12. CASE IsRefused
  <2>1. CASE state' = state
    BY <1>1, <1>2, <1>12, <2>1 DEF IsRefused, Trying
  <2>2. CASE state' = "FAKE_UP" /\ req.kind = "kick" /\ user # req.ap
    BY <1>1, <1>2, <1>12, <2>2 DEF IsRefused, Trying, Waits
  <2>3. QED BY <1>12, <2>1, <2>2 DEF IsRefused
<1>13. QED
  BY <1>3, <1>4, <1>5, <1>6, <1>7, <1>8, <1>9, <1>10, <1>11, <1>12 DEF Move

StaIInv == StaTypeOK /\ OwnIInv

LEMMA StaIInvHolds == StaConstants => (StaSpec => []StaIInv)
<1> SUFFICES ASSUME StaConstants PROVE StaSpec => []StaIInv
  OBVIOUS
<1>1. StaInit => StaIInv
  <2> SUFFICES ASSUME StaInit PROVE StaIInv
    OBVIOUS
  <2>1. CtlType
    <3>1. mgmtTimer \in Timer
      BY DEF StaInit, Off, Timer
    <3>2. state \in States /\ user \in Addr /\ joined \in Addr /\ req \in Request
      BY Constants DEF StaInit
    <3>3. rejected \in BOOLEAN
      BY Zenon DEF StaInit
    <3>4. authCnt \in Nat /\ asocCnt \in Nat /\ connects \in 0..MaxConnects
      BY DEF StaInit, StaConstants
    <3>5. authMode \in Modes /\ host \in {"idle", "connecting", "connected"}
      BY DEF StaInit, Modes
    <3>6. QED BY <3>1, <3>2, <3>3, <3>4, <3>5, Zenon DEF CtlType
  <2>2. reports \in Seq(Report) /\ failures \in 0..MaxFailures
    BY EmptySeq DEF StaInit, StaConstants
  <2>3. StaTypeOK
    BY <2>1, <2>2, TypeParts DEF StaInit
  <2>4. OwnIInv
    BY Constants DEF OwnIInv, StaInit, Trying, Waits
  <2>5. QED BY <2>3, <2>4 DEF StaIInv
<1>2. StaIInv /\ [StaNext]_sta => StaIInv'
  BY TypeStep, OwnStep, StepDoes DEF StaIInv
<1>3. QED BY <1>1, <1>2, PTL DEF StaSpec

\* Type correctness.
THEOREM StaTypeCorrect == StaConstants => (StaSpec => []StaTypeOK)
BY StaIInvHolds, PTL DEF StaIInv

\* Whoever waits for an access point, or is connected, has it as its user, and unless
\* something has failed it is the one of the last join (hmac_mgmt_encap_auth_req keeps a
\* user it finds); only the device's disassociation event (hmac_mgmt_send_disasoc_deauth_event)
\* takes it away, and then there is none until a repeated request adds it again.
THEOREM UserIsOwnAp == StaConstants => (StaSpec => []OwnAp)
<1> SUFFICES ASSUME StaConstants PROVE StaSpec => []OwnAp
  OBVIOUS
<1>1. StaIInv => OwnAp
  BY DEF StaIInv, OwnIInv, OwnAp
<1>2. QED BY <1>1, StaIInvHolds, PTL

----------------------------------------------------------------------------
(* The buffer of the association request                                   *)

Bufs(r) == { b \in Buffers : \E i \in 1..Len(r) : r[i].buf = b }
Once(r) == \A i, j \in 1..Len(r) : r[i].buf # NoBuf /\ r[i].buf = r[j].buf => i = j

BufIInv ==
  /\ live = ({ieBuf} \ {NoBuf}) \cup Bufs(reports)
  /\ ieBuf \notin Bufs(reports) /\ Once(reports)

LEMMA Entries ==
  ASSUME NEW r \in Seq(Report)
  PROVE  /\ Len(r) \in Nat /\ DOMAIN r = 1..Len(r)
         /\ \A i \in 1..Len(r) : r[i] \in Report /\ r[i].buf \in Buffers \cup {NoBuf}
<1>1. Len(r) \in Nat /\ DOMAIN r = 1..Len(r) /\ \A i \in 1..Len(r) : r[i] \in Report
  BY LenProperties, ElementOfSeq
<1>2. QED BY <1>1 DEF Report

LEMMA NoBufIsNone == NoBuf \notin Buffers
BY DEF NoBuf, Buffers

LEMMA BufsAppend ==
  ASSUME NEW r \in Seq(Report), NEW x \in Report, Once(r), x.buf \notin Bufs(r)
  PROVE  Bufs(Append(r, x)) = Bufs(r) \cup ({x.buf} \ {NoBuf}) /\ Once(Append(r, x))
<1> DEFINE s == Append(r, x)
<1>1. /\ Len(r) \in Nat /\ Len(s) = Len(r) + 1
      /\ \A i \in 1..Len(r) : s[i] = r[i]
      /\ s[Len(r) + 1] = x
  BY AppendProperties, Entries
<1>2. x.buf \in Buffers \cup {NoBuf}
  BY DEF Report
<1>3. \A i \in 1..Len(r) : r[i].buf \in Buffers \cup {NoBuf}
  BY Entries
<1> HIDE DEF s
<1>4. Bufs(s) = Bufs(r) \cup ({x.buf} \ {NoBuf})
  BY <1>1, <1>2, NoBufIsNone DEF Bufs
<1>5. Once(s)
  <2> SUFFICES ASSUME NEW i \in 1..Len(s), NEW j \in 1..Len(s), s[i].buf # NoBuf, s[i].buf = s[j].buf
               PROVE  i = j
    BY DEF Once
  <2>1. CASE i \in 1..Len(r) /\ j \in 1..Len(r)
    BY <1>1, <2>1 DEF Once
  <2>2. CASE i = Len(r) + 1 /\ j \in 1..Len(r)
    BY <1>1, <1>3, <2>2 DEF Bufs
  <2>3. CASE i \in 1..Len(r) /\ j = Len(r) + 1
    BY <1>1, <1>3, <2>3 DEF Bufs
  <2>4. QED BY <1>1, <2>1, <2>2, <2>3
<1>6. QED BY <1>4, <1>5 DEF s

LEMMA BufsTail ==
  ASSUME NEW r \in Seq(Report), r # <<>>, Once(r)
  PROVE  Bufs(Tail(r)) = Bufs(r) \ {Head(r).buf} /\ Once(Tail(r))
<1> DEFINE s == Tail(r)
<1>1. /\ Len(r) \in Nat /\ Len(r) > 0 /\ Len(s) = Len(r) - 1 /\ Head(r) = r[1]
      /\ \A i \in 1..Len(s) : s[i] = r[i + 1]
  BY HeadTailProperties, EmptySeq, Entries
<1>2. \A i \in 1..Len(r) : r[i].buf \in Buffers \cup {NoBuf}
  BY Entries
<1> HIDE DEF s
<1>3. ASSUME NEW b \in Bufs(s) PROVE b \in Bufs(r) /\ b # r[1].buf
  <2>1. PICK i \in 1..Len(s) : s[i].buf = b
    BY DEF Bufs
  <2>2. i + 1 \in 1..Len(r) /\ r[i + 1].buf = b /\ b # NoBuf /\ 1 \in 1..Len(r)
    BY <1>1, <1>3, <2>1, NoBufIsNone DEF Bufs
  <2>3. QED BY <1>1, <2>1, <2>2 DEF Once, Bufs
<1>4. ASSUME NEW b \in Bufs(r), b # r[1].buf PROVE b \in Bufs(s)
  <2>1. PICK i \in 1..Len(r) : r[i].buf = b
    BY DEF Bufs
  <2>2. i - 1 \in 1..Len(s) /\ s[i - 1].buf = b
    BY <1>1, <1>4, <2>1
  <2>3. QED BY <1>4, <2>2 DEF Bufs
<1>5. Once(s)
  <2> SUFFICES ASSUME NEW i \in 1..Len(s), NEW j \in 1..Len(s), s[i].buf # NoBuf, s[i].buf = s[j].buf
               PROVE  i = j
    BY DEF Once
  <2>1. i + 1 \in 1..Len(r) /\ j + 1 \in 1..Len(r) /\ i \in Nat /\ j \in Nat
    BY <1>1
  <2>2. i + 1 = j + 1
    BY <1>1, <2>1 DEF Once
  <2>3. QED BY <2>1, <2>2
<1>6. QED BY <1>1, <1>3, <1>4, <1>5 DEF s

LEMMA BufStep ==
  ASSUME StaConstants, StaTypeOK, BufIInv, BufMove
  PROVE  BufIInv'
<1>1. /\ ieBuf \in Buffers \cup {NoBuf} /\ reports \in Seq(Report)
      /\ live = ({ieBuf} \ {NoBuf}) \cup Bufs(reports)
      /\ ieBuf \notin Bufs(reports) /\ Once(reports) /\ NoBuf \notin Bufs(reports)
  BY NoBufIsNone DEF StaTypeOK, BufIInv, Bufs
<1>2. CASE UNCHANGED <<ieBuf, live, reports>>
  BY <1>2 DEF BufIInv, Bufs, Once
<1>3. CASE /\ ieBuf' \in Buffers \ (live \ {ieBuf}) /\ live' = (live \ {ieBuf}) \cup {ieBuf'}
           /\ UNCHANGED reports
  <2>1. Bufs(reports)' = Bufs(reports) /\ Once(reports)'
    BY <1>1, <1>3 DEF Bufs, Once
  <2>2. QED BY <1>1, <1>3, <2>1, NoBufIsNone DEF BufIInv
<1>4. CASE ieBuf' = NoBuf /\ live' = live \ {ieBuf} /\ UNCHANGED reports
  <2>1. Bufs(reports)' = Bufs(reports) /\ Once(reports)'
    BY <1>1, <1>4 DEF Bufs, Once
  <2>2. QED BY <1>1, <1>4, <2>1 DEF BufIInv
<1>5. CASE ieBuf' = NoBuf /\ live' = live /\ \E kind \in Kinds : Tells(kind, ieBuf)
  <2>1. PICK kind \in Kinds : reports' = Append(reports, [kind |-> kind, buf |-> ieBuf])
    BY <1>5 DEF Tells
  <2>2. [kind |-> kind, buf |-> ieBuf] \in Report
    BY <1>1 DEF Report
  <2>3. Bufs(reports') = Bufs(reports) \cup ({ieBuf} \ {NoBuf}) /\ Once(reports')
    BY <1>1, <2>1, <2>2, BufsAppend
  <2>4. QED BY <1>1, <1>5, <2>3 DEF BufIInv
<1>6. CASE Tells("gone", NoBuf) /\ UNCHANGED <<ieBuf, live>>
  <2>1. PICK x \in Report : x = [kind |-> "gone", buf |-> NoBuf]
    BY DEF Report, Kinds
  <2>2. reports' = Append(reports, x) /\ x.buf = NoBuf
    BY <1>6, <2>1 DEF Tells
  <2>3. Bufs(reports') = Bufs(reports) /\ Once(reports')
    <3>1. x.buf \notin Bufs(reports) /\ Bufs(reports) \cup ({x.buf} \ {NoBuf}) = Bufs(reports)
      BY <1>1, <2>2
    <3>2. Bufs(Append(reports, x)) = Bufs(reports) \cup ({x.buf} \ {NoBuf}) /\ Once(Append(reports, x))
      BY <1>1, <3>1, BufsAppend
    <3>3. QED BY <2>2, <3>1, <3>2
  <2>4. QED BY <1>1, <1>6, <2>3 DEF BufIInv
<1>7. CASE /\ reports # <<>> /\ reports' = Tail(reports)
           /\ live' = live \ {Head(reports).buf} /\ UNCHANGED ieBuf
  <2>1. Bufs(reports') = Bufs(reports) \ {Head(reports).buf} /\ Once(reports')
    BY <1>1, <1>7, BufsTail
  <2>2. Head(reports).buf \in Bufs(reports) \cup {NoBuf}
    <3>1. Head(reports) = reports[1] /\ 1 \in 1..Len(reports) /\ reports[1].buf \in Buffers \cup {NoBuf}
      BY <1>1, <1>7, HeadTailProperties, EmptySeq, Entries
    <3>2. QED BY <3>1 DEF Bufs
  <2>3. QED BY <1>1, <1>7, <2>1, <2>2 DEF BufIInv
<1>8. QED BY <1>2, <1>3, <1>4, <1>5, <1>6, <1>7 DEF BufMove

\* The buffer of the association request has one owner, the VAP or a queued report, and
\* is freed exactly once, through every retry, failure and end (hmac_mgmt_sta.c:846).
THEOREM BufferHasOneOwner == StaConstants => (StaSpec => []IeOwned)
<1> SUFFICES ASSUME StaConstants PROVE StaSpec => []IeOwned
  OBVIOUS
<1>1. StaInit => BufIInv
  BY EmptySeq DEF StaInit, BufIInv, Bufs, Once
<1>2. StaIInv /\ BufIInv /\ [StaNext]_sta => BufIInv'
  BY BufStep, StepDoes DEF StaIInv
<1>3. StaIInv /\ BufIInv => IeOwned
  <2> SUFFICES ASSUME StaTypeOK, BufIInv PROVE IeOwned
    BY DEF StaIInv
  <2> DEFINE owned == { i \in DOMAIN reports : reports[i].buf # NoBuf }
  <2>1. /\ DOMAIN reports = 1..Len(reports)
        /\ \A i \in 1..Len(reports) : reports[i].buf \in Buffers \cup {NoBuf}
    BY Entries DEF StaTypeOK
  <2>2. Bufs(reports) = { reports[i].buf : i \in owned }
    BY <2>1, NoBufIsNone DEF Bufs
  <2>3. \A i, j \in owned : reports[i].buf # ieBuf /\ (i # j => reports[i].buf # reports[j].buf)
    BY <2>1, <2>2 DEF BufIInv, Once
  <2>4. QED BY <2>2, <2>3 DEF BufIInv, IeOwned
<1>4. QED BY <1>1, <1>2, <1>3, StaIInvHolds, PTL DEF StaSpec

----------------------------------------------------------------------------
(* The host                                                                *)

\* the reports after one more, and after one less
Last(s) == s[Len(s)]

LEMMA MoreTold ==
  ASSUME NEW r \in Seq(Report), NEW x \in Report, NEW k, x.kind = k
  PROVE  /\ Append(r, x) # <<>> /\ Last(Append(r, x)) = x
         /\ [i \in DOMAIN Append(r, x) |-> Append(r, x)[i].kind]
              = Append([i \in DOMAIN r |-> r[i].kind], k)
<1> DEFINE s == Append(r, x)
           old == [i \in DOMAIN r |-> r[i].kind]
           new == [i \in DOMAIN s |-> s[i].kind]
<1>1. /\ s \in Seq(Report) /\ Len(r) \in Nat /\ Len(s) = Len(r) + 1
      /\ \A i \in 1..Len(r) : s[i] = r[i]
      /\ s[Len(r) + 1] = x
  BY AppendProperties, Entries
<1>2. DOMAIN r = 1..Len(r) /\ DOMAIN s = 1..(Len(r) + 1)
  BY <1>1, Entries
<1>3. Last(s) = x /\ s # <<>>
  BY <1>1, <1>2, EmptySeq DEF Last
<1>4. old \in Seq(Kinds) /\ Len(old) = Len(r)
  <2>1. \A i \in 1..Len(r) : r[i].kind \in Kinds
    BY Entries DEF Report
  <2>2. QED BY <1>1, <1>2, <2>1
<1>5. new = Append(old, k)
  <2>1. /\ DOMAIN Append(old, k) = 1..(Len(r) + 1)
        /\ \A i \in 1..Len(r) : Append(old, k)[i] = r[i].kind
        /\ Append(old, k)[Len(r) + 1] = k
    BY <1>1, <1>2, <1>4
  <2>2. \A i \in 1..(Len(r) + 1) : new[i] = Append(old, k)[i]
    BY <1>1, <1>2, <2>1
  <2>3. QED BY <1>2, <2>1, <2>2, AppendProperties
<1>6. QED BY <1>3, <1>5

LEMMA LessTold ==
  ASSUME NEW r \in Seq(Report), r # <<>>
  PROVE  /\ Tail(r) = <<>> => Last(r) = Head(r)
         /\ Tail(r) # <<>> => Last(Tail(r)) = Last(r)
         /\ LET old == [i \in DOMAIN r |-> r[i].kind]
            IN /\ old # <<>>
               /\ [i \in DOMAIN Tail(r) |-> Tail(r)[i].kind] = Tail(old)
<1> DEFINE s == Tail(r)
           old == [i \in DOMAIN r |-> r[i].kind]
           new == [i \in DOMAIN s |-> s[i].kind]
<1>1. /\ s \in Seq(Report) /\ Len(r) \in Nat /\ Len(r) > 0 /\ Len(s) = Len(r) - 1 /\ Head(r) = r[1]
      /\ \A i \in 1..Len(s) : s[i] = r[i + 1]
  BY HeadTailProperties, EmptySeq, Entries
<1>2. DOMAIN r = 1..Len(r) /\ DOMAIN s = 1..(Len(r) - 1)
  BY <1>1, Entries
<1>3. s = <<>> => Last(r) = Head(r)
  <2>1. s = <<>> => Len(s) = 0
    BY EmptySeq
  <2>2. s = <<>> => Len(r) = 1
    BY <1>1, <2>1
  <2>3. QED BY <1>1, <2>2 DEF Last
<1>4. s # <<>> => Last(s) = Last(r)
  <2>1. s # <<>> => Len(s) \in 1..Len(s)
    BY <1>1, EmptySeq
  <2>2. s # <<>> => s[Len(s)] = r[Len(r)]
    BY <1>1, <2>1
  <2>3. QED BY <2>2 DEF Last
<1>5. old \in Seq(Kinds) /\ Len(old) = Len(r) /\ old # <<>>
  <2>1. \A i \in 1..Len(r) : r[i].kind \in Kinds
    BY Entries DEF Report
  <2>2. old \in Seq(Kinds) /\ Len(old) = Len(r)
    BY <1>1, <1>2, <2>1
  <2>3. QED BY <1>1, <2>2, EmptySeq
<1>6. new = Tail(old)
  <2>1. /\ Tail(old) \in Seq(Kinds) /\ Len(Tail(old)) = Len(r) - 1
        /\ \A i \in 1..(Len(r) - 1) : Tail(old)[i] = r[i + 1].kind
    BY <1>1, <1>2, <1>5, HeadTailProperties
  <2>2. DOMAIN Tail(old) = 1..(Len(r) - 1)
    BY <1>1, <2>1, LenProperties
  <2>3. \A i \in 1..(Len(r) - 1) : new[i] = Tail(old)[i]
    BY <1>1, <1>2, <2>1
  <2>4. QED
    <3> DEFINE rest == Tail(old)
    <3>1. rest \in Seq(Kinds) /\ DOMAIN rest = 1..(Len(r) - 1)
      BY <2>1, <2>2
    <3>2. \A i \in 1..(Len(r) - 1) : new[i] = rest[i]
      BY <2>3
    <3> HIDE DEF rest
    <3>3. rest = [i \in 1..(Len(r) - 1) |-> rest[i]]
      BY <3>1, LenProperties, Zenon
    <3>4. rest = [i \in 1..(Len(r) - 1) |-> new[i]]
      BY <3>2, <3>3
    <3>5. QED BY <1>2, <3>4 DEF rest
<1>7. QED BY <1>3, <1>4, <1>5, <1>6

LEMMA SaidOnce ==
  ASSUME StaConstants, StaTypeOK, NEW k \in Kinds, Told(k), ~lossy'
  PROVE  reports' # <<>> /\ Last(reports').kind = k
<1>1. PICK buf \in Buffers \cup {NoBuf} : reports' = Append(reports, [kind |-> k, buf |-> buf])
  BY DEF Told, Tells
<1>2. PICK x \in Report : x = [kind |-> k, buf |-> buf]
  BY <1>1 DEF Report
<1>3. reports \in Seq(Report) /\ reports' = Append(reports, x) /\ x.kind = k
  BY <1>1, <1>2 DEF StaTypeOK
<1>4. QED BY <1>3, MoreTold

LEMMA HostStep ==
  ASSUME StaConstants, StaTypeOK, OwnIInv, HostAgrees, Move
  PROVE  HostAgrees'
<1> SUFFICES ASSUME ~lossy'
             PROVE  (state' = "UP" <=> IF reports' = <<>> THEN host' = "connected"
                                       ELSE Last(reports').kind = "up")
  BY DEF HostAgrees, Last
<1>1. failures = 0 /\ ~lossy /\ dropped = "no"
  BY Types DEF Move, DropMove, lossy, StaConstants
<1>2. state = "UP" <=> IF reports = <<>> THEN host = "connected" ELSE Last(reports).kind = "up"
  BY <1>1 DEF HostAgrees, Last
<1>3. CASE Stays
  BY <1>2, <1>3 DEF Stays
<1>4. CASE Begins
  BY <1>2, <1>4 DEF Begins
<1>5. CASE FailsSilently
  BY <1>1, <1>5 DEF FailsSilently
<1>6. CASE Succeeds
  BY <1>1, <1>6, SaidOnce DEF Succeeds, Kinds
<1>7. CASE Gives
  BY <1>1, <1>7, SaidOnce DEF Gives, Stops, Kinds
<1>8. CASE Leaves
  BY <1>1, <1>8, SaidOnce DEF Leaves, Stops, Kinds
<1>9. CASE Hears
  <2>1. /\ Tail(reports) = <<>> => Last(reports) = Head(reports)
        /\ Tail(reports) # <<>> => Last(Tail(reports)) = Last(reports)
    BY <1>9, LessTold DEF Hears, StaTypeOK
  <2>2. QED BY <1>2, <1>9, <2>1 DEF Hears
<1>10. CASE Requests
  BY <1>2, <1>10 DEF Requests
<1>11. CASE IsRefused
  <2>1. CASE state' = state
    BY <1>2, <1>11, <2>1 DEF IsRefused, Refused
  <2>2. CASE state' = "FAKE_UP" /\ req.kind = "kick" /\ user # req.ap /\ host' = Refused
    <3>1. user = {}
      BY <1>1, <2>2 DEF OwnIInv
    <3>2. state # "UP"
      BY <1>1, <3>1 DEF OwnIInv
    <3>3. QED BY <1>2, <1>11, <2>2, <3>2 DEF IsRefused, Refused
  <2>3. QED BY <1>11, <2>1, <2>2 DEF IsRefused
<1>12. ~Rejoins /\ ~Drops
  BY <1>1 DEF Rejoins, Drops, OwnIInv, lossy
<1>13. QED BY <1>3, <1>4, <1>5, <1>6, <1>7, <1>8, <1>9, <1>10, <1>11, <1>12 DEF Move

\* As long as nothing has failed and no user was dropped, what the host knows, with the
\* reports under way, is what is, whatever disconnects, losses, time-outs and stale reports
\* have raced
\* (hmac_config_kick_user_vap, hmac_sta_disassoc_rsp).
THEOREM HostIsRight == StaConstants => (StaSpec => []HostAgrees)
<1> SUFFICES ASSUME StaConstants PROVE StaSpec => []HostAgrees
  OBVIOUS
<1>1. StaInit => HostAgrees
  BY DEF StaInit, HostAgrees
<1>2. StaIInv /\ HostAgrees /\ [StaNext]_sta => HostAgrees'
  BY HostStep, StepDoes DEF StaIInv
<1>3. QED BY <1>1, <1>2, StaIInvHolds, PTL DEF StaSpec

----------------------------------------------------------------------------
(* The contract with the host                                              *)

phase == IF Trying THEN "trying" ELSE IF state = "UP" THEN "up" ELSE "down"
told == [i \in DOMAIN reports |-> reports[i].kind]

LEMMA Tell ==
  ASSUME StaConstants, StaTypeOK, NEW k \in Kinds, Told(k)
  PROVE  told' = Append(told, k) \/ (told' = told /\ lossy')
<1>1. CASE lossy' /\ UNCHANGED reports
  BY <1>1 DEF told
<1>2. ASSUME NEW buf \in Buffers \cup {NoBuf}, Tells(k, buf)
      PROVE  told' = Append(told, k)
  <2>1. PICK x \in Report : x = [kind |-> k, buf |-> buf]
    BY DEF Report
  <2>2. reports \in Seq(Report) /\ reports' = Append(reports, x) /\ x.kind = k
    BY <1>2, <2>1 DEF Tells, StaTypeOK
  <2>3. QED BY <2>2, MoreTold DEF told
<1>3. QED BY <1>1, <1>2 DEF Told

LEMMA PhaseOf ==
  /\ Trying <=> phase = "trying"
  /\ phase = "up" <=> state = "UP"
BY DEF Trying, Waits, phase

LEMMA ContractStep ==
  ASSUME StaConstants, StaTypeOK, OwnIInv, Move
  PROVE  [Conn!Next]_<<phase, told, lossy>>
<1>1. /\ lossy => lossy'
      /\ lossy \in BOOLEAN /\ lossy' \in BOOLEAN
      /\ ~lossy => failures = 0 /\ dropped = "no"
  BY Types DEF Move, DropMove, lossy, StaConstants
<1>2. ASSUME lossy', told' = told, phase' \in {phase, "down"} PROVE Conn!Next
  BY <1>1, <1>2 DEF Conn!Next, Conn!Step, Conn!Silent, phase, told, lossy
<1>3. ASSUME told' = told, phase' = phase PROVE [Conn!Next]_<<phase, told, lossy>>
  <2>1. CASE lossy'
    BY <1>2, <1>3, <2>1
  <2>2. CASE ~lossy'
    BY <1>1, <1>3, <2>2
  <2>3. QED BY <2>1, <2>2
<1>4. CASE Stays \/ Rejoins \/ Drops
  BY <1>3, <1>4 DEF Stays, Rejoins, Drops, phase, told, Trying, Waits
<1>5. CASE Begins
  <2>1. phase = "down" /\ phase' = "trying" /\ told' = told
    BY <1>5 DEF Begins, phase, told, Trying, Waits
  <2>2. Conn!Begin
    BY <2>1 DEF Conn!Begin, phase, told
  <2>3. QED BY <1>1, <2>2 DEF Conn!Next, Conn!Step, lossy
<1>6. CASE FailsSilently
  <2>1. lossy' /\ phase' = "down" /\ told' = told
    BY <1>6 DEF FailsSilently, phase, told
  <2>2. QED BY <1>2, <2>1
<1>7. CASE Succeeds
  <2>1. phase = "trying" /\ phase' = "up"
    BY <1>7 DEF Succeeds, phase, Trying, Waits
  <2>2. told' = Append(told, "up") \/ (told' = told /\ lossy')
    BY <1>7, Tell DEF Succeeds, Kinds
  <2>3. Conn!Succeed
    BY <2>1, <2>2 DEF Conn!Succeed, Conn!Tell, phase, told, lossy
  <2>4. QED BY <1>1, <2>3 DEF Conn!Next, Conn!Step, lossy
<1>8. CASE Gives
  <2>1. phase = "trying" /\ phase' = "down"
    BY <1>8 DEF Gives, Stops, phase, Trying, Waits
  <2>2. told' = Append(told, "failed") \/ (told' = told /\ lossy')
    BY <1>8, Tell DEF Gives, Stops, Kinds
  <2>3. Conn!Give
    BY <2>1, <2>2 DEF Conn!Give, Conn!Tell, phase, told, lossy
  <2>4. QED BY <1>1, <2>3 DEF Conn!Next, Conn!Step, lossy
<1>9. CASE Leaves
  <2>1. phase' = "down" /\ phase \in {"trying", "up", "down"}
    BY <1>9 DEF Leaves, Stops, phase, Trying, Waits
  <2>2. told' = Append(told, "gone") \/ (told' = told /\ lossy')
    BY <1>9, Tell DEF Leaves, Stops, Kinds
  <2>3. phase = "down" => lossy
    BY <1>1, <1>9 DEF Leaves, OwnIInv, phase
  <2>4. Conn!Leave \/ Conn!Again
    BY <2>1, <2>2, <2>3 DEF Conn!Leave, Conn!Again, Conn!Tell, phase, told, lossy
  <2>5. QED BY <1>1, <2>4 DEF Conn!Next, Conn!Step, lossy
<1>10. CASE Hears
  <2>1. reports \in Seq(Report) /\ reports # <<>> /\ reports' = Tail(reports)
    BY <1>10 DEF Hears, StaTypeOK
  <2>2. told # <<>> /\ told' = Tail(told)
    BY <2>1, LessTold DEF told
  <2>3. phase' = phase
    BY <1>10 DEF Hears, phase, Trying
  <2>4. Conn!Deliver
    BY <2>2, <2>3 DEF Conn!Deliver, phase, told
  <2>5. QED BY <1>1, <2>4 DEF Conn!Next, Conn!Step, lossy
<1>11. CASE Requests
  BY <1>3, <1>11 DEF Requests, phase, told, Trying
<1>12. CASE IsRefused
  <2>1. told' = told
    BY <1>12 DEF IsRefused, told
  <2>2. CASE state' = state
    BY <1>3, <2>1, <2>2 DEF phase, Trying
  <2>3. CASE state' = "FAKE_UP" /\ req.kind = "kick" /\ user # req.ap
    <3>1. phase' = "down"
      BY <2>3 DEF phase, Trying, Waits
    <3>2. ~lossy => phase = "down"
      BY <1>1, <2>3 DEF OwnIInv, phase
    <3>3. CASE lossy'
      BY <1>2, <2>1, <3>1, <3>3
    <3>4. CASE ~lossy'
      BY <1>1, <1>3, <2>1, <3>1, <3>2, <3>4
    <3>5. QED BY <3>3, <3>4
  <2>4. QED BY <1>12, <2>2, <2>3 DEF IsRefused
<1>13. QED
  BY <1>4, <1>5, <1>6, <1>7, <1>8, <1>9, <1>10, <1>11, <1>12 DEF Move

\* Every end of an attempt and of a connection is reported once and in order, unless something
\* fails, and a success only for the connection that was made: the handlers of the station
\* side implement StaConnAbs (hmac_mgmt_timeout_sta, hmac_sta_wait_asoc_rx, hmac_config_kick_user_vap).
THEOREM ConnContractHolds == StaConstants => (StaSpec => ConnContract)
<1> SUFFICES ASSUME StaConstants PROVE StaSpec => ConnContract
  OBVIOUS
<1>1. StaInit => Conn!Init
  <2>1. ASSUME StaInit PROVE phase = "down" /\ told = <<>> /\ lossy = FALSE
    <3>1. reports = <<>> /\ state = "FAKE_UP" /\ failures = 0 /\ dropped = "no"
      BY <2>1 DEF StaInit
    <3>2. told = <<>>
      BY <3>1 DEF told
    <3>3. QED BY <3>1, <3>2 DEF phase, lossy, Trying, Waits
  <2>2. QED BY <2>1 DEF Conn!Init, phase, told, lossy
<1>2. StaIInv /\ [StaNext]_sta => [Conn!Next]_<<phase, told, lossy>>
  BY ContractStep, StepDoes DEF StaIInv
<1>3. StaIInv /\ [StaNext]_sta
        => [Conn!Next]_<<IF Trying THEN "trying" ELSE IF state = "UP" THEN "up" ELSE "down",
                        [i \in DOMAIN reports |-> reports[i].kind], lossy>>
  BY <1>2 DEF phase, told
<1>4. QED BY <1>1, <1>3, StaIInvHolds, PTL DEF StaSpec, ConnContract, Conn!Spec, Conn!conn

----------------------------------------------------------------------------
(* An attempt ends: the two halves of RequestAnswered.  While the station  *)
(* waits, the timer of the wait is set; and every time-out makes what is   *)
(* left of the attempt less.                                               *)

\* the limits of retries (3, 5 and 10)
RetryConstants == StaConstants /\ MaxAuth \in Nat \ {0} /\ MaxReject \in Nat \ {0}

\* the timer is armed, its callback runs, or its event is queued
IsSet(t) == t.registered /\ (t.armed \/ t.firing \/ t.events > 0)
TryTimed == Trying /\ failures = 0 => IsSet(mgmtTimer)

\* how many requests the attempt can still send: the associations, the authentications of this
\* mode, and those of the other mode
MostAsoc == IF MaxAsoc < MaxReject THEN MaxReject ELSE MaxAsoc
Left == IF state = "WAIT_ASOC" THEN MostAsoc - asocCnt
        ELSE MostAsoc + (MaxAuth - authCnt) + (IF authMode = "auto" THEN MaxAuth + 1 ELSE 0)
RetryInv == authCnt <= MaxAuth /\ asocCnt <= MostAsoc

\* nothing but a new request of the host makes more of an attempt
LeftFalls ==
  Trying /\ Trying' /\ ~ConnectHandled => Left' <= Left /\ (MgmtTimeout => Left' < Left)

RetryTypes ==
  /\ authCnt \in Nat /\ asocCnt \in Nat /\ authMode \in Modes /\ mgmtTimer \in Timer
  /\ failures \in Nat /\ failures' \in Nat /\ failures' >= failures

LEMMA CreatedIsSet == ASSUME NEW t \in Timer PROVE IsSet(Created(t))
BY DEF IsSet, Created, Timer

LEMMA AuthSets ==
  ASSUME NEW t \in Timer, NEW ap, SendAuth(t, ap)
  PROVE  (state' = "WAIT_AUTH_SEQ2" /\ IsSet(mgmtTimer')) \/ ~Trying'
BY CreatedIsSet DEF SendAuth, Trying, Waits

LEMMA AsocSets ==
  ASSUME NEW t \in Timer, NEW first, SendAsoc(t, first)
  PROVE  (state' = "WAIT_ASOC" /\ IsSet(mgmtTimer')) \/ ~Trying'
BY CreatedIsSet, Zenon DEF SendAsoc, Trying, Waits

\* an attempt goes on with less left, or is over
Falls == ~Trying' \/ (IsSet(mgmtTimer') /\ Left' < Left)

LEMMA MostAsocType == ASSUME RetryConstants
  PROVE /\ MostAsoc \in Nat /\ MostAsoc >= 1 /\ MaxAsoc <= MostAsoc /\ MaxReject <= MostAsoc
        /\ MaxAuth \in Nat /\ MaxAuth >= 1
BY DEF MostAsoc, RetryConstants, StaConstants

LEMMA AuthFailedFalls ==
  ASSUME RetryConstants, RetryTypes, RetryInv, state \in {"WAIT_AUTH_SEQ2", "WAIT_AUTH_SEQ4"},
         NEW t \in Timer, NEW u, AuthFailed(t, u), UNCHANGED asocCnt
  PROVE  RetryInv' /\ Falls
<1>0. MostAsoc \in Nat /\ MaxAuth \in Nat /\ authCnt \in Nat /\ authCnt <= MaxAuth /\ asocCnt <= MostAsoc
  BY MostAsocType DEF RetryTypes, RetryInv
<1> HIDE DEF MostAsoc
<1>1. CASE authMode = "auto" /\ authMode' = "fixed" /\ authCnt' = 0 /\ SendAuth(t, joined)
  <2>1. RetryInv'
    BY <1>0, <1>1 DEF RetryInv
  <2>2. state' = "WAIT_AUTH_SEQ2" => Left' < Left
    BY <1>0, <1>1 DEF Left
  <2>3. QED BY <1>1, <2>1, <2>2, AuthSets DEF Falls
<1>2. CASE authCnt < MaxAuth /\ authCnt' = authCnt + 1 /\ SendAuth(t, joined) /\ UNCHANGED authMode
  <2>1. RetryInv'
    BY <1>0, <1>2 DEF RetryInv
  <2>2. state' = "WAIT_AUTH_SEQ2" => Left' < Left
    <3> DEFINE k == IF authMode = "auto" THEN MaxAuth + 1 ELSE 0
    <3>1. k \in Nat /\ k' = k
      BY <1>0, <1>2
    <3> HIDE DEF k
    <3>2. state' = "WAIT_AUTH_SEQ2" => Left' = MostAsoc + (MaxAuth - (authCnt + 1)) + k
      BY <1>2, <3>1 DEF Left, k
    <3>3. Left = MostAsoc + (MaxAuth - authCnt) + k
      BY DEF Left, k
    <3>4. QED BY <1>0, <3>1, <3>2, <3>3
  <2>3. QED BY <1>2, <2>1, <2>2, AuthSets DEF Falls
<1>3. CASE GiveUp(t) /\ UNCHANGED authCnt
  BY <1>0, <1>3 DEF GiveUp, Falls, Trying, Waits, RetryInv
<1>4. QED BY <1>1, <1>2, <1>3, Zenon DEF AuthFailed, Counted

LEMMA AsocFailedFalls ==
  ASSUME RetryConstants, RetryTypes, RetryInv, state = "WAIT_ASOC",
         NEW t \in Timer, NEW cnt \in Nat, cnt >= asocCnt, cnt <= MostAsoc,
         NEW b \in BOOLEAN, AsocFailed(t, cnt, b), UNCHANGED authCnt
  PROVE  RetryInv' /\ Falls
<1>0. MostAsoc \in Nat /\ asocCnt \in Nat /\ MaxAsoc <= MostAsoc /\ MaxReject <= MostAsoc
      /\ MaxAsoc \in Nat /\ MaxReject \in Nat
  BY MostAsocType DEF RetryTypes, RetryConstants, StaConstants
<1> HIDE DEF MostAsoc
<1>1. CASE GiveUp(t) /\ asocCnt' = cnt
  BY <1>0, <1>1 DEF GiveUp, Falls, Trying, Waits, RetryInv
<1>2. CASE ~(cnt >= (IF b THEN MaxReject ELSE MaxAsoc)) /\ asocCnt' = cnt + 1 /\ SendAsoc(t, FALSE)
  <2>1. cnt + 1 <= MostAsoc
    BY <1>0, <1>2
  <2>2. RetryInv'
    BY <1>2, <2>1 DEF RetryInv
  <2>3. state' = "WAIT_ASOC" => Left' < Left
    BY <1>0, <1>2 DEF Left
  <2>4. QED BY <1>2, <2>2, <2>3, AsocSets DEF Falls
<1>3. QED BY <1>1, <1>2, Zenon DEF AsocFailed, Counted

LEMMA AuthenticatedFalls ==
  ASSUME RetryConstants, RetryTypes, RetryInv, state \in {"WAIT_AUTH_SEQ2", "WAIT_AUTH_SEQ4"},
         NEW t \in Timer, Authenticated(t), UNCHANGED <<authMode, authCnt>>
  PROVE  RetryInv' /\ Falls
<1>0. MostAsoc \in Nat /\ MostAsoc >= 1 /\ MaxAuth \in Nat /\ authCnt \in Nat /\ authCnt <= MaxAuth
  BY MostAsocType DEF RetryTypes, RetryInv
<1> HIDE DEF MostAsoc
<1>1. asocCnt' = 1 /\ SendAsoc(t, TRUE)
  BY DEF Authenticated
<1>2. RetryInv'
  BY <1>0, <1>1 DEF RetryInv
<1>3. Left >= MostAsoc
  BY <1>0 DEF Left
<1>4. state' = "WAIT_ASOC" => Left' = MostAsoc - 1
  BY <1>1 DEF Left
<1>5. Left \in Int
  BY <1>0 DEF Left
<1>6. state' = "WAIT_ASOC" => Left' < Left
  BY <1>0, <1>3, <1>4, <1>5
<1>7. (state' = "WAIT_ASOC" /\ IsSet(mgmtTimer')) \/ ~Trying'
  BY <1>1, AsocSets
<1>8. QED BY <1>2, <1>6, <1>7, Zenon DEF Falls

LEMMA TimeoutFalls ==
  ASSUME RetryConstants, StaTypeOK, RetryTypes, RetryInv, MgmtTimeout
  PROVE  RetryInv' /\ (Trying => Falls) /\ (~Trying => ~Trying')
<1>1. Destroyed(mgmtTimer) \in Timer /\ rejected \in BOOLEAN
  BY TimerType DEF RetryTypes, StaTypeOK
<1>2. CASE state \in {"WAIT_AUTH_SEQ2", "WAIT_AUTH_SEQ4"}
  <2>1. AuthFailed(Destroyed(mgmtTimer), FALSE) /\ UNCHANGED asocCnt
    BY <1>2 DEF MgmtTimeout
  <2>2. QED BY <1>1, <1>2, <2>1, AuthFailedFalls DEF Trying, Waits
<1>3. CASE state = "WAIT_ASOC"
  <2>1. AsocFailed(Destroyed(mgmtTimer), asocCnt, rejected) /\ UNCHANGED authCnt
    BY <1>3 DEF MgmtTimeout
  <2>2. asocCnt \in Nat /\ asocCnt >= asocCnt /\ asocCnt <= MostAsoc
    BY DEF RetryTypes, RetryInv
  <2>3. QED BY <1>1, <1>3, <2>1, <2>2, AsocFailedFalls DEF Trying, Waits
<1>4. CASE ~Trying
  BY <1>4 DEF MgmtTimeout, Trying, Waits, RetryInv
<1>5. QED BY <1>2, <1>3, <1>4 DEF Trying, Waits

\* a step that is no request of the host
RetryMove ==
  \/ Trying /\ Falls
  \/ ~Trying'
  \/ /\ Trying /\ Trying' /\ Left' = Left
     /\ failures' > 0 \/ IsSet(mgmtTimer') \/ (mgmtTimer' = mgmtTimer /\ UNCHANGED failures)

LEMMA AnswerFalls ==
  ASSUME RetryConstants, StaTypeOK, RetryTypes, RetryInv, NEW x, AuthSeq2(x)
  PROVE  RetryInv' /\ RetryMove
<1>1. Destroyed(mgmtTimer) \in Timer /\ Trying /\ state = "WAIT_AUTH_SEQ2"
  BY TimerType DEF RetryTypes, AuthSeq2, Trying, Waits
<1>2. CASE Authenticated(Destroyed(mgmtTimer)) /\ UNCHANGED <<authMode, authCnt>>
  BY <1>1, <1>2, AuthenticatedFalls DEF RetryMove
<1>3. CASE AuthFailed(Destroyed(mgmtTimer), x = "unsupported") /\ UNCHANGED asocCnt
  BY <1>1, <1>3, AuthFailedFalls DEF RetryMove
<1>4. CASE /\ \/ /\ Works /\ state' = "WAIT_AUTH_SEQ4"
                 /\ mgmtTimer' = Created(Destroyed(mgmtTimer))
              \/ (Fails \/ Works) /\ UNCHANGED <<state, mgmtTimer>>
           /\ UNCHANGED <<authMode, authCnt, asocCnt>>
  <2>1. Left' = Left /\ RetryInv' /\ Trying'
    BY <1>1, <1>4 DEF Left, RetryInv, MostAsoc, Trying, Waits
  <2>2. failures' > 0 \/ IsSet(mgmtTimer') \/ (mgmtTimer' = mgmtTimer /\ UNCHANGED failures)
    BY <1>1, <1>4, CreatedIsSet DEF Fails, Works, RetryTypes
  <2>3. QED BY <1>1, <2>1, <2>2 DEF RetryMove
<1>5. QED BY <1>2, <1>3, <1>4, Zenon DEF AuthSeq2

LEMMA AsocRspFalls ==
  ASSUME RetryConstants, StaTypeOK, RetryTypes, RetryInv, NEW a, NEW x, AsocRsp(a, x)
  PROVE  RetryInv' /\ RetryMove
<1>1. /\ Destroyed(mgmtTimer) \in Timer /\ Trying /\ state = "WAIT_ASOC"
      /\ UNCHANGED <<authMode, authCnt>>
  BY TimerType DEF RetryTypes, AsocRsp, Trying, Waits
<1>2. CASE Associated(Destroyed(mgmtTimer))
  BY <1>1, <1>2 DEF Associated, RetryMove, RetryInv, MostAsoc, Trying, Waits
<1>3. CASE AsocFailed(Destroyed(mgmtTimer), MaxAsoc, FALSE)
  <2>1. asocCnt \in Nat /\ MaxAsoc \in Nat /\ MaxAsoc <= MostAsoc
    BY MostAsocType DEF RetryTypes, RetryConstants, StaConstants
  <2>2. GiveUp(Destroyed(mgmtTimer)) /\ asocCnt' = MaxAsoc
    <3>1. MaxAsoc >= (IF FALSE THEN MaxReject ELSE MaxAsoc)
      BY <2>1
    <3>2. QED BY <1>3, <3>1, Zenon DEF AsocFailed
  <2>3. QED BY <1>1, <2>1, <2>2 DEF GiveUp, RetryMove, RetryInv, RetryTypes, MostAsoc, Trying, Waits
<1>4. CASE UNCHANGED <<state, user, dropped, asocCnt, mgmtTimer, buffers, reports, failures>>
  BY <1>1, <1>4 DEF RetryMove, RetryInv, Left, MostAsoc, Trying
<1>5. QED BY <1>2, <1>3, <1>4, Zenon DEF AsocRsp

\* the steps that leave the counts alone
LEMMA OthersKeep ==
  ASSUME RetryConstants, RetryTypes, RetryInv, TryTimed,
         UNCHANGED <<authMode, authCnt, asocCnt>>,
         \/ ~Trying'
         \/ /\ UNCHANGED state
            /\ \/ mgmtTimer' = mgmtTimer /\ (Works \/ Fails)
               \/ MgmtExpires \/ MgmtPosts
  PROVE  RetryInv' /\ RetryMove
<1>1. RetryInv' /\ (UNCHANGED state => Left' = Left /\ Trying' = Trying)
  BY DEF RetryInv, MostAsoc, Left, Trying
<1>2. CASE ~Trying'
  BY <1>1, <1>2 DEF RetryMove
<1>3. CASE UNCHANGED <<state, mgmtTimer>> /\ (Works \/ Fails)
  BY <1>1, <1>3 DEF RetryMove, Works, Fails, RetryTypes
<1>4. CASE UNCHANGED state /\ (MgmtExpires \/ MgmtPosts)
  <2>1. CASE MgmtExpires
    <3>1. failures' = failures /\ mgmtTimer' = [mgmtTimer EXCEPT !.armed = FALSE, !.firing = TRUE]
      BY <2>1 DEF MgmtExpires
    <3>2. Trying => failures' > 0 \/ IsSet(mgmtTimer')
      BY <3>1 DEF TryTimed, IsSet, RetryTypes, Timer
    <3>3. QED BY <1>1, <1>4, <3>2 DEF RetryMove
  <2>2. CASE MgmtPosts
    <3>1. CASE /\ mgmtTimer.registered
               /\ mgmtTimer' = [mgmtTimer EXCEPT !.firing = FALSE, !.events = @ + 1]
      <4>1. mgmtTimer'.registered /\ mgmtTimer'.events = mgmtTimer.events + 1 /\ mgmtTimer.events \in Nat
        BY <3>1 DEF RetryTypes, Timer
      <4>2. IsSet(mgmtTimer')
        BY <4>1 DEF IsSet
      <4>3. QED BY <1>1, <1>4, <4>2 DEF RetryMove
    <3>2. CASE mgmtTimer.registered /\ Fails
      <4>1. failures' > 0
        BY <3>2 DEF Fails, RetryTypes
      <4>2. QED BY <1>1, <1>4, <4>1 DEF RetryMove
    <3>3. CASE ~mgmtTimer.registered /\ Works
      <4>1. Trying => failures' > 0
        BY <3>3 DEF TryTimed, IsSet, Works, RetryTypes
      <4>2. QED BY <1>1, <1>4, <4>1 DEF RetryMove
    <3>4. QED BY <2>2, <3>1, <3>2, <3>3 DEF MgmtPosts
  <2>3. QED BY <1>4, <2>1, <2>2
<1>5. QED BY <1>2, <1>3, <1>4

LEMMA RetryStep ==
  ASSUME RetryConstants, StaTypeOK, RetryTypes, RetryInv, TryTimed, [StaNext]_sta, ~ConnectHandled
  PROVE  RetryInv' /\ RetryMove
<1> USE DEF attempt, buffers, quiet
<1>1. ASSUME NEW x, AuthSeq2(x) PROVE RetryInv' /\ RetryMove
  BY <1>1, AnswerFalls
<1>2. CASE AuthSeq4
  <2>1. Destroyed(mgmtTimer) \in Timer /\ Trying /\ state = "WAIT_AUTH_SEQ4"
        /\ Authenticated(Destroyed(mgmtTimer)) /\ UNCHANGED <<authMode, authCnt>>
    BY <1>2, TimerType DEF RetryTypes, AuthSeq4, Trying, Waits
  <2>2. QED BY <2>1, AuthenticatedFalls DEF RetryMove
<1>3. ASSUME NEW a, NEW x, AsocRsp(a, x) PROVE RetryInv' /\ RetryMove
  BY <1>3, AsocRspFalls
<1>4. CASE MgmtTimeout
  BY <1>4, TimeoutFalls DEF RetryMove
<1>5. ASSUME Ends PROVE RetryInv' /\ RetryMove
  BY <1>5, OthersKeep DEF Ends, Trying, Waits
<1>6. CASE Lost \/ KickHandled \/ \E a \in Aps : Deauth(a)
  <2>1. CASE state' = "FAKE_UP" /\ UNCHANGED attempt
    BY <2>1, OthersKeep DEF Trying, Waits
  <2>2. QED BY <1>5, <1>6, <2>1 DEF Lost, KickHandled, Deauth
<1>7. CASE Scans
  BY <1>7, OthersKeep DEF Works, Scans, ScanStart, ScanEnd, ScanState, Trying, Waits
<1>8. CASE Clock
  BY <1>8, OthersKeep DEF Clock, MgmtExpires, MgmtPosts
<1>9. CASE Disconnect \/ Deliver \/ \E a \in Aps, m \in Modes : Connect(a, m)
  BY <1>9, OthersKeep DEF Works, Disconnect, Deliver, Connect
<1>10. CASE UNCHANGED sta
  BY <1>10, OthersKeep DEF sta, Works
<1>11. CASE DeviceDisassoc
  BY <1>11, OthersKeep DEF DeviceDisassoc
<1>12. QED BY <1>1, <1>2, <1>3, <1>4, <1>6, <1>7, <1>8, <1>9, <1>10, <1>11
          DEF StaNext, Peer, Asks, Events

\* a request of the host begins an attempt, or leaves the timer alone
LEMMA RequestStep ==
  ASSUME RetryConstants, StaTypeOK, RetryTypes, RetryInv, TryTimed, ConnectHandled
  PROVE  RetryInv' /\ TryTimed'
<1>0. MostAsoc' = MostAsoc /\ MaxAuth >= 1 /\ asocCnt' = asocCnt
  BY MostAsocType DEF MostAsoc, ConnectHandled
<1>1. CASE authCnt' = 1 /\ SendAuth(mgmtTimer, req.ap)
  <2>1. IsSet(mgmtTimer') \/ ~Trying'
    BY <1>1, AuthSets DEF RetryTypes
  <2>2. QED BY <1>0, <1>1, <2>1 DEF RetryInv, TryTimed
<1>2. CASE UNCHANGED <<state, authCnt, mgmtTimer>>
  BY <1>0, <1>2 DEF RetryInv, TryTimed, Trying, RetryTypes
<1>3. QED BY <1>1, <1>2, Zenon DEF ConnectHandled

LEMMA MoveTimes ==
  ASSUME RetryTypes, TryTimed, RetryMove
  PROVE  TryTimed'
BY DEF RetryTypes, TryTimed, RetryMove, Falls

LEMMA RetryHolds ==
  ASSUME RetryConstants, StaIInv, RetryInv, TryTimed, [StaNext]_sta
  PROVE  /\ RetryInv' /\ TryTimed' /\ (~ConnectHandled => RetryMove) /\ RetryTypes
         /\ (MgmtTimeout => (Trying => Falls))
<1>1. StaConstants /\ StaTypeOK /\ OwnIInv
  BY DEF RetryConstants, StaIInv
<1>2. RetryTypes
  <2>1. failures \in 0..MaxFailures /\ failures' \in 0..MaxFailures /\ failures' >= failures
    BY <1>1, StepDoes DEF Move, StaTypeOK
  <2>2. failures \in Nat /\ failures' \in Nat
    BY <1>1, <2>1 DEF StaConstants
  <2>3. QED BY <1>1, <2>1, <2>2 DEF RetryTypes, StaTypeOK, Timer
<1>3. CASE ConnectHandled
  BY <1>1, <1>2, <1>3, RequestStep, TimeoutFalls
<1>4. CASE ~ConnectHandled
  BY <1>1, <1>2, <1>4, RetryStep, MoveTimes, TimeoutFalls
<1>5. QED BY <1>3, <1>4

LEMMA RetryInit == RetryConstants /\ StaInit => RetryInv /\ TryTimed
BY MostAsocType DEF StaInit, RetryInv, TryTimed, Trying, Waits

\* A station that waits for an answer always has the timer of the wait set, its callback running or
\* its event queued, as long as nothing has failed: a timer that is created again under an expiry on
\* its way, destroyed, or expires beside the event task never leaves the wait without an end
\* (hmac_mgmt_timeout_sta, frw_timer_timeout_proc_event).
THEOREM WaitsAreTimed == RetryConstants => (StaSpec => []TryTimed)
<1> SUFFICES ASSUME RetryConstants PROVE StaSpec => []TryTimed
  OBVIOUS
<1>1. StaConstants
  BY DEF RetryConstants
<1>2. StaInit => RetryInv /\ TryTimed
  BY RetryInit
<1>3. StaIInv /\ RetryInv /\ TryTimed /\ [StaNext]_sta => (RetryInv /\ TryTimed)'
  BY RetryHolds
<1>4. StaSpec => []StaIInv
  BY <1>1, StaIInvHolds
<1>5. QED BY <1>2, <1>3, <1>4, PTL DEF StaSpec

\* Every time-out of a waiting station ends the attempt or makes what is left of it less, and no
\* answer, refusal, scan or other event makes it more; only a request of the host does, which
\* changes the mode of an attempt under way (hmac_handle_auth_rsp_sta, hmac_handle_asoc_rsp_sta,
\* hmac_config_connect).
THEOREM AttemptsCountDown == RetryConstants => (StaSpec => [][LeftFalls]_sta)
<1> SUFFICES ASSUME RetryConstants PROVE StaSpec => [][LeftFalls]_sta
  OBVIOUS
<1>1. StaConstants
  BY DEF RetryConstants
<1>2. StaInit => RetryInv /\ TryTimed
  BY RetryInit
<1>3. StaIInv /\ RetryInv /\ TryTimed /\ [StaNext]_sta => (RetryInv /\ TryTimed)'
  BY RetryHolds
<1>4. StaIInv /\ RetryInv /\ TryTimed /\ [StaNext]_sta => [LeftFalls]_sta
  <2> SUFFICES ASSUME StaIInv, RetryInv, TryTimed, [StaNext]_sta, Trying, Trying', ~ConnectHandled
               PROVE  Left' <= Left /\ (MgmtTimeout => Left' < Left)
    BY DEF LeftFalls
  <2>1. RetryMove /\ RetryTypes /\ (MgmtTimeout => Falls)
    BY RetryHolds
  <2>2. Left \in Int /\ (Left' = Left \/ Left' < Left)
    <3>1. Left \in Int
      BY <2>1, MostAsocType DEF Left, RetryTypes
    <3>2. QED BY <2>1, <3>1 DEF RetryMove, Falls
  <2>3. Left' \in Int
    <3>1. RetryInv' /\ authCnt' \in Nat /\ asocCnt' \in Nat
      BY <1>1, RetryHolds, StepDoes DEF StaIInv, CtlType
    <3>2. Left' \in Int
      BY <3>1, MostAsocType DEF Left, MostAsoc
    <3>3. QED BY <3>2
  <2>4. QED BY <2>1, <2>2, <2>3 DEF Falls
<1>5. StaSpec => []StaIInv
  BY <1>1, StaIInvHolds
<1>6. QED BY <1>2, <1>3, <1>4, <1>5, PTL DEF StaSpec

\* What is left of an attempt is never below zero, so that it can be counted down only so often.
THEOREM AttemptsAreBounded == RetryConstants => (StaSpec => [](Left \in Nat))
<1> SUFFICES ASSUME RetryConstants PROVE StaSpec => [](Left \in Nat)
  OBVIOUS
<1>1. StaConstants
  BY DEF RetryConstants
<1>2. StaInit => RetryInv /\ TryTimed
  BY RetryInit
<1>3. StaIInv /\ RetryInv /\ TryTimed /\ [StaNext]_sta => (RetryInv /\ TryTimed)'
  BY RetryHolds
<1>4. StaIInv /\ RetryInv => Left \in Nat
  <2> SUFFICES ASSUME StaTypeOK, RetryInv PROVE Left \in Nat
    BY DEF StaIInv
  <2>1. /\ MostAsoc \in Nat /\ MaxAuth \in Nat /\ authCnt \in Nat /\ asocCnt \in Nat
        /\ authCnt <= MaxAuth /\ asocCnt <= MostAsoc
    BY MostAsocType DEF RetryInv, StaTypeOK
  <2> HIDE DEF MostAsoc
  <2>2. QED BY <2>1 DEF Left
<1>5. StaSpec => []StaIInv
  BY <1>1, StaIInvHolds
<1>6. QED BY <1>2, <1>3, <1>4, <1>5, PTL DEF StaSpec
=============================================================================
