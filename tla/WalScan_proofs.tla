--------------------------- MODULE WalScan_proofs ---------------------------
(***************************************************************************)
(* Proofs about WalScan for every number of requests and of upsets: the    *)
(* scan service implements WalScanAbs.                                     *)
(***************************************************************************)
EXTENDS WalScan, TLAPS

USE BoundsAssumption

----------------------------------------------------------------------------
(* wal_cfg80211_scan takes a request only when "complete" is set: by then  *)
(* the last one is over, unless the thread itself is between taking it and *)
(* marking it, or between giving it up and clearing it.  Until its call    *)
(* returns, the newest request is open or was reported.                    *)

IInv ==
  /\ pc \in [Threads -> Labels]
  /\ complete \in BOOLEAN
  /\ last \in Nat
  /\ request \in 0..last
  /\ reported \subseteq 1..last /\ failed \subseteq 1..last
  /\ request \notin reported
  /\ complete /\ pc["scan"] \notin {"parse", "clear"} => request = 0
  /\ pc["scan"] # "idle" => last # 0 /\ (request = last \/ last \in reported)

absVars == <<request, Calling, reported, failed>>

Quiet == UNCHANGED <<request, complete, last, reported, failed>>

\* where a step leaves the scanning thread
ScanStays == pc'["scan"] = pc["scan"] /\ pc' \in [Threads -> Labels]

LEMMA GotoStays ==
  ASSUME IInv, NEW p \in Threads, NEW l \in Labels, Goto(p, l)
  PROVE  pc' \in [Threads -> Labels] /\ pc'[p] = l /\ (p # "scan" => ScanStays)
BY DEF IInv, Goto, ScanStays, Threads

\* a step that touches neither the request nor where its thread is
LEMMA QuietStep ==
  ASSUME IInv, Quiet, ScanStays
  PROVE  IInv' /\ UNCHANGED absVars
BY DEF IInv, Quiet, ScanStays, absVars, Calling, At

LEMMA ReportStep ==
  ASSUME IInv, request # 0, Report, UNCHANGED <<last, failed>>, ScanStays
  PROVE  IInv' /\ Abs!Report
<1>1. request \in 1..last /\ request' = 0 /\ reported' = reported \cup {request}
  BY DEF IInv, Report
<1>2. IInv'
  BY <1>1 DEF IInv, ScanStays, Report
<1>3. Abs!Report
  BY <1>1 DEF IInv, Abs!Report, Calling, At, ScanStays
<1>4. QED BY <1>2, <1>3

LEMMA TakeStep ==
  ASSUME IInv, ScanTake
  PROVE  IInv' /\ Abs!Take
<1>1. pc' \in [Threads -> Labels] /\ pc'["scan"] = "parse"
  BY GotoStays DEF ScanTake, Threads, Labels
<1>2. /\ request = 0 /\ request' = last + 1 /\ last' = last + 1 /\ Calling = 0
      /\ UNCHANGED <<complete, reported, failed>>
  BY DEF IInv, ScanTake, At, Calling
<1>3. /\ last + 1 \in Nat \ {0} /\ last + 1 \notin reported \cup failed
      /\ 1..last \subseteq 1..last + 1
  BY DEF IInv
<1>4. IInv'
  BY <1>1, <1>2, <1>3 DEF IInv
<1>5. Abs!Take
  BY <1>1, <1>2, <1>3 DEF Abs!Take, Calling, At
<1>6. QED BY <1>4, <1>5

\* a step of the thread that moves on and leaves the request alone
LEMMA ScanMoves ==
  ASSUME IInv, NEW l \in Labels, Goto("scan", l), UNCHANGED <<request, last, reported, failed>>,
         pc["scan"] # "idle", l # "idle",
         complete' \in BOOLEAN, complete' => l \in {"parse", "clear"} \/ request = 0
  PROVE  IInv' /\ UNCHANGED absVars
<1>1. pc' \in [Threads -> Labels] /\ pc'["scan"] = l
  BY GotoStays DEF Threads
<1>2. QED BY <1>1 DEF IInv, absVars, Calling, At

LEMMA ScanThreadStep ==
  ASSUME IInv, ScanThread
  PROVE  IInv' /\ (Abs!Succeed \/ Abs!Fail \/ UNCHANGED absVars)
<1>0. complete \in BOOLEAN
  BY DEF IInv
<1>1. CASE ScanUnusable
  BY <1>0, <1>1, ScanMoves DEF ScanUnusable, At, stateVars, histVars, pastVars, Labels
<1>2. CASE ScanMark
  BY <1>2, ScanMoves DEF ScanMark, At, histVars, pastVars, Labels
<1>3. CASE ScanSend
  <2>1. (complete => request = 0) /\ pc["scan"] # "idle"
    BY <1>3 DEF IInv, ScanSend, At
  <2>2. (Goto("scan", "wait") \/ Goto("scan", "failed"))
        /\ UNCHANGED <<request, complete, last, reported, failed>>
    BY <1>3 DEF ScanSend, stateVars, pastVars
  <2>3. QED BY <1>0, <2>1, <2>2, ScanMoves DEF Labels
<1>4. CASE ScanAnswered
  <2>1. (complete => request = 0) /\ pc["scan"] # "idle"
    BY <1>4 DEF IInv, ScanAnswered, At
  <2>2. (Goto("scan", "closeAgeing") \/ Goto("scan", "failed"))
        /\ UNCHANGED <<request, complete, last, reported, failed>>
    BY <1>4 DEF ScanAnswered, stateVars, histVars, pastVars
  <2>3. QED BY <1>0, <2>1, <2>2, ScanMoves DEF Labels
<1>5. CASE ScanWaitTimeout
  <2>1. (complete => request = 0) /\ pc["scan"] # "idle"
    BY <1>5 DEF IInv, ScanWaitTimeout, At
  <2>2. QED BY <1>0, <1>5, <2>1, ScanMoves DEF ScanWaitTimeout, stateVars, pastVars, Labels
<1>6. CASE ScanFailed
  BY <1>6, ScanMoves DEF ScanFailed, At, histVars, pastVars, Labels
<1>7. CASE ScanClear
  <2>1. pc' \in [Threads -> Labels] /\ pc'["scan"] = "idle"
    BY <1>7, GotoStays DEF ScanClear, Threads, Labels
  <2>2. /\ request' = 0 /\ failed' = failed \cup {last} /\ pc["scan"] = "clear"
        /\ UNCHANGED <<complete, last, reported>>
    BY <1>7 DEF ScanClear, At
  <2>3. last \in 1..last
    BY <2>2 DEF IInv
  <2>4. IInv'
    BY <2>1, <2>2, <2>3 DEF IInv
  <2>5. Abs!Fail
    BY <2>1, <2>2, <2>3 DEF IInv, Abs!Fail, Abs!Accounted, Calling, At
  <2>6. QED BY <2>4, <2>5
<1>8. CASE ScanCloseAgeing
  <2>1. (complete => request = 0) /\ pc["scan"] # "idle"
    BY <1>8 DEF IInv, ScanCloseAgeing, At
  <2>2. QED BY <1>0, <1>8, <2>1, ScanMoves
        DEF ScanCloseAgeing, stateVars, histVars, pastVars, Labels
<1>9. CASE ScanStartGuard
  <2>1. pc' \in [Threads -> Labels] /\ pc'["scan"] = "idle"
    BY <1>9, GotoStays DEF ScanStartGuard, Threads, Labels
  <2>2. pc["scan"] = "startGuard" /\ Quiet
    BY <1>9 DEF ScanStartGuard, At, stateVars, Quiet
  <2>3. IInv'
    BY <2>1, <2>2 DEF IInv, Quiet
  <2>4. Abs!Succeed
    BY <2>1, <2>2 DEF IInv, Quiet, Abs!Succeed, Abs!Accounted, Calling, At
  <2>5. QED BY <2>3, <2>4
<1>10. QED BY <1>1, <1>2, <1>3, <1>4, <1>5, <1>6, <1>7, <1>8, <1>9 DEF ScanThread

LEMMA StopThreadStep ==
  ASSUME IInv, StopBegin \/ StopThread
  PROVE  IInv' /\ (Abs!Report \/ UNCHANGED absVars)
<1>1. CASE StopBegin
  <2>1. Goto("stop", IF request # 0 THEN "destroy" ELSE IF scanning THEN "abort" ELSE "idle")
        /\ Quiet
    BY <1>1 DEF StopBegin, stateVars, Quiet
  <2>2. ScanStays
    BY <2>1, GotoStays DEF Threads, Labels
  <2>3. QED BY <2>1, <2>2, QuietStep
<1>2. CASE StopDestroy
  BY <1>2, GotoStays, QuietStep
  DEF StopDestroy, stateVars, histVars, pastVars, Quiet, Threads, Labels
<1>3. CASE StopTest
  <2>1. Goto("stop", IF request # 0 THEN "end" ELSE "idle") /\ Quiet
    BY <1>3 DEF StopTest, stateVars, histVars, pastVars, Quiet
  <2>2. QED BY <2>1, GotoStays, QuietStep DEF Threads, Labels
<1>4. CASE StopEnd
  <2>1. CASE request # 0
    <3>1. Report /\ Goto("stop", "abort") /\ UNCHANGED <<last, failed>>
      BY <1>4, <2>1 DEF StopEnd
    <3>2. ScanStays
      BY <3>1, GotoStays DEF Threads, Labels
    <3>3. QED BY <2>1, <3>1, <3>2, ReportStep
  <2>2. CASE request = 0
    BY <1>4, <2>2, QuietStep DEF StopEnd, Quiet, ScanStays, IInv
  <2>3. QED BY <2>1, <2>2
<1>5. CASE StopAbort
  BY <1>5, GotoStays, QuietStep DEF StopAbort, stateVars, histVars, pastVars, Quiet, Threads, Labels
<1>6. QED BY <1>1, <1>2, <1>3, <1>4, <1>5 DEF StopThread

\* the event handlers: two of them report, the others leave the request alone
LEMMA FrwStep ==
  ASSUME IInv, Frw
  PROVE  IInv' /\ (Abs!Report \/ UNCHANGED absVars)
<1>0. UNCHANGED pc => ScanStays
  BY DEF IInv, ScanStays
<1>1. CASE StartRefused \/ StartException \/ StartNoMemory \/ StartAccepted
  <2>1. UNCHANGED pc /\ Quiet
    BY <1>1 DEF StartRefused, StartException, StartNoMemory, StartAccepted, stateVars, histVars,
                pastVars, Quiet
  <2>2. QED BY <1>0, <2>1, QuietStep
<1>2. CASE AbortHandled \/ CleanHandled \/ DeviceComp \/ HmacTimeout \/ CleanTimeout
  <2>1. UNCHANGED pc /\ Quiet
    BY <1>2 DEF AbortHandled, CleanHandled, DeviceComp, HmacTimeout, CleanTimeout, AbortScan,
                stateVars, histVars, pastVars, Quiet
  <2>2. QED BY <1>0, <2>1, QuietStep
<1>3. CASE ScanTimeout
  <2>1. UNCHANGED pc /\ UNCHANGED <<last, failed>>
    BY <1>3 DEF ScanTimeout
  <2>2. CASE request # 0
    BY <1>0, <1>3, <2>1, <2>2, ReportStep DEF ScanTimeout
  <2>3. CASE request = 0
    BY <1>0, <1>3, <2>1, <2>3, QuietStep DEF ScanTimeout, Quiet
  <2>4. QED BY <2>2, <2>3
<1>4. CASE CompTake
  BY <1>4, GotoStays, QuietStep DEF CompTake, stateVars, histVars, pastVars, Quiet, Threads, Labels
<1>5. CASE CompReport
  <2>1. Goto("frw", "compClean") /\ UNCHANGED <<last, failed>>
    BY <1>5 DEF CompReport
  <2>2. ScanStays
    BY <2>1, GotoStays DEF Threads, Labels
  <2>3. CASE request # 0
    BY <1>5, <2>1, <2>2, <2>3, ReportStep DEF CompReport
  <2>4. CASE request = 0
    BY <1>5, <2>1, <2>2, <2>4, QuietStep DEF CompReport, Quiet
  <2>5. QED BY <2>3, <2>4
<1>6. CASE CompAgeing
  BY <1>6, GotoStays, QuietStep
  DEF CompAgeing, stateVars, histVars, pastVars, Quiet, Threads, Labels
<1>7. QED BY <1>1, <1>2, <1>3, <1>4, <1>5, <1>6 DEF Frw

LEMMA NextStep ==
  ASSUME IInv, [Next]_vars
  PROVE  IInv' /\ [Abs!Next]_absVars
<1>0. UNCHANGED pc => ScanStays
  BY DEF IInv, ScanStays
<1>1. CASE ScanTake
  BY <1>1, TakeStep DEF Abs!Next
<1>2. CASE ScanThread
  BY <1>2, ScanThreadStep DEF Abs!Next
<1>3. CASE StopBegin \/ StopThread
  BY <1>3, StopThreadStep DEF Abs!Next
<1>4. CASE Frw
  BY <1>4, FrwStep DEF Abs!Next
<1>5. CASE DeviceFinishes
  BY <1>0, <1>5, QuietStep DEF DeviceFinishes, stateVars, pastVars, Quiet
<1>6. ASSUME NEW t \in Timers, TimerExpires(t) \/ TimerPosts(t)
      PROVE  IInv' /\ UNCHANGED absVars
  BY <1>0, <1>6, QuietStep DEF TimerExpires, TimerPosts, stateVars, histVars, pastVars, Quiet
<1>7. CASE UNCHANGED vars
  BY <1>0, <1>7, QuietStep DEF vars, stateVars, histVars, pastVars, Quiet
<1>8. QED BY <1>1, <1>2, <1>3, <1>4, <1>5, <1>6, <1>7 DEF Next

\* Completion, either guard's time-out, a forced end and a failing call may meet in any order: a
\* request of wal_cfg80211_scan is taken only when none is open, only the open one is reported, at
\* most once, and until its call returns the newest is open or was reported, so none is dropped
\* silently (wal_scan_comp_proc_sta, wal_wait_for_scan_timeout_fn, wal_force_scan_complete,
\* wal_cfg80211_scan).  A guard left by one request may still end the next one, and the call of a
\* request that was reported may fail: the contract allows both, as the code does.
THEOREM ScanContractHolds == Spec => ScanContract
<1>1. Init => IInv /\ Abs!Init
  BY DEF Init, IInv, Abs!Init, Threads, Labels, Calling, At
<1>2. IInv /\ [Next]_vars => IInv' /\ [Abs!Next]_absVars
  BY NextStep
<1>3. QED BY <1>1, <1>2, PTL DEF Spec, ScanContract, Abs!Spec, Abs!vars, absVars

=============================================================================
