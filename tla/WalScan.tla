------------------------------ MODULE WalScan ------------------------------
(***************************************************************************)
(* A scan requested through cfg80211, from the request to its report       *)
(* (wal/wal_scan.c, wal/wal_cfg80211.c, wal/wal_event.c,                   *)
(* mac/hmac/hmac_scan.c, HDF build), with the timers of frw/frw_timer.c    *)
(* and the synchronous configuration events of wal/wal_event_msg.c.        *)
(*                                                                         *)
(* Threads: "scan" (wal_cfg80211_scan), "stop" (wal_force_scan_complete),  *)
(* "frw" (the event task: every event and timer handler runs on it, one at *)
(* a time).  Events of different types wait in different queues and may    *)
(* overtake each other; the events of one queue may not.  The section      *)
(* under st_scan_request_spinlock is one step.                             *)
(***************************************************************************)
EXTENDS Naturals, SequencesExt

CONSTANTS
  MaxScans,    \* bound on the requests
  MaxUpsets    \* bound on the forced completions and the faults together: lost
               \* events, failed allocations, configuration time-outs

ASSUME BoundsAssumption == MaxScans \in Nat /\ MaxUpsets \in Nat

VARIABLES
  pc,          \* where each thread is
  request,     \* scan_mgmt.request: the number of the request, 0 for NULL
  complete,    \* scan_mgmt.complete
  scanning,    \* scan_mgmt.is_scanning
  fnCb,        \* scan_record_mgmt.fn_cb is set
  reg,         \* the frw timers that are registered (is_registerd)
  armed,       \* those whose kernel timer is pending
  firing,      \* those whose kernel callback runs and has not read timer_id
  tmo,         \* queue TIMEOUT: the timer each event was posted for
  hmacFirst,   \* both guards are pending, the hmac guard was started first
  crx,         \* queue HOST_CRX: configuration events
  comps,       \* queue HOST_CTX: number of SCAN_COMP_STA events
  devDone,     \* queue WLAN_CRX: number of scan completions of the device
  dev,         \* the device is scanning
  answer,      \* response stored for the waiting START request
  last,        \* number of the newest request
  reported,    \* history: the requests whose end was reported
  failed,      \* history: the requests whose call returned a failure
  stops, faults,
  oops,        \* the request was dereferenced after it had been freed
  guardOf,     \* history: the request for which the guard was started last
  astray       \* history: that guard was started when the end of its request had begun
               \* or with an expiry of the last guard still queued, or the expiry of an
               \* earlier registration was posted with its timer_id

stateVars == <<request, complete, scanning, fnCb>>
timerVars == <<reg, armed, firing, tmo, hmacFirst>>
eventVars == <<crx, comps, devDone>>
guardVars == <<guardOf, astray>>
pastVars  == <<last, reported, failed, stops, oops, guardVars>>
histVars  == <<pastVars, faults>>
vars == <<pc, stateVars, timerVars, eventVars, dev, answer, histVars>>

Timers  == {"hmac", "scan", "clean"}
Threads == {"scan", "stop", "frw"}
Answers == {"none", "ok", "fail"}
Labels  == {"idle", "parse", "send", "wait", "closeAgeing", "startGuard", "failed", "clear",
            "destroy", "test", "end", "abort", "compLock", "compClean"}

TypeOK ==
  /\ pc \in [Threads -> Labels]
  /\ request \in 0..MaxScans
  /\ complete \in BOOLEAN /\ scanning \in BOOLEAN /\ fnCb \in BOOLEAN
  /\ reg \in SUBSET Timers /\ armed \in SUBSET reg /\ firing \in SUBSET Timers
  /\ tmo \in Seq(reg) /\ hmacFirst \in BOOLEAN
  /\ crx \in Seq({"START", "ABORT", "CLEAN"})
  /\ comps \in Nat /\ devDone \in Nat
  /\ dev \in BOOLEAN
  /\ answer \in Answers
  /\ last \in 0..MaxScans
  /\ reported \in SUBSET (1..MaxScans) /\ failed \in SUBSET (1..MaxScans)
  /\ stops \in Nat /\ faults \in Nat /\ stops + faults <= MaxUpsets
  /\ oops \in BOOLEAN
  /\ guardOf \in 0..MaxScans /\ astray \in BOOLEAN

\* hmac_scan_init
Init ==
  /\ pc = [p \in Threads |-> "idle"]
  /\ request = 0 /\ complete = TRUE /\ scanning = FALSE /\ fnCb = FALSE
  /\ reg = {} /\ armed = {} /\ firing = {} /\ tmo = <<>> /\ hmacFirst = FALSE
  /\ crx = <<>> /\ comps = 0 /\ devDone = 0
  /\ dev = FALSE
  /\ answer = "none"
  /\ last = 0 /\ reported = {} /\ failed = {} /\ stops = 0 /\ faults = 0
  /\ oops = FALSE
  /\ guardOf = 0 /\ astray = FALSE

At(p, l) == pc[p] = l
Goto(p, l) == pc' = [pc EXCEPT ![p] = l]

Fault == stops + faults < MaxUpsets /\ faults' = faults + 1

-----------------------------------------------------------------------------
(* frw_timer.c.  A registration has its own timer_id, so the event of a    *)
(* timer that is destroyed finds nothing: destroying removes it.           *)

CreateTimer(t) ==
  /\ reg' = reg \cup {t} /\ armed' = armed \cup {t}
  /\ hmacFirst' = CASE t = "hmac" -> FALSE
                    [] t = "scan" -> "hmac" \in armed
                    [] OTHER -> hmacFirst
  /\ UNCHANGED <<firing, tmo>>

DestroyTimer(t) ==
  /\ reg' = reg \ {t} /\ armed' = armed \ {t}
  /\ tmo' = SelectSeq(tmo, LAMBDA x : x # t)
  /\ hmacFirst' = (hmacFirst /\ t = "clean")
  /\ UNCHANGED firing

\* the kernel timer expires.  The guard of hmac (4.5 s) expires before the
\* guard of the request (5 s) if it was started first.
TimerExpires(t) ==
  /\ t \in armed
  /\ ~(t = "scan" /\ hmacFirst)
  /\ armed' = armed \ {t} /\ firing' = firing \cup {t}
  /\ hmacFirst' = (hmacFirst /\ t = "clean")
  /\ UNCHANGED <<pc, stateVars, reg, tmo, eventVars, dev, answer, histVars>>

\* frw_timer_timeout_proc_event posts the timer_id it reads now, or loses it
TimerPosts(t) ==
  /\ t \in firing
  /\ firing' = firing \ {t}
  /\ \/ tmo' = (IF t \in reg THEN Append(tmo, t) ELSE tmo) /\ UNCHANGED faults
     \/ Fault /\ UNCHANGED tmo
  /\ astray' = (astray \/ (t = "scan" /\ t \in armed))
  /\ UNCHANGED <<pc, stateVars, reg, armed, hmacFirst, eventVars, dev, answer, last, reported,
                 failed, stops, oops, guardOf>>

-----------------------------------------------------------------------------
(* wal_cfg80211_scan and wal_start_scan_req                                *)

\* a scan that is not complete refuses the next one; else keep the request
ScanTake ==
  /\ At("scan", "idle")
  /\ complete
  /\ last < MaxScans
  /\ last' = last + 1
  /\ request' = last + 1
  /\ Goto("scan", "parse")
  /\ UNCHANGED <<complete, scanning, fnCb, timerVars, eventVars, dev, answer, reported, failed,
                 stops, faults, oops, guardVars>>

\* no memory, or channels that do not parse
ScanUnusable ==
  /\ At("scan", "parse")
  /\ Goto("scan", "clear")
  /\ UNCHANGED <<stateVars, timerVars, eventVars, dev, answer, histVars>>

ScanMark ==
  /\ At("scan", "parse")
  /\ complete' = FALSE
  /\ Goto("scan", "send")
  /\ UNCHANGED <<request, scanning, fnCb, timerVars, eventVars, dev, answer, histVars>>

\* wal_send_cfg_event posts the event and waits
ScanSend ==
  /\ At("scan", "send")
  /\ \/ crx' = Append(crx, "START") /\ Goto("scan", "wait") /\ UNCHANGED faults
     \/ Fault /\ Goto("scan", "failed") /\ UNCHANGED crx
  /\ UNCHANGED <<stateVars, timerVars, comps, devDone, dev, answer, pastVars>>

ScanAnswered ==
  /\ At("scan", "wait")
  /\ answer # "none"
  /\ Goto("scan", IF answer = "ok" THEN "closeAgeing" ELSE "failed")
  /\ answer' = "none"
  /\ UNCHANGED <<stateVars, timerVars, eventVars, dev, histVars>>

\* ten seconds without an answer: the event stays in its queue
ScanWaitTimeout ==
  /\ At("scan", "wait")
  /\ answer = "none"
  /\ Fault
  /\ Goto("scan", "failed")
  /\ UNCHANGED <<stateVars, timerVars, eventVars, dev, answer, pastVars>>

ScanFailed ==
  /\ At("scan", "failed")
  /\ complete' = TRUE
  /\ Goto("scan", "clear")
  /\ UNCHANGED <<request, scanning, fnCb, timerVars, eventVars, dev, answer, histVars>>

ScanClear ==
  /\ At("scan", "clear")
  /\ request' = 0
  /\ failed' = failed \cup {last}
  /\ Goto("scan", "idle")
  /\ UNCHANGED <<complete, scanning, fnCb, timerVars, eventVars, dev, answer, last, reported,
                 stops, faults, oops, guardVars>>

\* wal_process_timer_for_scan tests the guard, and destroys the ageing timer
ScanCloseAgeing ==
  /\ At("scan", "closeAgeing")
  /\ IF "scan" \in reg THEN DestroyTimer("clean") ELSE UNCHANGED timerVars
  /\ Goto("scan", "startGuard")
  /\ UNCHANGED <<stateVars, eventVars, dev, answer, histVars>>

ScanStartGuard ==
  /\ At("scan", "startGuard")
  /\ CreateTimer("scan")
  /\ guardOf' = last
  /\ astray' = (\/ request = 0 \/ pc["stop"] \in {"test", "end"} \/ At("frw", "compLock")
                \/ "scan" \in ToSet(tmo))
  /\ Goto("scan", "idle")
  /\ UNCHANGED <<stateVars, eventVars, dev, answer, last, reported, failed, stops, faults, oops>>

ScanThread == \/ ScanUnusable \/ ScanMark \/ ScanSend \/ ScanAnswered \/ ScanWaitTimeout
              \/ ScanFailed \/ ScanClear \/ ScanCloseAgeing \/ ScanStartGuard

-----------------------------------------------------------------------------
(* The end of a request, under the spin lock (which a thread that crashed  *)
(* in the section never releases).                                         *)

Report_KeepsRequest ==        \* variant: the pointer is left behind
  /\ reported' = reported \cup {request}
  /\ complete' = TRUE
  /\ UNCHANGED request

Report == /\ reported' = reported \cup {request}
          /\ request' = 0
          /\ complete' = TRUE

(* wal_force_scan_complete of the vap that scans                           *)

StopBegin ==
  /\ At("stop", "idle")
  /\ stops + faults < MaxUpsets
  /\ stops' = stops + 1
  /\ Goto("stop", IF request # 0 THEN "destroy" ELSE IF scanning THEN "abort" ELSE "idle")
  /\ UNCHANGED <<stateVars, timerVars, eventVars, dev, answer, last, reported, failed, faults,
                 oops, guardVars>>

StopDestroy ==
  /\ At("stop", "destroy")
  /\ DestroyTimer("scan")
  /\ Goto("stop", "test")
  /\ UNCHANGED <<stateVars, eventVars, dev, answer, histVars>>

\* request is tested again, but before the lock is taken
StopTest ==
  /\ At("stop", "test")
  /\ Goto("stop", IF request # 0 THEN "end" ELSE "idle")
  /\ UNCHANGED <<stateVars, timerVars, eventVars, dev, answer, histVars>>

StopEnd ==
  /\ At("stop", "end")
  /\ IF request # 0 THEN Report /\ Goto("stop", "abort") /\ UNCHANGED oops
     ELSE oops' = TRUE /\ UNCHANGED <<pc, request, complete, reported>>
  /\ UNCHANGED <<scanning, fnCb, timerVars, eventVars, dev, answer, last, failed, stops, faults,
                 guardVars>>

\* wal_send_scan_abort_msg: its failure and its time-out are only logged, so
\* the abort may never be posted and its answer does not matter
StopAbort ==
  /\ At("stop", "abort")
  /\ \/ crx' = Append(crx, "ABORT") \/ UNCHANGED crx
  /\ Goto("stop", "idle")
  /\ UNCHANGED <<stateVars, timerVars, comps, devDone, dev, answer, histVars>>

StopThread == StopDestroy \/ StopTest \/ StopEnd \/ StopAbort

-----------------------------------------------------------------------------
(* The event task                                                          *)

\* the response finds its request by the address on the caller's stack, which
\* is the same for every call of the same function
AnswerScan(a) == answer' = IF At("scan", "wait") THEN a ELSE answer

PostComp == \/ comps' = comps + 1 /\ UNCHANGED faults
            \/ Fault /\ UNCHANGED comps

FrwTakes(e) == At("frw", "idle") /\ crx # <<>> /\ Head(crx) = e /\ crx' = Tail(crx)

\* hmac_process_scan_req: the state of the vap or of another vap, the
\* parameters or a running scan forbid the scan
StartRefused ==
  /\ FrwTakes("START")
  /\ AnswerScan("fail")
  /\ UNCHANGED <<pc, stateVars, timerVars, comps, devDone, dev, histVars>>

\* a vap state that cannot scan reports the scan complete at once
StartException ==
  /\ FrwTakes("START")
  /\ \/ comps' = comps + 1 /\ AnswerScan("ok") /\ UNCHANGED faults
     \/ Fault /\ AnswerScan("fail") /\ UNCHANGED comps
  /\ UNCHANGED <<pc, stateVars, timerVars, devDone, dev, pastVars>>

\* no event memory for the request to the device
StartNoMemory ==
  /\ FrwTakes("START")
  /\ ~scanning
  /\ Fault
  /\ fnCb' = TRUE
  /\ AnswerScan("fail")
  /\ UNCHANGED <<pc, request, complete, scanning, timerVars, comps, devDone, dev, pastVars>>

\* hmac_scan_proc_scan_req_event; the message to the device may be lost
StartAccepted ==
  /\ FrwTakes("START")
  /\ ~scanning
  /\ scanning' = TRUE
  /\ fnCb' = TRUE
  /\ CreateTimer("hmac")
  /\ \/ dev' = TRUE /\ UNCHANGED faults
     \/ Fault /\ UNCHANGED dev
  /\ AnswerScan("ok")
  /\ UNCHANGED <<pc, request, complete, comps, devDone, pastVars>>

\* hmac_config_scan_abort: the guard timer is left running
AbortScan == scanning' = FALSE /\ fnCb' = FALSE /\ dev' = FALSE

AbortHandled ==
  /\ FrwTakes("ABORT")
  /\ AbortScan
  /\ UNCHANGED <<pc, request, complete, timerVars, comps, devDone, answer, histVars>>

\* hmac_scan_clean_result (the scan results are not modelled)
CleanHandled ==
  /\ FrwTakes("CLEAN")
  /\ UNCHANGED <<pc, stateVars, timerVars, comps, devDone, dev, answer, histVars>>

\* hmac_scan_proc_scan_comp_event (the cookie of a basic scan is always 0)
DeviceComp ==
  /\ At("frw", "idle")
  /\ devDone > 0
  /\ devDone' = devDone - 1
  /\ DestroyTimer("hmac")
  /\ IF fnCb THEN PostComp ELSE UNCHANGED <<comps, faults>>
  /\ scanning' = FALSE
  /\ UNCHANGED <<pc, request, complete, fnCb, crx, dev, answer, pastVars>>

FrwTimer(t) == At("frw", "idle") /\ tmo # <<>> /\ Head(tmo) = t /\ tmo' = Tail(tmo)

\* hmac_scan_proc_scan_timeout_fn: report through fn_cb, then abort
HmacTimeout ==
  /\ FrwTimer("hmac")
  /\ IF fnCb THEN PostComp ELSE UNCHANGED <<comps, faults>>
  /\ AbortScan
  /\ UNCHANGED <<pc, request, complete, reg, armed, firing, hmacFirst, crx, devDone, answer,
                 pastVars>>

ScanTimeout_NoReport ==       \* variant: only the driver's own state is reset
  /\ FrwTimer("scan")
  /\ ~oops
  /\ scanning' = FALSE
  /\ UNCHANGED <<request, complete, reported>>
  /\ UNCHANGED <<pc, fnCb, reg, armed, firing, hmacFirst, eventVars, dev, answer, last, failed,
                 stops, faults, oops, guardVars>>

\* wal_wait_for_scan_timeout_fn
ScanTimeout ==
  /\ FrwTimer("scan")
  /\ ~oops
  /\ IF request # 0 THEN Report /\ scanning' = FALSE
     ELSE UNCHANGED <<request, complete, reported, scanning>>
  /\ UNCHANGED <<pc, fnCb, reg, armed, firing, hmacFirst, eventVars, dev, answer, last, failed,
                 stops, faults, oops, guardVars>>

\* wal_scan_result_clean_timeout_fn
CleanTimeout ==
  /\ FrwTimer("clean")
  /\ \/ crx' = Append(crx, "CLEAN") /\ UNCHANGED faults
     \/ Fault /\ UNCHANGED crx
  /\ UNCHANGED <<pc, stateVars, reg, armed, firing, hmacFirst, comps, devDone, dev, answer,
                 pastVars>>

CompTake_KeepsGuard ==        \* variant: the completion leaves the guard running
  /\ At("frw", "idle")
  /\ comps > 0
  /\ comps' = comps - 1
  /\ Goto("frw", "compLock")
  /\ UNCHANGED <<stateVars, timerVars, crx, devDone, dev, answer, histVars>>

\* wal_scan_comp_proc_sta: close the guard, report, start the ageing timer
CompTake ==
  /\ At("frw", "idle")
  /\ comps > 0
  /\ comps' = comps - 1
  /\ DestroyTimer("scan")
  /\ Goto("frw", "compLock")
  /\ UNCHANGED <<stateVars, crx, devDone, dev, answer, histVars>>

CompReport ==
  /\ At("frw", "compLock")
  /\ ~oops
  /\ IF request # 0 THEN Report ELSE UNCHANGED <<request, complete, reported>>
  /\ Goto("frw", "compClean")
  /\ UNCHANGED <<scanning, fnCb, timerVars, eventVars, dev, answer, last, failed, stops, faults,
                 oops, guardVars>>

CompAgeing ==
  /\ At("frw", "compClean")
  /\ CreateTimer("clean")
  /\ Goto("frw", "idle")
  /\ UNCHANGED <<stateVars, eventVars, dev, answer, histVars>>

Frw == \/ StartRefused \/ StartException \/ StartNoMemory \/ StartAccepted
       \/ AbortHandled \/ CleanHandled \/ DeviceComp
       \/ HmacTimeout \/ ScanTimeout \/ CleanTimeout
       \/ CompTake \/ CompReport \/ CompAgeing

\* the device (external) completes its scan; the report to the host may be lost
DeviceFinishes ==
  /\ dev
  /\ dev' = FALSE
  /\ \/ devDone' = devDone + 1 /\ UNCHANGED faults
     \/ Fault /\ UNCHANGED devDone
  /\ UNCHANGED <<pc, stateVars, timerVars, crx, comps, answer, pastVars>>

-----------------------------------------------------------------------------
Next == \/ ScanTake \/ ScanThread \/ StopBegin \/ StopThread \/ Frw \/ DeviceFinishes
        \/ \E t \in Timers : TimerExpires(t) \/ TimerPosts(t)

Spec == Init /\ [][Next]_vars

Fairness ==
  /\ WF_vars(ScanThread) /\ WF_vars(StopThread) /\ WF_vars(Frw)
  /\ \A t \in Timers : WF_vars(TimerExpires(t)) /\ WF_vars(TimerPosts(t))

LiveSpec == Spec /\ Fairness

-----------------------------------------------------------------------------
(* Properties                                                              *)

\* Completions, both guards, forced ends and a failing call may race and come
\* late: still one request is open at a time, only the open one is reported,
\* none twice, and each that was taken is open, reported or failed to its
\* caller.  Not promised, because the code does not keep it: that a request is
\* ended by its own completion or guard (one left by the request before, which
\* carries no number, ends it too early), and that a request reported during
\* its own call is not failed by that call as well.
Calling == IF At("scan", "idle") THEN 0 ELSE last
Abs == INSTANCE WalScanAbs WITH pending <- request, calling <- Calling
ScanContract == Abs!Spec

\* Whoever ends a request closes its guard first.  So a guard that still runs
\* or waits in the queue when the next request is open went astray: it was
\* started after the end of its own request had begun (the event task can be
\* done before wal_start_scan_req comes to it), or an expiry of the guard
\* before it was still to be handled or posted.
GuardOwn ==
  "scan" \in armed \cup ToSet(tmo) /\ request # 0 => guardOf = request \/ astray

\* A request that was taken ends, although the device may never answer and one
\* event may be lost anywhere on the way.
ScanEnds == request # 0 ~> (request = 0 \/ oops)

\* wal_process_timer_for_scan closes the ageing timer of the last scan's
\* results before it starts the guard of the scan in progress.
AgeingClosed == At("scan", "startGuard") /\ request # 0 => "clean" \notin armed

\* A scan is refused only because the last one is still running.
RefusedMeansRunning == At("scan", "idle") /\ ~complete => request # 0

\* The lock over the request protects it: nobody uses it after it was freed.
RequestProtected == ~oops

=============================================================================
