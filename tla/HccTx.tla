------------------------------- MODULE HccTx -------------------------------
(***************************************************************************)
(* The transmit side of the host communication channel (hcc/hcc_host.c,    *)
(* hcc/hcc_task.c, hcc/hcc_hmac.c): the queues DATA_HI_QUEUE ("HI") and    *)
(* DATA_LO_QUEUE ("LO"), the credits read from the device, the assembly of *)
(* the next transfer, the transmit thread and its exit (Linux build, HCC   *)
(* task).  Packets are pairs: their class and their number in it.          *)
(*                                                                         *)
(* Producers run concurrently with the thread, and with the exit until the *)
(* handler is gone: hcc_host_tx puts a packet under the lock of the list.  *)
(* What the thread does between reading the credits and a transfer touches *)
(* only its own end of the queues and is one step (those of Enter and      *)
(* Round); the transfer itself is another.                                 *)
(***************************************************************************)
EXTENDS Naturals, Sequences, FiniteSets, FiniteSetsExt

CONSTANTS
  Most,          \* how many packets of each class producers send (bound)
  MaxCredit,     \* most packets the device grants in one pass
  AssemMax,      \* g_hcc_assemble_count
  LowLimit,      \* LOW_PRIORITY_COUNT
  KeyLimit,      \* KEY_FRAME_COUNT
  MaxFaults,     \* bound on SDIO failures
  MayExit        \* the driver may be unloaded (hcc_host_exit)

Classes == {"cmd", "data", "key"}
Queues  == {"HI", "LO"}

ASSUME HccAssumption ==
  /\ Most \in [Classes -> Nat]
  /\ MaxCredit \in Nat \ {0} /\ AssemMax \in Nat \ {0} /\ MaxFaults \in Nat
  /\ LowLimit \in Nat /\ KeyLimit \in Nat
  /\ LowLimit < KeyLimit          \* 1000 and 2000
  /\ MaxCredit <= LowLimit        \* credits have eight bits
  /\ MayExit \in BOOLEAN

VARIABLES
  queue,      \* data_queue of each queue
  asm,        \* assembled_head: the packets of the next transfer
  at,         \* where the transmit thread is
  cur,        \* the queue it serves
  remain,     \* remain_len
  batch,      \* head_send: the packets under transfer
  descrs,     \* descriptors in tx_assem_descr_hdr
  overflow, abandon,      \* g_list_overflow_flag, g_abandon_key_frame
  sent,       \* how many packets of each class were accepted
  faults,
  exitFlag,   \* g_thread_exit_flag
  sig,        \* the SIGTERM of the exit: "no", "pending", or "lost" on a thread that does
              \* not allow it yet
  stop,       \* kthread_should_stop
  ex          \* where hcc_host_exit is

thread == <<at, cur, remain, batch>>
exitVars == <<exitFlag, sig, stop, ex>>
flagVars == <<overflow, abandon>>
vars == <<queue, asm, thread, descrs, flagVars, sent, faults, exitVars>>

Packets == UNION { {c} \X (1..Most[c]) : c \in Classes }
Class(p) == p[1]
Elems(s) == { s[i] : i \in DOMAIN s }

TypeOK ==
  /\ queue \in [Queues -> Seq(Packets)] /\ asm \in Seq(Packets) /\ batch \in Seq(Packets)
  /\ at \in {"new", "allowed", "test", "sleep", "enter", "round", "transfer", "clear", "gone"}
  /\ cur \in Queues /\ remain \in 0..MaxCredit
  /\ descrs \in 0..2
  /\ overflow \in BOOLEAN /\ abandon \in BOOLEAN
  /\ sent \in [Classes -> Nat] /\ \A c \in Classes : sent[c] <= Most[c]
  /\ faults \in 0..MaxFaults
  /\ exitFlag \in BOOLEAN /\ sig \in {"no", "pending", "lost"} /\ stop \in BOOLEAN
  /\ ex \in {"no", "flag", "signal", "stop", "join", "drain", "free", "freed"}

\* hcc_host_init
Init ==
  /\ queue = [q \in Queues |-> <<>>] /\ asm = <<>>
  /\ at = "new" /\ cur = "HI" /\ remain = 0 /\ batch = <<>> /\ descrs = 2
  /\ overflow = FALSE /\ abandon = FALSE
  /\ sent = [c \in Classes |-> 0] /\ faults = 0
  /\ exitFlag = FALSE /\ sig = "no" /\ stop = FALSE /\ ex = "no"

Min2(a, b) == IF a < b THEN a ELSE b
Front(s, n) == SubSeq(s, 1, n)
Rest(s, n) == SubSeq(s, n + 1, Len(s))

----------------------------------------------------------------------------
(* hcc_host_tx                                                             *)

\* hcc_sort_key_frame: behind the first frame that is no key frame
SortKeyFrame(s, p) ==
  LET others == { i \in DOMAIN s : Class(s[i]) # "key" }
      i == IF others = {} THEN Len(s) ELSE Min(others)
  IN Front(s, i) \o <<p>> \o Rest(s, i)

\* as long as g_hcc_host_handler is there, whatever the exit has done
HostTx(c) ==
  LET p == <<c, sent[c] + 1>>
  IN /\ ex # "freed" /\ sent[c] < Most[c]
     /\ c = "data" => ~overflow      \* else freed at once
     /\ c = "key" => ~abandon
     /\ sent' = [sent EXCEPT ![c] = @ + 1]
     /\ queue' = CASE c = "cmd"  -> [queue EXCEPT !["HI"] = Append(@, p)]
                   [] c = "data" -> [queue EXCEPT !["LO"] = Append(@, p)]
                   [] c = "key"  -> [queue EXCEPT !["LO"] = SortKeyFrame(@, p)]
     /\ UNCHANGED <<asm, thread, descrs, flagVars, faults, exitVars>>

----------------------------------------------------------------------------
(* hcc_task_tx_thread                                                      *)

\* allow_signal; the thread takes the exit flag back when it enters its loop
AllowSignal ==
  /\ at = "new" /\ at' = "allowed"
  /\ UNCHANGED <<queue, asm, cur, remain, batch, descrs, flagVars, sent, faults, exitVars>>
Start ==
  /\ at = "allowed" /\ at' = "test"
  /\ exitFlag' = FALSE
  /\ UNCHANGED <<queue, asm, cur, remain, batch, descrs, flagVars, sent, faults, sig, stop, ex>>

ToldToLeave == exitFlag \/ stop

LoopTest ==
  /\ at = "test" /\ ~ToldToLeave
  /\ at' = "sleep"
  /\ UNCHANGED <<queue, asm, cur, remain, batch, descrs, flagVars, sent, faults, exitVars>>

\* queues_len_check
PacketsWait_HiOnly == queue["HI"] # <<>>     \* variant: the loop ends too early
PacketsWait == \E q \in Queues : queue[q] # <<>>

\* hi_wait_event_interruptible: what it waits for comes before signals, and is not the flag
Wake ==
  /\ at = "sleep" /\ PacketsWait /\ ~exitFlag
  /\ at' = "enter" /\ cur' = "HI"
  /\ UNCHANGED <<queue, asm, remain, batch, descrs, flagVars, sent, faults, exitVars>>

SignalPending_Never == FALSE                 \* variant: hi_wait_event
SignalPending == sig = "pending"

\* the loop is left; a thread that did not run before kthread_stop never does
ThreadLeaves ==
  /\ \/ at = "new" /\ stop
     \/ at = "test" /\ ToldToLeave
     \/ at = "sleep" /\ IF PacketsWait THEN exitFlag ELSE SignalPending
  /\ at' = "gone"
  /\ UNCHANGED <<queue, asm, cur, remain, batch, descrs, flagVars, sent, faults, exitVars>>

----------------------------------------------------------------------------
(* hcc_host_proc_tx_queue_impl, first for HI, then for LO                  *)

\* the end of a pass, successful or not
PassOver ==
  /\ remain' = 0 /\ batch' = <<>>
  /\ IF cur = "HI" THEN at' = "enter" /\ cur' = "LO" ELSE at' = "test" /\ cur' = "HI"

\* the limits of the queue LO, seen when its pass begins
ReadLimits ==
  IF cur = "LO"
  THEN /\ overflow' = (Len(queue["LO"]) > LowLimit)
       /\ abandon' = (Len(queue["LO"]) > KeyLimit)
  ELSE UNCHANGED flagVars

Fault == faults < MaxFaults /\ faults' = faults + 1

EnterEmpty ==
  /\ at = "enter" /\ queue[cur] = <<>>
  /\ PassOver
  /\ UNCHANGED <<queue, asm, descrs, flagVars, sent, faults, exitVars>>

\* oal_sdio_get_credit fails: the queues are cleared, without the mutex
EnterNoCreditInfo ==
  /\ at = "enter" /\ queue[cur] # <<>>
  /\ Fault /\ at' = "clear"
  /\ UNCHANGED <<queue, asm, cur, remain, batch, descrs, flagVars, sent, exitVars>>

ClearTxQueues ==
  /\ at = "clear"
  /\ queue' = [q \in Queues |-> <<>>]
  /\ PassOver
  /\ UNCHANGED <<asm, descrs, flagVars, sent, faults, exitVars>>

\* too few buffers or descriptors in the device
EnterFlowControlled ==
  /\ at = "enter" /\ queue[cur] # <<>>
  /\ ReadLimits /\ PassOver
  /\ UNCHANGED <<queue, asm, descrs, sent, faults, exitVars>>

\* hcc_send_assemble_reset: what an earlier pass left assembled goes to the front
\* of the queue being served, whether the descriptor could be sent or not
Restore_Tail == asm' = <<>> /\ queue' = [queue EXCEPT ![cur] = @ \o asm] \* variant
Restore == asm' = <<>> /\ queue' = [queue EXCEPT ![cur] = asm \o @]

EnterGranted(credit) ==
  /\ at = "enter" /\ queue[cur] # <<>>
  /\ ReadLimits
  /\ \/ /\ asm = <<>> \/ descrs > 0
        /\ at' = "round" /\ remain' = Min2(credit, Len(queue[cur]))
        /\ UNCHANGED <<cur, batch, faults>>
     \/ /\ asm # <<>> /\ PassOver      \* the reset could not be sent
        /\ IF descrs = 0 THEN UNCHANGED faults ELSE Fault
  /\ Restore
  /\ UNCHANGED <<descrs, sent, exitVars>>

\* the loop is over; or a descriptor is missing, the switch to the high priority
\* pool (HI only) fails, or the packet cannot be aligned
RoundOver ==
  /\ at = "round"
  /\ \/ (remain = 0 \/ descrs = 0) /\ UNCHANGED faults
     \/ remain # 0 /\ Fault
  /\ PassOver
  /\ UNCHANGED <<queue, asm, descrs, flagVars, sent, exitVars>>

\* hcc_build_next_assem_descr: n packets; fewer only if one cannot be aligned
Assemble_NoCredit(s, room) ==          \* variant: the credit is not looked at
  \E n \in 0..Min2(Len(s), AssemMax) :
    /\ IF n = Min2(Len(s), AssemMax) THEN UNCHANGED faults ELSE Fault
    /\ asm' = Front(s, n)
    /\ queue' = [queue EXCEPT ![cur] = Rest(s, n)]

Assemble(s, room) ==
  \E n \in 0..Min2(Min2(Len(s), AssemMax), room) :
    /\ IF n = Min2(Min2(Len(s), AssemMax), room) THEN UNCHANGED faults ELSE Fault
    /\ asm' = Front(s, n)
    /\ queue' = [queue EXCEPT ![cur] = Rest(s, n)]

\* hcc_send_data_packet up to the transfer
Round ==
  LET single == asm = <<>>
      rest   == IF single THEN Tail(queue[cur]) ELSE queue[cur]
      out    == IF single THEN <<Head(queue[cur])>> ELSE asm
      left   == IF remain >= Len(out) THEN remain - Len(out) ELSE 0
  IN /\ at = "round" /\ remain # 0 /\ descrs > 0
     /\ single => queue[cur] # <<>>
     /\ descrs' = descrs - 1 /\ batch' = out /\ remain' = left /\ at' = "transfer"
     /\ IF cur = "LO"               \* HCC_ASSEM_SEND
        THEN Assemble(rest, left)
        ELSE asm' = <<>> /\ queue' = [queue EXCEPT ![cur] = rest] /\ UNCHANGED faults
     /\ UNCHANGED <<cur, flagVars, sent, exitVars>>

\* oal_sdio_transfer_netbuf_list; the packets are freed whatever it returns
Transfer ==
  /\ at = "transfer"
  /\ descrs' = descrs + 1
  /\ \/ at' = "round" /\ batch' = <<>> /\ UNCHANGED <<cur, remain, faults>>
     \/ Fault /\ PassOver
  /\ UNCHANGED <<queue, asm, flagVars, sent, exitVars>>

----------------------------------------------------------------------------
(* hcc_clear_all_queues, under the transfer mutex (hmac_wow.c)             *)

ClearAllQueues ==
  /\ at \notin {"round", "transfer"} /\ ex # "freed"
  /\ faults < MaxFaults /\ faults' = faults + 1      \* bound
  /\ asm' = <<>> /\ queue' = [q \in Queues |-> <<>>]
  /\ UNCHANGED <<thread, descrs, flagVars, sent, exitVars>>

----------------------------------------------------------------------------
(* hcc_host_exit                                                           *)

\* hcc_tx_assem_descr_exit
ExitPurge ==
  /\ MayExit /\ ex = "no" /\ ex' = "flag" /\ descrs' = 0
  /\ UNCHANGED <<queue, asm, thread, flagVars, sent, faults, exitFlag, sig, stop>>

ExitAt(from, to) ==
  /\ ex = from /\ ex' = to
  /\ UNCHANGED <<asm, thread, descrs, flagVars, sent, faults>>

\* hcc_exit_task_thread: it then waits for the thread, but not for ever
ExitSetFlag == ExitAt("flag", "signal") /\ exitFlag' = TRUE /\ UNCHANGED <<queue, sig, stop>>

\* oal_kthread_stop: the signal is ignored unless the thread allows it; then kthread_stop,
\* which waits for the end of the thread
ExitSignal ==
  /\ ExitAt("signal", "stop")
  /\ sig' = (IF at = "new" THEN "lost" ELSE "pending")
  /\ UNCHANGED <<queue, exitFlag, stop>>
ExitStop == ExitAt("stop", "join") /\ stop' = TRUE /\ UNCHANGED <<queue, exitFlag, sig>>
ExitJoined == at = "gone" /\ ExitAt("join", "drain") /\ UNCHANGED <<queue, exitFlag, sig, stop>>

\* hcc_clear_tx_queues; later the handler is freed, with what came in between
ExitClear ==
  /\ ExitAt("drain", "free") /\ queue' = [q \in Queues |-> <<>>]
  /\ UNCHANGED <<exitFlag, sig, stop>>
ExitFree == ExitAt("free", "freed") /\ UNCHANGED <<queue, exitFlag, sig, stop>>

----------------------------------------------------------------------------
ThreadStep ==
  \/ AllowSignal \/ Start \/ LoopTest \/ Wake \/ ThreadLeaves
  \/ EnterEmpty \/ EnterNoCreditInfo \/ ClearTxQueues \/ EnterFlowControlled
  \/ (\E n \in 1..MaxCredit : EnterGranted(n)) \/ RoundOver \/ Round \/ Transfer

ExitStep == ExitSetFlag \/ ExitSignal \/ ExitStop \/ ExitJoined \/ ExitClear \/ ExitFree

\* the thread sleeps until somebody sends; or the driver is gone
Idle ==
  /\ ex = "freed" \/ (at = "sleep" /\ ~PacketsWait)
  /\ UNCHANGED vars

Next ==
  \/ ThreadStep \/ ExitStep \/ ExitPurge \/ ClearAllQueues \/ Idle
  \/ \E c \in Classes : HostTx(c)
Spec == Init /\ [][Next]_vars

\* The thread and an exit go on; a device asked for credits again and again grants
\* some at last (it frees its buffers).  Nobody has to send.
Fairness ==
  /\ WF_vars(ThreadStep) /\ WF_vars(ExitStep)
  /\ \A q \in Queues : SF_vars(cur = q /\ \E n \in 1..MaxCredit : EnterGranted(n))
LiveSpec == Spec /\ Fairness

----------------------------------------------------------------------------
(* Properties                                                              *)

\* What is assembled for the next transfer fits in what is left of the credit the
\* device granted in this pass (hcc_build_next_assem_descr).
WithinCredit == at \in {"round", "transfer"} => Len(asm) <= remain

Waiting == Elems(asm) \cup Elems(queue["LO"])
Abs == INSTANCE HccTxAbs WITH
         accepted <- sent,
         cmds  <- { p \in Elems(queue["HI"]) : Class(p) = "cmd" },
         data  <- { p \in Waiting : Class(p) = "data" },
         loose <- { p \in Waiting : Class(p) = "key" } \cup
                  { p \in Elems(queue["HI"]) : Class(p) # "cmd" },
         air   <- Elems(batch)

\* A packet accepted is sent at most once, commands in order, data frames in order unless they
\* stray: whatever is assembled, put back, cleared or failed (hcc_host_proc_tx_queue_impl).
TransmitContract == Abs!Spec

\* A queue that holds packets is emptied at last (sent, or cleared after a failure), unless
\* the handler goes: the thread never sleeps on a queue that is not empty.
QueuesDrain == \A q \in Queues : (queue[q] # <<>>) ~> (queue[q] = <<>> \/ ex = "freed")

\* A thread that began so late that it missed both the flag and the signal sleeps for ever:
\* it passed the test of its loop (hcc_task.c:264) just before kthread_stop.
Deaf == ex = "join" /\ at = "sleep" /\ ~PacketsWait /\ sig = "lost"

\* An unloading comes to its end, although the thread may take the exit flag back when it
\* starts (hcc_task.c:261), unless it has become deaf.
ExitEnds == (ex = "flag") ~> (ex = "freed" \/ Deaf)
=============================================================================
