# Specifications of the HiSilicon drivers

TLA+ models, TLC runs and TLAPS proofs beside `device_hisilicon_drivers`. The repository holds
many small register drivers and one large stateful program, the driver of the Hi3881 Wi-Fi chip
(`src/wifi/driver/hi3881`). The project models the parts of the Wi-Fi driver where threads,
timers, chip messages and lost answers meet, and two of the small drivers whose threads share
queues: Ethernet (`src/hieth-sf`) and UART (`src/uart`). Paths below are relative to
`src/wifi/driver/hi3881` unless they begin with `src/`.

## 1. The system

### Threads and what they share

| thread | code | runs |
|---|---|---|
| event task | `frw_task_thread` (`frw/frw_task.c`) | every event handler and every frw timer handler, one at a time |
| HCC transmit and receive threads | `hcc/hcc_task.c` | the SDIO transfers |
| SDIO message interrupt | `oal_sdio_msg_irq` (`oal/oal_sdio_host.c`) | chip messages: sleep and wake-up answers |
| `pm_wq` worker | `wlan_pm_sleep_work` (`oal/plat_pm_wlan.c`) | the sleep request |
| kernel timers | `frw_timer_timeout_proc_event`, `wlan_pm_wdg_timeout` | post an event; submit the sleep work |
| cfg80211, ioctl and user tasks | `wal/*` | requests; they wait for the event task to answer |

The event task serialises most of the upper MAC: handlers do not interleave. What does interleave
are the requests of other tasks (`wal`), the power management handshake, the event queues
themselves, and timers, whose expiry is an event like any other and may be stale when handled.

### Components

*Chip power management* (`oal/plat_pm_wlan.c`). State: `wlan_dev_state`, `vote_status`, the
watchdog, the sleep work, two completions with their wait flags, the transfer mutex.
Operations: vote, unvote, enable, disable, wake up with retries, watchdog time-out, sleep work, chip
messages, exception report. Hard: a sleep request in progress against every other operation,
late or missing answers, lost watchdogs. Correct if a vote keeps the chip awake, a transfer meets
a chip that is awake, and an idle host keeps trying to put it to sleep.

*Event framework* (`frw/`, `oal/oal_mem.c`). State: queues, per-class lists and weights, the
count of events, reference counted blocks. Operations: post (and fail), schedule, flush. Hard:
a flush beside posting and scheduling; a count that is updated outside the lock. Correct if no
accepted event is out of the scheduler's reach, each is handled once and in order, no block leaks
or is freed twice, and the queues drain.

*Scan service* (`wal/wal_scan.c`, `wal/wal_event.c`, `mac/hmac/hmac_scan.c`). State: the
request, `complete`, `is_scanning`, `fn_cb`, three timers. Operations: request, forced completion,
start, abort, device completion, both guards' time-outs, completion, ageing. Hard: a completion
races the next request, two nested guards, a synchronous call that times out while its event is
queued. Correct if one request is open at a time, only that one is reported, once, and each ends. The
code does not keep more: a guard or an expiry left of the last request may end the next.

*Block-ack receive reordering* (`mac/hmac/hmac_blockack.c`). State: the window, the reorder
buffer, the duplicate bitmap, the reorder timer. Operations: data frame, block ack request, time-out,
device sleep and work. Hard: sequence numbers that wrap, slots shared modulo the buffer size, a
timer that is stopped in deep sleep. Correct if frames go up in order, once, and none is kept for
ever.

*Software timers* (`frw/frw_timer.c`, `include/hi_list.h`). State: the list, per timer its flags, id and kernel timer.
Created and destroyed by handlers of the event task and, for those of a scan, by callers of cfg80211; an expiry is
an event with the id, for which the event task walks the list without its lock. Hard: destroying
is done in steps, some outside the lock, by two at once or while the kernel's callback runs. Correct if an expiry
finds its timer. The scan service, the reorder session and the station have the timers they use.

*Host communication channel* (`hcc/hcc_host.c`, `hcc/hcc_task.c`). State: the HI and LO queues, the
packets assembled for the next transfer, the descriptors, the overflow flags, the transmit thread
and its exit flag. Operations: accept a packet, a pass over a queue with its credit, assemble, put
back, transfer, clear, exit. Hard: what is assembled in one pass and not sent must find its way back
in a later one, possibly for the other queue; an exit can be requested before the thread has started.
Correct if packets leave once and in order, within the credit, the queues drain and the exit ends.

*Block ack sessions* (`mac/hmac/hmac_mgmt_bss_comm.c`, `mac/hmac/hmac_blockack.c`). State: the
receiving and sending sessions of each user and TID, the count of each kind, the table of LUT indices, the
time-out of a request. Operations: request, response, DELBA, time-out, clearing a user, in both
directions. Hard: the counts are changed before a session is accepted and given back by shared
reset code; two tasks make and end sessions. Correct if counts and table agree with the sessions
and every request gets a result.

*Station connection* (`mac/hmac/hmac_mgmt_sta.c`, `mac/hmac/hmac_sme_sta.c`, `mac/hmac/hmac_config.c`). State: the state of
the VAP, the user of the access point, the counts of attempts, one timer, the IE buffer of the last
request, the reports queued to the host. Operations: connect, disconnect, authentication and
association responses, deauthentication, loss of the access point, disassociation by the device, time-out,
scan. Hard: five parties
may end a connection, reports to the host are queued behind them, requests of the host race
with them, and an attempt inherits timer, buffer, counts and user of the last one. Correct if the host
learns every end once and in order, agrees with the driver in the end, and an attempt is answered.

*Ethernet* (`src/hieth-sf/src/interface.c`, `ctrl.c`). State: the ring of frames under transmission, the
ring of receive buffers, one event, the interrupt masks, the monitor timer. Operations: send, deliver,
release, feed, interrupt, monitor. Hard: finished frames are inferred from two counts; a sender that was
woken does not test again; the port stops raising interrupts when it has no buffers. Correct if no frame is
freed while the port sends it, the port is never overfilled, frames passed up are those received,
and reception revives.

*UART receive buffer* (`src/uart/uart_pl011.c`, `uart_hi35xx.c`). State: the ring, its two indices, an
event. Operations: receive interrupt, read, change of mode. Hard: no lock; the event is set before the
index and cleared blindly. Correct if bytes come out once and in order and a reader does not sleep
beside bytes.

*The rest of the upper MAC, wal and hdfadapt*: the access point's side, keys, data path, features;
configuration events. *Other drivers of `src/`*: MMC, MTD, MIPI, I2S, other serial buses, small
SoC drivers: mostly register programming. `PROJECT.json` lists every component with its status and
reason.

### How they interact

`wal` posts configuration events to the event framework and waits; the handlers of
`mac/hmac` run on the event task and answer by filling the waiter's structure. Device events and
frames come in through HCC's receive thread and are posted to the event framework too. HCC's
transmit thread wakes the chip before a transfer (`wlan_pm_wakeup_dev`). STA, AP and hipriv
code vote against sleep. The device's sleep and work events stop and restart the reorder timers.

The frames of HCC's queues come from the upper MAC; the task that transmits a frame may start a block ack
session and send its request. A session that is accepted gets a reorder window (`RxReorder`).

In the models: `WalScan` contains the event queues it needs (one FIFO per event type, any order
between types), which is what `FrwSchedAbs` promises and `FrwSched` is checked to
implement. `WlanPm` contains the transmit thread as far as it uses the power state. `RxReorder` takes
whole handlers as steps because they run on the event task; so does `BaSessions`, except for the request
that the transmitting task makes. `HccTx` takes the power management as given: a transfer may fail.

## 2. Modules

| module | models | runs |
|---|---|---|
| `WlanPmAbs` | what voters are promised: a vote is granted while the chip is kept awake, and the chip may sleep only when none is held | |
| `WlanPm` | chip power management, 8 kinds of threads | `votes` `quiet` `lostvote` |
| `WlanPm_proofs` | theorems about `WlanPm` | |
| `FrwSchedAbs` | bounded FIFO queues whose events live in counted blocks | |
| `FrwSched` | posting, weighted round robin, the event task, flushing | `frw` |
| `FrwTimer` | the software timers, their list, and the walk for an expiry | `hmac` |
| `Frw_proofs` | theorems about `FrwSched` and `FrwTimer` | |
| `WalScanAbs` | one request at a time; only the open one is reported, none twice, none dropped silently | |
| `WalScan` | a scan from cfg80211 to its report | `scan` `ageing` `stuck` |
| `WalScan_proofs` | theorems about `WalScan` | |
| `RxReorderAbs` | delivery in order, without duplicates | |
| `RxReorder` | a receive session of block ack | `hmac` `overwrite` `wifi` |
| `RxReorder_proofs` | theorems about `RxReorder` | |
| `StaConnAbs` | what the host is told about a connection | |
| `StaConn` | the connection of a station | `hmac` |
| `StaConn_proofs` | theorems about `StaConn` | |
| `BaSessions` | set-up, refusal and end of the sessions of a device | `wifi` `lutshared` |
| `HccTxAbs` | packets go once, commands and data in order | |
| `HccTx` | HCC's queues, transmit thread and exit | `wifi` |
| `Wifi_proofs` | theorems about `BaSessions` and `HccTx` | |
| `HiethQueues` | the rings of the Ethernet driver | `drivers` |
| `UartFifo` | a bounded queue that drops the end of a burst | |
| `UartRing` | the receive ring of the UART driver | `drivers` |
| `Drivers_proofs` | theorems about `HiethQueues` and `UartRing` | |
| `NumberLemmas` | lemmas on remainders, sums over a set and its least element, used by the proofs | |

`MC*` modules extend a module for TLC (model values, symmetry); every `.cfg` names its constants.
`MCDrivers`, `MCWifi` and `MCHmac` hold several small instances in one run: the first state picks one
(`which`), and only that one moves, under its own fairness. The instances do not interact there.
`HiethQueues` is in `MCDrivers` twice, without waits that last too long and without reception, which together are
small enough to enumerate; `UartRing` too, for one core and for two.
Definitions ending in `_Something` with the comment "variant" are plausible mistakes in the
definition after them; a run in which the variant replaces it must fail, which shows that the property
can tell.

### WlanPm

`pc[p]` is the place of a thread in the code between two points where others can intervene.
`WakeCheck` ... `WakeFail` are `wlan_pm_wakeup_dev` and its helpers, executed by whoever
holds `tx_transfer_lock`; `Sleep*` are `wlan_pm_dev_sleep_request` and
`wlan_pm_allow_dev_sleep`; `AddVote*`, `RemoveVote*`, `Enable*`, `Disable*`, `Tx*`, `Exc*`, `Wdg*`
are the callers; `Rx*` are the message handlers and `Chip*` (external) the firmware. A
time-out is a step that is always possible while waiting. `vote_status |= bit` is a read and a write (`AddVoteRead`, `AddVoteWrite`); `SplitVote` chooses
whether another voter can come between them. In the code it can: the lock does not lock (see finding
`lostvote`). `LateAck` lets answers arrive after their waiter gave up. Three
histories record what the code does not know: `chipOk`, the chip's last answer; `stale`, that an answer to
an earlier request was still to come when this one was sent (`OldAnswer`); and `blind`, that power
management was disabled although the wake-up had failed, and none has succeeded since. The last two
are the exceptions of `SleepAgreed` and `TransferOnlyAwake`: the code then does act on the old answer, and
does transfer to a chip that may sleep.

Two protections against sleeping under a vote overlap in the code: `cancel_work_sync` in
`wlan_pm_add_vote` and the test of the votes in the sleep work. Either alone is enough for `VoteKeepsAwake`.

### FrwSched

Posting and picking run under the lock of a class and are one step. The flush
(`frw_event_vap_flush_event`) dequeues under the queue's own lock only, and deactivates at the
end, so it is several steps. `count` is changed outside the locks in steps of its own. The task
(`ScheduleHi`, `ScheduleNormal`, `CountDown`, `TaskFree`) wakes when `count` is not zero. No code sets
`vap_state` to PAUSE, so paused queues do not occur.

### FrwTimer

`succ` and `pred` are the pointers of `hi_list`, for destroying a timer is three steps that the walk can see:
giving it up without the lock (`DestroyGive`), and under it joining its neighbours (`DestroyUnlink`) and clearing its
own pointers (`DestroyCut`). The event task walks (`WalkBegin` ... `WalkCall`) without the lock and creates and destroys
timers in its handlers; a thread of cfg80211 does the same with the timers of a scan. `calm` is history: nobody
destroyed a timer since the walk began. When somebody does, the walk can stand on the entry whose pointers
are cleared, end there, and drop the expiry of a timer further on (the warning at `frw_timer.c:91`).

### WalScan

Three threads: the requester, a forced completion, and the event task. Queues are kept per event
type. `CreateTimer`, `DestroyTimer`, `TimerExpires` and `TimerPosts` are the frw timers,
including a kernel callback that runs while its timer is destroyed and created again.
`Fault` counts lost events, failed allocations and configuration time-outs; `MaxUpsets` bounds
them together with forced completions.

`WalScanAbs` says what the caller gets: a request is taken when none is open, reported at most once
and only while it is open, and when its call returns it is open or was reported, or the call fails. It
does not say that a request is ended by its own completion or guard, nor that one that was reported
during its call is not failed by it as well (`Fail`): the code keeps neither. When a guard can outlive its
request is `GuardOwn`: the histories `guardOf` and `astray` record for which request it was started, and whether
the end of that request had begun before, or an expiry of the last guard was still on its way.

### RxReorder

A frame is a number in the peer's order, of which the code sees the sequence number
`(FirstSeq + f) % SeqMod`. `RxDuplicate`, `RxLate`, `RxDirect`, `RxInWindow` and `RxBeyond` are the
paths of `hmac_ba_filter_serv`; `SlideTo` is `hmac_ba_reorder_rx_data` (also used by the
block ack request) with the "sync loss" flush; `PassUp` is `hmac_ba_update_rx_bitmap` on the frames
that leave. `TimeoutPasses(i)` is `hmac_ba_send_reorder_timeout` when the frames up to offset
`i` are old enough: ages are not kept, the choice is free. `DeepSleep` and `Work` are
`hmac_proc_dev_sleep_req`. The peer (`base`, external) sends what is in its window, or up to `Delay`
behind it, and moves on when it wants to. One frame per event: this is how the receive path of
this build posts them (`hcc/hmac_hcc_adapt.c`). `odd` flips whenever a frame goes up that had gone
up before, so that a duplicate is visible to `RxReorderAbs` as a step.

### BaSessions

`rx[s]` and `tx[s]` are `ba_rx_info` and `ba_tx_info` of a user and TID. `RxAddbaReq` is
`hmac_mgmt_rx_addba_req` with its check, its refusal and its failing response; `RxEnds`, `TxEnds` and
`TidClear` are the ways a session ends. `XmitRequest` tests and sends in the task of the frame, and
`Install` (`hmac_mgmt_set_ba_tx_info`) follows as a step of its own, so the answer (`RxAddbaRsp`) can be
handled first. `asked` is external: which requests a peer may still answer.

### StaConn

`state` is `vap_state`, without the states of start-up. The event task runs whole handlers, so each is one
action; what stays between them is in `mgmtTimer`, `reports` and `req`. `SendAuth` and `SendAsoc` are
`hmac_sta_wait_auth` and `hmac_sta_wait_asoc` and leave what each of their failing paths leaves. A time-out, a refused
authentication and an association that times out go through `AuthFailed` and `AsocFailed`, the two failing branches of
`hmac_handle_auth_rsp_sta` and `hmac_handle_asoc_rsp_sta`: repeat, or `GiveUp`. `Created` keeps the id of a
registered timer, and with it an expiry already queued. `Ends` is what the deauthentication by the
access point, the loss reported by the device and the disconnect of the host have in common. The host (`host`,
external) has one request at a time under way (`req`) and takes the reports in order; it is told of an attempt that was
refused by the result of its call. `IF user = {}` in `Disconnect` is read in the thread of the host, the rest by the
event task. `DeviceDisassoc` is `hmac_mgmt_send_disasoc_deauth_event`: the device's event deletes the user of a
station in any state and changes nothing else, neither the state nor what the host knows. `dropped` says
that this has happened, and whether the user is still missing.

`StaConnAbs` is the contract with the host. Its `Silent` and `Again` say what a failed allocation or send, or a
dropped user, may cost: an end that is not reported, or a connection reported ended twice; never a success that is not one.

### HccTx

`at` is where the transmit thread is: it wakes, enters a pass over HI then LO, gets a credit, and makes rounds of
one transfer each. `Restore` puts what an earlier pass assembled in front of the queue being served, which
need not be the one it came from: `HccTxAbs!Stray` is the resulting loss of order. Only a
transfer is a step apart from the rest of its round, for the producers share the queues only at
their other end. The thread begins in three steps: it allows the signal (`AllowSignal`), takes the exit flag
back (`Start`) and tests for an exit (`LoopTest`) before it waits. `Exit*` are the steps of `hcc_host_exit`: the
descriptors, the flag, the two halves of `oal_kthread_stop` (`ExitSignal`, `ExitStop`), the end of the thread
(`ExitJoined`, external), the clearing of the queues and the freeing of the handler. Nothing in the code stops a
producer meanwhile, so `HostTx` goes on until the handler is gone. In a normal unloading the
producers are stopped before by the order of the callers; the failing path of `hi_wifi_host_init` does not. What
is assembled or queued after the clearing is leaked. `sig` says whether the signal was ignored (`"lost"`) because
the thread did not allow it yet. A thread that missed flag and signal and passed the test before
`kthread_stop` sleeps on a condition that reads neither, and the exit waits for it for ever: `Deaf`, the exception
of `ExitEnds`.

### HiethQueues

Frames and buffers are named by their slots. A received frame is taken from the port (`RecvTakes`), its buffer
looked up under `rx_lock` (`RecvLooksUp`) and `rxRelease` counted on without the lock (`RecvCounts`, `RecvWraps`), with
the monitor's feeding beside each step; `inHand` is that frame. `CanSend*`, `Send` are `EthDrvSend` of the one sending
task; `Releases` ... `Unmasks` the stages of `HisiEthDsr`; `FeedOne` is a turn of the loop of
`HiethFeedHw`, which the monitor timer runs too; `Isr` the handler. `Port*` is the port. `CanSendTimesOut` lets the
40 ms wait of a sender run out, and `expired`, a history, says that one has: the event which that sender did not
take is taken by the next, who sends without room. `RingExact` and `SendsIntoRoom` claim nothing from then on.

### UartRing

`RecvNotify`, `Notify` and `StoreWp` are the three effects of the receive interrupt in the order of the
code; `ReadTest` ... `EventClear` a read. `smp`, chosen by the
first state, tells whether the reader can run beside the handler, on another core; without it the handler is not interrupted. Bytes are
numbers modulo more than ring and burst hold, so two bytes that can meet differ.

## 3. Runs

| run | bounds | shows |
|---|---|---|
| `votes` | 2 voters (symmetric), transmit thread, exceptions, 2 wake-up tries, answers may be lost but not late | `VoteKeepsAwake`, `WatchdogAlive`, `TransferOnlyAwake`, implements `WlanPmAbs` |
| `quiet` | exceptions, late answers, no voters, fairness | `SleepAgreed`, `ExceptionStays`, `KeepsAsking` |
| `lostvote` | 2 voters, votes in two steps | refutes `VoteKeepsAwake`: a vote is lost |
| `frw` | 3 queues (one HI, two NORMAL), 3 blocks, 2 posters, fairness | `EventsInReach`, `WeightsAddUp`, `CountIsExact`, `RefsExact`, `DrainsWhenQuiet`, implements `FrwSchedAbs` |
| `scan` | 2 requests, 1 upset, fairness | `GuardOwn`, `ScanEnds`, implements `WalScanAbs` |
| `ageing` | 2 requests, no upset | refutes `AgeingClosed` |
| `stuck` | 2 requests, no upset | refutes `RefusedMeansRunning` |
| `hmac` | `RxReorder`: 9 frames, window 3, buffer 4, bitmap 8, numbers wrap after frame 2, no delayed frames, one TIMEOUT event queued at a time; `StaConn`: 2 access points, 2 connects, limits of 1 and 1 (2 when rejected temporarily) attempts, 1 failure or any number of dropped users, not both; `FrwTimer`: a shared timer and one of the event task, 3 ids; fairness | `BufferSound`, `BitmapTrue`, implements `RxReorderAbs`; `IeOwned`, `OwnAp`, `HostAgrees`, `RequestAnswered`, implements `StaConnAbs`; `ExpiryFound` |
| `overwrite` | 6 frames, window = buffer = 4, 2 ahead | refutes `NothingLost` |
| `wifi` | `HccTx`: 2 commands, 2 data frames, 1 key frame, credit 2, 1 failure, an exit beside at most 3 of the packets; `BaSessions`: 2 users, 2 TIDs, 3 LUT indices, 1 failure, 3 requests; `RxReorder`: 5 frames, two TIMEOUT events queued; fairness | `WithinCredit`, `QueuesDrain`, `ExitEnds`, implements `HccTxAbs`; `RxCountExact`, `TxCountExact`, `NoLutLost`, `RequestsEnd`; `HeldEnds` |
| `lutshared` | as `wifi` | refutes `LutsUnique` |
| `drivers` | `HiethQueues`: rings of 3 and 4 slots, a port that holds 2, once while no wait times out and once while nothing is received; `UartRing`: 3 slots, bursts of 2, on one core and two; fairness | `RingExact`, `SendsIntoRoom`, `RxMatch`, `RxRevives`; `WakesOnOneCore` (`ReaderWakes` on one core), implements `UartFifo` |

Why the bounds are enough to be interesting. *WlanPm*: with two voters every pair of calls
interleaves, with one thread in each role besides; one watchdog period and two tries reach time-out, retry
within a call, failure, and retry by the next caller. Answers that outlive their waiters are in `quiet`; what they mean
for votes and transfers is proved (section 4), not enumerated. *FrwSched*: a NORMAL class of two queues has rounds, exhausted weights and
deactivation with weight left; three blocks fill a queue and exhaust the pool. *WalScan*: a race needs
a scan, its remains, and the next scan. *RxReorder*: with nine frames every bit of the bitmap is used
again, the window is passed three times and the numbers wrap inside it; `BmpSize` is twice
`BufSize` as in the code (64 and 32). `hmac` keeps frames within one of the window and
the window one smaller than the buffer, where two frames in reach never share a slot; what happens
otherwise is the run `overwrite`. Frames that arrive after the peer gave them up (`Delay` 1) are in `overwrite` and
`wifi`; the properties that `hmac` checks are proved for every `Delay`. `FramesAssumption` keeps all frames within half of the sequence
numbers, as a session of 4096 numbers keeps frames in flight. *StaConn*: the limits 3, 5 and 10 of the code become 1, 1 and
2, which keeps a repeated attempt, a last one and the difference a temporary rejection makes; with two
connects the second meets whatever the first left. The limits 2, 2 and 3 give the same results. The first connect is to access point
"a" (`FirstToA`): the two are alike, so every behaviour has a twin of this kind, under fairness as well. Failures and
dropped users do not meet in one behaviour (`OneKind`); the proofs have no such bound. *FrwTimer*: with three ids
one of two timers is created again; three timers, or four ids, give the same results. *HccTx*: with a credit and an assembly of
two packets a pass leaves packets assembled, and the next one, of the other queue, finds them; three packets in LO
exceed `LowLimit` (the limit for key frames is not reached); three packets are enough for an unloading to meet
every place of the thread (`FewAtExit`). *BaSessions*: four sessions want three indices,
and one sending session is allowed, so both limits are met; three requests are a first one, one that
replaces it and a late answer. *HiethQueues*: the rings wrap, fill and run empty. *UartRing*: a ring of two bytes
is filled, wrapped and overrun by bursts of two.

Deadlock is not checked in `wifi`, `hmac` and `scan`, where everything may have ended and used up its requests; it is
checked in the other passing runs.

### Fairness

*WlanPm*: a thread inside a call goes on, and so do the worker, the timer and the
message handler. Nobody has to call, and the chip never has to answer. *FrwSched*: the event task, a
flush that has begun and a poster that holds an event go on; nobody has to post. *WalScan*:
threads inside a call, the event task and kernel timers go on; the device need not finish a scan, for
which the guards exist. *RxReorder*: a pending timer expires and its event is handled; a
frame does not stay younger than its time-out for ever, neither at timer events nor, for a device that
keeps sleeping and waking, at its wake-ups. No frame has to come and the device need not wake up
(`HeldEnds` then claims nothing). *StaConn*: the event task handles what is queued,
the kernel's timer runs and posts; no access point has to answer and the host need not ask. *BaSessions*: the task that sent a request installs it, timers expire and are
handled; no peer has to answer. *HccTx*: the transmit thread and an exit that has begun go on; a device
that is asked again and again grants credit at last, for each queue (it frees its buffers). *HiethQueues*:
tasks, timer and feeding go on; a pending interrupt comes, though it may be disabled in between; the port
need not do anything. *UartRing*: the handler and a task inside a read go on, on one core; the reader is
interrupted again and again, hence strong fairness.

### Findings

* `lostvote`: the spin lock around `vote_status` is a local variable of each caller, so an
  update can be lost and the chip put to sleep while a vote is held.
* `ageing`: `wal_process_timer_for_scan` tests the registration of the wrong timer, and the
  ageing timer is left running through the next scan.
* `stuck`: a completion between the saving of a request and `complete = FALSE` ends the new
  request and leaves the driver refusing every later scan.
* `overwrite`: a frame beyond the window is buffered before the window moves and can replace,
  and free, an acknowledged frame that waits in the same slot.
* `lutshared`: a refused ADDBA resets a session whose LUT index is still the 0 of the cleared
  structure, and so frees index 0, which another session may own and the next one will share.

Under more than one upset `ScanEnds` does not hold: an abort that clears the next scan's callback,
together with a lost guard event, leaves a request without a report. This takes two faults and
is listed as a hazard.

## 4. Proofs

`WlanPm_proofs` proves, for every set of voters, every number of tries and watchdog periods, late
answers, transmit thread and exceptions included:

* `TypeCorrect`: `Spec => []TypeOK`;
* `VotesAreKept`: `~SplitVote => (Spec => []VoteKeepsAwake)`;
* `ContractKept`: `~SplitVote => (Spec => VoteContract)`, every step is one of `WlanPmAbs` or a
  stutter;
* `TransfersMeetAwakeChip`: `TransferOnlyAwake`, even when votes are lost, with the exception it states: a
  disabling that went on after a failed wake-up (`blind`);
* `WatchdogNeverLost`: `~SplitVote => (Spec => []WatchdogAlive)`, so not with the votes of the code,
  which can be lost;
* `SleepIsAgreed`: `SleepAgreed`, with late answers, with the exception it states (`stale`).

Assumptions: the named `ASSUME`s of `WlanPm` (positive bounds; no voter is called like a
thread) and, where stated, that votes are updated atomically (`~SplitVote`), which is what the code
intends and does not do.

`VoteKeepsAwake` alone is not inductive. The invariant `VoteIInv` adds: who is inside the
handshakes holds the mutex (`LockInv`); a voter's bit is set from its first step to its removal (`VoteInv`);
while the sleep work is between its test of the votes and its write, every new voter is still before
`cancel_work_sync` returns (`SleepInv`); who wakes the chip found it asleep, hence nobody holds a vote
(`WakeInv`). `RegIInv` relates the state and the power switch to the wake-up
register and says that handshakes run only with power management on; `WdgIInv` relates the
watchdog to the sleep work and the power switch. Each has an `...Init` lemma and an
`...Step` lemma with one case per action; `ContractStep` is the step of the refinement. The
theorems combine them with PTL.

`SleepIsAgreed` rests on `AckIInv`: if no older answer was to come when the request was sent, at
most one answer is under way while it waits, and what is known of it is what the chip said. `ExceptionIsKept` needs no invariant beyond
the types: each action either leaves the state or finds a handshake in progress.

`Wifi_proofs` proves, for all finite sets of users and TIDs, all limits and any number of failures
(`BaConstants`): `BaTypeCorrect`, `RxCounted`, `TxCounted` and `LutsBelong`. The invariants are the
properties with the shapes of the arrays (`RxShape`, `TxShape`); the argument is one lemma, `RxWithout`
(and its sending twin): what a reset leaves is right for the *other* sessions, so an action only has to
say what becomes of one. That the lowest free index is free is `LowestIndex` of `NumberLemmas`.

For any number of packets, credits and assembly limits it proves `HccTypeCorrect`, `CreditKept` and
`TransmitContractHolds` (the implementation of `HccTxAbs`). The invariant `HccIInv` adds that a descriptor is
out during a transfer, without which returning it could exceed the two there are. The contract rests on the
order of the packets (commands, and data frames, stand by age in what is assembled and queued) and on every packet
being in one place. Which packets wait is abstracted to sets and not to
sequences: `HccTxAbs` compares numbers, so that the proof need not compute what
a filtered or concatenated sequence contains.

`Frw_proofs` proves about `FrwSched`, for all queues, weights, lengths, blocks and posters: `EventsStayInReach`,
`ReferencesAreExact`, `EventContractHolds` (the implementation of `FrwSchedAbs`), `WeightsAlwaysAddUp`,
`CountAlwaysExact` and `FrwTypeCorrect`. Its assumptions are the
named `ASSUME`s of `FrwSched`, and for the count that there are finitely many queues. The first rests on `ReachIInv`: the list of a class holds exactly its active
queues, each once (`Lists`), and a queue with events is active (`Filled`); the lemmas on sequences without
repetitions say what appending, taking the head and unlinking do to such lists. The second
rests on `RefIInv`: an event is in one queue at one place (`OneQueue`), two threads never have the same one in
hand (`OneHand`), what a poster is still posting is nobody else's (`Apart`), and a block's count is
the number of the four kinds of references to it (`Counted`). `RefStep` shows for each action both that
this is kept and that it is a step of `FrwSchedAbs` or a stutter. Weights and count are sums over a set of queues; `NumberLemmas`
shows, by the well-foundedness of finite sets, what changing, adding or removing one term does to such a sum. A count
that agrees needs to know which takers are between taking an event and counting it down.

About `FrwTimer` it proves, for all timers, callers and numbers of ids (`TimerAssumption`): `TimerTypeCorrect`,
`TimerListIntact` and `ExpiryAlwaysFound` (`ExpiryFound`). New timers go to the end with the largest id, so
the list is in the order of the ids, and the invariant needs no induction along the pointers: `Follows(e, f)` says that no
linked timer's id is between those of `e` and `f`, and `Chain` that `next` and `prev` of every linked entry follow in this
sense. An entry has one such neighbour on each side (`FollowsOnce`), which is why unlinking and appending
change only the two pointers they write. `Membership` ties the flag `is_registerd` to the list: they differ only while
somebody takes the timer off. `Passed` is what the walk knows as long as nobody destroys a timer: none of
the timers before its place is enabled with the id it looks for; a timer that is created meanwhile gets a later id, and
one that is created again is a shared one, which is enabled as long as it is registered.

`WalScan_proofs` proves `ScanContractHolds` (the implementation of `WalScanAbs`) for any number of requests and
upsets. The invariant is small: a set `complete` means that no request is open, unless the thread of cfg80211 is
between taking it and clearing the flag, or between failing and clearing the request; what was reported is past; and
until its call returns the newest request is open or was reported.

`RxReorder_proofs` proves, for every size of the numbers, window, buffer and bitmap that
`SizesAssumption` and `FramesAssumption` admit: `RxTypeCorrect`, `BufferAlwaysSound` (`BufferSound`) and
`BitmapAlwaysTrue` (`BitmapTrue`). The code compares remainders; the proof speaks of frames. `Window` says that there is a
frame `n` of which `start`, `end` and `tail` are the numbers, and `WindowIff` that each comparison of
the code decides what it means to, because all frames in reach are within half of the numbers. `Bits` says
the same of the bitmap: whose number `head` is, and that a bit is that of the one frame in reach which has it.
`ReorderContractHolds` (the implementation of `RxReorderAbs`) and `NothingElseLost` (`NothingLost`) have the
hypothesis `NoOverwrite == WinSize + MaxAhead <= BufSize`: no frame comes so far ahead that it shares a slot with a
frame that is waiting. Without it both are false, as the run `overwrite` shows; with it the overwriting is
proved to be the only way to lose a frame.

`StaConn_proofs` proves, for all access points and all limits of attempts, connects and failures: `StaTypeCorrect`,
`UserIsOwnAp` (`OwnAp`), `BufferHasOneOwner` (`IeOwned`), `HostIsRight` (`HostAgrees`) and
`ConnContractHolds` (the implementation of `StaConnAbs`). The only assumption is that the bounds are numbers
(`StaConstants`). Two definitions describe what any action can do: `BufMove` to the buffer and the
reports, `Move` to the connection; a lemma per action (`...Does`, together `StepDoes`) shows that it does no more,
and every invariant and the refinement follow from the two. `OwnIInv` adds to `OwnAp` that who waits or is
connected has joined somebody, that a dropped user is missing until it is added again, that without failures a user is the one joined and waits or is connected, and that a queued kick names that user or
comes after it has left: without it, a kick that misses could end a connection unreported. `BufIInv` is
`IeOwned` with the owners counted along the queue of reports (`Bufs`, `Once`), which the lemmas on `Append`
and `Tail` keep.

`Drivers_proofs` proves about `HiethQueues`, for rings of every size that exceed what the port holds
(`EthAssumption`): `EthTypeCorrect`, `RingAlwaysExact` (`RingExact`), `AlwaysSendsIntoRoom` (`SendsIntoRoom`) and
`RxAlwaysMatches` (`RxMatch`). `RingIs` says that a ring of `M` slots holds `n` frames from its tail to its head of
which the port has the last ones, in order; lemmas say what sending, finishing and releasing do to it, with all
indices as remainders. `TxIInv` adds why a woken sender need not test again: flag and event are only there while
the sender waits; a waiting sender released what was finished before it slept, so what is released
later has left the port and makes room; and nobody but the sender takes room. `RxIInv` is the ring of buffers, with
`rxRelease` behind the end only between counting the last buffer and wrapping, and the frame in hand, its
buffer not counted yet, ahead of those of the port: `HiethFeedHw`, which compares the indices, still sees that
slot as taken, so it feeds into free ones.

About `UartRing` it proves `UartTypeCorrect`, `FifoContractHolds` (the implementation of `UartFifo`), on one core and on
two, and `EventAlwaysStands` (`EventStands`). Places are told by their distance from `rp` (`Dist`, `On`): `UartIInv` says
that what a read has copied ends before `wp`, and `wp` is not past `newWp`. The queue is then the copied bytes
followed by the stretch up to `newWp` (`WaitingIs`), and lemmas on joining and shortening stretches give the
steps: a burst appends, storing `rp` removes the front, and no other step changes it.

### Nobody waits in vain

A liveness property that fails usually fails because of a state in which nobody is left who would go on: a
wake-up lost, a timer gone, a count that says there is nothing to do. That there is no such state is a safety
property, and is proved for every value of the constants; what remains for TLC is that fair steps then get
there.

| liveness | who goes on | theorem |
|---|---|---|
| `KeepsAsking` | the watchdog or a sleep work is on its way | `WatchdogNeverLost` |
| `DrainsWhenQuiet` | the task does not sleep while a queue has an event; a look at a class leaves a queue with weight, or none at all | `NeverAsleepBesideEvents`, `RoundAlwaysGoesOn` |
| `RequestAnswered` | a waiting station has its timer; every time-out leaves less of the attempt, which is never below zero | `WaitsAreTimed`, `AttemptsCountDown`, `AttemptsAreBounded` |
| `RequestsEnd` | a block ack request in progress has its timer | `RequestsAlwaysTimed` |
| `HeldEnds` | the reorder timer is pending or its event queued; the search sees every held frame; one that is old enough goes up | `TimeoutAlwaysComes`, `HeldFramesAreSeen`, `TimeoutAlwaysDelivers` |
| `QueuesDrain` | the thread sleeps only while its queues are empty (its guard); without failures nothing stays assembled, no descriptor is lost | `AssembledIsSent` |
| `RxRevives` | the monitor runs, somebody is feeding, or an interrupt comes | `PortNeverForgotten` |
| `WakesOnOneCore` | a reader that waits beside bytes has its event set | `EventAlwaysStands` |

`WaitsAreTimed` and `RequestsAlwaysTimed` speak of states before the first failure, for a failed send can leave a wait
without its timer, which is why the liveness properties end there, too. `Left` counts the requests an attempt
can still send: associations, authentications of this mode, and those of the other mode. Its decrease
assumes that every limit allows an attempt (`RetryConstants`; 3, 5 and 10 in the code). `RoundAlwaysGoesOn` needs
that the weights left in a class add up (`WeightIInv`). `NeverAsleepBesideEvents` needs finitely many queues, as the count does.
`LutsUniqueBelowLimit` is the counterpart of the run `lutshared`: with at least as many indices as pairs of users and
TIDs that receive (`FewReceive`) `LutsUnique` holds, so that the refusal at the limit is what breaks it.

### Model-checked only

* Liveness: `KeepsAsking`, `DrainsWhenQuiet`, `ScanEnds`, `RequestAnswered`, `QueuesDrain`, `ExitEnds`, `RequestsEnd`,
  `HeldEnds`, `RxRevives`, `WakesOnOneCore`. The provers have no rules for fairness. Of each but
  `ScanEnds` and `ExitEnds` a safety part is proved, as the table above shows (of `KeepsAsking` for votes that are
  updated atomically).
* `TypeOK` of `WalScan` and `GuardOwn`: its queues are filtered with `SelectSeq`, which the provers cannot expand.
  `ScanContract` needs none of it.
  `ScanEnds` has no safety half here for the same reason: it would say that an open request has its guard's event in
  such a queue.

Every invariant of a passing run but `GuardOwn` is proved, and of the temporal properties all but the liveness ones.

## 5. Abstractions and what is left out

* Contents of frames, scan results and configuration messages; the scanned BSS list.
* Driver start-up and shutdown, firmware download, host suspend.
* Time: a time-out may happen at any moment while something waits, so models have more
  behaviours than the clock permits, never fewer; liveness says which of them are fair.
* Memory ordering: shared fields are read and written in the order of the code.
* In `BaSessions` the window parameters and the negotiated policy of a sending session; each change of a
  count is one step although two tasks make them without a lock.
* The receive side of HCC, flow control by SDIO messages, TCP acknowledgements in the wait of the transmit
  thread, and its yielding while power management is switched off. In the exit a producer that holds the handler
  across its freeing, and the kernel's structure of a thread that left before `kthread_stop`.
* In `RxReorder` aggregated MSDUs, which are buffered as several network buffers under one number
  (`hmac_blockack.c:409`), and the frames that bypass the buffer: fragments (`:544`) and frames without QoS (`:525`).
  The latter go up as they come and change nothing of the session.
* In `HiethQueues` link state and PHY, the contents of frames; more than one sending task.
* In `FrwTimer` a timer that is created while another thread destroys it: it would be linked while it still is, and the list
  damaged. The code does nothing against this; the timer of the results' age could meet it (`wal_scan.c:487`,
  `wal_event.c:185`). An expiry while its timer is being created, which takes a clock tick.
* In `StaConn` a VAP that is stopped or deleted, SA queries but for their end, mesh, P2P, what frames and
  scan results contain, and the time-out of a request of the host (`WalScan` has it); the branch of
  `hmac_sta_rx_deauth_req` for an address without a user structure (`hmac_mgmt_sta.c:2078-2088`), which a station does
  not reach, for looking the address up fails first; the condition on DBAC at the end of a scan (`hmac_scan.c:1307`). The buffers for requests
  are as many as the connects and one more; a pool without a free one is a failed allocation.
* Several sessions or VAPs in `RxReorder`: handlers of different sessions share only the flag
  `g_pm_wlan_need_stop_ba`.
* Event loss for the reorder timer (queue overflow), listed as a hazard.

## 6. Plan

Done, in the order of importance: `WlanPm`, `FrwSched`, `WalScan`, `RxReorder`, `HccTx`, `BaSessions`,
`HiethQueues`, `UartRing`, `StaConn`, `FrwTimer`; proofs about all of them.

Next:

1. Channel switch (`mac/hmac/hmac_chan_mgmt.c`) and the access point's side of a connection (`hmac_mgmt_ap.c`).
2. Request completion in `src/mmc`; the receive side of HCC.
