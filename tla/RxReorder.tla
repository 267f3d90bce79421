----------------------------- MODULE RxReorder -----------------------------
(***************************************************************************)
(* The receive side of a block-ack session in the upper MAC                *)
(* (mac/hmac/hmac_blockack.c): the window over the sequence numbers, the   *)
(* reorder buffer, block ack requests, the reorder time-out, the filter of *)
(* duplicates and its bitmap, and the stopping of the timer while the      *)
(* device is in deep sleep (mac/hmac/hmac_config.c).                       *)
(*                                                                         *)
(* Every handler runs on the event task with one frame per event, so that  *)
(* an action is a whole handler, up to the passing of the frames to the    *)
(* network stack.  A frame is a number 0, 1, ... in the order of the peer; *)
(* the code sees its sequence number, which wraps.                         *)
(***************************************************************************)
EXTENDS Integers, FiniteSetsExt

CONSTANTS
  SeqMod,      \* number of sequence numbers (4096)
  BufSize,     \* WLAN_AMPDU_RX_BUFFER_SIZE
  BmpSize,     \* HMAC_BA_BMP_SIZE
  WinSize,     \* us_baw_size, as the peer asked for
  FirstSeq,    \* the starting sequence number of the session
  MaxFrame,    \* bound on the frames
  Delay,       \* how far behind its window a frame or request of the peer can be
  MaxAhead,    \* how far beyond the window of the host a frame can be
  MaxEvents    \* bound on the TIMEOUT events in the queue

ASSUME SizesAssumption ==
  /\ SeqMod \in Nat \ {0} /\ BufSize \in Nat \ {0} /\ WinSize \in 2..BufSize
  /\ BmpSize \in 2 * BufSize..SeqMod /\ FirstSeq \in 0..SeqMod - 1
ASSUME DivisorsAssumption == SeqMod % BmpSize = 0 /\ BmpSize % BufSize = 0
ASSUME FramesAssumption == MaxFrame \in Nat /\ MaxFrame + 2 + BmpSize <= SeqMod \div 2
ASSUME PeerAssumption == Delay \in 0..BmpSize - WinSize - 1 /\ MaxAhead \in Nat
ASSUME EventsAssumption == MaxEvents \in Nat \ {0}

VARIABLES
  start, end,  \* us_baw_start, us_baw_end: the window
  tail,        \* us_baw_tail: the greatest sequence number that came
  slot,        \* ast_re_order_list: the frame in each slot, NoFrame if not in use
  cnt,         \* mpdu_cnt
  triggered,   \* timer_triggered
  head,        \* us_baw_head: first sequence number of the bitmap
  bitmap,      \* aul_rx_buf_bitmap, as the set of the bits that are 1
  enabled,     \* ba_timer.is_enabled
  armed,       \* the kernel timer of ba_timer is pending
  events,      \* TIMEOUT events of ba_timer in the event queue
  stopBa,      \* g_pm_wlan_need_stop_ba
  base,        \* the peer's window begins at this frame
  taken,       \* frames the host took
  passed,      \* frames passed to the network stack
  odd          \* an odd number of times a frame was passed that had been passed

winVars   == <<start, end, tail, slot, cnt, triggered>>
bmpVars   == <<head, bitmap>>
timerVars == <<enabled, armed, events, stopBa>>
upVars    == <<passed, odd>>
vars == <<winVars, bmpVars, timerVars, base, taken, upVars>>

Frames  == 0..MaxFrame
NoFrame == -1
Seqs    == 0..SeqMod - 1
Slots   == 0..BufSize - 1

SeqOf(f) == (FirstSeq + f) % SeqMod
\* the frame that a sequence number of this session stands for
FrameOf(s) == (s - FirstSeq) % SeqMod

TypeOK ==
  /\ start \in Seqs /\ end \in Seqs /\ tail \in Seqs /\ head \in Seqs
  /\ slot \in [Slots -> Frames \cup {NoFrame}]
  /\ cnt \in 0..BufSize
  /\ triggered \in BOOLEAN
  /\ bitmap \in SUBSET (0..BmpSize - 1)
  /\ enabled \in BOOLEAN /\ armed \in BOOLEAN /\ stopBa \in BOOLEAN
  /\ events \in 0..MaxEvents
  /\ base \in 0..MaxFrame + 1
  /\ taken \in SUBSET Frames /\ passed \in SUBSET Frames /\ odd \in BOOLEAN

Add(s, n) == (s + n) % SeqMod
Sub(s, n) == (s - n) % SeqMod
Dist(s, t) == (t - s) % SeqMod
InUse(sl) == {i \in Slots : sl[i] # NoFrame}
Held == {slot[i] : i \in InUse(slot)}

\* hmac_mgmt_rx_addba_req_init
Init ==
  /\ start = FirstSeq /\ end = Add(FirstSeq, WinSize - 1)
  /\ tail = Sub(FirstSeq, 1) /\ head = Sub(FirstSeq, BmpSize)
  /\ slot = [i \in Slots |-> NoFrame] /\ cnt = 0
  /\ triggered = FALSE
  /\ bitmap = {}
  /\ enabled = TRUE /\ armed = TRUE /\ events = 0 /\ stopBa = FALSE
  /\ base = 0 /\ taken = {} /\ passed = {} /\ odd = FALSE

-----------------------------------------------------------------------------
(* Comparisons of sequence numbers                                         *)

Half == SeqMod \div 2

Lt(s, t) == \/ s < t /\ t - s < Half
            \/ s > t /\ s - t > Half

Leq(s, t) == \/ s <= t /\ t - s < Half
             \/ s > t /\ s - t > Half

InWindow(s) == Leq(start, s) /\ Leq(s, end)
BeyondWindow(s) == ~Leq(s, end)

-----------------------------------------------------------------------------
(* The bitmap of what was passed up                                        *)

Within(h, s) == Dist(h, s) < BmpSize
IsSet(s) == Within(head, s) /\ s % BmpSize \in bitmap

ToStack(S) ==
  /\ passed' = passed \cup S
  /\ odd' = (odd # (Cardinality(S \cap passed) % 2 = 1))

PassUp_NoBitmap(S, newStart) ==   \* variant: the bits are not set
  /\ ToStack(S)
  /\ UNCHANGED bmpVars

PassUp_NoClear(S, newStart) ==    \* variant: the bits moved over are not cleared
  LET goal  == Sub(newStart, BmpSize - 1)
      moved == IF Lt(head, goal) THEN goal ELSE head
  IN /\ ToStack(S)
     /\ head' = moved
     /\ bitmap' = bitmap \cup {SeqOf(f) % BmpSize : f \in {g \in S : Within(moved, SeqOf(g))}}

\* hmac_rx_lan_frame with the frames S, when the window begins at newStart:
\* hmac_ba_update_rx_bitmap moves the bitmap along and sets their bits
PassUp(S, newStart) ==
  LET goal  == Sub(newStart, BmpSize - 1)
      moved == IF Lt(head, goal) THEN goal ELSE head
      left  == {Add(head, i) % BmpSize : i \in 0..Dist(head, moved) - 1}
      set   == {SeqOf(f) % BmpSize : f \in {g \in S : Within(moved, SeqOf(g))}}
  IN /\ ToStack(S)
     /\ IF S = {} THEN UNCHANGED bmpVars
        ELSE head' = moved /\ bitmap' = (bitmap \ left) \cup set

-----------------------------------------------------------------------------
(* The reorder buffer                                                      *)

Has(sl, s) == sl[s % BufSize] # NoFrame /\ SeqOf(sl[s % BufSize]) = s
Without(sl, S) == [i \in Slots |-> IF sl[i] \in S THEN NoFrame ELSE sl[i]]

\* hmac_ba_send_frames_with_gap: what is held from s on, up to and without t
GapFrames(sl, s, t) ==
  {sl[Add(s, i) % BufSize] : i \in {j \in 0..Dist(s, t) - 1 : Has(sl, Add(s, j))}}

\* hmac_ba_send_frames_in_order: how many frames are held without a gap from s on
RunLength(sl, s) ==
  CHOOSE k \in 0..BufSize : /\ \A i \in 0..k - 1 : Has(sl, Add(s, i))
                            /\ ~Has(sl, Add(s, k))

\* The frames of sl up to s, and those in order from s on, go up.  "Sync loss"
\* (checked for data frames only) frees what is left in the buffer.
SlideTo(sl, n, s, data) ==
  LET to   == Add(s, RunLength(sl, s))
      S    == GapFrames(sl, start, to)
      rest == Without(sl, S)
      lost == data /\ tail' = Sub(to, 1) /\ n > Cardinality(S)
  IN /\ start' = to
     /\ end' = Add(to, WinSize - 1)
     /\ slot' = IF lost THEN [i \in Slots |-> NoFrame] ELSE rest
     /\ cnt' = n - Cardinality(S) - (IF lost THEN Cardinality(InUse(rest)) ELSE 0)
     /\ PassUp(S, to)

-----------------------------------------------------------------------------
(* hmac_ba_filter_serv, and the passing up of what it leaves in the list   *)

IsOld(f) == Lt(SeqOf(f), start)

RxDuplicate(f) ==
  /\ IsOld(f)
  /\ ~triggered /\ IsSet(SeqOf(f))
  /\ UNCHANGED <<winVars, bmpVars, taken, upVars>>

RxLate(f) ==
  /\ IsOld(f)
  /\ triggered \/ ~IsSet(SeqOf(f))
  /\ taken' = taken \cup {f}
  /\ PassUp({f}, start)
  /\ UNCHANGED winVars

NewTail(f) == tail' = IF Lt(tail, SeqOf(f)) THEN SeqOf(f) ELSE tail

RxDirect_KeepEnd(f) ==        \* variant: the end of the window stays
  /\ ~IsOld(f)
  /\ SeqOf(f) = start /\ cnt = 0
  /\ NewTail(f)
  /\ start' = Add(start, 1)
  /\ taken' = taken \cup {f}
  /\ PassUp({f}, Add(start, 1))
  /\ triggered' = FALSE
  /\ UNCHANGED <<end, slot, cnt>>

\* the first frame of the window, nothing buffered: up at once
RxDirect(f) ==
  /\ ~IsOld(f)
  /\ SeqOf(f) = start /\ cnt = 0
  /\ NewTail(f)
  /\ start' = Add(start, 1) /\ end' = Add(end, 1)
  /\ taken' = taken \cup {f}
  /\ PassUp({f}, Add(start, 1))
  /\ triggered' = FALSE
  /\ UNCHANGED <<slot, cnt>>

\* hmac_ba_buffer_rx_frame: a frame in the same slot is freed
Buffer(f) == [slot EXCEPT ![SeqOf(f) % BufSize] = f]
BufferCnt(f) == IF slot[SeqOf(f) % BufSize] = NoFrame THEN cnt + 1 ELSE cnt

\* within the window: buffered, then what is in order goes up
RxInWindow(f) ==
  /\ ~IsOld(f)
  /\ ~(SeqOf(f) = start /\ cnt = 0)
  /\ InWindow(SeqOf(f))
  /\ NewTail(f)
  /\ taken' = taken \cup {f}
  /\ SlideTo(Buffer(f), BufferCnt(f), start, TRUE)
  /\ triggered' = (triggered /\ start' = start)

\* beyond the window: buffered, and then the window moves so as to end with it
RxBeyond(f) ==
  /\ ~IsOld(f)
  /\ ~InWindow(SeqOf(f)) /\ BeyondWindow(SeqOf(f))
  /\ NewTail(f)
  /\ taken' = taken \cup {f}
  /\ SlideTo(Buffer(f), BufferCnt(f), Sub(SeqOf(f), WinSize - 1), TRUE)
  /\ triggered' = (triggered /\ start' = start)

RxFrame(f) ==
  /\ f \in base - Delay..base + WinSize - 1
  /\ f <= FrameOf(start) + WinSize - 1 + MaxAhead
  /\ RxDuplicate(f) \/ RxLate(f) \/ RxDirect(f) \/ RxInWindow(f) \/ RxBeyond(f)
  /\ UNCHANGED <<timerVars, base>>

-----------------------------------------------------------------------------
RxBar_NoFlush(f) ==           \* variant: the window moves without what it skips
  /\ f \in base - Delay..base /\ f \in 0..MaxFrame + 1
  /\ SeqOf(f) # start
  /\ InWindow(SeqOf(f))
  /\ start' = SeqOf(f) /\ end' = Add(SeqOf(f), WinSize - 1)
  /\ UNCHANGED <<slot, cnt, upVars, bmpVars>>
  /\ UNCHANGED <<tail, triggered, timerVars, base, taken>>

\* hmac_reorder_ba_rx_buffer_bar: only a request within the window has an effect
RxBar(f) ==
  /\ f \in base - Delay..base /\ f \in 0..MaxFrame + 1
  /\ SeqOf(f) # start
  /\ InWindow(SeqOf(f))
  /\ SlideTo(slot, cnt, SeqOf(f), FALSE)
  /\ UNCHANGED <<tail, triggered, timerVars, base, taken>>

-----------------------------------------------------------------------------
(* hmac_ba_timeout_fn and hmac_ba_send_reorder_timeout                     *)

\* the offsets, from start on, of the frames the time-out looks at
Waiting == IF cnt = 0 THEN {}
           ELSE {i \in 0..Dist(start, Add(tail, 1)) - 1 : Has(slot, Add(start, i))}

Restart == IF stopBa THEN UNCHANGED <<enabled, armed>> ELSE enabled' = TRUE /\ armed' = TRUE

\* the frames up to the one at offset i have waited long enough
TimeoutPasses(i) ==
  LET to == Add(start, i + 1)
      S  == GapFrames(slot, start, to)
  IN /\ i \in Waiting
     /\ start' = to /\ end' = Add(to, WinSize - 1)
     /\ slot' = Without(slot, S)
     /\ cnt' = cnt - Cardinality(S)
     /\ triggered' = TRUE
     /\ PassUp(S, to)
     /\ UNCHANGED tail

TimeoutWaits == UNCHANGED <<winVars, bmpVars, upVars>>

\* frw_timer_timeout_proc: a timer that is not enabled is passed over
TimerHandled ==
  /\ events > 0
  /\ events' = events - 1
  /\ IF enabled
     THEN Restart /\ (TimeoutWaits \/ \E i \in 0..BufSize - 1 : TimeoutPasses(i))
     ELSE UNCHANGED <<winVars, bmpVars, upVars, enabled, armed>>
  /\ UNCHANGED <<stopBa, base, taken>>

TimerExpires ==
  /\ armed /\ events < MaxEvents
  /\ armed' = FALSE
  /\ events' = events + 1
  /\ UNCHANGED <<winVars, bmpVars, enabled, stopBa, base, taken, upVars>>

(* hmac_proc_dev_sleep_req                                                 *)

DeepSleep ==
  /\ stopBa' = TRUE
  /\ enabled' = FALSE
  /\ UNCHANGED <<winVars, bmpVars, armed, events, base, taken, upVars>>

Work_NoCall ==                \* variant: the callback is not called
  /\ stopBa' = FALSE
  /\ UNCHANGED <<winVars, bmpVars, enabled, armed, events, base, taken, upVars>>

\* the callback is called directly, and restarts the timer
Work ==
  /\ stopBa' = FALSE
  /\ enabled' = TRUE /\ armed' = TRUE
  /\ TimeoutWaits \/ \E i \in 0..BufSize - 1 : TimeoutPasses(i)
  /\ UNCHANGED <<events, base, taken>>

-----------------------------------------------------------------------------
\* the peer (external): a frame was acknowledged or given up
PeerMovesOn ==
  /\ base <= MaxFrame
  /\ base' = base + 1
  /\ UNCHANGED <<winVars, bmpVars, timerVars, taken, upVars>>

Next == \/ \E f \in Frames : RxFrame(f)
        \/ \E f \in 0..MaxFrame + 1 : RxBar(f)
        \/ TimerExpires \/ TimerHandled \/ DeepSleep \/ Work \/ PeerMovesOn

Spec == Init /\ [][Next]_vars

\* The event task handles its events, and a frame does not stay too young for
\* ever, neither for the timer nor for a device that keeps waking up; nobody
\* has to send anything or to wake the device.
Fairness ==
  /\ WF_vars(TimerExpires)
  /\ WF_vars(TimerHandled)
  /\ SF_vars(TimerHandled /\ start' # start)
  /\ <>[]stopBa \/ SF_vars(stopBa /\ Work /\ start' # start)

LiveSpec == Spec /\ Fairness

-----------------------------------------------------------------------------
(* Properties                                                              *)

\* The window, the buffer, the count and the greatest number agree: nothing is
\* held outside the window or beyond tail (where the time-out would not look),
\* or in a slot where it would not be found.
BufferSound ==
  /\ end = Add(start, WinSize - 1)
  /\ cnt = Cardinality(Held)
  /\ \A i \in Slots : slot[i] # NoFrame =>
       /\ SeqOf(slot[i]) % BufSize = i
       /\ InWindow(SeqOf(slot[i]))
       /\ Leq(SeqOf(slot[i]), tail)

\* A bit of the bitmap stands for a frame that was passed up: a frame that comes
\* for the first time, however late, is never dropped as a duplicate.
BitmapTrue == \A f \in Frames : IsSet(SeqOf(f)) => f \in passed

\* A frame the host took is passed up or waits to be, however far the peer
\* moves on.
NothingLost == taken \subseteq passed \cup Held

\* Every step is one of RxReorderAbs: in order, nothing lost, and nothing twice
\* unless after a time-out, although the bitmap and the numbers are finite.
Abs == INSTANCE RxReorderAbs WITH next <- FrameOf(start), held <- Held, forced <- triggered
ReorderContract == Abs!Spec

\* No frame is held for ever: when earlier ones never come the time-out passes it up,
\* unless the device stays in deep sleep; with finitely many frames the buffer is then
\* empty again and again.
HeldEnds == []<>~stopBa => []<>(Held = {})

=============================================================================
