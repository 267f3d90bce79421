------------------------------ MODULE FrwSched ------------------------------
(***************************************************************************)
(* The event framework of the Hi3881 driver: event queues, their weighted  *)
(* round robin in two priority classes, the task that serves them, the     *)
(* flushing of a queue (frw/frw_event.c, frw/frw_event_sched.c,            *)
(* frw/frw_task.c) and the reference counted blocks the events live in     *)
(* (oal/oal_mem.c).                                                        *)
(*                                                                         *)
(* Threads: the posters, "frw" (frw_task_thread) and "flush" (a caller of  *)
(* frw_event_vap_flush_event).  One action is what a thread does between   *)
(* two points where another can intervene: posting and picking run under   *)
(* the lock of the class, the flush dequeues under the queue's lock alone. *)
(* vap_state is never set to PAUSE, so no queue is paused.                 *)
(***************************************************************************)
EXTENDS Integers, SequencesExt, FiniteSetsExt

CONSTANTS
  Queues,      \* the event queues (vap_id, type)
  Policy,      \* Policy[q]: the class of a queue, "HI" or "NORMAL"
  Weight,      \* Weight[q]: its weight in the round robin
  MaxEvents,   \* MaxEvents[q]: its length (WLAN_FRW_EVENT_CFG_TABLE)
  Blocks,      \* the blocks of the event memory pool
  Posters,     \* threads that post events
  FailLimit,   \* FRW_ENQUEUE_FAIL_LIMIT
  NoBlock      \* no event in hand

ASSUME PolicyAssumption == Policy \in [Queues -> {"HI", "NORMAL"}]
ASSUME WeightAssumption == Weight \in [Queues -> Nat \ {0}]
ASSUME MaxEventsAssumption == MaxEvents \in [Queues -> Nat]
ASSUME FailLimitAssumption == FailLimit \in Nat
ASSUME NoBlockAssumption == NoBlock \notin Blocks
ASSUME PostersAssumption == Posters \cap {"frw", "flush"} = {}

VARIABLES
  queue,       \* the events of each queue, oldest first
  active,      \* state of each queue is FRW_EVENT_QUEUE_STATE_ACTIVE
  list,        \* the queues on the list of each class
  weightCnt,   \* weight_cnt of each queue
  total,       \* total_weight_cnt of each class
  count,       \* total_element_cnt
  fails,       \* g_frw_enqueue_fail_nums, capped above its limit
  userCnt,     \* user_cnt of each block
  free,        \* the blocks in state OAL_MEM_STATE_FREE
  pc, hand,    \* where each thread is, and the event it has in hand
  flushed      \* the queue "flush" is at work on

schedVars == <<queue, active, list, weightCnt, total>>
memVars   == <<userCnt, free>>
vars == <<schedVars, count, fails, memVars, pc, hand, flushed>>

Classes == {"HI", "NORMAL"}
Threads == Posters \cup {"frw", "flush"}
Takers  == {"frw", "flush"}
Labels  == {"idle", "post", "fail", "release", "pickHi", "pickNormal", "count", "handle",
            "dequeue", "deactivate"}

TypeOK ==
  /\ queue \in [Queues -> Seq(Blocks)]
  /\ \A q \in Queues : Len(queue[q]) <= MaxEvents[q]
  /\ active \in [Queues -> BOOLEAN]
  /\ list \in [Classes -> Seq(Queues)]
  /\ weightCnt \in [Queues -> Nat]
  /\ total \in [Classes -> Nat]
  /\ count \in Int
  /\ fails \in 0..FailLimit + 1
  /\ userCnt \in [Blocks -> Nat] /\ free \in SUBSET Blocks
  /\ pc \in [Threads -> Labels]
  /\ hand \in [Threads -> Blocks \cup {NoBlock}]
  /\ flushed \in Queues

\* frw_event_init: every queue empty and inactive, both lists empty
Init ==
  /\ queue = [q \in Queues |-> <<>>]
  /\ active = [q \in Queues |-> FALSE]
  /\ list = [c \in Classes |-> <<>>]
  /\ weightCnt = [q \in Queues |-> 0]
  /\ total = [c \in Classes |-> 0]
  /\ count = 0
  /\ fails = 0
  /\ userCnt = [b \in Blocks |-> 0] /\ free = Blocks
  /\ pc = [t \in Threads |-> "idle"]
  /\ hand = [t \in Threads |-> NoBlock]
  /\ flushed \in Queues

At(t, l) == pc[t] = l
Goto(t, l) == pc' = [pc EXCEPT ![t] = l]
Without(s, x) ==                \* oal_dlist_delete_entry: x is on s at most once
  IF Contains(s, x) THEN RemoveAt(s, CHOOSE i \in DOMAIN s : s[i] = x) ELSE s
SumOver(f, S) == MapThenSumSet(LAMBDA x : f[x], S)

-----------------------------------------------------------------------------
(* Event memory: oal_mem_alloc_enhanced and oal_mem_free_enhanced          *)

Alloc(b) == /\ b \in free
            /\ userCnt' = [userCnt EXCEPT ![b] = 1]
            /\ free' = free \ {b}

\* give up one reference; a block that is free already is left alone
Free(b) ==
  IF b \in free \/ userCnt[b] = 0
  THEN UNCHANGED memVars
  ELSE /\ userCnt' = [userCnt EXCEPT ![b] = @ - 1]
       /\ free' = IF userCnt[b] = 1 THEN free \cup {b} ELSE free

-----------------------------------------------------------------------------
(* Posting: a caller allocates the event, dispatches it, frees its own     *)
(* reference.                                                              *)

AllocEvent(p, b) ==
  /\ At(p, "idle")
  /\ Alloc(b)
  /\ hand' = [hand EXCEPT ![p] = b]
  /\ Goto(p, "post")
  /\ UNCHANGED <<schedVars, count, fails, flushed>>

\* frw_event_sched_activate_queue_no_lock
Activate(q) ==
  IF active[q]
  THEN UNCHANGED <<active, list, weightCnt, total>>
  ELSE /\ weightCnt' = [weightCnt EXCEPT ![q] = Weight[q]]
       /\ total' = [total EXCEPT ![Policy[q]] = @ + Weight[q]]
       /\ list' = [list EXCEPT ![Policy[q]] = Append(@, q)]
       /\ active' = [active EXCEPT ![q] = TRUE]

PostOk_NoRef(p, q) ==         \* variant: no reference is taken for the queue
  /\ At(p, "post")
  /\ Len(queue[q]) < MaxEvents[q]
  /\ queue' = [queue EXCEPT ![q] = Append(@, hand[p])]
  /\ count' = count + 1
  /\ fails' = 0
  /\ Activate(q)
  /\ Goto(p, "release")
  /\ UNCHANGED <<memVars, hand, flushed>>

\* frw_event_post_event: a reference for the queue, enqueue, activate
PostOk(p, q) ==
  /\ At(p, "post")
  /\ Len(queue[q]) < MaxEvents[q]
  /\ userCnt' = [userCnt EXCEPT ![hand[p]] = @ + 1]
  /\ queue' = [queue EXCEPT ![q] = Append(@, hand[p])]
  /\ count' = count + 1
  /\ fails' = 0
  /\ Activate(q)
  /\ Goto(p, "release")
  /\ UNCHANGED <<free, hand, flushed>>

\* the queue is full: both locks are released before the reference is
PostFull(p, q) ==
  /\ At(p, "post")
  /\ Len(queue[q]) = MaxEvents[q]
  /\ userCnt' = [userCnt EXCEPT ![hand[p]] = @ + 1]
  /\ Goto(p, "fail")
  /\ UNCHANGED <<schedVars, count, fails, free, hand, flushed>>

\* the failure is counted (and reported above the limit), the reference freed
PostFailed(p) ==
  /\ At(p, "fail")
  /\ fails' = IF fails > FailLimit THEN fails ELSE fails + 1
  /\ Free(hand[p])
  /\ Goto(p, "release")
  /\ UNCHANGED <<schedVars, count, hand, flushed>>

Release(p) ==
  /\ At(p, "release")
  /\ Free(hand[p])
  /\ hand' = [hand EXCEPT ![p] = NoBlock]
  /\ Goto(p, "idle")
  /\ UNCHANGED <<schedVars, count, fails, flushed>>

Poster(p) == \/ \E b \in Blocks : AllocEvent(p, b)
             \/ \E q \in Queues : PostOk(p, q) \/ PostFull(p, q)
             \/ PostFailed(p) \/ Release(p)

-----------------------------------------------------------------------------
(* frw_event_sched_pick_next_event_queue_wrr                               *)

Eligible(c) == {i \in DOMAIN list[c] : weightCnt[list[c][i]] > 0}
Chosen(c) == list[c][Min(Eligible(c))]

\* frw_event_sched_deactivate_queue_no_lock: no effect unless q is empty
Deactivated(w, t, l, q) ==
  [weight |-> [w EXCEPT ![q] = 0], total |-> t - w[q], list |-> Without(l, q)]

\* the class after a pick: a new round begins when its total weight is used up
NewRound_KeepTotal(c, s) ==   \* variant: the total is not raised with the weights
  /\ list' = [list EXCEPT ![c] = s.list]
  /\ total' = [total EXCEPT ![c] = s.total]
  /\ weightCnt' = IF s.total = 0
                  THEN [q \in Queues |-> IF Contains(s.list, q) THEN Weight[q]
                                         ELSE s.weight[q]]
                  ELSE s.weight

NewRound(c, s) ==
  /\ list' = [list EXCEPT ![c] = s.list]
  /\ total' = [total EXCEPT ![c] = IF s.total = 0 THEN SumOver(Weight, ToSet(s.list))
                                   ELSE s.total]
  /\ weightCnt' = IF s.total = 0
                  THEN [q \in Queues |-> IF Contains(s.list, q) THEN Weight[q]
                                         ELSE s.weight[q]]
                  ELSE s.weight

\* serve q: use up one unit of its weight, dequeue, deactivate it if empty
Serve(c, q) ==
  LET w == [weightCnt EXCEPT ![q] = @ - 1]
  IN IF Len(queue[q]) <= 1
     THEN /\ active' = [active EXCEPT ![q] = FALSE]
          /\ NewRound(c, Deactivated(w, total[c] - 1, list[c], q))
     ELSE /\ NewRound(c, [weight |-> w, total |-> total[c] - 1, list |-> list[c]])
          /\ UNCHANGED active

\* an event is found
PickEvent(c) ==
  /\ Eligible(c) # {}
  /\ queue[Chosen(c)] # <<>>
  /\ Serve(c, Chosen(c))
  /\ hand' = [hand EXCEPT !["frw"] = Head(queue[Chosen(c)])]
  /\ queue' = [queue EXCEPT ![Chosen(c)] = Tail(@)]
  /\ Goto("frw", "count")

\* the chosen queue has just been emptied by a flush
PickDrained(c, next) ==
  /\ Eligible(c) # {}
  /\ queue[Chosen(c)] = <<>>
  /\ Serve(c, Chosen(c))
  /\ Goto("frw", next)
  /\ UNCHANGED <<queue, hand>>

\* the list is empty, or no queue on it has weight left
PickNothing(c, next) ==
  /\ Eligible(c) = {}
  /\ NewRound(c, [weight |-> weightCnt, total |-> total[c], list |-> list[c]])
  /\ Goto("frw", next)
  /\ UNCHANGED <<queue, active, hand>>

\* frw_event_schedule: the normal class is asked when the high one gave none
ScheduleHi ==
  /\ At("frw", "pickHi")
  /\ PickEvent("HI") \/ PickDrained("HI", "pickNormal") \/ PickNothing("HI", "pickNormal")
  /\ UNCHANGED <<count, fails, memVars, flushed>>

ScheduleNormal ==
  /\ At("frw", "pickNormal")
  /\ PickEvent("NORMAL") \/ PickDrained("NORMAL", "idle") \/ PickNothing("NORMAL", "idle")
  /\ UNCHANGED <<count, fails, memVars, flushed>>

-----------------------------------------------------------------------------
(* frw_task_thread and frw_event_process_all_event                         *)

TaskWake_OffByOne ==          \* variant: the last event does not end the wait
  /\ At("frw", "idle")
  /\ count > 1
  /\ Goto("frw", "pickHi")
  /\ UNCHANGED <<schedVars, count, fails, memVars, hand, flushed>>

\* the wait is over when total_element_cnt is not zero
TaskWake ==
  /\ At("frw", "idle")
  /\ count # 0
  /\ Goto("frw", "pickHi")
  /\ UNCHANGED <<schedVars, count, fails, memVars, hand, flushed>>

\* the atomic counter follows the dequeuing, outside every lock
CountDown(t) ==
  /\ At(t, "count")
  /\ count' = count - 1
  /\ Goto(t, "handle")
  /\ UNCHANGED <<schedVars, fails, memVars, hand, flushed>>

\* the handler has run: free the queue's reference, look for the next event
TaskFree ==
  /\ At("frw", "handle")
  /\ Free(hand["frw"])
  /\ hand' = [hand EXCEPT !["frw"] = NoBlock]
  /\ Goto("frw", "pickHi")
  /\ UNCHANGED <<schedVars, count, fails, flushed>>

Task == TaskWake \/ ScheduleHi \/ ScheduleNormal \/ CountDown("frw") \/ TaskFree

-----------------------------------------------------------------------------
(* frw_event_vap_flush_event (and, for one queue, _flush_event_queue)      *)

FlushBegin(q) ==
  /\ At("flush", "idle")
  /\ queue[q] # <<>>
  /\ flushed' = q
  /\ Goto("flush", "dequeue")
  /\ UNCHANGED <<schedVars, count, fails, memVars, hand>>

FlushDequeue_NoCount ==       \* variant: total_element_cnt is not taken down
  /\ At("flush", "dequeue")
  /\ IF queue[flushed] = <<>>
     THEN /\ Goto("flush", "idle")
          /\ UNCHANGED <<queue, hand>>
     ELSE /\ hand' = [hand EXCEPT !["flush"] = Head(queue[flushed])]
          /\ queue' = [queue EXCEPT ![flushed] = Tail(@)]
          /\ Goto("flush", "handle")
  /\ UNCHANGED <<active, list, weightCnt, total, count, fails, memVars, flushed>>

\* the length was read without a lock: the dequeue may find the queue empty
FlushDequeue ==
  /\ At("flush", "dequeue")
  /\ IF queue[flushed] = <<>>
     THEN /\ Goto("flush", "idle")
          /\ UNCHANGED <<queue, hand>>
     ELSE /\ hand' = [hand EXCEPT !["flush"] = Head(queue[flushed])]
          /\ queue' = [queue EXCEPT ![flushed] = Tail(@)]
          /\ Goto("flush", "count")
  /\ UNCHANGED <<active, list, weightCnt, total, count, fails, memVars, flushed>>

FlushFree ==
  /\ At("flush", "handle")
  /\ Free(hand["flush"])
  /\ hand' = [hand EXCEPT !["flush"] = NoBlock]
  /\ Goto("flush", IF queue[flushed] # <<>> THEN "dequeue" ELSE "deactivate")
  /\ UNCHANGED <<schedVars, count, fails, flushed>>

FlushDeactivate_Always ==     \* variant: the length is not read again
  /\ At("flush", "deactivate")
  /\ LET c == Policy[flushed]
         d == Deactivated(weightCnt, total[c], list[c], flushed)
     IN /\ list' = [list EXCEPT ![c] = d.list]
        /\ total' = [total EXCEPT ![c] = d.total]
        /\ weightCnt' = d.weight
        /\ active' = [active EXCEPT ![flushed] = FALSE]
  /\ Goto("flush", "idle")
  /\ UNCHANGED <<queue, count, fails, memVars, hand, flushed>>

\* frw_event_sched_deactivate_queue: under the lock of the class only
FlushDeactivate ==
  /\ At("flush", "deactivate")
  /\ LET c == Policy[flushed]
         d == Deactivated(weightCnt, total[c], list[c], flushed)
     IN IF queue[flushed] = <<>>
        THEN /\ list' = [list EXCEPT ![c] = d.list]
             /\ total' = [total EXCEPT ![c] = d.total]
             /\ weightCnt' = d.weight
             /\ active' = [active EXCEPT ![flushed] = FALSE]
        ELSE UNCHANGED <<active, list, weightCnt, total>>
  /\ Goto("flush", "idle")
  /\ UNCHANGED <<queue, count, fails, memVars, hand, flushed>>

Flush == \/ \E q \in Queues : FlushBegin(q)
         \/ FlushDequeue \/ CountDown("flush") \/ FlushFree \/ FlushDeactivate

-----------------------------------------------------------------------------
Next == (\E p \in Posters : Poster(p)) \/ Task \/ Flush

Spec == Init /\ [][Next]_vars

\* The kernel runs every thread; nobody has to post or to begin a flush.
Fairness ==
  /\ WF_vars(Task)
  /\ WF_vars(FlushDequeue \/ CountDown("flush") \/ FlushFree \/ FlushDeactivate)
  /\ \A p \in Posters : WF_vars(PostFailed(p) \/ Release(p))

LiveSpec == Spec /\ Fairness

-----------------------------------------------------------------------------
(* Properties                                                              *)

\* An accepted event is always in reach of the scheduler: a queue with
\* events is active and on the list of its class, exactly once.
EventsInReach ==
  \A q \in Queues : queue[q] # <<>> =>
     active[q] /\ Cardinality({i \in DOMAIN list[Policy[q]] : list[Policy[q]][i] = q}) = 1

\* The class's total weight is the sum of what its listed queues have left:
\* a round neither ends early nor fails to end.
WeightsAddUp ==
  \A c \in Classes :
    /\ total[c] = SumOver(weightCnt, ToSet(list[c]))
    /\ \A q \in Queues : ~Contains(list[c], q) /\ Policy[q] = c => weightCnt[q] = 0

\* total_element_cnt, on which the task sleeps, is the number of queued events
\* (and of those taken a moment ago): the task neither sleeps on one nor spins.
CountIsExact ==
  count = SumOver([q \in Queues |-> Len(queue[q])], Queues)
          + Cardinality({t \in Takers : At(t, "count")})

\* A block is free exactly when nobody refers to it: each of its references is
\* held by a queue, by a poster or by whoever took the event.
Holders(b) ==
  Cardinality({q \in Queues : Contains(queue[q], b)})
  + Cardinality({t \in Threads : hand[t] = b})
  + Cardinality({p \in Posters : hand[p] = b /\ At(p, "fail")})
RefsExact == \A b \in Blocks : userCnt[b] = Holders(b) /\ (b \in free <=> Holders(b) = 0)

\* Every step is one of FrwSchedAbs: events are handed out once, and the
\* events of one queue in order, whoever takes them.
Abs == INSTANCE FrwSchedAbs WITH chan <- queue,
                                 out <- {hand[t] : t \in Takers} \ {NoBlock}
EventContract == Abs!Spec

\* When posting and flushing stop for good, every accepted event is handled.
NobodyPosts == \A t \in Posters \cup {"flush"} : At(t, "idle")
DrainsWhenQuiet == <>[]NobodyPosts => <>[](\A q \in Queues : queue[q] = <<>>)

=============================================================================
