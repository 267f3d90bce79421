------------------------------ MODULE FrwTimer ------------------------------
(***************************************************************************)
(* The software timers (wifi/driver/hi3881/frw/frw_timer.c) and the list   *)
(* (include/hi_list.h) that the event task walks, without its lock, to     *)
(* find the timer of an expiry.  "frw" is the event task; Callers are the  *)
(* callers of cfg80211, which create and destroy the Shared timers, those  *)
(* of a scan, meanwhile.  The kernel's timers and the queue of the events  *)
(* (FrwSched has it) are external.  Bounds: MaxIds, MaxQueued.             *)
(*                                                                         *)
(* Nobody creates a timer while it is destroyed, and none expires while it *)
(* is created; two may destroy one at once.                                *)
(***************************************************************************)
EXTENDS Naturals, Sequences

CONSTANTS
  Timers, Shared,
  Callers,
  MaxIds,      \* bound on the ids that are given
  MaxQueued    \* bound on the TIMEOUT events in the queue

VARIABLES
  succ, pred,             \* next and prev of each entry and of the head
  registered, isEnabled,  \* is_registerd, is_enabled
  id,                     \* timer_id
  lastId,                 \* g_timer_id
  pending,                \* the kernel timers that are armed
  firing,                 \* those whose callback has begun
  queued,                 \* ids in the queue of the events
  doing,                  \* where each thread is in frw_timer_immediate_destroy_timer
  walk,                   \* where the event task is in frw_timer_timeout_proc
  calm                    \* history: nobody destroyed a timer since the walk began

lists == <<succ, pred>>
flags == <<registered, isEnabled, id, lastId>>
kernel == <<pending, firing, queued>>
timers == <<lists, flags, kernel, doing, walk, calm>>

Head1 == "head"
Null == "null"
Entries == Timers \cup {Head1}
Tasks == Callers \cup {"frw"}
Idle == [step |-> "free", timer |-> Null]
NoWalk == [step |-> "none", at |-> Null, id |-> 0]

ASSUME TimerAssumption ==
  /\ Head1 \notin Timers /\ Null \notin Timers
  /\ MaxIds \in Nat /\ MaxQueued \in Nat

TimerTypeOK ==
  /\ succ \in [Entries -> Entries \cup {Null}] /\ pred \in [Entries -> Entries \cup {Null}]
  /\ registered \in [Timers -> BOOLEAN] /\ isEnabled \in [Timers -> BOOLEAN]
  /\ id \in [Timers -> 0..MaxIds] /\ lastId \in 0..MaxIds
  /\ pending \subseteq Timers /\ firing \subseteq Timers /\ queued \in Seq(0..MaxIds)
  /\ doing \in [Tasks -> [step : {"free", "give", "unlink", "cut"}, timer : Timers \cup {Null}]]
  /\ walk \in [step : {"none", "look", "move", "call"}, at : Entries \cup {Null}, id : 0..MaxIds]
  /\ calm \in BOOLEAN

\* frw_timer_init; the structures of the timers are zeroed with their VAP
TimerInit ==
  /\ succ = [e \in Entries |-> IF e = Head1 THEN Head1 ELSE Null] /\ pred = succ
  /\ registered = [t \in Timers |-> FALSE] /\ isEnabled = registered
  /\ id = [t \in Timers |-> 0] /\ lastId = 0
  /\ pending = {} /\ firing = {} /\ queued = <<>>
  /\ doing = [p \in Tasks |-> Idle] /\ walk = NoWalk /\ calm = TRUE

Doing(p, step, t) == doing[p] = [step |-> step, timer |-> t]
Goes(p, step, t) == doing' = [doing EXCEPT ![p] = [step |-> step, timer |-> t]]

\* timers that somebody is taking off; the list's lock is held on the way to "cut"
Leaving == { doing[p].timer : p \in {q \in Tasks : doing[q].step \in {"unlink", "cut"}} }
ListFree == \A p \in Tasks : doing[p].step # "cut"

\* the event task in one of its handlers, or a thread, about to use t
Uses(p, t) ==
  /\ doing[p] = Idle
  /\ IF p = "frw" THEN walk.step = "none" ELSE t \in Shared

----------------------------------------------------------------------------
(* Creating and stopping                                                   *)

\* hi_list_tail_insert
Linked(t) ==
  /\ succ' = [succ EXCEPT ![t] = Head1, ![pred[Head1]] = t]
  /\ pred' = [pred EXCEPT ![t] = pred[Head1], ![Head1] = t]

\* frw_timer_create_timer: a registered one keeps its id and its place
Create(p, t) ==
  /\ Uses(p, t) /\ ListFree /\ t \notin Leaving
  /\ isEnabled' = [isEnabled EXCEPT ![t] = TRUE] /\ pending' = pending \cup {t}
  /\ \/ registered[t] /\ UNCHANGED <<lists, registered, id, lastId>>
     \/ /\ ~registered[t] /\ lastId < MaxIds
        /\ id' = [id EXCEPT ![t] = lastId] /\ lastId' = lastId + 1
        /\ registered' = [registered EXCEPT ![t] = TRUE]
        /\ Linked(t)
  /\ UNCHANGED <<firing, queued, doing, walk, calm>>

\* frw_timer_stop_timer and frw_timer_restart_timer, of the event task's own timers
Enable(t, on) ==
  /\ Uses("frw", t) /\ t \notin Shared /\ registered[t]
  /\ isEnabled' = [isEnabled EXCEPT ![t] = on]
  /\ pending' = IF on THEN pending \cup {t} ELSE pending
  /\ UNCHANGED <<lists, registered, id, lastId, firing, queued, doing, walk, calm>>

----------------------------------------------------------------------------
(* frw_timer_immediate_destroy_timer                                       *)

DestroyTest(p, t) ==
  /\ Uses(p, t) /\ registered[t]
  /\ Goes(p, "give", t)
  /\ UNCHANGED <<lists, flags, kernel, walk, calm>>

\* without the lock; oal_timer_delete does not wait for a callback that runs
DestroyGive(p, t) ==
  /\ Doing(p, "give", t)
  /\ isEnabled' = [isEnabled EXCEPT ![t] = FALSE]
  /\ registered' = [registered EXCEPT ![t] = FALSE]
  /\ pending' = pending \ {t} /\ calm' = FALSE
  /\ Goes(p, "unlink", t)
  /\ UNCHANGED <<lists, id, lastId, firing, queued, walk>>

\* hi_list_delete, the neighbours
Around_Forward(t) ==     \* variant: the successor keeps its predecessor
  succ' = [succ EXCEPT ![pred[t]] = succ[t]] /\ UNCHANGED pred
Around(t) ==
  /\ pred' = [pred EXCEPT ![succ[t]] = pred[t]]
  /\ succ' = [succ EXCEPT ![pred[t]] = succ[t]]

DestroyUnlink(p, t) ==
  /\ Doing(p, "unlink", t) /\ ListFree
  /\ \/ /\ succ[t] # Null /\ pred[t] # Null
        /\ Around(t) /\ Goes(p, "cut", t)
     \/ /\ succ[t] = Null \/ pred[t] = Null
        /\ Goes(p, "free", Null) /\ UNCHANGED lists
  /\ UNCHANGED <<flags, kernel, walk, calm>>

\* hi_list_delete, the entry itself
DestroyCut(p, t) ==
  /\ Doing(p, "cut", t)
  /\ succ' = [succ EXCEPT ![t] = Null] /\ pred' = [pred EXCEPT ![t] = Null]
  /\ Goes(p, "free", Null)
  /\ UNCHANGED <<flags, kernel, walk, calm>>

----------------------------------------------------------------------------
(* An expiry: frw_timer_timeout_proc_event reads the id when it runs       *)

Expire(t) ==
  /\ t \in pending \ firing
  /\ pending' = pending \ {t} /\ firing' = firing \cup {t}
  /\ UNCHANGED <<lists, flags, queued, doing, walk, calm>>

Post(t) ==
  /\ t \in firing /\ firing' = firing \ {t}
  /\ \/ Len(queued) < MaxQueued /\ queued' = Append(queued, id[t])
     \/ UNCHANGED queued                          \* no memory, or the queue is full
  /\ UNCHANGED <<lists, flags, pending, doing, walk, calm>>

----------------------------------------------------------------------------
(* frw_timer_timeout_proc                                                  *)

Walking(step, e) == walk' = [walk EXCEPT !.step = step, !.at = e]

WalkBegin ==
  /\ walk.step = "none" /\ doing["frw"] = Idle /\ queued # <<>>
  /\ queued' = Tail(queued)
  /\ walk' = [step |-> "look", at |-> succ[Head1], id |-> Head(queued)]
  /\ calm' = (Leaving = {})
  /\ UNCHANGED <<lists, flags, pending, firing, doing>>

Found(t) == isEnabled[t] /\ id[t] = walk.id

WalkLook ==
  /\ walk.step = "look"
  /\ \/ walk.at \in {Head1, Null} /\ walk' = NoWalk
     \/ \E t \in Timers : walk.at = t /\ Walking(IF Found(t) THEN "call" ELSE "move", t)
  /\ UNCHANGED <<lists, flags, kernel, doing, calm>>

WalkMove ==
  /\ walk.step = "move" /\ Walking("look", succ[walk.at])
  /\ UNCHANGED <<lists, flags, kernel, doing, calm>>

\* the handler is called, and uses timers as above
WalkCall ==
  /\ walk.step = "call" /\ walk' = NoWalk
  /\ UNCHANGED <<lists, flags, kernel, doing, calm>>

----------------------------------------------------------------------------
Destroy(p, t) == DestroyTest(p, t) \/ DestroyGive(p, t) \/ DestroyUnlink(p, t) \/ DestroyCut(p, t)
Walk == WalkBegin \/ WalkLook \/ WalkMove \/ WalkCall

TimerNext ==
  \/ \E p \in Tasks, t \in Timers : Create(p, t) \/ Destroy(p, t)
  \/ \E t \in Timers : Expire(t) \/ Post(t) \/ \E on \in BOOLEAN : Enable(t, on)
  \/ Walk

TimerSpec == TimerInit /\ [][TimerNext]_timers

----------------------------------------------------------------------------
(* Properties                                                              *)

\* An expiry whose timer is still enabled is found, whatever timers were created and
\* destroyed before by whom, twice at once or while their callback ran, and whatever is
\* created during the walk; only a destroy during the walk can make it be missed
\* (frw_timer_timeout_proc, which takes no lock; hi_list_delete).
ExpiryFound ==
  walk.step = "look" /\ walk.at \in {Head1, Null} /\ calm =>
    ~\E t \in Timers : registered[t] /\ Found(t)
=============================================================================
