----------------------------- MODULE WlanPmAbs -----------------------------
(***************************************************************************)
(* What power management promises to the owners of sleep votes             *)
(* (wifi/driver/hi3881/oal/plat_pm_wlan.c): "held" are the votes whose     *)
(* wlan_pm_add_vote returned with the chip awake, "state" is               *)
(* wlan_dev_state.  Nothing here tells how the chip is woken or put to     *)
(* sleep; WlanPm implements this specification.                            *)
(***************************************************************************)
CONSTANT Voters
VARIABLES state, held

Init == state = "DISALLOW" /\ held = {}

\* a vote is granted only while the chip is kept awake
Hold(v) == state # "ALLOW" /\ held' = held \cup {v} /\ UNCHANGED state

Release(v) == held' = held \ {v} /\ UNCHANGED state

\* the chip may sleep only when nobody holds a vote
Sleep == held = {} /\ state' = "ALLOW" /\ UNCHANGED held

Wake == state' = "DISALLOW" /\ UNCHANGED held

Except == state' = "EXCEPTION" /\ UNCHANGED held

Next == \/ \E v \in Voters : Hold(v) \/ Release(v)
        \/ Sleep \/ Wake \/ Except

Spec == Init /\ [][Next]_<<state, held>>
=============================================================================
