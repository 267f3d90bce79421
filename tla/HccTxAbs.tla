------------------------------ MODULE HccTxAbs ------------------------------
(***************************************************************************)
(* What the transmit side of HCC (wifi/driver/hi3881/hcc) promises to      *)
(* those who hand it packets.  The n-th packet accepted of a class c is    *)
(* <<c, n>>.  A packet is accepted once and sent at most once; commands,   *)
(* and data frames, leave for the device oldest first; any may be dropped. *)
(* Between the packets in "loose" no order is kept: the key frames, and    *)
(* the data frames that Stray took out of their order.                     *)
(***************************************************************************)
EXTENDS Naturals

VARIABLES
  accepted,                 \* how many packets of each class were accepted
  cmds, data, loose,        \* those that wait
  air                       \* those under transfer

chan == <<accepted, cmds, data, loose, air>>

Init == /\ accepted = [c \in {"cmd", "data", "key"} |-> 0]
        /\ cmds = {} /\ data = {} /\ loose = {} /\ air = {}

Accept(c) ==
  LET p == <<c, accepted[c] + 1>>
  IN /\ accepted' = [accepted EXCEPT ![c] = @ + 1]
     /\ cmds'  = IF c = "cmd"  THEN cmds \cup {p}  ELSE cmds
     /\ data'  = IF c = "data" THEN data \cup {p}  ELSE data
     /\ loose' = IF c = "key"  THEN loose \cup {p} ELSE loose
     /\ UNCHANGED air

\* what is taken from S to leave S1 is older than what stays
Oldest(S, S1) ==
  /\ S1 \subseteq S
  /\ \A p \in S \ S1, q \in S1 : p[2] < q[2]

Send ==
  /\ air = {}
  /\ Oldest(cmds, cmds') /\ Oldest(data, data') /\ loose' \subseteq loose
  /\ air' = (cmds \ cmds') \cup (data \ data') \cup (loose \ loose')
  /\ UNCHANGED accepted

Land == air' = {} /\ UNCHANGED <<accepted, cmds, data, loose>>

Drop ==
  /\ cmds' \subseteq cmds /\ data' \subseteq data /\ loose' \subseteq loose
  /\ UNCHANGED <<accepted, air>>

Stray ==
  /\ Oldest(data, data')
  /\ loose' = loose \cup (data \ data')
  /\ UNCHANGED <<accepted, cmds, air>>

Next == (\E c \in {"cmd", "data", "key"} : Accept(c)) \/ Send \/ Land \/ Drop \/ Stray
Spec == Init /\ [][Next]_chan
=============================================================================
