--------------------------- MODULE RxReorderAbs ---------------------------
(***************************************************************************)
(* What receive reordering promises to the network stack: a frame that was *)
(* taken is passed up, in the order of the frames; what comes later than   *)
(* its turn is passed up at once, and none is passed up twice, unless the  *)
(* last advance was forced by a time-out.                                  *)
(***************************************************************************)
EXTENDS Naturals

CONSTANT MaxFrame   \* the frames are 0..MaxFrame

VARIABLES
  next,        \* the frame whose turn it is
  held,        \* frames that wait for earlier ones
  passed,      \* frames that were passed up
  odd,         \* an odd number of times a frame was passed up again
  forced       \* the last advance was forced

Frames == 0..MaxFrame

Init == next = 0 /\ held = {} /\ passed = {} /\ odd = FALSE /\ forced = FALSE

\* move on, having frames S: those before the next turn go up
MoveOn(S) ==
  /\ next' \in next..MaxFrame + 1
  /\ held' = {f \in S : f >= next'}
  /\ passed' = passed \cup {f \in S : f < next'}
  /\ UNCHANGED odd

Receive == \E f \in next..MaxFrame : MoveOn(held \cup {f}) /\ forced' = (forced /\ next' = next)

GiveUp == MoveOn(held) /\ forced' \in {forced, TRUE}

Late == \E f \in Frames :
  /\ f < next
  /\ \/ f \notin passed /\ UNCHANGED odd
     \/ f \in passed /\ forced /\ odd' = ~odd
  /\ passed' = passed \cup {f}
  /\ UNCHANGED <<next, held, forced>>

Next == GiveUp \/ Late \/ Receive

Spec == Init /\ [][Next]_<<next, held, passed, odd, forced>>
=============================================================================
