------------------------------ MODULE MCWlanPm ------------------------------
(* WlanPm on small instances: the vote ids are model values.               *)
EXTENDS WlanPm, TLC

Perms == Permutations(Voters)
=============================================================================
