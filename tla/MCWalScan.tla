----------------------------- MODULE MCWalScan -----------------------------
(* WalScan on small instances.                                             *)
EXTENDS WalScan
=============================================================================
