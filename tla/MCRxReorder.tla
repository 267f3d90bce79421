---------------------------- MODULE MCRxReorder ----------------------------
(* RxReorder: every constant has its value in the configuration.           *)
EXTENDS RxReorder
=============================================================================
