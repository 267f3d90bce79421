------------------------------- MODULE MCWifi -------------------------------
(***************************************************************************)
(* Small instances that do not interact, in one run: HccTx ("hcc"), the    *)
(* sessions of BaSessions, receiving ("rx") or sending ("tx"), and a       *)
(* session of RxReorder in which frames can be too young for the timer     *)
(* ("young").  The first state chooses which of them moves; the two sides  *)
(* of BaSessions share only the users that leave and the failures.         *)
(***************************************************************************)
EXTENDS HccTx, BaSessions

VARIABLES
  which,
  start, end, tail, slot, cnt, triggered, head, bitmap, enabled, armed, events,
  stopBa, base, taken, passed, odd

MCMost == [c \in Classes |-> IF c = "key" THEN 1 ELSE 2]
MCRxUse == Sessions
MCTxUse == {"ap"} \X Tids

Young == INSTANCE RxReorder WITH
        SeqMod <- 32, BufSize <- 4, BmpSize <- 8, WinSize <- 3, FirstSeq <- 30,
        MaxFrame <- 4, Delay <- 1, MaxAhead <- 1, MaxEvents <- 2

window == <<start, end, tail, slot, cnt, triggered, head, bitmap, enabled, armed, events,
            stopBa, base, taken, passed, odd>>
all == <<which, vars, ba, window>>

MCInit == which \in {"hcc", "rx", "tx", "young"} /\ Init /\ BaInit /\ Young!Init

\* the two sides of BaNext
Leave == \E u \in Users : TidClear(u)
Receive == RxStep \/ Leave
Transmit == TxStep \/ Install \/ TimerStep \/ Leave

\* bound: an unloading begins when at most three packets were accepted, and meets no more
FewAtExit == ex' = "no" \/ sent'["cmd"] + sent'["data"] + sent'["key"] <= 3

\* a step of one instance
Moves(i, step) ==
  /\ which = i /\ step /\ (i = "hcc" => FewAtExit)
  /\ CASE i = "hcc"          -> UNCHANGED <<which, ba, window>>
       [] i \in {"rx", "tx"}  -> UNCHANGED <<which, vars, window>>
       [] i = "young"        -> UNCHANGED <<which, vars, ba>>

MCNext ==
  Moves("hcc", Next) \/ Moves("rx", Receive) \/ Moves("tx", Transmit) \/ Moves("young", Young!Next)

\* the fairness of the instance that moves
MCFairness ==
  /\ WF_all(Moves("hcc", ThreadStep)) /\ WF_all(Moves("hcc", ExitStep))
  /\ \A q \in Queues : SF_all(Moves("hcc", cur = q /\ \E n \in 1..MaxCredit : EnterGranted(n)))
  /\ WF_all(Moves("tx", Install)) /\ WF_all(Moves("tx", TimerStep))
  /\ WF_all(Moves("young", Young!TimerExpires)) /\ WF_all(Moves("young", Young!TimerHandled))
  /\ SF_all(Moves("young", Young!TimerHandled /\ start' # start))
  /\ <>[]stopBa \/ SF_all(Moves("young", stopBa /\ Young!Work /\ start' # start))

MCSpec == MCInit /\ [][MCNext]_all /\ MCFairness

\* A frame does not stay in the reorder buffer for ever (hmac_ba_timeout_fn).
HeldEnds == Young!HeldEnds
=============================================================================
