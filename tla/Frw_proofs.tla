----------------------------- MODULE Frw_proofs -----------------------------
(***************************************************************************)
(* Proofs about FrwSched for every set of queues, weights, lengths, blocks *)
(* and posters: accepted events stay in the scheduler's reach, references  *)
(* are counted exactly, the framework implements FrwSchedAbs, the weights  *)
(* of a class add up, and the count the task sleeps on is exact.  Then     *)
(* about FrwTimer for every set of timers and callers: the list stays      *)
(* linked and an expiry finds its timer.                                   *)
(***************************************************************************)
EXTENDS FrwSched, FrwTimer, NumberLemmas, SequenceTheorems, TLAPS

USE PolicyAssumption, WeightAssumption, MaxEventsAssumption, FailLimitAssumption,
    NoBlockAssumption, PostersAssumption

----------------------------------------------------------------------------
(* Sequences without repetitions                                           *)

Distinct(s) == \A i, j \in DOMAIN s : s[i] = s[j] => i = j
On(s, x) == \E i \in DOMAIN s : s[i] = x

LEMMA OnContains ==
  ASSUME NEW S, NEW s \in Seq(S), NEW x
  PROVE  Contains(s, x) <=> On(s, x)
BY LenProperties DEF Contains, On

LEMMA AppendDistinct ==
  ASSUME NEW S, NEW s \in Seq(S), NEW x \in S
  PROVE  /\ Append(s, x) \in Seq(S)
         /\ Distinct(s) /\ ~On(s, x) => Distinct(Append(s, x))
         /\ \A y : On(Append(s, x), y) <=> On(s, y) \/ y = x
<1> DEFINE t == Append(s, x)
<1>1. /\ Len(s) \in Nat /\ DOMAIN s = 1..Len(s)
      /\ t \in Seq(S) /\ Len(t) = Len(s) + 1 /\ DOMAIN t = 1..Len(s) + 1
      /\ \A i \in 1..Len(s) : t[i] = s[i]
      /\ t[Len(s) + 1] = x
  BY LenProperties, AppendProperties
<1> HIDE DEF t
<1>2. \A i \in DOMAIN t : i \in DOMAIN s \/ i = Len(s) + 1
  BY <1>1
<1>3. Distinct(s) /\ ~On(s, x) => Distinct(t)
  BY <1>1, <1>2 DEF Distinct, On
<1>4. ASSUME NEW y PROVE On(t, y) <=> On(s, y) \/ y = x
  <2>1. On(t, y) => On(s, y) \/ y = x
    BY <1>1, <1>2 DEF On
  <2>2. \A i \in DOMAIN s : i \in DOMAIN t /\ t[i] = s[i]
    BY <1>1
  <2>3. On(s, y) => On(t, y)
    BY <2>2 DEF On
  <2>4. Len(s) + 1 \in DOMAIN t
    BY <1>1
  <2>5. y = x => On(t, y)
    BY <1>1, <2>4 DEF On
  <2>6. QED BY <2>1, <2>3, <2>5
<1>5. QED BY <1>1, <1>3, <1>4 DEF t

LEMMA TailDistinct ==
  ASSUME NEW S, NEW s \in Seq(S), s # <<>>, Distinct(s)
  PROVE  /\ Head(s) \in S /\ Tail(s) \in Seq(S) /\ Distinct(Tail(s))
         /\ On(s, Head(s))
         /\ \A y : On(Tail(s), y) <=> On(s, y) /\ y # Head(s)
<1> DEFINE t == Tail(s)
<1>1. /\ Len(s) \in Nat /\ DOMAIN s = 1..Len(s) /\ Len(s) >= 1 /\ Head(s) = s[1]
      /\ t \in Seq(S) /\ Len(t) = Len(s) - 1 /\ DOMAIN t = 1..Len(s) - 1 /\ Head(s) \in S
      /\ \A i \in 1..Len(s) - 1 : t[i] = s[i + 1]
  BY LenProperties, HeadTailProperties, EmptySeq
<1> HIDE DEF t
<1>2. \A i \in DOMAIN t : i + 1 \in DOMAIN s /\ t[i] = s[i + 1] /\ i + 1 # 1
  BY <1>1
<1>3. \A i \in DOMAIN s : i # 1 => i - 1 \in DOMAIN t /\ t[i - 1] = s[i]
  BY <1>1
<1>4. Distinct(t)
  BY <1>1, <1>2 DEF Distinct
<1>5. On(s, Head(s))
  BY <1>1 DEF On
<1>6. ASSUME NEW y PROVE On(t, y) <=> On(s, y) /\ y # Head(s)
  <2>1. On(t, y) => On(s, y) /\ y # Head(s)
    <3> SUFFICES ASSUME NEW i \in DOMAIN t, t[i] = y PROVE On(s, y) /\ y # Head(s)
      BY DEF On
    <3>1. i + 1 \in DOMAIN s /\ s[i + 1] = y /\ i + 1 # 1 /\ 1 \in DOMAIN s
      BY <1>1, <1>2
    <3>2. QED BY <3>1, <1>1 DEF On, Distinct
  <2>2. On(s, y) /\ y # Head(s) => On(t, y)
    BY <1>1, <1>3 DEF On
  <2>3. QED BY <2>1, <2>2
<1>7. QED BY <1>1, <1>4, <1>5, <1>6 DEF t

LEMMA WithoutDistinct ==
  ASSUME NEW S, NEW s \in Seq(S), NEW x, Distinct(s)
  PROVE  /\ Without(s, x) \in Seq(S) /\ Distinct(Without(s, x))
         /\ \A y : On(Without(s, x), y) <=> On(s, y) /\ y # x
<1>1. CASE ~On(s, x)
  <2>1. Without(s, x) = s
    BY <1>1, OnContains DEF Without
  <2>2. \A y : On(s, y) => y # x
    BY <1>1
  <2>3. QED BY <2>1, <2>2
<1>2. CASE On(s, x)
  <2> DEFINE k == CHOOSE i \in DOMAIN s : s[i] = x
             t == RemoveAt(s, k)
  <2>1. k \in DOMAIN s /\ s[k] = x
    BY <1>2 DEF On
  <2>2. Without(s, x) = t
    BY <1>2, OnContains DEF Without
  <2> HIDE DEF k
  <2>3. Len(s) \in Nat /\ DOMAIN s = 1..Len(s) /\ \A i \in 1..Len(s) : s[i] \in S
    BY LenProperties, ElementOfSeq
  <2>4. /\ SubSeq(s, 1, k - 1) \in Seq(S) /\ Len(SubSeq(s, 1, k - 1)) = k - 1
        /\ \A i \in 1..k - 1 : SubSeq(s, 1, k - 1)[i] = s[i]
    BY <2>1, <2>3, SubSeqProperties
  <2>5. /\ SubSeq(s, k + 1, Len(s)) \in Seq(S) /\ Len(SubSeq(s, k + 1, Len(s))) = Len(s) - k
        /\ \A i \in 1..Len(s) - k : SubSeq(s, k + 1, Len(s))[i] = s[k + i]
    BY <2>1, <2>3, SubSeqProperties, SMTT(30)
  <2>6. /\ t \in Seq(S) /\ Len(t) = Len(s) - 1
        /\ \A i \in 1..Len(s) - 1 : t[i] = IF i <= k - 1 THEN s[i] ELSE s[i + 1]
    <3> DEFINE a == SubSeq(s, 1, k - 1)
               b == SubSeq(s, k + 1, Len(s))
    <3>1. t = a \o b
      BY DEF RemoveAt
    <3> HIDE DEF a, b, t
    <3>2. /\ a \o b \in Seq(S) /\ Len(a \o b) = Len(a) + Len(b)
          /\ \A i \in 1..Len(a) + Len(b) : (a \o b)[i] = IF i <= Len(a) THEN a[i] ELSE b[i - Len(a)]
      BY <2>4, <2>5, ConcatProperties, SMTT(30) DEF a, b
    <3>3. /\ Len(a) = k - 1 /\ Len(b) = Len(s) - k /\ k \in 1..Len(s)
          /\ \A i \in 1..k - 1 : a[i] = s[i]
          /\ \A i \in 1..Len(s) - k : b[i] = s[k + i]
      BY <2>1, <2>3, <2>4, <2>5 DEF a, b
    <3>4. ASSUME NEW i \in 1..Len(s) - 1 PROVE t[i] = IF i <= k - 1 THEN s[i] ELSE s[i + 1]
      <4>1. CASE i <= k - 1
        BY <2>3, <3>1, <3>2, <3>3, <4>1
      <4>2. CASE i > k - 1
        <5>1. i - (k - 1) \in 1..Len(s) - k /\ k + (i - (k - 1)) = i + 1
          BY <2>3, <3>3, <4>2
        <5>2. t[i] = b[i - (k - 1)]
          BY <2>3, <3>1, <3>2, <3>3, <4>2
        <5>3. QED BY <3>3, <5>1, <5>2, <2>3, <4>2
      <4>3. QED BY <4>1, <4>2, <2>3, <3>3
    <3>5. QED BY <3>1, <3>2, <3>3, <3>4, <2>3
  <2> HIDE DEF t
  <2>7. DOMAIN t = 1..Len(s) - 1
    BY <2>6, LenProperties
  <2> DEFINE from(i) == IF i <= k - 1 THEN i ELSE i + 1
  <2>8. \A i \in DOMAIN t : from(i) \in DOMAIN s /\ from(i) # k /\ t[i] = s[from(i)]
    BY <2>1, <2>3, <2>6, <2>7
  <2>9. \A i, j \in DOMAIN t : from(i) = from(j) => i = j
    BY <2>1, <2>3, <2>7
  <2>10. \A j \in DOMAIN s : j # k => \E i \in DOMAIN t : from(i) = j
    <3> SUFFICES ASSUME NEW j \in DOMAIN s, j # k PROVE \E i \in DOMAIN t : from(i) = j
      OBVIOUS
    <3>1. CASE j < k
      <4>1. j \in DOMAIN t /\ from(j) = j
        BY <3>1, <2>1, <2>3, <2>7
      <4>2. QED BY <4>1
    <3>2. CASE j > k
      <4>1. j - 1 \in DOMAIN t /\ from(j - 1) = j
        BY <3>2, <2>1, <2>3, <2>7
      <4>2. QED BY <4>1
    <3>3. QED BY <3>1, <3>2, <2>1, <2>3
  <2> HIDE DEF from
  <2>11. Distinct(t)
    BY <2>8, <2>9 DEF Distinct
  <2>12. ASSUME NEW y PROVE On(t, y) <=> On(s, y) /\ y # x
    <3>1. On(t, y) => On(s, y) /\ y # x
      BY <2>1, <2>8 DEF On, Distinct
    <3>2. On(s, y) /\ y # x => On(t, y)
      BY <2>1, <2>8, <2>10 DEF On
    <3>3. QED BY <3>1, <3>2
  <2>13. QED BY <2>2, <2>6, <2>11, <2>12
<1>3. QED BY <1>1, <1>2

----------------------------------------------------------------------------
(* Types, and what each thread has in hand where it is.                    *)

Types ==
  /\ queue \in [Queues -> Seq(Blocks)]
  /\ active \in [Queues -> BOOLEAN]
  /\ list \in [Classes -> Seq(Queues)]
  /\ userCnt \in [Blocks -> Nat] /\ free \in SUBSET Blocks
  /\ pc \in [Threads -> Labels]
  /\ hand \in [Threads -> Blocks \cup {NoBlock}]
  /\ flushed \in Queues

Places ==
  /\ \A p \in Posters : /\ pc[p] \in {"idle", "post", "fail", "release"}
                        /\ hand[p] = NoBlock <=> pc[p] = "idle"
  /\ pc["frw"] \in {"idle", "pickHi", "pickNormal", "count", "handle"}
  /\ hand["frw"] = NoBlock <=> pc["frw"] \in {"idle", "pickHi", "pickNormal"}
  /\ pc["flush"] \in {"idle", "dequeue", "count", "handle", "deactivate"}
  /\ hand["flush"] = NoBlock <=> pc["flush"] \in {"idle", "dequeue", "deactivate"}

TInv == Types /\ Places

LEMMA ChosenIsListed ==
  ASSUME Types, NEW c \in Classes, Eligible(c) # {}
  PROVE  Chosen(c) \in Queues /\ On(list[c], Chosen(c))
<1>1. list[c] \in Seq(Queues) /\ Len(list[c]) \in Nat /\ DOMAIN list[c] = 1..Len(list[c])
  BY LenProperties DEF Types
<1>2. Eligible(c) \in SUBSET (0..Len(list[c])) /\ Eligible(c) \subseteq DOMAIN list[c]
  BY <1>1 DEF Eligible
<1>3. Min(Eligible(c)) \in DOMAIN list[c]
  BY <1>1, <1>2, LowestIndex
<1>4. QED BY <1>1, <1>3, ElementOfSeq DEF Chosen, On

LEMMA FreeType ==
  ASSUME Types, NEW b \in Blocks, Free(b)
  PROVE  userCnt' \in [Blocks -> Nat] /\ free' \in SUBSET Blocks
<1>1. userCnt \in [Blocks -> Nat] /\ free \in SUBSET Blocks /\ userCnt[b] \in Nat
  BY DEF Types
<1>2. CASE b \in free \/ userCnt[b] = 0
  BY <1>1, <1>2 DEF Free, memVars
<1>3. CASE ~(b \in free \/ userCnt[b] = 0)
  <2>1. /\ userCnt' = [userCnt EXCEPT ![b] = @ - 1]
        /\ free' = IF userCnt[b] = 1 THEN free \cup {b} ELSE free
    BY <1>3 DEF Free
  <2>2. userCnt[b] - 1 \in Nat
    BY <1>1, <1>3
  <2>3. free' \in SUBSET Blocks
    BY <1>1, <2>1
  <2>4. QED BY <1>1, <2>1, <2>2, <2>3
<1>4. QED BY <1>2, <1>3

\* the scheduler's own state after a deactivation or a pick
LEMMA NewRoundList ==
  ASSUME Types, NEW c \in Classes, NEW s, s.list \in Seq(Queues), NewRound(c, s)
  PROVE  list' = [list EXCEPT ![c] = s.list] /\ list' \in [Classes -> Seq(Queues)]
BY DEF Types, NewRound

LEMMA ServeList ==
  ASSUME Types, NEW c \in Classes, NEW q \in Queues, Serve(c, q), Distinct(list[c])
  PROVE  /\ active' = IF Len(queue[q]) <= 1 THEN [active EXCEPT ![q] = FALSE] ELSE active
         /\ list' = [list EXCEPT ![c] = IF Len(queue[q]) <= 1 THEN Without(list[c], q) ELSE list[c]]
         /\ list' \in [Classes -> Seq(Queues)] /\ active' \in [Queues -> BOOLEAN]
<1> DEFINE w == [weightCnt EXCEPT ![q] = @ - 1]
           off == Deactivated(w, total[c] - 1, list[c], q)
           on == [weight |-> w, total |-> total[c] - 1, list |-> list[c]]
<1>1. list[c] \in Seq(Queues) /\ Without(list[c], q) \in Seq(Queues)
  BY WithoutDistinct DEF Types
<1>2. off.list = Without(list[c], q) /\ on.list = list[c]
  BY DEF Deactivated
<1>3. CASE Len(queue[q]) <= 1
  <2>1. active' = [active EXCEPT ![q] = FALSE] /\ NewRound(c, off)
    BY <1>3 DEF Serve
  <2> HIDE DEF off
  <2>2. list' = [list EXCEPT ![c] = Without(list[c], q)] /\ list' \in [Classes -> Seq(Queues)]
    BY <1>1, <1>2, <2>1, NewRoundList
  <2>3. QED BY <1>3, <2>1, <2>2 DEF Types
<1>4. CASE ~(Len(queue[q]) <= 1)
  <2>1. active' = active /\ NewRound(c, on)
    BY <1>4 DEF Serve
  <2> HIDE DEF on
  <2>2. list' = [list EXCEPT ![c] = list[c]] /\ list' \in [Classes -> Seq(Queues)]
    BY <1>1, <1>2, <2>1, NewRoundList
  <2>3. QED BY <1>4, <2>1, <2>2 DEF Types
<1>5. QED BY <1>3, <1>4

----------------------------------------------------------------------------
(* Accepted events are in reach: the lists hold the active queues, each    *)
(* once, and a queue with events is active.                                *)

Lists ==
  \A c \in Classes :
    /\ Distinct(list[c])
    /\ \A q \in Queues : On(list[c], q) <=> Policy[q] = c /\ active[q]

Filled == \A q \in Queues : queue[q] # <<>> => active[q]

\* q is taken off the list of its class, and is not active any more
LEMMA Deactivation ==
  ASSUME Types, Lists, NEW q \in Queues,
         active' = [active EXCEPT ![q] = FALSE],
         list' = [list EXCEPT ![Policy[q]] = Without(list[Policy[q]], q)]
  PROVE  Lists'
<1> SUFFICES ASSUME NEW c \in Classes
             PROVE  /\ Distinct(list'[c])
                    /\ \A r \in Queues : On(list'[c], r) <=> Policy[r] = c /\ active'[r]
  BY DEF Lists
<1>1. Policy[q] \in Classes /\ \A r \in Queues : active'[r] <=> active[r] /\ r # q
  BY DEF Types, Classes
<1>2. /\ Distinct(list[c]) /\ list[c] \in Seq(Queues)
      /\ \A r \in Queues : On(list[c], r) <=> Policy[r] = c /\ active[r]
  BY DEF Lists, Types
<1>3. CASE c = Policy[q]
  <2>1. list'[c] = Without(list[c], q)
    BY <1>1, <1>3 DEF Types
  <2>2. Distinct(Without(list[c], q)) /\ \A y : On(Without(list[c], q), y) <=> On(list[c], y) /\ y # q
    BY <1>2, WithoutDistinct
  <2>3. QED BY <1>1, <1>2, <2>1, <2>2
<1>4. CASE c # Policy[q]
  <2>1. list'[c] = list[c]
    BY <1>1, <1>4 DEF Types
  <2>2. QED BY <1>1, <1>2, <1>4, <2>1
<1>5. QED BY <1>3, <1>4

\* q is put on the list of its class, unless it is active already
LEMMA Activation ==
  ASSUME Types, Lists, NEW q \in Queues, Activate(q)
  PROVE  /\ Lists' /\ list' \in [Classes -> Seq(Queues)] /\ active' \in [Queues -> BOOLEAN]
         /\ \A r \in Queues : active'[r] <=> active[r] \/ r = q
<1>1. CASE active[q]
  <2>1. active' = active /\ list' = list
    BY <1>1 DEF Activate
  <2>2. Lists'
    BY <2>1 DEF Lists
  <2>3. QED BY <1>1, <2>1, <2>2, Zenon DEF Types
<1>2. CASE ~active[q]
  <2>1. /\ list' = [list EXCEPT ![Policy[q]] = Append(@, q)]
        /\ active' = [active EXCEPT ![q] = TRUE]
    BY <1>2 DEF Activate
  <2>2. Policy[q] \in Classes /\ list[Policy[q]] \in Seq(Queues)
    BY DEF Types, Classes
  <2>3. /\ list' \in [Classes -> Seq(Queues)] /\ active' \in [Queues -> BOOLEAN]
        /\ \A r \in Queues : active'[r] <=> active[r] \/ r = q
    BY <2>1, <2>2, AppendDistinct DEF Types
  <2>4. ASSUME NEW c \in Classes
        PROVE  /\ Distinct(list'[c])
               /\ \A r \in Queues : On(list'[c], r) <=> Policy[r] = c /\ active'[r]
    <3>1. /\ Distinct(list[c]) /\ list[c] \in Seq(Queues)
          /\ \A r \in Queues : On(list[c], r) <=> Policy[r] = c /\ active[r]
      BY DEF Lists, Types
    <3>2. CASE c = Policy[q]
      <4>1. list'[c] = Append(list[c], q)
        BY <2>1, <2>2, <3>2 DEF Types
      <4>2. ~On(list[c], q)
        BY <1>2, <3>1
      <4>3. /\ Distinct(Append(list[c], q))
            /\ \A y : On(Append(list[c], q), y) <=> On(list[c], y) \/ y = q
        BY <3>1, <4>2, AppendDistinct
      <4>4. QED BY <2>3, <3>1, <3>2, <4>1, <4>3
    <3>3. CASE c # Policy[q]
      <4>1. list'[c] = list[c]
        BY <2>1, <2>2, <3>3 DEF Types
      <4>2. QED BY <2>3, <3>1, <3>3, <4>1
    <3>4. QED BY <3>2, <3>3
  <2>5. QED BY <2>3, <2>4 DEF Lists
<1>3. QED BY <1>1, <1>2

\* what a pick does to the lists and to the queue it chose
LEMMA PickReach ==
  ASSUME TInv, Lists, NEW c \in Classes, NEW next,
         PickEvent(c) \/ PickDrained(c, next) \/ PickNothing(c, next)
  PROVE  /\ Lists' /\ list' \in [Classes -> Seq(Queues)] /\ active' \in [Queues -> BOOLEAN]
         /\ \A q \in Queues : active[q] /\ ~active'[q] => queue'[q] = <<>>
         /\ \A q \in Queues : queue[q] = <<>> => queue'[q] = <<>>
<1> DEFINE q == Chosen(c)
<1>0. Types
  BY DEF TInv
<1>1. CASE PickNothing(c, next)
  <2>1. active' = active /\ queue' = queue
    BY <1>1, Zenon DEF PickNothing
  <2>2. list' = [list EXCEPT ![c] = list[c]] /\ list' \in [Classes -> Seq(Queues)]
    <3> DEFINE s == [weight |-> weightCnt, total |-> total[c], list |-> list[c]]
    <3>1. NewRound(c, s) /\ s.list = list[c] /\ list[c] \in Seq(Queues)
      BY <1>0, <1>1 DEF PickNothing, Types
    <3> HIDE DEF s
    <3>2. QED BY <1>0, <3>1, NewRoundList
  <2>3. list' = list
    BY <1>0, <2>2 DEF Types
  <2>4. Lists'
    BY <2>1, <2>3 DEF Lists
  <2>5. QED BY <1>0, <2>1, <2>2, <2>4 DEF Types
<1>2. CASE PickEvent(c) \/ PickDrained(c, next)
  <2>1. Eligible(c) # {} /\ Serve(c, q)
    BY <1>2 DEF PickEvent, PickDrained
  <2>2. q \in Queues /\ On(list[c], q)
    BY <1>0, <2>1, ChosenIsListed
  <2> HIDE DEF q
  <2>3. Distinct(list[c]) /\ Policy[q] = c /\ active[q]
    BY <2>2 DEF Lists
  <2>4. /\ active' = IF Len(queue[q]) <= 1 THEN [active EXCEPT ![q] = FALSE] ELSE active
        /\ list' = [list EXCEPT ![c] = IF Len(queue[q]) <= 1 THEN Without(list[c], q) ELSE list[c]]
        /\ list' \in [Classes -> Seq(Queues)] /\ active' \in [Queues -> BOOLEAN]
    BY <1>0, <2>1, <2>2, <2>3, ServeList
  <2>5. /\ \A r \in Queues : r # q => queue'[r] = queue[r]
        /\ queue[q] = <<>> => queue'[q] = <<>>
        /\ Len(queue[q]) <= 1 => queue'[q] = <<>>
    <3>1. CASE PickDrained(c, next)
      <4>1. queue' = queue /\ queue[q] = <<>>
        BY <3>1, Zenon DEF PickDrained, q
      <4>2. QED BY <4>1
    <3>2. CASE PickEvent(c)
      <4>1. queue' = [queue EXCEPT ![q] = Tail(@)] /\ queue[q] # <<>>
        BY <3>2, Zenon DEF PickEvent, q
      <4>2. queue[q] \in Seq(Blocks) /\ queue'[q] = Tail(queue[q])
        BY <1>0, <2>2, <4>1 DEF Types
      <4>3. Len(queue[q]) \in Nat /\ Tail(queue[q]) \in Seq(Blocks)
            /\ Len(Tail(queue[q])) = Len(queue[q]) - 1 /\ Len(Tail(queue[q])) \in Nat
        BY <4>1, <4>2, HeadTailProperties, LenProperties
      <4>4. Len(queue[q]) <= 1 => Tail(queue[q]) = <<>>
        BY <4>3, EmptySeq
      <4>5. QED BY <1>0, <2>2, <4>1, <4>2, <4>4 DEF Types
    <3>3. QED BY <1>2, <3>1, <3>2
  <2>6. CASE Len(queue[q]) <= 1
    <3>1. active' = [active EXCEPT ![q] = FALSE] /\ list' = [list EXCEPT ![c] = Without(list[c], q)]
      BY <2>4, <2>6
    <3>2. Lists'
      BY <1>0, <2>2, <2>3, <3>1, Deactivation
    <3>3. \A r \in Queues : active[r] /\ ~active'[r] => r = q
      BY <1>0, <3>1 DEF Types
    <3>4. QED BY <2>4, <2>5, <2>6, <3>2, <3>3
  <2>7. CASE ~(Len(queue[q]) <= 1)
    <3>1. active' = active /\ list' = list
      BY <1>0, <2>4, <2>7 DEF Types
    <3>2. Lists'
      BY <3>1 DEF Lists
    <3>3. QED BY <2>4, <2>5, <3>1, <3>2
  <2>8. QED BY <2>6, <2>7
<1>3. QED BY <1>1, <1>2

ReachIInv == TInv /\ Lists /\ Filled

LEMMA ReachInit == Init => ReachIInv
<1> SUFFICES ASSUME Init PROVE ReachIInv
  OBVIOUS
<1>1. Types
  <2>1. queue \in [Queues -> Seq(Blocks)] /\ list \in [Classes -> Seq(Queues)]
    BY EmptySeq DEF Init
  <2>2. active \in [Queues -> BOOLEAN] /\ pc \in [Threads -> Labels]
        /\ hand \in [Threads -> Blocks \cup {NoBlock}] /\ flushed \in Queues
    BY DEF Init, Labels
  <2>3. userCnt \in [Blocks -> Nat] /\ free \in SUBSET Blocks
    BY DEF Init
  <2>4. QED BY <2>1, <2>2, <2>3 DEF Types
<1>2. Places
  BY DEF Init, Places, Threads
<1>3. Lists
  <2>1. ASSUME NEW c \in Classes PROVE list[c] = <<>> /\ DOMAIN list[c] = {}
    BY DEF Init
  <2>2. \A q \in Queues : active[q] = FALSE
    BY DEF Init
  <2>3. QED BY <2>1, <2>2 DEF Lists, Distinct, On
<1>4. Filled
  BY DEF Init, Filled
<1>5. QED BY <1>1, <1>2, <1>3, <1>4 DEF ReachIInv, TInv

\* the threads' steps that leave the queues and the scheduler alone
Quiet ==
  \/ \E p \in Posters : (\E b \in Blocks : AllocEvent(p, b)) \/ (\E q \in Queues : PostFull(p, q))
                        \/ PostFailed(p) \/ Release(p)
  \/ TaskWake \/ CountDown("frw") \/ TaskFree
  \/ (\E q \in Queues : FlushBegin(q)) \/ CountDown("flush") \/ FlushFree
  \/ UNCHANGED vars

LEMMA NextCases ==
  [Next]_vars => \/ Quiet
                 \/ \E p \in Posters, q \in Queues : PostOk(p, q)
                 \/ ScheduleHi \/ ScheduleNormal \/ FlushDequeue \/ FlushDeactivate
BY DEF Next, Poster, Task, Flush, Quiet

LEMMA QuietKeeps == Quiet => UNCHANGED schedVars
BY DEF Quiet, AllocEvent, PostFull, PostFailed, Release, TaskWake, CountDown, TaskFree,
       FlushBegin, FlushFree, vars, schedVars

LEMMA QuietType ==
  ASSUME TInv, Quiet
  PROVE  TInv'
<1> USE DEF TInv
<1>0. /\ UNCHANGED <<queue, active, list>>
      /\ queue' \in [Queues -> Seq(Blocks)] /\ active' \in [Queues -> BOOLEAN]
      /\ list' \in [Classes -> Seq(Queues)]
  BY QuietKeeps DEF schedVars, Types
<1>1. ASSUME NEW p \in Posters, NEW b \in Blocks, AllocEvent(p, b) PROVE TInv'
  <2>1. userCnt' \in [Blocks -> Nat] /\ free' \in SUBSET Blocks
    BY <1>1 DEF AllocEvent, Alloc, Types
  <2>2. QED BY <1>0, <1>1, <2>1 DEF AllocEvent, Types, Places, Threads, Labels, Goto
<1>2. ASSUME NEW p \in Posters, NEW q \in Queues, PostFull(p, q) PROVE TInv'
  <2>1. hand[p] \in Blocks
    BY <1>2 DEF PostFull, At, Types, Places, Threads
  <2>2. userCnt' \in [Blocks -> Nat] /\ free' \in SUBSET Blocks
    BY <1>2, <2>1 DEF PostFull, Types
  <2>3. QED BY <1>0, <1>2, <2>2 DEF PostFull, Types, Places, Threads, Labels, Goto, At
<1>3. ASSUME NEW p \in Posters, PostFailed(p) \/ Release(p) PROVE TInv'
  <2>1. hand[p] \in Blocks /\ Free(hand[p])
    BY <1>3 DEF PostFailed, Release, At, Types, Places, Threads
  <2>2. userCnt' \in [Blocks -> Nat] /\ free' \in SUBSET Blocks
    BY <2>1, FreeType
  <2>3. CASE PostFailed(p)
    BY <1>0, <2>2, <2>3 DEF PostFailed, Types, Places, Threads, Labels, Goto, At
  <2>4. CASE Release(p)
    BY <1>0, <2>2, <2>4 DEF Release, Types, Places, Threads, Labels, Goto, At
  <2>5. QED BY <1>3, <2>3, <2>4
<1>4. CASE TaskWake
  BY <1>0, <1>4 DEF TaskWake, Types, Places, Threads, Labels, Goto, At, memVars
<1>5. ASSUME NEW t \in Takers, CountDown(t) PROVE TInv'
  BY <1>0, <1>5 DEF CountDown, Takers, Types, Places, Threads, Labels, Goto, At, memVars
<1>6. CASE TaskFree
  <2>1. hand["frw"] \in Blocks /\ Free(hand["frw"])
    BY <1>6 DEF TaskFree, At, Types, Places, Threads
  <2>2. userCnt' \in [Blocks -> Nat] /\ free' \in SUBSET Blocks
    BY <2>1, FreeType
  <2>3. QED BY <1>0, <1>6, <2>2 DEF TaskFree, Types, Places, Threads, Labels, Goto, At
<1>7. CASE FlushFree
  <2>1. hand["flush"] \in Blocks /\ Free(hand["flush"])
    BY <1>7 DEF FlushFree, At, Types, Places, Threads
  <2>2. userCnt' \in [Blocks -> Nat] /\ free' \in SUBSET Blocks
    BY <2>1, FreeType
  <2>3. QED BY <1>0, <1>7, <2>2 DEF FlushFree, Types, Places, Threads, Labels, Goto, At
<1>8. ASSUME NEW q \in Queues, FlushBegin(q) PROVE TInv'
  BY <1>0, <1>8 DEF FlushBegin, Types, Places, Threads, Labels, Goto, At, memVars
<1>9. CASE UNCHANGED vars
  BY <1>9 DEF vars, schedVars, memVars, Types, Places
<1>10. QED
  BY <1>1, <1>2, <1>3, <1>4, <1>5, <1>6, <1>7, <1>8, <1>9 DEF Quiet, Takers

LEMMA ScheduleKeeps ==
  ASSUME ReachIInv, NEW c \in Classes, NEW from \in {"pickHi", "pickNormal"}, At("frw", from),
         NEW next \in {"idle", "pickNormal"},
         PickEvent(c) \/ PickDrained(c, next) \/ PickNothing(c, next),
         UNCHANGED <<count, fails, memVars, flushed>>
  PROVE  ReachIInv'
<1> USE DEF ReachIInv, TInv
<1>1. /\ Lists' /\ list' \in [Classes -> Seq(Queues)] /\ active' \in [Queues -> BOOLEAN]
      /\ \A q \in Queues : active[q] /\ ~active'[q] => queue'[q] = <<>>
      /\ \A q \in Queues : queue[q] = <<>> => queue'[q] = <<>>
  BY PickReach
<1>2. Filled'
  BY <1>1 DEF Filled, Types
<1>3. CASE PickEvent(c)
  <2>1. Chosen(c) \in Queues
    BY <1>3, ChosenIsListed DEF PickEvent
  <2>2. /\ queue' = [queue EXCEPT ![Chosen(c)] = Tail(@)] /\ queue[Chosen(c)] # <<>>
        /\ hand' = [hand EXCEPT !["frw"] = Head(queue[Chosen(c)])] /\ Goto("frw", "count")
    BY <1>3 DEF PickEvent
  <2>3. Head(queue[Chosen(c)]) \in Blocks /\ Tail(queue[Chosen(c)]) \in Seq(Blocks)
    BY <2>1, <2>2, HeadTailProperties DEF Types
  <2>4. queue' \in [Queues -> Seq(Blocks)] /\ hand' \in [Threads -> Blocks \cup {NoBlock}]
    BY <2>1, <2>2, <2>3 DEF Types
  <2>5. Types'
    BY <1>1, <2>2, <2>4 DEF Types, Goto, Labels, memVars
  <2>6. Places'
    BY <2>2, <2>3 DEF Types, Places, Goto, Threads, Labels
  <2>7. QED BY <1>1, <1>2, <2>5, <2>6
<1>4. CASE PickDrained(c, next) \/ PickNothing(c, next)
  <2>1. UNCHANGED <<queue, hand>> /\ Goto("frw", next)
    BY <1>4 DEF PickDrained, PickNothing
  <2>2. Types'
    BY <1>1, <2>1 DEF Types, Goto, Labels, memVars
  <2>3. Places'
    BY <2>1 DEF Types, Places, Goto, Threads, Labels, At
  <2>4. QED BY <1>1, <1>2, <2>2, <2>3
<1>5. QED BY <1>3, <1>4

LEMMA PostOkKeeps ==
  ASSUME ReachIInv, NEW p \in Posters, NEW q \in Queues, PostOk(p, q)
  PROVE  ReachIInv'
<1> USE DEF ReachIInv, TInv
<1>1. /\ At(p, "post") /\ userCnt' = [userCnt EXCEPT ![hand[p]] = @ + 1]
      /\ queue' = [queue EXCEPT ![q] = Append(@, hand[p])] /\ Activate(q) /\ Goto(p, "release")
      /\ UNCHANGED <<free, hand, flushed>>
  BY DEF PostOk
<1>2. hand[p] \in Blocks
  BY <1>1 DEF At, Types, Places, Threads
<1>3. /\ Lists' /\ list' \in [Classes -> Seq(Queues)] /\ active' \in [Queues -> BOOLEAN]
      /\ \A r \in Queues : active'[r] <=> active[r] \/ r = q
  BY <1>1, Activation
<1>4. queue' \in [Queues -> Seq(Blocks)] /\ userCnt' \in [Blocks -> Nat]
  BY <1>1, <1>2, AppendProperties DEF Types
<1>5. Types' /\ Places'
  BY <1>1, <1>3, <1>4 DEF Types, Places, Goto, At, Threads, Labels
<1>6. Filled'
  BY <1>1, <1>3 DEF Filled, Types
<1>7. QED BY <1>3, <1>5, <1>6

LEMMA FlushKeeps ==
  ASSUME ReachIInv, FlushDequeue \/ FlushDeactivate
  PROVE  ReachIInv'
<1> USE DEF ReachIInv, TInv
<1>0. flushed \in Queues /\ queue[flushed] \in Seq(Blocks)
  BY DEF Types
<1>1. CASE FlushDequeue
  <2>1. UNCHANGED <<active, list, memVars, flushed>>
    BY <1>1 DEF FlushDequeue
  <2>2. CASE queue[flushed] = <<>>
    <3>1. Goto("flush", "idle") /\ UNCHANGED <<queue, hand>> /\ At("flush", "dequeue")
      BY <1>1, <2>2 DEF FlushDequeue
    <3>2. Types' /\ Places'
      BY <2>1, <3>1 DEF Types, Places, Goto, At, Threads, Labels, memVars
    <3>3. QED BY <2>1, <3>1, <3>2 DEF Lists, Filled
  <2>3. CASE queue[flushed] # <<>>
    <3>1. /\ hand' = [hand EXCEPT !["flush"] = Head(queue[flushed])]
          /\ queue' = [queue EXCEPT ![flushed] = Tail(@)]
          /\ Goto("flush", "count")
      BY <1>1, <2>3 DEF FlushDequeue
    <3>2. Head(queue[flushed]) \in Blocks /\ Tail(queue[flushed]) \in Seq(Blocks)
      BY <1>0, <2>3, HeadTailProperties
    <3>3. queue' \in [Queues -> Seq(Blocks)] /\ hand' \in [Threads -> Blocks \cup {NoBlock}]
      BY <1>0, <3>1, <3>2 DEF Types
    <3>4. Types' /\ Places'
      BY <2>1, <3>1, <3>2, <3>3 DEF Types, Places, Goto, Threads, Labels, memVars
    <3>5. Filled'
      BY <2>1, <2>3, <3>1 DEF Filled, Types
    <3>6. QED BY <2>1, <3>4, <3>5 DEF Lists
  <2>4. QED BY <2>2, <2>3
<1>2. CASE FlushDeactivate
  <2>1. /\ Goto("flush", "idle") /\ At("flush", "deactivate")
        /\ UNCHANGED <<queue, memVars, hand, flushed>>
    BY <1>2 DEF FlushDeactivate
  <2>2. CASE queue[flushed] = <<>>
    <3>1. Policy[flushed] \in Classes
      BY <1>0 DEF Classes
    <3>2. /\ active' = [active EXCEPT ![flushed] = FALSE]
          /\ list' = [list EXCEPT ![Policy[flushed]] = Without(list[Policy[flushed]], flushed)]
      BY <1>2, <2>2 DEF FlushDeactivate, Deactivated
    <3>3. Lists'
      BY <1>0, <3>2, Deactivation
    <3>4. Without(list[Policy[flushed]], flushed) \in Seq(Queues)
      BY <3>1, WithoutDistinct DEF Types, Lists
    <3>5. Types' /\ Places'
      BY <2>1, <3>2, <3>4 DEF Types, Places, Goto, At, Threads, Labels, memVars
    <3>6. Filled'
      BY <2>1, <2>2, <3>2 DEF Filled, Types
    <3>7. QED BY <3>3, <3>5, <3>6
  <2>3. CASE queue[flushed] # <<>>
    <3>1. UNCHANGED <<active, list>>
      BY <1>2, <2>3 DEF FlushDeactivate
    <3>2. Types' /\ Places'
      BY <2>1, <3>1 DEF Types, Places, Goto, At, Threads, Labels, memVars
    <3>3. QED BY <2>1, <3>1, <3>2 DEF Lists, Filled
  <2>4. QED BY <2>2, <2>3
<1>3. QED BY <1>1, <1>2

LEMMA ReachStep ==
  ASSUME ReachIInv, [Next]_vars
  PROVE  ReachIInv'
<1>1. CASE Quiet
  <2>1. UNCHANGED schedVars /\ TInv'
    BY <1>1, QuietKeeps, QuietType DEF ReachIInv
  <2>2. QED BY <2>1 DEF ReachIInv, schedVars, Lists, Filled
<1>2. ASSUME NEW p \in Posters, NEW q \in Queues, PostOk(p, q) PROVE ReachIInv'
  BY <1>2, PostOkKeeps
<1>3. CASE ScheduleHi
  BY <1>3, ScheduleKeeps DEF ScheduleHi, Classes
<1>4. CASE ScheduleNormal
  BY <1>4, ScheduleKeeps DEF ScheduleNormal, Classes
<1>5. CASE FlushDequeue \/ FlushDeactivate
  BY <1>5, FlushKeeps
<1>6. QED BY <1>1, <1>2, <1>3, <1>4, <1>5, NextCases

\* An accepted event is in the scheduler's reach: its queue is active and on the list of its
\* class exactly once, whatever a flush, the round robin and the posters do to it
\* (frw_event_post_event, frw_event_vap_flush_event, frw_event_sched_pick_next_event_queue_wrr).
THEOREM EventsStayInReach == Spec => []EventsInReach
<1>1. ReachIInv => EventsInReach
  <2> SUFFICES ASSUME ReachIInv, NEW q \in Queues, queue[q] # <<>>
               PROVE  /\ active[q]
                      /\ Cardinality({i \in DOMAIN list[Policy[q]] : list[Policy[q]][i] = q}) = 1
    BY DEF EventsInReach
  <2>1. active[q] /\ Policy[q] \in Classes
    BY DEF ReachIInv, Filled, Classes
  <2>2. Distinct(list[Policy[q]]) /\ On(list[Policy[q]], q)
    BY <2>1 DEF ReachIInv, Lists
  <2>3. PICK i \in DOMAIN list[Policy[q]] : list[Policy[q]][i] = q
    BY <2>2 DEF On
  <2>4. {j \in DOMAIN list[Policy[q]] : list[Policy[q]][j] = q} = {i}
    BY <2>2, <2>3 DEF Distinct
  <2>5. QED BY <2>1, <2>4, FS_Singleton
<1>2. ReachIInv /\ [Next]_vars => ReachIInv'
  BY ReachStep
<1>3. QED BY <1>1, <1>2, ReachInit, PTL DEF Spec

----------------------------------------------------------------------------
(* Who refers to a block: a queue or who took the event from it, the       *)
(* poster, and the poster again while a failed post is undone.             *)

Queued == {b \in Blocks : \E q \in Queues : On(queue[q], b)}
Out == {hand[t] : t \in Takers} \ {NoBlock}
Held == {hand[p] : p \in Posters} \ {NoBlock}
Failing == {hand[p] : p \in {r \in Posters : At(r, "fail")}}

One(S, b) == IF b \in S THEN 1 ELSE 0
Refs(b) == One(Queued \cup Out, b) + One(Held, b) + One(Failing, b)

OneQueue ==
  /\ \A q \in Queues : Distinct(queue[q])
  /\ \A q, r \in Queues, b \in Blocks : On(queue[q], b) /\ On(queue[r], b) => q = r

OneHand ==
  /\ hand["frw"] = hand["flush"] => hand["frw"] = NoBlock
  /\ \A p, r \in Posters : hand[p] = hand[r] => p = r \/ hand[p] = NoBlock

Apart ==
  /\ Queued \cap Out = {}
  /\ \A p \in Posters : pc[p] \in {"post", "fail"} => hand[p] \notin Queued \cup Out

Counted == \A b \in Blocks : userCnt[b] = Refs(b) /\ (b \in free <=> userCnt[b] = 0)

RefIInv == OneQueue /\ OneHand /\ Apart /\ Counted

LEMMA QueueAdd ==
  ASSUME Types, OneQueue, NEW q \in Queues, NEW b \in Blocks, b \notin Queued,
         queue' = [queue EXCEPT ![q] = Append(@, b)]
  PROVE  OneQueue' /\ Queued' = Queued \cup {b}
<1>1. /\ queue'[q] = Append(queue[q], b) /\ queue[q] \in Seq(Blocks) /\ Distinct(queue[q])
      /\ \A r \in Queues : r # q => queue'[r] = queue[r]
      /\ \A r \in Queues : ~On(queue[r], b)
  BY DEF Types, OneQueue, Queued
<1>2. Distinct(queue'[q]) /\ \A y : On(queue'[q], y) <=> On(queue[q], y) \/ y = b
  BY <1>1, AppendDistinct
<1>3. \A r \in Queues, y \in Blocks : On(queue'[r], y) <=> On(queue[r], y) \/ (r = q /\ y = b)
  BY <1>1, <1>2
<1>4. OneQueue'
  <2>1. \A r \in Queues : Distinct(queue'[r])
    BY <1>1, <1>2 DEF OneQueue
  <2>2. \A r, u \in Queues, y \in Blocks : On(queue'[r], y) /\ On(queue'[u], y) => r = u
    BY <1>1, <1>3 DEF OneQueue
  <2>3. QED BY <2>1, <2>2 DEF OneQueue
<1>5. QED BY <1>3, <1>4 DEF Queued

LEMMA QueueTake ==
  ASSUME Types, OneQueue, NEW q \in Queues, queue[q] # <<>>,
         queue' = [queue EXCEPT ![q] = Tail(@)]
  PROVE  /\ OneQueue' /\ Queued' = Queued \ {Head(queue[q])}
         /\ Head(queue[q]) \in Queued /\ Head(queue[q]) \in Blocks
<1> DEFINE h == Head(queue[q])
<1>1. /\ queue'[q] = Tail(queue[q]) /\ queue[q] \in Seq(Blocks) /\ Distinct(queue[q])
      /\ \A r \in Queues : r # q => queue'[r] = queue[r]
  BY DEF Types, OneQueue
<1>2. /\ Distinct(queue'[q]) /\ h \in Blocks /\ On(queue[q], h)
      /\ \A y : On(queue'[q], y) <=> On(queue[q], y) /\ y # h
  BY <1>1, TailDistinct
<1> HIDE DEF h
<1>3. \A r \in Queues : On(queue[r], h) => r = q
  BY <1>2 DEF OneQueue
<1>4. \A r \in Queues, y \in Blocks : On(queue'[r], y) <=> On(queue[r], y) /\ y # h
  BY <1>1, <1>2, <1>3
<1>5. OneQueue'
  <2>1. \A r \in Queues : Distinct(queue'[r])
    BY <1>1, <1>2 DEF OneQueue
  <2>2. \A r, u \in Queues, y \in Blocks : On(queue'[r], y) /\ On(queue'[u], y) => r = u
    BY <1>4 DEF OneQueue
  <2>3. QED BY <2>1, <2>2 DEF OneQueue
<1>6. Queued' = Queued \ {h}
  BY <1>4 DEF Queued
<1>7. h \in Queued
  BY <1>2 DEF Queued
<1>8. QED BY <1>2, <1>5, <1>6, <1>7 DEF h

\* one reference to b is given up
LEMMA FreeCounts ==
  ASSUME Types, NEW b \in Blocks, Free(b), userCnt[b] # 0,
         \A x \in Blocks : x \in free <=> userCnt[x] = 0
  PROVE  /\ \A x \in Blocks : userCnt'[x] = IF x = b THEN userCnt[x] - 1 ELSE userCnt[x]
         /\ \A x \in Blocks : x \in free' <=> userCnt'[x] = 0
<1>1. userCnt \in [Blocks -> Nat] /\ free \in SUBSET Blocks /\ userCnt[b] \in Nat /\ b \notin free
  BY DEF Types
<1>2. /\ userCnt' = [userCnt EXCEPT ![b] = @ - 1]
      /\ free' = IF userCnt[b] = 1 THEN free \cup {b} ELSE free
  BY <1>1 DEF Free
<1>3. \A x \in Blocks : userCnt'[x] = IF x = b THEN userCnt[x] - 1 ELSE userCnt[x]
  BY <1>1, <1>2
<1>4. ASSUME NEW x \in Blocks PROVE x \in free' <=> userCnt'[x] = 0
  <2>1. CASE x = b
    <3>1. userCnt'[x] = userCnt[b] - 1
      BY <1>3, <2>1
    <3>2. CASE userCnt[b] = 1
      BY <1>2, <2>1, <3>1, <3>2
    <3>3. CASE userCnt[b] # 1
      BY <1>1, <1>2, <2>1, <3>1, <3>3
    <3>4. QED BY <3>2, <3>3
  <2>2. CASE x # b
    <3>1. x \in free' <=> x \in free
      BY <1>2, <2>2
    <3>2. QED BY <1>3, <2>2, <3>1
  <2>3. QED BY <2>1, <2>2
<1>5. QED BY <1>3, <1>4

LEMMA RefsType ==
  ASSUME NEW b
  PROVE  /\ Refs(b) \in Nat
         /\ Refs(b) = 0 <=> b \notin Queued \cup Out \cup Held \cup Failing
BY DEF Refs, One

LEMMA PosterNames ==
  /\ Takers \subseteq Threads /\ Posters \subseteq Threads /\ Posters \cap Takers = {}
  /\ Threads = Posters \cup Takers
BY DEF Takers, Threads

\* a step of a poster leaves alone what the takers have in hand
LEMMA PosterMoves ==
  ASSUME Types, NEW p \in Posters, NEW b \in Blocks \cup {NoBlock}, NEW l \in Labels,
         hand' = [hand EXCEPT ![p] = b], pc' = [pc EXCEPT ![p] = l]
  PROVE  /\ Out' = Out /\ hand'["frw"] = hand["frw"] /\ hand'["flush"] = hand["flush"]
         /\ hand'[p] = b /\ pc'[p] = l
         /\ \A r \in Posters : r # p => hand'[r] = hand[r] /\ pc'[r] = pc[r]
<1>1. \A t \in Takers : hand'[t] = hand[t]
  BY PosterNames DEF Types
<1>2. QED BY <1>1, PosterNames DEF Out, Takers, Types

LEMMA RefAlloc ==
  ASSUME TInv, RefIInv, NEW p \in Posters, NEW b \in Blocks, AllocEvent(p, b)
  PROVE  RefIInv'
<1> USE DEF RefIInv
<1>0. Types
  BY DEF TInv
<1>1. /\ At(p, "idle") /\ b \in free /\ userCnt' = [userCnt EXCEPT ![b] = 1]
      /\ free' = free \ {b} /\ queue' = queue
      /\ hand' = [hand EXCEPT ![p] = b] /\ pc' = [pc EXCEPT ![p] = "post"]
  BY DEF AllocEvent, Alloc, Goto, schedVars
<1>2. hand[p] = NoBlock /\ pc[p] = "idle"
  BY <1>1 DEF TInv, Places, At
<1>3. b \notin Queued \cup Out \cup Held \cup Failing
  BY <1>1, RefsType DEF Counted
<1>4. /\ Out' = Out /\ hand'["frw"] = hand["frw"] /\ hand'["flush"] = hand["flush"]
      /\ hand'[p] = b /\ pc'[p] = "post"
      /\ \A r \in Posters : r # p => hand'[r] = hand[r] /\ pc'[r] = pc[r]
  BY <1>0, <1>1, PosterMoves DEF Labels
<1>5. Queued' = Queued /\ OneQueue'
  BY <1>1 DEF Queued, OneQueue
<1>6. Held' = Held \cup {b}
  BY <1>2, <1>4 DEF Held
<1>7. Failing' = Failing
  BY <1>2, <1>4 DEF Failing, At
<1>8. OneHand'
  <2>1. \A r \in Posters : hand[r] # b
    BY <1>3 DEF Held
  <2>2. QED BY <1>2, <1>4, <2>1 DEF OneHand
<1>9. Apart'
  BY <1>3, <1>4, <1>5 DEF Apart
<1>10. Counted'
  <2> SUFFICES ASSUME NEW x \in Blocks
               PROVE  userCnt'[x] = Refs(x)' /\ (x \in free' <=> userCnt'[x] = 0)
    BY DEF Counted
  <2>1. userCnt[x] = Refs(x) /\ (x \in free <=> userCnt[x] = 0) /\ userCnt \in [Blocks -> Nat]
    BY <1>0 DEF Counted, Types
  <2>2. CASE x = b
    <3>1. userCnt'[x] = 1 /\ x \notin free'
      BY <1>1, <2>1, <2>2
    <3>2. Refs(x)' = 1
      BY <1>3, <1>4, <1>5, <1>6, <1>7, <2>2 DEF Refs, One
    <3>3. QED BY <3>1, <3>2
  <2>3. CASE x # b
    <3>1. userCnt'[x] = userCnt[x] /\ (x \in free' <=> x \in free)
      BY <1>1, <2>1, <2>3
    <3>2. Refs(x)' = Refs(x)
      BY <1>4, <1>5, <1>6, <1>7, <2>3 DEF Refs, One
    <3>3. QED BY <2>1, <3>1, <3>2
  <2>4. QED BY <2>2, <2>3
<1>11. QED BY <1>5, <1>8, <1>9, <1>10

\* what a poster has in hand until its post has ended is nobody else's
LEMMA PosterHolds ==
  ASSUME TInv, RefIInv, NEW p \in Posters, pc[p] # "idle"
  PROVE  /\ hand[p] \in Blocks /\ hand[p] \in Held /\ hand[p] # NoBlock
         /\ pc[p] \in {"post", "fail"} => hand[p] \notin Queued \cup Out
         /\ hand[p] \in Failing <=> pc[p] = "fail"
         /\ \A r \in Posters : r # p => hand[r] # hand[p]
         /\ userCnt[hand[p]] = Refs(hand[p]) /\ userCnt[hand[p]] # 0
<1>1. hand[p] \in Blocks /\ hand[p] # NoBlock
  BY PosterNames DEF TInv, Types, Places
<1>2. hand[p] \in Held
  BY <1>1 DEF Held
<1>3. \A r \in Posters : r # p => hand[r] # hand[p]
  BY <1>1 DEF RefIInv, OneHand
<1>4. hand[p] \in Failing <=> pc[p] = "fail"
  BY <1>3 DEF Failing, At
<1>5. userCnt[hand[p]] = Refs(hand[p]) /\ Refs(hand[p]) # 0
  BY <1>1, <1>2, RefsType DEF RefIInv, Counted
<1>6. QED BY <1>1, <1>2, <1>3, <1>4, <1>5 DEF RefIInv, Apart

LEMMA RefPostOk ==
  ASSUME TInv, RefIInv, NEW p \in Posters, NEW q \in Queues, PostOk(p, q)
  PROVE  RefIInv'
<1> DEFINE b == hand[p]
<1>0. Types /\ hand = [hand EXCEPT ![p] = b]
  BY DEF TInv, Types
<1>1. /\ pc[p] = "post" /\ userCnt' = [userCnt EXCEPT ![b] = @ + 1]
      /\ queue' = [queue EXCEPT ![q] = Append(@, b)]
      /\ hand' = hand /\ free' = free /\ pc' = [pc EXCEPT ![p] = "release"]
  BY DEF PostOk, At, Goto
<1>2. /\ b \in Blocks /\ b \in Held /\ b # NoBlock /\ b \notin Queued \cup Out
      /\ b \notin Failing /\ \A r \in Posters : r # p => hand[r] # b
      /\ userCnt[b] = Refs(b) /\ userCnt[b] # 0
  BY <1>1, PosterHolds
<1> HIDE DEF b
<1>3. /\ Out' = Out /\ pc'[p] = "release"
      /\ \A r \in Posters : r # p => hand'[r] = hand[r] /\ pc'[r] = pc[r]
  BY <1>0, <1>1, <1>2, PosterMoves DEF Labels
<1>4. OneQueue' /\ Queued' = Queued \cup {b}
  BY <1>0, <1>1, <1>2, QueueAdd DEF RefIInv
<1>5. Held' = Held /\ OneHand'
  BY <1>1 DEF Held, OneHand, RefIInv
<1>6. Failing' = Failing
  BY <1>1, <1>3 DEF Failing, At
<1>7. Apart'
  <2>1. Queued' \cap Out' = {}
    BY <1>2, <1>3, <1>4 DEF RefIInv, Apart
  <2>2. ASSUME NEW r \in Posters, pc'[r] \in {"post", "fail"} PROVE hand'[r] \notin Queued' \cup Out'
    BY <1>1, <1>2, <1>3, <1>4, <2>2 DEF RefIInv, Apart
  <2>3. QED BY <2>1, <2>2 DEF Apart
<1>8. Counted'
  <2> SUFFICES ASSUME NEW x \in Blocks
               PROVE  userCnt'[x] = Refs(x)' /\ (x \in free' <=> userCnt'[x] = 0)
    BY DEF Counted
  <2>1. userCnt[x] = Refs(x) /\ (x \in free <=> userCnt[x] = 0) /\ userCnt \in [Blocks -> Nat]
    BY <1>0 DEF RefIInv, Counted, Types
  <2>2. CASE x = b
    <3>1. userCnt'[x] = userCnt[x] + 1 /\ userCnt'[x] # 0 /\ x \notin free'
      BY <1>1, <1>2, <2>1, <2>2
    <3>2. Refs(x)' = Refs(x) + 1
      BY <1>2, <1>3, <1>4, <1>5, <1>6, <2>2 DEF Refs, One
    <3>3. QED BY <2>1, <3>1, <3>2
  <2>3. CASE x # b
    <3>1. userCnt'[x] = userCnt[x]
      BY <1>1, <2>1, <2>3
    <3>2. Refs(x)' = Refs(x)
      BY <1>3, <1>4, <1>5, <1>6, <2>3 DEF Refs, One
    <3>3. QED BY <1>1, <2>1, <3>1, <3>2
  <2>4. QED BY <2>2, <2>3
<1>9. QED BY <1>4, <1>5, <1>7, <1>8 DEF RefIInv

\* the counts follow when one reference to b goes, and nothing else
LEMMA CountDownByFree ==
  ASSUME Types, Counted, NEW b \in Blocks, Free(b), userCnt[b] # 0,
         Refs(b)' = Refs(b) - 1, \A x \in Blocks : x # b => Refs(x)' = Refs(x)
  PROVE  Counted'
<1>1. /\ \A x \in Blocks : userCnt'[x] = IF x = b THEN userCnt[x] - 1 ELSE userCnt[x]
      /\ \A x \in Blocks : x \in free' <=> userCnt'[x] = 0
  BY FreeCounts DEF Counted
<1>2. ASSUME NEW x \in Blocks PROVE userCnt'[x] = Refs(x)'
  BY <1>1 DEF Counted
<1>3. QED BY <1>1, <1>2 DEF Counted

LEMMA RefPostFull ==
  ASSUME TInv, RefIInv, NEW p \in Posters, NEW q \in Queues, PostFull(p, q)
  PROVE  RefIInv'
<1> DEFINE b == hand[p]
<1>0. Types /\ hand = [hand EXCEPT ![p] = b]
  BY DEF TInv, Types
<1>1. /\ pc[p] = "post" /\ userCnt' = [userCnt EXCEPT ![b] = @ + 1]
      /\ queue' = queue /\ hand' = hand /\ free' = free /\ pc' = [pc EXCEPT ![p] = "fail"]
  BY DEF PostFull, At, Goto, schedVars
<1>2. /\ b \in Blocks /\ b \in Held /\ b # NoBlock /\ b \notin Queued \cup Out
      /\ b \notin Failing /\ \A r \in Posters : r # p => hand[r] # b
      /\ userCnt[b] = Refs(b) /\ userCnt[b] # 0
  BY <1>1, PosterHolds
<1> HIDE DEF b
<1>3. /\ Out' = Out /\ pc'[p] = "fail"
      /\ \A r \in Posters : r # p => hand'[r] = hand[r] /\ pc'[r] = pc[r]
  BY <1>0, <1>1, <1>2, PosterMoves DEF Labels
<1>4. OneQueue' /\ Queued' = Queued /\ Held' = Held /\ OneHand'
  BY <1>1 DEF Queued, OneQueue, Held, OneHand, RefIInv
<1>5. Failing' = Failing \cup {b}
  BY <1>1, <1>3 DEF Failing, At, b
<1>6. Apart'
  <2>1. Queued' \cap Out' = {}
    BY <1>3, <1>4 DEF RefIInv, Apart
  <2>2. ASSUME NEW r \in Posters, pc'[r] \in {"post", "fail"} PROVE hand'[r] \notin Queued' \cup Out'
    BY <1>1, <1>2, <1>3, <1>4, <2>2 DEF RefIInv, Apart, b
  <2>3. QED BY <2>1, <2>2 DEF Apart
<1>7. Counted'
  <2> SUFFICES ASSUME NEW x \in Blocks
               PROVE  userCnt'[x] = Refs(x)' /\ (x \in free' <=> userCnt'[x] = 0)
    BY DEF Counted
  <2>1. userCnt[x] = Refs(x) /\ (x \in free <=> userCnt[x] = 0) /\ userCnt \in [Blocks -> Nat]
    BY <1>0 DEF RefIInv, Counted, Types
  <2>2. CASE x = b
    <3>1. userCnt'[x] = userCnt[x] + 1 /\ userCnt'[x] # 0 /\ x \notin free'
      BY <1>1, <1>2, <2>1, <2>2
    <3>2. Refs(x)' = Refs(x) + 1
      BY <1>2, <1>3, <1>4, <1>5, <2>2 DEF Refs, One
    <3>3. QED BY <2>1, <3>1, <3>2
  <2>3. CASE x # b
    <3>1. userCnt'[x] = userCnt[x]
      BY <1>1, <2>1, <2>3
    <3>2. Refs(x)' = Refs(x)
      BY <1>3, <1>4, <1>5, <2>3 DEF Refs, One
    <3>3. QED BY <1>1, <2>1, <3>1, <3>2
  <2>4. QED BY <2>2, <2>3
<1>8. QED BY <1>4, <1>6, <1>7 DEF RefIInv

LEMMA RefPostFailed ==
  ASSUME TInv, RefIInv, NEW p \in Posters, PostFailed(p)
  PROVE  RefIInv'
<1>0. Types /\ hand = [hand EXCEPT ![p] = hand[p]]
  BY DEF TInv, Types
<1>b. PICK b \in Blocks : b = hand[p]
  BY PosterHolds DEF PostFailed, At
<1>1. /\ pc[p] = "fail" /\ Free(b)
      /\ queue' = queue /\ hand' = hand /\ pc' = [pc EXCEPT ![p] = "release"]
  BY <1>b DEF PostFailed, At, Goto, schedVars
<1>2. /\ b \in Blocks /\ b \in Held /\ b # NoBlock /\ b \notin Queued \cup Out
      /\ b \in Failing /\ \A r \in Posters : r # p => hand[r] # b
      /\ userCnt[b] = Refs(b) /\ userCnt[b] # 0
  BY <1>1, <1>b, PosterHolds
<1>3. /\ Out' = Out /\ pc'[p] = "release"
      /\ \A r \in Posters : r # p => hand'[r] = hand[r] /\ pc'[r] = pc[r]
  BY <1>0, <1>1, <1>b, PosterMoves DEF Labels
<1>4. OneQueue' /\ Queued' = Queued /\ Held' = Held /\ OneHand'
  BY <1>1 DEF Queued, OneQueue, Held, OneHand, RefIInv
<1>5. Failing' = Failing \ {b}
  BY <1>1, <1>2, <1>3, <1>b DEF Failing, At
<1>6. Apart'
  BY <1>1, <1>3, <1>4 DEF RefIInv, Apart
<1>7. Counted'
  <2>1. Refs(b)' = Refs(b) - 1
    BY <1>2, <1>3, <1>4, <1>5 DEF Refs, One
  <2>2. \A x \in Blocks : x # b => Refs(x)' = Refs(x)
    BY <1>3, <1>4, <1>5 DEF Refs, One
  <2>3. QED BY <1>0, <1>1, <1>2, <2>1, <2>2, CountDownByFree DEF RefIInv
<1>8. QED BY <1>4, <1>6, <1>7 DEF RefIInv

LEMMA RefRelease ==
  ASSUME TInv, RefIInv, NEW p \in Posters, Release(p)
  PROVE  RefIInv'
<1>0. Types
  BY DEF TInv
<1>b. PICK b \in Blocks : b = hand[p]
  BY PosterHolds DEF Release, At
<1>1. /\ pc[p] = "release" /\ Free(b) /\ queue' = queue
      /\ hand' = [hand EXCEPT ![p] = NoBlock] /\ pc' = [pc EXCEPT ![p] = "idle"]
  BY <1>b DEF Release, At, Goto, schedVars
<1>2. /\ b \in Blocks /\ b \in Held /\ b # NoBlock
      /\ b \notin Failing /\ \A r \in Posters : r # p => hand[r] # b
      /\ userCnt[b] = Refs(b) /\ userCnt[b] # 0
  BY <1>1, <1>b, PosterHolds
<1>3. /\ Out' = Out /\ hand'["frw"] = hand["frw"] /\ hand'["flush"] = hand["flush"]
      /\ hand'[p] = NoBlock /\ pc'[p] = "idle"
      /\ \A r \in Posters : r # p => hand'[r] = hand[r] /\ pc'[r] = pc[r]
  BY <1>0, <1>1, PosterMoves DEF Labels
<1>4. OneQueue' /\ Queued' = Queued
  BY <1>1 DEF Queued, OneQueue, RefIInv
<1>5. Held' = Held \ {b}
  BY <1>2, <1>3, <1>b DEF Held
<1>6. Failing' = Failing
  BY <1>1, <1>3 DEF Failing, At
<1>7. OneHand'
  BY <1>3 DEF OneHand, RefIInv
<1>8. Apart'
  BY <1>3, <1>4 DEF RefIInv, Apart
<1>9. Counted'
  <2>1. Refs(b)' = Refs(b) - 1
    BY <1>2, <1>3, <1>4, <1>5, <1>6 DEF Refs, One
  <2>2. \A x \in Blocks : x # b => Refs(x)' = Refs(x)
    BY <1>3, <1>4, <1>5, <1>6 DEF Refs, One
  <2>3. QED BY <1>0, <1>1, <1>2, <2>1, <2>2, CountDownByFree DEF RefIInv
<1>10. QED BY <1>4, <1>7, <1>8, <1>9 DEF RefIInv

\* a step of a taker leaves alone what the posters have in hand
LEMMA TakerMoves ==
  ASSUME Types, NEW t \in Takers, NEW b \in Blocks \cup {NoBlock}, NEW l \in Labels,
         hand' = [hand EXCEPT ![t] = b], pc' = [pc EXCEPT ![t] = l]
  PROVE  /\ Held' = Held /\ Failing' = Failing
         /\ hand'[t] = b
         /\ \A r \in Posters : hand'[r] = hand[r] /\ pc'[r] = pc[r]
         /\ \A u \in Takers : u # t => hand'[u] = hand[u]
<1>1. \A r \in Posters : hand'[r] = hand[r] /\ pc'[r] = pc[r]
  BY PosterNames DEF Types
<1>2. hand'[t] = b /\ \A u \in Takers : u # t => hand'[u] = hand[u]
  BY PosterNames DEF Types
<1>3. Held' = Held
  BY <1>1 DEF Held
<1>4. Failing' = Failing
  BY <1>1 DEF Failing, At
<1>5. QED BY <1>1, <1>2, <1>3, <1>4

\* the head of a queue moves into the hand of a taker, with its reference
LEMMA RefTake ==
  ASSUME Types, RefIInv, NEW t \in Takers, NEW q \in Queues, queue[q] # <<>>, hand[t] = NoBlock,
         queue' = [queue EXCEPT ![q] = Tail(@)],
         hand' = [hand EXCEPT ![t] = Head(queue[q])], pc' = [pc EXCEPT ![t] = "count"],
         UNCHANGED memVars
  PROVE  RefIInv' /\ Out' = Out \cup {Head(queue[q])}
<1> DEFINE h == Head(queue[q])
<1>1. OneQueue' /\ Queued' = Queued \ {h} /\ h \in Queued /\ h \in Blocks
  BY QueueTake DEF RefIInv
<1> HIDE DEF h
<1>2. h \notin Out /\ h # NoBlock
  BY <1>1 DEF RefIInv, Apart
<1>3. /\ Held' = Held /\ Failing' = Failing /\ hand'[t] = h
      /\ \A r \in Posters : hand'[r] = hand[r] /\ pc'[r] = pc[r]
      /\ \A u \in Takers : u # t => hand'[u] = hand[u]
  BY <1>1, TakerMoves DEF Labels, h
<1>4. Out' = Out \cup {h}
  BY <1>2, <1>3 DEF Out
<1>5. OneHand'
  BY <1>2, <1>3 DEF OneHand, RefIInv, Takers, Out
<1>6. Apart'
  BY <1>1, <1>3, <1>4 DEF Apart, RefIInv
<1>7. \A x \in Blocks : Refs(x)' = Refs(x)
  BY <1>1, <1>2, <1>3, <1>4 DEF Refs, One
<1>8. Counted'
  BY <1>7 DEF Counted, RefIInv, memVars
<1>9. QED BY <1>1, <1>4, <1>5, <1>6, <1>8 DEF RefIInv, h

\* the taker frees the event it has handled
LEMMA RefGive ==
  ASSUME Types, RefIInv, NEW t \in Takers, hand[t] # NoBlock, Free(hand[t]),
         hand' = [hand EXCEPT ![t] = NoBlock], NEW l \in Labels, pc' = [pc EXCEPT ![t] = l],
         queue' = queue
  PROVE  RefIInv' /\ Out' = Out \ {hand[t]} /\ hand[t] \in Out /\ hand[t] \in Blocks
<1>b. PICK b \in Blocks : b = hand[t]
  BY PosterNames DEF Types
<1>1. b \in Blocks /\ b \in Out /\ Free(b) /\ hand[t] = b
  BY <1>b DEF Out
<1>2. /\ Held' = Held /\ Failing' = Failing /\ hand'[t] = NoBlock
      /\ \A r \in Posters : hand'[r] = hand[r] /\ pc'[r] = pc[r]
      /\ \A u \in Takers : u # t => hand'[u] = hand[u]
  BY TakerMoves
<1>3. \A u \in Takers : u # t => hand[u] # b
  BY <1>1 DEF RefIInv, OneHand, Takers
<1>4. b \notin Queued /\ userCnt[b] = Refs(b) /\ userCnt[b] # 0
  BY <1>1, RefsType DEF RefIInv, Apart, Counted
<1>5. Out' = Out \ {b}
  BY <1>1, <1>2, <1>3 DEF Out
<1>6. Queued' = Queued /\ OneQueue'
  BY DEF Queued, OneQueue, RefIInv
<1>7. OneHand'
  BY <1>2 DEF OneHand, RefIInv, Takers
<1>8. Apart'
  BY <1>2, <1>5, <1>6 DEF Apart, RefIInv
<1>9. Counted'
  <2>1. Refs(b)' = Refs(b) - 1
    BY <1>1, <1>2, <1>4, <1>5, <1>6 DEF Refs, One
  <2>2. \A x \in Blocks : x # b => Refs(x)' = Refs(x)
    BY <1>2, <1>5, <1>6 DEF Refs, One
  <2>3. QED BY <1>1, <1>4, <2>1, <2>2, CountDownByFree DEF RefIInv
<1>10. QED BY <1>1, <1>5, <1>6, <1>7, <1>8, <1>9 DEF RefIInv

LEMMA RefSame ==
  ASSUME RefIInv, UNCHANGED <<queue, hand, userCnt, free>>, \A p \in Posters : pc'[p] = pc[p]
  PROVE  RefIInv' /\ Out' = Out
<1>1. Queued' = Queued /\ Out' = Out /\ Held' = Held
  BY DEF Queued, Out, Held
<1>2. Failing' = Failing
  BY DEF Failing, At
<1>3. OneQueue' /\ OneHand'
  BY DEF OneQueue, OneHand, RefIInv
<1>4. Apart'
  BY <1>1 DEF Apart, RefIInv
<1>5. Counted'
  BY <1>1, <1>2 DEF Counted, Refs, One, RefIInv
<1>6. QED BY <1>1, <1>3, <1>4, <1>5 DEF RefIInv

LEMMA RefInit == Init => RefIInv
<1> SUFFICES ASSUME Init PROVE RefIInv
  OBVIOUS
<1>1. Queued = {} /\ OneQueue
  BY DEF Init, Queued, On, OneQueue, Distinct
<1>2. Out = {} /\ Held = {} /\ Failing = {} /\ OneHand
  BY DEF Init, Out, Held, Failing, At, OneHand, Threads, Takers
<1>3. Apart
  BY <1>1, <1>2 DEF Apart, Init, Threads
<1>4. Counted
  BY <1>1, <1>2 DEF Counted, Refs, One, Init
<1>5. QED BY <1>1, <1>2, <1>3, <1>4 DEF RefIInv

----------------------------------------------------------------------------
(* Every step keeps the references, and is a step of FrwSchedAbs or none   *)
(* of its business.                                                        *)

Contract == Abs!Next \/ UNCHANGED <<queue, Out>>

LEMMA InChanIsQueued == ASSUME NEW b \in Blocks PROVE Abs!InChan(b) <=> b \in Queued
BY DEF Abs!InChan, Queued, On

LEMMA PosterContract ==
  ASSUME TInv, RefIInv, NEW p \in Posters, Poster(p)
  PROVE  RefIInv' /\ Contract
<1>1. ASSUME NEW b \in Blocks, AllocEvent(p, b) PROVE RefIInv' /\ Contract
  <2>1. hand' = [hand EXCEPT ![p] = b] /\ pc' = [pc EXCEPT ![p] = "post"] /\ queue' = queue
    BY <1>1 DEF AllocEvent, Goto, schedVars
  <2>2. Out' = Out
    BY <2>1, PosterMoves DEF TInv, Labels
  <2>3. QED BY <1>1, <2>1, <2>2, RefAlloc DEF Contract
<1>2. ASSUME NEW q \in Queues, PostOk(p, q) PROVE RefIInv' /\ Contract
  <2>1. pc[p] = "post" /\ hand' = hand /\ queue' = [queue EXCEPT ![q] = Append(@, hand[p])]
    BY <1>2 DEF PostOk, At
  <2>2. hand[p] \in Blocks /\ hand[p] \notin Queued \cup Out
    BY <2>1, PosterHolds
  <2>3. Abs!Accept(q, hand[p])
    BY <2>1, <2>2, InChanIsQueued DEF Abs!Accept, Out
  <2>4. Abs!Next
    BY <2>2, <2>3 DEF Abs!Next
  <2>5. QED BY <1>2, <2>4, RefPostOk DEF Contract
<1>3. ASSUME NEW q \in Queues, PostFull(p, q) PROVE RefIInv' /\ Contract
  <2>1. UNCHANGED <<queue, Out>>
    BY <1>3 DEF PostFull, schedVars, Out
  <2>2. QED BY <1>3, <2>1, RefPostFull DEF Contract
<1>4. CASE PostFailed(p)
  <2>1. UNCHANGED <<queue, Out>>
    BY <1>4 DEF PostFailed, schedVars, Out
  <2>2. QED BY <1>4, <2>1, RefPostFailed DEF Contract
<1>5. CASE Release(p)
  <2>1. hand' = [hand EXCEPT ![p] = NoBlock] /\ pc' = [pc EXCEPT ![p] = "idle"] /\ queue' = queue
    BY <1>5 DEF Release, Goto, schedVars
  <2>2. Out' = Out
    BY <2>1, PosterMoves DEF TInv, Labels
  <2>3. QED BY <1>5, <2>1, <2>2, RefRelease DEF Contract
<1>6. QED BY <1>1, <1>2, <1>3, <1>4, <1>5 DEF Poster

LEMMA TakeContract ==
  ASSUME TInv, RefIInv, NEW t \in Takers, NEW q \in Queues, queue[q] # <<>>, hand[t] = NoBlock,
         queue' = [queue EXCEPT ![q] = Tail(@)],
         hand' = [hand EXCEPT ![t] = Head(queue[q])], pc' = [pc EXCEPT ![t] = "count"],
         UNCHANGED memVars
  PROVE  RefIInv' /\ Contract
<1>1. RefIInv' /\ Out' = Out \cup {Head(queue[q])}
  BY RefTake DEF TInv
<1>2. Abs!HandOut(q)
  BY <1>1 DEF Abs!HandOut, Out
<1>3. QED BY <1>1, <1>2 DEF Contract, Abs!Next

LEMMA GiveContract ==
  ASSUME TInv, RefIInv, NEW t \in Takers, hand[t] # NoBlock, Free(hand[t]),
         hand' = [hand EXCEPT ![t] = NoBlock], NEW l \in Labels, pc' = [pc EXCEPT ![t] = l],
         queue' = queue
  PROVE  RefIInv' /\ Contract
<1>1. RefIInv' /\ Out' = Out \ {hand[t]} /\ hand[t] \in Out /\ hand[t] \in Blocks
  BY RefGive DEF TInv
<1>2. PICK b \in Blocks : b = hand[t]
  BY <1>1
<1>3. Abs!Finish(b)
  BY <1>1, <1>2 DEF Abs!Finish, Out
<1>4. QED BY <1>1, <1>3 DEF Contract, Abs!Next

LEMMA TaskContract ==
  ASSUME TInv, RefIInv, Task
  PROVE  RefIInv' /\ Contract
<1>0. "frw" \in Takers /\ "frw" \notin Posters /\ pc \in [Threads -> Labels]
  BY PosterNames DEF TInv, Types, Takers
<1>1. ASSUME UNCHANGED <<queue, hand, userCnt, free>>, NEW l \in Labels, Goto("frw", l)
      PROVE  RefIInv' /\ Contract
  <2>1. \A p \in Posters : pc'[p] = pc[p]
    BY <1>0, <1>1, PosterNames DEF Goto
  <2>2. QED BY <1>1, <2>1, RefSame DEF Contract
<1>2. CASE TaskWake \/ CountDown("frw")
  <2>1. UNCHANGED <<queue, hand, userCnt, free>> /\ \E l \in Labels : Goto("frw", l)
    BY <1>2 DEF TaskWake, CountDown, schedVars, memVars, Labels
  <2>2. QED BY <1>1, <2>1
<1>3. CASE TaskFree
  <2>1. hand["frw"] # NoBlock
    BY <1>3 DEF TaskFree, At, TInv, Places
  <2>2. QED BY <1>0, <1>3, <2>1, GiveContract DEF TaskFree, Goto, Labels, schedVars
<1>4. ASSUME NEW c \in Classes, NEW l \in Labels, pc["frw"] \in {"pickHi", "pickNormal"},
             PickEvent(c) \/ PickDrained(c, l) \/ PickNothing(c, l), UNCHANGED memVars
      PROVE  RefIInv' /\ Contract
  <2>1. CASE PickEvent(c)
    <3>1. Chosen(c) \in Queues /\ hand["frw"] = NoBlock
      BY <1>4, <2>1, ChosenIsListed DEF PickEvent, TInv, Places
    <3>2. QED BY <1>0, <1>4, <2>1, <3>1, TakeContract DEF PickEvent, Goto
  <2>2. CASE PickDrained(c, l) \/ PickNothing(c, l)
    <3>1. UNCHANGED <<queue, hand, userCnt, free>> /\ Goto("frw", l)
      BY <1>4, <2>2 DEF PickDrained, PickNothing, memVars
    <3>2. QED BY <1>1, <3>1
  <2>3. QED BY <1>4, <2>1, <2>2
<1>5. CASE ScheduleHi
  BY <1>4, <1>5 DEF ScheduleHi, At, Classes, Labels
<1>6. CASE ScheduleNormal
  BY <1>4, <1>6 DEF ScheduleNormal, At, Classes, Labels
<1>7. QED BY <1>2, <1>3, <1>5, <1>6 DEF Task

LEMMA FlushContract ==
  ASSUME TInv, RefIInv, Flush
  PROVE  RefIInv' /\ Contract
<1>0. "flush" \in Takers /\ "flush" \notin Posters /\ pc \in [Threads -> Labels] /\ flushed \in Queues
  BY PosterNames DEF TInv, Types, Takers
<1>1. ASSUME UNCHANGED <<queue, hand, userCnt, free>>, NEW l \in Labels, Goto("flush", l)
      PROVE  RefIInv' /\ Contract
  <2>1. \A p \in Posters : pc'[p] = pc[p]
    BY <1>0, <1>1, PosterNames DEF Goto
  <2>2. QED BY <1>1, <2>1, RefSame DEF Contract
<1>2. CASE (\E q \in Queues : FlushBegin(q)) \/ CountDown("flush") \/ FlushDeactivate
  <2>1. UNCHANGED <<queue, hand, userCnt, free>> /\ \E l \in Labels : Goto("flush", l)
    BY <1>2 DEF FlushBegin, CountDown, FlushDeactivate, schedVars, memVars, Labels
  <2>2. QED BY <1>1, <2>1
<1>3. CASE FlushFree
  <2>1. hand["flush"] # NoBlock
    BY <1>3 DEF FlushFree, At, TInv, Places
  <2>2. PICK l \in Labels : Goto("flush", l)
    BY <1>3 DEF FlushFree, Labels
  <2>3. QED BY <1>0, <1>3, <2>1, <2>2, GiveContract DEF FlushFree, Goto, schedVars
<1>4. CASE FlushDequeue
  <2>1. hand["flush"] = NoBlock /\ UNCHANGED memVars
    BY <1>4 DEF FlushDequeue, At, TInv, Places
  <2>2. CASE queue[flushed] = <<>>
    BY <1>1, <1>4, <2>1, <2>2 DEF FlushDequeue, Labels, memVars
  <2>3. CASE queue[flushed] # <<>>
    BY <1>0, <1>4, <2>1, <2>3, TakeContract DEF FlushDequeue, Goto
  <2>4. QED BY <2>2, <2>3
<1>5. QED BY <1>2, <1>3, <1>4 DEF Flush

LEMMA RefStep ==
  ASSUME TInv, RefIInv, [Next]_vars
  PROVE  RefIInv' /\ Contract
<1>1. CASE Next
  BY <1>1, PosterContract, TaskContract, FlushContract DEF Next
<1>2. CASE UNCHANGED vars
  <2>1. UNCHANGED <<queue, hand, userCnt, free, pc>>
    BY <1>2 DEF vars, schedVars, memVars
  <2>2. QED BY <2>1, RefSame DEF Contract
<1>3. QED BY <1>1, <1>2

IInv == ReachIInv /\ RefIInv

LEMMA HoldersAreRefs ==
  ASSUME TInv, RefIInv, NEW b \in Blocks
  PROVE  Holders(b) = Refs(b)
<1> DEFINE qs == {q \in Queues : Contains(queue[q], b)}
           ts == {t \in Threads : hand[t] = b}
           fs == {p \in Posters : hand[p] = b /\ At(p, "fail")}
<1>0. Types /\ b # NoBlock /\ \A S : One(S, b) \in {0, 1}
  BY DEF TInv, One
<1>1. Cardinality(qs) = One(Queued, b)
  <2>1. qs = {q \in Queues : On(queue[q], b)}
    BY <1>0, OnContains DEF Types
  <2>2. CASE b \in Queued
    <3>1. PICK q \in Queues : On(queue[q], b)
      BY <2>2 DEF Queued
    <3>2. qs = {q}
      BY <2>1, <3>1 DEF RefIInv, OneQueue
    <3>3. QED BY <2>2, <3>2, FS_Singleton DEF One
  <2>3. CASE b \notin Queued
    <3>1. qs = {}
      BY <2>1, <2>3 DEF Queued
    <3>2. QED BY <2>3, <3>1, FS_EmptySet DEF One
  <2>4. QED BY <2>2, <2>3
<1>2. Cardinality(fs) = One(Failing, b)
  <2>1. CASE b \in Failing
    <3>1. PICK p \in Posters : hand[p] = b /\ At(p, "fail")
      BY <2>1 DEF Failing
    <3>2. fs = {p}
      BY <1>0, <3>1 DEF RefIInv, OneHand
    <3>3. QED BY <2>1, <3>2, FS_Singleton DEF One
  <2>2. CASE b \notin Failing
    <3>1. fs = {}
      BY <2>2 DEF Failing
    <3>2. QED BY <2>2, <3>1, FS_EmptySet DEF One
  <2>3. QED BY <2>1, <2>2
<1>3. Cardinality(ts) = One(Out, b) + One(Held, b)
  <2> DEFINE outs == {t \in Takers : hand[t] = b}
             hs == {p \in Posters : hand[p] = b}
  <2>1. ts = outs \cup hs /\ outs \cap hs = {}
    BY PosterNames
  <2>2. IF b \in Out THEN \E t \in Takers : outs = {t} ELSE outs = {}
    BY <1>0 DEF Out, RefIInv, OneHand, Takers
  <2>3. IF b \in Held THEN \E p \in Posters : hs = {p} ELSE hs = {}
    BY <1>0 DEF Held, RefIInv, OneHand
  <2> HIDE DEF outs, hs, ts
  <2>c. ASSUME NEW S, NEW x, S = {x} \/ S = {}
        PROVE  IsFiniteSet(S) /\ Cardinality(S) = IF S = {} THEN 0 ELSE 1
    <3>1. CASE S = {}
      BY <3>1, FS_EmptySet
    <3>2. CASE S = {x}
      BY <3>2, FS_Singleton
    <3>3. QED BY <2>c, <3>1, <3>2
  <2>4. IsFiniteSet(outs) /\ Cardinality(outs) = One(Out, b)
    BY <2>2, <2>c DEF One
  <2>5. IsFiniteSet(hs) /\ Cardinality(hs) = One(Held, b)
    BY <2>3, <2>c DEF One
  <2>6. Cardinality(ts) = Cardinality(outs) + Cardinality(hs) - Cardinality(outs \cap hs)
    BY <2>1, <2>4, <2>5, FS_Union
  <2>7. Cardinality(outs \cap hs) = 0
    BY <2>1, FS_EmptySet
  <2>8. QED BY <1>0, <2>4, <2>5, <2>6, <2>7
<1>4. Refs(b) = One(Queued, b) + (One(Out, b) + One(Held, b)) + One(Failing, b)
  BY <1>0 DEF Refs, One, RefIInv, Apart
<1>5. QED BY <1>0, <1>1, <1>2, <1>3, <1>4 DEF Holders

\* A block of the event pool is free exactly when nobody refers to it, and its user count is the
\* number of those who do: no event is freed under its handler, none is lost to the pool
\* (frw_event_post_event, frw_event_process_all_event, oal_mem_free_enhanced).
THEOREM ReferencesAreExact == Spec => []RefsExact
<1>1. IInv => RefsExact
  <2>1. ASSUME IInv, NEW b \in Blocks PROVE userCnt[b] = Holders(b) /\ (b \in free <=> Holders(b) = 0)
    BY <2>1, HoldersAreRefs DEF IInv, ReachIInv, RefIInv, Counted
  <2>2. QED BY <2>1 DEF RefsExact
<1>2. Init => IInv
  BY ReachInit, RefInit DEF IInv
<1>3. IInv /\ [Next]_vars => IInv'
  BY ReachStep, RefStep DEF IInv, ReachIInv
<1>4. QED BY <1>1, <1>2, <1>3, PTL DEF Spec

\* Whoever takes them, the task or a flush, the accepted events of a queue are handed out once
\* and in the order of their acceptance: the framework implements FrwSchedAbs.
THEOREM EventContractHolds == Spec => EventContract
<1>1. Init => Abs!Init
  <2>1. Init => Out = {}
    BY DEF Init, Out, Takers, Threads
  <2>2. QED BY <2>1 DEF Init, Abs!Init, Out
<1>2. Init => IInv
  BY ReachInit, RefInit DEF IInv
<1>3. IInv /\ [Next]_vars => IInv'
  BY ReachStep, RefStep DEF IInv, ReachIInv
<1>4. IInv /\ [Next]_vars => [Abs!Next]_<<queue, {hand[t] : t \in Takers} \ {NoBlock}>>
  BY RefStep DEF IInv, ReachIInv, Contract, Out
<1>5. QED BY <1>1, <1>2, <1>3, <1>4, PTL DEF Spec, EventContract, Abs!Spec

----------------------------------------------------------------------------
(* The weights of a class add up to its total.                             *)

Listed(c) == {q \in Queues : Policy[q] = c /\ active[q]}

WeightIInv ==
  /\ weightCnt \in [Queues -> Nat] /\ total \in [Classes -> Nat]
  /\ \A c \in Classes : total[c] = Total(weightCnt, Listed(c))
  /\ \A q \in Queues : ~active[q] => weightCnt[q] = 0

LEMMA SumOverIsTotal == \A f, S : SumOver(f, S) = Total(f, S)
BY DEF SumOver, Total

\* the elements of a sequence
LEMMA Elements ==
  ASSUME NEW s \in Seq(Queues)
  PROVE  /\ IsFiniteSet(ToSet(s)) /\ ToSet(s) \subseteq Queues
         /\ \A q : (q \in ToSet(s) <=> On(s, q)) /\ (Contains(s, q) <=> On(s, q))
<1>1. Len(s) \in Nat /\ DOMAIN s = 1..Len(s) /\ \A i \in 1..Len(s) : s[i] \in Queues
  BY LenProperties, ElementOfSeq
<1>2. IsFiniteSet(1..Len(s))
  BY <1>1, FS_Interval
<1>3. IsFiniteSet({s[i] : i \in 1..Len(s)})
  <2> DEFINE D == 1..Len(s)
             T == {s[i] : i \in D}
             f == [i \in D |-> s[i]]
  <2>1. f \in Surjection(D, T)
    BY DEF Surjection
  <2> HIDE DEF f, T
  <2>2. IsFiniteSet(T)
    BY <1>2, <2>1, FS_Surjection DEF D
  <2>3. QED BY <2>2 DEF D, T
<1>4. \A q : q \in ToSet(s) <=> On(s, q)
  BY DEF ToSet, On
<1>5. \A q : Contains(s, q) <=> On(s, q)
  BY OnContains
<1>6. IsFiniteSet(ToSet(s)) /\ ToSet(s) \subseteq Queues
  BY <1>1, <1>3 DEF ToSet
<1>7. QED BY <1>4, <1>5, <1>6

LEMMA ListedIsList ==
  ASSUME Types, Lists, NEW c \in Classes
  PROVE  ToSet(list[c]) = Listed(c) /\ IsFiniteSet(Listed(c)) /\ list[c] \in Seq(Queues)
<1>1. list[c] \in Seq(Queues)
  BY DEF Types
<1>2. \A q \in Queues : On(list[c], q) <=> q \in Listed(c)
  BY DEF Lists, Listed
<1>3. Listed(c) \subseteq Queues
  BY DEF Listed
<1>4. ToSet(list[c]) = Listed(c)
  BY <1>1, <1>2, <1>3, Elements
<1>5. QED BY <1>1, <1>4, Elements

\* a queue becomes active, with its whole weight
LEMMA ActivateWeights ==
  ASSUME Types, Lists, WeightIInv, NEW q \in Queues, Activate(q)
  PROVE  WeightIInv'
<1>1. CASE active[q]
  BY <1>1 DEF Activate, WeightIInv, Listed
<1>2. CASE ~active[q]
  <2>1. /\ weightCnt' = [weightCnt EXCEPT ![q] = Weight[q]]
        /\ total' = [total EXCEPT ![Policy[q]] = @ + Weight[q]]
        /\ active' = [active EXCEPT ![q] = TRUE]
    BY <1>2 DEF Activate
  <2>2. Policy[q] \in Classes /\ Weight[q] \in Nat
    BY DEF Classes
  <2>3. /\ weightCnt' \in [Queues -> Nat] /\ total' \in [Classes -> Nat]
        /\ \A r \in Queues : weightCnt'[r] = IF r = q THEN Weight[q] ELSE weightCnt[r]
        /\ \A r \in Queues : active'[r] = IF r = q THEN TRUE ELSE active[r]
        /\ \A c \in Classes : total'[c] = IF c = Policy[q] THEN total[c] + Weight[q] ELSE total[c]
    BY <2>1, <2>2 DEF WeightIInv, Types
  <2>4. ASSUME NEW c \in Classes PROVE total'[c] = Total(weightCnt', Listed(c)')
    <3>1. IsFiniteSet(Listed(c)) /\ total[c] = Total(weightCnt, Listed(c)) /\ q \notin Listed(c)
      BY <1>2, ListedIsList DEF WeightIInv, Listed
    <3>2. Listed(c) \subseteq Queues /\ \A r \in Listed(c) : weightCnt'[r] = weightCnt[r]
      BY <2>3, <3>1 DEF Listed
    <3>3. Total(weightCnt', Listed(c)) = Total(weightCnt, Listed(c))
      BY <3>1, <3>2, TotalSame
    <3>4. CASE c # Policy[q]
      <4>1. Listed(c)' = Listed(c)
        BY <2>3, <3>4 DEF Listed
      <4>2. QED BY <2>3, <3>1, <3>3, <3>4, <4>1
    <3>5. CASE c = Policy[q]
      <4> DEFINE L == Listed(c) \cup {q}
      <4>1. Listed(c)' = L
        BY <2>3, <3>5 DEF Listed
      <4>2. IsFiniteSet(L) /\ q \in L /\ L \ {q} = Listed(c) /\ L \subseteq Queues
        BY <3>1, <3>2, FS_AddElement
      <4>3. \A r \in L : weightCnt'[r] \in Nat
        BY <2>3, <4>2
      <4> HIDE DEF L
      <4>4. Total(weightCnt', L) = weightCnt'[q] + Total(weightCnt', Listed(c))
        BY <4>2, <4>3, TotalRemove
      <4>5. total[c] \in Nat
        BY DEF WeightIInv
      <4>6. QED BY <2>2, <2>3, <3>1, <3>3, <3>5, <4>1, <4>4, <4>5
    <3>6. QED BY <3>4, <3>5
  <2>5. \A r \in Queues : ~active'[r] => weightCnt'[r] = 0
    BY <2>3 DEF WeightIInv
  <2>6. QED BY <2>3, <2>4, <2>5 DEF WeightIInv
<1>3. QED BY <1>1, <1>2

\* the weights w of one class have changed, and its total with them; one queue may have left
LEMMA ClassWeights ==
  ASSUME WeightIInv, NEW c \in Classes,
         weightCnt' \in [Queues -> Nat], total' \in [Classes -> Nat],
         total'[c] = Total(weightCnt', Listed(c)'),
         \A d \in Classes : d # c => total'[d] = total[d] /\ IsFiniteSet(Listed(d)),
         \A q \in Queues : Policy[q] # c => weightCnt'[q] = weightCnt[q] /\ active'[q] = active[q],
         \A q \in Queues : Policy[q] = c /\ ~active'[q] => weightCnt'[q] = 0
  PROVE  WeightIInv'
<1>1. ASSUME NEW d \in Classes, d # c PROVE total'[d] = Total(weightCnt', Listed(d)')
  <2>1. Listed(d)' = Listed(d) /\ \A q \in Listed(d) : weightCnt'[q] = weightCnt[q]
    BY <1>1 DEF Listed
  <2>2. Total(weightCnt', Listed(d)) = Total(weightCnt, Listed(d))
    BY <1>1, <2>1, TotalSame
  <2>3. QED BY <1>1, <2>1, <2>2 DEF WeightIInv
<1>2. \A q \in Queues : ~active'[q] => weightCnt'[q] = 0
  BY DEF WeightIInv
<1>3. QED BY <1>1, <1>2 DEF WeightIInv

\* a class after a pick, whose list and weights are those of s when the round is not over
LEMMA RoundWeights ==
  ASSUME Types, Lists, WeightIInv, NEW c \in Classes, NEW s, NewRound(c, s),
         s.list \in Seq(Queues), s.weight \in [Queues -> Nat],
         s.total = Total(s.weight, ToSet(s.list)),
         ToSet(s.list) = Listed(c)',
         \A q \in Queues : Policy[q] # c => s.weight[q] = weightCnt[q] /\ active'[q] = active[q],
         \A q \in Queues : Policy[q] = c /\ ~active'[q] => s.weight[q] = 0
  PROVE  WeightIInv'
<1> DEFINE L == ToSet(s.list)
<1>1. /\ IsFiniteSet(L) /\ L \subseteq Queues
      /\ \A q : Contains(s.list, q) <=> q \in L
      /\ \A q \in L : Policy[q] = c
  BY Elements DEF Listed
<1>2. /\ total' = [total EXCEPT ![c] = IF s.total = 0 THEN Total(Weight, L) ELSE s.total]
      /\ weightCnt' = IF s.total = 0
                      THEN [q \in Queues |-> IF Contains(s.list, q) THEN Weight[q] ELSE s.weight[q]]
                      ELSE s.weight
  BY SumOverIsTotal DEF NewRound
<1> HIDE DEF L
<1>3. /\ weightCnt' \in [Queues -> Nat]
      /\ \A q \in L : weightCnt'[q] = IF s.total = 0 THEN Weight[q] ELSE s.weight[q]
      /\ \A q \in Queues \ L : weightCnt'[q] = s.weight[q]
  <2>1. CASE s.total = 0
    BY <1>1, <1>2, <2>1
  <2>2. CASE s.total # 0
    BY <1>1, <1>2, <2>2
  <2>3. QED BY <2>1, <2>2
<1>4. total'[c] = Total(weightCnt', L)
  <2>1. total'[c] = IF s.total = 0 THEN Total(Weight, L) ELSE s.total
    BY <1>2 DEF WeightIInv
  <2>2. CASE s.total = 0
    <3>1. Total(weightCnt', L) = Total(Weight, L)
      BY <1>1, <1>3, <2>2, TotalSame
    <3>2. QED BY <2>1, <2>2, <3>1
  <2>3. CASE s.total # 0
    <3>1. Total(weightCnt', L) = Total(s.weight, L)
      BY <1>1, <1>3, <2>3, TotalSame
    <3>2. QED BY <2>1, <2>3, <3>1 DEF L
  <2>4. QED BY <2>2, <2>3
<1>5. Total(weightCnt', L) \in Nat
  BY <1>1, <1>3, TotalType
<1>6. total' \in [Classes -> Nat] /\ \A d \in Classes : d # c => total'[d] = total[d]
  BY <1>2, <1>4, <1>5 DEF WeightIInv
<1>7. \A q \in Queues : Policy[q] # c => weightCnt'[q] = weightCnt[q] /\ active'[q] = active[q]
  BY <1>1, <1>3
<1>8. \A q \in Queues : Policy[q] = c /\ ~active'[q] => weightCnt'[q] = 0
  <2>1. \A q \in Queues : ~active'[q] => q \notin L
    <3>1. L = Listed(c)'
      BY DEF L
    <3>2. QED BY <3>1, Zenon DEF Listed
  <2>2. QED BY <1>3, <2>1
<1>9. \A d \in Classes : IsFiniteSet(Listed(d))
  BY ListedIsList
<1>10. total'[c] = Total(weightCnt', Listed(c)')
  BY <1>4 DEF L
<1> HIDE DEF Listed, Total, WeightIInv
<1>11. QED BY <1>3, <1>6, <1>7, <1>8, <1>9, <1>10, ClassWeights

\* the total of a class that loses one of its queues
LEMMA WithoutQueue ==
  ASSUME Types, Lists, WeightIInv, NEW q \in Queues
  PROVE  LET L == Listed(Policy[q])
         IN /\ total[Policy[q]] - weightCnt[q] = Total(weightCnt, L \ {q})
            /\ total[Policy[q]] - weightCnt[q] \in Nat
            /\ IsFiniteSet(L \ {q})
<1> DEFINE c == Policy[q]
           L == Listed(c)
<1>1. c \in Classes /\ IsFiniteSet(L) /\ L \subseteq Queues
  BY ListedIsList DEF Classes, Listed
<1>2. total[c] = Total(weightCnt, L) /\ \A r \in L : weightCnt[r] \in Nat
  BY <1>1 DEF WeightIInv
<1>3. IsFiniteSet(L \ {q})
  BY <1>1, FS_Subset
<1>4. weightCnt[q] \in Nat /\ (q \notin L => weightCnt[q] = 0)
  BY DEF WeightIInv, Listed
<1> HIDE DEF L, c
<1>5. Total(weightCnt, L \ {q}) \in Nat
  BY <1>2, <1>3, TotalType
<1>6. CASE q \in L
  <2>1. Total(weightCnt, L) = weightCnt[q] + Total(weightCnt, L \ {q})
    BY <1>1, <1>2, <1>6, TotalRemove
  <2>2. QED BY <1>2, <1>3, <1>4, <1>5, <2>1 DEF c, L
<1>7. CASE q \notin L
  <2>1. L \ {q} = L
    BY <1>7
  <2>2. QED BY <1>2, <1>3, <1>4, <1>5, <1>7, <2>1 DEF c, L
<1>8. QED BY <1>6, <1>7

\* a pick uses up one unit of the weight of the queue it serves
LEMMA ServeWeights ==
  ASSUME Types, Lists, WeightIInv, NEW c \in Classes, NEW q \in Listed(c),
         weightCnt[q] > 0, Serve(c, q)
  PROVE  WeightIInv'
<1> DEFINE L == Listed(c)
           w == [weightCnt EXCEPT ![q] = @ - 1]
<1>0. q \in Queues /\ Policy[q] = c /\ active[q]
  BY DEF Listed
<1>1. /\ IsFiniteSet(L) /\ L \subseteq Queues /\ q \in L
      /\ ToSet(list[c]) = L /\ list[c] \in Seq(Queues) /\ Distinct(list[c])
  BY ListedIsList DEF Listed, Lists
<1>2. /\ weightCnt \in [Queues -> Nat] /\ total[c] \in Nat
      /\ w \in [Queues -> Nat] /\ w[q] = weightCnt[q] - 1
      /\ \A r \in Queues : r # q => w[r] = weightCnt[r]
  BY <1>0, <1>1 DEF WeightIInv
<1>3. CASE Len(queue[q]) <= 1
  <2>0. PICK off : off = Deactivated(w, total[c] - 1, list[c], q)
    OBVIOUS
  <2>1. active' = [active EXCEPT ![q] = FALSE] /\ NewRound(c, off)
    BY <1>3, <2>0 DEF Serve
  <2>2. /\ off.list = Without(list[c], q) /\ off.weight = [w EXCEPT ![q] = 0]
        /\ off.total = total[c] - 1 - w[q]
    BY <2>0 DEF Deactivated
  <2> HIDE DEF L, w
  <2>3. off.list \in Seq(Queues) /\ \A r : On(off.list, r) <=> On(list[c], r) /\ r # q
    BY <1>1, <2>2, WithoutDistinct
  <2>4. ToSet(off.list) = L \ {q}
    BY <1>1, <2>3, Elements
  <2>5. off.weight \in [Queues -> Nat] /\ \A r \in Queues : off.weight[r] = IF r = q THEN 0 ELSE weightCnt[r]
    BY <1>0, <1>2, <2>2
  <2>6. Total(off.weight, L \ {q}) = Total(weightCnt, L \ {q})
    <3>1. IsFiniteSet(L \ {q}) /\ \A r \in L \ {q} : off.weight[r] = weightCnt[r]
      BY <1>1, <2>5, FS_Subset
    <3>2. QED BY <3>1, TotalSame
  <2>7. off.total = total[c] - weightCnt[q]
    BY <1>0, <1>2, <2>2
  <2>8. off.total = Total(off.weight, ToSet(off.list))
    BY <1>0, <2>4, <2>6, <2>7, WithoutQueue DEF L
  <2>9. \A r \in Queues : active'[r] = IF r = q THEN FALSE ELSE active[r]
    BY <2>1 DEF Types
  <2>10. L \ {q} = Listed(c)'
    BY <2>9 DEF L, Listed
  <2>11. \A r \in Queues : Policy[r] # c => off.weight[r] = weightCnt[r] /\ active'[r] = active[r]
    BY <1>0, <2>5, <2>9
  <2>12. \A r \in Queues : Policy[r] = c /\ ~active'[r] => off.weight[r] = 0
    BY <2>5, <2>9 DEF WeightIInv
  <2>13. ToSet(off.list) = Listed(c)'
    BY <2>4, <2>10
  <2>14. NewRound(c, off) /\ off.list \in Seq(Queues) /\ off.weight \in [Queues -> Nat]
    BY <2>1, <2>3, <2>5
  <2>15. QED BY <2>8, <2>11, <2>12, <2>13, <2>14, RoundWeights, SMTT(30)
<1>4. CASE ~(Len(queue[q]) <= 1)
  <2>0. PICK on : on = [weight |-> w, total |-> total[c] - 1, list |-> list[c]]
    OBVIOUS
  <2>1. active' = active /\ NewRound(c, on)
    BY <1>4, <2>0 DEF Serve
  <2>2. on.list = list[c] /\ on.weight = w /\ on.total = total[c] - 1
    BY <2>0
  <2> HIDE DEF L, w
  <2>3. Total(w, L) = Total(weightCnt, L) - weightCnt[q] + w[q]
    <3>1. \A r \in L : weightCnt[r] \in Nat /\ w[r] \in Nat
      BY <1>1, <1>2
    <3>2. \A r \in L \ {q} : w[r] = weightCnt[r]
      BY <1>1, <1>2
    <3>3. q \in L /\ IsFiniteSet(L)
      BY <1>1
    <3>4. QED BY <3>1, <3>2, <3>3, TotalChange
  <2>4. total[c] = Total(weightCnt, L)
    BY <1>1 DEF WeightIInv, L
  <2>5. on.total = Total(on.weight, ToSet(on.list))
    BY <1>1, <1>2, <2>2, <2>3, <2>4
  <2>6. L = Listed(c)'
    BY <2>1 DEF L, Listed
  <2>7. \A r \in Queues : Policy[r] # c => on.weight[r] = weightCnt[r] /\ active'[r] = active[r]
    BY <1>0, <1>2, <2>1, <2>2
  <2>8. \A r \in Queues : Policy[r] = c /\ ~active'[r] => on.weight[r] = 0
    BY <1>0, <1>2, <2>1, <2>2 DEF WeightIInv
  <2>9. ToSet(on.list) = Listed(c)' /\ on.list \in Seq(Queues) /\ on.weight \in [Queues -> Nat]
    BY <1>1, <1>2, <2>2, <2>6 DEF L, w
  <2>10. NewRound(c, on)
    BY <2>1
  <2>11. QED BY <2>5, <2>7, <2>8, <2>9, <2>10, RoundWeights, SMTT(30)
<1>5. QED BY <1>3, <1>4

LEMMA PickWeights ==
  ASSUME TInv, Lists, WeightIInv, NEW c \in Classes, NEW next,
         PickEvent(c) \/ PickDrained(c, next) \/ PickNothing(c, next)
  PROVE  WeightIInv'
<1> USE DEF TInv
<1>0. ToSet(list[c]) = Listed(c) /\ list[c] \in Seq(Queues) /\ weightCnt \in [Queues -> Nat]
  BY ListedIsList DEF WeightIInv
<1>1. CASE PickNothing(c, next)
  <2>0. PICK s : s = [weight |-> weightCnt, total |-> total[c], list |-> list[c]]
    OBVIOUS
  <2>1. NewRound(c, s) /\ active' = active
    BY <1>1, <2>0 DEF PickNothing
  <2>2. s.weight = weightCnt /\ s.total = total[c] /\ s.list = list[c]
    BY <2>0
  <2>3. Listed(c)' = Listed(c)
    BY <2>1 DEF Listed
  <2>4. s.total = Total(s.weight, ToSet(s.list))
    BY <1>0, <2>2 DEF WeightIInv
  <2>5. \A r \in Queues : Policy[r] = c /\ ~active'[r] => s.weight[r] = 0
    BY <2>1, <2>2 DEF WeightIInv
  <2>6. \A r \in Queues : Policy[r] # c => s.weight[r] = weightCnt[r] /\ active'[r] = active[r]
    BY <2>1, <2>2
  <2>7. ToSet(s.list) = Listed(c)' /\ s.list \in Seq(Queues) /\ s.weight \in [Queues -> Nat]
    BY <1>0, <2>2, <2>3
  <2>8. NewRound(c, s)
    BY <2>1
  <2>9. Types
    OBVIOUS
  <2>10. QED BY <2>4, <2>5, <2>6, <2>7, <2>8, <2>9, RoundWeights
<1>2. CASE PickEvent(c) \/ PickDrained(c, next)
  <2> DEFINE q == Chosen(c)
  <2>1. Eligible(c) # {} /\ Serve(c, q)
    BY <1>2 DEF PickEvent, PickDrained
  <2>2. q \in Queues /\ On(list[c], q)
    BY <2>1, ChosenIsListed
  <2>3. Policy[q] = c /\ active[q]
    BY <2>2 DEF Lists
  <2>4. q \in Listed(c) /\ weightCnt[q] > 0
    <3>1. Len(list[c]) \in Nat /\ DOMAIN list[c] = 1..Len(list[c])
      BY <1>0, LenProperties
    <3>2. Eligible(c) \in SUBSET (0..Len(list[c]))
      BY <3>1 DEF Eligible
    <3>3. Min(Eligible(c)) \in Eligible(c)
      BY <2>1, <3>1, <3>2, LowestIndex
    <3>4. QED BY <2>2, <2>3, <3>3 DEF Eligible, Chosen, Listed
  <2> HIDE DEF q
  <2>5. QED BY <2>1, <2>4, ServeWeights
<1>3. QED BY <1>1, <1>2

LEMMA DeactivateWeights ==
  ASSUME TInv, Lists, WeightIInv, FlushDeactivate
  PROVE  WeightIInv'
<1> PICK q \in Queues : q = flushed
  BY DEF TInv, Types
<1> DEFINE c == Policy[q]
<1>0. Types /\ q \in Queues /\ c \in Classes
  BY DEF TInv, Classes
<1>1. CASE queue[q] = <<>>
  <2>1. /\ active' = [active EXCEPT ![q] = FALSE]
        /\ weightCnt' = [weightCnt EXCEPT ![q] = 0]
        /\ total' = [total EXCEPT ![c] = total[c] - weightCnt[q]]
    BY <1>1 DEF FlushDeactivate, Deactivated
  <2>2. /\ total[c] - weightCnt[q] = Total(weightCnt, Listed(c) \ {q})
        /\ total[c] - weightCnt[q] \in Nat /\ IsFiniteSet(Listed(c) \ {q})
    BY <1>0, WithoutQueue
  <2>3. /\ weightCnt' \in [Queues -> Nat] /\ total' \in [Classes -> Nat]
        /\ \A r \in Queues : weightCnt'[r] = IF r = q THEN 0 ELSE weightCnt[r]
        /\ \A r \in Queues : active'[r] = IF r = q THEN FALSE ELSE active[r]
        /\ \A d \in Classes : total'[d] = IF d = c THEN total[c] - weightCnt[q] ELSE total[d]
    BY <1>0, <2>1, <2>2 DEF WeightIInv, Types
  <2>4. Listed(c)' = Listed(c) \ {q}
    <3> HIDE DEF c
    <3>1. QED BY <2>3 DEF Listed
  <2>5. Total(weightCnt', Listed(c) \ {q}) = Total(weightCnt, Listed(c) \ {q})
    <3>1. \A r \in Listed(c) \ {q} : weightCnt'[r] = weightCnt[r]
      BY <2>3 DEF Listed
    <3>2. QED BY <2>2, <3>1, TotalSame
  <2>6. total'[c] = Total(weightCnt', Listed(c)')
    BY <1>0, <2>2, <2>3, <2>4, <2>5
  <2>7. \A d \in Classes : d # c => total'[d] = total[d] /\ IsFiniteSet(Listed(d))
    BY <1>0, <2>3, ListedIsList
  <2>8. \A r \in Queues : Policy[r] # c => weightCnt'[r] = weightCnt[r] /\ active'[r] = active[r]
    BY <2>3
  <2>9. \A r \in Queues : Policy[r] = c /\ ~active'[r] => weightCnt'[r] = 0
    BY <2>3 DEF WeightIInv
  <2> HIDE DEF c
  <2>10. QED BY <1>0, <2>3, <2>6, <2>7, <2>8, <2>9, ClassWeights
<1>2. CASE queue[q] # <<>>
  <2>1. UNCHANGED <<active, weightCnt, total>>
    BY <1>2 DEF FlushDeactivate
  <2>2. QED BY <2>1 DEF WeightIInv, Listed
<1>3. QED BY <1>1, <1>2

LEMMA WeightInit == Init => WeightIInv
<1> SUFFICES ASSUME Init PROVE WeightIInv
  OBVIOUS
<1>1. \A c \in Classes : Listed(c) = {} /\ total[c] = 0
  BY DEF Init, Listed
<1>2. QED BY <1>1, TotalEmpty DEF Init, WeightIInv

LEMMA WeightStep ==
  ASSUME ReachIInv, WeightIInv, [Next]_vars
  PROVE  WeightIInv'
<1> USE DEF ReachIInv, TInv
<1>1. CASE UNCHANGED <<active, weightCnt, total>>
  BY <1>1 DEF WeightIInv, Listed
<1>2. CASE Quiet
  <2>1. UNCHANGED schedVars
    BY <1>2, QuietKeeps
  <2>2. QED BY <1>1, <2>1 DEF schedVars
<1>3. ASSUME NEW p \in Posters, NEW q \in Queues, PostOk(p, q) PROVE WeightIInv'
  BY <1>3, ActivateWeights DEF PostOk
<1>4. CASE ScheduleHi
  BY <1>4, PickWeights DEF ScheduleHi, Classes
<1>5. CASE ScheduleNormal
  BY <1>5, PickWeights DEF ScheduleNormal, Classes
<1>6. CASE FlushDequeue
  BY <1>1, <1>6 DEF FlushDequeue
<1>7. CASE FlushDeactivate
  BY <1>7, DeactivateWeights
<1>8. QED BY <1>2, <1>3, <1>4, <1>5, <1>6, <1>7, NextCases

\* The total weight of a class is what the queues on its list have left, and a queue that is not
\* on it has nothing left, so that a round ends exactly when every listed queue had its share
\* (frw_event_sched_activate_queue_no_lock, frw_event_sched_deactivate_queue_no_lock,
\* frw_event_sched_pick_next_event_queue_wrr).
THEOREM WeightsAlwaysAddUp == Spec => []WeightsAddUp
<1>1. ReachIInv /\ WeightIInv => WeightsAddUp
  <2> SUFFICES ASSUME ReachIInv, WeightIInv, NEW c \in Classes
               PROVE  /\ total[c] = SumOver(weightCnt, ToSet(list[c]))
                      /\ \A q \in Queues : ~Contains(list[c], q) /\ Policy[q] = c => weightCnt[q] = 0
    BY DEF WeightsAddUp
  <2>1. ToSet(list[c]) = Listed(c) /\ list[c] \in Seq(Queues)
    BY ListedIsList DEF ReachIInv, TInv
  <2>2. total[c] = SumOver(weightCnt, ToSet(list[c]))
    BY <2>1, SumOverIsTotal DEF WeightIInv
  <2>3. \A q \in Queues : ~Contains(list[c], q) /\ Policy[q] = c => ~active[q]
    BY <2>1, OnContains DEF ReachIInv, Lists
  <2>4. QED BY <2>2, <2>3 DEF WeightIInv
<1>2. ReachIInv /\ WeightIInv /\ [Next]_vars => (ReachIInv /\ WeightIInv)'
  BY ReachStep, WeightStep
<1>3. QED BY <1>1, <1>2, ReachInit, WeightInit, PTL DEF Spec

----------------------------------------------------------------------------
(* The count the task sleeps on, and the types.                            *)

\* how a step moves the queues, for the count
Lens == [q \in Queues |-> Len(queue[q])]
Taking(t) == IF pc[t] = "count" THEN 1 ELSE 0

LEMMA LensType ==
  ASSUME Types
  PROVE  \A q \in Queues : Len(queue[q]) \in Nat /\ Lens[q] = Len(queue[q])
BY LenProperties DEF Types, Lens

LEMMA LensMove ==
  ASSUME IsFiniteSet(Queues), NEW q \in Queues,
         \A r \in Queues : Lens[r] \in Nat /\ Lens'[r] \in Nat /\ (r # q => Lens'[r] = Lens[r])
  PROVE  Total(Lens', Queues) = Total(Lens, Queues) - Lens[q] + Lens'[q]
<1>1. PICK p : p = Lens
  OBVIOUS
<1>2. PICK w : w = Lens'
  OBVIOUS
<1>3. \A r \in Queues : p[r] \in Nat /\ w[r] \in Nat
  BY <1>1, <1>2
<1>4. \A r \in Queues \ {q} : w[r] = p[r]
  BY <1>1, <1>2
<1>5. Total(w, Queues) = Total(p, Queues) - p[q] + w[q]
  BY <1>3, <1>4, TotalChange
<1>6. QED BY <1>1, <1>2, <1>5

LEMMA LensAdd ==
  ASSUME Types, NEW q \in Queues, NEW b \in Blocks, queue' = [queue EXCEPT ![q] = Append(@, b)]
  PROVE  /\ Len(queue'[q]) = Len(queue[q]) + 1
         /\ \A r \in Queues : r # q => queue'[r] = queue[r]
         /\ IsFiniteSet(Queues) => Total(Lens', Queues) = Total(Lens, Queues) + 1
<1>1. queue[q] \in Seq(Blocks) /\ queue'[q] = Append(queue[q], b) /\ Len(queue[q]) \in Nat
  BY LenProperties DEF Types
<1>2. Len(queue'[q]) = Len(queue[q]) + 1
  BY <1>1, AppendProperties
<1>3. \A r \in Queues : r # q => queue'[r] = queue[r]
  BY DEF Types
<1>4. \A r \in Queues : Lens[r] \in Nat /\ Lens'[r] \in Nat /\ (r # q => Lens'[r] = Lens[r])
  BY <1>1, <1>2, <1>3, LensType DEF Lens
<1>5. Lens'[q] = Lens[q] + 1
  BY <1>2 DEF Lens
<1>6. ASSUME IsFiniteSet(Queues) PROVE Total(Lens', Queues) = Total(Lens, Queues) + 1
  <2>1. Total(Lens', Queues) = Total(Lens, Queues) - Lens[q] + Lens'[q]
    BY <1>4, <1>6, LensMove
  <2>2. Total(Lens, Queues) \in Nat
    BY <1>4, <1>6, TotalType
  <2>3. QED BY <1>4, <1>5, <2>1, <2>2
<1>7. QED BY <1>2, <1>3, <1>6

LEMMA LensTake ==
  ASSUME Types, NEW q \in Queues, queue[q] # <<>>, queue' = [queue EXCEPT ![q] = Tail(@)]
  PROVE  /\ Len(queue'[q]) = Len(queue[q]) - 1
         /\ \A r \in Queues : r # q => queue'[r] = queue[r]
         /\ IsFiniteSet(Queues) => Total(Lens', Queues) = Total(Lens, Queues) - 1
<1>1. queue[q] \in Seq(Blocks) /\ queue'[q] = Tail(queue[q]) /\ Len(queue[q]) \in Nat
  BY LenProperties DEF Types
<1>2. Len(queue'[q]) = Len(queue[q]) - 1 /\ Len(queue'[q]) \in Nat
  BY <1>1, HeadTailProperties, LenProperties
<1>3. \A r \in Queues : r # q => queue'[r] = queue[r]
  BY DEF Types
<1>4. \A r \in Queues : Lens[r] \in Nat /\ Lens'[r] \in Nat /\ (r # q => Lens'[r] = Lens[r])
  BY <1>1, <1>2, <1>3, LensType DEF Lens
<1>5. Lens'[q] = Lens[q] - 1
  BY <1>2 DEF Lens
<1>6. ASSUME IsFiniteSet(Queues) PROVE Total(Lens', Queues) = Total(Lens, Queues) - 1
  <2>1. Total(Lens', Queues) = Total(Lens, Queues) - Lens[q] + Lens'[q]
    BY <1>4, <1>6, LensMove
  <2>2. Total(Lens, Queues) \in Nat
    BY <1>4, <1>6, TotalType
  <2>3. QED BY <1>4, <1>5, <2>1, <2>2
<1>7. QED BY <1>2, <1>3, <1>6

BoundIInv ==
  /\ \A q \in Queues : Len(queue[q]) <= MaxEvents[q]
  /\ fails \in 0..FailLimit + 1
  /\ count \in Int

CountIInv == count = Total(Lens, Queues) + Taking("frw") + Taking("flush")

\* a step that takes an event, one that adds one, and one that does neither
LEMMA TakeCounts ==
  ASSUME TInv, BoundIInv, NEW t \in Takers, NEW q \in Queues,
         queue[q] # <<>>, queue' = [queue EXCEPT ![q] = Tail(@)],
         pc[t] # "count", pc' = [pc EXCEPT ![t] = "count"], UNCHANGED <<count, fails>>
  PROVE  BoundIInv' /\ (IsFiniteSet(Queues) /\ CountIInv => CountIInv')
<1>0. Types
  BY DEF TInv
<1>1. /\ Len(queue'[q]) = Len(queue[q]) - 1
      /\ \A r \in Queues : r # q => queue'[r] = queue[r]
      /\ IsFiniteSet(Queues) => Total(Lens', Queues) = Total(Lens, Queues) - 1
  BY <1>0, LensTake
<1>2. BoundIInv'
  BY <1>0, <1>1, LensType DEF BoundIInv
<1>3. Taking("frw")' + Taking("flush")' = Taking("frw") + Taking("flush") + 1
  BY <1>0 DEF Types, Threads, Takers, Taking
<1>4. Taking("frw") \in Nat /\ Taking("flush") \in Nat /\ Taking("frw")' \in Nat /\ Taking("flush")' \in Nat
  BY DEF Taking
<1>5. IsFiniteSet(Queues) => Total(Lens, Queues) \in Nat
  BY <1>0, LensType, TotalType
<1>6. ASSUME IsFiniteSet(Queues), CountIInv PROVE CountIInv'
  BY <1>1, <1>3, <1>4, <1>5, <1>6, SMTT(30) DEF CountIInv
<1>7. QED BY <1>2, <1>6

LEMMA SameCounts ==
  ASSUME TInv, BoundIInv, UNCHANGED <<queue, count>>, fails' \in 0..FailLimit + 1,
         \A t \in Takers : (pc[t] # "count" /\ pc'[t] # "count") \/ pc'[t] = pc[t]
  PROVE  BoundIInv' /\ (CountIInv => CountIInv')
<1>1. BoundIInv'
  BY DEF BoundIInv
<1>2. Taking("frw")' = Taking("frw") /\ Taking("flush")' = Taking("flush")
  BY DEF Taking, Takers
<1>3. Lens' = Lens
  BY DEF Lens
<1>4. QED BY <1>1, <1>2, <1>3 DEF CountIInv

LEMMA CountDownCounts ==
  ASSUME TInv, BoundIInv, NEW t \in Takers, CountDown(t)
  PROVE  BoundIInv' /\ (IsFiniteSet(Queues) /\ CountIInv => CountIInv')
<1>0. /\ pc[t] = "count" /\ pc' = [pc EXCEPT ![t] = "handle"]
      /\ count' = count - 1 /\ UNCHANGED <<queue, fails>>
  BY DEF CountDown, At, Goto, schedVars
<1>1. BoundIInv'
  BY <1>0 DEF BoundIInv
<1>2. Taking("frw")' + Taking("flush")' = Taking("frw") + Taking("flush") - 1
  BY <1>0 DEF TInv, Types, Threads, Takers, Taking
<1>3. Taking("frw") \in Nat /\ Taking("flush") \in Nat /\ Taking("frw")' \in Nat /\ Taking("flush")' \in Nat
  BY DEF Taking
<1>4. IsFiniteSet(Queues) => Total(Lens, Queues) \in Nat
  BY LensType, TotalType DEF TInv
<1>5. Lens' = Lens
  BY <1>0 DEF Lens
<1>6. ASSUME IsFiniteSet(Queues), CountIInv PROVE CountIInv'
  BY <1>0, <1>2, <1>3, <1>4, <1>5, <1>6 DEF CountIInv
<1>7. QED BY <1>1, <1>6

LEMMA QuietCounts ==
  ASSUME TInv, BoundIInv, Quiet
  PROVE  BoundIInv' /\ (IsFiniteSet(Queues) /\ CountIInv => CountIInv')
<1> USE DEF TInv
<1>0. fails \in 0..FailLimit + 1 /\ UNCHANGED queue /\ Takers \subseteq Threads
  BY QuietKeeps DEF BoundIInv, schedVars, Takers, Threads
<1>1. ASSUME NEW p \in Posters, NEW l, Goto(p, l), UNCHANGED count, fails' \in 0..FailLimit + 1
      PROVE  BoundIInv' /\ (CountIInv => CountIInv')
  <2>1. p \notin Takers
    BY DEF Takers
  <2>2. \A t \in Takers : pc'[t] = pc[t]
    BY <1>0, <1>1, <2>1 DEF Types, Goto
  <2>3. QED BY <1>0, <1>1, <2>2, SameCounts
<1>2. ASSUME NEW t \in Takers, NEW l \in Labels, Goto(t, l), pc[t] # "count", l # "count",
             UNCHANGED <<count, fails>>
      PROVE  BoundIInv' /\ (CountIInv => CountIInv')
  <2>1. \A u \in Takers : (pc[u] # "count" /\ pc'[u] # "count") \/ pc'[u] = pc[u]
    BY <1>0, <1>2 DEF Types, Goto
  <2>2. QED BY <1>0, <1>2, <2>1, SameCounts
<1>3. ASSUME NEW p \in Posters, NEW b \in Blocks, AllocEvent(p, b)
      PROVE  BoundIInv' /\ (CountIInv => CountIInv')
  BY <1>0, <1>1, <1>3 DEF AllocEvent
<1>4. ASSUME NEW p \in Posters, NEW q \in Queues, PostFull(p, q)
      PROVE  BoundIInv' /\ (CountIInv => CountIInv')
  BY <1>0, <1>1, <1>4 DEF PostFull
<1>5. ASSUME NEW p \in Posters, PostFailed(p)
      PROVE  BoundIInv' /\ (CountIInv => CountIInv')
  <2>1. fails' \in 0..FailLimit + 1
    BY <1>0, <1>5 DEF PostFailed
  <2>2. QED BY <1>1, <1>5, <2>1 DEF PostFailed
<1>6. ASSUME NEW p \in Posters, Release(p)
      PROVE  BoundIInv' /\ (CountIInv => CountIInv')
  BY <1>0, <1>1, <1>6 DEF Release
<1>7. CASE TaskWake
  BY <1>2, <1>7 DEF TaskWake, At, Takers, Labels
<1>8. CASE TaskFree
  BY <1>2, <1>8 DEF TaskFree, At, Takers, Labels
<1>9. CASE FlushFree
  BY <1>2, <1>9 DEF FlushFree, At, Takers, Labels
<1>10. ASSUME NEW q \in Queues, FlushBegin(q) PROVE BoundIInv' /\ (CountIInv => CountIInv')
  BY <1>2, <1>10 DEF FlushBegin, At, Takers, Labels
<1>11. CASE CountDown("frw") \/ CountDown("flush")
  BY <1>11, CountDownCounts DEF Takers
<1>12. CASE UNCHANGED vars
  BY <1>0, <1>12, SameCounts DEF vars, schedVars
<1>13. QED
  BY <1>3, <1>4, <1>5, <1>6, <1>7, <1>8, <1>9, <1>10, <1>11, <1>12 DEF Quiet

LEMMA PickCounts ==
  ASSUME TInv, BoundIInv, NEW c \in Classes, NEW next \in {"idle", "pickNormal"},
         pc["frw"] # "count", UNCHANGED <<count, fails>>,
         PickEvent(c) \/ PickDrained(c, next) \/ PickNothing(c, next)
  PROVE  BoundIInv' /\ (IsFiniteSet(Queues) /\ CountIInv => CountIInv')
<1> USE DEF TInv
<1>1. CASE PickEvent(c)
  <2>1. Chosen(c) \in Queues
    BY <1>1, ChosenIsListed DEF PickEvent
  <2>2. PICK q \in Queues : q = Chosen(c)
    BY <2>1
  <2>3. /\ queue[q] # <<>> /\ queue' = [queue EXCEPT ![q] = Tail(@)]
        /\ pc' = [pc EXCEPT !["frw"] = "count"]
    BY <1>1, <2>2 DEF PickEvent, Goto
  <2>4. QED BY <2>3, TakeCounts DEF Takers
<1>2. CASE PickDrained(c, next) \/ PickNothing(c, next)
  <2>1. UNCHANGED queue /\ pc' = [pc EXCEPT !["frw"] = next]
    BY <1>2 DEF PickDrained, PickNothing, Goto
  <2>2. \A t \in Takers : (pc[t] # "count" /\ pc'[t] # "count") \/ pc'[t] = pc[t]
    BY <2>1 DEF Types, Takers, Threads
  <2>3. QED BY <2>1, <2>2, SameCounts DEF BoundIInv
<1>3. QED BY <1>1, <1>2

LEMMA PostOkCounts ==
  ASSUME TInv, BoundIInv, NEW p \in Posters, NEW q \in Queues, PostOk(p, q)
  PROVE  BoundIInv' /\ (IsFiniteSet(Queues) /\ CountIInv => CountIInv')
<1> USE DEF TInv
<1>0. /\ pc[p] = "post" /\ Len(queue[q]) < MaxEvents[q]
      /\ queue' = [queue EXCEPT ![q] = Append(@, hand[p])]
      /\ count' = count + 1 /\ fails' = 0 /\ pc' = [pc EXCEPT ![p] = "release"]
  BY DEF PostOk, At, Goto
<1>1. hand[p] \in Blocks /\ p \in Threads /\ p \notin Takers
  BY <1>0 DEF Types, Places, Threads, Takers
<1>2. PICK b \in Blocks : b = hand[p]
  BY <1>1
<1>3. /\ Len(queue'[q]) = Len(queue[q]) + 1
      /\ \A r \in Queues : r # q => queue'[r] = queue[r]
      /\ IsFiniteSet(Queues) => Total(Lens', Queues) = Total(Lens, Queues) + 1
  <2>1. queue' = [queue EXCEPT ![q] = Append(@, b)]
    BY <1>0, <1>2
  <2>2. QED BY <2>1, LensAdd
<1>4. BoundIInv'
  <2>1. MaxEvents[q] \in Nat /\ Len(queue[q]) \in Nat
    BY LensType
  <2>2. QED BY <1>0, <1>3, <2>1 DEF BoundIInv
<1>5. Taking("frw")' = Taking("frw") /\ Taking("flush")' = Taking("flush")
  BY <1>0, <1>1 DEF Types, Taking, Takers, Threads
<1>6. Taking("frw") \in Nat /\ Taking("flush") \in Nat
  BY DEF Taking
<1>7. IsFiniteSet(Queues) => Total(Lens, Queues) \in Nat
  BY LensType, TotalType
<1>8. ASSUME IsFiniteSet(Queues), CountIInv PROVE CountIInv'
  BY <1>0, <1>3, <1>5, <1>6, <1>7, <1>8 DEF CountIInv
<1>9. QED BY <1>4, <1>8

LEMMA FlushCounts ==
  ASSUME TInv, BoundIInv, FlushDequeue \/ FlushDeactivate
  PROVE  BoundIInv' /\ (IsFiniteSet(Queues) /\ CountIInv => CountIInv')
<1> USE DEF TInv
<1>0. pc["flush"] # "count" /\ UNCHANGED <<count, fails>>
  BY DEF FlushDequeue, FlushDeactivate, At
<1>1. CASE UNCHANGED queue /\ Goto("flush", "idle")
  <2>1. \A t \in Takers : (pc[t] # "count" /\ pc'[t] # "count") \/ pc'[t] = pc[t]
    BY <1>0, <1>1 DEF Types, Takers, Threads, Goto
  <2>2. QED BY <1>0, <1>1, <2>1, SameCounts DEF BoundIInv
<1>2. CASE FlushDequeue /\ queue[flushed] # <<>>
  <2>1. PICK q \in Queues : q = flushed
    BY DEF Types
  <2>2. queue[q] # <<>> /\ queue' = [queue EXCEPT ![q] = Tail(@)] /\ pc' = [pc EXCEPT !["flush"] = "count"]
    BY <1>2, <2>1 DEF FlushDequeue, Goto
  <2>3. QED BY <1>0, <2>2, TakeCounts DEF Takers
<1>3. QED BY <1>1, <1>2 DEF FlushDequeue, FlushDeactivate

LEMMA CountStep ==
  ASSUME TInv, BoundIInv, [Next]_vars
  PROVE  BoundIInv' /\ (IsFiniteSet(Queues) /\ CountIInv => CountIInv')
<1>1. CASE Quiet
  BY <1>1, QuietCounts
<1>2. ASSUME NEW p \in Posters, NEW q \in Queues, PostOk(p, q)
      PROVE  BoundIInv' /\ (IsFiniteSet(Queues) /\ CountIInv => CountIInv')
  BY <1>2, PostOkCounts
<1>3. CASE ScheduleHi
  BY <1>3, PickCounts DEF ScheduleHi, Classes, At
<1>4. CASE ScheduleNormal
  BY <1>4, PickCounts DEF ScheduleNormal, Classes, At
<1>5. CASE FlushDequeue \/ FlushDeactivate
  BY <1>5, FlushCounts
<1>6. QED BY <1>1, <1>2, <1>3, <1>4, <1>5, NextCases

LEMMA BoundInit == Init => BoundIInv
<1> SUFFICES ASSUME Init PROVE BoundIInv
  OBVIOUS
<1>1. \A q \in Queues : Len(queue[q]) = 0 /\ MaxEvents[q] \in Nat
  BY EmptySeq DEF Init
<1>2. QED BY <1>1 DEF Init, BoundIInv

LEMMA CountInit == IsFiniteSet(Queues) /\ Init => CountIInv
<1> SUFFICES ASSUME IsFiniteSet(Queues), Init PROVE CountIInv
  OBVIOUS
<1> DEFINE Zero == [q \in Queues |-> 0]
<1>1. Lens = Zero
  BY EmptySeq DEF Init, Lens
<1>2. Total(Zero, Queues) = 0
  BY TotalZero
<1>3. Taking("frw") = 0 /\ Taking("flush") = 0
  BY DEF Init, Taking, Threads
<1>4. QED BY <1>1, <1>2, <1>3 DEF Init, CountIInv

\* total_element_cnt, on which the event task sleeps, is the number of the events in the queues and
\* of those whose taker has not counted them down yet, although it is changed outside every lock
\* (frw_event_post_event, frw_event_process_all_event, frw_event_flush_event_queue).  The queues
\* are a finite array.
THEOREM CountAlwaysExact == IsFiniteSet(Queues) => (Spec => []CountIsExact)
<1> SUFFICES ASSUME IsFiniteSet(Queues) PROVE Spec => []CountIsExact
  OBVIOUS
<1>1. TInv /\ CountIInv => CountIsExact
  <2> SUFFICES ASSUME TInv, CountIInv PROVE CountIsExact
    OBVIOUS
  <2> DEFINE ts == {t \in Takers : At(t, "count")}
  <2>1. Cardinality(ts) = Taking("frw") + Taking("flush")
    <3>1. CASE pc["frw"] = "count" /\ pc["flush"] = "count"
      <4>1. ts = {"frw"} \cup {"flush"} /\ "flush" \notin {"frw"}
        BY <3>1 DEF Takers, At
      <4> HIDE DEF ts
      <4>2. IsFiniteSet({"frw"}) /\ Cardinality({"frw"}) = 1
        BY FS_Singleton
      <4>3. Cardinality({"frw"} \cup {"flush"}) = 1 + 1
        BY <4>1, <4>2, FS_AddElement
      <4>4. QED BY <3>1, <4>1, <4>3 DEF Taking
    <3>2. CASE pc["frw"] = "count" /\ pc["flush"] # "count"
      <4>1. ts = {"frw"}
        BY <3>2 DEF Takers, At
      <4> HIDE DEF ts
      <4>2. Cardinality({"frw"}) = 1
        BY FS_Singleton
      <4>3. QED BY <3>2, <4>1, <4>2 DEF Taking
    <3>3. CASE pc["frw"] # "count" /\ pc["flush"] = "count"
      <4>1. ts = {"flush"}
        BY <3>3 DEF Takers, At
      <4> HIDE DEF ts
      <4>2. Cardinality({"flush"}) = 1
        BY FS_Singleton
      <4>3. QED BY <3>3, <4>1, <4>2 DEF Taking
    <3>4. CASE pc["frw"] # "count" /\ pc["flush"] # "count"
      <4>1. ts = {}
        BY <3>4 DEF Takers, At
      <4> HIDE DEF ts
      <4>2. Cardinality({}) = 0
        BY FS_EmptySet
      <4>3. QED BY <3>4, <4>1, <4>2 DEF Taking
    <3>5. QED BY <3>1, <3>2, <3>3, <3>4
  <2>2. SumOver([q \in Queues |-> Len(queue[q])], Queues) = Total(Lens, Queues)
    BY SumOverIsTotal DEF Lens
  <2>3. Total(Lens, Queues) \in Nat /\ Taking("frw") \in Nat /\ Taking("flush") \in Nat
    BY LensType, TotalType DEF TInv, Taking
  <2> HIDE DEF ts
  <2>4. count = SumOver([q \in Queues |-> Len(queue[q])], Queues) + Cardinality(ts)
    BY <2>1, <2>2, <2>3 DEF CountIInv
  <2>5. QED BY <2>4 DEF CountIsExact, ts
<1>2. Init => ReachIInv /\ BoundIInv /\ CountIInv
  BY ReachInit, BoundInit, CountInit
<1>3. ReachIInv /\ BoundIInv /\ CountIInv /\ [Next]_vars => (ReachIInv /\ BoundIInv /\ CountIInv)'
  BY ReachStep, CountStep DEF ReachIInv
<1>4. ReachIInv => TInv
  BY DEF ReachIInv
<1>5. QED BY <1>1, <1>2, <1>3, <1>4, PTL DEF Spec

\* Every variable of the framework keeps its type: no queue is longer than its array, and neither a
\* queue's weight nor the total of a class, which are unsigned, is counted down below zero
\* (frw_event_sched_pick_next_event_queue_wrr).
THEOREM FrwTypeCorrect == Spec => []TypeOK
<1>1. TInv /\ BoundIInv /\ WeightIInv => TypeOK
  BY DEF TInv, Types, BoundIInv, WeightIInv, TypeOK
<1>2. Init => ReachIInv /\ BoundIInv /\ WeightIInv
  BY ReachInit, BoundInit, WeightInit
<1>3. ReachIInv /\ BoundIInv /\ WeightIInv /\ [Next]_vars => (ReachIInv /\ BoundIInv /\ WeightIInv)'
  BY ReachStep, CountStep, WeightStep DEF ReachIInv
<1>4. ReachIInv => TInv
  BY DEF ReachIInv
<1>5. QED BY <1>1, <1>2, <1>3, <1>4, PTL DEF Spec

----------------------------------------------------------------------------
(* Nobody waits in vain: the safety half of DrainsWhenQuiet.               *)

\* the condition of the task's wait holds as long as there is an event
NoSleepBeside == \A q \in Queues : queue[q] # <<>> => count > 0

\* what a look of the task at a class leaves: no queue to serve, or one that still has weight
Ready(c) == list[c] # <<>> => Eligible(c) # {}
RoundGoesOn == (ScheduleHi => Ready("HI")') /\ (ScheduleNormal => Ready("NORMAL")')

LEMMA CountsQueued ==
  ASSUME IsFiniteSet(Queues), TInv, CountIInv
  PROVE  NoSleepBeside
<1>1. PICK f : f = Lens
  OBVIOUS
<1>2. \A q \in Queues : f[q] \in Nat /\ (queue[q] # <<>> => f[q] > 0)
  BY <1>1, LensType, EmptySeq DEF TInv, Types
<1>3. \A q \in Queues : Total(f, Queues) \in Nat /\ Total(f, Queues) >= f[q]
  BY <1>2, TotalAtLeast
<1>4. Taking("frw") \in Nat /\ Taking("flush") \in Nat
  BY DEF Taking
<1>5. count = Total(f, Queues) + Taking("frw") + Taking("flush")
  BY <1>1 DEF CountIInv
<1>6. \A q \in Queues : f[q] > 0 => count > 0
  BY <1>2, <1>3, <1>4, <1>5
<1>7. QED BY <1>2, <1>6 DEF NoSleepBeside

\* The task never goes to sleep beside an accepted event: total_element_cnt, the condition of its
\* wait (frw_task_thread), is above zero as long as a queue has an event, although the task and a
\* flush dequeue an event at one moment and count it at another.
THEOREM NeverAsleepBesideEvents == IsFiniteSet(Queues) => (Spec => []NoSleepBeside)
<1> SUFFICES ASSUME IsFiniteSet(Queues) PROVE Spec => []NoSleepBeside
  OBVIOUS
<1>1. Init => ReachIInv /\ BoundIInv /\ CountIInv
  BY ReachInit, BoundInit, CountInit
<1>2. ReachIInv /\ BoundIInv /\ CountIInv /\ [Next]_vars => (ReachIInv /\ BoundIInv /\ CountIInv)'
  BY ReachStep, CountStep DEF ReachIInv
<1>3. ReachIInv /\ CountIInv => NoSleepBeside
  BY CountsQueued DEF ReachIInv
<1>4. QED BY <1>1, <1>2, <1>3, PTL DEF Spec

\* only no queues have no weight together
LEMMA NoWeight ==
  ASSUME NEW L \in SUBSET Queues, IsFiniteSet(L), NEW q \in L
  PROVE  Total(Weight, L) # 0
<1>1. \A r \in L : Weight[r] \in Nat
  OBVIOUS
<1>2. Weight[q] \in Nat /\ Weight[q] # 0
  OBVIOUS
<1>3. Total(Weight, L) \in Nat /\ Total(Weight, L) >= Weight[q]
  BY <1>1, TotalAtLeast
<1>4. QED BY <1>2, <1>3

\* a round that ends begins anew with weights: the total is zero only without a listed queue
LEMMA TotalAfterRound ==
  ASSUME Types, total \in [Classes -> Nat], NEW c \in Classes, NEW s, NewRound(c, s),
         s.list \in Seq(Queues), total'[c] = 0
  PROVE  s.list = <<>> /\ list'[c] = <<>>
<1> DEFINE L == ToSet(s.list)
<1>1. list'[c] = s.list
  BY DEF NewRound, Types
<1>2. total'[c] = IF s.total = 0 THEN Total(Weight, L) ELSE s.total
  BY SumOverIsTotal DEF NewRound
<1>3. Total(Weight, L) = 0
  BY <1>2
<1>4. IsFiniteSet(L) /\ L \subseteq Queues /\ \A q : q \in L <=> On(s.list, q)
  BY Elements
<1> HIDE DEF L
<1>5. ASSUME NEW q \in L PROVE FALSE
  BY <1>3, <1>4, NoWeight
<1> PICK n \in Nat : n = Len(s.list) /\ DOMAIN s.list = 1..n
  BY LenProperties
<1>6. \A i \in 1..n : FALSE
  BY <1>4, <1>5 DEF On
<1>7. n = 0
  <2>1. n > 0 => 1 \in 1..n
    OBVIOUS
  <2>2. QED BY <1>6, <2>1
<1>8. QED BY <1>1, <1>7, EmptySeq

LEMMA PickTotal ==
  ASSUME Types, Lists, total \in [Classes -> Nat], NEW c \in Classes, NEW next,
         PickEvent(c) \/ PickDrained(c, next) \/ PickNothing(c, next), total'[c] = 0
  PROVE  list'[c] = <<>>
<1>1. list[c] \in Seq(Queues) /\ Distinct(list[c])
  BY DEF Types, Lists
<1>2. CASE PickNothing(c, next)
  <2>1. PICK s : s = [weight |-> weightCnt, total |-> total[c], list |-> list[c]]
    OBVIOUS
  <2>2. NewRound(c, s) /\ s.list = list[c]
    BY <1>2, <2>1 DEF PickNothing
  <2>3. QED BY <1>1, <2>2, TotalAfterRound
<1>3. CASE PickEvent(c) \/ PickDrained(c, next)
  <2>1. PICK q : q = Chosen(c)
    OBVIOUS
  <2>2. Serve(c, q)
    BY <1>3, <2>1 DEF PickEvent, PickDrained
  <2>3. PICK w : w = [weightCnt EXCEPT ![q] = @ - 1]
    OBVIOUS
  <2>4. PICK off : off = Deactivated(w, total[c] - 1, list[c], q)
    OBVIOUS
  <2>5. PICK on : on = [weight |-> w, total |-> total[c] - 1, list |-> list[c]]
    OBVIOUS
  <2>6. NewRound(c, off) \/ NewRound(c, on)
    BY <2>2, <2>3, <2>4, <2>5 DEF Serve
  <2>7. off.list \in Seq(Queues) /\ on.list \in Seq(Queues)
    BY <1>1, <2>4, <2>5, WithoutDistinct DEF Deactivated
  <2>8. QED BY <2>6, <2>7, TotalAfterRound
<1>4. QED BY <1>2, <1>3

LEMMA WeightIsEligible ==
  ASSUME Types, Lists, WeightIInv, NEW c \in Classes, total[c] # 0
  PROVE  Eligible(c) # {}
<1>1. ToSet(list[c]) = Listed(c) /\ IsFiniteSet(Listed(c)) /\ list[c] \in Seq(Queues)
  BY ListedIsList
<1>2. total[c] = Total(weightCnt, Listed(c))
  BY DEF WeightIInv
<1>3. PICK q \in Listed(c) : weightCnt[q] # 0
  BY <1>1, <1>2, TotalZero
<1>4. q \in Queues /\ On(list[c], q)
  BY <1>1, <1>3, Elements DEF Listed
<1>5. weightCnt[q] > 0
  BY <1>3, <1>4 DEF WeightIInv
<1>6. QED BY <1>4, <1>5 DEF On, Eligible

LEMMA PickReady ==
  ASSUME ReachIInv, WeightIInv, Types', Lists', WeightIInv', NEW c \in Classes, NEW next,
         PickEvent(c) \/ PickDrained(c, next) \/ PickNothing(c, next)
  PROVE  Ready(c)'
<1>1. Types /\ Lists /\ total \in [Classes -> Nat]
  BY DEF ReachIInv, TInv, WeightIInv
<1>2. CASE total'[c] = 0
  <2>1. list'[c] = <<>>
    BY <1>1, <1>2, PickTotal
  <2>2. QED BY <2>1 DEF Ready
<1>3. CASE total'[c] # 0
  <2>1. (Types /\ Lists /\ WeightIInv /\ total[c] # 0 => Eligible(c) # {})'
    BY WeightIsEligible, PTL
  <2>2. QED BY <1>3, <2>1 DEF Ready
<1>4. QED BY <1>2, <1>3

\* A round never gets stuck: a look of the task at a class (frw_event_sched_pick_next_event_queue_wrr)
\* leaves a queue with weight on the list, or the list empty, so that the next look serves a queue.
THEOREM RoundAlwaysGoesOn == Spec => [][RoundGoesOn]_vars
<1>1. ReachIInv /\ WeightIInv /\ [Next]_vars => (ReachIInv /\ WeightIInv)'
  BY ReachStep, WeightStep
<1>2. ReachIInv /\ WeightIInv /\ [Next]_vars => [RoundGoesOn]_vars
  <2> SUFFICES ASSUME ReachIInv, WeightIInv, [Next]_vars PROVE RoundGoesOn
    OBVIOUS
  <2>1. Types' /\ Lists' /\ WeightIInv'
    BY <1>1 DEF ReachIInv, TInv
  <2>2. ASSUME ScheduleHi PROVE Ready("HI")'
    BY <2>1, <2>2, PickReady DEF ScheduleHi, Classes
  <2>3. ASSUME ScheduleNormal PROVE Ready("NORMAL")'
    BY <2>1, <2>3, PickReady DEF ScheduleNormal, Classes
  <2>4. QED BY <2>2, <2>3 DEF RoundGoesOn
<1>3. QED BY <1>1, <1>2, ReachInit, WeightInit, PTL DEF Spec

----------------------------------------------------------------------------
(* The software timers                                                     *)

USE TimerAssumption

Cutting == { doing[p].timer : p \in {q \in Tasks : doing[q].step = "cut"} }

\* The timers on the list, without the one that is being unlinked.
OnList == { t \in Timers : succ[t] # Null } \ Cutting
Nodes == OnList \cup {Head1}

\* The list is in the order of the ids, so who follows whom is a matter of the ids.
Before(e, f) == e = Head1 \/ f = Head1 \/ id[e] < id[f]
Between(u, e, f) == Before(e, u) /\ Before(u, f)
Follows(e, f) ==
  /\ e \in Nodes /\ f \in Nodes /\ Before(e, f)
  /\ \A u \in OnList : ~Between(u, e, f)

TimerTypes ==
  /\ TimerTypeOK
  /\ walk.step \in {"move", "call"} => walk.at \in Timers
  /\ \A p \in Tasks : doing[p].step # "free" => doing[p].timer \in Timers

Chain == \A e \in Nodes : Follows(e, succ[e]) /\ Follows(pred[e], e)

IdsRise ==
  /\ \A t \in OnList : id[t] < lastId
  /\ \A t, u \in OnList : id[t] = id[u] => t = u
  /\ \A t \in pending \cup firing : id[t] < lastId
  /\ \A i \in 1..Len(queued) : queued[i] < lastId
  /\ walk.step # "none" => walk.id < lastId

Membership ==
  /\ \A t \in Timers : registered[t] => t \in OnList
  /\ \A t \in OnList \ Leaving : registered[t]
  /\ \A t \in Leaving : ~registered[t]
  /\ \A t \in Shared \cap Timers : registered[t] => isEnabled[t]
  /\ \A p, q \in Tasks : doing[p].step = "cut" /\ doing[q].step = "cut" => p = q

\* A walk that nobody disturbed has passed no timer with its id.
Passed ==
  calm =>
    /\ walk.step \in {"look", "move"} => Leaving = {}
    /\ walk.step = "look" => walk.at \in Nodes /\ \A t \in OnList : Before(t, walk.at) => ~Found(t)
    /\ walk.step = "move" => walk.at \in OnList /\ \A t \in OnList : id[t] <= id[walk.at] => ~Found(t)

Searchable == Chain /\ IdsRise /\ Membership /\ Passed
TimerIInv == TimerTypes /\ Searchable

----------------------------------------------------------------------------
(* The types of the timers                                                 *)

LEMMA TimerTypeInit == TimerInit => TimerTypes
BY DEF TimerInit, TimerTypes, TimerTypeOK, Entries, Tasks, Idle, NoWalk, Head1, Null

LEMMA GoesType ==
  ASSUME TimerTypes, NEW p \in Tasks, NEW step \in {"free", "give", "unlink", "cut"},
         NEW t \in Timers \cup {Null}, step # "free" => t \in Timers, Goes(p, step, t)
  PROVE  /\ doing' \in [Tasks -> [step : {"free", "give", "unlink", "cut"}, timer : Timers \cup {Null}]]
         /\ \A q \in Tasks : doing'[q].step # "free" => doing'[q].timer \in Timers
         /\ doing'[p] = [step |-> step, timer |-> t]
         /\ \A q \in Tasks : q # p => doing'[q] = doing[q]
<1>1. [step |-> step, timer |-> t] \in [step : {"free", "give", "unlink", "cut"}, timer : Timers \cup {Null}]
  OBVIOUS
<1>2. /\ doing \in [Tasks -> [step : {"free", "give", "unlink", "cut"}, timer : Timers \cup {Null}]]
      /\ \A q \in Tasks : doing[q].step # "free" => doing[q].timer \in Timers
  BY DEF TimerTypes, TimerTypeOK
<1>3. doing' = [doing EXCEPT ![p] = [step |-> step, timer |-> t]]
  BY DEF Goes
<1>4. /\ doing'[p] = [step |-> step, timer |-> t]
      /\ \A q \in Tasks : q # p => doing'[q] = doing[q]
  BY <1>2, <1>3
<1>5. doing' \in [Tasks -> [step : {"free", "give", "unlink", "cut"}, timer : Timers \cup {Null}]]
  BY <1>1, <1>2, <1>3
<1>6. QED BY <1>2, <1>4, <1>5

LEMMA TimerTypeStep == TimerTypes /\ [TimerNext]_timers => TimerTypes'
<1> SUFFICES ASSUME TimerTypes, [TimerNext]_timers PROVE TimerTypes'
  OBVIOUS
<1> USE DEF TimerTypes, TimerTypeOK
<1>1. ASSUME NEW p \in Tasks, NEW t \in Timers, Create(p, t) PROVE TimerTypes'
  <2>1. /\ succ' \in [Entries -> Entries \cup {Null}]
        /\ pred' \in [Entries -> Entries \cup {Null}]
    <3>1. CASE UNCHANGED lists
      BY <3>1 DEF lists
    <3>2. CASE Linked(t)
      BY <3>2 DEF Linked, Entries
    <3>3. QED BY <1>1, <3>1, <3>2 DEF Create
  <2>2. /\ id' \in [Timers -> 0..MaxIds] /\ lastId' \in 0..MaxIds
    <3>1. CASE lastId < MaxIds /\ id' = [id EXCEPT ![t] = lastId] /\ lastId' = lastId + 1
      BY <3>1
    <3>2. CASE UNCHANGED <<id, lastId>>
      BY <3>2
    <3>3. QED BY <1>1, <3>1, <3>2 DEF Create
  <2>3. /\ registered' \in [Timers -> BOOLEAN] /\ isEnabled' \in [Timers -> BOOLEAN]
    BY <1>1 DEF Create
  <2>4. QED BY <1>1, <2>1, <2>2, <2>3 DEF Create
<1>2. ASSUME NEW p \in Tasks, NEW t \in Timers, DestroyTest(p, t) PROVE TimerTypes'
  <2>1. Goes(p, "give", t)
    BY <1>2 DEF DestroyTest
  <2>2. QED BY <1>2, <2>1, GoesType DEF DestroyTest, lists, flags, kernel
<1>3. ASSUME NEW p \in Tasks, NEW t \in Timers, DestroyGive(p, t) PROVE TimerTypes'
  <2>1. Goes(p, "unlink", t)
    BY <1>3 DEF DestroyGive
  <2>2. QED BY <1>3, <2>1, GoesType DEF DestroyGive, lists
<1>4. ASSUME NEW p \in Tasks, NEW t \in Timers, DestroyUnlink(p, t) PROVE TimerTypes'
  <2>1. Goes(p, "cut", t) \/ Goes(p, "free", Null)
    BY <1>4 DEF DestroyUnlink
  <2>2. /\ doing' \in [Tasks -> [step : {"free", "give", "unlink", "cut"}, timer : Timers \cup {Null}]]
        /\ \A q \in Tasks : doing'[q].step # "free" => doing'[q].timer \in Timers
    BY <2>1, GoesType
  <2>3. /\ succ' \in [Entries -> Entries \cup {Null}]
        /\ pred' \in [Entries -> Entries \cup {Null}]
    BY <1>4 DEF DestroyUnlink, Around, lists, Entries
  <2>4. QED BY <1>4, <2>2, <2>3 DEF DestroyUnlink, flags, kernel
<1>5. ASSUME NEW p \in Tasks, NEW t \in Timers, DestroyCut(p, t) PROVE TimerTypes'
  <2>1. Goes(p, "free", Null)
    BY <1>5 DEF DestroyCut
  <2>2. /\ doing' \in [Tasks -> [step : {"free", "give", "unlink", "cut"}, timer : Timers \cup {Null}]]
        /\ \A q \in Tasks : doing'[q].step # "free" => doing'[q].timer \in Timers
    BY <2>1, GoesType
  <2>3. QED BY <1>5, <2>2 DEF DestroyCut, flags, kernel
<1>6. ASSUME NEW t \in Timers, Expire(t) PROVE TimerTypes'
  BY <1>6 DEF Expire, lists, flags
<1>7. ASSUME NEW t \in Timers, Post(t) PROVE TimerTypes'
  <2>1. Append(queued, id[t]) \in Seq(0..MaxIds)
    BY <1>7, AppendProperties
  <2>2. QED BY <1>7, <2>1 DEF Post, lists, flags
<1>8. ASSUME NEW t \in Timers, NEW on \in BOOLEAN, Enable(t, on) PROVE TimerTypes'
  BY <1>8 DEF Enable, lists
<1>9. ASSUME WalkBegin PROVE TimerTypes'
  <2>1. Head(queued) \in 0..MaxIds /\ Tail(queued) \in Seq(0..MaxIds)
    BY <1>9, HeadTailProperties DEF WalkBegin
  <2>2. calm' \in BOOLEAN
    BY <1>9 DEF WalkBegin
  <2>3. QED BY <1>9, <2>1, <2>2 DEF WalkBegin, lists, flags, Entries
<1>10. ASSUME WalkLook PROVE TimerTypes'
  <2>1. CASE walk' = NoWalk
    BY <1>10, <2>1 DEF WalkLook, NoWalk, lists, flags, kernel
  <2>2. CASE \E t \in Timers : walk.at = t /\ Walking(IF Found(t) THEN "call" ELSE "move", t)
    <3>1. PICK t \in Timers : Walking("call", t) \/ Walking("move", t)
      BY <2>2
    <3>2. /\ walk'.step \in {"call", "move"} /\ walk'.at = t
          /\ walk' \in [step : {"none", "look", "move", "call"}, at : Entries \cup {Null}, id : 0..MaxIds]
      BY <3>1 DEF Walking, Entries
    <3>3. QED BY <1>10, <3>2 DEF WalkLook, lists, flags, kernel
  <2>3. QED BY <1>10, <2>1, <2>2 DEF WalkLook
<1>11. ASSUME WalkMove PROVE TimerTypes'
  BY <1>11 DEF WalkMove, Walking, lists, flags, kernel, Entries
<1>12. ASSUME WalkCall PROVE TimerTypes'
  BY <1>12 DEF WalkCall, NoWalk, lists, flags, kernel
<1>13. ASSUME UNCHANGED timers PROVE TimerTypes'
  BY <1>13 DEF timers, lists, flags, kernel
<1>14. QED
  BY <1>1, <1>2, <1>3, <1>4, <1>5, <1>6, <1>7, <1>8, <1>9, <1>10, <1>11, <1>12, <1>13
     DEF TimerNext, Destroy, Walk

----------------------------------------------------------------------------
(* Who is taking a timer off                                               *)

LEMMA Members ==
  /\ \A x : x \in Leaving <=> \E q \in Tasks : doing[q].step \in {"unlink", "cut"} /\ doing[q].timer = x
  /\ \A x : x \in Cutting <=> \E q \in Tasks : doing[q].step = "cut" /\ doing[q].timer = x
  /\ \A x : x \in Leaving' <=> \E q \in Tasks : doing'[q].step \in {"unlink", "cut"} /\ doing'[q].timer = x
  /\ \A x : x \in Cutting' <=> \E q \in Tasks : doing'[q].step = "cut" /\ doing'[q].timer = x
BY DEF Leaving, Cutting

LEMMA TestMoves ==
  ASSUME TimerTypes, NEW p \in Tasks, NEW t \in Timers, DestroyTest(p, t)
  PROVE  /\ Leaving' = Leaving /\ Cutting' = Cutting
         /\ \A q \in Tasks : doing'[q].step = "cut" => doing[q].step = "cut"
<1>1. doing[p].step = "free" /\ Goes(p, "give", t)
  BY DEF DestroyTest, Uses, Idle
<1>2. /\ doing'[p] = [step |-> "give", timer |-> t]
      /\ \A q \in Tasks : q # p => doing'[q] = doing[q]
  BY <1>1, GoesType
<1>3. \A x : x \in Cutting' <=> x \in Cutting
  BY <1>1, <1>2, Members
<1>4. \A x : x \in Leaving' <=> x \in Leaving
  BY <1>1, <1>2, Members
<1>5. \A q \in Tasks : doing'[q].step = "cut" => doing[q].step = "cut"
  BY <1>2
<1>6. QED BY <1>3, <1>4, <1>5

LEMMA GiveMoves ==
  ASSUME TimerTypes, NEW p \in Tasks, NEW t \in Timers, DestroyGive(p, t)
  PROVE  /\ Leaving' = Leaving \cup {t} /\ Cutting' = Cutting
         /\ \A q \in Tasks : doing'[q].step = "cut" => doing[q].step = "cut"
<1>1. doing[p].step = "give" /\ Goes(p, "unlink", t)
  BY DEF DestroyGive, Doing
<1>2. /\ doing'[p] = [step |-> "unlink", timer |-> t]
      /\ \A q \in Tasks : q # p => doing'[q] = doing[q]
  BY <1>1, GoesType
<1>3. \A x : x \in Cutting' <=> x \in Cutting
  BY <1>1, <1>2, Members
<1>4. \A x : x \in Leaving' <=> x \in Leaving \/ x = t
  BY <1>1, <1>2, Members
<1>5. \A q \in Tasks : doing'[q].step = "cut" => doing[q].step = "cut"
  BY <1>2
<1>6. QED BY <1>3, <1>4, <1>5

LEMMA UnlinkMoves ==
  ASSUME TimerTypes, NEW p \in Tasks, NEW t \in Timers, DestroyUnlink(p, t)
  PROVE  /\ t \in Leaving /\ Cutting = {}
         /\ Goes(p, "cut", t) =>
              /\ Leaving' = Leaving /\ Cutting' = {t}
              /\ \A q \in Tasks : doing'[q].step = "cut" => q = p
         /\ Goes(p, "free", Null) =>
              /\ Leaving' \subseteq Leaving /\ Leaving \subseteq Leaving' \cup {t} /\ Cutting' = {}
              /\ \A q \in Tasks : doing'[q].step # "cut"
<1>1. doing[p].step = "unlink" /\ doing[p].timer = t /\ \A q \in Tasks : doing[q].step # "cut"
  BY DEF DestroyUnlink, Doing, ListFree
<1>2. t \in Leaving /\ Cutting = {}
  BY <1>1, Members
<1>3. ASSUME Goes(p, "cut", t)
      PROVE  /\ Leaving' = Leaving /\ Cutting' = {t}
             /\ \A q \in Tasks : doing'[q].step = "cut" => q = p
  <2>1. /\ doing'[p] = [step |-> "cut", timer |-> t]
        /\ \A q \in Tasks : q # p => doing'[q] = doing[q]
    BY <1>3, GoesType
  <2>2. \A q \in Tasks : doing'[q].step = "cut" <=> q = p
    BY <1>1, <2>1
  <2>3. doing'[p].timer = t
    BY <2>1
  <2>4. \A x : x \in Cutting' <=> x = t
    BY <2>2, <2>3, Members
  <2>5. \A x : x \in Leaving' <=> x \in Leaving
    BY <1>1, <2>1, Members
  <2>6. QED BY <2>2, <2>4, <2>5
<1>4. ASSUME Goes(p, "free", Null)
      PROVE  /\ Leaving' \subseteq Leaving /\ Leaving \subseteq Leaving' \cup {t} /\ Cutting' = {}
             /\ \A q \in Tasks : doing'[q].step # "cut"
  <2>1. /\ doing'[p] = [step |-> "free", timer |-> Null]
        /\ \A q \in Tasks : q # p => doing'[q] = doing[q]
    BY <1>4, GoesType
  <2>2. \A q \in Tasks : doing'[q].step # "cut"
    BY <1>1, <2>1
  <2>3. Cutting' = {}
    BY <2>2, Members
  <2>4. \A x : x \in Leaving' => x \in Leaving
    BY <2>1, Members
  <2>5. \A x : x \in Leaving => x \in Leaving' \/ x = t
    BY <1>1, <2>1, Members
  <2>6. QED BY <2>2, <2>3, <2>4, <2>5
<1>5. QED BY <1>2, <1>3, <1>4

LEMMA CutMoves ==
  ASSUME TimerTypes, Membership, NEW p \in Tasks, NEW t \in Timers, DestroyCut(p, t)
  PROVE  /\ t \in Leaving /\ Cutting = {t} /\ Cutting' = {}
         /\ Leaving' \subseteq Leaving /\ Leaving \subseteq Leaving' \cup {t}
         /\ \A q \in Tasks : doing'[q].step # "cut"
<1>1. doing[p].step = "cut" /\ doing[p].timer = t /\ Goes(p, "free", Null)
  BY DEF DestroyCut, Doing
<1>2. \A q \in Tasks : doing[q].step = "cut" <=> q = p
  BY <1>1 DEF Membership
<1>3. /\ doing'[p] = [step |-> "free", timer |-> Null]
      /\ \A q \in Tasks : q # p => doing'[q] = doing[q]
  BY <1>1, GoesType
<1>4. \A q \in Tasks : doing'[q].step # "cut"
  BY <1>2, <1>3
<1>5. Cutting' = {} /\ t \in Leaving
  BY <1>1, <1>4, Members
<1>6. \A x : x \in Cutting <=> x = t
  BY <1>1, <1>2, Members
<1>7. \A x : x \in Leaving' => x \in Leaving
  BY <1>3, Members
<1>8. \A x : x \in Leaving => x \in Leaving' \/ x = t
  BY <1>1, <1>3, Members
<1>9. QED BY <1>4, <1>5, <1>6, <1>7, <1>8

----------------------------------------------------------------------------
(* The list: who follows whom is determined by the ids                     *)

LEMMA SameChain ==
  ASSUME Chain, OnList' = OnList, UNCHANGED id,
         \A e \in Nodes : succ'[e] = succ[e] /\ pred'[e] = pred[e]
  PROVE  Nodes' = Nodes /\ Chain'
BY DEF Chain, Follows, Between, Before, Nodes

LEMMA FollowsOnce ==
  ASSUME TimerTypes, IdsRise, NEW e, NEW f, NEW g
  PROVE  /\ Follows(e, g) /\ Follows(f, g) => e = f
         /\ Follows(g, e) /\ Follows(g, f) => e = f
<1>1. \A t \in OnList : id[t] \in Nat /\ t # Head1
  BY DEF OnList, TimerTypes, TimerTypeOK
<1>2. \A t, u \in OnList : t # u => id[t] < id[u] \/ id[u] < id[t]
  BY <1>1 DEF IdsRise
<1>3. ASSUME Follows(e, g), Follows(f, g), e # f PROVE FALSE
  <2>1. CASE e = Head1
    BY <1>3, <2>1 DEF Follows, Between, Before, Nodes
  <2>2. CASE f = Head1
    BY <1>3, <2>2 DEF Follows, Between, Before, Nodes
  <2>3. CASE e \in OnList /\ f \in OnList
    BY <1>1, <1>2, <1>3, <2>3 DEF Follows, Between, Before
  <2>4. QED BY <1>3, <2>1, <2>2, <2>3 DEF Follows, Nodes
<1>4. ASSUME Follows(g, e), Follows(g, f), e # f PROVE FALSE
  <2>1. CASE e = Head1
    BY <1>4, <2>1 DEF Follows, Between, Before, Nodes
  <2>2. CASE f = Head1
    BY <1>4, <2>2 DEF Follows, Between, Before, Nodes
  <2>3. CASE e \in OnList /\ f \in OnList
    BY <1>1, <1>2, <1>4, <2>3 DEF Follows, Between, Before
  <2>4. QED BY <1>4, <2>1, <2>2, <2>3 DEF Follows, Nodes
<1>5. QED BY <1>3, <1>4

LEMMA Unlinking ==
  ASSUME TimerTypes, Chain, IdsRise, NEW t \in OnList, Around(t), OnList' = OnList \ {t}, UNCHANGED id
  PROVE  Chain'
<1>0. PICK a, b : a = pred[t] /\ b = succ[t]
  OBVIOUS
<1>1. t \in Nodes /\ Follows(a, t) /\ Follows(t, b)
  BY <1>0 DEF Chain, Nodes
<1>2. \A u \in OnList : u \in Timers /\ u # Head1 /\ id[u] \in Nat
  BY DEF OnList, TimerTypes, TimerTypeOK
<1>3. \A u \in OnList : u # t => id[u] < id[t] \/ id[t] < id[u]
  BY <1>2 DEF IdsRise
<1>4. a \in Nodes /\ b \in Nodes /\ a # t /\ b # t
  BY <1>1, <1>2 DEF Follows, Before
<1>5. /\ Nodes' = Nodes \ {t}
      /\ Nodes \subseteq Entries
  BY <1>2 DEF Nodes, Entries
<1>6. /\ succ \in [Entries -> Entries \cup {Null}] /\ pred \in [Entries -> Entries \cup {Null}]
      /\ succ' = [succ EXCEPT ![a] = b] /\ pred' = [pred EXCEPT ![b] = a]
  BY <1>0 DEF Around, TimerTypes, TimerTypeOK
<1>7. \A e, f : e \in Nodes' /\ f \in Nodes' /\ Follows(e, f) => Follows(e, f)'
  BY <1>5 DEF Follows, Between, Before
<1>8. Follows(a, b)'
  <2>1. a \in Nodes' /\ b \in Nodes' /\ Before(a, b)'
    BY <1>1, <1>2, <1>4, <1>5 DEF Follows, Before, Nodes
  <2>2. ASSUME NEW u \in OnList', Between(u, a, b)' PROVE FALSE
    <3>1. u \in OnList /\ u # t /\ Before(a, u) /\ Before(u, b)
      BY <2>2 DEF Between, Before
    <3>2. Before(u, t) \/ Before(t, u)
      BY <1>3, <3>1 DEF Before
    <3>3. QED BY <1>1, <3>1, <3>2 DEF Follows, Between
  <2>3. QED BY <2>1, <2>2 DEF Follows
<1>9. ASSUME NEW e \in Nodes' PROVE Follows(e, succ[e])' /\ Follows(pred[e], e)'
  <2>1. e \in Nodes /\ e # t /\ e \in Entries /\ Follows(e, succ[e]) /\ Follows(pred[e], e)
    BY <1>5 DEF Chain
  <2>2. Follows(e, succ[e])'
    <3>1. CASE e = a
      <4>1. succ'[e] = b
        BY <1>6, <2>1, <3>1
      <4>2. QED BY <1>8, <3>1, <4>1
    <3>2. CASE e # a
      <4>1. succ'[e] = succ[e]
        BY <1>6, <2>1, <3>2
      <4>2. succ[e] # t
        BY <1>1, <2>1, <3>2, FollowsOnce
      <4>3. succ[e] \in Nodes'
        BY <1>5, <2>1, <4>2 DEF Follows
      <4>4. QED BY <1>7, <2>1, <4>1, <4>3 DEF Follows
    <3>3. QED BY <3>1, <3>2
  <2>3. Follows(pred[e], e)'
    <3>1. CASE e = b
      <4>1. pred'[e] = a
        BY <1>6, <2>1, <3>1
      <4>2. QED BY <1>8, <3>1, <4>1
    <3>2. CASE e # b
      <4>1. pred'[e] = pred[e]
        BY <1>6, <2>1, <3>2
      <4>2. pred[e] # t
        BY <1>1, <2>1, <3>2, FollowsOnce
      <4>3. pred[e] \in Nodes'
        BY <1>5, <2>1, <4>2 DEF Follows
      <4>4. QED BY <1>7, <2>1, <4>1, <4>3
    <3>3. QED BY <3>1, <3>2
  <2>4. QED BY <2>2, <2>3
<1>10. QED BY <1>9 DEF Chain

LEMMA Linking ==
  ASSUME TimerTypes, Chain, IdsRise, NEW t \in Timers \ OnList, Linked(t),
         OnList' = OnList \cup {t}, id' = [id EXCEPT ![t] = lastId]
  PROVE  Chain'
<1>0. PICK a : a = pred[Head1]
  OBVIOUS
<1>1. Follows(a, Head1)
  BY <1>0 DEF Chain, Nodes
<1>2. \A u \in OnList : u \in Timers /\ u # Head1 /\ u # t /\ id[u] \in Nat /\ id'[u] = id[u] /\ id[u] < lastId
  BY DEF OnList, IdsRise, TimerTypes, TimerTypeOK
<1>3. /\ t # Head1 /\ id'[t] = lastId /\ lastId \in Nat
      /\ a \in Nodes /\ a # t
  BY <1>1, <1>2 DEF TimerTypes, TimerTypeOK, Follows, Nodes
<1>4. /\ Nodes' = Nodes \cup {t} /\ t \notin Nodes
      /\ Nodes' \subseteq Entries
  BY <1>2, <1>3 DEF Nodes, Entries
<1>5. /\ succ \in [Entries -> Entries \cup {Null}] /\ pred \in [Entries -> Entries \cup {Null}]
      /\ succ' = [succ EXCEPT ![t] = Head1, ![a] = t]
      /\ pred' = [pred EXCEPT ![t] = a, ![Head1] = t]
  BY <1>0 DEF Linked, TimerTypes, TimerTypeOK
<1>6. \A e, f \in Nodes : Before(e, f)' <=> Before(e, f)
  BY <1>2 DEF Before, Nodes
<1>7. \A f \in OnList : ~Before(t, f)' /\ Before(f, t)'
  BY <1>2, <1>3 DEF Before
<1>8. ASSUME NEW e \in Nodes, NEW f \in OnList, Follows(e, f) PROVE Follows(e, f)'
  <2>1. e \in Nodes' /\ f \in Nodes' /\ f \in Nodes /\ Before(e, f)'
    BY <1>4, <1>6, <1>8 DEF Follows, Nodes
  <2>2. ASSUME NEW u \in OnList', Before(e, u)', Before(u, f)' PROVE FALSE
    <3>1. u \in OnList
      BY <1>7, <2>2
    <3>2. u \in Nodes
      BY <3>1 DEF Nodes
    <3>3. Between(u, e, f)
      BY <1>6, <2>1, <2>2, <3>2 DEF Between
    <3>4. QED BY <1>8, <3>1, <3>3 DEF Follows
  <2>3. QED BY <2>1, <2>2 DEF Follows, Between
<1>9. Follows(a, t)'
  <2>1. a \in Nodes' /\ t \in Nodes' /\ Before(a, t)'
    BY <1>3, <1>4, <1>7 DEF Nodes, Before
  <2>2. ASSUME NEW u \in OnList', Before(a, u)', Before(u, t)' PROVE FALSE
    <3>1. u # t
      BY <1>3, <2>2 DEF Before
    <3>2. u \in OnList /\ u \in Nodes
      BY <3>1 DEF Nodes
    <3>3. Between(u, a, Head1)
      BY <1>3, <1>6, <2>2, <3>2 DEF Between, Before
    <3>4. QED BY <1>1, <3>2, <3>3 DEF Follows
  <2>3. QED BY <2>1, <2>2 DEF Follows, Between
<1>10. Follows(t, Head1)'
  <2>1. t \in Nodes' /\ Head1 \in Nodes' /\ Before(t, Head1)'
    BY <1>4 DEF Nodes, Before
  <2>2. ASSUME NEW u \in OnList', Before(t, u)' PROVE FALSE
    <3>1. u = t \/ u \in OnList
      OBVIOUS
    <3>2. u # t
      BY <1>3, <2>2 DEF Before
    <3>3. QED BY <1>7, <2>2, <3>1, <3>2
  <2>3. QED BY <2>1, <2>2 DEF Follows, Between
<1>11. ASSUME NEW e \in Nodes' PROVE Follows(e, succ[e])'
  <2>1. CASE e = t
    <3>1. succ'[e] = Head1
      BY <1>3, <1>4, <1>5, <2>1
    <3>2. QED BY <1>10, <2>1, <3>1
  <2>2. CASE e = a
    <3>1. succ'[e] = t
      BY <1>3, <1>4, <1>5, <2>2
    <3>2. QED BY <1>9, <2>2, <3>1
  <2>3. CASE e # t /\ e # a
    <3>1. e \in Nodes /\ e \in Entries
      BY <1>4, <2>3
    <3>2. succ'[e] = succ[e] /\ Follows(e, succ[e])
      BY <1>5, <2>3, <3>1 DEF Chain
    <3>3. succ[e] # Head1
      BY <1>1, <2>3, <3>2, FollowsOnce
    <3>4. succ[e] \in OnList
      BY <3>2, <3>3 DEF Follows, Nodes
    <3>5. QED BY <1>8, <3>1, <3>2, <3>4
  <2>4. QED BY <2>1, <2>2, <2>3
<1>12. ASSUME NEW e \in Nodes' PROVE Follows(pred[e], e)'
  <2>1. CASE e = t
    <3>1. pred'[e] = a
      BY <1>3, <1>4, <1>5, <2>1
    <3>2. QED BY <1>9, <2>1, <3>1
  <2>2. CASE e = Head1
    <3>1. pred'[e] = t
      BY <1>3, <1>4, <1>5, <2>2
    <3>2. QED BY <1>10, <2>2, <3>1
  <2>3. CASE e # t /\ e # Head1
    <3>1. e \in Nodes /\ e \in Entries /\ e \in OnList
      BY <1>4, <2>3 DEF Nodes
    <3>2. pred'[e] = pred[e] /\ Follows(pred[e], e)
      BY <1>5, <2>3, <3>1 DEF Chain
    <3>3. pred[e] \in Nodes
      BY <3>2 DEF Follows
    <3>4. QED BY <1>8, <3>1, <3>2, <3>3
  <2>4. QED BY <2>1, <2>2, <2>3
<1>13. QED BY <1>11, <1>12 DEF Chain

----------------------------------------------------------------------------
(* Every step keeps the list and what the walk knows                       *)

LEMMA SameList ==
  ASSUME UNCHANGED <<succ, doing>>
  PROVE  OnList' = OnList /\ Nodes' = Nodes /\ Leaving' = Leaving
BY DEF OnList, Nodes, Cutting, Leaving

LEMMA OnListType ==
  ASSUME TimerTypes
  PROVE  /\ \A t \in OnList : t \in Timers /\ t # Head1 /\ t # Null /\ id[t] \in Nat
         /\ \A t \in Timers : id[t] \in Nat
         /\ lastId \in Nat /\ walk.id \in Nat
         /\ OnList \subseteq Nodes
BY DEF OnList, Nodes, TimerTypes, TimerTypeOK

LEMMA TestKeeps ==
  ASSUME TimerIInv, NEW p \in Tasks, NEW t \in Timers, DestroyTest(p, t)
  PROVE  Searchable'
<1>1. UNCHANGED <<lists, flags, kernel, walk, calm>> /\ Leaving' = Leaving /\ Cutting' = Cutting
  BY TestMoves DEF DestroyTest, TimerIInv, Searchable
<1>2. OnList' = OnList
  BY <1>1 DEF OnList, lists
<1>3. Nodes' = Nodes /\ Chain'
  BY <1>1, <1>2, SameChain DEF TimerIInv, Searchable, lists, flags
<1>4. IdsRise'
  BY <1>1, <1>2 DEF TimerIInv, Searchable, IdsRise, lists, flags, kernel
<1>5. \A q \in Tasks : doing'[q].step = "cut" => doing[q].step = "cut"
  BY TestMoves DEF TimerIInv
<1>6. Membership'
  BY <1>1, <1>2, <1>5 DEF TimerIInv, Searchable, Membership, flags
<1>7. Passed'
  BY <1>1, <1>2, <1>3 DEF TimerIInv, Searchable, Passed, Found, Before, flags
<1>8. QED BY <1>3, <1>4, <1>6, <1>7 DEF Searchable

LEMMA GiveKeeps ==
  ASSUME TimerIInv, NEW p \in Tasks, NEW t \in Timers, DestroyGive(p, t)
  PROVE  Searchable'
<1>1. /\ UNCHANGED <<lists, id, lastId, firing, queued, walk>> /\ pending' \subseteq pending /\ ~calm'
      /\ Leaving' = Leaving \cup {t} /\ Cutting' = Cutting
  BY GiveMoves DEF DestroyGive, TimerIInv, Searchable
<1>2. OnList' = OnList
  BY <1>1 DEF OnList, lists
<1>3. Chain'
  BY <1>1, <1>2, SameChain DEF TimerIInv, Searchable, lists
<1>4. IdsRise'
  BY <1>1, <1>2 DEF TimerIInv, Searchable, IdsRise
<1>5. \A q \in Tasks : doing'[q].step = "cut" => doing[q].step = "cut"
  BY GiveMoves DEF TimerIInv
<1>6. /\ ~registered'[t] /\ ~isEnabled'[t]
      /\ \A u \in Timers : u # t => (registered'[u] <=> registered[u]) /\ (isEnabled'[u] <=> isEnabled[u])
  BY DEF DestroyGive, TimerIInv, TimerTypes, TimerTypeOK
<1>7. Leaving \subseteq Timers
  BY Members DEF TimerIInv, Searchable, TimerTypes
<1>8. Membership'
  <2>1. \A u \in Timers : registered'[u] => u \in OnList'
    BY <1>2, <1>6 DEF TimerIInv, Searchable, Membership
  <2>2. \A u \in OnList' \ Leaving' : registered'[u]
    BY <1>1, <1>2, <1>6 DEF TimerIInv, Searchable, Membership, OnList
  <2>3. \A u \in Leaving' : ~registered'[u]
    BY <1>1, <1>6, <1>7 DEF TimerIInv, Searchable, Membership
  <2>4. \A u \in Shared \cap Timers : registered'[u] => isEnabled'[u]
    BY <1>6 DEF TimerIInv, Searchable, Membership
  <2>5. QED BY <1>5, <2>1, <2>2, <2>3, <2>4 DEF TimerIInv, Searchable, Membership
<1>9. Passed'
  BY <1>1 DEF Passed
<1>10. QED BY <1>3, <1>4, <1>8, <1>9 DEF Searchable

LEMMA UnlinkKeeps ==
  ASSUME TimerIInv, NEW p \in Tasks, NEW t \in Timers, DestroyUnlink(p, t)
  PROVE  Searchable'
<1> USE DEF TimerIInv, Searchable
<1>1. /\ UNCHANGED <<flags, kernel, walk, calm>> /\ t \in Leaving /\ Cutting = {}
      /\ OnList = { u \in Timers : succ[u] # Null }
  BY UnlinkMoves DEF DestroyUnlink, OnList
<1>2. Passed'
  BY <1>1 DEF Passed
<1>3. CASE succ[t] # Null /\ pred[t] # Null /\ Around(t) /\ Goes(p, "cut", t)
  <2>1. /\ Leaving' = Leaving /\ Cutting' = {t} /\ t \in OnList
        /\ \A q \in Tasks : doing'[q].step = "cut" => q = p
    BY <1>1, <1>3, UnlinkMoves
  <2>2. pred[t] \in Entries /\ succ[t] # Null /\ succ \in [Entries -> Entries \cup {Null}]
    BY <1>3 DEF TimerTypes, TimerTypeOK, Entries
  <2>3. pred[t] \in Nodes
    BY <2>1 DEF Chain, Follows, Nodes
  <2>4. OnList' = OnList \ {t}
    <3>1. succ' = [succ EXCEPT ![pred[t]] = succ[t]]
      BY <1>3 DEF Around
    <3>2. \A u \in Timers : succ'[u] # Null <=> succ[u] # Null
      <4>1. ASSUME NEW u \in Timers PROVE succ'[u] # Null <=> succ[u] # Null
        <5>1. CASE u = pred[t]
          <6>1. u \in OnList
            BY <2>3, <4>1, <5>1 DEF Nodes
          <6>2. succ[u] # Null /\ succ'[u] = succ[t]
            BY <1>1, <2>2, <3>1, <5>1, <6>1
          <6>3. QED BY <2>2, <6>2
        <5>2. CASE u # pred[t]
          BY <2>2, <3>1, <5>2 DEF Entries
        <5>3. QED BY <5>1, <5>2
      <4>2. QED BY <4>1
    <3>3. QED BY <1>1, <2>1, <3>2 DEF OnList
  <2>5. Chain'
    BY <1>1, <1>3, <2>1, <2>4, Unlinking DEF flags
  <2>6. IdsRise'
    BY <1>1, <2>4 DEF IdsRise, flags, kernel
  <2>7. Membership'
    BY <1>1, <2>1, <2>4 DEF Membership, flags
  <2>8. QED BY <1>2, <2>5, <2>6, <2>7 DEF Searchable
<1>4. CASE (succ[t] = Null \/ pred[t] = Null) /\ Goes(p, "free", Null) /\ UNCHANGED lists
  <2>1. /\ Leaving' \subseteq Leaving /\ Leaving \subseteq Leaving' \cup {t} /\ Cutting' = {}
        /\ \A q \in Tasks : doing'[q].step # "cut"
    BY <1>4, UnlinkMoves
  <2>2. OnList' = OnList
    BY <1>1, <1>4, <2>1 DEF OnList, lists
  <2>3. t \notin OnList
    <3>1. ASSUME t \in OnList PROVE FALSE
      <4>1. pred[t] \in Nodes
        BY <3>1 DEF Chain, Follows, Nodes
      <4>2. Null \notin Nodes
        BY OnListType DEF Nodes, Head1, Null
      <4>3. QED BY <1>1, <1>4, <3>1, <4>1, <4>2
    <3>2. QED BY <3>1
  <2>4. Chain'
    BY <1>1, <1>4, <2>2, SameChain DEF lists, flags
  <2>5. IdsRise'
    BY <1>1, <2>2 DEF IdsRise, flags, kernel
  <2>6. Membership'
    BY <1>1, <2>1, <2>2, <2>3 DEF Membership, flags
  <2>7. QED BY <1>2, <2>4, <2>5, <2>6 DEF Searchable
<1>5. QED BY <1>3, <1>4 DEF DestroyUnlink

LEMMA CutKeeps ==
  ASSUME TimerIInv, NEW p \in Tasks, NEW t \in Timers, DestroyCut(p, t)
  PROVE  Searchable'
<1> USE DEF TimerIInv, Searchable
<1>1. /\ UNCHANGED <<flags, kernel, walk, calm>> /\ t \in Leaving /\ Cutting = {t} /\ Cutting' = {}
      /\ Leaving' \subseteq Leaving /\ Leaving \subseteq Leaving' \cup {t}
      /\ \A q \in Tasks : doing'[q].step # "cut"
  BY CutMoves DEF DestroyCut
<1>2. /\ succ' = [succ EXCEPT ![t] = Null] /\ pred' = [pred EXCEPT ![t] = Null]
      /\ succ \in [Entries -> Entries \cup {Null}] /\ pred \in [Entries -> Entries \cup {Null}]
      /\ t \in Entries
  BY DEF DestroyCut, TimerTypes, TimerTypeOK, Entries
<1>3. t \notin OnList /\ t \notin Nodes /\ Nodes \subseteq Entries
  BY <1>1 DEF OnList, Nodes, Entries
<1>4. \A u \in Timers : u # t => succ'[u] = succ[u]
  BY <1>2 DEF Entries
<1>5. OnList' = OnList
  BY <1>1, <1>2, <1>3, <1>4 DEF OnList
<1>6. \A e \in Nodes : succ'[e] = succ[e] /\ pred'[e] = pred[e]
  BY <1>2, <1>3
<1>7. Chain'
  BY <1>1, <1>5, <1>6, SameChain DEF flags
<1>8. IdsRise'
  BY <1>1, <1>5 DEF IdsRise, flags, kernel
<1>9. Membership'
  BY <1>1, <1>3, <1>5 DEF Membership, flags
<1>10. Passed'
  BY <1>1 DEF Passed
<1>11. QED BY <1>7, <1>8, <1>9, <1>10 DEF Searchable

LEMMA CreateKeeps ==
  ASSUME TimerIInv, NEW p \in Tasks, NEW t \in Timers, Create(p, t)
  PROVE  Searchable'
<1> USE DEF TimerIInv, Searchable
<1>1. /\ UNCHANGED <<firing, queued, doing, walk, calm>> /\ t \notin Leaving /\ Cutting = {}
      /\ isEnabled' = [isEnabled EXCEPT ![t] = TRUE] /\ pending' = pending \cup {t}
      /\ walk.step # "none" => t \in Shared
  <2>1. \A q \in Tasks : doing[q].step # "cut"
    BY DEF Create, ListFree
  <2>2. Cutting = {}
    BY <2>1, Members
  <2>3. t \in Shared \/ walk.step = "none"
    BY DEF Create, Uses
  <2>4. QED BY <2>2, <2>3 DEF Create
<1>2. Leaving' = Leaving /\ Cutting' = {}
  BY <1>1 DEF Leaving, Cutting
<1>3. /\ isEnabled'[t] /\ \A u \in Timers : u # t => isEnabled'[u] = isEnabled[u]
  BY <1>1 DEF TimerTypes, TimerTypeOK
<1>4. CASE registered[t] /\ UNCHANGED <<lists, registered, id, lastId>>
  <2>1. OnList' = OnList
    BY <1>1, <1>2, <1>4 DEF OnList, lists
  <2>2. Nodes' = Nodes /\ Chain'
    BY <1>4, <2>1, SameChain DEF lists
  <2>3. t \in OnList
    BY <1>4 DEF Membership
  <2>4. IdsRise'
    BY <1>1, <1>4, <2>1, <2>3 DEF IdsRise
  <2>5. Membership'
    BY <1>1, <1>2, <1>3, <1>4, <2>1 DEF Membership
  <2>6. \A u \in OnList : walk.step # "none" => (Found(u)' <=> Found(u))
    <3>1. ASSUME walk.step # "none" PROVE isEnabled[t]
      BY <1>1, <1>4, <3>1 DEF Membership
    <3>2. QED BY <1>1, <1>3, <1>4, <3>1 DEF Found, OnList
  <2>7. Passed'
    BY <1>1, <1>2, <1>4, <2>1, <2>2, <2>6 DEF Passed, Before
  <2>8. QED BY <2>2, <2>4, <2>5, <2>7 DEF Searchable
<1>5. CASE /\ ~registered[t] /\ lastId < MaxIds
           /\ id' = [id EXCEPT ![t] = lastId] /\ lastId' = lastId + 1
           /\ registered' = [registered EXCEPT ![t] = TRUE]
           /\ Linked(t)
  <2>1. t \notin OnList
    BY <1>1, <1>5 DEF Membership
  <2>2. OnList' = OnList \cup {t}
    <3>1. pred[Head1] \in Nodes
      BY DEF Chain, Follows, Nodes
    <3>2. /\ succ \in [Entries -> Entries \cup {Null}] /\ t \in Entries
          /\ succ' = [succ EXCEPT ![t] = Head1, ![pred[Head1]] = t]
          /\ t # Null
      BY <1>5 DEF Linked, TimerTypes, TimerTypeOK, Entries
    <3>3. pred[Head1] # t
      BY <2>1, <3>1 DEF Nodes
    <3>4. succ'[t] = Head1
      BY <3>2, <3>3
    <3>5. ASSUME NEW u \in Timers, u # t PROVE succ'[u] # Null <=> succ[u] # Null
      <4>1. CASE u = pred[Head1]
        <5>1. succ[u] # Null /\ u \in Entries
          BY <3>1, <3>5, <4>1 DEF Nodes, OnList, Entries
        <5>2. QED BY <3>2, <3>3, <4>1, <5>1
      <4>2. CASE u # pred[Head1]
        BY <3>2, <3>5, <4>2 DEF Entries
      <4>3. QED BY <4>1, <4>2
    <3>6. Head1 # Null
      BY DEF Head1, Null
    <3>7. QED BY <1>1, <1>2, <3>4, <3>5, <3>6 DEF OnList
  <2>3. Nodes' = Nodes \cup {t} /\ Chain'
    BY <1>5, <2>1, <2>2, Linking DEF Nodes
  <2>4. /\ id'[t] = lastId /\ lastId' = lastId + 1 /\ lastId \in Nat
        /\ \A u \in Timers : u # t => id'[u] = id[u]
        /\ \A u \in Timers : id[u] \in Nat
        /\ OnList \subseteq Timers /\ walk.id \in Nat
    BY <1>5, OnListType DEF TimerTypes, TimerTypeOK
  <2>5. IdsRise'
    <3>1. \A u \in OnList' : id'[u] < lastId'
      BY <2>2, <2>4 DEF IdsRise
    <3>2. \A u, v \in OnList' : id'[u] = id'[v] => u = v
      <4>1. \A u \in OnList : id'[u] = id[u] /\ id[u] < lastId
        BY <2>1, <2>4 DEF IdsRise
      <4>2. QED BY <2>2, <2>4, <4>1, SMTT(30) DEF IdsRise
    <3>3. \A u \in pending' \cup firing' : id'[u] < lastId'
      <4>1. pending \subseteq Timers /\ firing \subseteq Timers
        BY DEF TimerTypes, TimerTypeOK
      <4>2. QED BY <1>1, <2>4, <4>1 DEF IdsRise
    <3>4. \A i \in 1..Len(queued') : queued'[i] < lastId'
      <4>1. Len(queued) \in Nat /\ \A i \in 1..Len(queued) : queued[i] \in 0..MaxIds
        BY ElementOfSeq, LenProperties DEF TimerTypes, TimerTypeOK
      <4>2. QED BY <1>1, <2>4, <4>1 DEF IdsRise
    <3>5. walk'.step # "none" => walk'.id < lastId'
      BY <1>1, <2>4 DEF IdsRise
    <3>6. QED BY <3>1, <3>2, <3>3, <3>4, <3>5 DEF IdsRise
  <2>6. /\ registered'[t] /\ \A u \in Timers : u # t => registered'[u] = registered[u]
    BY <1>5 DEF TimerTypes, TimerTypeOK
  <2>7. Membership'
    <3>1. Leaving \subseteq Timers
      BY Members DEF TimerTypes
    <3>2. \A u \in Timers : registered'[u] => u \in OnList'
      BY <2>2, <2>6 DEF Membership
    <3>3. \A u \in OnList' \ Leaving' : registered'[u]
      BY <1>2, <2>2, <2>4, <2>6 DEF Membership
    <3>4. \A u \in Leaving' : ~registered'[u]
      BY <1>1, <1>2, <2>6, <3>1 DEF Membership
    <3>5. \A u \in Shared \cap Timers : registered'[u] => isEnabled'[u]
      BY <1>3, <2>6 DEF Membership
    <3>6. QED BY <1>1, <3>2, <3>3, <3>4, <3>5 DEF Membership
  <2>8. Passed'
    <3>1. ASSUME calm, walk.step # "none" PROVE ~Found(t)'
      BY <1>1, <2>4, <3>1 DEF IdsRise, Found
    <3>2. \A u \in OnList : Found(u)' <=> Found(u)
      BY <1>1, <1>3, <2>1, <2>4 DEF Found
    <3>3. ASSUME calm', walk'.step = "look"
          PROVE  walk'.at \in Nodes' /\ \A u \in OnList' : Before(u, walk.at)' => ~Found(u)'
      <4>1. calm /\ walk' = walk /\ walk.step = "look" /\ walk.at \in Nodes
        BY <1>1, <3>3 DEF Passed
      <4>2. ASSUME NEW u \in OnList, Before(u, walk.at)' PROVE Before(u, walk.at)
        BY <2>1, <2>3, <2>4, <4>1, <4>2 DEF Before, Nodes
      <4>3. QED BY <2>2, <2>3, <3>1, <3>2, <4>1, <4>2 DEF Passed
    <3>4. ASSUME calm', walk'.step = "move"
          PROVE  walk'.at \in OnList' /\ \A u \in OnList' : id'[u] <= id'[walk'.at] => ~Found(u)'
      <4>1. calm /\ walk' = walk /\ walk.step = "move" /\ walk.at \in OnList
        BY <1>1, <3>4 DEF Passed
      <4>2. \A u \in OnList : id'[u] = id[u]
        BY <2>1, <2>4
      <4>3. QED BY <2>2, <3>1, <3>2, <4>1, <4>2 DEF Passed
    <3>5. QED BY <1>1, <1>2, <3>3, <3>4 DEF Passed
  <2>9. QED BY <2>3, <2>5, <2>7, <2>8 DEF Searchable
<1>6. QED BY <1>4, <1>5 DEF Create

LEMMA EnableKeeps ==
  ASSUME TimerIInv, NEW t \in Timers, NEW on \in BOOLEAN, Enable(t, on)
  PROVE  Searchable'
<1> USE DEF TimerIInv, Searchable
<1>1. /\ UNCHANGED <<succ, pred, registered, id, lastId, firing, queued, doing, walk, calm>>
      /\ walk.step = "none" /\ t \notin Shared /\ registered[t] /\ pending' \subseteq pending \cup {t}
  BY DEF Enable, Uses, lists
<1>2. OnList' = OnList /\ Leaving' = Leaving
  BY <1>1, SameList
<1>3. \A u \in Timers : u # t => isEnabled'[u] = isEnabled[u]
  BY DEF Enable, TimerTypes, TimerTypeOK
<1>4. Chain'
  BY <1>1, <1>2, SameChain
<1>5. IdsRise'
  BY <1>1, <1>2 DEF IdsRise, Membership
<1>6. Membership'
  BY <1>1, <1>2, <1>3 DEF Membership
<1>7. Passed'
  BY <1>1 DEF Passed
<1>8. QED BY <1>4, <1>5, <1>6, <1>7 DEF Searchable

LEMMA ExpireKeeps ==
  ASSUME TimerIInv, NEW t \in Timers, Expire(t)
  PROVE  Searchable'
<1> USE DEF TimerIInv, Searchable
<1>1. /\ UNCHANGED <<succ, pred, registered, isEnabled, id, lastId, queued, doing, walk, calm>>
      /\ t \in pending /\ pending' = pending \ {t} /\ firing' = firing \cup {t}
  BY DEF Expire, lists, flags
<1>2. OnList' = OnList /\ Nodes' = Nodes /\ Leaving' = Leaving
  BY <1>1, SameList
<1>3. Chain'
  BY <1>1, <1>2, SameChain
<1>4. IdsRise'
  BY <1>1, <1>2 DEF IdsRise
<1>5. Membership'
  BY <1>1, <1>2 DEF Membership
<1>6. Passed'
  BY <1>1, <1>2 DEF Passed, Found, Before
<1>7. QED BY <1>3, <1>4, <1>5, <1>6 DEF Searchable

LEMMA PostKeeps ==
  ASSUME TimerIInv, NEW t \in Timers, Post(t)
  PROVE  Searchable'
<1> USE DEF TimerIInv, Searchable
<1>1. /\ UNCHANGED <<succ, pred, registered, isEnabled, id, lastId, pending, doing, walk, calm>>
      /\ t \in firing /\ firing' = firing \ {t}
      /\ queued' = queued \/ queued' = Append(queued, id[t])
  BY DEF Post, lists, flags
<1>2. OnList' = OnList /\ Nodes' = Nodes /\ Leaving' = Leaving
  BY <1>1, SameList
<1>3. Chain'
  BY <1>1, <1>2, SameChain
<1>4. \A i \in 1..Len(queued') : queued'[i] < lastId
  <2>1. CASE queued' = queued
    BY <2>1 DEF IdsRise
  <2>2. CASE queued' = Append(queued, id[t])
    <3>1. queued \in Seq(0..MaxIds) /\ id[t] \in 0..MaxIds
      BY DEF TimerTypes, TimerTypeOK
    <3>2. /\ Len(queued) \in Nat /\ Len(queued') = Len(queued) + 1
          /\ \A i \in 1..Len(queued) : queued'[i] = queued[i]
          /\ queued'[Len(queued) + 1] = id[t]
      BY <2>2, <3>1, AppendProperties, LenProperties
    <3>3. id[t] < lastId
      BY <1>1 DEF IdsRise
    <3>4. ASSUME NEW i \in 1..Len(queued') PROVE queued'[i] < lastId
      <4>1. i \in 1..Len(queued) \/ i = Len(queued) + 1
        BY <3>2
      <4>2. QED BY <3>2, <3>3, <4>1 DEF IdsRise
    <3>5. QED BY <3>4
  <2>3. QED BY <1>1, <2>1, <2>2
<1>5. IdsRise'
  BY <1>1, <1>2, <1>4 DEF IdsRise
<1>6. Membership'
  BY <1>1, <1>2 DEF Membership
<1>7. Passed'
  BY <1>1, <1>2 DEF Passed, Found, Before
<1>8. QED BY <1>3, <1>5, <1>6, <1>7 DEF Searchable

LEMMA BeginKeeps ==
  ASSUME TimerIInv, WalkBegin
  PROVE  Searchable'
<1> USE DEF TimerIInv, Searchable
<1>1. /\ UNCHANGED <<succ, pred, registered, isEnabled, id, lastId, pending, firing, doing>>
      /\ queued # <<>> /\ queued' = Tail(queued)
      /\ walk'.step = "look" /\ walk'.at = succ[Head1] /\ walk'.id = Head(queued)
      /\ calm' = (Leaving = {})
  BY DEF WalkBegin, lists, flags
<1>2. OnList' = OnList /\ Nodes' = Nodes /\ Leaving' = Leaving
  BY <1>1, SameList
<1>3. Chain'
  BY <1>1, <1>2, SameChain
<1>4. Head(queued) < lastId /\ \A i \in 1..Len(queued') : queued'[i] < lastId
  <2>1. /\ Len(queued) \in Nat /\ Len(queued) >= 1 /\ Head(queued) = queued[1]
        /\ Len(queued') = Len(queued) - 1
        /\ \A i \in 1..Len(queued') : queued'[i] = queued[i + 1]
    <3>1. queued \in Seq(0..MaxIds)
      BY DEF TimerTypes, TimerTypeOK
    <3>2. QED BY <1>1, <3>1, HeadTailProperties, EmptySeq, LenProperties
  <2>2. ASSUME NEW i \in 1..Len(queued') PROVE queued'[i] < lastId
    <3>1. i + 1 \in 1..Len(queued)
      BY <2>1
    <3>2. QED BY <2>1, <3>1 DEF IdsRise
  <2>3. Head(queued) < lastId
    BY <2>1 DEF IdsRise
  <2>4. QED BY <2>2, <2>3
<1>5. IdsRise'
  BY <1>1, <1>2, <1>4 DEF IdsRise
<1>6. Membership'
  BY <1>1, <1>2 DEF Membership
<1>7. Follows(Head1, succ[Head1])
  BY DEF Chain, Nodes
<1>8. Passed'
  <2>1. succ[Head1] \in Nodes /\ \A u \in OnList : ~Before(u, succ[Head1])
    BY <1>7 DEF Follows, Between, Before
  <2>2. \A u \in OnList : Before(u, walk.at)' => Before(u, succ[Head1])
    BY <1>1 DEF Before
  <2>3. QED BY <1>1, <1>2, <2>1, <2>2 DEF Passed
<1>9. QED BY <1>3, <1>5, <1>6, <1>8 DEF Searchable

LEMMA LookKeeps ==
  ASSUME TimerIInv, WalkLook
  PROVE  Searchable'
<1> USE DEF TimerIInv, Searchable
<1>1. /\ UNCHANGED <<succ, pred, registered, isEnabled, id, lastId, pending, firing, queued, doing, calm>>
      /\ walk.step = "look"
  BY DEF WalkLook, lists, flags, kernel
<1>2. OnList' = OnList /\ Nodes' = Nodes /\ Leaving' = Leaving
  BY <1>1, SameList
<1>3. Chain'
  BY <1>1, <1>2, SameChain
<1>4. \/ walk'.step \in {"none", "call"} /\ (walk'.step = "call" => walk'.id = walk.id)
      \/ /\ walk'.step = "move" /\ walk'.id = walk.id /\ walk'.at = walk.at
         /\ walk.at \in Timers /\ ~Found(walk.at)
  <2>1. CASE walk' = NoWalk
    BY <2>1 DEF NoWalk
  <2>2. CASE \E t \in Timers : walk.at = t /\ Walking(IF Found(t) THEN "call" ELSE "move", t)
    <3>1. PICK t \in Timers : walk.at = t /\ Walking(IF Found(t) THEN "call" ELSE "move", t)
      BY <2>2
    <3>2. CASE Found(t)
      <4>1. Walking("call", t)
        BY <3>1, <3>2
      <4>2. QED BY <4>1 DEF Walking, TimerTypes, TimerTypeOK
    <3>3. CASE ~Found(t)
      <4>1. Walking("move", t)
        BY <3>1, <3>3
      <4>2. QED BY <3>1, <3>3, <4>1 DEF Walking, TimerTypes, TimerTypeOK
    <3>4. QED BY <3>2, <3>3
  <2>3. QED BY <2>1, <2>2 DEF WalkLook
<1>5. IdsRise'
  BY <1>1, <1>2, <1>4 DEF IdsRise
<1>6. Membership'
  BY <1>1, <1>2 DEF Membership
<1>7. Passed'
  <2>1. CASE walk'.step = "move" /\ calm
    <3>1. /\ walk'.id = walk.id /\ walk'.at = walk.at /\ walk.at \in OnList /\ ~Found(walk.at)
          /\ \A t \in OnList : Before(t, walk.at) => ~Found(t)
          /\ Leaving = {}
      BY <1>1, <1>4, <2>1, OnListType DEF Passed, Nodes
    <3>2. \A t \in OnList : id[t] <= id[walk.at] => t = walk.at \/ Before(t, walk.at)
      BY <3>1, OnListType DEF IdsRise, Before
    <3>3. \A t \in OnList : Found(t)' <=> Found(t)
      BY <1>1, <3>1 DEF Found
    <3>4. \A t \in OnList : id[t] <= id[walk.at] => ~Found(t)
      BY <3>1, <3>2
    <3>5. QED BY <1>1, <1>2, <2>1, <3>1, <3>3, <3>4 DEF Passed
  <2>2. CASE walk'.step \in {"none", "call"} \/ ~calm
    BY <1>1, <2>2 DEF Passed
  <2>3. QED BY <1>4, <2>1, <2>2
<1>8. QED BY <1>3, <1>5, <1>6, <1>7 DEF Searchable

LEMMA MoveKeeps ==
  ASSUME TimerIInv, WalkMove
  PROVE  Searchable'
<1> USE DEF TimerIInv, Searchable
<1>1. /\ UNCHANGED <<succ, pred, registered, isEnabled, id, lastId, pending, firing, queued, doing, calm>>
      /\ walk.step = "move" /\ walk'.step = "look" /\ walk'.at = succ[walk.at] /\ walk'.id = walk.id
  BY DEF WalkMove, Walking, lists, flags, kernel, TimerTypes, TimerTypeOK
<1>2. OnList' = OnList /\ Nodes' = Nodes /\ Leaving' = Leaving
  BY <1>1, SameList
<1>3. Chain'
  BY <1>1, <1>2, SameChain
<1>4. IdsRise'
  BY <1>1, <1>2 DEF IdsRise
<1>5. Membership'
  BY <1>1, <1>2 DEF Membership
<1>6. Passed'
  <2>1. CASE calm
    <3>1. /\ walk.at \in OnList /\ Leaving = {}
          /\ \A t \in OnList : id[t] <= id[walk.at] => ~Found(t)
      BY <1>1, <2>1 DEF Passed
    <3>2. Follows(walk.at, succ[walk.at])
      BY <3>1 DEF Chain, Nodes
    <3>3. ASSUME NEW t \in OnList, Before(t, succ[walk.at]) PROVE ~Found(t)
      <4>1. ~Before(walk.at, t)
        BY <3>2, <3>3 DEF Follows, Between
      <4>2. id[t] <= id[walk.at]
        BY <3>1, <4>1, OnListType DEF Before
      <4>3. QED BY <3>1, <4>2
    <3>4. \A t \in OnList : Found(t)' <=> Found(t)
      BY <1>1 DEF Found
    <3>5. \A t \in OnList : Before(t, walk.at)' => Before(t, succ[walk.at])
      BY <1>1 DEF Before
    <3>6. succ[walk.at] \in Nodes
      BY <3>2 DEF Follows
    <3>7. QED BY <1>1, <1>2, <3>1, <3>3, <3>4, <3>5, <3>6 DEF Passed
  <2>2. CASE ~calm
    BY <1>1, <2>2 DEF Passed
  <2>3. QED BY <2>1, <2>2
<1>7. QED BY <1>3, <1>4, <1>5, <1>6 DEF Searchable

LEMMA CallKeeps ==
  ASSUME TimerIInv, WalkCall
  PROVE  Searchable'
<1> USE DEF TimerIInv, Searchable
<1>1. /\ UNCHANGED <<succ, pred, registered, isEnabled, id, lastId, pending, firing, queued, doing, calm>>
      /\ walk'.step = "none"
  BY DEF WalkCall, NoWalk, lists, flags, kernel
<1>2. OnList' = OnList /\ Nodes' = Nodes /\ Leaving' = Leaving
  BY <1>1, SameList
<1>3. Chain'
  BY <1>1, <1>2, SameChain
<1>4. IdsRise'
  BY <1>1, <1>2 DEF IdsRise
<1>5. Membership'
  BY <1>1, <1>2 DEF Membership
<1>6. Passed'
  BY <1>1 DEF Passed
<1>7. QED BY <1>3, <1>4, <1>5, <1>6 DEF Searchable

LEMMA TimerStep == TimerIInv /\ [TimerNext]_timers => TimerIInv'
<1> SUFFICES ASSUME TimerIInv, [TimerNext]_timers PROVE Searchable'
  BY TimerTypeStep DEF TimerIInv
<1>1. CASE UNCHANGED timers
  <2>1. UNCHANGED <<succ, pred, registered, isEnabled, id, lastId, pending, firing, queued, doing, walk, calm>>
    BY <1>1 DEF timers, lists, flags, kernel
  <2>2. OnList' = OnList /\ Nodes' = Nodes /\ Leaving' = Leaving
    BY <2>1, SameList
  <2>3. Chain' /\ IdsRise' /\ Membership'
    BY <2>1, <2>2, SameChain DEF TimerIInv, Searchable, IdsRise, Membership
  <2>4. Passed'
    BY <2>1, <2>2 DEF TimerIInv, Searchable, Passed, Found, Before
  <2>5. QED BY <2>3, <2>4 DEF Searchable
<1>2. CASE TimerNext
  BY <1>2, CreateKeeps, TestKeeps, GiveKeeps, UnlinkKeeps, CutKeeps, ExpireKeeps, PostKeeps,
     EnableKeeps, BeginKeeps, LookKeeps, MoveKeeps, CallKeeps
     DEF TimerNext, Destroy, Walk
<1>3. QED BY <1>1, <1>2

LEMMA TimerInvInit == TimerInit => TimerIInv
<1> SUFFICES ASSUME TimerInit PROVE TimerIInv
  OBVIOUS
<1>1. TimerTypes
  BY TimerTypeInit
<1>2. OnList = {} /\ Nodes = {Head1} /\ Leaving = {} /\ \A p \in Tasks : doing[p].step = "free"
  BY DEF TimerInit, OnList, Nodes, Leaving, Cutting, Idle, Entries, Head1, Null
<1>3. succ[Head1] = Head1 /\ pred[Head1] = Head1
  BY DEF TimerInit, Entries
<1>4. Chain
  BY <1>2, <1>3 DEF Chain, Follows, Before
<1>5. IdsRise /\ Membership /\ Passed
  <2>1. IdsRise
    BY <1>2, EmptySeq DEF TimerInit, IdsRise, NoWalk
  <2>2. Membership
    BY <1>2 DEF TimerInit, Membership
  <2>3. Passed
    BY DEF TimerInit, Passed, NoWalk
  <2>4. QED BY <2>1, <2>2, <2>3
<1>6. QED BY <1>1, <1>4, <1>5 DEF TimerIInv, Searchable

LEMMA TimerAlways == TimerSpec => []TimerIInv
BY TimerInvInit, TimerStep, PTL DEF TimerSpec

\* The list of the timers, their flags, and where the walk and the destroyers are keep
\* their types; what the walk is about to call or to move on from is a timer.
THEOREM TimerTypeCorrect == TimerSpec => []TimerTypes
<1>1. TimerIInv => TimerTypes
  BY DEF TimerIInv
<1>2. QED BY <1>1, TimerAlways, PTL

\* next and prev of the timers' list stay inverse, on the entries that are linked and on
\* them only, whoever creates and destroys timers, twice at once too (hi_list_tail_insert,
\* hi_list_delete).
THEOREM TimerListIntact ==
  TimerSpec => [](\A e \in Nodes : /\ succ[e] \in Nodes /\ pred[succ[e]] = e
                                   /\ pred[e] \in Nodes /\ succ[pred[e]] = e)
<1> DEFINE Intact == \A e \in Nodes : /\ succ[e] \in Nodes /\ pred[succ[e]] = e
                                      /\ pred[e] \in Nodes /\ succ[pred[e]] = e
<1>1. TimerIInv => Intact
  <2> SUFFICES ASSUME TimerIInv, NEW e \in Nodes
               PROVE  /\ succ[e] \in Nodes /\ pred[succ[e]] = e
                      /\ pred[e] \in Nodes /\ succ[pred[e]] = e
    OBVIOUS
  <2>1. \A f \in Nodes : Follows(f, succ[f]) /\ Follows(pred[f], f)
    BY DEF TimerIInv, Searchable, Chain
  <2>2. succ[e] \in Nodes /\ pred[e] \in Nodes
    BY <2>1 DEF Follows
  <2>3. Follows(pred[succ[e]], succ[e]) /\ Follows(pred[e], succ[pred[e]])
    BY <2>1, <2>2
  <2>4. TimerTypes /\ IdsRise
    BY DEF TimerIInv, Searchable
  <2>5. QED BY <2>1, <2>2, <2>3, <2>4, FollowsOnce
<1>2. QED BY <1>1, TimerAlways, PTL

\* The walk of frw_timer_timeout_proc, which takes no lock, reaches the end of the list
\* without its timer only when that timer was stopped or some timer was destroyed
\* meanwhile: for every set of timers and callers and every number of ids.
THEOREM ExpiryAlwaysFound == TimerSpec => []ExpiryFound
<1>1. TimerIInv => ExpiryFound
  <2> SUFFICES ASSUME TimerIInv, walk.step = "look", walk.at \in {Head1, Null}, calm,
                      NEW t \in Timers, registered[t], Found(t)
               PROVE  FALSE
    BY DEF ExpiryFound
  <2>1. t \in OnList
    BY DEF TimerIInv, Searchable, Membership
  <2>2. walk.at \in Nodes /\ (Before(t, walk.at) => ~Found(t))
    BY <2>1 DEF TimerIInv, Searchable, Passed
  <2>3. walk.at = Head1
    BY <2>2, OnListType DEF TimerIInv, Nodes, Head1, Null
  <2>4. QED BY <2>2, <2>3 DEF Before
<1>2. QED BY <1>1, TimerAlways, PTL
=============================================================================
