------------------------------ MODULE UartRing ------------------------------
(***************************************************************************)
(* The receive buffer of the UART driver (src/uart/uart_pl011.c,           *)
(* src/uart/uart_hi35xx.c) between the interrupt handler, which puts the   *)
(* bytes of the chip's FIFO into it, and a task in Hi35xxRead, which waits *)
(* for an event when the buffer is empty and reading blocks.  There is no  *)
(* lock: wp belongs to the handler, rp to the reader.  Bytes are numbered. *)
(***************************************************************************)
EXTENDS Naturals, Sequences

CONSTANTS
  BUF_SIZE,    \* one slot stays free
  Burst,       \* most bytes of one interrupt (FIFO_SIZE)
  MaxCount     \* most bytes asked for by one read

ASSUME UartAssumption ==
  BUF_SIZE \in Nat \ {0} /\ Burst \in Nat \ {0} /\ MaxCount \in Nat

VARIABLES
  data, wp, rp,      \* of UartTransfer
  rxEvent,           \* bit 0x1 of udd->wait
  block,             \* UART_FLG_RD_BLOCK
  smp,               \* the handler runs beside the reader, on another core; stays as it is
  isr, newWp,        \* where PL011UartRecvNotify is; its local wp
  reader, newRp,     \* where Hi35xxRead is; its local rp
  got,               \* what the last Pl011Read copied
  next               \* number of the next byte on the line, modulo Numbers

mode == <<block, smp>>
writer == <<isr, newWp, next>>
readVars == <<reader, newRp, got>>
uart == <<data, wp, rp, rxEvent, mode, writer, readVars>>

Numbers == 0..BUF_SIZE + Burst - 1      \* more than the buffer and a burst hold
Slot == 0..(BUF_SIZE - 1)
Junk == BUF_SIZE + Burst             \* what is left in a slot that is free
Byte == Numbers \cup {Junk}

TypeOK ==
  /\ data \in [Slot -> Byte] /\ wp \in Slot /\ rp \in Slot
  /\ newWp \in Slot /\ newRp \in Slot /\ next \in Numbers
  /\ rxEvent \in BOOLEAN /\ block \in BOOLEAN /\ smp \in BOOLEAN
  /\ isr \in {"idle", "event", "wp"}
  /\ reader \in {"idle", "test", "wait", "copy", "rp", "empty", "clear"}
  /\ got \in Seq(Byte) /\ Len(got) < BUF_SIZE

Init ==
  /\ data = [i \in Slot |-> Junk] /\ wp = 0 /\ rp = 0 /\ newWp = 0 /\ newRp = 0 /\ next = 1
  /\ rxEvent = FALSE /\ block \in BOOLEAN /\ smp \in BOOLEAN
  /\ isr = "idle" /\ reader = "idle" /\ got = <<>>

Empty == rp = wp           \* PL011UartRxBufEmpty
Held == (wp + BUF_SIZE - rp) % BUF_SIZE
From(a, b) == [i \in 1..((b + BUF_SIZE - a) % BUF_SIZE) |-> data[(a + i - 1) % BUF_SIZE]]
Min2(a, b) == IF a < b THEN a ELSE b

\* an index that reaches the end goes on with the lower half
Wrap(i) == IF i >= BUF_SIZE THEN i - BUF_SIZE ELSE i

----------------------------------------------------------------------------
(* Pl011Irq: count bytes are taken from the FIFO                           *)

\* the bytes for which there is room: those behind are dropped
Accepted_Full(count) == Min2(count, BUF_SIZE - Held)        \* variant: no free slot
Accepted(count) == Min2(count, BUF_SIZE - 1 - Held)

RecvNotify(count) ==
  LET n == Accepted(count)
  IN /\ isr = "idle" /\ isr' = "event"
     /\ data' = [i \in Slot |->
                   LET k == (i + BUF_SIZE - wp) % BUF_SIZE
                   IN IF k < n THEN (next + k) % (BUF_SIZE + Burst) ELSE data[i]]
     /\ newWp' = Wrap(wp + n)
     /\ next' = (next + count) % (BUF_SIZE + Burst)
     /\ UNCHANGED <<wp, rp, rxEvent, mode, readVars>>

\* Pl011Notify, before wp is stored
Notify == isr = "event" /\ isr' = "wp" /\ rxEvent' = TRUE
            /\ UNCHANGED <<data, wp, rp, mode, newWp, next, readVars>>

StoreWp == isr = "wp" /\ isr' = "idle" /\ wp' = newWp
             /\ UNCHANGED <<data, rp, rxEvent, mode, newWp, next, readVars>>

----------------------------------------------------------------------------
(* Hi35xxRead                                                              *)

Runs == smp \/ isr = "idle"      \* on one core the handler is not interrupted

ReadBegin ==
  /\ Runs /\ reader = "idle" /\ reader' = "test"
  /\ UNCHANGED <<data, wp, rp, rxEvent, mode, writer, newRp, got>>

MustWait_Anyway == block             \* variant: the event decides alone
MustWait == block /\ Empty

ReadTest ==
  /\ Runs /\ reader = "test" /\ reader' = IF MustWait THEN "wait" ELSE "copy"
  /\ UNCHANGED <<data, wp, rp, rxEvent, mode, writer, newRp, got>>

\* LOS_EventRead leaves the event as it is
ReadWoken ==
  /\ Runs /\ reader = "wait" /\ rxEvent /\ reader' = "copy"
  /\ UNCHANGED <<data, wp, rp, rxEvent, mode, writer, newRp, got>>

\* Pl011Read
Copy(count) ==
  LET n == Min2(count, Held)
  IN /\ Runs /\ reader = "copy" /\ reader' = IF n = 0 THEN "empty" ELSE "rp"
     /\ got' = SubSeq(From(rp, wp), 1, n)
     /\ newRp' = Wrap(rp + n)
     /\ UNCHANGED <<data, wp, rp, rxEvent, mode, writer>>

StoreRp ==
  /\ Runs /\ reader = "rp" /\ reader' = "empty" /\ rp' = newRp
  /\ data' = [i \in Slot |-> IF (i + BUF_SIZE - rp) % BUF_SIZE < Len(got) THEN Junk ELSE data[i]]
  /\ got' = <<>>
  /\ UNCHANGED <<wp, rxEvent, mode, writer, newRp>>

ReadTestAgain ==
  /\ Runs /\ reader = "empty" /\ reader' = IF MustWait THEN "clear" ELSE "idle"
  /\ UNCHANGED <<data, wp, rp, rxEvent, mode, writer, newRp, got>>

EventClear ==
  /\ Runs /\ reader = "clear" /\ reader' = "idle" /\ rxEvent' = FALSE
  /\ UNCHANGED <<data, wp, rp, mode, writer, newRp, got>>

\* Hi35xxSetTransMode, from any task
SetTransMode(b) ==
  /\ Runs /\ block # b /\ block' = b
  /\ rxEvent' = (rxEvent \/ ~b)
  /\ UNCHANGED <<data, wp, rp, smp, writer, readVars>>

----------------------------------------------------------------------------
ReaderStep == ReadTest \/ ReadWoken \/ (\E n \in 1..MaxCount : Copy(n)) \/ StoreRp
                \/ ReadTestAgain \/ EventClear
IsrStep == Notify \/ StoreWp
Next == ReaderStep \/ IsrStep \/ ReadBegin \/ (\E n \in 1..Burst : RecvNotify(n))
          \/ (\E b \in BOOLEAN : SetTransMode(b))
Spec == Init /\ [][Next]_uart

\* The handler, and a task inside a read, go on; no byte has to come.
Fairness == SF_uart(ReaderStep) /\ WF_uart(IsrStep)
LiveSpec == Spec /\ Fairness

----------------------------------------------------------------------------
(* Properties                                                              *)

\* Bytes come out once, in the order of the line, and only those are missing that
\* found the buffer full: data and the two indices, written by different threads,
\* are a queue (UartFifo) at every moment; what a read has copied is its front.
Waiting == IF reader = "rp" THEN got \o From(newRp, newWp) ELSE From(rp, newWp)
Abs == INSTANCE UartFifo WITH
         fifo <- Waiting, line <- next, size <- BUF_SIZE - 1, burst <- Burst
FifoContract == Abs!Spec

\* On one core a task that waits while bytes are in the buffer has its event set, though
\* the event is cleared blindly and Hi35xxRead tests the buffer before it waits: no clear
\* comes between the announcement of bytes and the end of the wait for them.
EventStands == ~smp /\ reader = "wait" /\ ~Empty => rxEvent

\* A task does not wait for ever beside bytes that have arrived: tests of the buffer
\* and of the event are not one step, and the event is cleared blindly.
ReaderWakes == (reader = "wait" /\ ~Empty) ~> (reader # "wait")
=============================================================================
