------------------------------ MODULE UartFifo ------------------------------
(***************************************************************************)
(* What the receive side of the UART driver (src/uart) promises: a bounded *)
(* queue of the bytes of the line, that loses the end of a burst which     *)
(* finds it full, and nothing else.  Bytes are numbered modulo             *)
(* size + burst + 1, more than the queue and a burst hold together.        *)
(***************************************************************************)
EXTENDS Naturals, Sequences

CONSTANTS size, burst
VARIABLES fifo, line      \* line: number of the next byte to come

Plus(n, k) == (n + k) % (size + burst + 1)

Init == fifo = <<>> /\ line = 1

Put(count) ==
  \E n \in 0..count :
    /\ n = count \/ Len(fifo) + n = size
    /\ fifo' = fifo \o [i \in 1..n |-> Plus(line, i - 1)]
    /\ line' = Plus(line, count)

Get == \E n \in 1..Len(fifo) : fifo' = SubSeq(fifo, n + 1, Len(fifo)) /\ UNCHANGED line

Next == Get \/ \E count \in 1..burst : Put(count)
Spec == Init /\ [][Next]_<<fifo, line>>
=============================================================================
