------------------------------ MODULE DescRing ------------------------------
(***************************************************************************)
(* The index arithmetic of the two descriptor rings of P04_vnic/nic.c.     *)
(*                                                                         *)
(* A ring of n slots has an index `take' that its consumer reads next and  *)
(* an index `put' that its producer fills next.  In the transmit ring the  *)
(* driver produces (put = tx_drv) and the NIC consumes (take = tx_nic); in *)
(* the receive ring the roles are swapped.  One slot always stays free, so *)
(* a ring of n slots holds at most n - 1 packets.                          *)
(***************************************************************************)
EXTENDS Integers

Slots(n) == 0 .. (n - 1)

\* Mutant: the index runs off the end of the ring.
NextSlotNoWrap(i, n) == i + 1

\* The slot after slot i.
NextSlot(i, n) == (i + 1) % n

\* "put one position behind take": the operand of % is never negative, so C's
\* remainder and TLA+'s modulus agree.
Full(take, put, n) == (take - (put + 1) + n) % n = 0

\* The number of packets in the ring.
Count(take, put, n) == (put - take + n) % n

\* The occupied slots: the Count(take, put, n) slots that follow take, take
\* included, walking round the ring.
Window(take, put, n) ==
  { i \in Slots(n) : (i - take + n) % n < Count(take, put, n) }

\* The occupied slots in the order the consumer will visit them.
InOrder(take, put, n) ==
  [ k \in 1 .. Count(take, put, n) |-> (take + k - 1) % n ]

\* What those slots of a buffer hold, as the queue it is for the consumer.
Queue(buffer, take, put, n) ==
  [ k \in 1 .. Count(take, put, n) |-> buffer[InOrder(take, put, n)[k]] ]
=============================================================================
