---------------------------- MODULE PacketStream ----------------------------
(***************************************************************************)
(* What the packet queue promises its two users: a bounded FIFO.  Items    *)
(* are numbered in the order they are put; head .. tail - 1 are inside.    *)
(* The producer is never refused: when an item does not fit, the stream is *)
(* overrun and from then on nothing is promised (the queue drops items and *)
(* may hand out torn ones; UnlockQueue says what remains true).            *)
(***************************************************************************)
EXTENDS Integers

CONSTANTS Capacity, MaxPut, MaxGet

VARIABLES
  head, tail, \* number of the oldest item, number of the next one
  taken,      \* the items the last Get returned
  overrun     \* an item did not fit

vars == <<head, tail, taken, overrun>>

Init == head = 0 /\ tail = 0 /\ taken = << >> /\ overrun = FALSE

Put(n) ==
  /\ tail + n - head <= Capacity
  /\ tail' = tail + n
  /\ UNCHANGED <<head, taken, overrun>>

\* The oldest items, in order; possibly fewer than are inside by now.
Get(n) ==
  /\ n <= tail - head
  /\ taken' = [k \in 1..n |-> head + k - 1]
  /\ head' = head + n
  /\ UNCHANGED <<tail, overrun>>

Overrun == overrun'

Next ==
  \/ ~overrun /\ \E n \in 1..MaxPut : Put(n)
  \/ ~overrun /\ \E n \in 0..MaxGet : Get(n)
  \/ Overrun

Spec == Init /\ [][Next]_vars
=============================================================================
