---------------------------- MODULE PacketQueue ----------------------------
(* What the bulk IN half of the USB controller promises: packets, numbered *)
(* as they arrive, leave one by one in the order they came, none twice and *)
(* none missing.  A reset empties the queue and restarts the numbers.      *)
EXTENDS Integers, Sequences

CONSTANT Capacity

VARIABLES queue, next

Init == queue = <<>> /\ next = 0

Accept(n) ==
  /\ Len(queue) + n <= Capacity
  /\ queue' = queue \o [i \in 1 .. n |-> next + i - 1]
  /\ next' = next + n

Take == queue # <<>> /\ queue' = Tail(queue) /\ UNCHANGED next

Clear == queue' = <<>> /\ next' = 0

Next == (\E n \in 1 .. Capacity : Accept(n)) \/ Take \/ Clear

Spec == Init /\ [][Next]_<<queue, next>>
=============================================================================
