-------------------------------- MODULE Fifo --------------------------------
(***************************************************************************)
(* What lib/data-structure/queue.h promises: items leave in the order in   *)
(* which they entered.                                                     *)
(***************************************************************************)
EXTENDS Sequences

CONSTANT Items

VARIABLE items

Init == items = <<>>

Enqueue(x) == items' = Append(items, x)

Dequeue(x) == items # <<>> /\ x = Head(items) /\ items' = Tail(items)

Next == \E x \in Items : Enqueue(x) \/ Dequeue(x)

Spec == Init /\ [][Next]_items

=============================================================================
