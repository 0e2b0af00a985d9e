---------------------------- MODULE RequestQueue ----------------------------
(***************************************************************************)
(* The queue of lib/src/data-structure/queue.c: two stacks, the top of     *)
(* each at the head of its sequence.  Its mutex (concurrent_queue.c) makes *)
(* every operation one step.  The module Server uses it, and bounds it.    *)
(***************************************************************************)
EXTENDS Integers, SequencesExt

CONSTANT Items

VARIABLES stackIn, stackOut

stacks == <<stackIn, stackOut>>

IsEmpty == stackIn = <<>> /\ stackOut = <<>>

Init == stackIn = <<>> /\ stackOut = <<>>

Enqueue(x) ==
    /\ stackIn' = <<x>> \o stackIn
    /\ UNCHANGED stackOut

(* Mutant: the arrivals are moved without being reversed. *)
DequeueUnreversed(x) ==
    /\ ~IsEmpty
    /\ LET moved == stackOut = <<>>
           s     == IF moved THEN stackIn ELSE stackOut
       IN  /\ x = Head(s)
           /\ stackOut' = Tail(s)
           /\ stackIn' = IF moved THEN <<>> ELSE stackIn

(* The arrivals are moved over, which reverses them, only when the stack   *)
(* of departures is empty.  The joiner asks IsEmpty first.                 *)
Dequeue(x) ==
    /\ ~IsEmpty
    /\ LET moved == stackOut = <<>>
           s     == IF moved THEN Reverse(stackIn) ELSE stackOut
       IN  /\ x = Head(s)
           /\ stackOut' = Tail(s)
           /\ stackIn' = IF moved THEN <<>> ELSE stackIn

Next == \E x \in Items : Enqueue(x) \/ Dequeue(x)

Spec == Init /\ [][Next]_stacks

-----------------------------------------------------------------------------
(* The items in the order in which they will leave. *)
Contents == stackOut \o Reverse(stackIn)

FifoQueue == INSTANCE Fifo WITH items <- Contents

(* The two stacks behave as one queue, first in, first out. *)
ImplementsFifo == FifoQueue!Spec

=============================================================================
