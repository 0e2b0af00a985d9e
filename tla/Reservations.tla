---------------------------- MODULE Reservations ----------------------------
(***************************************************************************)
(* What the stored procedures promise to the clients, without locks and    *)
(* without procedures: a hall of seats, each free or owned by a booking    *)
(* code, and a counter of the codes issued.  A booking takes all its seats *)
(* in one step, every one of them free; seats are given back one by one.   *)
(***************************************************************************)
EXTENDS Integers

CONSTANT NSeats

Seats == 0 .. NSeats - 1

VARIABLES
    owner,     \* owner[s]: the code seat s is booked with, 0 if it is free
    issued     \* how many codes were issued: the codes 1 .. issued

hall == <<owner, issued>>

Init == owner = [s \in Seats |-> 0] /\ issued = 0

(* A new code, never issued before. *)
Issue == issued' = issued + 1 /\ UNCHANGED owner

(* All of the seats S are taken with code c, or none. *)
Book(S, c) ==
    /\ \A s \in S : owner[s] = 0
    /\ owner' = [s \in Seats |-> IF s \in S THEN c ELSE owner[s]]
    /\ UNCHANGED issued

Release(s) ==
    /\ owner' = [owner EXCEPT ![s] = 0]
    /\ UNCHANGED issued

Next ==
    \/ Issue
    \/ \E S \in (SUBSET Seats) \ {{}}, c \in 1 .. issued : Book(S, c)
    \/ \E s \in Seats : Release(s)

Spec == Init /\ [][Next]_hall

=============================================================================
