----------------------------- MODULE MCDatabase -----------------------------
(***************************************************************************)
(* Small instances of the module Database for TLC.                         *)
(***************************************************************************)
EXTENDS DatabaseProperties, TLC

Book(i, seats)   == [op |-> "BOOK", id |-> i, args |-> seats]
Delete(i, seats) == [op |-> "DELETE", id |-> i, args |-> seats]
Map(i)           == [op |-> "MAP", id |-> i, args |-> <<>>]
Get(k)           == [op |-> "GET", id |-> New, args |-> <<k>>]
Set(k, v)        == [op |-> "SET", id |-> v, args |-> <<k>>]
AskId            == [op |-> "ID", id |-> New, args |-> <<>>]
Clean            == [op |-> "CLEAN", id |-> New, args |-> <<>>]

(* Overlapping bookings in both orders, of one and of two seats, with and  *)
(* without a code, and the requests that undo or read them: a client with  *)
(* a code adds a seat, cancels, or looks at the hall.                      *)
BookingRequests ==
    { Book(New, <<0, 1>>), Book(New, <<1, 0>>), Book(New, <<0>>), Book(New, <<0, 0>>),
      Book(1, <<1>>), Delete(1, <<0>>), Delete(1, <<0, 1>>), Map(1), Map(New), AskId }

(* Bookings while the hall is cleaned. *)
CleanRequests == { Book(New, <<0>>), Book(New, <<1>>), Clean }

CONSTANT film

(* The bookings, and the settings next to them. *)
HallRequests == { Book(New, <<0, 1>>), Book(New, <<1, 0>>), Book(1, <<0>>), Delete(1, <<0, 1>>),
                  Map(New), AskId, Get(film), Set(film, 7) }

ThreadSymmetry == Permutations(Threads)

=============================================================================
