------------------------- MODULE DatabaseProperties -------------------------
(***************************************************************************)
(* The properties of the module Database, and the mapping under which it   *)
(* implements Reservations.                                                *)
(***************************************************************************)
EXTENDS Database

BookLabels == {"book_lock", "book_load", "book_store", "book_unlock", "book_abort"}
IdLabels   == {"id_lock", "id_load", "id_store", "id_unlock"}
GetLabels  == {"get_lock", "get_load", "get_unlock"}
SetLabels  == {"set_lock", "set_store", "set_unlock"}
Labels     == BookLabels \cup IdLabels \cup GetLabels \cup SetLabels \cup {"idle", "done"}

Types ==
    /\ cell \in [Keys -> Nat]
    /\ writer \in [Keys -> Threads \cup {NoThread}]
    /\ readers \in [Keys -> SUBSET Threads]
    /\ pc \in [Threads -> Labels]
    /\ req \in [Threads -> Requests \cup {NoReq}]
    /\ id \in [Threads -> Nat \cup {New}]
    /\ todo \in [Threads -> SUBSET Seats]
    /\ at \in [Threads -> Nat \ {0}]
    /\ val \in [Threads -> Nat]
    /\ view \in [Threads -> Seq({0, 1, 2})]
    /\ result \in [Threads -> Nat \cup {Fail, Succ}]
    /\ known \in SUBSET (Nat \ {0})
    /\ budget \in 0 .. MaxRequests

(* Where a handler is fits the request it executes and its locals. *)
ControlOf(t) ==
    /\ pc[t] = "idle" => req[t] = NoReq /\ id[t] = New /\ at[t] = 1
    /\ pc[t] # "idle" => req[t] \in Requests
    /\ pc[t] \in BookLabels =>
        req[t].op = "BOOK" /\ todo[t] # {} /\ todo[t] \subseteq Range(req[t].args)
    /\ pc[t] \in {"book_lock", "book_load"} => id[t] = req[t].id
    /\ pc[t] \in IdLabels => req[t].op \in {"BOOK", "ID"} /\ req[t].id = New
    /\ pc[t] \in IdLabels /\ req[t].op = "BOOK" => todo[t] = Range(req[t].args)
    /\ pc[t] \in {"id_lock", "id_load", "id_store"} => id[t] = New
    /\ pc[t] \in GetLabels => req[t].op \in {"GET", "MAP", "DELETE"}
    /\ pc[t] \in SetLabels => req[t].op \in {"SET", "DELETE", "CLEAN"}
    /\ pc[t] \in GetLabels \cup SetLabels => at[t] \in 1 .. Len(KeyList(req[t]))
    /\ req[t].op \in {"BOOK", "ID"} => id[t] # 0
    /\ req[t].op = "SET" => id[t] # New
    /\ pc[t] \in {"id_unlock", "book_store", "book_unlock"} => id[t] # New
    /\ pc[t] = "book_unlock" => result[t] = id[t]
    /\ pc[t] = "done" /\ req[t].op \in {"BOOK", "ID"} => result[t] \in {id[t], Fail}
    /\ pc[t] = "done" /\ result[t] # Fail => id[t] # New \/ req[t].op \notin {"BOOK", "ID"}

(* Every variable has its type, and every handler is where its request and *)
(* its loop variables allow: the index of a loop never leaves the list of  *)
(* its keys, a seat is only stored with a real code, an answer is the code *)
(* the seats were stored with.                                             *)
TypeOK == Types /\ \A t \in Threads : ControlOf(t)

-----------------------------------------------------------------------------
(* Locking *)

(* Handler t holds the lock of key k exclusively, and shared. *)
HoldsExclusive(t, k) ==
    \/ pc[t] = "book_lock" /\ k \in SeatsOf(t) \ todo[t]
    \/ pc[t] \in {"book_load", "book_store"} \cup IdLabels /\ k \in SeatsOf(t)
    \/ pc[t] \in {"book_unlock", "book_abort"} /\ k \in todo[t]
    \/ pc[t] \in {"id_load", "id_store", "id_unlock"} /\ k = IdCounter
    \/ pc[t] \in {"set_store", "set_unlock"} /\ k = Cursor(t)

HoldsShared(t, k) == pc[t] \in {"get_load", "get_unlock"} /\ k = Cursor(t)

(* Every lock is held by exactly the handlers that are between taking and  *)
(* returning it, never by a writer and a reader together: no path of a     *)
(* procedure, the early returns and the abort of BOOK included, leaves a   *)
(* lock behind or gives back one that is somebody else's.                  *)
LockInv ==
    /\ \A k \in Keys, t \in Threads :
        /\ writer[k] = t <=> HoldsExclusive(t, k)
        /\ t \in readers[k] <=> HoldsShared(t, k)
    /\ \A k \in Keys : writer[k] # NoThread => readers[k] = {}

-----------------------------------------------------------------------------
(* Bookings *)

(* BOOK has checked seat s and not stored it yet. *)
Reserved(t, s) ==
    \/ pc[t] = "book_load" /\ s \in SeatsOf(t) \ todo[t]
    \/ pc[t] \in IdLabels /\ s \in SeatsOf(t)
    \/ pc[t] = "book_store" /\ s \in todo[t]

(* Between the check of a seat and its store, across the request of a new  *)
(* code, the seat stays free: what BOOK read is still true when it writes. *)
ChecksStayTrue ==
    \A t \in Threads, s \in Seats : Reserved(t, s) => cell[s] = 0

(* A booked seat is never handed to another code: it must be freed first.  *)
NoDoubleBooking ==
    [][\A s \in Seats : cell[s] # 0 => cell'[s] \in {0, cell[s]}]_vars

(* The request of t has been given a new code that no client has yet. *)
HasFreshCode(t) ==
    req[t].op \in {"BOOK", "ID"} /\ req[t].id = New /\ id[t] # New

(* A code on its way to a client is on no seat but those of its request:   *)
(* two bookings that are both alive never carry one code.                  *)
FreshCodeUnused ==
    \A t \in Threads : HasFreshCode(t) =>
        \A s \in Seats : cell[s] = id[t] => s \in SeatsOf(t)

(* Such a code is unique for good: no client has received it before, no    *)
(* other request was given it, no seat carries it from an earlier booking. *)
UniqueCodes ==
    /\ FreshCodeUnused
    /\ \A t \in Threads : HasFreshCode(t) =>
        /\ id[t] \notin known
        /\ \A u \in Threads : HasFreshCode(u) /\ u # t => id[u] # id[t]

(* DELETE frees a seat only while it carries the code of the request, or   *)
(* is already free: it never cancels the booking of another code.          *)
CancelsOnlyOwn ==
    \A t \in Threads : pc[t] = "set_store" /\ req[t].op = "DELETE" =>
        cell[Cursor(t)] \in {0, id[t]}

(* When BOOK answers a code, every seat of the request carries it.         *)
ConfirmedHolds ==
    \A t \in Threads : pc[t] = "done" /\ req[t].op = "BOOK" /\ result[t] # Fail =>
        \A s \in Range(req[t].args) : cell[s] = result[t]

(* MAP reads the seats one at a time while others book and cancel, and yet *)
(* shows its client exactly the seats that carry its code at the answer.   *)
MapShowsOwn ==
    \A t \in Threads : pc[t] = "done" /\ req[t].op = "MAP" /\ result[t] # Fail =>
        \A s \in Seats : view[t][s + 1] = 1 <=> id[t] # New /\ cell[s] = id[t]

(* Every request that arrives is answered. *)
EveryRequestAnswered ==
    \A t \in Threads : pc[t] # "idle" ~> pc[t] = "idle"

-----------------------------------------------------------------------------
(* The procedures implement Reservations.  A booking takes effect when     *)
(* BOOK, all seats locked and checked and its code at hand, comes to its   *)
(* first store; the seats it has not stored yet already count as its own.  *)
OwnerOf(s) ==
    IF \E t \in Threads : pc[t] = "book_store" /\ s \in todo[t]
    THEN id[CHOOSE t \in Threads : pc[t] = "book_store" /\ s \in todo[t]]
    ELSE cell[s]

Hall == INSTANCE Reservations WITH
            owner  <- [s \in Seats |-> OwnerOf(s)],
            issued <- cell[IdCounter]

(* Every step of a handler is a step of the abstract hall, or changes      *)
(* nothing there: bookings are all-or-nothing to every observer that takes *)
(* the locks, and the codes come from a counter that only grows.           *)
ImplementsReservations == Hall!Spec

=============================================================================
