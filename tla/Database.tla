------------------------------ MODULE Database ------------------------------
(***************************************************************************)
(* The stored procedures of the reservation server                         *)
(* (server/cinemad/database.c) run by concurrent request handlers.  Every  *)
(* key of the storage has a reader-writer lock; a procedure takes it,      *)
(* loads or stores the value and gives it back, and BOOK is the only       *)
(* procedure that holds several locks at a time (two-phase locking over    *)
(* the seats in ascending order).  A handler takes one request from its    *)
(* connection, executes it and sends the result back.                      *)
(*                                                                         *)
(* A cell holds a number: 0 is a free seat, another value the booking code *)
(* stored in it.  What the storage does for one load or one store is the   *)
(* subject of the module Storage.                                          *)
(*                                                                         *)
(* Bound: MaxRequests, the number of requests of a behaviour.              *)
(***************************************************************************)
EXTENDS Integers, Sequences, Functions

CONSTANTS
    Threads,      \* the request handlers alive at a time
    NSeats,       \* cinema_info.rows * cinema_info.columns
    IdCounter,    \* the key ID_COUNTER
    Settings,     \* the other keys: FILM, SHOWTIME, ...
    NoThread,     \* holder of a lock nobody holds
    Fail, Succ,   \* MSG_FAIL and MSG_SUCC
    Requests,     \* the requests clients may send: [op, id, args]
    SharedCodes,  \* may two requests in flight present the same code?
    MaxRequests   \* bound on the number of requests

New   == -1                          \* the id of a client without a code
Seats == 0 .. NSeats - 1
Keys  == Seats \cup {IdCounter} \cup Settings

Ops     == {"BOOK", "DELETE", "MAP", "GET", "SET", "ID", "CLEAN"}
NoReq   == [op |-> "NONE", id |-> New, args |-> <<>>]
Carries(r) == r.op \in {"BOOK", "DELETE", "MAP"} /\ r.id # New

ASSUME SizeAssumption == NSeats \in Nat /\ MaxRequests \in Nat

ASSUME KeyAssumption ==
    /\ IdCounter \notin Seats
    /\ Settings \cap (Seats \cup {IdCounter}) = {}

ASSUME ValueAssumption ==
    /\ NoThread \notin Threads
    /\ Fail \notin Nat /\ Succ \notin Nat /\ Fail # Succ
    /\ SharedCodes \in BOOLEAN

ASSUME RequestAssumption ==
    \A r \in Requests :
        /\ r = [op |-> r.op, id |-> r.id, args |-> r.args]
        /\ r.op \in Ops
        /\ r.op \in {"BOOK", "DELETE", "MAP"} => r.id \in (Nat \ {0}) \cup {New}
        /\ r.op = "SET" => r.id \in Nat
        /\ r.op \in {"GET", "ID", "CLEAN"} => r.id = New
        /\ r.args \in Seq(Keys)
        /\ r.op \in {"BOOK", "DELETE"} => r.args \in Seq(Seats) /\ r.args # <<>>
        /\ r.op \in {"GET", "SET"} => Len(r.args) = 1
        /\ r.op \in {"MAP", "ID", "CLEAN"} => r.args = <<>>

VARIABLES
    cell,      \* cell[k]: the value stored under key k
    writer,    \* writer[k]: the handler holding the lock of k exclusively
    readers,   \* readers[k]: the handlers holding it shared
    pc,        \* pc[t]: where handler t is
    req,       \* req[t]: the request it executes
    id,        \* id[t]: the local id of procedure_book and procedure_unbook
    todo,      \* todo[t]: seats left in the current loop of procedure_book
    at,        \* at[t]: the index of the current loop of the other procedures
    val,       \* val[t]: the value loaded last
    view,      \* view[t]: the digits procedure_map wrote so far
    result,    \* result[t]: what the procedure answers
    known,     \* the codes clients have received
    budget     \* the requests still to come

locals == <<req, id, todo, at, val, view, result>>
locks  == <<writer, readers>>
vars   == <<cell, locks, pc, locals, known, budget>>

-----------------------------------------------------------------------------
(* Auxiliary operators *)

AllSeats == [i \in 1 .. NSeats |-> i - 1]

(* The keys a looping procedure visits, in order. *)
KeyList(r) ==
    IF r.op = "MAP" THEN AllSeats
    ELSE IF r.op = "CLEAN" THEN Append(AllSeats, IdCounter)
    ELSE r.args

Cursor(t) == KeyList(req[t])[at[t]]

(* Mutant: the loop runs once too often. *)
MoreOffByOne(t) == at[t] <= Len(KeyList(req[t]))

More(t) == at[t] < Len(KeyList(req[t]))

(* The seats of the request of a handler that executes BOOK. *)
SeatsOf(t) == Range(req[t].args)

(* s is the next seat of the current ascending loop of procedure_book. *)
IsNext(t, s) == s \in todo[t] /\ \A x \in todo[t] : s <= x

Goto(t, l)   == pc' = [pc EXCEPT ![t] = l]
Answer(t, v) == Goto(t, "done") /\ result' = [result EXCEPT ![t] = v]

(* Mutant: the loop ends after its first seat. *)
AdvanceOnce(t, s, l, S) == Goto(t, l) /\ todo' = [todo EXCEPT ![t] = S]

(* One iteration of such a loop: on to the next seat, or to label l with   *)
(* the set S of seats of the loop that follows.                            *)
Advance(t, s, l, S) ==
    IF todo[t] = {s}
    THEN Goto(t, l) /\ todo' = [todo EXCEPT ![t] = S]
    ELSE todo' = [todo EXCEPT ![t] = @ \ {s}] /\ UNCHANGED pc

(* Mutant: the lock is taken without waiting for its holders. *)
LockNoWait(t, k) ==
    /\ writer' = [writer EXCEPT ![k] = t]
    /\ UNCHANGED readers

(* Mutant: the lock is never given back. *)
UnlockForgotten(k) == UNCHANGED locks

(* storage_lock_exclusive, storage_lock_shared, storage_unlock *)
LockExclusive(t, k) ==
    /\ writer[k] = NoThread /\ readers[k] = {}
    /\ writer' = [writer EXCEPT ![k] = t]
    /\ UNCHANGED readers

LockShared(t, k) ==
    /\ writer[k] = NoThread
    /\ readers' = [readers EXCEPT ![k] = @ \cup {t}]
    /\ UNCHANGED writer

UnlockExclusive(k) ==
    /\ writer' = [writer EXCEPT ![k] = NoThread]
    /\ UNCHANGED readers

UnlockShared(t, k) ==
    /\ readers' = [readers EXCEPT ![k] = @ \ {t}]
    /\ UNCHANGED writer

-----------------------------------------------------------------------------
(* The state after procedure_populate and procedure_setup: every key       *)
(* exists, the seats are free, the counter is 0.                           *)
Init ==
    /\ cell = [k \in Keys |-> 0]
    /\ writer = [k \in Keys |-> NoThread]
    /\ readers = [k \in Keys |-> {}]
    /\ pc = [t \in Threads |-> "idle"]
    /\ req = [t \in Threads |-> NoReq]
    /\ id = [t \in Threads |-> New]
    /\ todo = [t \in Threads |-> {}]
    /\ at = [t \in Threads |-> 1]
    /\ val = [t \in Threads |-> 0]
    /\ view = [t \in Threads |-> <<>>]
    /\ result = [t \in Threads |-> Succ]
    /\ known = {}
    /\ budget = MaxRequests

(* A client presents only a code it has received.  With SharedCodes FALSE  *)
(* it also keeps its code to itself and waits for an answer before it      *)
(* sends the next request, as the client program does.                     *)
Presentable(r) ==
    Carries(r) =>
        /\ r.id \in known
        /\ ~SharedCodes => \A u \in Threads :
                pc[u] # "idle" /\ Carries(req[u]) => req[u].id # r.id

(* BOOK of a seat named twice and MAP of an empty hall fail at once. *)
Rejected(r) ==
    \/ r.op = "BOOK" /\ ~IsInjective(r.args)
    \/ r.op = "MAP" /\ NSeats = 0

(* The dispatch of database_execute: where a request starts. *)
Dispatch(t, r) ==
    \/ Rejected(r) /\ Answer(t, Fail) /\ UNCHANGED todo
    \/ /\ ~Rejected(r) /\ r.op = "BOOK" /\ Goto(t, "book_lock")
       /\ todo' = [todo EXCEPT ![t] = Range(r.args)] /\ UNCHANGED result
    \/ r.op = "ID" /\ Goto(t, "id_lock") /\ UNCHANGED <<todo, result>>
    \/ /\ ~Rejected(r) /\ r.op \in {"GET", "MAP", "DELETE"} /\ Goto(t, "get_lock")
       /\ UNCHANGED <<todo, result>>
    \/ r.op \in {"SET", "CLEAN"} /\ Goto(t, "set_lock") /\ UNCHANGED <<todo, result>>

(* A request arrives and its handler enters the procedure. *)
Receive(t, r) ==
    /\ pc[t] = "idle"
    /\ budget > 0
    /\ Presentable(r)
    /\ budget' = budget - 1
    /\ req' = [req EXCEPT ![t] = r]
    /\ id' = [id EXCEPT ![t] = r.id]
    /\ Dispatch(t, r)
    /\ UNCHANGED <<cell, locks, at, val, view, known>>

-----------------------------------------------------------------------------
(* BOOK: lock every seat in ascending order, check them, store, unlock. *)

BookLock(t) ==
    /\ pc[t] = "book_lock"
    /\ \E s \in Seats :
        /\ IsNext(t, s)
        /\ LockExclusive(t, s)
        /\ Advance(t, s, "book_load", SeatsOf(t))
    /\ UNCHANGED <<cell, req, id, at, val, view, result, known, budget>>

(* Mutant: only the last seat is checked. *)
BookLoadLastOnly(t) ==
    /\ pc[t] = "book_load"
    /\ \E s \in Seats :
        /\ IsNext(t, s)
        /\ IF cell[s] = 0 \/ todo[t] # {s}
           THEN Advance(t, s, IF id[t] = New THEN "id_lock" ELSE "book_store", SeatsOf(t))
           ELSE Goto(t, "book_abort") /\ todo' = [todo EXCEPT ![t] = SeatsOf(t)]
    /\ UNCHANGED <<cell, locks, req, id, at, val, view, result, known, budget>>

(* All seats free: a client without a code gets one before the seats are   *)
(* stored, the others go straight to the stores.                           *)
BookLoad(t) ==
    /\ pc[t] = "book_load"
    /\ \E s \in Seats :
        /\ IsNext(t, s)
        /\ IF cell[s] = 0
           THEN Advance(t, s, IF id[t] = New THEN "id_lock" ELSE "book_store", SeatsOf(t))
           ELSE Goto(t, "book_abort") /\ todo' = [todo EXCEPT ![t] = SeatsOf(t)]
    /\ UNCHANGED <<cell, locks, req, id, at, val, view, result, known, budget>>

BookStore(t) ==
    /\ pc[t] = "book_store"
    /\ \E s \in Seats :
        /\ IsNext(t, s)
        /\ cell' = [cell EXCEPT ![s] = id[t]]
        /\ Advance(t, s, "book_unlock", SeatsOf(t))
        /\ result' = [result EXCEPT ![t] = IF todo[t] = {s} THEN id[t] ELSE @]
    /\ UNCHANGED <<locks, req, id, at, val, view, known, budget>>

BookUnlock(t) ==
    /\ pc[t] = "book_unlock"
    /\ \E s \in Seats :
        /\ IsNext(t, s)
        /\ UnlockExclusive(s)
        /\ Advance(t, s, "done", {})
    /\ UNCHANGED <<cell, req, id, at, val, view, result, known, budget>>

BookAbort(t) ==
    /\ pc[t] = "book_abort"
    /\ \E s \in Seats :
        /\ IsNext(t, s)
        /\ UnlockExclusive(s)
        /\ Advance(t, s, "done", {})
        /\ result' = [result EXCEPT ![t] = IF todo[t] = {s} THEN Fail ELSE @]
    /\ UNCHANGED <<cell, req, id, at, val, view, known, budget>>

-----------------------------------------------------------------------------
(* ID: the next code, asked for by a client or from inside BOOK. *)

(* Mutant: the counter is read under a shared lock. *)
IdLockShared(t) ==
    /\ pc[t] = "id_lock"
    /\ LockShared(t, IdCounter)
    /\ Goto(t, "id_load")
    /\ UNCHANGED <<cell, locals, known, budget>>

IdLock(t) ==
    /\ pc[t] = "id_lock"
    /\ LockExclusive(t, IdCounter)
    /\ Goto(t, "id_load")
    /\ UNCHANGED <<cell, locals, known, budget>>

IdLoad(t) ==
    /\ pc[t] = "id_load"
    /\ val' = [val EXCEPT ![t] = cell[IdCounter]]
    /\ Goto(t, "id_store")
    /\ UNCHANGED <<cell, locks, req, id, todo, at, view, result, known, budget>>

IdStore(t) ==
    /\ pc[t] = "id_store"
    /\ cell' = [cell EXCEPT ![IdCounter] = val[t] + 1]
    /\ id' = [id EXCEPT ![t] = val[t] + 1]
    /\ Goto(t, "id_unlock")
    /\ UNCHANGED <<locks, req, todo, at, val, view, result, known, budget>>

IdUnlock(t) ==
    /\ pc[t] = "id_unlock"
    /\ UnlockExclusive(IdCounter)
    /\ IF req[t].op = "BOOK"
       THEN Goto(t, "book_store") /\ UNCHANGED result
       ELSE Answer(t, id[t])
    /\ UNCHANGED <<cell, req, id, todo, at, val, view, known, budget>>

-----------------------------------------------------------------------------
(* procedure_get: GET, every seat of MAP, the checks of DELETE. *)

GetLock(t) ==
    /\ pc[t] = "get_lock"
    /\ LockShared(t, Cursor(t))
    /\ Goto(t, "get_load")
    /\ UNCHANGED <<cell, locals, known, budget>>

GetLoad(t) ==
    /\ pc[t] = "get_load"
    /\ val' = [val EXCEPT ![t] = cell[Cursor(t)]]
    /\ Goto(t, "get_unlock")
    /\ UNCHANGED <<cell, locks, req, id, todo, at, view, result, known, budget>>

(* Mutant: own and foreign seats swapped. *)
DigitSwapped(v, i) == IF v = 0 THEN 0 ELSE IF v = i THEN 2 ELSE 1

(* What MAP shows of a seat: free, the asking client's, somebody else's. *)
Digit(v, i) == IF v = 0 THEN 0 ELSE IF v = i THEN 1 ELSE 2

GetReturns(t) ==
    /\ req[t].op = "GET"
    /\ Answer(t, val[t])
    /\ UNCHANGED <<at, view>>

MapNext(t) ==
    /\ req[t].op = "MAP"
    /\ view' = [view EXCEPT ![t] = Append(@, Digit(val[t], id[t]))]
    /\ IF More(t)
       THEN Goto(t, "get_lock") /\ at' = [at EXCEPT ![t] = @ + 1] /\ UNCHANGED result
       ELSE Answer(t, Succ) /\ UNCHANGED at

(* Mutant: only the first seat is compared with the code. *)
DeleteCheckFirst(t) ==
    /\ req[t].op = "DELETE"
    /\ IF val[t] # id[t] /\ at[t] = 1
       THEN Answer(t, Fail) /\ UNCHANGED at
       ELSE /\ Goto(t, IF More(t) THEN "get_lock" ELSE "set_lock")
            /\ at' = [at EXCEPT ![t] = IF More(t) THEN @ + 1 ELSE 1]
            /\ UNCHANGED result
    /\ UNCHANGED view

(* The first loop of DELETE; after the last check the second loop starts. *)
DeleteCheck(t) ==
    /\ req[t].op = "DELETE"
    /\ IF val[t] # id[t]
       THEN Answer(t, Fail) /\ UNCHANGED at
       ELSE /\ Goto(t, IF More(t) THEN "get_lock" ELSE "set_lock")
            /\ at' = [at EXCEPT ![t] = IF More(t) THEN @ + 1 ELSE 1]
            /\ UNCHANGED result
    /\ UNCHANGED view

GetUnlock(t) ==
    /\ pc[t] = "get_unlock"
    /\ UnlockShared(t, Cursor(t))
    /\ GetReturns(t) \/ MapNext(t) \/ DeleteCheck(t)
    /\ UNCHANGED <<cell, req, id, todo, val, known, budget>>

-----------------------------------------------------------------------------
(* procedure_set: SET, the second loop of DELETE, every key of CLEAN. *)

SetLock(t) ==
    /\ pc[t] = "set_lock"
    /\ LockExclusive(t, Cursor(t))
    /\ Goto(t, "set_store")
    /\ UNCHANGED <<cell, locals, known, budget>>

SetValue(t) == IF req[t].op = "SET" THEN id[t] ELSE 0

SetStore(t) ==
    /\ pc[t] = "set_store"
    /\ cell' = [cell EXCEPT ![Cursor(t)] = SetValue(t)]
    /\ Goto(t, "set_unlock")
    /\ UNCHANGED <<locks, locals, known, budget>>

SetUnlock(t) ==
    /\ pc[t] = "set_unlock"
    /\ UnlockExclusive(Cursor(t))
    /\ IF More(t)
       THEN Goto(t, "set_lock") /\ at' = [at EXCEPT ![t] = @ + 1] /\ UNCHANGED result
       ELSE Answer(t, Succ) /\ UNCHANGED at
    /\ UNCHANGED <<cell, req, id, todo, val, view, known, budget>>

-----------------------------------------------------------------------------
(* The codes an answer hands to a client. *)
Code(t) == IF req[t].op \in {"BOOK", "ID"} /\ result[t] # Fail THEN {result[t]} ELSE {}

(* The answer leaves; it may never reach a client that is gone. *)
Reply(t) ==
    /\ pc[t] = "done"
    /\ Goto(t, "idle")
    /\ known' = known \cup Code(t) \/ known' = known
    /\ req' = [req EXCEPT ![t] = NoReq]
    /\ id' = [id EXCEPT ![t] = New]
    /\ todo' = [todo EXCEPT ![t] = {}]
    /\ at' = [at EXCEPT ![t] = 1]
    /\ val' = [val EXCEPT ![t] = 0]
    /\ view' = [view EXCEPT ![t] = <<>>]
    /\ result' = [result EXCEPT ![t] = Succ]
    /\ UNCHANGED <<cell, locks, budget>>

(* The process dies and is started again: every handler and every lock is  *)
(* gone, every store was flushed, and procedure_setup finds all its seats. *)
Crash ==
    /\ \E t \in Threads : pc[t] # "idle"
    /\ writer' = [k \in Keys |-> NoThread]
    /\ readers' = [k \in Keys |-> {}]
    /\ pc' = [t \in Threads |-> "idle"]
    /\ req' = [t \in Threads |-> NoReq]
    /\ id' = [t \in Threads |-> New]
    /\ todo' = [t \in Threads |-> {}]
    /\ at' = [t \in Threads |-> 1]
    /\ val' = [t \in Threads |-> 0]
    /\ view' = [t \in Threads |-> <<>>]
    /\ result' = [t \in Threads |-> Succ]
    /\ UNCHANGED <<cell, known, budget>>

(* The steps of a handler once it has its request. *)
Work(t) ==
    \/ BookLock(t) \/ BookLoad(t) \/ BookStore(t) \/ BookUnlock(t) \/ BookAbort(t)
    \/ IdLock(t) \/ IdLoad(t) \/ IdStore(t) \/ IdUnlock(t)
    \/ GetLock(t) \/ GetLoad(t) \/ GetUnlock(t)
    \/ SetLock(t) \/ SetStore(t) \/ SetUnlock(t)
    \/ Reply(t)

Step(t) == Work(t) \/ \E r \in Requests : Receive(t, r)

(* Every request was answered and no other comes. *)
Quiet == budget = 0 /\ (\A t \in Threads : pc[t] = "idle") /\ UNCHANGED vars

Next      == (\E t \in Threads : Step(t)) \/ Quiet
CrashNext == Next \/ Crash

Spec      == Init /\ [][Next]_vars
CrashSpec == Init /\ [][CrashNext]_vars

(* The scheduler runs every handler that can go on; no fairness for the    *)
(* clients, who may send nothing.                                          *)
LiveSpec  == Spec /\ \A t \in Threads : WF_vars(Work(t))

=============================================================================
