--------------------------- MODULE DatabaseProofs ---------------------------
(***************************************************************************)
(* Proofs of the safety properties of the module Database for any number   *)
(* of handlers, seats, keys and requests.                                  *)
(***************************************************************************)
EXTENDS DatabaseProperties, FiniteSetTheorems, TLAPS

(* The keys of a looping procedure are keys of the storage.                *)
LEMMA KeyListType ==
    ASSUME NEW r \in Requests
    PROVE  KeyList(r) \in Seq(Keys)
<1>1. AllSeats \in Seq(Keys)
  BY SizeAssumption DEF AllSeats, Keys, Seats
<1>2. Append(AllSeats, IdCounter) \in Seq(Keys)
  BY <1>1 DEF Keys
<1>3. r.args \in Seq(Keys)
  BY RequestAssumption
<1> QED
  BY <1>1, <1>2, <1>3 DEF KeyList

(* The key a looping procedure is at. *)
LEMMA CursorType ==
    ASSUME NEW t \in Threads, req[t] \in Requests, at[t] \in 1 .. Len(KeyList(req[t]))
    PROVE  Cursor(t) \in Keys
BY KeyListType DEF Cursor

(* The start of the server has its types. *)
LEMMA InitTypeOK == Init => TypeOK
<1> SUFFICES ASSUME Init PROVE TypeOK
  OBVIOUS
<1>1. Types
  BY SizeAssumption, ValueAssumption
     DEF Init, Types, Labels, New, Keys, NoReq, BookLabels
<1>2. \A t \in Threads : ControlOf(t)
  BY DEF Init, ControlOf, BookLabels, IdLabels, GetLabels, SetLabels, NoReq
<1> QED
  BY <1>1, <1>2 DEF TypeOK

(* A handler whose locals a step leaves alone stays where it was. *)
LEMMA ControlFrame ==
    ASSUME NEW u \in Threads, ControlOf(u),
           pc'[u] = pc[u], req'[u] = req[u], id'[u] = id[u], todo'[u] = todo[u],
           at'[u] = at[u], result'[u] = result[u]
    PROVE  ControlOf(u)'
BY DEF ControlOf, KeyList

(* What the assumptions say of a request a client may send. *)
LEMMA RequestFacts ==
    ASSUME NEW r \in Requests
    PROVE  /\ r.op \in Ops
           /\ r.id \in Nat \cup {New}
           /\ r.op \in {"BOOK", "ID"} => r.id # 0
           /\ r.op = "SET" => r.id # New
           /\ r.op = "ID" => r.id = New /\ Range(r.args) = {}
           /\ r.op \in {"BOOK", "DELETE"} => Range(r.args) \in SUBSET Seats
           /\ r.op = "BOOK" => Range(r.args) # {}
           /\ ~Rejected(r) /\ r.op \notin {"BOOK", "ID"} => 1 \in 1 .. Len(KeyList(r))
<1>1. /\ r.op \in Ops
      /\ r.op \in {"BOOK", "DELETE"} => r.args \in Seq(Seats) /\ r.args # <<>>
      /\ r.op \in {"GET", "SET"} => Len(r.args) = 1
      /\ r.op \in {"MAP", "ID", "CLEAN"} => r.args = <<>>
      /\ r.id \in Nat \cup {New}
      /\ r.op \in {"BOOK", "ID"} => r.id # 0
      /\ r.op = "SET" => r.id # New
      /\ r.op = "ID" => r.id = New
  BY RequestAssumption DEF Ops, New
<1>2. r.op = "ID" => Range(r.args) = {}
  BY <1>1 DEF Range
<1>3. r.op \in {"BOOK", "DELETE"} => Range(r.args) \in SUBSET Seats
  BY <1>1 DEF Range
<1>4. r.op = "BOOK" => Range(r.args) # {}
  <2>1. r.op = "BOOK" => 1 \in DOMAIN r.args
    BY <1>1
  <2>2. 1 \in DOMAIN r.args => r.args[1] \in Range(r.args)
    BY DEF Range
  <2> QED
    BY <2>1, <2>2
<1>5. ~Rejected(r) /\ r.op \notin {"BOOK", "ID"} => 1 \in 1 .. Len(KeyList(r))
  <2>1. Len(AllSeats) = NSeats /\ AllSeats \in Seq(Keys)
    BY SizeAssumption DEF AllSeats, Keys, Seats
  <2>2. CASE r.op = "MAP"
    BY <2>1, <2>2, SizeAssumption DEF KeyList, Rejected
  <2>3. CASE r.op = "CLEAN"
    <3>1. Len(KeyList(r)) = NSeats + 1
      BY <2>1, <2>3 DEF KeyList
    <3> QED
      BY <3>1, SizeAssumption
  <2>4. CASE r.op \in {"GET", "SET", "DELETE"}
    <3>1. CASE r.op = "DELETE"
      BY <1>1, <3>1 DEF KeyList
    <3>2. CASE r.op \in {"GET", "SET"}
      <4>1. KeyList(r) = r.args /\ Len(r.args) = 1
        BY <1>1, <3>2 DEF KeyList
      <4> QED
        BY <4>1
    <3> QED
      BY <2>4, <3>1, <3>2
  <2> QED
    BY <1>1, <2>2, <2>3, <2>4 DEF Ops
<1> QED
  BY <1>1, <1>2, <1>3, <1>4, <1>5

(* The request a handler takes is of its type. *)
LEMMA ReceiveTypeOK ==
    ASSUME TypeOK, NEW t \in Threads, NEW r \in Requests, Receive(t, r)
    PROVE  TypeOK'
<1>1. Types /\ ControlOf(t) /\ pc[t] = "idle"
  BY DEF TypeOK, Receive
<1>2. PICK l \in {"book_lock", "id_lock", "get_lock", "set_lock", "done"} :
        /\ pc' = [pc EXCEPT ![t] = l]
        /\ l = "book_lock" => r.op = "BOOK" /\ todo' = [todo EXCEPT ![t] = Range(r.args)]
        /\ l # "book_lock" => todo' = todo
        /\ l = "id_lock" => r.op = "ID"
        /\ l = "get_lock" => ~Rejected(r) /\ r.op \in {"GET", "MAP", "DELETE"}
        /\ l = "set_lock" => ~Rejected(r) /\ r.op \in {"SET", "CLEAN"}
        /\ result' = IF l = "done" THEN [result EXCEPT ![t] = Fail] ELSE result
  BY DEF Receive, Dispatch, Goto, Answer, Rejected
<1>3. /\ req' = [req EXCEPT ![t] = r] /\ id' = [id EXCEPT ![t] = r.id]
      /\ budget' = budget - 1 /\ budget > 0
      /\ UNCHANGED <<cell, writer, readers, at, val, view, known>>
  BY DEF Receive, locks
<1>4. Types'
  <2>1. pc' \in [Threads -> Labels]
    <3>1. l \in Labels
      BY DEF Labels, BookLabels, IdLabels, GetLabels, SetLabels
    <3> QED
      BY <1>1, <1>2, <3>1 DEF Types
  <2>2. req' \in [Threads -> Requests \cup {NoReq}]
    BY <1>1, <1>3 DEF Types
  <2>3. id' \in [Threads -> Nat \cup {New}]
    BY <1>1, <1>3, RequestFacts DEF Types
  <2>4. todo' \in [Threads -> SUBSET Seats]
    BY <1>1, <1>2, RequestFacts DEF Types
  <2>5. result' \in [Threads -> Nat \cup {Fail, Succ}]
    BY <1>1, <1>2 DEF Types
  <2>6. budget' \in 0 .. MaxRequests
    BY <1>1, <1>3, SizeAssumption DEF Types
  <2> QED
    BY <1>1, <1>3, <2>1, <2>2, <2>3, <2>4, <2>5, <2>6 DEF Types
<1>5. ControlOf(t)'
  <2>1. pc'[t] = l /\ req'[t] = r /\ id'[t] = r.id /\ at'[t] = 1
    BY <1>1, <1>2, <1>3 DEF Types, ControlOf
  <2>2. l = "book_lock" => todo'[t] = Range(r.args)
    BY <1>1, <1>2 DEF Types
  <2>3. l = "done" => result'[t] = Fail
    BY <1>1, <1>2 DEF Types
  <2> QED
    BY <1>2, <2>1, <2>2, <2>3, RequestFacts
       DEF ControlOf, BookLabels, IdLabels, GetLabels, SetLabels
<1>6. \A u \in Threads \ {t} : ControlOf(u)'
  BY <1>1, <1>2, <1>3, ControlFrame DEF TypeOK, Types
<1> QED
  BY <1>4, <1>5, <1>6 DEF TypeOK

(* The seats of a booking are seats of the hall, in every loop over them. *)
LEMMA AdvanceType ==
    ASSUME NEW t \in Threads, Types, ControlOf(t), pc[t] \in BookLabels, NEW s, NEW l,
           Advance(t, s, l, SeatsOf(t)) \/ Advance(t, s, l, {})
    PROVE  todo' \in [Threads -> SUBSET Seats]
<1>1. req[t] \in Requests /\ req[t].op = "BOOK"
  BY DEF ControlOf, BookLabels, Labels
<1>2. SeatsOf(t) \in SUBSET Seats
  BY <1>1, RequestFacts DEF SeatsOf
<1>3. todo \in [Threads -> SUBSET Seats] /\ todo[t] \in SUBSET Seats
  BY DEF Types
<1>4. todo[t] \ {s} \in SUBSET Seats
  BY <1>3
<1>5. PICK x \in SUBSET Seats : todo' = [todo EXCEPT ![t] = x]
  BY <1>2, <1>4 DEF Advance
<1> QED
  BY <1>3, <1>5

(* Every label is one. *)
LEMMA LabelFacts ==
    /\ "idle" \in Labels /\ "done" \in Labels
    /\ "book_lock" \in Labels /\ "book_load" \in Labels /\ "book_store" \in Labels
    /\ "book_unlock" \in Labels /\ "book_abort" \in Labels
    /\ "id_lock" \in Labels /\ "id_load" \in Labels /\ "id_store" \in Labels
    /\ "id_unlock" \in Labels
    /\ "get_lock" \in Labels /\ "get_load" \in Labels /\ "get_unlock" \in Labels
    /\ "set_lock" \in Labels /\ "set_store" \in Labels /\ "set_unlock" \in Labels
BY DEF Labels, BookLabels, IdLabels, GetLabels, SetLabels

(* A step of a handler leaves every handler at a label. *)
LEMMA WorkLabel ==
    ASSUME Types, NEW t \in Threads, Work(t)
    PROVE  pc' \in [Threads -> Labels]
<1> DEFINE Moves == pc' = pc \/ \E l \in Labels : pc' = [pc EXCEPT ![t] = l]
<1> SUFFICES Moves
  BY DEF Types
<1>1. ASSUME NEW s, NEW STATE l, l \in Labels, NEW STATE S, Advance(t, s, l, S)
      PROVE  Moves
  BY <1>1 DEF Advance, Goto
<1>2. ASSUME NEW STATE l, l \in Labels, Goto(t, l) PROVE Moves
  BY <1>2 DEF Goto
<1>3. CASE BookLock(t)
  BY <1>1, <1>3, LabelFacts DEF BookLock
<1>4. CASE BookLoad(t)
  <2>1. (IF id[t] = New THEN "id_lock" ELSE "book_store") \in Labels
    BY LabelFacts
  <2> QED
    BY <1>1, <1>2, <1>4, <2>1, LabelFacts DEF BookLoad
<1>5. CASE BookStore(t)
  BY <1>1, <1>5, LabelFacts DEF BookStore
<1>6. CASE BookUnlock(t)
  BY <1>1, <1>6, LabelFacts DEF BookUnlock
<1>7. CASE BookAbort(t)
  BY <1>1, <1>7, LabelFacts DEF BookAbort
<1>8. CASE IdLock(t) \/ IdLoad(t) \/ IdStore(t) \/ IdUnlock(t)
  BY <1>2, <1>8, LabelFacts DEF IdLock, IdLoad, IdStore, IdUnlock, Answer
<1>9. CASE GetLock(t) \/ GetLoad(t)
  BY <1>2, <1>9, LabelFacts DEF GetLock, GetLoad
<1>10. CASE GetUnlock(t)
  <2>1. (IF More(t) THEN "get_lock" ELSE "set_lock") \in Labels
    BY LabelFacts
  <2> QED
    BY <1>2, <1>10, <2>1, LabelFacts DEF GetUnlock, GetReturns, MapNext, DeleteCheck, Answer
<1>11. CASE SetLock(t) \/ SetStore(t) \/ SetUnlock(t)
  BY <1>2, <1>11, LabelFacts DEF SetLock, SetStore, SetUnlock, Answer
<1>12. CASE Reply(t)
  BY <1>2, <1>12, LabelFacts DEF Reply
<1> QED
  BY <1>3, <1>4, <1>5, <1>6, <1>7, <1>8, <1>9, <1>10, <1>11, <1>12 DEF Work

(* A step of a handler leaves the locals of the others alone. *)
LEMMA WorkFrame ==
    ASSUME Types, NEW t \in Threads, Work(t), NEW u \in Threads \ {t}
    PROVE  /\ pc'[u] = pc[u] /\ req'[u] = req[u] /\ id'[u] = id[u] /\ todo'[u] = todo[u]
           /\ at'[u] = at[u] /\ result'[u] = result[u]
BY DEF Types, Work, BookLock, BookLoad, BookStore, BookUnlock, BookAbort,
       IdLock, IdLoad, IdStore, IdUnlock, GetLock, GetLoad, GetUnlock, SetLock, SetStore,
       SetUnlock, Reply, Advance, Goto, Answer, GetReturns, MapNext, DeleteCheck, locals

(* A step of a handler keeps types and control: one case per action. *)
LEMMA WorkTypeOK ==
    ASSUME TypeOK, NEW t \in Threads, Work(t)
    PROVE  TypeOK'
<1>1. Types /\ ControlOf(t)
  BY DEF TypeOK
<1>2. \A u \in Threads \ {t} : ControlOf(u)'
  BY WorkFrame, ControlFrame DEF TypeOK
<1>3. ASSUME BookLock(t) PROVE Types' /\ ControlOf(t)'
  <2>1. writer' \in [Keys -> Threads \cup {NoThread}]
    BY <1>1, <1>3 DEF Types, BookLock, LockExclusive, Advance, IsNext
  <2>2. pc' \in [Threads -> Labels]
    BY <1>1, WorkLabel
  <2>3. todo' \in [Threads -> SUBSET Seats]
    BY <1>1, <1>3, AdvanceType DEF BookLock, BookLabels
  <2>4. UNCHANGED <<cell, readers, req, id, at, val, view, result, known, budget>>
    BY <1>3 DEF BookLock, locks, locals, LockExclusive, Advance, IsNext
  <2>5. Types'
    BY <1>1, <2>1, <2>2, <2>3, <2>4 DEF Types
  <2>6. ControlOf(t)'
    BY <1>1, <1>3, ValueAssumption, RequestFacts
       DEF Types, ControlOf, BookLock, Goto, Answer, SeatsOf, locals, locks, New, More,
           BookLabels, IdLabels, GetLabels, SetLabels, LockExclusive, Advance, IsNext
  <2> QED
    BY <2>5, <2>6
<1>4. ASSUME BookLoad(t) PROVE Types' /\ ControlOf(t)'
  <2>1. pc' \in [Threads -> Labels]
    BY <1>1, WorkLabel
  <2>2. todo' \in [Threads -> SUBSET Seats]
    <3>1. SeatsOf(t) \in SUBSET Seats
      BY <1>1, <1>4, RequestFacts DEF BookLoad, ControlOf, SeatsOf, BookLabels
    <3> QED
      BY <1>1, <1>4, <3>1, AdvanceType DEF BookLoad, BookLabels, Types
  <2>3. UNCHANGED <<cell, writer, readers, req, id, at, val, view, result, known, budget>>
    BY <1>4 DEF BookLoad, locks, locals, Advance, IsNext
  <2>4. Types'
    BY <1>1, <2>1, <2>2, <2>3 DEF Types
  <2>5. ControlOf(t)'
    <3>1. PICK s \in Seats : IsNext(t, s) /\
            IF cell[s] = 0
            THEN Advance(t, s, IF id[t] = New THEN "id_lock" ELSE "book_store", SeatsOf(t))
            ELSE Goto(t, "book_abort") /\ todo' = [todo EXCEPT ![t] = SeatsOf(t)]
      BY <1>4 DEF BookLoad
    <3>2. /\ pc[t] = "book_load" /\ req[t].op = "BOOK" /\ req[t] \in Requests /\ id[t] # 0
          /\ todo[t] # {} /\ todo[t] \subseteq Range(req[t].args) /\ s \in todo[t]
          /\ UNCHANGED <<req, id, at, result>> /\ id[t] = New => req[t].id = New
      BY <1>1, <1>4, <3>1 DEF BookLoad, ControlOf, IsNext, BookLabels, locals
    <3>3. Range(req[t].args) # {}
      BY <3>2
    <3>4. \/ pc'[t] = "id_lock" /\ id[t] = New /\ todo'[t] = Range(req[t].args)
          \/ pc'[t] = "book_store" /\ id[t] # New /\ todo'[t] = Range(req[t].args)
          \/ pc'[t] = "book_abort" /\ todo'[t] = Range(req[t].args)
          \/ pc'[t] = "book_load" /\ todo'[t] = todo[t] \ {s} /\ todo[t] # {s}
      BY <1>1, <3>1, <3>2 DEF Advance, Goto, SeatsOf, Types
    <3>5. pc'[t] = "book_load" => todo'[t] # {} /\ todo'[t] \subseteq Range(req[t].args)
      BY <3>2, <3>4
    <3>6. req'[t] = req[t] /\ id'[t] = id[t] /\ id[t] = req[t].id
      BY <1>1, <1>4, <3>2 DEF ControlOf, BookLoad
    <3> QED
      BY <3>2, <3>3, <3>4, <3>5, <3>6 DEF ControlOf, BookLabels, IdLabels, GetLabels, SetLabels
  <2> QED
    BY <2>4, <2>5
<1>5. ASSUME BookStore(t) PROVE Types' /\ ControlOf(t)'
  <2>1. cell' \in [Keys -> Nat]
    BY <1>1, <1>5 DEF Types, BookStore, ControlOf, New, Advance, IsNext
  <2>2. pc' \in [Threads -> Labels]
    BY <1>1, WorkLabel
  <2>3. todo' \in [Threads -> SUBSET Seats]
    BY <1>1, <1>5, AdvanceType DEF BookStore, BookLabels
  <2>4. result' \in [Threads -> Nat \cup {Fail, Succ}]
    BY <1>1, <1>5 DEF Types, BookStore, Answer, ControlOf, Advance, IsNext
  <2>5. UNCHANGED <<writer, readers, req, id, at, val, view, known, budget>>
    BY <1>5 DEF BookStore, locks, locals, Advance, IsNext
  <2>6. Types'
    BY <1>1, <2>1, <2>2, <2>3, <2>4, <2>5 DEF Types
  <2>7. ControlOf(t)'
    BY <1>1, <1>5, ValueAssumption, RequestFacts
       DEF Types, ControlOf, BookStore, Goto, Answer, SeatsOf, locals, locks, New, More,
           BookLabels, IdLabels, GetLabels, SetLabels, Advance, IsNext
  <2> QED
    BY <2>6, <2>7
<1>6. ASSUME BookUnlock(t) PROVE Types' /\ ControlOf(t)'
  <2>1. writer' \in [Keys -> Threads \cup {NoThread}]
    BY <1>1, <1>6 DEF Types, BookUnlock, UnlockExclusive, Advance, IsNext
  <2>2. pc' \in [Threads -> Labels]
    BY <1>1, WorkLabel
  <2>3. todo' \in [Threads -> SUBSET Seats]
    BY <1>1, <1>6, AdvanceType DEF BookUnlock, BookLabels
  <2>4. UNCHANGED <<cell, readers, req, id, at, val, view, result, known, budget>>
    BY <1>6 DEF BookUnlock, locks, locals, UnlockExclusive, Advance, IsNext
  <2>5. Types'
    BY <1>1, <2>1, <2>2, <2>3, <2>4 DEF Types
  <2>6. ControlOf(t)'
    BY <1>1, <1>6, ValueAssumption, RequestFacts
       DEF Types, ControlOf, BookUnlock, Goto, Answer, SeatsOf, locals, locks, New, More,
           BookLabels, IdLabels, GetLabels, SetLabels, UnlockExclusive, Advance, IsNext
  <2> QED
    BY <2>5, <2>6
<1>7. ASSUME BookAbort(t) PROVE Types' /\ ControlOf(t)'
  <2>1. writer' \in [Keys -> Threads \cup {NoThread}]
    BY <1>1, <1>7 DEF Types, BookAbort, UnlockExclusive, Advance, IsNext
  <2>2. pc' \in [Threads -> Labels]
    BY <1>1, WorkLabel
  <2>3. todo' \in [Threads -> SUBSET Seats]
    BY <1>1, <1>7, AdvanceType DEF BookAbort, BookLabels
  <2>4. result' \in [Threads -> Nat \cup {Fail, Succ}]
    BY <1>1, <1>7 DEF Types, BookAbort, Answer, ControlOf, UnlockExclusive, Advance, IsNext
  <2>5. UNCHANGED <<cell, readers, req, id, at, val, view, known, budget>>
    BY <1>7 DEF BookAbort, locks, locals, UnlockExclusive, Advance, IsNext
  <2>6. Types'
    BY <1>1, <2>1, <2>2, <2>3, <2>4, <2>5 DEF Types
  <2>7. ControlOf(t)'
    BY <1>1, <1>7, ValueAssumption, RequestFacts
       DEF Types, ControlOf, BookAbort, Goto, Answer, SeatsOf, locals, locks, New, More,
           BookLabels, IdLabels, GetLabels, SetLabels, UnlockExclusive, Advance, IsNext
  <2> QED
    BY <2>6, <2>7
<1>8. ASSUME IdLock(t) PROVE Types' /\ ControlOf(t)'
  <2>1. writer' \in [Keys -> Threads \cup {NoThread}]
    BY <1>1, <1>8 DEF Types, IdLock, LockExclusive
  <2>2. pc' \in [Threads -> Labels]
    BY <1>1, WorkLabel
  <2>3. UNCHANGED <<cell, readers, req, id, todo, at, val, view, result, known, budget>>
    BY <1>8 DEF IdLock, locks, locals, LockExclusive
  <2>4. Types'
    BY <1>1, <2>1, <2>2, <2>3 DEF Types
  <2>5. ControlOf(t)'
    BY <1>1, <1>8, ValueAssumption, RequestFacts
       DEF Types, ControlOf, IdLock, Goto, Answer, SeatsOf, locals, locks, New, More,
           BookLabels, IdLabels, GetLabels, SetLabels, LockExclusive
  <2> QED
    BY <2>4, <2>5
<1>9. ASSUME IdLoad(t) PROVE Types' /\ ControlOf(t)'
  <2>1. val' \in [Threads -> Nat]
    BY <1>1, <1>9 DEF Types, IdLoad, Keys
  <2>2. pc' \in [Threads -> Labels]
    BY <1>1, WorkLabel
  <2>3. UNCHANGED <<cell, writer, readers, req, id, todo, at, view, result, known, budget>>
    BY <1>9 DEF IdLoad, locks, locals
  <2>4. Types'
    BY <1>1, <2>1, <2>2, <2>3 DEF Types
  <2>5. ControlOf(t)'
    BY <1>1, <1>9, ValueAssumption, RequestFacts
       DEF Types, ControlOf, IdLoad, Goto, Answer, SeatsOf, locals, locks, New, More,
           BookLabels, IdLabels, GetLabels, SetLabels
  <2> QED
    BY <2>4, <2>5
<1>10. ASSUME IdStore(t) PROVE Types' /\ ControlOf(t)'
  <2>1. cell' \in [Keys -> Nat]
    BY <1>1, <1>10 DEF Types, IdStore, ControlOf, New, Keys
  <2>2. id' \in [Threads -> Nat \cup {New}]
    BY <1>1, <1>10 DEF Types, IdStore, New
  <2>3. pc' \in [Threads -> Labels]
    BY <1>1, WorkLabel
  <2>4. UNCHANGED <<writer, readers, req, todo, at, val, view, result, known, budget>>
    BY <1>10 DEF IdStore, locks, locals
  <2>5. Types'
    BY <1>1, <2>1, <2>2, <2>3, <2>4 DEF Types
  <2>6. ControlOf(t)'
    BY <1>1, <1>10, ValueAssumption, RequestFacts
       DEF Types, ControlOf, IdStore, Goto, Answer, SeatsOf, locals, locks, New, More,
           BookLabels, IdLabels, GetLabels, SetLabels
  <2> QED
    BY <2>5, <2>6
<1>11. ASSUME IdUnlock(t) PROVE Types' /\ ControlOf(t)'
  <2>1. writer' \in [Keys -> Threads \cup {NoThread}]
    BY <1>1, <1>11 DEF Types, IdUnlock, UnlockExclusive
  <2>2. pc' \in [Threads -> Labels]
    BY <1>1, WorkLabel
  <2>3. result' \in [Threads -> Nat \cup {Fail, Succ}]
    BY <1>1, <1>11 DEF Types, IdUnlock, Answer, ControlOf, UnlockExclusive
  <2>4. UNCHANGED <<cell, readers, req, id, todo, at, val, view, known, budget>>
    BY <1>11 DEF IdUnlock, locks, locals, UnlockExclusive
  <2>5. Types'
    BY <1>1, <2>1, <2>2, <2>3, <2>4 DEF Types
  <2>6. ControlOf(t)'
    BY <1>1, <1>11, ValueAssumption, RequestFacts
       DEF Types, ControlOf, IdUnlock, Goto, Answer, SeatsOf, locals, locks, New, More,
           BookLabels, IdLabels, GetLabels, SetLabels, UnlockExclusive
  <2> QED
    BY <2>5, <2>6
<1>12. ASSUME GetLock(t) PROVE Types' /\ ControlOf(t)'
  <2>1. readers' \in [Keys -> SUBSET Threads]
    BY <1>1, <1>12, CursorType DEF Types, GetLock, ControlOf, GetLabels, SetLabels, LockShared
  <2>2. pc' \in [Threads -> Labels]
    BY <1>1, WorkLabel
  <2>3. UNCHANGED <<cell, writer, req, id, todo, at, val, view, result, known, budget>>
    BY <1>12 DEF GetLock, locks, locals, LockShared
  <2>4. Types'
    BY <1>1, <2>1, <2>2, <2>3 DEF Types
  <2>5. ControlOf(t)'
    BY <1>1, <1>12, ValueAssumption, RequestFacts
       DEF Types, ControlOf, GetLock, Goto, Answer, SeatsOf, locals, locks, New, More,
           BookLabels, IdLabels, GetLabels, SetLabels, LockShared
  <2> QED
    BY <2>4, <2>5
<1>13. ASSUME GetLoad(t) PROVE Types' /\ ControlOf(t)'
  <2>1. val' \in [Threads -> Nat]
    BY <1>1, <1>13, CursorType DEF Types, GetLoad, Keys, ControlOf, GetLabels, SetLabels
  <2>2. pc' \in [Threads -> Labels]
    BY <1>1, WorkLabel
  <2>3. UNCHANGED <<cell, writer, readers, req, id, todo, at, view, result, known, budget>>
    BY <1>13 DEF GetLoad, locks, locals
  <2>4. Types'
    BY <1>1, <2>1, <2>2, <2>3 DEF Types
  <2>5. ControlOf(t)'
    BY <1>1, <1>13, ValueAssumption, RequestFacts
       DEF Types, ControlOf, GetLoad, Goto, Answer, SeatsOf, locals, locks, New, More,
           BookLabels, IdLabels, GetLabels, SetLabels
  <2> QED
    BY <2>4, <2>5
<1>14. ASSUME GetUnlock(t) PROVE Types' /\ ControlOf(t)'
  <2>1. readers' \in [Keys -> SUBSET Threads]
    BY <1>1, <1>14 DEF Types, GetUnlock, UnlockShared, GetReturns, MapNext, DeleteCheck, Digit
  <2>2. pc' \in [Threads -> Labels]
    BY <1>1, WorkLabel
  <2>3. at' \in [Threads -> Nat \ {0}]
    BY <1>1, <1>14 DEF Types, GetUnlock, UnlockShared, GetReturns, MapNext, DeleteCheck, Digit
  <2>4. view' \in [Threads -> Seq({0, 1, 2})]
    <3>1. Digit(val[t], id[t]) \in {0, 1, 2}
      BY DEF Digit
    <3>2. view' \in {view, [view EXCEPT ![t] = Append(view[t], Digit(val[t], id[t]))]}
      BY <1>14 DEF GetUnlock, GetReturns, MapNext, DeleteCheck
    <3>3. view \in [Threads -> Seq({0, 1, 2})] /\ view[t] \in Seq({0, 1, 2})
      BY <1>1 DEF Types
    <3>4. Append(view[t], Digit(val[t], id[t])) \in Seq({0, 1, 2})
      BY <3>1, <3>3
    <3> QED
      BY <3>2, <3>3, <3>4
  <2>5. result' \in [Threads -> Nat \cup {Fail, Succ}]
    BY <1>1, <1>14 DEF Types, GetUnlock, Answer, ControlOf, UnlockShared, GetReturns, MapNext, DeleteCheck, Digit
  <2>6. UNCHANGED <<cell, writer, req, id, todo, val, known, budget>>
    BY <1>14 DEF GetUnlock, locks, locals, UnlockShared, GetReturns, MapNext, DeleteCheck, Digit
  <2>7. Types'
    BY <1>1, <2>1, <2>2, <2>3, <2>4, <2>5, <2>6 DEF Types
  <2>8. ControlOf(t)'
    BY <1>1, <1>14, ValueAssumption, RequestFacts, SMTT(30)
       DEF Types, ControlOf, GetUnlock, Goto, Answer, SeatsOf, locals, locks, New, More,
           BookLabels, IdLabels, GetLabels, SetLabels, UnlockShared, GetReturns, MapNext, DeleteCheck, Digit
  <2> QED
    BY <2>7, <2>8
<1>15. ASSUME SetLock(t) PROVE Types' /\ ControlOf(t)'
  <2>1. writer' \in [Keys -> Threads \cup {NoThread}]
    BY <1>1, <1>15 DEF Types, SetLock, LockExclusive
  <2>2. pc' \in [Threads -> Labels]
    BY <1>1, WorkLabel
  <2>3. UNCHANGED <<cell, readers, req, id, todo, at, val, view, result, known, budget>>
    BY <1>15 DEF SetLock, locks, locals, LockExclusive
  <2>4. Types'
    BY <1>1, <2>1, <2>2, <2>3 DEF Types
  <2>5. ControlOf(t)'
    BY <1>1, <1>15, ValueAssumption, RequestFacts
       DEF Types, ControlOf, SetLock, Goto, Answer, SeatsOf, locals, locks, New, More,
           BookLabels, IdLabels, GetLabels, SetLabels, LockExclusive
  <2> QED
    BY <2>4, <2>5
<1>16. ASSUME SetStore(t) PROVE Types' /\ ControlOf(t)'
  <2>1. cell' \in [Keys -> Nat]
    <3>1. SetValue(t) \in Nat
      BY <1>1 DEF SetValue, Types, ControlOf
    <3>2. Cursor(t) \in Keys
      BY <1>1, <1>16, CursorType DEF SetStore, ControlOf, SetLabels
    <3> QED
      BY <1>1, <1>16, <3>1, <3>2 DEF SetStore, Types
  <2>2. pc' \in [Threads -> Labels]
    BY <1>1, WorkLabel
  <2>3. UNCHANGED <<writer, readers, req, id, todo, at, val, view, result, known, budget>>
    BY <1>16 DEF SetStore, locks, locals, SetValue
  <2>4. Types'
    BY <1>1, <2>1, <2>2, <2>3 DEF Types
  <2>5. ControlOf(t)'
    BY <1>1, <1>16, ValueAssumption, RequestFacts
       DEF Types, ControlOf, SetStore, Goto, Answer, SeatsOf, locals, locks, New, More,
           BookLabels, IdLabels, GetLabels, SetLabels, SetValue
  <2> QED
    BY <2>4, <2>5
<1>17. ASSUME SetUnlock(t) PROVE Types' /\ ControlOf(t)'
  <2>1. writer' \in [Keys -> Threads \cup {NoThread}]
    BY <1>1, <1>17 DEF Types, SetUnlock, UnlockExclusive
  <2>2. pc' \in [Threads -> Labels]
    BY <1>1, WorkLabel
  <2>3. at' \in [Threads -> Nat \ {0}]
    <3>1. at \in [Threads -> Nat \ {0}] /\ at[t] + 1 \in Nat \ {0}
      BY <1>1 DEF Types
    <3>2. at' \in {at, [at EXCEPT ![t] = at[t] + 1]}
      BY <1>17 DEF SetUnlock
    <3> QED
      BY <3>1, <3>2
  <2>4. result' \in [Threads -> Nat \cup {Fail, Succ}]
    BY <1>1, <1>17 DEF Types, SetUnlock, Answer, ControlOf, UnlockExclusive
  <2>5. UNCHANGED <<cell, readers, req, id, todo, val, view, known, budget>>
    BY <1>17 DEF SetUnlock, locks, locals, UnlockExclusive
  <2>6. Types'
    BY <1>1, <2>1, <2>2, <2>3, <2>4, <2>5 DEF Types
  <2>7. ControlOf(t)'
    BY <1>1, <1>17, ValueAssumption, RequestFacts
       DEF Types, ControlOf, SetUnlock, Goto, Answer, SeatsOf, locals, locks, New, More,
           BookLabels, IdLabels, GetLabels, SetLabels, UnlockExclusive
  <2> QED
    BY <2>6, <2>7
<1>18. ASSUME Reply(t) PROVE Types' /\ ControlOf(t)'
  <2>1. pc' \in [Threads -> Labels]
    BY <1>1, WorkLabel
  <2>2. req' \in [Threads -> Requests \cup {NoReq}]
    BY <1>1, <1>18 DEF Types, Reply, Code
  <2>3. id' \in [Threads -> Nat \cup {New}]
    BY <1>1, <1>18 DEF Types, Reply, New, Code
  <2>4. todo' \in [Threads -> SUBSET Seats]
    BY <1>1, <1>18, RequestFacts DEF Types, Reply, ControlOf, SeatsOf, BookLabels, Code
  <2>5. at' \in [Threads -> Nat \ {0}]
    BY <1>1, <1>18 DEF Types, Reply, Code
  <2>6. val' \in [Threads -> Nat]
    BY <1>1, <1>18 DEF Types, Reply, Code
  <2>7. view' \in [Threads -> Seq({0, 1, 2})]
    BY <1>1, <1>18 DEF Types, Reply, Code
  <2>8. result' \in [Threads -> Nat \cup {Fail, Succ}]
    BY <1>1, <1>18 DEF Types, Reply, Answer, ControlOf, Code
  <2>9. known' \in SUBSET (Nat \ {0})
    BY <1>1, <1>18, ValueAssumption DEF Types, Reply, ControlOf, New, Code
  <2>10. UNCHANGED <<cell, writer, readers, budget>>
    BY <1>18 DEF Reply, locks, locals, Code
  <2>11. Types'
    BY <1>1, <2>1, <2>2, <2>3, <2>4, <2>5, <2>6, <2>7, <2>8, <2>9, <2>10 DEF Types
  <2>12. ControlOf(t)'
    BY <1>1, <1>18, ValueAssumption, RequestFacts
       DEF Types, ControlOf, Reply, Goto, Answer, SeatsOf, locals, locks, New, More,
           BookLabels, IdLabels, GetLabels, SetLabels, Code, NoReq
  <2> QED
    BY <2>11, <2>12
<1> QED
  BY <1>2, <1>3, <1>4, <1>5, <1>6, <1>7, <1>8, <1>9, <1>10, <1>11, <1>12, <1>13, <1>14, <1>15, <1>16, <1>17, <1>18 DEF TypeOK, Work
-----------------------------------------------------------------------------
(* Locks *)

(* The handlers other than t stay where they are. *)
OthersStay(t) ==
    \A u \in Threads \ {t} :
        pc'[u] = pc[u] /\ req'[u] = req[u] /\ todo'[u] = todo[u] /\ at'[u] = at[u]

(* A step that leaves the others alone changes nothing they hold. *)
LEMMA OthersHold ==
    ASSUME NEW t \in Threads, OthersStay(t)
    PROVE  \A k \in Keys, u \in Threads \ {t} :
               /\ HoldsExclusive(u, k)' <=> HoldsExclusive(u, k)
               /\ HoldsShared(u, k)' <=> HoldsShared(u, k)
<1> SUFFICES ASSUME NEW k \in Keys, NEW u \in Threads \ {t}
             PROVE  /\ HoldsExclusive(u, k)' <=> HoldsExclusive(u, k)
                    /\ HoldsShared(u, k)' <=> HoldsShared(u, k)
  OBVIOUS
<1>1. pc'[u] = pc[u] /\ req'[u] = req[u] /\ todo'[u] = todo[u] /\ at'[u] = at[u]
  BY DEF OthersStay
<1>2. SeatsOf(u)' = SeatsOf(u) /\ Cursor(u)' = Cursor(u)
  BY <1>1 DEF SeatsOf, Cursor
<1> QED
  BY <1>1, <1>2 DEF HoldsExclusive, HoldsShared

(* The steps of a handler leave the others alone. *)
LEMMA WorkOthersStay ==
    ASSUME Types, NEW t \in Threads, Work(t)
    PROVE  OthersStay(t)
BY WorkFrame DEF OthersStay

(* A step that takes and gives back no lock. *)
LEMMA KeepLocks ==
    ASSUME LockInv, NEW t \in Threads, NEW x \in Keys, t # NoThread, OthersStay(t), Types,
           UNCHANGED <<writer, readers>>,
           \A k \in Keys : /\ HoldsExclusive(t, k)' <=> HoldsExclusive(t, k)
                           /\ HoldsShared(t, k)' <=> HoldsShared(t, k)
    PROVE  LockInv'
<1>1. \A k \in Keys, u \in Threads \ {t} :
        /\ HoldsExclusive(u, k)' <=> HoldsExclusive(u, k)
        /\ HoldsShared(u, k)' <=> HoldsShared(u, k)
  BY OthersHold
<1>2. \A k \in Keys, u \in Threads :
        (writer'[k] = u <=> HoldsExclusive(u, k)') /\ (u \in readers'[k] <=> HoldsShared(u, k)')
  <2> TAKE k \in Keys, u \in Threads
  <2>1. (writer[k] = u <=> HoldsExclusive(u, k)) /\ (u \in readers[k] <=> HoldsShared(u, k))
    BY DEF LockInv
  <2>2. CASE u = t
    BY <2>1, <2>2 DEF LockInv, Types, LockExclusive, LockShared, UnlockExclusive, UnlockShared
  <2>3. CASE u # t
    BY <1>1, <2>1, <2>3, ValueAssumption DEF LockInv, Types, LockExclusive, LockShared, UnlockExclusive, UnlockShared
  <2> QED
    BY <2>2, <2>3
<1>3. \A k \in Keys : writer'[k] # NoThread => readers'[k] = {}
  BY DEF LockInv, Types, LockExclusive, LockShared, UnlockExclusive, UnlockShared
<1> QED
  BY <1>2, <1>3 DEF LockInv

(* A step that takes the lock of x exclusively. *)
LEMMA TakeExclusive ==
    ASSUME LockInv, NEW t \in Threads, NEW x \in Keys, t # NoThread, OthersStay(t), Types,
           LockExclusive(t, x),
           \A k \in Keys : /\ HoldsExclusive(t, k)' <=> HoldsExclusive(t, k) \/ k = x
                           /\ HoldsShared(t, k)' <=> HoldsShared(t, k)
    PROVE  LockInv'
<1>1. \A k \in Keys, u \in Threads \ {t} :
        /\ HoldsExclusive(u, k)' <=> HoldsExclusive(u, k)
        /\ HoldsShared(u, k)' <=> HoldsShared(u, k)
  BY OthersHold
<1>2. \A k \in Keys, u \in Threads :
        (writer'[k] = u <=> HoldsExclusive(u, k)') /\ (u \in readers'[k] <=> HoldsShared(u, k)')
  <2> TAKE k \in Keys, u \in Threads
  <2>1. (writer[k] = u <=> HoldsExclusive(u, k)) /\ (u \in readers[k] <=> HoldsShared(u, k))
    BY DEF LockInv
  <2>2. CASE u = t
    BY <2>1, <2>2 DEF LockInv, Types, LockExclusive, LockShared, UnlockExclusive, UnlockShared
  <2>3. CASE u # t
    BY <1>1, <2>1, <2>3, ValueAssumption DEF LockInv, Types, LockExclusive, LockShared, UnlockExclusive, UnlockShared
  <2> QED
    BY <2>2, <2>3
<1>3. \A k \in Keys : writer'[k] # NoThread => readers'[k] = {}
  BY DEF LockInv, Types, LockExclusive, LockShared, UnlockExclusive, UnlockShared
<1> QED
  BY <1>2, <1>3 DEF LockInv

(* A step that gives back the lock of x. *)
LEMMA GiveExclusive ==
    ASSUME LockInv, NEW t \in Threads, NEW x \in Keys, t # NoThread, OthersStay(t), Types,
           HoldsExclusive(t, x), UnlockExclusive(x),
           \A k \in Keys : /\ HoldsExclusive(t, k)' <=> HoldsExclusive(t, k) /\ k # x
                           /\ HoldsShared(t, k)' <=> HoldsShared(t, k)
    PROVE  LockInv'
<1>1. \A k \in Keys, u \in Threads \ {t} :
        /\ HoldsExclusive(u, k)' <=> HoldsExclusive(u, k)
        /\ HoldsShared(u, k)' <=> HoldsShared(u, k)
  BY OthersHold
<1>2. \A k \in Keys, u \in Threads :
        (writer'[k] = u <=> HoldsExclusive(u, k)') /\ (u \in readers'[k] <=> HoldsShared(u, k)')
  <2> TAKE k \in Keys, u \in Threads
  <2>1. (writer[k] = u <=> HoldsExclusive(u, k)) /\ (u \in readers[k] <=> HoldsShared(u, k))
    BY DEF LockInv
  <2>2. CASE u = t
    BY <2>1, <2>2 DEF LockInv, Types, LockExclusive, LockShared, UnlockExclusive, UnlockShared
  <2>3. CASE u # t
    BY <1>1, <2>1, <2>3, ValueAssumption DEF LockInv, Types, LockExclusive, LockShared, UnlockExclusive, UnlockShared
  <2> QED
    BY <2>2, <2>3
<1>3. \A k \in Keys : writer'[k] # NoThread => readers'[k] = {}
  BY DEF LockInv, Types, LockExclusive, LockShared, UnlockExclusive, UnlockShared
<1> QED
  BY <1>2, <1>3 DEF LockInv

(* A step that takes the lock of x shared. *)
LEMMA TakeShared ==
    ASSUME LockInv, NEW t \in Threads, NEW x \in Keys, t # NoThread, OthersStay(t), Types,
           LockShared(t, x),
           \A k \in Keys : /\ HoldsExclusive(t, k)' <=> HoldsExclusive(t, k)
                           /\ HoldsShared(t, k)' <=> HoldsShared(t, k) \/ k = x
    PROVE  LockInv'
<1>1. \A k \in Keys, u \in Threads \ {t} :
        /\ HoldsExclusive(u, k)' <=> HoldsExclusive(u, k)
        /\ HoldsShared(u, k)' <=> HoldsShared(u, k)
  BY OthersHold
<1>2. \A k \in Keys, u \in Threads :
        (writer'[k] = u <=> HoldsExclusive(u, k)') /\ (u \in readers'[k] <=> HoldsShared(u, k)')
  <2> TAKE k \in Keys, u \in Threads
  <2>1. (writer[k] = u <=> HoldsExclusive(u, k)) /\ (u \in readers[k] <=> HoldsShared(u, k))
    BY DEF LockInv
  <2>2. CASE u = t
    BY <2>1, <2>2 DEF LockInv, Types, LockExclusive, LockShared, UnlockExclusive, UnlockShared
  <2>3. CASE u # t
    BY <1>1, <2>1, <2>3, ValueAssumption DEF LockInv, Types, LockExclusive, LockShared, UnlockExclusive, UnlockShared
  <2> QED
    BY <2>2, <2>3
<1>3. \A k \in Keys : writer'[k] # NoThread => readers'[k] = {}
  BY DEF LockInv, Types, LockExclusive, LockShared, UnlockExclusive, UnlockShared
<1> QED
  BY <1>2, <1>3 DEF LockInv

(* A step that gives back its share of the lock of x. *)
LEMMA GiveShared ==
    ASSUME LockInv, NEW t \in Threads, NEW x \in Keys, t # NoThread, OthersStay(t), Types,
           UnlockShared(t, x),
           \A k \in Keys : /\ HoldsExclusive(t, k)' <=> HoldsExclusive(t, k)
                           /\ HoldsShared(t, k)' <=> HoldsShared(t, k) /\ k # x
    PROVE  LockInv'
<1>1. \A k \in Keys, u \in Threads \ {t} :
        /\ HoldsExclusive(u, k)' <=> HoldsExclusive(u, k)
        /\ HoldsShared(u, k)' <=> HoldsShared(u, k)
  BY OthersHold
<1>2. \A k \in Keys, u \in Threads :
        (writer'[k] = u <=> HoldsExclusive(u, k)') /\ (u \in readers'[k] <=> HoldsShared(u, k)')
  <2> TAKE k \in Keys, u \in Threads
  <2>1. (writer[k] = u <=> HoldsExclusive(u, k)) /\ (u \in readers[k] <=> HoldsShared(u, k))
    BY DEF LockInv
  <2>2. CASE u = t
    BY <2>1, <2>2 DEF LockInv, Types, LockExclusive, LockShared, UnlockExclusive, UnlockShared
  <2>3. CASE u # t
    BY <1>1, <2>1, <2>3, ValueAssumption DEF LockInv, Types, LockExclusive, LockShared, UnlockExclusive, UnlockShared
  <2> QED
    BY <2>2, <2>3
<1>3. \A k \in Keys : writer'[k] # NoThread => readers'[k] = {}
  BY DEF LockInv, Types, LockExclusive, LockShared, UnlockExclusive, UnlockShared
<1> QED
  BY <1>2, <1>3 DEF LockInv

(* A request that arrives takes and gives back no lock. *)
LEMMA ReceiveLocks ==
    ASSUME TypeOK, LockInv, NEW t \in Threads, NEW r \in Requests, Receive(t, r)
    PROVE  LockInv'
<1>1. Types /\ ControlOf(t) /\ pc[t] = "idle" /\ t # NoThread
  BY ValueAssumption DEF TypeOK, Receive
<1>2. OthersStay(t)
  BY <1>1 DEF Types, Receive, Dispatch, Goto, Answer, OthersStay
<1>3. UNCHANGED <<writer, readers>>
  BY DEF Receive, locks
<1>4. \/ pc'[t] \in {"id_lock", "get_lock", "set_lock", "done"}
      \/ pc'[t] = "book_lock" /\ todo'[t] = Range(r.args)
  BY <1>1 DEF Types, Receive, Dispatch, Goto, Answer
<1>5. req'[t] = r /\ (pc'[t] = "id_lock" => r.op = "ID")
  BY <1>1 DEF Types, Receive, Dispatch, Goto, Answer
<1>6. \A k \in Keys : ~HoldsExclusive(t, k) /\ ~HoldsShared(t, k)
  BY <1>1 DEF HoldsExclusive, HoldsShared, IdLabels
<1>7. \A k \in Keys : ~HoldsExclusive(t, k)' /\ ~HoldsShared(t, k)'
  BY <1>4, <1>5, RequestFacts DEF HoldsExclusive, HoldsShared, IdLabels, SeatsOf
<1> QED
  BY <1>1, <1>2, <1>3, <1>6, <1>7, KeepLocks DEF Keys

(* Every step of a handler keeps holders and locks together. *)
LEMMA WorkLocks ==
    ASSUME TypeOK, LockInv, NEW t \in Threads, Work(t)
    PROVE  LockInv'
<1>1. Types /\ ControlOf(t) /\ t # NoThread /\ OthersStay(t) /\ IdCounter \in Keys
  BY ValueAssumption, WorkOthersStay DEF TypeOK, Keys
<1>2. ASSUME BookLock(t) PROVE LockInv'
  <2>1. PICK s \in Seats : s \in todo[t] /\ LockExclusive(t, s) /\ Advance(t, s, "book_load", SeatsOf(t))
    BY <1>2 DEF BookLock, IsNext, locks
  <2>2. /\ pc[t] = "book_lock" /\ req'[t] = req[t] /\ s \in Keys /\ s # IdCounter
        /\ todo[t] \subseteq SeatsOf(t) /\ SeatsOf(t) \subseteq Seats
    BY <1>1, <1>2, KeyAssumption, RequestFacts DEF BookLock, ControlOf, BookLabels, Keys, SeatsOf
  <2>3. \/ pc'[t] = "book_load" /\ todo[t] = {s} /\ todo'[t] = SeatsOf(t)
        \/ pc'[t] = "book_lock" /\ todo'[t] = todo[t] \ {s}
    BY <1>1, <2>1, <2>2 DEF Types, Advance, Goto
  <2>4. \A k \in Keys : /\ HoldsExclusive(t, k)' <=> HoldsExclusive(t, k) \/ k = s
                        /\ HoldsShared(t, k)' <=> HoldsShared(t, k)
    BY <2>1, <2>2, <2>3 DEF HoldsExclusive, HoldsShared, IdLabels, SeatsOf
  <2> QED
    BY <1>1, <2>1, <2>2, <2>4, TakeExclusive
<1>3. ASSUME BookLoad(t) PROVE LockInv'
  <2>1. PICK s \in Seats : s \in todo[t]
           /\ \/ Advance(t, s, IF id[t] = New THEN "id_lock" ELSE "book_store", SeatsOf(t))
              \/ Goto(t, "book_abort") /\ todo' = [todo EXCEPT ![t] = SeatsOf(t)]
    BY <1>3 DEF BookLoad, IsNext
  <2>2. pc[t] = "book_load" /\ req'[t] = req[t] /\ UNCHANGED <<writer, readers>>
    BY <1>1, <1>3 DEF BookLoad, locks
  <2>3. \/ pc'[t] \in {"id_lock", "book_store", "book_load"}
        \/ pc'[t] = "book_abort" /\ todo'[t] = SeatsOf(t)
    BY <1>1, <2>1, <2>2 DEF Types, Advance, Goto
  <2>4. \A k \in Keys : /\ HoldsExclusive(t, k)' <=> HoldsExclusive(t, k)
                        /\ HoldsShared(t, k)' <=> HoldsShared(t, k)
    BY <2>2, <2>3 DEF HoldsExclusive, HoldsShared, IdLabels, SeatsOf
  <2> QED
    BY <1>1, <2>2, <2>4, KeepLocks
<1>4. ASSUME BookStore(t) PROVE LockInv'
  <2>1. PICK s \in Seats : s \in todo[t] /\ UNCHANGED <<writer, readers>> /\ Advance(t, s, "book_unlock", SeatsOf(t))
    BY <1>4 DEF BookStore, IsNext, locks
  <2>2. /\ pc[t] = "book_store" /\ req'[t] = req[t] /\ s \in Keys /\ s # IdCounter
        /\ todo[t] \subseteq SeatsOf(t) /\ SeatsOf(t) \subseteq Seats
    BY <1>1, <1>4, KeyAssumption, RequestFacts DEF BookStore, ControlOf, BookLabels, Keys, SeatsOf
  <2>3. \/ pc'[t] = "book_unlock" /\ todo[t] = {s} /\ todo'[t] = SeatsOf(t)
        \/ pc'[t] = "book_store" /\ todo'[t] = todo[t] \ {s}
    BY <1>1, <2>1, <2>2 DEF Types, Advance, Goto
  <2>4. \A k \in Keys : /\ HoldsExclusive(t, k)' <=> HoldsExclusive(t, k)
                        /\ HoldsShared(t, k)' <=> HoldsShared(t, k)
    BY <2>1, <2>2, <2>3 DEF HoldsExclusive, HoldsShared, IdLabels, SeatsOf
  <2> QED
    BY <1>1, <2>1, <2>2, <2>4, KeepLocks
<1>5. ASSUME BookUnlock(t) PROVE LockInv'
  <2>1. PICK s \in Seats : s \in todo[t] /\ UnlockExclusive(s) /\ Advance(t, s, "done", {})
    BY <1>5 DEF BookUnlock, IsNext, locks
  <2>2. /\ pc[t] = "book_unlock" /\ req'[t] = req[t] /\ s \in Keys /\ s # IdCounter
        /\ todo[t] \subseteq SeatsOf(t) /\ SeatsOf(t) \subseteq Seats
    BY <1>1, <1>5, KeyAssumption, RequestFacts DEF BookUnlock, ControlOf, BookLabels, Keys, SeatsOf
  <2>3. \/ pc'[t] = "done" /\ todo[t] = {s} /\ todo'[t] = {}
        \/ pc'[t] = "book_unlock" /\ todo'[t] = todo[t] \ {s}
    BY <1>1, <2>1, <2>2 DEF Types, Advance, Goto
  <2>4. \A k \in Keys : /\ HoldsExclusive(t, k)' <=> HoldsExclusive(t, k) /\ k # s
                        /\ HoldsShared(t, k)' <=> HoldsShared(t, k)
    BY <2>1, <2>2, <2>3 DEF HoldsExclusive, HoldsShared, IdLabels, SeatsOf
  <2>5. HoldsExclusive(t, s)
    BY <2>1, <2>2 DEF HoldsExclusive
  <2> QED
    BY <1>1, <2>1, <2>2, <2>4, <2>5, GiveExclusive
<1>6. ASSUME BookAbort(t) PROVE LockInv'
  <2>1. PICK s \in Seats : s \in todo[t] /\ UnlockExclusive(s) /\ Advance(t, s, "done", {})
    BY <1>6 DEF BookAbort, IsNext, locks
  <2>2. /\ pc[t] = "book_abort" /\ req'[t] = req[t] /\ s \in Keys /\ s # IdCounter
        /\ todo[t] \subseteq SeatsOf(t) /\ SeatsOf(t) \subseteq Seats
    BY <1>1, <1>6, KeyAssumption, RequestFacts DEF BookAbort, ControlOf, BookLabels, Keys, SeatsOf
  <2>3. \/ pc'[t] = "done" /\ todo[t] = {s} /\ todo'[t] = {}
        \/ pc'[t] = "book_abort" /\ todo'[t] = todo[t] \ {s}
    BY <1>1, <2>1, <2>2 DEF Types, Advance, Goto
  <2>4. \A k \in Keys : /\ HoldsExclusive(t, k)' <=> HoldsExclusive(t, k) /\ k # s
                        /\ HoldsShared(t, k)' <=> HoldsShared(t, k)
    BY <2>1, <2>2, <2>3 DEF HoldsExclusive, HoldsShared, IdLabels, SeatsOf
  <2>5. HoldsExclusive(t, s)
    BY <2>1, <2>2 DEF HoldsExclusive
  <2> QED
    BY <1>1, <2>1, <2>2, <2>4, <2>5, GiveExclusive
<1>7. ASSUME IdLock(t) PROVE LockInv'
  <2>1. pc[t] = "id_lock" /\ LockExclusive(t, IdCounter) /\ req'[t] = req[t] /\ todo'[t] = todo[t]
    BY <1>1, <1>7 DEF IdLock, locks, locals
  <2>2. pc'[t] = "id_load"
    BY <1>1, <1>7 DEF IdLock, Types, Goto, Answer
  <2>3. SeatsOf(t) \subseteq Seats
    BY <1>1, <2>1, RequestFacts DEF ControlOf, IdLabels, SeatsOf
  <2>4. \A k \in Keys : /\ HoldsExclusive(t, k)' <=> HoldsExclusive(t, k) \/ k = IdCounter
                        /\ HoldsShared(t, k)' <=> HoldsShared(t, k)
    BY <2>1, <2>2, <2>3, KeyAssumption DEF HoldsExclusive, HoldsShared, IdLabels, SeatsOf
  <2> QED
    BY <1>1, <2>1, <2>4, TakeExclusive
<1>8. ASSUME IdLoad(t) PROVE LockInv'
  <2>1. pc[t] = "id_load" /\ UNCHANGED <<writer, readers>> /\ req'[t] = req[t] /\ todo'[t] = todo[t]
    BY <1>1, <1>8 DEF IdLoad, locks, locals
  <2>2. pc'[t] = "id_store"
    BY <1>1, <1>8 DEF IdLoad, Types, Goto, Answer
  <2>3. SeatsOf(t) \subseteq Seats
    BY <1>1, <2>1, RequestFacts DEF ControlOf, IdLabels, SeatsOf
  <2>4. \A k \in Keys : /\ HoldsExclusive(t, k)' <=> HoldsExclusive(t, k)
                        /\ HoldsShared(t, k)' <=> HoldsShared(t, k)
    BY <2>1, <2>2, <2>3, KeyAssumption DEF HoldsExclusive, HoldsShared, IdLabels, SeatsOf
  <2> QED
    BY <1>1, <2>1, <2>4, KeepLocks
<1>9. ASSUME IdStore(t) PROVE LockInv'
  <2>1. pc[t] = "id_store" /\ UNCHANGED <<writer, readers>> /\ req'[t] = req[t] /\ todo'[t] = todo[t]
    BY <1>1, <1>9 DEF IdStore, locks, locals
  <2>2. pc'[t] = "id_unlock"
    BY <1>1, <1>9 DEF IdStore, Types, Goto, Answer
  <2>3. SeatsOf(t) \subseteq Seats
    BY <1>1, <2>1, RequestFacts DEF ControlOf, IdLabels, SeatsOf
  <2>4. \A k \in Keys : /\ HoldsExclusive(t, k)' <=> HoldsExclusive(t, k)
                        /\ HoldsShared(t, k)' <=> HoldsShared(t, k)
    BY <2>1, <2>2, <2>3, KeyAssumption DEF HoldsExclusive, HoldsShared, IdLabels, SeatsOf
  <2> QED
    BY <1>1, <2>1, <2>4, KeepLocks
<1>10. ASSUME IdUnlock(t) PROVE LockInv'
  <2>1. pc[t] = "id_unlock" /\ UnlockExclusive(IdCounter) /\ req'[t] = req[t] /\ todo'[t] = todo[t]
    BY <1>1, <1>10 DEF IdUnlock, locks, locals
  <2>2. pc'[t] \in {"book_store", "done"}
    BY <1>1, <1>10 DEF IdUnlock, Types, Goto, Answer
  <2>3. pc'[t] = "done" => SeatsOf(t) = {}
    BY <1>1, <1>10, RequestFacts DEF IdUnlock, Types, ControlOf, IdLabels, Goto, Answer, SeatsOf
  <2>4. SeatsOf(t) \subseteq Seats
    BY <1>1, <2>1, RequestFacts DEF ControlOf, IdLabels, SeatsOf
  <2>5. \A k \in Keys : /\ HoldsExclusive(t, k)' <=> HoldsExclusive(t, k) /\ k # IdCounter
                        /\ HoldsShared(t, k)' <=> HoldsShared(t, k)
    BY <2>1, <2>2, <2>3, <2>4, KeyAssumption DEF HoldsExclusive, HoldsShared, IdLabels, SeatsOf
  <2>6. HoldsExclusive(t, IdCounter)
    BY <2>1 DEF HoldsExclusive
  <2> QED
    BY <1>1, <2>1, <2>5, <2>6, GiveExclusive
<1>11. ASSUME GetLock(t) PROVE LockInv'
  <2>1. pc[t] = "get_lock" /\ LockShared(t, Cursor(t)) /\ req'[t] = req[t] /\ todo'[t] = todo[t]
    BY <1>1, <1>11 DEF GetLock, locks, locals
  <2>2. pc'[t] = "get_load"
    BY <1>1, <1>11 DEF GetLock, Types, Goto, Answer
  <2>3. Cursor(t) \in Keys
    BY <1>1, <2>1, CursorType DEF ControlOf, GetLabels, SetLabels
  <2>4. Cursor(t)' = Cursor(t)
    BY <1>11, <2>1 DEF GetLock, locals, Cursor
  <2>5. \A k \in Keys : /\ HoldsExclusive(t, k)' <=> HoldsExclusive(t, k)
                        /\ HoldsShared(t, k)' <=> HoldsShared(t, k) \/ k = Cursor(t)
    BY <2>1, <2>2, <2>3, <2>4 DEF HoldsExclusive, HoldsShared, IdLabels, SeatsOf
  <2> QED
    BY <1>1, <2>1, <2>5, <2>3, TakeShared
<1>12. ASSUME GetLoad(t) PROVE LockInv'
  <2>1. pc[t] = "get_load" /\ UNCHANGED <<writer, readers>> /\ req'[t] = req[t] /\ todo'[t] = todo[t]
    BY <1>1, <1>12 DEF GetLoad, locks, locals
  <2>2. pc'[t] = "get_unlock"
    BY <1>1, <1>12 DEF GetLoad, Types, Goto, Answer
  <2>3. Cursor(t)' = Cursor(t)
    BY <1>12, <2>1 DEF GetLoad, locals, Cursor
  <2>4. \A k \in Keys : /\ HoldsExclusive(t, k)' <=> HoldsExclusive(t, k)
                        /\ HoldsShared(t, k)' <=> HoldsShared(t, k)
    BY <2>1, <2>2, <2>3 DEF HoldsExclusive, HoldsShared, IdLabels, SeatsOf
  <2> QED
    BY <1>1, <2>1, <2>4, KeepLocks
<1>13. ASSUME GetUnlock(t) PROVE LockInv'
  <2>1. pc[t] = "get_unlock" /\ UnlockShared(t, Cursor(t)) /\ req'[t] = req[t] /\ todo'[t] = todo[t]
    BY <1>1, <1>13 DEF GetUnlock, locks, locals
  <2>2. pc'[t] \in {"get_lock", "set_lock", "done"}
    BY <1>1, <1>13 DEF GetUnlock, Types, Goto, Answer, GetReturns, MapNext, DeleteCheck
  <2>3. Cursor(t) \in Keys
    BY <1>1, <2>1, CursorType DEF ControlOf, GetLabels, SetLabels
  <2>4. \A k \in Keys : /\ HoldsExclusive(t, k)' <=> HoldsExclusive(t, k)
                        /\ HoldsShared(t, k)' <=> HoldsShared(t, k) /\ k # Cursor(t)
    BY <2>1, <2>2, <2>3 DEF HoldsExclusive, HoldsShared, IdLabels, SeatsOf
  <2> QED
    BY <1>1, <2>1, <2>4, <2>3, GiveShared
<1>14. ASSUME SetLock(t) PROVE LockInv'
  <2>1. pc[t] = "set_lock" /\ LockExclusive(t, Cursor(t)) /\ req'[t] = req[t] /\ todo'[t] = todo[t]
    BY <1>1, <1>14 DEF SetLock, locks, locals
  <2>2. pc'[t] = "set_store"
    BY <1>1, <1>14 DEF SetLock, Types, Goto, Answer
  <2>3. Cursor(t) \in Keys
    BY <1>1, <2>1, CursorType DEF ControlOf, GetLabels, SetLabels
  <2>4. Cursor(t)' = Cursor(t)
    BY <1>14, <2>1 DEF SetLock, locals, Cursor
  <2>5. \A k \in Keys : /\ HoldsExclusive(t, k)' <=> HoldsExclusive(t, k) \/ k = Cursor(t)
                        /\ HoldsShared(t, k)' <=> HoldsShared(t, k)
    BY <2>1, <2>2, <2>3, <2>4 DEF HoldsExclusive, HoldsShared, IdLabels, SeatsOf
  <2> QED
    BY <1>1, <2>1, <2>5, <2>3, TakeExclusive
<1>15. ASSUME SetStore(t) PROVE LockInv'
  <2>1. pc[t] = "set_store" /\ UNCHANGED <<writer, readers>> /\ req'[t] = req[t] /\ todo'[t] = todo[t]
    BY <1>1, <1>15 DEF SetStore, locks, locals
  <2>2. pc'[t] = "set_unlock"
    BY <1>1, <1>15 DEF SetStore, Types, Goto, Answer
  <2>3. Cursor(t)' = Cursor(t)
    BY <1>15, <2>1 DEF SetStore, locals, Cursor
  <2>4. \A k \in Keys : /\ HoldsExclusive(t, k)' <=> HoldsExclusive(t, k)
                        /\ HoldsShared(t, k)' <=> HoldsShared(t, k)
    BY <2>1, <2>2, <2>3 DEF HoldsExclusive, HoldsShared, IdLabels, SeatsOf
  <2> QED
    BY <1>1, <2>1, <2>4, KeepLocks
<1>16. ASSUME SetUnlock(t) PROVE LockInv'
  <2>1. pc[t] = "set_unlock" /\ UnlockExclusive(Cursor(t)) /\ req'[t] = req[t] /\ todo'[t] = todo[t]
    BY <1>1, <1>16 DEF SetUnlock, locks, locals
  <2>2. pc'[t] \in {"set_lock", "done"}
    BY <1>1, <1>16 DEF SetUnlock, Types, Goto, Answer
  <2>3. Cursor(t) \in Keys
    BY <1>1, <2>1, CursorType DEF ControlOf, GetLabels, SetLabels
  <2>4. \A k \in Keys : /\ HoldsExclusive(t, k)' <=> HoldsExclusive(t, k) /\ k # Cursor(t)
                        /\ HoldsShared(t, k)' <=> HoldsShared(t, k)
    BY <2>1, <2>2, <2>3 DEF HoldsExclusive, HoldsShared, IdLabels, SeatsOf
  <2>5. HoldsExclusive(t, Cursor(t))
    BY <2>1 DEF HoldsExclusive
  <2> QED
    BY <1>1, <2>1, <2>4, <2>3, <2>5, GiveExclusive
<1>17. ASSUME Reply(t) PROVE LockInv'
  <2>1. pc[t] = "done" /\ pc'[t] = "idle" /\ UNCHANGED <<writer, readers>>
    BY <1>1, <1>17 DEF Reply, Types, Goto, locks
  <2>2. \A k \in Keys : /\ HoldsExclusive(t, k)' <=> HoldsExclusive(t, k)
                        /\ HoldsShared(t, k)' <=> HoldsShared(t, k)
    BY <2>1 DEF HoldsExclusive, HoldsShared, IdLabels
  <2> QED
    BY <1>1, <2>1, <2>2, KeepLocks
<1> QED
  BY <1>2, <1>3, <1>4, <1>5, <1>6, <1>7, <1>8, <1>9, <1>10, <1>11, <1>12, <1>13, <1>14, <1>15, <1>16, <1>17 DEF Work
-----------------------------------------------------------------------------
(* Bookings *)

(* A handler writes a cell only under the exclusive lock of its key. *)
LEMMA WritesLocked ==
    ASSUME TypeOK, NEW t \in Threads, Work(t), NEW k \in Keys, cell'[k] # cell[k]
    PROVE  HoldsExclusive(t, k)
<1>1. Types /\ ControlOf(t)
  BY DEF TypeOK
<1>2. CASE BookStore(t)
  <2>1. k \in todo[t]
    BY <1>1, <1>2 DEF BookStore, IsNext, Types
  <2>2. pc[t] = "book_store" /\ todo[t] \subseteq SeatsOf(t)
    BY <1>1, <1>2 DEF BookStore, ControlOf, BookLabels, SeatsOf
  <2> QED
    BY <2>1, <2>2 DEF HoldsExclusive
<1>3. CASE IdStore(t)
  BY <1>1, <1>3 DEF IdStore, Types, HoldsExclusive
<1>4. CASE SetStore(t)
  BY <1>1, <1>4 DEF SetStore, Types, HoldsExclusive
<1>5. CASE ~(BookStore(t) \/ IdStore(t) \/ SetStore(t))
  BY <1>5 DEF Work, BookLock, BookLoad, BookUnlock, BookAbort, IdLock, IdLoad, IdUnlock,
     GetLock, GetLoad, GetUnlock, SetLock, SetUnlock, Reply
<1> QED
  BY <1>2, <1>3, <1>4, <1>5

(* Two handlers never hold one lock exclusively. *)
LEMMA Exclusion ==
    ASSUME LockInv, NEW t \in Threads, NEW u \in Threads, NEW k \in Keys,
           HoldsExclusive(t, k), HoldsExclusive(u, k)
    PROVE  t = u
BY DEF LockInv

(* A reserved seat is locked by the handler that reserved it. *)
LEMMA ReservedHeld ==
    ASSUME TypeOK, NEW t \in Threads, NEW s \in Seats, Reserved(t, s)
    PROVE  HoldsExclusive(t, s) /\ s \in Keys
BY DEF TypeOK, ControlOf, Reserved, HoldsExclusive, BookLabels, IdLabels, SeatsOf, Keys

(* A step that leaves the others alone reserves nothing for them. *)
LEMMA ReservedFrame ==
    ASSUME NEW t \in Threads, OthersStay(t), NEW u \in Threads \ {t}, NEW s \in Seats
    PROVE  Reserved(u, s)' <=> Reserved(u, s)
BY DEF OthersStay, Reserved, SeatsOf

(* The seats a handler has reserved after its step were free before it. *)
LEMMA OwnReserved ==
    ASSUME TypeOK, ChecksStayTrue, NEW t \in Threads, Work(t), NEW s \in Seats, Reserved(t, s)'
    PROVE  cell'[s] = 0
<1>1. Types /\ ControlOf(t) /\ s \in Keys
  BY DEF TypeOK, Keys
<1>2. ASSUME BookLock(t) PROVE FALSE
  <2>1. PICK x \in Seats : x \in todo[t] /\ Advance(t, x, "book_load", SeatsOf(t))
    BY <1>2 DEF BookLock, IsNext
  <2>2. pc[t] = "book_lock" /\ req'[t] = req[t]
    BY <1>2 DEF BookLock
  <2>3. \/ pc'[t] = "book_load" /\ todo'[t] = SeatsOf(t)
        \/ pc'[t] = "book_lock"
    BY <1>1, <2>1, <2>2 DEF Types, Advance, Goto
  <2> QED
    BY <2>2, <2>3 DEF Reserved, SeatsOf, IdLabels
<1>3. CASE BookLoad(t)
  <2>1. PICK x \in Seats : x \in todo[t] /\
            IF cell[x] = 0
            THEN Advance(t, x, IF id[t] = New THEN "id_lock" ELSE "book_store", SeatsOf(t))
            ELSE Goto(t, "book_abort") /\ todo' = [todo EXCEPT ![t] = SeatsOf(t)]
    BY <1>3 DEF BookLoad, IsNext
  <2>2. pc[t] = "book_load" /\ req'[t] = req[t] /\ cell' = cell
    BY <1>3 DEF BookLoad
  <2>3. \/ pc'[t] \in {"id_lock", "book_store"} /\ todo[t] = {x} /\ todo'[t] = SeatsOf(t) /\ cell[x] = 0
        \/ pc'[t] = "book_load" /\ todo'[t] = todo[t] \ {x} /\ cell[x] = 0
        \/ pc'[t] = "book_abort"
    BY <1>1, <2>1, <2>2 DEF Types, Advance, Goto
  <2>4. s \in SeatsOf(t) /\ (s = x \/ s \notin todo[t]) /\ cell[x] = 0
    BY <2>2, <2>3 DEF Reserved, SeatsOf, IdLabels
  <2> QED
    BY <2>2, <2>4 DEF ChecksStayTrue, Reserved
<1>4. CASE BookStore(t)
  <2>1. PICK x \in Seats : /\ x \in todo[t] /\ Advance(t, x, "book_unlock", SeatsOf(t))
                           /\ cell' = [cell EXCEPT ![x] = id[t]]
    BY <1>4 DEF BookStore, IsNext
  <2>2. pc[t] = "book_store" /\ req'[t] = req[t]
    BY <1>4 DEF BookStore
  <2>3. \/ pc'[t] = "book_unlock"
        \/ pc'[t] = "book_store" /\ todo'[t] = todo[t] \ {x}
    BY <1>1, <2>1, <2>2 DEF Types, Advance, Goto
  <2>4. s \in todo[t] /\ s # x
    BY <2>2, <2>3 DEF Reserved, IdLabels
  <2> QED
    BY <1>1, <2>1, <2>2, <2>4 DEF ChecksStayTrue, Reserved, Types
<1>5. ASSUME BookUnlock(t) \/ BookAbort(t) PROVE FALSE
  <2>1. pc'[t] \in {"book_unlock", "book_abort", "done"}
    BY <1>1, <1>5 DEF BookUnlock, BookAbort, Advance, Goto, Types
  <2> QED
    BY <2>1 DEF Reserved, IdLabels
<1>6. CASE IdLock(t) \/ IdLoad(t) \/ IdStore(t)
  <2>1. pc[t] \in IdLabels /\ pc'[t] \in IdLabels /\ req'[t] = req[t] /\ cell'[s] = cell[s]
    BY <1>1, <1>6, KeyAssumption DEF IdLock, IdLoad, IdStore, Goto, Types, locals, IdLabels
  <2> QED
    BY <2>1 DEF ChecksStayTrue, Reserved, SeatsOf, IdLabels
<1>7. CASE IdUnlock(t)
  <2>1. /\ pc[t] \in IdLabels /\ pc'[t] \in {"book_store", "done"} /\ todo'[t] = todo[t]
        /\ cell' = cell
        /\ pc'[t] = "book_store" => req[t].op = "BOOK"
    BY <1>1, <1>7 DEF IdUnlock, Goto, Answer, Types, IdLabels
  <2>2. pc'[t] = "book_store" /\ s \in todo[t]
    BY <2>1 DEF Reserved, IdLabels
  <2>3. s \in SeatsOf(t)
    BY <1>1, <2>1, <2>2 DEF ControlOf, SeatsOf
  <2>4. Reserved(t, s)
    BY <2>1, <2>3 DEF Reserved
  <2> QED
    BY <2>1, <2>4 DEF ChecksStayTrue
<1>8. ASSUME GetLock(t) \/ GetLoad(t) \/ GetUnlock(t) \/ SetLock(t) \/ SetStore(t)
             \/ SetUnlock(t) \/ Reply(t)
      PROVE  FALSE
  <2>1. pc'[t] \in GetLabels \cup SetLabels \cup {"done", "idle"}
    BY <1>1, <1>8 DEF GetLock, GetLoad, GetUnlock, SetLock, SetStore, SetUnlock, Reply, Goto, Answer,
       GetReturns, MapNext, DeleteCheck, Types, GetLabels, SetLabels
  <2> QED
    BY <2>1 DEF Reserved, IdLabels, GetLabels, SetLabels
<1> QED
  BY <1>2, <1>3, <1>4, <1>5, <1>6, <1>7, <1>8 DEF Work

(* A step of a handler writes no seat that another has checked. *)
LEMMA WorkChecks ==
    ASSUME TypeOK, LockInv, ChecksStayTrue, NEW t \in Threads, Work(t)
    PROVE  ChecksStayTrue'
<1> SUFFICES ASSUME NEW u \in Threads, NEW s \in Seats, Reserved(u, s)'
             PROVE  cell'[s] = 0
  BY DEF ChecksStayTrue
<1>1. CASE u = t
  BY <1>1, OwnReserved
<1>2. CASE u # t
  <2>1. Reserved(u, s) /\ cell[s] = 0
    BY <1>2, WorkOthersStay, ReservedFrame DEF TypeOK, ChecksStayTrue
  <2>2. cell'[s] = cell[s]
    BY <1>2, <2>1, ReservedHeld, WritesLocked, Exclusion
  <2> QED
    BY <2>1, <2>2
<1> QED
  BY <1>1, <1>2

(* A request that arrives has checked nothing and writes nothing. *)
LEMMA ReceiveChecks ==
    ASSUME TypeOK, ChecksStayTrue, NEW t \in Threads, NEW r \in Requests, Receive(t, r)
    PROVE  ChecksStayTrue'
<1> SUFFICES ASSUME NEW u \in Threads, NEW s \in Seats, Reserved(u, s)'
             PROVE  Reserved(u, s) /\ cell' = cell
  BY DEF ChecksStayTrue
<1>1. Types
  BY DEF TypeOK
<1>2. OthersStay(t) /\ cell' = cell
  BY <1>1 DEF Types, Receive, Dispatch, Goto, Answer, OthersStay
<1>3. CASE u = t
  <2>1. \/ pc'[t] \in {"book_lock", "get_lock", "set_lock", "done"}
        \/ pc'[t] = "id_lock" /\ req'[t] = r /\ r.op = "ID"
    BY <1>1 DEF Types, Receive, Dispatch, Goto, Answer
  <2> QED
    BY <1>3, <2>1, RequestFacts DEF Reserved, IdLabels, SeatsOf
<1>4. CASE u # t
  BY <1>2, <1>4, ReservedFrame
<1> QED
  BY <1>2, <1>3, <1>4

-----------------------------------------------------------------------------
(* The theorems *)

(* The inductive invariant. *)
IInv == TypeOK /\ LockInv /\ ChecksStayTrue

(* The inductive invariant: it holds at the start, *)
LEMMA InitIInv == Init => IInv
<1> SUFFICES ASSUME Init PROVE IInv
  OBVIOUS
<1>1. \A t \in Threads, k \in Keys : ~HoldsExclusive(t, k) /\ ~HoldsShared(t, k)
  BY DEF Init, HoldsExclusive, HoldsShared, IdLabels
<1>2. LockInv
  BY <1>1, ValueAssumption DEF Init, LockInv
<1>3. ChecksStayTrue
  BY DEF Init, ChecksStayTrue, Reserved, IdLabels
<1> QED
  BY <1>2, <1>3, InitTypeOK DEF IInv

(* a crash leaves no lock and no request behind, *)
LEMMA CrashIInv ==
    ASSUME IInv, Crash
    PROVE  IInv'
<1>1. Types'
  BY ValueAssumption, LabelFacts DEF IInv, TypeOK, Types, Crash, New, NoReq
<1>2. \A t \in Threads : ControlOf(t)'
  BY DEF Crash, ControlOf, BookLabels, IdLabels, GetLabels, SetLabels, NoReq
<1>3. \A t \in Threads, k \in Keys : ~HoldsExclusive(t, k)' /\ ~HoldsShared(t, k)'
  BY DEF Crash, HoldsExclusive, HoldsShared, IdLabels
<1>4. LockInv'
  BY <1>3, ValueAssumption DEF Crash, LockInv
<1>5. ChecksStayTrue'
  BY DEF Crash, ChecksStayTrue, Reserved, IdLabels
<1> QED
  BY <1>1, <1>2, <1>4, <1>5 DEF IInv, TypeOK

(* a step of nobody changes nothing, *)
LEMMA StutterIInv ==
    ASSUME IInv, UNCHANGED vars
    PROVE  IInv'
<1> USE DEF vars, locks, locals
<1>1. Types' /\ \A t \in Threads : ControlOf(t)'
  BY DEF IInv, TypeOK, Types, ControlOf, KeyList
<1>2. LockInv'
  <2>1. \A t \in Threads, k \in Keys :
        /\ HoldsExclusive(t, k)' <=> HoldsExclusive(t, k)
        /\ HoldsShared(t, k)' <=> HoldsShared(t, k)
    BY DEF HoldsExclusive, HoldsShared, SeatsOf, Cursor
  <2> QED
    BY <2>1 DEF IInv, LockInv
<1>3. ChecksStayTrue'
  BY DEF IInv, ChecksStayTrue, Reserved, SeatsOf
<1> QED
  BY <1>1, <1>2, <1>3 DEF IInv, TypeOK

(* and every step keeps it. *)
LEMMA NextIInv == IInv /\ [CrashNext]_vars => IInv'
<1> SUFFICES ASSUME IInv, [CrashNext]_vars PROVE IInv'
  OBVIOUS
<1>1. ASSUME NEW t \in Threads, Work(t) PROVE IInv'
  BY <1>1, WorkTypeOK, WorkLocks, WorkChecks DEF IInv
<1>2. ASSUME NEW t \in Threads, NEW r \in Requests, Receive(t, r) PROVE IInv'
  BY <1>2, ReceiveTypeOK, ReceiveLocks, ReceiveChecks DEF IInv
<1>3. CASE Crash
  BY <1>3, CrashIInv
<1>4. CASE UNCHANGED vars
  BY <1>4, StutterIInv
<1> QED
  BY <1>1, <1>2, <1>3, <1>4 DEF CrashNext, Next, Step, Quiet

(* With or without crashes, every handler is where its request allows,     *)
(* locks are held by exactly the handlers between taking and returning     *)
(* them, and the seats BOOK has checked stay free until it stores them.    *)
THEOREM Invariance == CrashSpec => [](TypeOK /\ LockInv /\ ChecksStayTrue)
<1>1. IInv => TypeOK /\ LockInv /\ ChecksStayTrue
  BY DEF IInv
<1> QED
  BY <1>1, InitIInv, NextIInv, PTL DEF CrashSpec

(* Every handler stays where its request and its loop variables allow.     *)
THEOREM TypeCorrect == CrashSpec => []TypeOK
  BY Invariance, PTL

(* A seat that BOOK has found free is free until BOOK stores it, also      *)
(* across the request for a new code, which has a lock of its own.         *)
THEOREM CheckedSeatsStayFree == CrashSpec => []ChecksStayTrue
  BY Invariance, PTL

(* SET is sent for the settings only: so do the programs of the           *)
(* repository, though the server would take a SET of a seat from anyone.   *)
OnlySettingsSet == \A r \in Requests : r.op = "SET" => r.args[1] \in Settings

(* No step, of any handler or a crash, gives a booked seat to another code.*)
THEOREM NoDoubleBookingHolds ==
    ASSUME OnlySettingsSet
    PROVE  CrashSpec => NoDoubleBooking
<1>1. ASSUME IInv, CrashNext, NEW s \in Seats, cell[s] # 0
      PROVE  cell'[s] \in {0, cell[s]}
  <2>1. TypeOK /\ Types /\ s \in Keys
    BY <1>1 DEF IInv, TypeOK, Keys
  <2>2. ASSUME NEW t \in Threads, BookStore(t) PROVE cell'[s] \in {0, cell[s]}
    <3>1. PICK x \in Seats : x \in todo[t] /\ cell' = [cell EXCEPT ![x] = id[t]]
      BY <2>2 DEF BookStore, IsNext
    <3>2. Reserved(t, x)
      BY <2>2, <3>1 DEF BookStore, Reserved
    <3>3. x # s
      BY <1>1, <3>2 DEF IInv, ChecksStayTrue
    <3> QED
      BY <2>1, <3>1, <3>3 DEF Types
  <2>3. ASSUME NEW t \in Threads, SetStore(t) PROVE cell'[s] \in {0, cell[s]}
    <3>1. cell' = [cell EXCEPT ![Cursor(t)] = SetValue(t)] /\ pc[t] = "set_store"
      BY <2>3 DEF SetStore
    <3>2. CASE req[t].op = "SET"
      <4>1. req[t] \in Requests /\ at[t] \in 1 .. Len(KeyList(req[t]))
        BY <2>1, <3>1 DEF TypeOK, ControlOf, SetLabels
      <4>2. KeyList(req[t]) = req[t].args /\ Len(req[t].args) = 1
        BY <3>2, <4>1, RequestAssumption DEF KeyList
      <4>3. at[t] = 1
        BY <4>1, <4>2
      <4>4. Cursor(t) \in Settings
        BY <3>2, <4>1, <4>2, <4>3 DEF Cursor, OnlySettingsSet
      <4> QED
        BY <2>1, <3>1, <4>4, KeyAssumption DEF Types
    <3>3. CASE req[t].op # "SET"
      BY <2>1, <3>1, <3>3 DEF Types, SetValue
    <3> QED
      BY <3>2, <3>3
  <2>4. ASSUME NEW t \in Threads, IdStore(t) PROVE cell'[s] \in {0, cell[s]}
    BY <2>1, <2>4, KeyAssumption DEF IdStore, Types
  <2>5. ASSUME NEW t \in Threads, Work(t), ~(BookStore(t) \/ SetStore(t) \/ IdStore(t))
        PROVE  cell' = cell
    BY <2>5 DEF Work, BookLock, BookLoad, BookUnlock, BookAbort, IdLock, IdLoad, IdUnlock,
       GetLock, GetLoad, GetUnlock, SetLock, SetUnlock, Reply
  <2>6. ASSUME Crash \/ Quiet \/ \E t \in Threads, r \in Requests : Receive(t, r)
        PROVE  cell' = cell
    BY <2>6 DEF Crash, Quiet, Receive, vars
  <2> QED
    BY <1>1, <2>2, <2>3, <2>4, <2>5, <2>6 DEF CrashNext, Next, Step
<1>2. IInv /\ [CrashNext]_vars => [\A s \in Seats : cell[s] # 0 => cell'[s] \in {0, cell[s]}]_vars
  BY <1>1
<1> QED
  BY <1>2, InitIInv, NextIInv, PTL DEF CrashSpec, NoDoubleBooking
-----------------------------------------------------------------------------
(* Deadlock *)

(* Handler t asks for the lock of key k exclusively. *)
Asks(t, k) ==
    \/ pc[t] = "book_lock" /\ IsNext(t, k)
    \/ pc[t] = "id_lock" /\ k = IdCounter
    \/ pc[t] = "set_lock" /\ k = Cursor(t)

(* The lock that t asks for, if it asks for one, is there to be taken. *)
Runnable(t) ==
    /\ pc[t] \in {"book_lock", "id_lock", "set_lock"} =>
        \E k \in Keys : Asks(t, k) /\ writer[k] = NoThread /\ readers[k] = {}
    /\ pc[t] = "get_lock" => writer[Cursor(t)] = NoThread

(* Every seat that BOOK has locked comes before those it has still to lock.*)
Ascending ==
    \A t \in Threads : pc[t] = "book_lock" =>
        \A x \in SeatsOf(t) \ todo[t], y \in todo[t] : x < y

(* The seats have a last one in every set of them, *)
LEMMA LastSeat ==
    ASSUME NEW S \in SUBSET Seats, S # {}
    PROVE  \E m \in S : \A s \in S : s <= m
<1> DEFINE After(s) == s + 1 .. NSeats
           R == StrictSubsetOrdering(0 .. NSeats)
           T == {After(s) : s \in S}
<1>1. IsWellFoundedOn(R, FiniteSubsetsOf(0 .. NSeats))
  BY FS_StrictSubsetOrderingWellFounded
<1>2. FiniteSubsetsOf(0 .. NSeats) = SUBSET (0 .. NSeats)
  <2>1. IsFiniteSet(0 .. NSeats)
    BY SizeAssumption, FS_Interval
  <2> QED
    BY ONLY <2>1, FS_FiniteSubsetsOfFinite
<1>3. T \subseteq SUBSET (0 .. NSeats) /\ T # {}
  <2>1. \A s \in S : After(s) \in SUBSET (0 .. NSeats)
    BY SizeAssumption DEF Seats
  <2> HIDE DEF After
  <2> QED
    BY <2>1
<1>4. \E x \in T : \A y \in T : <<y, x>> \notin R
  <2>1. IsWellFoundedOn(R, SUBSET (0 .. NSeats))
    BY <1>1, <1>2
  <2> HIDE DEF R, T
  <2> QED
    BY ONLY <1>3, <2>1, WFMin
<1>5. PICK m \in S : \A s \in S : <<After(s), After(m)>> \notin R
  BY <1>4
<1>6. ASSUME NEW s \in S, ~(s <= m)
      PROVE  FALSE
  <2>1. s \in Nat /\ m \in Nat /\ m < s /\ s < NSeats
    BY <1>6, SizeAssumption DEF Seats
  <2>2. After(s) \subseteq After(m) /\ After(m) \subseteq 0 .. NSeats
    BY <2>1, SizeAssumption
  <2>3. After(s) # After(m)
    <3>1. m + 1 \in After(m) /\ m + 1 \notin After(s)
      BY <2>1, SizeAssumption
    <3> QED
      BY <3>1
  <2> HIDE DEF After
  <2>4. <<After(s), After(m)>> \in R
    BY <2>2, <2>3 DEF StrictSubsetOrdering
  <2> QED
    BY <1>5, <2>4
<1> QED
  BY <1>6

(* and a first one. *)
LEMMA FirstSeat ==
    ASSUME NEW S \in SUBSET Seats, S # {}
    PROVE  \E m \in S : \A s \in S : m <= s
<1> DEFINE Mirror(s) == NSeats - 1 - s
           M == {Mirror(s) : s \in S}
<1>1. \A s \in S : Mirror(s) \in Seats /\ s \in Int
  BY SizeAssumption DEF Seats
<1>2. PICK x \in M : \A y \in M : y <= x
  <2>1. M \in SUBSET Seats /\ M # {}
    BY <1>1
  <2> QED
    BY <2>1, LastSeat
<1>3. PICK m \in S : \A s \in S : Mirror(s) <= Mirror(m)
  BY <1>2
<1> QED
  BY <1>1, <1>3, SizeAssumption

(* A step of a handler keeps the order: the seat it locks is its next one. *)
LEMMA WorkAscending ==
    ASSUME TypeOK, Ascending, NEW t \in Threads, Work(t)
    PROVE  Ascending'
<1> USE DEF TypeOK
<1>1. ASSUME NEW u \in Threads \ {t}, pc'[u] = "book_lock"
      PROVE  \A x \in SeatsOf(u)' \ todo'[u], y \in todo'[u] : x < y
  <2>1. pc'[u] = pc[u] /\ req'[u] = req[u] /\ todo'[u] = todo[u]
    BY WorkFrame
  <2> QED
    BY <1>1, <2>1 DEF Ascending, SeatsOf
<1>2. ASSUME pc'[t] = "book_lock"
      PROVE  \A x \in SeatsOf(t)' \ todo'[t], y \in todo'[t] : x < y
  <2>1. BookLock(t)
    BY <1>2 DEF Types, ControlOf, Work, BookLock, BookLoad, BookStore, BookUnlock, BookAbort,
       IdLock, IdLoad, IdStore, IdUnlock, GetLock, GetLoad, GetUnlock, SetLock, SetStore,
       SetUnlock, Reply, Advance, Goto, Answer, GetReturns, MapNext, DeleteCheck, BookLabels
  <2>2. PICK s \in Seats : IsNext(t, s) /\ Advance(t, s, "book_load", SeatsOf(t))
    BY <2>1 DEF BookLock
  <2>3. todo'[t] = todo[t] \ {s} /\ req' = req /\ pc[t] = "book_lock"
    BY <1>2, <2>1, <2>2 DEF Types, Advance, Goto, BookLock
  <2>4. ASSUME NEW x \in SeatsOf(t) \ todo'[t], NEW y \in todo'[t]
        PROVE  x < y
    <3>1. CASE x \in todo[t]
      <4>1. x = s /\ x <= y /\ x # y
        BY <2>2, <2>3, <2>4, <3>1 DEF IsNext
      <4>2. x \in Int /\ y \in Int
        BY <2>3, <2>4, <4>1, SizeAssumption DEF Types, Seats
      <4> QED
        BY <4>1, <4>2
    <3>2. CASE x \notin todo[t]
      BY <2>3, <2>4, <3>2 DEF Ascending
    <3> QED
      BY <3>1, <3>2
  <2> QED
    BY <2>3, <2>4 DEF SeatsOf
<1> QED
  BY <1>1, <1>2 DEF Ascending, SeatsOf

(* The order of the locks, of every handler in every step. *)
LEMMA NextAscending == IInv /\ Ascending /\ [CrashNext]_vars => Ascending'
<1> SUFFICES ASSUME IInv, Ascending, [CrashNext]_vars PROVE Ascending'
  OBVIOUS
<1>1. TypeOK /\ Types
  BY DEF IInv, TypeOK
<1>2. ASSUME NEW t \in Threads, NEW r \in Requests, Receive(t, r) PROVE Ascending'
  <2>1. ASSUME NEW u \in Threads, pc'[u] = "book_lock"
        PROVE  \A x \in SeatsOf(u)' \ todo'[u], y \in todo'[u] : x < y
    <3>1. CASE u = t
      <4>1. todo'[t] = Range(r.args) /\ req'[t] = r
        BY <1>1, <1>2, <2>1, <3>1 DEF Receive, Dispatch, Answer, Goto, Types
      <4> QED
        BY <3>1, <4>1 DEF SeatsOf
    <3>2. CASE u # t
      <4>1. pc'[u] = pc[u] /\ todo'[u] = todo[u] /\ req'[u] = req[u]
        BY <1>1, <1>2, <3>2 DEF Receive, Dispatch, Answer, Goto, Types
      <4> QED
        BY <2>1, <4>1 DEF Ascending, SeatsOf
    <3> QED
      BY <3>1, <3>2
  <2> QED
    BY <2>1 DEF Ascending, SeatsOf
<1>3. CASE Crash
  BY <1>3 DEF Crash, Ascending
<1>4. CASE UNCHANGED vars
  BY <1>4 DEF vars, locals, Ascending, SeatsOf
<1> QED
  BY <1>1, <1>2, <1>3, <1>4, WorkAscending DEF CrashNext, Next, Step, Quiet

(* A handler that is not runnable waits for one that holds the lock. *)
LEMMA WaitsForHolder ==
    ASSUME IInv, NEW t \in Threads, ~Runnable(t)
    PROVE  \E k \in Keys, u \in Threads :
               /\ HoldsExclusive(u, k) \/ HoldsShared(u, k)
               /\ Asks(t, k) \/ (pc[t] = "get_lock" /\ k = Cursor(t))
<1>1. TypeOK /\ Types /\ ControlOf(t) /\ LockInv
  BY DEF IInv, TypeOK
<1>2. ASSUME NEW k \in Keys, writer[k] # NoThread \/ readers[k] # {}
      PROVE  \E u \in Threads : HoldsExclusive(u, k) \/ HoldsShared(u, k)
  BY <1>1, <1>2 DEF LockInv, Types
<1>3. CASE pc[t] = "get_lock"
  <2>1. Cursor(t) \in Keys
    BY <1>1, <1>3, CursorType DEF ControlOf, GetLabels
  <2> QED
    BY <1>2, <1>3, <2>1 DEF Runnable
<1>4. CASE pc[t] # "get_lock"
  <2>1. pc[t] \in {"book_lock", "id_lock", "set_lock"}
    BY <1>4 DEF Runnable
  <2>2. \E k \in Keys : Asks(t, k)
    <3>1. CASE pc[t] = "book_lock"
      <4>1. todo[t] \in SUBSET Seats /\ todo[t] # {}
        BY <1>1, <3>1 DEF Types, ControlOf, BookLabels
      <4>2. PICK s \in todo[t] : \A x \in todo[t] : s <= x
        BY <4>1, FirstSeat
      <4> QED
        BY <3>1, <4>1, <4>2 DEF Asks, IsNext, Keys
    <3>2. CASE pc[t] = "id_lock"
      BY <3>2 DEF Asks, Keys
    <3>3. CASE pc[t] = "set_lock"
      <4>1. Cursor(t) \in Keys
        BY <1>1, <3>3, CursorType DEF ControlOf, SetLabels
      <4> QED
        BY <3>3, <4>1 DEF Asks
    <3> QED
      BY <2>1, <3>1, <3>2, <3>3
  <2>3. PICK k \in Keys : Asks(t, k) /\ (writer[k] # NoThread \/ readers[k] # {})
    BY <1>4, <2>1, <2>2 DEF Runnable
  <2>4. PICK u \in Threads : HoldsExclusive(u, k) \/ HoldsShared(u, k)
    BY <1>2, <2>3
  <2> QED
    BY <2>3, <2>4
<1> QED
  BY <1>3, <1>4

(* Whatever the requests and however they interleave, the handlers never   *)
(* all wait for one another: as long as a request is under way, some       *)
(* handler with a request has the lock it asks for or asks for none.       *)
(* procedure_book locks its seats in ascending order and ID_COUNTER after  *)
(* them; every other procedure holds one lock at a time.                   *)
NoDeadlock ==
    (\E t \in Threads : pc[t] # "idle") => \E t \in Threads : pc[t] # "idle" /\ Runnable(t)

THEOREM NeverDeadlocked == CrashSpec => []NoDeadlock
<1>1. ASSUME IInv, Ascending, NEW t \in Threads, pc[t] # "idle",
             \A u \in Threads : pc[u] # "idle" => ~Runnable(u)
      PROVE  FALSE
  <2>1. TypeOK /\ Types
    BY <1>1 DEF IInv, TypeOK
  <2> DEFINE Locked == {s \in Seats : \E u \in Threads :
                            pc[u] = "book_lock" /\ s \in SeatsOf(u) \ todo[u]}
  <2>2. ASSUME NEW u \in Threads, NEW k \in Keys, HoldsExclusive(u, k) \/ HoldsShared(u, k)
        PROVE  /\ pc[u] \in {"book_lock", "id_lock"} /\ k \in SeatsOf(u)
               /\ pc[u] = "book_lock" => k \notin todo[u]
               /\ k \in Seats
    <3>1. ~Runnable(u) /\ pc[u] # "idle"
      BY <1>1, <2>2 DEF HoldsExclusive, HoldsShared, IdLabels
    <3>2. pc[u] \in {"book_lock", "id_lock", "set_lock", "get_lock"}
      BY <3>1 DEF Runnable
    <3>3. /\ pc[u] \in {"book_lock", "id_lock"} /\ k \in SeatsOf(u)
          /\ pc[u] = "book_lock" => k \notin todo[u]
      BY <2>2, <3>2 DEF HoldsExclusive, HoldsShared, IdLabels
    <3>4. req[u] \in Requests /\ req[u].op \in {"BOOK", "ID"}
      BY <2>1, <3>3 DEF TypeOK, ControlOf, BookLabels, IdLabels
    <3>5. SeatsOf(u) \subseteq Seats
      BY <3>4, RequestFacts DEF SeatsOf
    <3> QED
      BY <3>3, <3>5
  <2>3. ASSUME NEW u \in Threads, pc[u] # "idle"
        PROVE  \E v \in Threads, s \in Seats :
                  /\ pc[v] = "book_lock" /\ s \in SeatsOf(v) \ todo[v]
                  /\ Asks(u, s) \/ pc[u] # "book_lock"
    <3>1. PICK k \in Keys, v \in Threads :
                  /\ HoldsExclusive(v, k) \/ HoldsShared(v, k)
                  /\ Asks(u, k) \/ (pc[u] = "get_lock" /\ k = Cursor(u))
      BY <1>1, <2>3, WaitsForHolder
    <3>2. CASE pc[v] = "book_lock"
      BY <2>2, <3>1, <3>2
    <3>3. CASE pc[v] = "id_lock"
      <4>1. PICK l \in Keys, w \in Threads :
                    /\ HoldsExclusive(w, l) \/ HoldsShared(w, l)
                    /\ Asks(v, l) \/ (pc[v] = "get_lock" /\ l = Cursor(v))
        BY <1>1, <3>3, WaitsForHolder
      <4>2. l = IdCounter
        BY <3>3, <4>1 DEF Asks
      <4> QED
        BY <2>2, <4>1, <4>2, KeyAssumption
    <3> QED
      BY <2>2, <3>1, <3>2, <3>3
  <2>4. Locked # {}
    BY <1>1, <2>3
  <2>5. PICK m \in Locked : \A s \in Locked : s <= m
    BY <2>4, LastSeat
  <2>6. PICK u \in Threads : pc[u] = "book_lock" /\ m \in SeatsOf(u) \ todo[u]
    OBVIOUS
  <2>7. PICK s \in Locked : Asks(u, s)
    BY <2>3, <2>6
  <2>8. s \in todo[u]
    BY <2>6, <2>7 DEF Asks, IsNext
  <2>9. m < s
    BY <1>1, <2>6, <2>8 DEF Ascending
  <2>10. s <= m /\ s \in Int /\ m \in Int
    BY <2>5, SizeAssumption DEF Seats
  <2> QED
    BY <2>9, <2>10
<1>2. IInv /\ Ascending => NoDeadlock
  BY <1>1 DEF NoDeadlock
<1>3. Init => Ascending
  BY DEF Init, Ascending
<1> QED
  BY <1>2, <1>3, InitIInv, NextIInv, NextAscending, PTL DEF CrashSpec

=============================================================================
