------------------------ MODULE DatabaseCodesProofs ------------------------
(***************************************************************************)
(* Proofs about the booking codes of the module Database: a code is issued *)
(* once, a request frees and reads only its own seats, and the procedures  *)
(* implement the hall of Reservations.                                     *)
(***************************************************************************)
EXTENDS DatabaseProofs

(* The counter starts anew with CLEAN, and then codes are issued twice;    *)
(* the theorems are about the time from one CLEAN to the next.             *)
NoClean == \A r \in Requests : r.op # "CLEAN"

(* The request of t presents a code or has been given one. *)
Bears(t) == req[t].op \in {"BOOK", "DELETE", "MAP", "ID"} /\ id[t] # New

(* The counter is at least every code that is anywhere. *)
Counted ==
    /\ known \subseteq 1 .. cell[IdCounter]
    /\ \A s \in Seats : cell[s] <= cell[IdCounter]
    /\ \A t \in Threads : Bears(t) => id[t] <= cell[IdCounter]

(* What ID loaded is still the counter when it stores the next one. *)
LoadedIsCurrent ==
    \A t \in Threads : pc[t] = "id_store" => val[t] = cell[IdCounter]

(* DELETE and MAP use the code of their request; a code that came with a   *)
(* request is one that a client has received.                              *)
CarriedKnown ==
    \A t \in Threads :
        /\ req[t].op \in {"DELETE", "MAP"} => id[t] = req[t].id
        /\ Carries(req[t]) => id[t] = req[t].id /\ id[t] \in known

CodesInv == Counted /\ LoadedIsCurrent /\ CarriedKnown /\ UniqueCodes

-----------------------------------------------------------------------------
(* What a step of a handler does to the cells, the requests and the codes *)

(* A seat changes when BOOK stores its code in it, or DELETE frees it. *)
LEMMA SeatWrites ==
    ASSUME TypeOK, ChecksStayTrue, OnlySettingsSet, NoClean,
           NEW t \in Threads, Work(t), NEW s \in Seats, cell'[s] # cell[s]
    PROVE  \/ /\ pc[t] = "book_store" /\ req[t].op = "BOOK" /\ s \in todo[t] /\ s \in SeatsOf(t)
              /\ cell[s] = 0 /\ cell'[s] = id[t] /\ id[t] # New
              /\ id'[t] = id[t] /\ req'[t] = req[t]
           \/ /\ pc[t] = "set_store" /\ req[t].op = "DELETE" /\ s = Cursor(t)
              /\ cell'[s] = 0 /\ id'[t] = id[t] /\ req'[t] = req[t]
<1>1. Types /\ ControlOf(t) /\ s \in Keys
  BY DEF TypeOK, Keys
<1>2. CASE BookStore(t)
  <2>1. PICK x \in Seats : x \in todo[t] /\ cell' = [cell EXCEPT ![x] = id[t]]
    BY <1>2 DEF BookStore, IsNext
  <2>2. x = s /\ cell'[s] = id[t]
    BY <1>1, <2>1 DEF Types
  <2>3. pc[t] = "book_store" /\ req' = req /\ id' = id
    BY <1>2 DEF BookStore
  <2>4. Reserved(t, s)
    BY <2>1, <2>2, <2>3 DEF Reserved
  <2>5. cell[s] = 0
    BY <2>4 DEF ChecksStayTrue
  <2>6. req[t].op = "BOOK" /\ todo[t] \subseteq SeatsOf(t) /\ id[t] # New
    BY <1>1, <2>3 DEF ControlOf, BookLabels, SeatsOf
  <2> QED
    BY <2>1, <2>2, <2>3, <2>5, <2>6
<1>3. CASE SetStore(t)
  <2>1. /\ cell' = [cell EXCEPT ![Cursor(t)] = SetValue(t)] /\ pc[t] = "set_store"
        /\ req' = req /\ id' = id
    BY <1>3 DEF SetStore, locals
  <2>2. s = Cursor(t) /\ cell'[s] = SetValue(t)
    BY <1>1, <2>1 DEF Types
  <2>3. /\ req[t] \in Requests /\ req[t].op \in {"SET", "DELETE", "CLEAN"}
        /\ at[t] \in 1 .. Len(KeyList(req[t]))
    BY <1>1, <2>1 DEF ControlOf, SetLabels
  <2>4. ASSUME req[t].op = "SET" PROVE FALSE
    <3>1. KeyList(req[t]) = req[t].args /\ Len(req[t].args) = 1
      BY <2>3, <2>4, RequestAssumption DEF KeyList
    <3>2. at[t] = 1
      BY <2>3, <3>1
    <3>3. Cursor(t) \in Settings
      BY <2>3, <2>4, <3>1, <3>2 DEF Cursor, OnlySettingsSet
    <3> QED
      BY <2>2, <3>3, KeyAssumption
  <2>5. req[t].op = "DELETE"
    BY <2>3, <2>4 DEF NoClean
  <2> QED
    BY <2>1, <2>2, <2>5 DEF SetValue
<1>4. CASE IdStore(t)
  BY <1>1, <1>4, KeyAssumption DEF IdStore, Types
<1>5. CASE ~(BookStore(t) \/ IdStore(t) \/ SetStore(t))
  BY <1>5 DEF Work, BookLock, BookLoad, BookUnlock, BookAbort, IdLock, IdLoad, IdUnlock,
     GetLock, GetLoad, GetUnlock, SetLock, SetUnlock, Reply
<1> QED
  BY <1>2, <1>3, <1>4, <1>5

(* The counter changes when ID stores the next code, and then only. *)
LEMMA CounterWrites ==
    ASSUME TypeOK, OnlySettingsSet, NoClean,
           NEW t \in Threads, Work(t), cell'[IdCounter] # cell[IdCounter]
    PROVE  IdStore(t) /\ cell'[IdCounter] = val[t] + 1
<1>1. Types /\ ControlOf(t) /\ IdCounter \in Keys
  BY DEF TypeOK, Keys
<1>2. CASE BookStore(t)
  BY <1>1, <1>2, KeyAssumption DEF BookStore, Types
<1>3. CASE SetStore(t)
  <2>1. cell' = [cell EXCEPT ![Cursor(t)] = SetValue(t)] /\ pc[t] = "set_store"
    BY <1>3 DEF SetStore
  <2>2. Cursor(t) = IdCounter
    BY <1>1, <2>1 DEF Types
  <2>3. /\ req[t] \in Requests /\ req[t].op \in {"SET", "DELETE"}
        /\ at[t] \in 1 .. Len(KeyList(req[t]))
    BY <1>1, <2>1 DEF ControlOf, SetLabels, NoClean
  <2>4. KeyList(req[t]) = req[t].args
    BY <2>3 DEF KeyList
  <2>5. CASE req[t].op = "SET"
    <3>1. Len(req[t].args) = 1
      BY <2>3, <2>5, RequestAssumption
    <3>2. at[t] = 1
      BY <2>3, <2>4, <3>1
    <3>3. Cursor(t) \in Settings
      BY <2>3, <2>4, <2>5, <3>2 DEF Cursor, OnlySettingsSet
    <3> QED
      BY <2>2, <3>3, KeyAssumption
  <2>6. CASE req[t].op = "DELETE"
    <3>1. req[t].args \in Seq(Seats)
      BY <2>3, <2>6, RequestAssumption
    <3>2. Cursor(t) \in Seats
      BY <2>3, <2>4, <3>1 DEF Cursor
    <3> QED
      BY <2>2, <3>2, KeyAssumption
  <2> QED
    BY <2>3, <2>5, <2>6
<1>4. CASE IdStore(t)
  BY <1>1, <1>4 DEF IdStore, Types
<1>5. CASE ~(BookStore(t) \/ IdStore(t) \/ SetStore(t))
  BY <1>5 DEF Work, BookLock, BookLoad, BookUnlock, BookAbort, IdLock, IdLoad, IdUnlock,
     GetLock, GetLoad, GetUnlock, SetLock, SetUnlock, Reply
<1> QED
  BY <1>2, <1>3, <1>4, <1>5

(* A request stays until it is answered, its code until ID stores one; the *)
(* answer is the only step that hands a code to a client.                  *)
LEMMA RequestStays ==
    ASSUME TypeOK, NEW t \in Threads, Work(t)
    PROVE  \/ Reply(t) /\ pc[t] = "done" /\ req'[t] = NoReq /\ id'[t] = New
           \/ ~Reply(t) /\ known' = known /\ req'[t] = req[t] /\ id'[t] = id[t]
           \/ /\ ~Reply(t) /\ IdStore(t) /\ known' = known /\ req'[t] = req[t]
              /\ id'[t] = val[t] + 1
<1>1. Types
  BY DEF TypeOK
<1>2. CASE Reply(t)
  BY <1>1, <1>2 DEF Reply, Types
<1>3. CASE ~Reply(t) /\ IdStore(t)
  BY <1>1, <1>3 DEF IdStore, Types
<1>4. CASE ~Reply(t) /\ ~IdStore(t)
  BY <1>4 DEF Work, BookLock, BookLoad, BookStore, BookUnlock, BookAbort, IdLock, IdLoad,
     IdUnlock, GetLock, GetLoad, GetUnlock, SetLock, SetStore, SetUnlock, locals
<1> QED
  BY <1>2, <1>3, <1>4

(* What the others have loaded, written and answered stays too. *)
LEMMA OthersLoaded ==
    ASSUME TypeOK, NEW t \in Threads, Work(t), NEW u \in Threads \ {t}
    PROVE  val'[u] = val[u] /\ view'[u] = view[u]
BY DEF TypeOK, Types, Work, BookLock, BookLoad, BookStore, BookUnlock, BookAbort,
       IdLock, IdLoad, IdStore, IdUnlock, GetLock, GetLoad, GetUnlock, SetLock, SetStore,
       SetUnlock, Reply, GetReturns, MapNext, DeleteCheck, locals

-----------------------------------------------------------------------------
(* A code is issued once *)

(* Who stores the next code has read the counter, which is still the same. *)
LEMMA IdStoreCounts ==
    ASSUME TypeOK, LoadedIsCurrent, NEW t \in Threads, IdStore(t)
    PROVE  /\ pc[t] = "id_store" /\ val[t] = cell[IdCounter] /\ cell[IdCounter] \in Nat
           /\ cell'[IdCounter] = cell[IdCounter] + 1 /\ id'[t] = cell[IdCounter] + 1
           /\ id[t] = New /\ req[t].id = New /\ req[t].op \in {"BOOK", "ID"}
<1>1. pc[t] = "id_store" /\ val[t] = cell[IdCounter]
  BY DEF IdStore, LoadedIsCurrent
<1>2. cell[IdCounter] \in Nat /\ cell'[IdCounter] = val[t] + 1 /\ id'[t] = val[t] + 1
  BY DEF TypeOK, Types, Keys, IdStore
<1>3. id[t] = New /\ req[t].id = New /\ req[t].op \in {"BOOK", "ID"}
  BY <1>1 DEF TypeOK, ControlOf, IdLabels
<1> QED
  BY <1>1, <1>2, <1>3

(* The counter never goes back. *)
LEMMA CounterGrows ==
    ASSUME TypeOK, OnlySettingsSet, NoClean, LoadedIsCurrent, NEW t \in Threads, Work(t)
    PROVE  /\ cell[IdCounter] \in Nat /\ cell'[IdCounter] \in Nat
           /\ cell[IdCounter] <= cell'[IdCounter]
<1>1. cell[IdCounter] \in Nat
  BY DEF TypeOK, Types, Keys
<1>2. cell'[IdCounter] \in {cell[IdCounter], cell[IdCounter] + 1}
  BY CounterWrites, IdStoreCounts
<1> QED
  BY <1>1, <1>2

(* The code of a request after a step is the one before, or the next one. *)
LEMMA BearsStep ==
    ASSUME TypeOK, LoadedIsCurrent, NEW t \in Threads, Work(t), NEW u \in Threads, Bears(u)'
    PROVE  \/ Bears(u) /\ id'[u] = id[u] /\ req'[u] = req[u]
           \/ u = t /\ IdStore(t) /\ id'[u] = cell[IdCounter] + 1 /\ req'[u] = req[u]
<1>1. Types
  BY DEF TypeOK
<1>2. CASE u # t
  <2>1. id'[u] = id[u] /\ req'[u] = req[u]
    BY <1>1, <1>2, WorkFrame
  <2> QED
    BY <2>1 DEF Bears
<1>3. CASE u = t
  <2>1. CASE req'[t] = NoReq
    BY <1>3, <2>1 DEF Bears, NoReq
  <2>2. CASE req'[t] = req[t] /\ id'[t] = id[t]
    BY <1>3, <2>2 DEF Bears
  <2>3. CASE IdStore(t) /\ req'[t] = req[t] /\ id'[t] = val[t] + 1
    BY <1>3, <2>3, IdStoreCounts
  <2> QED
    BY <2>1, <2>2, <2>3, RequestStays
<1> QED
  BY <1>2, <1>3

(* An answer hands out the code of its own request. *)
LEMMA ReplyCode ==
    ASSUME TypeOK, NEW t \in Threads, Work(t), NEW c \in known', c \notin known
    PROVE  Reply(t) /\ Bears(t) /\ c = id[t]
<1>1. Reply(t) /\ pc[t] = "done"
  BY RequestStays
<1>2. c \in Code(t)
  BY <1>1 DEF Reply
<1>3. req[t].op \in {"BOOK", "ID"} /\ result[t] # Fail /\ c = result[t]
  BY <1>2 DEF Code
<1>4. id[t] # New /\ result[t] = id[t]
  BY <1>1, <1>3 DEF TypeOK, ControlOf
<1> QED
  BY <1>1, <1>3, <1>4 DEF Bears

LEMMA WorkCounted ==
    ASSUME IInv, CodesInv, OnlySettingsSet, NoClean, NEW t \in Threads, Work(t)
    PROVE  Counted'
<1>1. TypeOK /\ Types /\ ChecksStayTrue /\ Counted /\ LoadedIsCurrent
  BY DEF IInv, TypeOK, CodesInv
<1>2. /\ cell[IdCounter] \in Nat /\ cell'[IdCounter] \in Nat
      /\ cell[IdCounter] <= cell'[IdCounter]
  BY <1>1, CounterGrows
<1>3. ASSUME NEW u \in Threads, Bears(u) PROVE id[u] \in Nat /\ id[u] <= cell[IdCounter]
  BY <1>1, <1>3 DEF Types, Bears, Counted
<1>4. known' \subseteq 1 .. cell'[IdCounter]
  <2> SUFFICES ASSUME NEW c \in known' PROVE c \in 1 .. cell'[IdCounter]
    OBVIOUS
  <2>1. CASE c \in known
    BY <1>1, <1>2, <2>1 DEF Counted
  <2>2. CASE c \notin known
    <3>1. Bears(t) /\ c = id[t]
      BY <1>1, <2>2, ReplyCode
    <3>2. c # 0
      BY <1>1, <2>2, WorkTypeOK DEF TypeOK, Types
    <3> QED
      BY <1>2, <1>3, <3>1, <3>2
  <2> QED
    BY <2>1, <2>2
<1>5. ASSUME NEW s \in Seats PROVE cell'[s] <= cell'[IdCounter]
  <2>1. cell[s] \in Nat /\ cell[s] <= cell[IdCounter]
    BY <1>1 DEF Types, Counted, Keys
  <2>2. CASE cell'[s] = cell[s]
    BY <1>2, <2>1, <2>2
  <2>3. CASE cell'[s] # cell[s]
    <3>1. cell'[s] = 0 \/ (cell'[s] = id[t] /\ Bears(t))
      BY <1>1, <2>3, SeatWrites DEF Bears
    <3> QED
      BY <1>2, <1>3, <3>1
  <2> QED
    BY <2>2, <2>3
<1>6. ASSUME NEW u \in Threads, Bears(u)' PROVE id'[u] <= cell'[IdCounter]
  <2>1. CASE Bears(u) /\ id'[u] = id[u]
    BY <1>2, <1>3, <2>1
  <2>2. CASE IdStore(t) /\ id'[u] = cell[IdCounter] + 1
    BY <1>1, <1>2, <2>2, IdStoreCounts
  <2> QED
    BY <1>1, <1>6, <2>1, <2>2, BearsStep
<1> QED
  BY <1>4, <1>5, <1>6 DEF Counted

(* The handler that has loaded the counter holds its lock. *)
LEMMA WorkLoaded ==
    ASSUME IInv, CodesInv, OnlySettingsSet, NoClean, NEW t \in Threads, Work(t)
    PROVE  LoadedIsCurrent'
<1>1. TypeOK /\ Types /\ LockInv /\ LoadedIsCurrent /\ IdCounter \in Keys
  BY DEF IInv, TypeOK, CodesInv, Keys
<1> SUFFICES ASSUME NEW u \in Threads, pc'[u] = "id_store"
             PROVE  val'[u] = cell'[IdCounter]
  BY DEF LoadedIsCurrent
<1>2. CASE u = t
  <2>1. IdLoad(t)
    BY <1>1, <1>2 DEF Types, Work, BookLock, BookLoad, BookStore, BookUnlock, BookAbort,
       IdLock, IdStore, IdUnlock, GetLock, GetLoad, GetUnlock, SetLock, SetStore, SetUnlock,
       Reply, Advance, Goto, Answer, GetReturns, MapNext, DeleteCheck
  <2> QED
    BY <1>1, <1>2, <2>1 DEF IdLoad, Types
<1>3. CASE u # t
  <2>1. pc[u] = "id_store" /\ val'[u] = val[u]
    BY <1>1, <1>3, WorkFrame, OthersLoaded
  <2>2. HoldsExclusive(u, IdCounter)
    BY <2>1 DEF HoldsExclusive
  <2>3. cell'[IdCounter] = cell[IdCounter]
    BY <1>1, <1>3, <2>2, WritesLocked, Exclusion
  <2> QED
    BY <1>1, <2>1, <2>3 DEF LoadedIsCurrent
<1> QED
  BY <1>2, <1>3

LEMMA WorkCarried ==
    ASSUME IInv, CodesInv, NEW t \in Threads, Work(t)
    PROVE  CarriedKnown'
<1>1. TypeOK /\ Types /\ LoadedIsCurrent /\ CarriedKnown
  BY DEF IInv, TypeOK, CodesInv
<1>2. known \subseteq known'
  BY <1>1, RequestStays DEF Reply
<1>3. ASSUME NEW u \in Threads, req'[u].op \in {"DELETE", "MAP"} \/ Carries(req'[u])
      PROVE  req'[u] = req[u] /\ id'[u] = id[u]
  <2>1. CASE u = t
    <3>1. ASSUME req'[t] = NoReq PROVE FALSE
      BY <1>3, <2>1, <3>1 DEF Carries, NoReq
    <3>2. ASSUME IdStore(t), req'[t] = req[t] PROVE FALSE
      BY <1>1, <1>3, <2>1, <3>2, IdStoreCounts DEF Carries
    <3> QED
      BY <1>1, <2>1, <3>1, <3>2, RequestStays
  <2>2. CASE u # t
    BY <1>1, <2>2, WorkFrame
  <2> QED
    BY <2>1, <2>2
<1> QED
  BY <1>1, <1>2, <1>3 DEF CarriedKnown

(* A code on its way to a client is no other request's. *)
LEMMA FreshApart ==
    ASSUME TypeOK, CodesInv, NEW t \in Threads, NEW u \in Threads, t # u,
           HasFreshCode(t), Bears(u)
    PROVE  id[t] # id[u]
<1>1. CASE HasFreshCode(u)
  BY <1>1 DEF CodesInv, UniqueCodes
<1>2. CASE ~HasFreshCode(u)
  <2>1. req[u] \in Requests
    BY DEF TypeOK, ControlOf, Bears, NoReq
  <2>2. Carries(req[u])
    BY <1>2, <2>1, RequestFacts DEF CodesInv, CarriedKnown, Bears, HasFreshCode, Carries
  <2>3. id[u] \in known /\ id[t] \notin known
    BY <2>2 DEF CodesInv, CarriedKnown, UniqueCodes
  <2> QED
    BY <2>3
<1> QED
  BY <1>1, <1>2

LEMMA WorkUnique ==
    ASSUME IInv, CodesInv, OnlySettingsSet, NoClean, NEW t \in Threads, Work(t)
    PROVE  UniqueCodes'
<1>1. TypeOK /\ Types /\ ChecksStayTrue /\ Counted /\ LoadedIsCurrent /\ UniqueCodes
  BY DEF IInv, TypeOK, CodesInv
<1>2. cell[IdCounter] \in Nat
  BY <1>1 DEF Types, Keys
<1>3. ASSUME NEW u \in Threads, HasFreshCode(u)'
      PROVE  \/ HasFreshCode(u) /\ id'[u] = id[u] /\ req'[u] = req[u] /\ id[u] # 0
                /\ id[u] \in Nat /\ id[u] <= cell[IdCounter]
             \/ u = t /\ IdStore(t) /\ id'[u] = cell[IdCounter] + 1 /\ req'[u] = req[u]
  <2>1. Bears(u)'
    BY <1>3 DEF HasFreshCode, Bears
  <2>2. CASE Bears(u) /\ id'[u] = id[u] /\ req'[u] = req[u]
    <3>1. HasFreshCode(u)
      BY <1>3, <2>2 DEF HasFreshCode, Bears
    <3>2. id[u] # 0 /\ id[u] # New
      BY <1>1, <3>1 DEF TypeOK, ControlOf, HasFreshCode
    <3> QED
      BY <1>1, <2>2, <3>1, <3>2 DEF Types, Counted
  <2> QED
    BY <1>1, <2>1, <2>2, BearsStep
<1>4. ASSUME IdStore(t) PROVE known' = known /\ \A s \in Seats : cell'[s] = cell[s]
  <2>1. pc[t] = "id_store" /\ known' = known
    BY <1>4 DEF IdStore
  <2> QED
    BY <1>1, <2>1, SeatWrites
<1>5. FreshCodeUnused'
  <2> SUFFICES ASSUME NEW u \in Threads, HasFreshCode(u)', NEW s \in Seats, cell'[s] = id'[u]
               PROVE  s \in SeatsOf(u)'
    BY DEF FreshCodeUnused
  <2>1. CASE IdStore(t) /\ id'[u] = cell[IdCounter] + 1
    <3>1. cell[s] \in Nat /\ cell[s] <= cell[IdCounter]
      BY <1>1 DEF Types, Keys, Counted
    <3> QED
      BY <1>2, <1>4, <2>1, <3>1
  <2>2. CASE HasFreshCode(u) /\ id'[u] = id[u] /\ req'[u] = req[u] /\ id[u] # 0
    <3>1. SeatsOf(u)' = SeatsOf(u)
      BY <2>2 DEF SeatsOf
    <3>2. CASE cell'[s] = cell[s]
      BY <1>1, <2>2, <3>1, <3>2 DEF UniqueCodes, FreshCodeUnused
    <3>3. CASE cell'[s] # cell[s]
      <4>1. pc[t] = "book_store" /\ req[t].op = "BOOK" /\ s \in SeatsOf(t) /\ cell'[s] = id[t] /\ id[t] # New
        BY <1>1, <2>2, <3>3, SeatWrites
      <4>2. Bears(t)
        BY <4>1 DEF Bears
      <4>3. u = t
        BY <1>1, <2>2, <4>1, <4>2, FreshApart
      <4> QED
        BY <3>1, <4>1, <4>3
    <3> QED
      BY <3>2, <3>3
  <2> QED
    BY <1>3, <2>1, <2>2
<1>6. ASSUME NEW u \in Threads, HasFreshCode(u)' PROVE id'[u] \notin known'
  <2>1. CASE IdStore(t) /\ id'[u] = cell[IdCounter] + 1
    BY <1>1, <1>2, <1>4, <2>1 DEF Counted
  <2>2. CASE HasFreshCode(u) /\ id'[u] = id[u] /\ req'[u] = req[u]
    <3> SUFFICES ASSUME id[u] \in known' PROVE FALSE
      BY <2>2
    <3>1. id[u] \notin known
      BY <1>1, <2>2 DEF UniqueCodes
    <3>2. Reply(t) /\ Bears(t) /\ id[u] = id[t]
      BY <1>1, <3>1, ReplyCode
    <3>3. u = t
      BY <1>1, <2>2, <3>2, FreshApart
    <3>4. req'[t] = NoReq
      BY <1>1, <3>2 DEF Reply, Types
    <3> QED
      BY <1>6, <3>3, <3>4 DEF HasFreshCode, NoReq
  <2> QED
    BY <1>3, <1>6, <2>1, <2>2
<1>7. ASSUME NEW u \in Threads, HasFreshCode(u)', NEW v \in Threads, HasFreshCode(v)', u # v
      PROVE  id'[u] # id'[v]
  <2>1. CASE HasFreshCode(u) /\ HasFreshCode(v) /\ id'[u] = id[u] /\ id'[v] = id[v]
    BY <1>1, <1>7, <2>1 DEF UniqueCodes
  <2>2. CASE ~(HasFreshCode(u) /\ HasFreshCode(v) /\ id'[u] = id[u] /\ id'[v] = id[v])
    BY <1>2, <1>3, <1>7, <2>2
  <2> QED
    BY <2>1, <2>2
<1> QED
  BY <1>5, <1>6, <1>7 DEF UniqueCodes

(* A request that arrives has no new code, and its own is one clients have.*)
LEMMA ReceiveCodes ==
    ASSUME IInv, CodesInv, NEW t \in Threads, NEW r \in Requests, Receive(t, r)
    PROVE  CodesInv'
<1>1. TypeOK /\ Types /\ Counted /\ LoadedIsCurrent /\ CarriedKnown /\ UniqueCodes
  BY DEF IInv, TypeOK, CodesInv
<1>2. /\ cell' = cell /\ val' = val /\ known' = known /\ Presentable(r)
      /\ \A u \in Threads \ {t} : id'[u] = id[u] /\ req'[u] = req[u] /\ pc'[u] = pc[u]
      /\ id'[t] = r.id /\ req'[t] = r
      /\ pc'[t] \in {"book_lock", "id_lock", "get_lock", "set_lock", "done"}
  BY <1>1 DEF Types, Receive, Dispatch, Goto, Answer
<1>3. r.op \in {"BOOK", "DELETE", "MAP", "ID"} => r.id = New \/ (Carries(r) /\ r.id \in known)
  BY <1>2, RequestFacts DEF Presentable, Carries
<1>4. Counted'
  <2>1. ASSUME NEW u \in Threads, Bears(u)' PROVE id'[u] <= cell'[IdCounter]
    <3>1. CASE u = t
      <4>1. r.id \in known /\ id'[u] = r.id
        BY <1>2, <1>3, <2>1, <3>1 DEF Bears
      <4>2. r.id \in 1 .. cell[IdCounter] /\ cell[IdCounter] \in Nat
        BY <1>1, <4>1 DEF Counted, Types, Keys
      <4> QED
        BY <1>2, <4>1, <4>2
    <3>2. CASE u # t
      BY <1>1, <1>2, <2>1, <3>2 DEF Bears, Counted
    <3> QED
      BY <3>1, <3>2
  <2> QED
    BY <1>1, <1>2, <2>1 DEF Counted
<1>5. LoadedIsCurrent'
  BY <1>1, <1>2 DEF LoadedIsCurrent
<1>6. CarriedKnown'
  BY <1>1, <1>2 DEF CarriedKnown, Presentable
<1>7. ASSUME NEW u \in Threads, HasFreshCode(u)'
      PROVE  HasFreshCode(u) /\ id'[u] = id[u] /\ req'[u] = req[u] /\ u # t
  BY <1>2, <1>3, <1>7 DEF HasFreshCode, Carries
<1>8. UniqueCodes'
  <2>1. FreshCodeUnused'
    BY <1>1, <1>2, <1>7 DEF UniqueCodes, FreshCodeUnused, SeatsOf
  <2>2. \A u \in Threads : HasFreshCode(u)' => id'[u] \notin known'
    BY <1>1, <1>2, <1>7 DEF UniqueCodes
  <2>3. \A u, v \in Threads : HasFreshCode(u)' /\ HasFreshCode(v)' /\ v # u => id'[v] # id'[u]
    BY <1>1, <1>7 DEF UniqueCodes
  <2> QED
    BY <2>1, <2>2, <2>3 DEF UniqueCodes
<1> QED
  BY <1>4, <1>5, <1>6, <1>8 DEF CodesInv

(* A crash takes the codes on their way with it, and the counter stays. *)
LEMMA CrashCodes ==
    ASSUME IInv, CodesInv, Crash
    PROVE  CodesInv'
<1>1. \A t \in Threads : req'[t] = NoReq /\ pc'[t] = "idle" /\ id'[t] = New
  BY DEF Crash
<1>2. cell' = cell /\ known' = known
  BY DEF Crash
<1>3. \A t \in Threads : ~Bears(t)' /\ ~HasFreshCode(t)' /\ ~Carries(req'[t])
                         /\ req'[t].op \notin {"DELETE", "MAP"}
  BY <1>1 DEF Bears, HasFreshCode, Carries, NoReq
<1> QED
  BY <1>1, <1>2, <1>3
     DEF CodesInv, Counted, LoadedIsCurrent, CarriedKnown, UniqueCodes, FreshCodeUnused

LEMMA StutterCodes ==
    ASSUME CodesInv, UNCHANGED vars
    PROVE  CodesInv'
<1>1. UNCHANGED <<cell, pc, req, id, val, known>>
  BY DEF vars, locals
<1>2. Counted'
  BY <1>1 DEF CodesInv, Counted, Bears
<1>3. LoadedIsCurrent' /\ CarriedKnown'
  BY <1>1 DEF CodesInv, LoadedIsCurrent, CarriedKnown
<1>4. UniqueCodes'
  BY <1>1 DEF CodesInv, UniqueCodes, FreshCodeUnused, HasFreshCode, SeatsOf
<1> QED
  BY <1>2, <1>3, <1>4 DEF CodesInv

LEMMA InitCodes == Init => CodesInv
<1> SUFFICES ASSUME Init PROVE CodesInv
  OBVIOUS
<1>1. \A t \in Threads : req[t] = NoReq /\ pc[t] = "idle" /\ id[t] = New
  BY DEF Init
<1>2. \A t \in Threads : ~Bears(t) /\ ~HasFreshCode(t) /\ ~Carries(req[t])
                         /\ req[t].op \notin {"DELETE", "MAP"}
  BY <1>1 DEF Bears, HasFreshCode, Carries, NoReq
<1>3. known = {} /\ cell[IdCounter] = 0 /\ \A s \in Seats : cell[s] = 0
  BY DEF Init, Keys
<1> QED
  BY <1>1, <1>2, <1>3
     DEF CodesInv, Counted, LoadedIsCurrent, CarriedKnown, UniqueCodes, FreshCodeUnused

LEMMA NextCodes ==
    ASSUME OnlySettingsSet, NoClean
    PROVE  IInv /\ CodesInv /\ [CrashNext]_vars => CodesInv'
<1> SUFFICES ASSUME IInv, CodesInv, [CrashNext]_vars PROVE CodesInv'
  OBVIOUS
<1>1. ASSUME NEW t \in Threads, Work(t) PROVE CodesInv'
  BY <1>1, WorkCounted, WorkLoaded, WorkCarried, WorkUnique DEF CodesInv
<1>2. ASSUME NEW t \in Threads, NEW r \in Requests, Receive(t, r) PROVE CodesInv'
  BY <1>2, ReceiveCodes
<1>3. CASE Crash
  BY <1>3, CrashCodes
<1>4. CASE UNCHANGED vars
  BY <1>4, StutterCodes
<1> QED
  BY <1>1, <1>2, <1>3, <1>4 DEF CrashNext, Next, Step, Quiet

(* A code is given to one request only: not to a client that has another,  *)
(* not to two requests at a time, not while a seat carries it, also when   *)
(* the server crashes between its issue and the booking or the answer.     *)
THEOREM CodesAreUnique ==
    ASSUME OnlySettingsSet, NoClean
    PROVE  CrashSpec => []UniqueCodes
<1>1. Init => IInv /\ CodesInv
  BY InitIInv, InitCodes
<1>2. IInv /\ CodesInv /\ [CrashNext]_vars => (IInv /\ CodesInv)'
  BY NextIInv, NextCodes
<1>3. CodesInv => UniqueCodes
  BY DEF CodesInv
<1> QED
  BY <1>1, <1>2, <1>3, PTL DEF CrashSpec

-----------------------------------------------------------------------------
(* The procedures implement Reservations *)

(* BOOK of t has taken seat s and not stored it yet. *)
Taking(t, s) == pc[t] = "book_store" /\ s \in todo[t]

(* One handler at most is storing a seat, since it holds its lock. *)
LEMMA OneTakes ==
    ASSUME IInv, NEW t \in Threads, NEW u \in Threads, NEW s \in Seats
    PROVE  /\ Taking(t, s) => HoldsExclusive(t, s) /\ s \in SeatsOf(t) /\ cell[s] = 0
           /\ Taking(t, s) /\ HoldsExclusive(u, s) => u = t
<1>1. TypeOK /\ LockInv /\ ChecksStayTrue /\ s \in Keys
  BY DEF IInv, Keys
<1>2. Taking(t, s) => Reserved(t, s)
  BY DEF Taking, Reserved
<1>3. Taking(t, s) => HoldsExclusive(t, s) /\ cell[s] = 0
  BY <1>1, <1>2, ReservedHeld DEF ChecksStayTrue
<1>4. Taking(t, s) => s \in SeatsOf(t)
  BY <1>1 DEF TypeOK, ControlOf, Taking, BookLabels, SeatsOf
<1> QED
  BY <1>1, <1>3, <1>4, Exclusion

(* The owner of a seat that is being stored is the code it is stored with. *)
LEMMA OwnerTaking ==
    ASSUME IInv, NEW t \in Threads, NEW s \in Seats, Taking(t, s)
    PROVE  OwnerOf(s) = id[t]
<1>1. \A u \in Threads : pc[u] = "book_store" /\ s \in todo[u] <=> u = t
  BY OneTakes DEF Taking
<1> QED
  BY <1>1 DEF OwnerOf

LEMMA OwnerTakingNext ==
    ASSUME IInv', NEW t \in Threads, NEW s \in Seats, Taking(t, s)'
    PROVE  OwnerOf(s)' = id'[t]
<1>1. ASSUME NEW u \in Threads, Taking(u, s)' PROVE HoldsExclusive(u, s)'
  BY <1>1 DEF IInv, TypeOK, ControlOf, Taking, HoldsExclusive, BookLabels, SeatsOf
<1>2. \A u \in Threads : HoldsExclusive(u, s)' => writer'[s] = u
  BY DEF IInv, LockInv, Keys
<1>3. \A u \in Threads : pc'[u] = "book_store" /\ s \in todo'[u] <=> u = t
  BY <1>1, <1>2 DEF Taking
<1> QED
  BY <1>3 DEF OwnerOf

(* The owner of any other seat is the code in its cell. *)
LEMMA OwnerCell ==
    ASSUME NEW s \in Seats
    PROVE  /\ (\A t \in Threads : ~Taking(t, s)) => OwnerOf(s) = cell[s]
           /\ (\A t \in Threads : ~Taking(t, s)') => OwnerOf(s)' = cell'[s]
BY DEF OwnerOf, Taking

(* A step that stores the same seats with the same codes keeps the owner.  *)
LEMMA OwnerSame ==
    ASSUME IInv, IInv', NEW s \in Seats, cell'[s] = cell[s],
           \A u \in Threads : Taking(u, s)' <=> Taking(u, s),
           \A u \in Threads : Taking(u, s) => id'[u] = id[u]
    PROVE  OwnerOf(s)' = OwnerOf(s)
<1>1. CASE \E u \in Threads : Taking(u, s)
  BY <1>1, OwnerTaking, OwnerTakingNext
<1>2. CASE \A u \in Threads : ~Taking(u, s)
  BY <1>2, OwnerCell
<1> QED
  BY <1>1, <1>2

(* The others take what they took. *)
LEMMA TakingFrame ==
    ASSUME Types, NEW t \in Threads, Work(t), NEW u \in Threads \ {t}, NEW s
    PROVE  (Taking(u, s)' <=> Taking(u, s)) /\ id'[u] = id[u]
BY WorkFrame DEF Taking

Owners == [s \in Seats |-> OwnerOf(s)]

(* A booking is made: BOOK goes on to its first store. *)
LEMMA TakesAll ==
    ASSUME IInv, CodesInv, IInv', NEW t \in Threads, Work(t),
           pc[t] # "book_store", pc'[t] = "book_store", todo'[t] = SeatsOf(t),
           \A s \in SeatsOf(t) : HoldsExclusive(t, s) /\ cell[s] = 0,
           cell' = cell, id'[t] = id[t], Bears(t), req[t] \in Requests, req[t].op = "BOOK"
    PROVE  Hall!Next
<1>1. Types /\ Counted
  BY DEF IInv, TypeOK, CodesInv
<1>2. SeatsOf(t) \in (SUBSET Seats) \ {{}}
  <2>1. Range(req[t].args) \in SUBSET Seats /\ Range(req[t].args) # {}
    BY RequestFacts
  <2> QED
    BY <2>1 DEF SeatsOf
<1>3. id[t] \in 1 .. cell[IdCounter]
  <2>1. id[t] \in Nat /\ id[t] # 0 /\ id[t] <= cell[IdCounter] /\ cell[IdCounter] \in Nat
    BY <1>1 DEF Types, Counted, Bears, IInv, TypeOK, ControlOf, Keys
  <2> QED
    BY <2>1
<1>4. ASSUME NEW s \in SeatsOf(t) PROVE OwnerOf(s) = 0 /\ OwnerOf(s)' = id[t]
  <2>1. s \in Seats
    BY <1>2
  <2>2. \A u \in Threads : ~Taking(u, s)
    BY <2>1, OneTakes DEF Taking
  <2>3. Taking(t, s)'
    BY DEF Taking
  <2> QED
    BY <2>1, <2>2, <2>3, OwnerCell, OwnerTakingNext
<1>5. ASSUME NEW s \in Seats, s \notin SeatsOf(t) PROVE OwnerOf(s)' = OwnerOf(s)
  <2>1. ~Taking(t, s) /\ ~Taking(t, s)'
    BY <1>5 DEF Taking
  <2>2. \A u \in Threads : (Taking(u, s)' <=> Taking(u, s)) /\ (Taking(u, s) => id'[u] = id[u])
    BY <1>1, <2>1, TakingFrame
  <2> QED
    BY <2>2, OwnerSame
<1>6. Hall!Book(SeatsOf(t), id[t])
  <2>1. Owners' = [s \in Seats |-> IF s \in SeatsOf(t) THEN id[t] ELSE Owners[s]]
    BY <1>4, <1>5 DEF Owners
  <2>2. \A s \in SeatsOf(t) : Owners[s] = 0
    BY <1>2, <1>4 DEF Owners
  <2> QED
    BY <2>1, <2>2 DEF Hall!Book, Hall!Seats, Seats, Owners
<1> QED
  BY <1>2, <1>3, <1>6 DEF Hall!Next, Hall!Seats, Seats

(* A seat is stored: it keeps the owner it had. *)
LEMMA StoreKeepsOwners ==
    ASSUME IInv, IInv', NEW t \in Threads, BookStore(t)
    PROVE  Owners' = Owners
<1>1. Types /\ ControlOf(t) /\ Work(t)
  BY DEF IInv, TypeOK, Work
<1>2. PICK x \in Seats : /\ x \in todo[t] /\ Advance(t, x, "book_unlock", SeatsOf(t))
                         /\ cell' = [cell EXCEPT ![x] = id[t]]
  BY DEF BookStore, IsNext
<1>3. pc[t] = "book_store" /\ id' = id
  BY DEF BookStore
<1>4. \/ pc'[t] = "book_unlock" /\ todo[t] = {x}
      \/ pc'[t] = "book_store" /\ todo'[t] = todo[t] \ {x}
  BY <1>1, <1>2, <1>3 DEF Types, Advance, Goto
<1>5. OwnerOf(x)' = OwnerOf(x)
  <2>1. Taking(t, x) /\ ~Taking(t, x)'
    BY <1>2, <1>3, <1>4 DEF Taking
  <2>2. \A u \in Threads : ~Taking(u, x)'
    BY <1>1, <2>1, TakingFrame, OneTakes
  <2>3. cell'[x] = id[t]
    BY <1>1, <1>2 DEF Types, Keys
  <2> QED
    BY <2>1, <2>2, <2>3, OwnerTaking, OwnerCell
<1>6. ASSUME NEW s \in Seats, s # x PROVE OwnerOf(s)' = OwnerOf(s)
  <2>1. Taking(t, s)' <=> Taking(t, s)
    BY <1>3, <1>4, <1>6 DEF Taking
  <2>2. \A u \in Threads : (Taking(u, s)' <=> Taking(u, s)) /\ (Taking(u, s) => id'[u] = id[u])
    BY <1>1, <1>3, <2>1, TakingFrame
  <2>3. cell'[s] = cell[s]
    BY <1>1, <1>2, <1>6 DEF Types, Keys
  <2> QED
    BY <2>2, <2>3, OwnerSame
<1> QED
  BY <1>5, <1>6 DEF Owners

(* A handler that is not storing changes no owner but through the cell. *)
LEMMA OwnerKept ==
    ASSUME IInv, IInv', NEW t \in Threads, Work(t), pc[t] # "book_store",
           pc'[t] # "book_store", NEW s \in Seats, cell'[s] = cell[s]
    PROVE  OwnerOf(s)' = OwnerOf(s)
<1>1. Types
  BY DEF IInv, TypeOK
<1>2. ~Taking(t, s) /\ ~Taking(t, s)'
  BY DEF Taking
<1>3. \A u \in Threads : (Taking(u, s)' <=> Taking(u, s)) /\ (Taking(u, s) => id'[u] = id[u])
  BY <1>1, <1>2, TakingFrame
<1> QED
  BY <1>3, OwnerSame

(* The last check of BOOK, by a client that has a code, is the booking. *)
LEMMA LoadBooks ==
    ASSUME IInv, CodesInv, IInv', NEW t \in Threads, BookLoad(t), pc'[t] = "book_store"
    PROVE  Hall!Next
<1>1. Types /\ ControlOf(t) /\ Work(t) /\ ChecksStayTrue
  BY DEF IInv, TypeOK, Work
<1>2. /\ pc[t] = "book_load" /\ UNCHANGED <<cell, id, req>>
      /\ req[t] \in Requests /\ req[t].op = "BOOK"
  BY <1>1 DEF BookLoad, ControlOf, BookLabels
<1>3. PICK x \in Seats :
        IF cell[x] = 0
        THEN Advance(t, x, IF id[t] = New THEN "id_lock" ELSE "book_store", SeatsOf(t))
        ELSE Goto(t, "book_abort") /\ todo' = [todo EXCEPT ![t] = SeatsOf(t)]
  BY DEF BookLoad
<1>4. cell[x] = 0 /\ todo[t] = {x} /\ todo'[t] = SeatsOf(t) /\ id[t] # New
  BY <1>1, <1>2, <1>3 DEF Types, Advance, Goto
<1>5. SeatsOf(t) \in SUBSET Seats
  BY <1>2, RequestFacts DEF SeatsOf
<1>6. ASSUME NEW s \in SeatsOf(t) PROVE HoldsExclusive(t, s) /\ cell[s] = 0
  <2>1. HoldsExclusive(t, s)
    BY <1>2 DEF HoldsExclusive
  <2>2. s = x \/ Reserved(t, s)
    BY <1>2, <1>4 DEF Reserved
  <2> QED
    BY <1>1, <1>4, <1>5, <2>1, <2>2 DEF ChecksStayTrue
<1>7. Bears(t)
  BY <1>2, <1>4 DEF Bears
<1> QED
  BY <1>1, <1>2, <1>4, <1>6, <1>7, TakesAll

(* For a client without a code it is the moment BOOK has got one. *)
LEMMA IdBooks ==
    ASSUME IInv, CodesInv, IInv', NEW t \in Threads, IdUnlock(t), pc'[t] = "book_store"
    PROVE  Hall!Next
<1>1. Types /\ ControlOf(t) /\ Work(t) /\ ChecksStayTrue
  BY DEF IInv, TypeOK, Work
<1>2. pc[t] = "id_unlock" /\ UNCHANGED <<cell, id, req, todo>>
  BY DEF IdUnlock
<1>3. req[t].op = "BOOK" /\ req[t] \in Requests /\ todo[t] = SeatsOf(t) /\ id[t] # New
  <2>1. req[t].op = "BOOK"
    BY <1>1, <1>2 DEF IdUnlock, Answer, Goto, Types
  <2> QED
    BY <1>1, <1>2, <2>1 DEF ControlOf, IdLabels, SeatsOf
<1>4. SeatsOf(t) \in SUBSET Seats
  BY <1>3, RequestFacts DEF SeatsOf
<1>5. ASSUME NEW s \in SeatsOf(t) PROVE HoldsExclusive(t, s) /\ cell[s] = 0
  <2>1. HoldsExclusive(t, s) /\ Reserved(t, s)
    BY <1>2 DEF HoldsExclusive, Reserved, IdLabels
  <2> QED
    BY <1>1, <1>4, <2>1 DEF ChecksStayTrue
<1>6. Bears(t)
  BY <1>3 DEF Bears
<1> QED
  BY <1>1, <1>2, <1>3, <1>5, <1>6, TakesAll

(* ID issues the next code. *)
LEMMA IdIssues ==
    ASSUME IInv, CodesInv, IInv', NEW t \in Threads, IdStore(t)
    PROVE  Hall!Issue
<1>1. Types /\ Work(t) /\ TypeOK /\ LoadedIsCurrent
  BY DEF IInv, TypeOK, Work, CodesInv
<1>2. pc[t] = "id_store" /\ pc'[t] = "id_unlock" /\ \A s \in Seats : cell'[s] = cell[s]
  BY <1>1, KeyAssumption DEF IdStore, Goto, Types, Keys
<1>3. \A s \in Seats : OwnerOf(s)' = OwnerOf(s)
  BY <1>1, <1>2, OwnerKept
<1>4. cell'[IdCounter] = cell[IdCounter] + 1
  BY <1>1, IdStoreCounts
<1> QED
  BY <1>3, <1>4 DEF Hall!Issue

(* DELETE releases one seat; SET touches none. *)
LEMMA SetReleases ==
    ASSUME IInv, CodesInv, IInv', OnlySettingsSet, NoClean, NEW t \in Threads, SetStore(t)
    PROVE  \/ \E s \in Seats : Hall!Release(s)
           \/ Owners' = Owners /\ cell'[IdCounter] = cell[IdCounter]
<1>1. Types /\ ControlOf(t) /\ Work(t) /\ TypeOK /\ ChecksStayTrue
  BY DEF IInv, TypeOK, Work
<1>2. pc[t] = "set_store" /\ pc'[t] = "set_unlock"
  BY <1>1 DEF SetStore, Goto, Types
<1>3. cell'[IdCounter] = cell[IdCounter]
  BY <1>1, <1>2, CounterWrites DEF IdStore
<1>4. CASE \A s \in Seats : cell'[s] = cell[s]
  BY <1>1, <1>2, <1>3, <1>4, OwnerKept DEF Owners
<1>5. ASSUME NEW x \in Seats, cell'[x] # cell[x] PROVE Hall!Release(x)
  <2>1. x = Cursor(t) /\ cell'[x] = 0 /\ HoldsExclusive(t, x)
    BY <1>1, <1>2, <1>5, SeatWrites DEF HoldsExclusive
  <2>2. \A u \in Threads : ~Taking(u, x)
    BY <1>2, <2>1, OneTakes DEF Taking
  <2>3. \A u \in Threads : ~Taking(u, x)'
    BY <1>1, <1>2, <2>2, TakingFrame DEF Taking
  <2>4. OwnerOf(x)' = 0
    BY <2>1, <2>3, OwnerCell
  <2>5. ASSUME NEW s \in Seats, s # x PROVE OwnerOf(s)' = OwnerOf(s)
    <3>1. cell'[s] = cell[s]
      BY <1>1, <1>2, <2>1, <2>5, SeatWrites
    <3> QED
      BY <1>1, <1>2, <3>1, OwnerKept
  <2>6. Owners' = [Owners EXCEPT ![x] = 0]
    BY <2>4, <2>5 DEF Owners
  <2> QED
    BY <1>3, <2>6 DEF Hall!Release, Hall!Seats, Seats, Owners
<1> QED
  BY <1>3, <1>4, <1>5

(* Every step of a handler is a step of the hall, or none. *)
LEMMA WorkImplements ==
    ASSUME IInv, CodesInv, OnlySettingsSet, NoClean, NEW t \in Threads, Work(t)
    PROVE  [Hall!Next]_(Hall!hall)
<1>1. IInv' /\ Types /\ TypeOK /\ ControlOf(t)
  BY NextIInv DEF IInv, TypeOK, CrashNext, Next, Step
<1>2. Owners' = Owners /\ cell'[IdCounter] = cell[IdCounter] => UNCHANGED Hall!hall
  BY DEF Hall!hall, Owners
<1>3. CASE BookStore(t)
  <2>1. cell'[IdCounter] = cell[IdCounter]
    BY <1>1, <1>3, CounterWrites DEF IdStore, BookStore
  <2> QED
    BY <1>1, <1>2, <1>3, <2>1, StoreKeepsOwners
<1>4. CASE IdStore(t)
  BY <1>1, <1>4, IdIssues DEF Hall!Next
<1>5. CASE SetStore(t)
  BY <1>1, <1>2, <1>5, SetReleases DEF Hall!Next, Hall!Seats, Seats
<1>6. CASE (BookLoad(t) \/ IdUnlock(t)) /\ pc'[t] = "book_store"
  BY <1>1, <1>6, LoadBooks, IdBooks
<1>7. CASE ~(BookStore(t) \/ IdStore(t) \/ SetStore(t)) /\ pc'[t] # "book_store"
  <2>1. cell' = cell /\ pc[t] # "book_store"
    BY <1>7 DEF Work, BookLock, BookLoad, BookUnlock, BookAbort, IdLock, IdLoad, IdUnlock,
       GetLock, GetLoad, GetUnlock, SetLock, SetUnlock, Reply
  <2> QED
    BY <1>1, <1>2, <1>7, <2>1, OwnerKept DEF Owners
<1>8. ASSUME pc'[t] = "book_store", ~BookStore(t) PROVE BookLoad(t) \/ IdUnlock(t)
  BY <1>1, <1>8, ZenonT(60) DEF Types, Work, BookLock, BookUnlock, BookAbort,
     IdLock, IdLoad, IdStore, GetLock, GetLoad, GetUnlock, SetLock, SetStore, SetUnlock,
     Reply, Advance, Goto, Answer, GetReturns, MapNext, DeleteCheck
<1> QED
  BY <1>3, <1>4, <1>5, <1>6, <1>7, <1>8

(* A request that arrives books nothing. *)
LEMMA ReceiveImplements ==
    ASSUME IInv, NEW t \in Threads, NEW r \in Requests, Receive(t, r)
    PROVE  UNCHANGED Hall!hall
<1>1. IInv' /\ Types
  BY NextIInv DEF IInv, TypeOK, CrashNext, Next, Step
<1>2. /\ cell' = cell /\ pc[t] = "idle"
      /\ \A u \in Threads \ {t} : pc'[u] = pc[u] /\ todo'[u] = todo[u] /\ id'[u] = id[u]
      /\ pc'[t] \in {"book_lock", "id_lock", "get_lock", "set_lock", "done"}
  BY <1>1 DEF Types, Receive, Dispatch, Goto, Answer
<1>3. ASSUME NEW s \in Seats PROVE OwnerOf(s)' = OwnerOf(s)
  <2>1. \A u \in Threads : (Taking(u, s)' <=> Taking(u, s)) /\ (Taking(u, s) => id'[u] = id[u])
    BY <1>2 DEF Taking
  <2> QED
    BY <1>1, <1>2, <2>1, OwnerSame
<1> QED
  BY <1>2, <1>3 DEF Hall!hall

(* The stored procedures, run by any number of handlers, do what the hall  *)
(* of Reservations does: a booking is all or nothing and takes free seats  *)
(* only, with a code that was issued; a code is issued once.               *)
THEOREM ProceduresImplementReservations ==
    ASSUME OnlySettingsSet, NoClean
    PROVE  Spec => ImplementsReservations
<1>1. Init => IInv /\ CodesInv
  BY InitIInv, InitCodes
<1>2. IInv /\ CodesInv /\ [Next]_vars => (IInv /\ CodesInv)'
  BY NextIInv, NextCodes DEF CrashNext
<1>3. Init => Hall!Init
  <2> SUFFICES ASSUME Init PROVE Hall!Init
    OBVIOUS
  <2>1. \A s \in Seats : OwnerOf(s) = 0
    BY DEF Init, OwnerOf, Keys
  <2>2. cell[IdCounter] = 0
    BY DEF Init, Keys
  <2> QED
    BY <2>1, <2>2 DEF Hall!Init, Hall!Seats, Seats
<1>4. IInv /\ CodesInv /\ [Next]_vars => [Hall!Next]_(Hall!hall)
  <2> SUFFICES ASSUME IInv, CodesInv, [Next]_vars PROVE [Hall!Next]_(Hall!hall)
    OBVIOUS
  <2>1. ASSUME NEW t \in Threads, Work(t) PROVE [Hall!Next]_(Hall!hall)
    BY <2>1, WorkImplements
  <2>2. ASSUME NEW t \in Threads, NEW r \in Requests, Receive(t, r) PROVE UNCHANGED Hall!hall
    BY <2>2, ReceiveImplements
  <2>3. CASE UNCHANGED vars
    BY <2>3 DEF Hall!hall, OwnerOf, vars, locals
  <2> QED
    BY <2>1, <2>2, <2>3 DEF Next, Step, Quiet
<1> QED
  BY <1>1, <1>2, <1>3, <1>4, PTL DEF Spec, ImplementsReservations, Hall!Spec

-----------------------------------------------------------------------------
(* A request frees, confirms and shows only the seats of its own code      *)

(* A client that cancels names each seat once, as the client program does. *)
DistinctDeletes == \A r \in Requests : r.op = "DELETE" => IsInjective(r.args)

(* No two requests bear one code, when a client keeps its code to itself.  *)
BearersDiffer ==
    \A t, u \in Threads : t # u /\ Bears(t) /\ Bears(u) => id[t] # id[u]

(* Seat s is known to carry the code of t: BOOK has stored it, DELETE has  *)
(* checked it and not freed it yet.                                        *)
Owns(t, s) ==
    \/ pc[t] = "book_store" /\ s \in SeatsOf(t) \ todo[t]
    \/ pc[t] = "book_unlock" /\ s \in SeatsOf(t)
    \/ pc[t] = "done" /\ req[t].op = "BOOK" /\ result[t] # Fail /\ s \in SeatsOf(t)
    \/ /\ req[t].op = "DELETE"
       /\ \E i \in 1 .. Len(req[t].args) :
            /\ s = req[t].args[i]
            /\ \/ pc[t] \in GetLabels /\ i < at[t]
               \/ pc[t] \in {"set_lock", "set_store"} /\ i >= at[t]
               \/ pc[t] = "set_unlock" /\ i > at[t]

OwnSeats == \A t \in Threads, s \in Seats : Owns(t, s) => cell[s] = id[t]

(* What GET loaded is still in the cell when it gives the lock back. *)
LoadHolds == \A t \in Threads : pc[t] = "get_unlock" => val[t] = cell[Cursor(t)]

(* The seats MAP has shown so far. *)
Shown(t) == IF pc[t] = "done" THEN NSeats ELSE at[t] - 1

Looks(t) ==
    req[t].op = "MAP" /\ (pc[t] \in GetLabels \/ (pc[t] = "done" /\ result[t] # Fail))

(* MAP has shown a seat as its client's exactly if it carries the code.    *)
ViewHolds ==
    \A t \in Threads :
        /\ pc[t] = "idle" => view[t] = <<>>
        /\ Looks(t) =>
            /\ Len(view[t]) = Shown(t)
            /\ \A i \in 1 .. Shown(t) : view[t][i] = 1 <=> cell[i - 1] = id[t]

OwnInv == BearersDiffer /\ OwnSeats /\ LoadHolds /\ ViewHolds

(* A code that is borne is on its way to a client, or came with a request. *)
LEMMA FreshOrCarried ==
    ASSUME TypeOK, CodesInv, NEW u \in Threads, Bears(u), ~HasFreshCode(u)
    PROVE  Carries(req[u]) /\ id[u] = req[u].id /\ id[u] \in known
<1>1. req[u] \in Requests
  BY DEF TypeOK, ControlOf, Bears, NoReq
<1>2. Carries(req[u])
  BY <1>1, RequestFacts DEF CodesInv, CarriedKnown, Bears, HasFreshCode, Carries
<1> QED
  BY <1>2 DEF CodesInv, CarriedKnown

LEMMA WorkBearers ==
    ASSUME IInv, CodesInv, BearersDiffer, NEW t \in Threads, Work(t)
    PROVE  BearersDiffer'
<1>1. TypeOK /\ LoadedIsCurrent /\ Counted
  BY DEF IInv, CodesInv
<1>2. cell[IdCounter] \in Nat
  BY <1>1 DEF TypeOK, Types, Keys
<1>3. ASSUME NEW u \in Threads, Bears(u)'
      PROVE  \/ Bears(u) /\ id'[u] = id[u] /\ id[u] \in Nat /\ id[u] <= cell[IdCounter]
             \/ u = t /\ id'[u] = cell[IdCounter] + 1
  <2>1. Bears(u) => id[u] \in Nat /\ id[u] <= cell[IdCounter]
    BY <1>1 DEF TypeOK, Types, Bears, Counted
  <2> QED
    BY <1>1, <1>3, <2>1, BearsStep
<1>4. ASSUME NEW u \in Threads, NEW v \in Threads, u # v, Bears(u)', Bears(v)'
      PROVE  id'[u] # id'[v]
  <2>1. CASE Bears(u) /\ Bears(v) /\ id'[u] = id[u] /\ id'[v] = id[v]
    BY <1>4, <2>1 DEF BearersDiffer
  <2>2. CASE ~(Bears(u) /\ Bears(v) /\ id'[u] = id[u] /\ id'[v] = id[v])
    BY <1>2, <1>3, <1>4, <2>2
  <2> QED
    BY <2>1, <2>2
<1> QED
  BY <1>4 DEF BearersDiffer

LEMMA ReceiveBearers ==
    ASSUME IInv, CodesInv, BearersDiffer, ~SharedCodes,
           NEW t \in Threads, NEW r \in Requests, Receive(t, r)
    PROVE  BearersDiffer'
<1>1. Types /\ TypeOK
  BY DEF IInv, TypeOK
<1>2. /\ id'[t] = r.id /\ req'[t] = r /\ Presentable(r)
      /\ \A u \in Threads \ {t} : id'[u] = id[u] /\ req'[u] = req[u]
  BY <1>1 DEF Types, Receive
<1>3. ASSUME NEW u \in Threads \ {t}, Bears(t)', Bears(u)' PROVE id'[u] # id'[t]
  <2>1. Carries(r) /\ r.id \in known
    BY <1>2, <1>3, RequestFacts DEF Bears, Carries, Presentable
  <2>2. Bears(u) /\ id'[u] = id[u]
    BY <1>2, <1>3 DEF Bears
  <2>3. CASE HasFreshCode(u)
    BY <1>2, <2>1, <2>2, <2>3 DEF CodesInv, UniqueCodes
  <2>4. CASE ~HasFreshCode(u)
    <3>1. Carries(req[u]) /\ id[u] = req[u].id
      BY <1>1, <2>2, <2>4, FreshOrCarried
    <3>2. pc[u] # "idle"
      BY <1>1, <3>1 DEF TypeOK, ControlOf, Carries, NoReq
    <3>3. req[u].id # r.id
      BY <1>2, <2>1, <3>1, <3>2 DEF Presentable
    <3> QED
      BY <1>2, <2>2, <3>1, <3>3
  <2> QED
    BY <2>3, <2>4
<1>4. ASSUME NEW u \in Threads \ {t}, NEW v \in Threads \ {t}, u # v, Bears(u)', Bears(v)'
      PROVE  id'[u] # id'[v]
  BY <1>2, <1>4 DEF Bears, BearersDiffer
<1> QED
  BY <1>3, <1>4 DEF BearersDiffer

(* Who owns a seat bears its code, which is a real one. *)
LEMMA OwnsCarries ==
    ASSUME IInv, CodesInv, OwnSeats, NEW t \in Threads, NEW s \in Seats, Owns(t, s)
    PROVE  Bears(t) /\ cell[s] = id[t] /\ id[t] # 0 /\ id[t] # New
<1>1. TypeOK /\ Types /\ ControlOf(t) /\ s \in Keys /\ CarriedKnown
  BY DEF IInv, TypeOK, Keys, CodesInv
<1>2. cell[s] = id[t] /\ cell[s] \in Nat
  BY <1>1 DEF OwnSeats, Types
<1>3. req[t].op \in {"BOOK", "DELETE"}
  BY <1>1 DEF Owns, ControlOf, BookLabels
<1>4. req[t].op = "DELETE" => id[t] # 0
  <2>1. req[t].op = "DELETE" => req[t] \in Requests /\ id[t] = req[t].id
    BY <1>1 DEF ControlOf, NoReq, CarriedKnown
  <2> QED
    BY <2>1, RequestAssumption DEF New
<1> QED
  BY <1>1, <1>2, <1>3, <1>4 DEF Bears, New, ControlOf

(* The cell DELETE is at while it stores is one of the seats it owns. *)
LEMMA CursorOwned ==
    ASSUME TypeOK, NEW t \in Threads, pc[t] = "set_store", req[t].op = "DELETE"
    PROVE  Owns(t, Cursor(t)) /\ Cursor(t) \in Seats
<1>1. req[t] \in Requests /\ at[t] \in 1 .. Len(KeyList(req[t]))
  BY DEF TypeOK, ControlOf, SetLabels
<1>2. KeyList(req[t]) = req[t].args /\ req[t].args \in Seq(Seats)
  BY <1>1, RequestAssumption DEF KeyList
<1>3. at[t] \in 1 .. Len(req[t].args) /\ Cursor(t) = req[t].args[at[t]] /\ at[t] >= at[t]
  BY <1>1, <1>2 DEF Cursor, TypeOK, Types
<1>4. Owns(t, Cursor(t))
  BY <1>3 DEF Owns
<1> QED
  BY <1>2, <1>3, <1>4

(* The step of another handler never changes whether a seat carries the    *)
(* code of a request that reads or cancels, nor a seat a handler owns.     *)
LEMMA OthersMatch ==
    ASSUME IInv, CodesInv, OwnInv, OnlySettingsSet, NoClean,
           NEW t \in Threads, Work(t), NEW u \in Threads \ {t}, NEW s \in Seats,
           id[u] # 0, Bears(u) \/ id[u] = New
    PROVE  cell'[s] = id[u] <=> cell[s] = id[u]
<1>1. TypeOK /\ ChecksStayTrue /\ BearersDiffer /\ OwnSeats
  BY DEF IInv, OwnInv
<1>2. ASSUME Bears(t), id[t] # New PROVE id[t] # id[u]
  BY <1>1, <1>2 DEF BearersDiffer
<1>3. CASE cell'[s] = cell[s]
  BY <1>3
<1>4. CASE cell'[s] # cell[s] /\ pc[t] = "book_store"
  <2>1. req[t].op = "BOOK" /\ cell[s] = 0 /\ cell'[s] = id[t] /\ id[t] # New
    BY <1>1, <1>4, SeatWrites
  <2>2. Bears(t)
    BY <2>1 DEF Bears
  <2> QED
    BY <1>2, <2>1, <2>2
<1>5. CASE cell'[s] # cell[s] /\ pc[t] # "book_store"
  <2>1. pc[t] = "set_store" /\ req[t].op = "DELETE" /\ s = Cursor(t) /\ cell'[s] = 0
    BY <1>1, <1>5, SeatWrites
  <2>2. Bears(t) /\ cell[s] = id[t] /\ id[t] # New
    BY <1>1, <2>1, CursorOwned, OwnsCarries
  <2> QED
    BY <1>2, <2>1, <2>2
<1> QED
  BY <1>3, <1>4, <1>5

(* The seats a handler owns after a step of its own carry its code. *)
LEMMA OwnSeatsSelf ==
    ASSUME IInv, CodesInv, OwnInv, OnlySettingsSet, NoClean, DistinctDeletes,
           NEW t \in Threads, Work(t), NEW s \in Seats, Owns(t, s)'
    PROVE  cell'[s] = id'[t]
<1>1. TypeOK /\ Types /\ ControlOf(t) /\ ChecksStayTrue /\ OwnSeats /\ s \in Keys
  BY DEF IInv, TypeOK, OwnInv, Keys
<1>2. CASE BookStore(t)
  <2>1. PICK x \in Seats : /\ x \in todo[t] /\ Advance(t, x, "book_unlock", SeatsOf(t))
                           /\ cell' = [cell EXCEPT ![x] = id[t]]
    BY <1>2 DEF BookStore, IsNext
  <2>2. pc[t] = "book_store" /\ req' = req /\ id' = id /\ req[t].op = "BOOK"
    BY <1>1, <1>2 DEF BookStore, ControlOf, BookLabels
  <2>3. \/ pc'[t] = "book_unlock" /\ todo[t] = {x}
        \/ pc'[t] = "book_store" /\ todo'[t] = todo[t] \ {x}
    BY <1>1, <2>1, <2>2 DEF Types, Advance, Goto
  <2>4. s = x \/ Owns(t, s)
    BY <2>2, <2>3 DEF Owns, SeatsOf
  <2>5. CASE s = x
    BY <1>1, <2>1, <2>2, <2>5 DEF Types
  <2>6. CASE s # x /\ Owns(t, s)
    BY <1>1, <2>1, <2>2, <2>6 DEF Types, OwnSeats
  <2> QED
    BY <2>4, <2>5, <2>6
<1>3. CASE BookUnlock(t)
  <2>1. pc[t] = "book_unlock" /\ UNCHANGED <<req, id, cell, result>>
    BY <1>3 DEF BookUnlock
  <2>2. pc'[t] \in {"book_unlock", "done"} /\ req[t].op = "BOOK"
    BY <1>1, <1>3, <2>1 DEF BookUnlock, Types, Advance, Goto, ControlOf, BookLabels
  <2>3. Owns(t, s)
    BY <2>1, <2>2 DEF Owns, SeatsOf
  <2> QED
    BY <1>1, <2>1, <2>3 DEF OwnSeats
<1>4. ASSUME BookLock(t) \/ BookLoad(t) \/ IdUnlock(t) \/ BookAbort(t) \/ Reply(t) PROVE FALSE
  <2>1. CASE BookLock(t)
    <3>1. pc'[t] \in {"book_lock", "book_load"} /\ req'[t].op = "BOOK"
      BY <1>1, <2>1 DEF BookLock, Types, Advance, Goto, ControlOf, BookLabels
    <3> QED
      BY <3>1 DEF Owns
  <2>2. CASE BookLoad(t)
    <3>1. /\ pc[t] = "book_load" /\ req'[t].op = "BOOK" /\ SeatsOf(t)' = SeatsOf(t)
      BY <1>1, <2>2 DEF BookLoad, ControlOf, BookLabels, SeatsOf
    <3>2. \/ pc'[t] \in {"book_load", "id_lock", "book_abort"}
          \/ pc'[t] = "book_store" /\ todo'[t] = SeatsOf(t)
      BY <1>1, <2>2, <3>1 DEF BookLoad, Types, Advance, Goto
    <3> QED
      BY <3>1, <3>2 DEF Owns
  <2>3. CASE IdUnlock(t)
    <3>1. /\ pc[t] = "id_unlock" /\ req' = req /\ todo' = todo /\ SeatsOf(t)' = SeatsOf(t)
      BY <2>3 DEF IdUnlock, SeatsOf
    <3>2. \/ pc'[t] = "book_store" /\ req[t].op = "BOOK"
          \/ pc'[t] = "done" /\ req[t].op = "ID"
      BY <1>1, <2>3, <3>1 DEF IdUnlock, Types, Goto, Answer, ControlOf, IdLabels
    <3>3. pc'[t] = "book_store" => todo[t] = SeatsOf(t)
      BY <1>1, <3>1, <3>2 DEF ControlOf, IdLabels, SeatsOf
    <3> QED
      BY <3>1, <3>2, <3>3 DEF Owns
  <2>4. CASE BookAbort(t)
    <3>1. pc[t] = "book_abort" /\ req' = req /\ req[t].op = "BOOK"
      BY <1>1, <2>4 DEF BookAbort, ControlOf, BookLabels
    <3>2. pc'[t] = "book_abort" \/ (pc'[t] = "done" /\ result'[t] = Fail)
      BY <1>1, <2>4, <3>1 DEF BookAbort, Types, Advance, Goto
    <3> QED
      BY <3>1, <3>2 DEF Owns
  <2>5. CASE Reply(t)
    <3>1. pc'[t] = "idle" /\ req'[t].op = "NONE"
      BY <1>1, <2>5 DEF Reply, Goto, Types, NoReq
    <3> QED
      BY <3>1 DEF Owns
  <2> QED
    BY <1>4, <2>1, <2>2, <2>3, <2>4, <2>5
<1>5. ASSUME IdLock(t) \/ IdLoad(t) \/ IdStore(t) PROVE FALSE
  <2>1. pc'[t] \in IdLabels /\ req'[t].op \in {"BOOK", "ID"}
    BY <1>1, <1>5 DEF IdLock, IdLoad, IdStore, Goto, Types, ControlOf, IdLabels, locals
  <2> QED
    BY <2>1 DEF Owns, IdLabels, GetLabels
<1>6. CASE GetLock(t) \/ GetLoad(t) \/ SetLock(t)
  <2>1. /\ UNCHANGED <<cell, req, id, at>> /\ req[t].op \notin {"BOOK", "ID"}
        /\ \/ pc[t] \in GetLabels /\ pc'[t] \in GetLabels
           \/ pc[t] = "set_lock" /\ pc'[t] = "set_store"
    BY <1>1, <1>6 DEF GetLock, GetLoad, SetLock, locals, Goto, Types, ControlOf, GetLabels, SetLabels
  <2>2. Owns(t, s)
    BY <2>1 DEF Owns, GetLabels
  <2> QED
    BY <1>1, <2>1, <2>2 DEF OwnSeats
<1>7. CASE GetUnlock(t)
  <2>1. /\ pc[t] = "get_unlock" /\ UNCHANGED <<cell, req, id>> /\ req[t].op # "BOOK"
        /\ at[t] \in 1 .. Len(KeyList(req[t])) /\ req[t] \in Requests
        /\ val[t] = cell[Cursor(t)]
    BY <1>1, <1>7 DEF GetUnlock, ControlOf, GetLabels, OwnInv, LoadHolds
  <2>2. req[t].op = "DELETE"
    <3>1. pc'[t] \in {"done", "get_lock", "set_lock"}
      BY <1>1, <1>7 DEF GetUnlock, GetReturns, MapNext, DeleteCheck, Goto, Answer, Types
    <3> QED
      BY <2>1, <3>1 DEF Owns
  <2>3. KeyList(req[t]) = req[t].args /\ req[t].args \in Seq(Seats)
    BY <2>1, <2>2, RequestAssumption DEF KeyList
  <2>4. DeleteCheck(t)
    BY <1>7, <2>2 DEF GetUnlock, GetReturns, MapNext
  <2>5. /\ val[t] = id[t]
        /\ \/ More(t) /\ pc'[t] = "get_lock" /\ at'[t] = at[t] + 1
           \/ ~More(t) /\ pc'[t] = "set_lock" /\ at'[t] = 1
    <3>1. val[t] # id[t] => pc'[t] = "done"
      BY <1>1, <2>4 DEF DeleteCheck, Answer, Goto, Types
    <3>2. val[t] = id[t]
      BY <2>1, <2>2, <3>1 DEF Owns, GetLabels
    <3> QED
      BY <1>1, <2>4, <3>2 DEF DeleteCheck, Goto, Types
  <2>6. PICK i \in 1 .. Len(req[t].args) :
            s = req[t].args[i] /\ (pc'[t] = "get_lock" => i < at'[t])
    BY <2>1, <2>2, <2>5 DEF Owns, GetLabels
  <2>7. i < at[t] \/ i = at[t]
    BY <1>1, <2>1, <2>3, <2>5, <2>6 DEF More, Types
  <2>8. CASE i < at[t]
    <3>1. Owns(t, s)
      BY <2>1, <2>2, <2>6, <2>8 DEF Owns, GetLabels
    <3> QED
      BY <1>1, <2>1, <3>1 DEF OwnSeats
  <2>9. CASE i = at[t]
    BY <2>1, <2>3, <2>5, <2>6, <2>9 DEF Cursor
  <2> QED
    BY <2>7, <2>8, <2>9
<1>8. CASE SetStore(t)
  <2>1. /\ pc[t] = "set_store" /\ pc'[t] = "set_unlock" /\ UNCHANGED <<req, id, at>>
        /\ req[t].op # "BOOK" /\ req[t] \in Requests /\ at[t] \in 1 .. Len(KeyList(req[t]))
    BY <1>1, <1>8 DEF SetStore, ControlOf, SetLabels, Goto, Types, locals
  <2>2. PICK i \in 1 .. Len(req[t].args) : req[t].op = "DELETE" /\ s = req[t].args[i] /\ i > at[t]
    BY <2>1 DEF Owns, GetLabels
  <2>3. KeyList(req[t]) = req[t].args /\ req[t].args \in Seq(Seats) /\ IsInjective(req[t].args)
    BY <2>1, <2>2, RequestAssumption DEF KeyList, DistinctDeletes
  <2>4. Cursor(t) # s
    <3>1. at[t] \in DOMAIN req[t].args /\ i \in DOMAIN req[t].args /\ i # at[t]
      BY <1>1, <2>1, <2>2, <2>3 DEF Types
    <3>2. req[t].args[at[t]] # req[t].args[i]
      BY <2>3, <3>1 DEF IsInjective
    <3> QED
      BY <2>2, <2>3, <3>2 DEF Cursor
  <2>5. cell'[s] = cell[s]
    BY <1>1, <2>1, <2>4, SeatWrites
  <2>6. i >= at[t]
    BY <1>1, <2>2 DEF Types
  <2>7. Owns(t, s)
    BY <2>1, <2>2, <2>6 DEF Owns
  <2> QED
    BY <1>1, <2>1, <2>5, <2>7 DEF OwnSeats
<1>9. CASE SetUnlock(t)
  <2>1. /\ pc[t] = "set_unlock" /\ UNCHANGED <<cell, req, id>> /\ req[t].op # "BOOK"
    BY <1>1, <1>9 DEF SetUnlock, ControlOf, SetLabels
  <2>2. pc'[t] = "done" \/ (pc'[t] = "set_lock" /\ at'[t] = at[t] + 1)
    BY <1>1, <1>9 DEF SetUnlock, Goto, Answer, Types
  <2>3. PICK i \in 1 .. Len(req[t].args) :
            req[t].op = "DELETE" /\ s = req[t].args[i] /\ i >= at[t] + 1
    BY <2>1, <2>2 DEF Owns, GetLabels
  <2>4. i > at[t]
    BY <1>1, <2>3 DEF Types
  <2>5. Owns(t, s)
    BY <2>1, <2>3, <2>4 DEF Owns
  <2> QED
    BY <1>1, <2>1, <2>5 DEF OwnSeats
<1> QED
  BY <1>2, <1>3, <1>4, <1>5, <1>6, <1>7, <1>8, <1>9 DEF Work

LEMMA WorkOwns ==
    ASSUME IInv, CodesInv, OwnInv, OnlySettingsSet, NoClean, DistinctDeletes,
           NEW t \in Threads, Work(t)
    PROVE  OwnSeats'
<1> SUFFICES ASSUME NEW u \in Threads, NEW s \in Seats, Owns(u, s)'
             PROVE  cell'[s] = id'[u]
  BY DEF OwnSeats
<1>1. CASE u = t
  BY <1>1, OwnSeatsSelf
<1>2. CASE u # t
  <2>1. /\ pc'[u] = pc[u] /\ req'[u] = req[u] /\ id'[u] = id[u] /\ todo'[u] = todo[u]
        /\ at'[u] = at[u] /\ result'[u] = result[u]
    BY <1>2, WorkFrame DEF IInv, TypeOK
  <2>2. Owns(u, s)
    BY <2>1 DEF Owns, SeatsOf
  <2>3. cell[s] = id[u] /\ Bears(u) /\ id[u] # 0
    BY <2>2, OwnsCarries DEF OwnInv
  <2> QED
    BY <1>2, <2>1, <2>3, OthersMatch
<1> QED
  BY <1>1, <1>2

(* A lock held shared keeps the cell as it was loaded. *)
LEMMA WorkLoadHolds ==
    ASSUME IInv, LoadHolds, NEW t \in Threads, Work(t)
    PROVE  LoadHolds'
<1>1. TypeOK /\ Types /\ LockInv
  BY DEF IInv, TypeOK
<1> SUFFICES ASSUME NEW u \in Threads, pc'[u] = "get_unlock"
             PROVE  val'[u] = cell'[Cursor(u)']
  BY DEF LoadHolds, Cursor
<1>2. CASE u = t
  <2>1. GetLoad(t)
    BY <1>1, <1>2 DEF Types, Work, BookLock, BookLoad, BookStore, BookUnlock, BookAbort,
       IdLock, IdLoad, IdStore, IdUnlock, GetLock, GetUnlock, SetLock, SetStore, SetUnlock,
       Reply, Advance, Goto, Answer, GetReturns, MapNext, DeleteCheck
  <2>2. Cursor(t)' = Cursor(t) /\ cell' = cell /\ val'[t] = cell[Cursor(t)]
    BY <1>1, <2>1 DEF GetLoad, Cursor, Types
  <2> QED
    BY <1>2, <2>2
<1>3. CASE u # t
  <2>1. pc[u] = "get_unlock" /\ val'[u] = val[u] /\ req'[u] = req[u] /\ at'[u] = at[u]
    BY <1>1, <1>3, WorkFrame, OthersLoaded
  <2>2. Cursor(u)' = Cursor(u)
    BY <2>1 DEF Cursor
  <2>3. Cursor(u) \in Keys
    BY <1>1, <2>1, CursorType DEF TypeOK, ControlOf, GetLabels, NoReq
  <2>4. HoldsShared(u, Cursor(u))
    BY <2>1 DEF HoldsShared
  <2>5. u \in readers[Cursor(u)]
    BY <1>1, <2>3, <2>4 DEF LockInv
  <2>6. writer[Cursor(u)] = NoThread
    BY <1>1, <2>3, <2>5 DEF LockInv
  <2>7. ~HoldsExclusive(t, Cursor(u))
    BY <1>1, <2>3, <2>6, ValueAssumption DEF LockInv
  <2>8. cell'[Cursor(u)] = cell[Cursor(u)]
    BY <1>1, <2>3, <2>7, WritesLocked
  <2> QED
    BY <2>1, <2>2, <2>8 DEF LoadHolds
<1> QED
  BY <1>2, <1>3

(* A client that looks at the hall has no code, or a real one. *)
LEMMA LooksCode ==
    ASSUME TypeOK, CodesInv, NEW u \in Threads, req[u].op = "MAP"
    PROVE  id[u] # 0 /\ (Bears(u) \/ id[u] = New) /\ req[u] \in Requests
<1>1. req[u] \in Requests /\ id[u] = req[u].id
  BY DEF TypeOK, ControlOf, NoReq, CodesInv, CarriedKnown
<1> QED
  BY <1>1, RequestAssumption DEF New, Bears

(* One more seat is shown, as the lock of it was still held. *)
LEMMA ViewSelf ==
    ASSUME IInv, CodesInv, LoadHolds, ViewHolds, NEW t \in Threads, Work(t), Looks(t)'
    PROVE  /\ Len(view'[t]) = Shown(t)'
           /\ \A i \in 1 .. Shown(t)' : view'[t][i] = 1 <=> cell'[i - 1] = id'[t]
<1>1. TypeOK /\ Types /\ ControlOf(t)
  BY DEF IInv, TypeOK
<1>2. GetLock(t) \/ GetLoad(t) \/ GetUnlock(t)
  <2>1. req'[t].op = "MAP" /\ pc'[t] \in GetLabels \cup {"done"}
    BY DEF Looks
  <2>2. req'[t] = req[t]
    BY <1>1, <2>1, RequestStays DEF NoReq
  <2>3. pc[t] \in GetLabels \cup {"idle", "done"}
    BY <1>1, <2>1, <2>2 DEF ControlOf, Types, Labels, BookLabels, IdLabels, SetLabels
  <2>4. ~Reply(t)
    BY <1>1, <2>1 DEF Reply, Goto, GetLabels, Types
  <2> QED
    BY <2>3, <2>4 DEF Work, BookLock, BookLoad, BookStore, BookUnlock, BookAbort, IdLock, IdLoad,
       IdStore, IdUnlock, SetLock, SetStore, SetUnlock, GetLabels
<1>3. CASE GetLock(t) \/ GetLoad(t)
  <2>1. /\ UNCHANGED <<cell, req, id, at, view>>
        /\ pc[t] \in GetLabels /\ pc'[t] \in GetLabels
    BY <1>1, <1>3 DEF GetLock, GetLoad, locals, Goto, Types, GetLabels
  <2>2. Looks(t) /\ Shown(t)' = Shown(t)
    BY <2>1 DEF Looks, Shown, GetLabels
  <2> QED
    BY <2>1, <2>2 DEF ViewHolds
<1>4. CASE GetUnlock(t)
  <2>1. /\ pc[t] = "get_unlock" /\ UNCHANGED <<cell, req, id>> /\ req[t].op = "MAP"
        /\ at[t] \in 1 .. Len(KeyList(req[t])) /\ val[t] = cell[Cursor(t)]
    BY <1>1, <1>4 DEF GetUnlock, ControlOf, GetLabels, LoadHolds, Looks
  <2>2. KeyList(req[t]) = AllSeats /\ Len(AllSeats) = NSeats
    BY <2>1, SizeAssumption DEF KeyList, AllSeats
  <2>3. at[t] \in 1 .. NSeats /\ Cursor(t) = at[t] - 1 /\ at[t] \in Nat
    BY <2>1, <2>2, SizeAssumption DEF Cursor, AllSeats
  <2>4. Len(view[t]) = at[t] - 1 /\ \A i \in 1 .. at[t] - 1 : view[t][i] = 1 <=> cell[i - 1] = id[t]
    BY <2>1 DEF ViewHolds, Looks, Shown, GetLabels
  <2>5. Digit(val[t], id[t]) = 1 <=> cell[at[t] - 1] = id[t]
    <3>1. id[t] # 0
      BY <1>1, <2>1, LooksCode
    <3> QED
      BY <2>1, <2>3, <3>1 DEF Digit
  <2>6. /\ view' = [view EXCEPT ![t] = Append(view[t], Digit(val[t], id[t]))]
        /\ \/ pc'[t] = "get_lock" /\ at'[t] = at[t] + 1
           \/ pc'[t] = "done" /\ at[t] = NSeats
    <3>1. MapNext(t)
      BY <1>4, <2>1 DEF GetUnlock, GetReturns, DeleteCheck
    <3> QED
      BY <1>1, <2>2, <2>3, <3>1, SizeAssumption DEF MapNext, Goto, Answer, More, Types
  <2>7. Shown(t)' = at[t]
    BY <2>3, <2>6 DEF Shown
  <2>8. view[t] \in Seq({0, 1, 2}) /\ view'[t] = Append(view[t], Digit(val[t], id[t]))
    BY <1>1, <2>6 DEF Types
  <2>9. Len(view'[t]) = at[t]
    BY <2>3, <2>4, <2>8
  <2>10. ASSUME NEW i \in 1 .. at[t] PROVE view'[t][i] = 1 <=> cell[i - 1] = id[t]
    <3>1. CASE i = at[t]
      BY <2>3, <2>4, <2>5, <2>8, <3>1
    <3>2. CASE i # at[t]
      <4>1. i \in 1 .. at[t] - 1
        BY <2>3, <3>2
      <4>2. view'[t][i] = view[t][i]
        BY <2>4, <2>8, <4>1
      <4> QED
        BY <2>4, <4>1, <4>2
    <3> QED
      BY <3>1, <3>2
  <2> QED
    BY <2>1, <2>7, <2>9, <2>10
<1> QED
  BY <1>2, <1>3, <1>4

LEMMA WorkView ==
    ASSUME IInv, CodesInv, OwnInv, OnlySettingsSet, NoClean, NEW t \in Threads, Work(t)
    PROVE  ViewHolds'
<1>1. TypeOK /\ Types /\ LoadHolds /\ ViewHolds
  BY DEF IInv, TypeOK, OwnInv
<1>2. ASSUME pc'[t] = "idle" PROVE view'[t] = <<>>
  <2>1. Reply(t)
    BY <1>1, <1>2 DEF Types, Work, BookLock, BookLoad, BookStore, BookUnlock, BookAbort,
       IdLock, IdLoad, IdStore, IdUnlock, GetLock, GetLoad, GetUnlock, SetLock, SetStore,
       SetUnlock, Advance, Goto, Answer, GetReturns, MapNext, DeleteCheck
  <2> QED
    BY <1>1, <2>1 DEF Reply, Types
<1>3. ASSUME NEW u \in Threads \ {t}
      PROVE  /\ pc'[u] = "idle" => view'[u] = <<>>
             /\ Looks(u)' => /\ Len(view'[u]) = Shown(u)'
                             /\ \A i \in 1 .. Shown(u)' : view'[u][i] = 1 <=> cell'[i - 1] = id'[u]
  <2>1. /\ pc'[u] = pc[u] /\ req'[u] = req[u] /\ id'[u] = id[u] /\ at'[u] = at[u]
        /\ result'[u] = result[u] /\ view'[u] = view[u]
    BY <1>1, WorkFrame, OthersLoaded
  <2>2. (Looks(u)' <=> Looks(u)) /\ Shown(u)' = Shown(u)
    BY <2>1 DEF Looks, Shown
  <2>3. ASSUME Looks(u), NEW i \in 1 .. Shown(u) PROVE cell'[i - 1] = id[u] <=> cell[i - 1] = id[u]
    <3>1. Shown(u) \in 0 .. NSeats
      <4>1. CASE pc[u] = "done"
        BY <4>1, SizeAssumption DEF Shown
      <4>2. CASE pc[u] # "done"
        <5>1. at[u] \in 1 .. Len(KeyList(req[u])) /\ req[u].op = "MAP"
          BY <1>1, <2>3, <4>2 DEF Looks, TypeOK, ControlOf
        <5>2. Len(KeyList(req[u])) = NSeats
          BY <5>1, SizeAssumption DEF KeyList, AllSeats
        <5> QED
          BY <4>2, <5>1, <5>2, SizeAssumption DEF Shown
      <4> QED
        BY <4>1, <4>2
    <3>2. i - 1 \in Seats
      BY <3>1, SizeAssumption DEF Seats
    <3> QED
      BY <1>1, <2>3, <3>2, LooksCode, OthersMatch DEF Looks
  <2>4. Looks(u) => /\ Len(view[u]) = Shown(u)
                    /\ \A i \in 1 .. Shown(u) : view[u][i] = 1 <=> cell[i - 1] = id[u]
    BY <1>1 DEF ViewHolds
  <2>5. pc'[u] = "idle" => view'[u] = <<>>
    BY <1>1, <2>1 DEF ViewHolds
  <2>6. ASSUME Looks(u)
        PROVE  \A i \in 1 .. Shown(u) : view'[u][i] = 1 <=> cell'[i - 1] = id'[u]
    <3> TAKE i \in 1 .. Shown(u)
    <3>1. cell'[i - 1] = id[u] <=> cell[i - 1] = id[u]
      BY <2>3, <2>6
    <3> QED
      BY <2>1, <2>4, <2>6, <3>1
  <2> QED
    BY <2>1, <2>2, <2>4, <2>5, <2>6
<1>4. Looks(t)' => /\ Len(view'[t]) = Shown(t)'
                   /\ \A i \in 1 .. Shown(t)' : view'[t][i] = 1 <=> cell'[i - 1] = id'[t]
  BY <1>1, ViewSelf
<1>5. ASSUME NEW u \in Threads
      PROVE  /\ pc'[u] = "idle" => view'[u] = <<>>
             /\ Looks(u)' => /\ Len(view'[u]) = Shown(u)'
                             /\ \A i \in 1 .. Shown(u)' : view'[u][i] = 1 <=> cell'[i - 1] = id'[u]
  <2>1. CASE u = t
    BY <1>2, <1>4, <2>1
  <2>2. CASE u # t
    BY <1>3, <2>2
  <2> QED
    BY <2>1, <2>2
<1> QED
  BY <1>5 DEF ViewHolds

(* A request that arrives owns nothing and has shown nothing. *)
LEMMA ReceiveOwn ==
    ASSUME IInv, CodesInv, OwnInv, ~SharedCodes,
           NEW t \in Threads, NEW r \in Requests, Receive(t, r)
    PROVE  OwnInv'
<1>1. TypeOK /\ Types /\ ControlOf(t) /\ BearersDiffer /\ OwnSeats /\ LoadHolds /\ ViewHolds
  BY DEF IInv, TypeOK, OwnInv
<1>2. /\ cell' = cell /\ val' = val /\ view' = view /\ pc[t] = "idle" /\ req'[t] = r
      /\ \A u \in Threads \ {t} :
            /\ pc'[u] = pc[u] /\ req'[u] = req[u] /\ id'[u] = id[u] /\ todo'[u] = todo[u]
            /\ at'[u] = at[u] /\ result'[u] = result[u]
      /\ at'[t] = 1
  BY <1>1 DEF Types, Receive, Dispatch, Goto, Answer, ControlOf
<1>3. \/ pc'[t] \in {"book_lock", "id_lock", "get_lock"}
      \/ pc'[t] = "set_lock" /\ r.op \in {"SET", "CLEAN"}
      \/ pc'[t] = "done" /\ result'[t] = Fail
  BY <1>1 DEF Types, Receive, Dispatch, Goto, Answer
<1>4. BearersDiffer'
  BY <1>1, ReceiveBearers
<1>5. OwnSeats'
  <2> SUFFICES ASSUME NEW u \in Threads, NEW s \in Seats, Owns(u, s)'
               PROVE  cell'[s] = id'[u]
    BY DEF OwnSeats
  <2>1. ASSUME u = t PROVE FALSE
    <3>1. \A i \in 1 .. Len(r.args) : ~(i < 1)
      OBVIOUS
    <3> QED
      BY <1>2, <1>3, <2>1, <3>1 DEF Owns
  <2>2. CASE u # t
    <3>1. Owns(u, s)
      BY <1>2, <2>2 DEF Owns, SeatsOf
    <3> QED
      BY <1>1, <1>2, <2>2, <3>1 DEF OwnSeats
  <2> QED
    BY <2>1, <2>2
<1>6. LoadHolds'
  BY <1>1, <1>2, <1>3 DEF LoadHolds, Cursor
<1>7. ASSUME NEW u \in Threads
      PROVE  /\ pc'[u] = "idle" => view'[u] = <<>>
             /\ Looks(u)' => /\ Len(view'[u]) = Shown(u)'
                             /\ \A i \in 1 .. Shown(u)' : view'[u][i] = 1 <=> cell'[i - 1] = id'[u]
  <2>1. CASE u = t
    <3>1. view'[t] = <<>>
      BY <1>1, <1>2 DEF ViewHolds
    <3>2. Looks(t)' => Shown(t)' = 0
      BY <1>2, <1>3 DEF Looks, Shown, GetLabels
    <3> QED
      BY <2>1, <3>1, <3>2
  <2>2. CASE u # t
    <3>1. (Looks(u)' <=> Looks(u)) /\ Shown(u)' = Shown(u)
      BY <1>2, <2>2 DEF Looks, Shown
    <3> QED
      BY <1>1, <1>2, <2>2, <3>1 DEF ViewHolds
  <2> QED
    BY <2>1, <2>2
<1> QED
  BY <1>4, <1>5, <1>6, <1>7 DEF OwnInv, ViewHolds

(* No handler at work: nothing to keep. *)
LEMMA IdleOwn ==
    ASSUME \A t \in Threads : pc[t] = "idle" /\ req[t] = NoReq /\ view[t] = <<>>
    PROVE  OwnInv
<1>1. \A t \in Threads : ~Bears(t) /\ ~Looks(t)
  BY DEF Bears, Looks, NoReq
<1>2. \A t \in Threads, s \in Seats : ~Owns(t, s)
  BY DEF Owns, NoReq
<1> QED
  BY <1>1, <1>2 DEF OwnInv, BearersDiffer, OwnSeats, LoadHolds, ViewHolds

LEMMA CrashOwn ==
    ASSUME Crash
    PROVE  OwnInv'
<1>1. \A t \in Threads : pc'[t] = "idle" /\ req'[t] = NoReq /\ view'[t] = <<>>
  BY DEF Crash
<1>2. \A t \in Threads : ~Bears(t)' /\ ~Looks(t)'
  BY <1>1 DEF Bears, Looks, NoReq
<1>3. \A t \in Threads, s \in Seats : ~Owns(t, s)'
  BY <1>1 DEF Owns, NoReq, GetLabels
<1> QED
  BY <1>1, <1>2, <1>3 DEF OwnInv, BearersDiffer, OwnSeats, LoadHolds, ViewHolds

LEMMA StutterOwn ==
    ASSUME OwnInv, UNCHANGED vars
    PROVE  OwnInv'
<1> USE DEF vars, locals
<1>1. BearersDiffer'
  BY DEF OwnInv, BearersDiffer, Bears
<1>2. OwnSeats'
  BY DEF OwnInv, OwnSeats, Owns, SeatsOf
<1>3. LoadHolds'
  BY DEF OwnInv, LoadHolds, Cursor
<1>4. ViewHolds'
  BY DEF OwnInv, ViewHolds, Looks, Shown
<1> QED
  BY <1>1, <1>2, <1>3, <1>4 DEF OwnInv

LEMMA NextOwn ==
    ASSUME OnlySettingsSet, NoClean, DistinctDeletes, ~SharedCodes
    PROVE  IInv /\ CodesInv /\ OwnInv /\ [CrashNext]_vars => OwnInv'
<1> SUFFICES ASSUME IInv, CodesInv, OwnInv, [CrashNext]_vars PROVE OwnInv'
  OBVIOUS
<1>1. ASSUME NEW t \in Threads, Work(t) PROVE OwnInv'
  BY <1>1, WorkBearers, WorkOwns, WorkLoadHolds, WorkView DEF OwnInv
<1>2. ASSUME NEW t \in Threads, NEW r \in Requests, Receive(t, r) PROVE OwnInv'
  BY <1>2, ReceiveOwn
<1>3. CASE Crash
  BY <1>3, CrashOwn
<1>4. CASE UNCHANGED vars
  BY <1>4, StutterOwn
<1> QED
  BY <1>1, <1>2, <1>3, <1>4 DEF CrashNext, Next, Step, Quiet

(* What the invariant says of each kind of request. *)
LEMMA OwnConsequences ==
    ASSUME IInv, CodesInv, OwnInv
    PROVE  CancelsOnlyOwn /\ ConfirmedHolds /\ MapShowsOwn
<1>1. TypeOK /\ Types /\ OwnSeats /\ ViewHolds
  BY DEF IInv, TypeOK, OwnInv
<1>2. CancelsOnlyOwn
  BY <1>1, CursorOwned DEF CancelsOnlyOwn, OwnSeats
<1>3. ConfirmedHolds
  <2> SUFFICES ASSUME NEW t \in Threads, pc[t] = "done", req[t].op = "BOOK", result[t] # Fail,
                      NEW s \in Range(req[t].args)
               PROVE  cell[s] = result[t]
    BY DEF ConfirmedHolds
  <2>1. req[t] \in Requests /\ result[t] = id[t]
    BY <1>1 DEF TypeOK, ControlOf
  <2>2. s \in Seats
    BY <2>1, RequestFacts
  <2>3. Owns(t, s)
    BY DEF Owns, SeatsOf
  <2> QED
    BY <1>1, <2>1, <2>2, <2>3 DEF OwnSeats
<1>4. MapShowsOwn
  <2> SUFFICES ASSUME NEW t \in Threads, pc[t] = "done", req[t].op = "MAP", result[t] # Fail,
                      NEW s \in Seats
               PROVE  view[t][s + 1] = 1 <=> id[t] # New /\ cell[s] = id[t]
    BY DEF MapShowsOwn
  <2>1. PICK i \in 1 .. NSeats : i = s + 1 /\ i - 1 = s
    BY SizeAssumption DEF Seats
  <2>2. s \in Keys
    BY DEF Keys
  <2>3. cell[s] \in Nat
    BY <1>1, <2>2 DEF Types
  <2>4. Looks(t) /\ Shown(t) = NSeats
    BY DEF Looks, Shown
  <2>5. view[t][i] = 1 <=> cell[i - 1] = id[t]
    BY <1>1, <2>4 DEF ViewHolds
  <2> QED
    BY <2>1, <2>3, <2>5 DEF New
<1> QED
  BY <1>2, <1>3, <1>4

(* The requests of clients that keep their codes to themselves touch, and  *)
(* show, only the seats of their own code.                                 *)
THEOREM OwnSeatsOnly ==
    ASSUME OnlySettingsSet, NoClean, DistinctDeletes, ~SharedCodes
    PROVE  CrashSpec => [](CancelsOnlyOwn /\ ConfirmedHolds /\ MapShowsOwn)
<1>1. Init => IInv /\ CodesInv /\ OwnInv
  BY InitIInv, InitCodes, IdleOwn DEF Init
<1>2. IInv /\ CodesInv /\ OwnInv /\ [CrashNext]_vars => (IInv /\ CodesInv /\ OwnInv)'
  BY NextIInv, NextCodes, NextOwn
<1>3. IInv /\ CodesInv /\ OwnInv => CancelsOnlyOwn /\ ConfirmedHolds /\ MapShowsOwn
  BY OwnConsequences
<1> QED
  BY <1>1, <1>2, <1>3, PTL DEF CrashSpec

(* DELETE never frees a seat of another code, although it checks all seats *)
(* first and gives every lock back before it frees the first one.          *)
THEOREM CancelsOwn ==
    ASSUME OnlySettingsSet, NoClean, DistinctDeletes, ~SharedCodes
    PROVE  CrashSpec => []CancelsOnlyOwn
<1>1. CrashSpec => [](CancelsOnlyOwn /\ ConfirmedHolds /\ MapShowsOwn)
  BY OwnSeatsOnly
<1> QED
  BY <1>1, PTL

(* BOOK answers a code when every seat of its request carries that code,   *)
(* although it has given all locks back by then.                           *)
THEOREM ConfirmedSeatsHold ==
    ASSUME OnlySettingsSet, NoClean, DistinctDeletes, ~SharedCodes
    PROVE  CrashSpec => []ConfirmedHolds
<1>1. CrashSpec => [](CancelsOnlyOwn /\ ConfirmedHolds /\ MapShowsOwn)
  BY OwnSeatsOnly
<1> QED
  BY <1>1, PTL

(* The picture MAP draws, one seat and one lock at a time, shows its       *)
(* client exactly the seats that carry its code when it is answered.       *)
THEOREM MapShowsOwnSeats ==
    ASSUME OnlySettingsSet, NoClean, DistinctDeletes, ~SharedCodes
    PROVE  CrashSpec => []MapShowsOwn
<1>1. CrashSpec => [](CancelsOnlyOwn /\ ConfirmedHolds /\ MapShowsOwn)
  BY OwnSeatsOnly
<1> QED
  BY <1>1, PTL
=============================================================================
