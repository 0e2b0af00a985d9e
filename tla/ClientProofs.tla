---------------------------- MODULE ClientProofs ----------------------------
(***************************************************************************)
(* Proofs of the properties of the module Client for any number of         *)
(* clients, seats and presses of their buttons.                            *)
(***************************************************************************)
EXTENDS Client, TLAPS

QuerySet == [op : {"BOOK", "DELETE"}, code : Nat, seats : SUBSET Seats]

(* One query, or a booking and then a cancellation. *)
InTurn(q) == Len(q) \in {0, 1} \/ (Len(q) = 2 /\ q[1].op = "BOOK" /\ q[2].op = "DELETE")

(* A client has queries to send when a button was pressed, and no longer.  *)
(* MSG_FAIL does not stay in the file.                                     *)
Shape(c) ==
    /\ pc[c] \in {"query", "box", "save"} <=> queries[c] # <<>>
    /\ InTurn(queries[c])
    /\ pc[c] \in {"idle", "confirm"} => saved[c] \in Nat

(* What a client shows as its own it has, with the code in its file, which *)
(* a question to the user leaves as it was unless it has no seat.          *)
OwnShown(c) ==
    \A s \in Seats : pic[c][s] \in {"booked", "remove"} => owner[s] = saved[c] /\ saved[c] # NoCode
Shows(c) ==
    pc[c] \in {"off", "idle", "confirm"} =>
        OwnShown(c) /\ (pc[c] = "confirm" => saved[c] \in {code[c], NoCode})

(* The seats of a cancellation that is still to be sent have its code.     *)
Cancels(c) ==
    \A i \in 1 .. Len(queries[c]) :
        queries[c][i].op = "DELETE" /\ ~(pc[c] = "save" /\ i = 1) =>
            /\ queries[c][i].code # NoCode
            /\ \A s \in queries[c][i].seats : owner[s] = queries[c][i].code

(* A booking asks for what is selected with the code of the file, and the  *)
(* code that answers it is on all it asked for.                            *)
Asks(c) ==
    /\ pc[c] = "query" /\ queries[c][1].op = "BOOK" =>
          /\ queries[c][1].code = saved[c]
          /\ \A s \in Seats : pic[c][s] = "selected" => s \in queries[c][1].seats
    /\ pc[c] = "save" /\ queries[c][1].op = "BOOK" =>
          /\ answer[c] \in Nat \ {NoCode} /\ saved[c] \in {NoCode, answer[c]}
          /\ \A s \in Seats : pic[c][s] = "selected" => owner[s] = answer[c]
    /\ pc[c] = "save" /\ queries[c][1].op = "DELETE" => answer[c] = Succ
    /\ pc[c] = "box" => queries[c][1].op = "BOOK" /\ answer[c] = Fail /\ failed

(* The codes a client has in its file and in its memory. *)
CodesOf(c) ==
    {saved[c], code[c], answer[c]} \cup {queries[c][i].code : i \in 1 .. Len(queries[c])}

(* No two clients have one code, and no code is there that is not issued.  *)
OwnCodes ==
    /\ \A s \in Seats : owner[s] <= issued
    /\ \A c \in Clients : \A k \in CodesOf(c) : k \in Nat => k <= issued
    /\ \A c, d \in Clients : c # d =>
        \A k \in CodesOf(c) : k \in CodesOf(d) /\ k \in Nat => k = NoCode

ClientInv(c) == Shape(c) /\ Shows(c) /\ Cancels(c) /\ Asks(c)

CInv ==
    /\ TypeOK /\ queries \in [Clients -> Seq(QuerySet)]
    /\ OwnCodes /\ BookedSeatsHeld
    /\ \A c \in Clients : ClientInv(c)

-----------------------------------------------------------------------------
LEMMA InitCInv == Init => CInv
<1> SUFFICES ASSUME Init PROVE CInv
  OBVIOUS
<1> USE DEF Init, NoCode
<1>1. TypeOK
  <2>1. /\ owner \in [Seats -> Nat] /\ issued \in Nat
        /\ saved \in [Clients -> Nat \cup {Fail}]
        /\ pc \in [Clients -> {"off", "idle", "confirm", "query", "box", "save", "refresh"}]
    OBVIOUS
  <2>2. pic \in [Clients -> [Seats -> Pictures]]
    BY DEF Pictures
  <2>3. code \in [Clients -> Nat] /\ answer \in [Clients -> Nat \cup {Fail, Succ}]
    OBVIOUS
  <2>4. failed \in BOOLEAN
    OBVIOUS
  <2>5. presses \in 0 .. MaxPresses
    <3>1. presses = MaxPresses
      OBVIOUS
    <3> HIDE DEF Init
    <3> QED
      BY <3>1, PressesAssumption
  <2> QED
    BY <2>1, <2>2, <2>3, <2>4, <2>5 DEF TypeOK
<1>5. queries \in [Clients -> Seq(QuerySet)]
  <2>1. <<>> \in Seq(QuerySet)
    OBVIOUS
  <2> QED
    BY <2>1
<1>2. OwnCodes
  <2>1. \A c \in Clients : CodesOf(c) = {NoCode, Succ}
    BY DEF CodesOf
  <2> QED
    BY <2>1, AnswerAssumption DEF OwnCodes
<1>3. BookedSeatsHeld
  BY DEF BookedSeatsHeld
<1>4. \A c \in Clients : ClientInv(c)
  BY DEF ClientInv, Shape, InTurn, Shows, OwnShown, Cancels, Asks
<1> QED
  BY <1>1, <1>2, <1>3, <1>4, <1>5 DEF CInv

-----------------------------------------------------------------------------
(* What one client does and the others do not see *)

Same(d) ==
    /\ pc'[d] = pc[d] /\ saved'[d] = saved[d] /\ pic'[d] = pic[d]
    /\ queries'[d] = queries[d] /\ code'[d] = code[d] /\ answer'[d] = answer[d]

(* Client c has code k in its file, or is about to write it there. *)
HeldBy(c, k) == saved[c] = k \/ (pc[c] = "save" /\ answer[c] = k)

LEMMA SameCodes ==
    ASSUME NEW d, Same(d)
    PROVE  CodesOf(d)' = CodesOf(d)
BY DEF Same, CodesOf

(* A step of c that leaves the server alone keeps what holds of the other  *)
(* clients.                                                                *)
LEMMA OthersKeep ==
    ASSUME NEW d, ClientInv(d), Same(d), UNCHANGED owner, failed => failed'
    PROVE  ClientInv(d)'
<1>1. Shape(d)' /\ Shows(d)'
  BY DEF ClientInv, Same, Shape, Shows, OwnShown
<1>2. Cancels(d)' /\ Asks(d)'
  BY DEF ClientInv, Same, Cancels, Asks
<1> QED
  BY <1>1, <1>2 DEF ClientInv

(* It keeps the invariant if it takes no code from elsewhere and drops     *)
(* none that is on a seat.                                                 *)
LEMMA LocalStep ==
    ASSUME CInv, NEW c \in Clients, UNCHANGED hall,
           TypeOK', queries' \in [Clients -> Seq(QuerySet)],
           \A d \in Clients \ {c} : Same(d),
           failed => failed',
           ClientInv(c)',
           CodesOf(c)' \subseteq CodesOf(c) \cup {NoCode, Fail, Succ},
           \A s \in Seats : owner[s] # NoCode /\ HeldBy(c, owner[s]) =>
                                failed' \/ HeldBy(c, owner[s])'
    PROVE  CInv'
<1>1. UNCHANGED <<owner, issued>>
  BY DEF hall
<1>2. \A d \in Clients : ClientInv(d)'
  BY <1>1, OthersKeep DEF CInv
<1>3. \A d \in Clients \ {c} : CodesOf(d)' = CodesOf(d)
  BY SameCodes
<1>4. OwnCodes'
  <2>1. issued \in Nat /\ \A k \in CodesOf(c)' : k \in Nat => k = NoCode \/ k \in CodesOf(c)
    BY AnswerAssumption DEF CInv, TypeOK
  <2>2. \A d \in Clients : \A k \in CodesOf(d)' : k \in Nat => k <= issued'
    <3> SUFFICES ASSUME NEW d \in Clients, NEW k \in CodesOf(d)', k \in Nat PROVE k <= issued
      BY <1>1
    <3>1. k = NoCode \/ k \in CodesOf(d)
      BY <1>3, <2>1
    <3>2. CASE k = NoCode
      BY <2>1, <3>2 DEF NoCode
    <3>3. CASE k \in CodesOf(d)
      <4>1. \A e \in Clients : \A i \in CodesOf(e) : i \in Nat => i <= issued
        BY DEF CInv, OwnCodes
      <4> QED
        BY <3>3, <4>1
    <3> QED
      BY <3>1, <3>2, <3>3
  <2>3. ASSUME NEW d \in Clients, NEW e \in Clients, d # e,
               NEW k \in CodesOf(d)', k \in CodesOf(e)', k \in Nat
        PROVE  k = NoCode
    <3>1. k = NoCode \/ (k \in CodesOf(d) /\ k \in CodesOf(e))
      BY <1>3, <2>1, <2>3
    <3> QED
      BY <2>3, <3>1 DEF CInv, OwnCodes
  <2> QED
    BY <1>1, <2>2, <2>3 DEF CInv, OwnCodes
<1>5. BookedSeatsHeld'
  <2> SUFFICES ASSUME ~failed', NEW s \in Seats, owner'[s] # 0
               PROVE  \E d \in Clients : HeldBy(d, owner[s])'
    BY <1>1 DEF BookedSeatsHeld, HeldBy
  <2>1. PICK d \in Clients : HeldBy(d, owner[s])
    BY <1>1 DEF CInv, BookedSeatsHeld, HeldBy
  <2>2. CASE d = c
    BY <1>1, <2>1, <2>2 DEF NoCode
  <2>3. CASE d # c
    BY <1>1, <2>1, <2>3 DEF Same, HeldBy
  <2> QED
    BY <2>2, <2>3
<1> QED
  BY <1>2, <1>4, <1>5 DEF CInv

-----------------------------------------------------------------------------
(* UpdateSeats shows no seat as the client's own that is not, and empties  *)
(* the file only when no seat has its code.                                *)
LEMMA Updates ==
    ASSUME CInv, NEW c \in Clients, NEW reset \in BOOLEAN, UpdateSeats(c, reset)
    PROVE  /\ pic' \in [Clients -> [Seats -> Pictures]]
           /\ saved' \in [Clients -> Nat \cup {Fail}]
           /\ \A d \in Clients \ {c} : pic'[d] = pic[d] /\ saved'[d] = saved[d]
           /\ saved'[c] \in Nat /\ saved'[c] \in {saved[c], NoCode}
           /\ \A s \in Seats : owner[s] # NoCode /\ owner[s] = saved[c] => saved'[c] = saved[c]
           /\ reset \/ OwnShown(c) =>
                \A s \in Seats : pic'[c][s] \in {"booked", "remove"} =>
                                    owner[s] = saved'[c] /\ saved'[c] # NoCode
<1> DEFINE digit == [s \in Seats |-> Digit(s, saved[c])]
<1>1. /\ pic \in [Clients -> [Seats -> Pictures]] /\ saved \in [Clients -> Nat \cup {Fail}]
      /\ owner \in [Seats -> Nat]
  BY DEF CInv, TypeOK
<1>2. /\ pic' = [pic EXCEPT ![c] = [s \in Seats |->
                IF reset THEN Reset(digit[s]) ELSE Update(pic[c][s], digit[s])]]
      /\ saved' = [saved EXCEPT ![c] =
                IF \E s \in Seats : digit[s] = "1" THEN saved[c] ELSE NoCode]
  BY DEF UpdateSeats
<1>3. /\ \A s \in Seats : digit[s] = "1" <=> owner[s] # NoCode /\ owner[s] = saved[c]
      /\ \A s \in Seats : digit[s] \in {"none", "0", "1", "2"}
      /\ \A s \in Seats : digit[s] = "0" => owner[s] = NoCode
  BY <1>1, AnswerAssumption DEF Digit, NoCode
<1> HIDE DEF digit
<1>4. /\ \A d \in {"none", "0", "1", "2"} : Reset(d) \in Pictures
      /\ \A d \in {"none", "0", "1", "2"}, p \in Pictures : Update(p, d) \in Pictures
  BY DEF Reset, Update, Pictures
<1>5. /\ pic' \in [Clients -> [Seats -> Pictures]]
      /\ \A d \in Clients \ {c} : pic'[d] = pic[d]
      /\ \A s \in Seats :
            pic'[c][s] = IF reset THEN Reset(digit[s]) ELSE Update(pic[c][s], digit[s])
  BY <1>1, <1>2, <1>3, <1>4
<1>6. /\ saved' \in [Clients -> Nat \cup {Fail}]
      /\ \A d \in Clients \ {c} : saved'[d] = saved[d]
      /\ saved'[c] = IF \E s \in Seats : digit[s] = "1" THEN saved[c] ELSE NoCode
  BY <1>1, <1>2 DEF NoCode
<1>7. saved'[c] \in Nat /\ saved'[c] \in {saved[c], NoCode}
  BY <1>1, <1>3, <1>6, AnswerAssumption DEF NoCode
<1>8. \A s \in Seats : owner[s] # NoCode /\ owner[s] = saved[c] => saved'[c] = saved[c]
  BY <1>3, <1>6
<1>9. ASSUME reset \/ OwnShown(c), NEW s \in Seats, pic'[c][s] \in {"booked", "remove"}
      PROVE  owner[s] = saved'[c] /\ saved'[c] # NoCode
  <2>1. digit[s] = "1" => owner[s] = saved'[c] /\ saved'[c] # NoCode
    BY <1>3, <1>6
  <2>2. CASE reset
    <3>1. digit[s] = "1"
      BY <1>3, <1>5, <1>9, <2>2 DEF Reset
    <3> QED
      BY <2>1, <3>1
  <2>3. CASE ~reset
    <3>1. pic'[c][s] = Update(pic[c][s], digit[s])
      BY <1>5, <2>3
    <3>2. pic[c][s] \in {"booked", "remove"} \/ digit[s] = "1"
      BY <1>1, <1>3, <1>9, <3>1 DEF Update, Pictures
    <3>3. CASE pic[c][s] \in {"booked", "remove"}
      BY <1>3, <1>9, <2>1, <2>3, <3>3 DEF OwnShown
    <3> QED
      BY <2>1, <3>2, <3>3
  <2> QED
    BY <2>2, <2>3
<1> QED
  BY <1>5, <1>6, <1>7, <1>8, <1>9

(* What a step through UpdateSeats to l keeps, when it resets the pictures *)
(* or the client has shown them before.                                    *)
LEMMA UpdateKeeps ==
    ASSUME CInv, NEW c \in Clients, NEW reset \in BOOLEAN, UpdateSeats(c, reset),
           UNCHANGED <<hall, queries, code, answer, failed, presses>>,
           pc' \in [Clients -> {"off", "idle", "confirm", "query", "box", "save", "refresh"}],
           \A d \in Clients \ {c} : pc'[d] = pc[d],
           \/ pc'[c] = pc[c] /\ ~reset /\ pc[c] \in {"idle", "confirm", "box"}
           \/ pc'[c] = "idle" /\ pc[c] \in {"off", "refresh"} /\ (reset \/ OwnShown(c))
    PROVE  CInv'
<1>1. UNCHANGED <<owner, issued>>
  BY DEF hall
<1>2. /\ pic' \in [Clients -> [Seats -> Pictures]]
      /\ saved' \in [Clients -> Nat \cup {Fail}]
      /\ \A d \in Clients \ {c} : pic'[d] = pic[d] /\ saved'[d] = saved[d]
      /\ saved'[c] \in Nat /\ saved'[c] \in {saved[c], NoCode}
      /\ \A s \in Seats : owner[s] # NoCode /\ owner[s] = saved[c] => saved'[c] = saved[c]
      /\ reset \/ OwnShown(c) =>
           \A s \in Seats : pic'[c][s] \in {"booked", "remove"} =>
                               owner[s] = saved'[c] /\ saved'[c] # NoCode
  BY Updates
<1>3. TypeOK' /\ queries' \in [Clients -> Seq(QuerySet)]
  BY <1>1, <1>2 DEF CInv, TypeOK
<1>4. \A d \in Clients \ {c} : Same(d)
  BY <1>2 DEF Same
<1>5. Shape(c) /\ Shows(c) /\ Cancels(c) /\ Asks(c)
  BY DEF CInv, ClientInv
<1>6. ClientInv(c)'
  <2>1. Shape(c)'
    BY <1>2, <1>5 DEF Shape
  <2>2. Shows(c)'
    BY <1>1, <1>2, <1>5 DEF Shows, OwnShown
  <2>3. Cancels(c)'
    BY <1>1, <1>5 DEF Shape, Cancels
  <2>4. Asks(c)'
    BY <1>5 DEF Asks
  <2> QED
    BY <2>1, <2>2, <2>3, <2>4 DEF ClientInv
<1>7. CodesOf(c)' \subseteq CodesOf(c) \cup {NoCode, Fail, Succ}
  BY <1>2 DEF CodesOf
<1>8. \A s \in Seats : owner[s] # NoCode /\ HeldBy(c, owner[s]) => HeldBy(c, owner[s])'
  BY <1>1, <1>2 DEF HeldBy
<1> QED
  BY <1>3, <1>4, <1>6, <1>7, <1>8, LocalStep

LEMMA StartKeeps ==
    ASSUME CInv, NEW c \in Clients, Start(c)
    PROVE  CInv'
<1>1. /\ UNCHANGED <<hall, queries, code, answer, failed, presses>> /\ UpdateSeats(c, FALSE)
      /\ pc[c] = "off" /\ pc' = [pc EXCEPT ![c] = "idle"]
  BY DEF Start, Goto
<1>2. /\ pc' \in [Clients -> {"off", "idle", "confirm", "query", "box", "save", "refresh"}]
      /\ pc'[c] = "idle" /\ \A d \in Clients \ {c} : pc'[d] = pc[d]
  BY <1>1 DEF CInv, TypeOK
<1>3. OwnShown(c)
  BY <1>1 DEF CInv, ClientInv, Shows
<1> QED
  BY <1>1, <1>2, <1>3, UpdateKeeps

LEMMA TimerKeeps ==
    ASSUME CInv, NEW c \in Clients, Timer(c)
    PROVE  CInv'
<1>1. UNCHANGED <<hall, pc, queries, code, answer, failed, presses>> /\ UpdateSeats(c, FALSE)
  BY DEF Timer
<1>2. pc' \in [Clients -> {"off", "idle", "confirm", "query", "box", "save", "refresh"}]
  BY <1>1 DEF CInv, TypeOK
<1> QED
  BY <1>1, <1>2, UpdateKeeps DEF Timer

LEMMA RefreshKeeps ==
    ASSUME CInv, NEW c \in Clients, Refresh(c)
    PROVE  CInv'
<1>1. /\ UNCHANGED <<hall, queries, code, answer, failed, presses>> /\ UpdateSeats(c, TRUE)
      /\ pc[c] = "refresh" /\ pc' = [pc EXCEPT ![c] = "idle"]
  BY DEF Refresh, Goto
<1>2. /\ pc' \in [Clients -> {"off", "idle", "confirm", "query", "box", "save", "refresh"}]
      /\ pc'[c] = "idle" /\ \A d \in Clients \ {c} : pc'[d] = pc[d]
  BY <1>1 DEF CInv, TypeOK
<1> QED
  BY <1>1, <1>2, UpdateKeeps

-----------------------------------------------------------------------------
(* Clicks and buttons *)

LEMMA ClickKeeps ==
    ASSUME CInv, NEW c \in Clients, NEW s \in Seats, Click(c, s)
    PROVE  CInv'
<1>1. /\ UNCHANGED <<owner, issued, saved, pc, queries, code, answer, failed, presses>>
      /\ pc[c] = "idle" /\ pic[c][s] # "disabled"
      /\ pic' = [pic EXCEPT ![c][s] = Toggle[pic[c][s]]]
  BY DEF Click, hall
<1>2. pic \in [Clients -> [Seats -> Pictures]]
  BY DEF CInv, TypeOK
<1>3. /\ Toggle[pic[c][s]] \in Pictures
      /\ Toggle[pic[c][s]] \in {"booked", "remove"} => pic[c][s] \in {"booked", "remove"}
  <2>1. pic[c][s] \in Pictures
    BY <1>2
  <2> QED
    BY <2>1 DEF Toggle, Pictures
<1>4. /\ pic' \in [Clients -> [Seats -> Pictures]]
      /\ \A d \in Clients \ {c} : pic'[d] = pic[d]
      /\ pic'[c][s] = Toggle[pic[c][s]]
      /\ \A t \in Seats \ {s} : pic'[c][t] = pic[c][t]
  BY <1>1, <1>2, <1>3
<1>5. TypeOK' /\ queries' \in [Clients -> Seq(QuerySet)]
  BY <1>1, <1>4 DEF CInv, TypeOK
<1>6. \A d \in Clients \ {c} : Same(d)
  BY <1>1, <1>4 DEF Same
<1>7. Shape(c) /\ Shows(c) /\ Cancels(c) /\ Asks(c)
  BY DEF CInv, ClientInv
<1>8. ClientInv(c)'
  <2>1. \A t \in Seats : pic'[c][t] \in {"booked", "remove"} => pic[c][t] \in {"booked", "remove"}
    BY <1>3, <1>4
  <2>2. Shape(c)' /\ Cancels(c)' /\ Asks(c)'
    BY <1>1, <1>7 DEF Shape, Cancels, Asks
  <2>3. Shows(c)'
    BY <1>1, <1>7, <2>1 DEF Shows, OwnShown
  <2> QED
    BY <2>2, <2>3 DEF ClientInv
<1>9. CodesOf(c)' = CodesOf(c) /\ \A k : HeldBy(c, k)' <=> HeldBy(c, k)
  BY <1>1 DEF CodesOf, HeldBy
<1>10. UNCHANGED hall
  BY <1>1 DEF hall
<1> QED
  BY <1>1, <1>5, <1>6, <1>8, <1>9, <1>10, LocalStep

(* A query is sent only for some seats. *)
LEMMA QueryOf ==
    ASSUME NEW op \in {"BOOK", "DELETE"}, NEW i \in Nat, NEW S \in SUBSET Seats
    PROVE  /\ Query(op, i, S) \in Seq(QuerySet)
           /\ \/ S = {} /\ Query(op, i, S) = <<>>
              \/ S # {} /\ Query(op, i, S) = <<[op |-> op, code |-> i, seats |-> S]>>
<1>1. [op |-> op, code |-> i, seats |-> S] \in QuerySet
  BY DEF QuerySet
<1> QED
  BY <1>1 DEF Query

(* Two sequences of one element make one of two. *)
LEMMA PairConcat ==
    ASSUME NEW x, NEW y
    PROVE  <<x>> \o <<y>> = <<x, y>>
<1> DEFINE S == {x, y}
           r == <<x>>
           s == <<y>>
           p == <<x, y>>
           q == r \o s
<1>1. r \in Seq(S) /\ s \in Seq(S) /\ p \in Seq(S)
  OBVIOUS
<1>2. Len(r) = 1 /\ Len(s) = 1 /\ r[1] = x /\ s[1] = y /\ Len(p) = 2 /\ p[1] = x /\ p[2] = y
  OBVIOUS
<1> HIDE DEF S, r, s, p
<1>3. /\ q \in Seq(S) /\ Len(q) = Len(r) + Len(s)
      /\ \A i \in 1 .. Len(r) + Len(s) : q[i] = IF i <= Len(r) THEN r[i] ELSE s[i - Len(r)]
  BY <1>1
<1>4. Len(q) = Len(p) /\ \A i \in 1 .. Len(p) : p[i] = q[i]
  BY <1>2, <1>3
<1> HIDE DEF q
<1>5. q = p
  BY <1>1, <1>3, <1>4
<1> QED
  BY <1>5 DEF q, r, s, p

(* What the query of PressModify is: a booking, a cancellation, both or    *)
(* none.                                                                   *)
LEMMA TwoQueries ==
    ASSUME NEW i \in Nat, NEW S \in SUBSET Seats, NEW T \in SUBSET Seats
    PROVE  LET q == Query("BOOK", i, S) \o Query("DELETE", i, T)
               b == [op |-> "BOOK", code |-> i, seats |-> S]
               d == [op |-> "DELETE", code |-> i, seats |-> T]
           IN  /\ q \in Seq(QuerySet)
               /\ \/ q = <<>>
                  \/ q = <<b>>
                  \/ T # {} /\ q = <<d>> /\ S = {}
                  \/ T # {} /\ q = <<b, d>>
<1> DEFINE b == [op |-> "BOOK", code |-> i, seats |-> S]
           d == [op |-> "DELETE", code |-> i, seats |-> T]
           u == Query("BOOK", i, S)
           v == Query("DELETE", i, T)
<1>1. u \in Seq(QuerySet) /\ ((S = {} /\ u = <<>>) \/ (S # {} /\ u = <<b>>))
  BY QueryOf
<1>2. v \in Seq(QuerySet) /\ ((T = {} /\ v = <<>>) \/ (T # {} /\ v = <<d>>))
  BY QueryOf
<1> HIDE DEF u, v, b, d
<1>3. u \o v \in Seq(QuerySet)
  BY <1>1, <1>2
<1>4. u \o <<>> = u /\ <<>> \o v = v /\ <<>> \o <<>> = <<>>
  BY <1>1, <1>2
<1>6. <<b>> \o <<d>> = <<b, d>>
  BY PairConcat
<1>5. \/ u \o v = <<>> \/ u \o v = <<b>>
      \/ T # {} /\ u \o v = <<d>> /\ S = {}
      \/ T # {} /\ u \o v = <<b, d>>
  BY <1>1, <1>2, <1>4, <1>6
<1> QED
  BY <1>3, <1>5 DEF u, v, b, d

(* What the buttons build of the pictures and the code in the file. *)
Fits(c, q) ==
    /\ q \in Seq(QuerySet) /\ InTurn(q)
    /\ \A i \in 1 .. Len(q) :
        /\ q[i].code = saved[c]
        /\ q[i].op = "DELETE" => saved[c] # NoCode /\ \A s \in q[i].seats : pic[c][s] = "remove"
        /\ q[i].op = "BOOK" => \A s \in Seats : pic[c][s] = "selected" => s \in q[i].seats

LEMMA PressKeeps ==
    ASSUME CInv, NEW c \in Clients, pc[c] = "idle", NEW q, Fits(c, q), Press(c, q),
           NEW l \in {"query", "refresh", "confirm"}, l = "query" <=> q # <<>>, Goto(c, l)
    PROVE  CInv'
<1>1. /\ UNCHANGED <<owner, issued, saved, pic, answer, failed>>
      /\ code' = [code EXCEPT ![c] = saved[c]]
      /\ queries' = [queries EXCEPT ![c] = q]
      /\ pc' = [pc EXCEPT ![c] = l]
      /\ presses > 0 /\ presses' = presses - 1
  BY DEF Press, Goto, hall
<1>2. /\ code \in [Clients -> Nat] /\ queries \in [Clients -> Seq(QuerySet)]
      /\ pc \in [Clients -> {"off", "idle", "confirm", "query", "box", "save", "refresh"}]
      /\ presses \in 0 .. MaxPresses
  BY DEF CInv, TypeOK
<1>3. Shape(c) /\ Shows(c) /\ Cancels(c) /\ Asks(c)
  BY DEF CInv, ClientInv
<1>4. saved[c] \in Nat
  BY <1>3 DEF Shape
<1>5. /\ code' \in [Clients -> Nat] /\ code'[c] = saved[c]
      /\ \A d \in Clients \ {c} : code'[d] = code[d]
  BY <1>1, <1>2, <1>4
<1>6. /\ queries' \in [Clients -> Seq(QuerySet)] /\ queries'[c] = q
      /\ \A d \in Clients \ {c} : queries'[d] = queries[d]
  BY <1>1, <1>2 DEF Fits
<1>7. /\ pc' \in [Clients -> {"off", "idle", "confirm", "query", "box", "save", "refresh"}]
      /\ pc'[c] = l /\ \A d \in Clients \ {c} : pc'[d] = pc[d]
  BY <1>1, <1>2
<1>8. presses' \in 0 .. MaxPresses
  BY <1>1, <1>2, PressesAssumption
<1>9. TypeOK'
  BY <1>1, <1>5, <1>7, <1>8 DEF CInv, TypeOK
<1>10. \A d \in Clients \ {c} : Same(d)
  BY <1>1, <1>5, <1>6, <1>7 DEF Same
<1>11. ClientInv(c)'
  <2>1. Shape(c)'
    BY <1>1, <1>4, <1>6, <1>7 DEF Shape, Fits
  <2>2. Shows(c)'
    BY <1>1, <1>3, <1>5, <1>7 DEF Shows, OwnShown
  <2>3. Cancels(c)'
    <3>1. OwnShown(c)
      BY <1>3 DEF Shows
    <3>2. ASSUME NEW i \in 1 .. Len(q), q[i].op = "DELETE"
          PROVE  q[i].code # NoCode /\ \A s \in q[i].seats : owner[s] = q[i].code
      <4>1. q[i].seats \subseteq Seats
        <5>1. q[i] \in QuerySet
          BY DEF Fits
        <5> QED
          BY <5>1 DEF QuerySet
      <4> QED
        BY <3>1, <3>2, <4>1 DEF Fits, OwnShown
    <3> QED
      BY <1>1, <1>6, <3>2 DEF Cancels
  <2>4. Asks(c)'
    <3>1. l = "query" => 1 \in 1 .. Len(q)
      BY DEF Fits
    <3> QED
      BY <1>1, <1>6, <1>7, <3>1 DEF Asks, Fits
  <2> QED
    BY <2>1, <2>2, <2>3, <2>4 DEF ClientInv
<1>12. CodesOf(c)' \subseteq CodesOf(c)
  BY <1>1, <1>5, <1>6 DEF CodesOf, Fits
<1>13. \A s \in Seats : HeldBy(c, owner[s]) => HeldBy(c, owner[s])'
  BY <1>1 DEF HeldBy
<1>14. UNCHANGED hall
  BY <1>1 DEF hall
<1> QED
  BY <1>1, <1>6, <1>9, <1>10, <1>11, <1>12, <1>13, <1>14, LocalStep

LEMMA PressBookKeeps ==
    ASSUME CInv, NEW c \in Clients, PressBook(c)
    PROVE  CInv'
<1> DEFINE S == Pictured(c, {"selected"})
           q == Query("BOOK", NoCode, S)
<1>1. pc[c] = "idle" /\ saved[c] = NoCode /\ q # <<>> /\ Press(c, q) /\ Goto(c, "query")
  BY DEF PressBook
<1>2. q \in Seq(QuerySet) /\ q = <<[op |-> "BOOK", code |-> NoCode, seats |-> S]>>
  <2>1. S \in SUBSET Seats /\ NoCode \in Nat
    BY DEF Pictured, NoCode
  <2> HIDE DEF S
  <2> QED
    BY <1>1, <2>1, QueryOf
<1> HIDE DEF q
<1>3. /\ Len(q) = 1 /\ q[1].op = "BOOK" /\ q[1].code = NoCode /\ q[1].seats = S
  BY <1>2
<1>4. Fits(c, q)
  BY <1>1, <1>2, <1>3 DEF Fits, InTurn, Pictured
<1> QED
  BY <1>1, <1>4, PressKeeps

LEMMA PressModifyKeeps ==
    ASSUME CInv, NEW c \in Clients, PressModify(c)
    PROVE  CInv'
<1> DEFINE S == Pictured(c, {"selected"})
           T == Pictured(c, {"remove"})
           b == [op |-> "BOOK", code |-> saved[c], seats |-> S]
           d == [op |-> "DELETE", code |-> saved[c], seats |-> T]
           q == Query("BOOK", saved[c], S) \o Query("DELETE", saved[c], T)
<1>1. /\ pc[c] = "idle" /\ saved[c] # NoCode /\ Press(c, q)
      /\ Goto(c, IF q = <<>> THEN "refresh" ELSE "query")
  BY DEF PressModify
<1>2. saved[c] \in Nat
  BY <1>1 DEF CInv, ClientInv, Shape
<1>3. S \in SUBSET Seats /\ T \in SUBSET Seats
  BY DEF Pictured
<1>4. /\ b.op = "BOOK" /\ b.code = saved[c] /\ b.seats = S
      /\ d.op = "DELETE" /\ d.code = saved[c] /\ d.seats = T
  OBVIOUS
<1>5. q \in Seq(QuerySet) /\ (q = <<>> \/ q = <<b>> \/ q = <<d>> \/ q = <<b, d>>)
  <2> HIDE DEF S, T
  <2> QED
    BY <1>2, <1>3, TwoQueries
<1>6. /\ \A s \in Seats : pic[c][s] = "selected" => s \in S
      /\ \A s \in T : pic[c][s] = "remove"
  BY DEF Pictured
<1> HIDE DEF q, b, d, S, T
<1>7. Fits(c, q)
  <2>1. CASE q = <<>>
    BY <1>5, <2>1 DEF Fits, InTurn
  <2>2. CASE q = <<b>> \/ q = <<d>>
    <3>1. Len(q) = 1 /\ (q[1] = b \/ q[1] = d)
      BY <2>2
    <3> QED
      BY <1>1, <1>4, <1>5, <1>6, <3>1 DEF Fits, InTurn
  <2>3. CASE q = <<b, d>>
    <3>1. Len(q) = 2 /\ q[1] = b /\ q[2] = d
      BY <2>3
    <3>2. \A i \in 1 .. Len(q) : (i = 1 /\ q[i] = b) \/ (i = 2 /\ q[i] = d)
      BY <3>1
    <3> QED
      BY <1>1, <1>4, <1>5, <1>6, <3>1, <3>2 DEF Fits, InTurn
  <2> QED
    BY <1>5, <2>1, <2>2, <2>3
<1> QED
  BY <1>1, <1>7, PressKeeps

LEMMA PressDeleteKeeps ==
    ASSUME CInv, NEW c \in Clients, PressDelete(c)
    PROVE  CInv'
<1>1. pc[c] = "idle" /\ Press(c, <<>>) /\ Goto(c, "confirm")
  BY DEF PressDelete
<1>2. Fits(c, <<>>)
  BY DEF Fits, InTurn
<1> QED
  BY <1>1, <1>2, PressKeeps

LEMMA ConfirmKeeps ==
    ASSUME CInv, NEW c \in Clients, Confirm(c)
    PROVE  CInv'
<1> DEFINE S == Pictured(c, {"booked", "remove"})
           q == Query("DELETE", code[c], S)
           l == IF q = <<>> THEN "idle" ELSE "query"
<1>1. /\ UNCHANGED <<owner, issued, saved, pic, code, answer, failed, presses>>
      /\ pc[c] = "confirm"
      /\ queries' = [queries EXCEPT ![c] = q]
      /\ pc' = [pc EXCEPT ![c] = l]
  BY DEF Confirm, Goto, hall
<1>2. /\ code \in [Clients -> Nat] /\ queries \in [Clients -> Seq(QuerySet)]
      /\ pc \in [Clients -> {"off", "idle", "confirm", "query", "box", "save", "refresh"}]
  BY DEF CInv, TypeOK
<1>3. Shape(c) /\ Shows(c) /\ Cancels(c) /\ Asks(c)
  BY DEF CInv, ClientInv
<1>4. q \in Seq(QuerySet)
      /\ ((S = {} /\ q = <<>>) \/ (S # {} /\ q = <<[op |-> "DELETE", code |-> code[c], seats |-> S]>>))
  <2>1. S \in SUBSET Seats /\ code[c] \in Nat
    BY <1>2 DEF Pictured
  <2> HIDE DEF S
  <2> QED
    BY <2>1, QueryOf
<1>5. \A s \in S : s \in Seats /\ owner[s] = saved[c] /\ saved[c] = code[c] /\ code[c] # NoCode
  BY <1>1, <1>3 DEF Shows, OwnShown, Pictured
<1> HIDE DEF S, q
<1>6. q # <<>> => Len(q) = 1 /\ q[1].op = "DELETE" /\ q[1].code = code[c] /\ q[1].seats = S /\ S # {}
  BY <1>4
<1>7. /\ queries' \in [Clients -> Seq(QuerySet)] /\ queries'[c] = q
      /\ \A d \in Clients \ {c} : queries'[d] = queries[d]
  BY <1>1, <1>2, <1>4
<1>8. /\ pc' \in [Clients -> {"off", "idle", "confirm", "query", "box", "save", "refresh"}]
      /\ pc'[c] = l /\ \A d \in Clients \ {c} : pc'[d] = pc[d]
  BY <1>1, <1>2
<1>9. TypeOK'
  BY <1>1, <1>8 DEF CInv, TypeOK
<1>10. \A d \in Clients \ {c} : Same(d)
  BY <1>1, <1>7, <1>8 DEF Same
<1>11. ClientInv(c)'
  <2>1. Shape(c)'
    BY <1>1, <1>3, <1>4, <1>6, <1>7, <1>8 DEF Shape, InTurn
  <2>2. Shows(c)'
    BY <1>1, <1>3, <1>8 DEF Shows, OwnShown
  <2>3. Cancels(c)'
    <3>1. CASE q = <<>>
      BY <1>7, <3>1 DEF Cancels
    <3>2. CASE q # <<>>
      <4>1. PICK s \in S : TRUE
        BY <1>6, <3>2
      <4>2. code[c] # NoCode
        BY <1>5, <4>1
      <4>3. \A i \in 1 .. Len(q) : q[i].code = code[c] /\ q[i].seats = S
        <5>1. Len(q) = 1
          BY <1>6, <3>2
        <5>2. \A i \in 1 .. Len(q) : i = 1
          BY <5>1
        <5> QED
          BY <1>6, <3>2, <5>2
      <4> QED
        BY <1>1, <1>5, <1>7, <4>2, <4>3 DEF Cancels
    <3> QED
      BY <3>1, <3>2
  <2>4. Asks(c)'
    BY <1>1, <1>6, <1>7, <1>8 DEF Asks
  <2> QED
    BY <2>1, <2>2, <2>3, <2>4 DEF ClientInv
<1>12. CodesOf(c)' \subseteq CodesOf(c)
  <2>1. \A i \in 1 .. Len(q) : q[i].code = code[c]
    BY <1>4, <1>6
  <2> QED
    BY <1>1, <1>7, <2>1 DEF CodesOf
<1>13. \A s \in Seats : HeldBy(c, owner[s]) => HeldBy(c, owner[s])'
  BY <1>1 DEF HeldBy
<1>14. UNCHANGED hall
  BY <1>1 DEF hall
<1> QED
  BY <1>1, <1>7, <1>9, <1>10, <1>11, <1>12, <1>13, <1>14, LocalStep

LEMMA DeclineKeeps ==
    ASSUME CInv, NEW c \in Clients, Decline(c)
    PROVE  CInv'
<1>1. /\ UNCHANGED <<owner, issued, saved, pic, queries, code, answer, failed, presses>>
      /\ pc[c] = "confirm" /\ pc' = [pc EXCEPT ![c] = "idle"]
  BY DEF Decline, Goto, hall
<1>2. /\ pc' \in [Clients -> {"off", "idle", "confirm", "query", "box", "save", "refresh"}]
      /\ pc'[c] = "idle" /\ \A d \in Clients \ {c} : pc'[d] = pc[d]
  BY <1>1 DEF CInv, TypeOK
<1>3. TypeOK' /\ queries' \in [Clients -> Seq(QuerySet)]
  BY <1>1, <1>2 DEF CInv, TypeOK
<1>4. \A d \in Clients \ {c} : Same(d)
  BY <1>1, <1>2 DEF Same
<1>5. ClientInv(c)'
  BY <1>1, <1>2 DEF CInv, ClientInv, Shape, Shows, OwnShown, Cancels, Asks
<1>6. CodesOf(c)' = CodesOf(c) /\ \A k : HeldBy(c, k) => HeldBy(c, k)'
  BY <1>1 DEF CodesOf, HeldBy
<1>7. UNCHANGED hall
  BY <1>1 DEF hall
<1> QED
  BY <1>1, <1>3, <1>4, <1>5, <1>6, <1>7, LocalStep

LEMMA ExitKeeps ==
    ASSUME CInv, NEW c \in Clients, Exit(c)
    PROVE  CInv'
<1>1. /\ UNCHANGED <<owner, issued, saved, presses>>
      /\ pc[c] # "off" /\ pc' = [pc EXCEPT ![c] = "off"]
      /\ pic' = [pic EXCEPT ![c] = [s \in Seats |-> "default"]]
      /\ queries' = [queries EXCEPT ![c] = <<>>]
      /\ code' = [code EXCEPT ![c] = NoCode]
      /\ answer' = [answer EXCEPT ![c] = Succ]
      /\ failed' = (failed \/ pc[c] # "idle")
  BY DEF Exit, Goto, hall
<1>2. /\ pc' \in [Clients -> {"off", "idle", "confirm", "query", "box", "save", "refresh"}]
      /\ pc'[c] = "off" /\ \A d \in Clients \ {c} : pc'[d] = pc[d]
  BY <1>1 DEF CInv, TypeOK
<1>3. /\ pic' \in [Clients -> [Seats -> Pictures]]
      /\ \A s \in Seats : pic'[c][s] = "default"
      /\ \A d \in Clients \ {c} : pic'[d] = pic[d]
  BY <1>1 DEF CInv, TypeOK, Pictures
<1>4. /\ queries' \in [Clients -> Seq(QuerySet)] /\ queries'[c] = <<>>
      /\ \A d \in Clients \ {c} : queries'[d] = queries[d]
  <2>1. <<>> \in Seq(QuerySet)
    OBVIOUS
  <2> QED
    BY <1>1, <2>1 DEF CInv
<1>5. /\ code' \in [Clients -> Nat] /\ code'[c] = NoCode
      /\ answer' \in [Clients -> Nat \cup {Fail, Succ}] /\ answer'[c] = Succ
      /\ \A d \in Clients \ {c} : code'[d] = code[d] /\ answer'[d] = answer[d]
  BY <1>1 DEF CInv, TypeOK, NoCode
<1>6. failed' \in BOOLEAN /\ (failed => failed') /\ (pc[c] # "idle" => failed')
  BY <1>1
<1>7. TypeOK'
  BY <1>1, <1>2, <1>3, <1>5, <1>6 DEF CInv, TypeOK
<1>8. \A d \in Clients \ {c} : Same(d)
  BY <1>1, <1>2, <1>3, <1>4, <1>5 DEF Same
<1>9. ClientInv(c)'
  BY <1>2, <1>3, <1>4 DEF ClientInv, Shape, InTurn, Shows, OwnShown, Cancels, Asks
<1>10. CodesOf(c)' \subseteq CodesOf(c) \cup {NoCode, Fail, Succ}
  BY <1>1, <1>4, <1>5 DEF CodesOf
<1>11. \A s \in Seats : HeldBy(c, owner[s]) => failed' \/ HeldBy(c, owner[s])'
  BY <1>1, <1>6 DEF HeldBy
<1>12. UNCHANGED hall
  BY <1>1 DEF hall
<1> QED
  BY <1>4, <1>6, <1>7, <1>8, <1>9, <1>10, <1>11, <1>12, LocalStep

-----------------------------------------------------------------------------
(* ButtonClickHandler *)

(* What is left of the queries after the first. *)
LEMMA TailOf ==
    ASSUME NEW q \in Seq(QuerySet), q # <<>>
    PROVE  /\ Tail(q) \in Seq(QuerySet) /\ Len(Tail(q)) = Len(q) - 1
           /\ Len(q) = 1 <=> Tail(q) = <<>>
           /\ \A i \in 1 .. Len(Tail(q)) : i + 1 \in 2 .. Len(q) /\ Tail(q)[i] = q[i + 1]
<1> DEFINE t == Tail(q)
           n == Len(q)
<1>1. t \in Seq(QuerySet) /\ n \in Nat \ {0}
  OBVIOUS
<1>2. Len(t) = n - 1 /\ \A i \in 1 .. n - 1 : t[i] = q[i + 1]
  OBVIOUS
<1> HIDE DEF t, n
<1>3. Len(t) = 0 <=> t = <<>>
  BY <1>1
<1>4. n = 1 <=> t = <<>>
  BY <1>1, <1>2, <1>3
<1>5. \A i \in 1 .. Len(t) : i + 1 \in 2 .. n /\ t[i] = q[i + 1]
  BY <1>1, <1>2
<1> QED
  BY <1>1, <1>2, <1>4, <1>5 DEF t, n

(* An answer written to the file is the code of the booking, which the     *)
(* file has already if it has one.                                         *)
LEMMA SaveKeeps ==
    ASSUME CInv, NEW c \in Clients, Save(c)
    PROVE  CInv'
<1> DEFINE q == queries[c]
           l == IF Len(q) = 1 THEN "refresh" ELSE "query"
           w == IF answer[c] = Succ THEN saved[c] ELSE answer[c]
<1>1. /\ UNCHANGED <<owner, issued, pic, code, answer, failed, presses>>
      /\ pc[c] \in {"box", "save"} /\ pc' = [pc EXCEPT ![c] = l]
      /\ saved' = [saved EXCEPT ![c] = w]
      /\ queries' = [queries EXCEPT ![c] = Tail(q)]
  BY DEF Save, Goto, hall
<1>2. /\ saved \in [Clients -> Nat \cup {Fail}] /\ answer \in [Clients -> Nat \cup {Fail, Succ}]
      /\ queries \in [Clients -> Seq(QuerySet)]
      /\ pc \in [Clients -> {"off", "idle", "confirm", "query", "box", "save", "refresh"}]
  BY DEF CInv, TypeOK
<1>3. Shape(c) /\ Shows(c) /\ Cancels(c) /\ Asks(c)
  BY DEF CInv, ClientInv
<1>4. /\ q \in Seq(QuerySet) /\ q # <<>>
      /\ Tail(q) \in Seq(QuerySet) /\ Len(Tail(q)) = Len(q) - 1
      /\ Len(q) = 1 <=> Tail(q) = <<>>
      /\ \A i \in 1 .. Len(Tail(q)) : i + 1 \in 2 .. Len(q) /\ Tail(q)[i] = q[i + 1]
  BY <1>1, <1>2, <1>3, TailOf DEF Shape
<1>5. q[1].op \in {"BOOK", "DELETE"}
  <2>1. q[1] \in QuerySet
    BY <1>4
  <2> QED
    BY <2>1 DEF QuerySet
<1>6. /\ saved' \in [Clients -> Nat \cup {Fail}] /\ saved'[c] = w
      /\ \A d \in Clients \ {c} : saved'[d] = saved[d]
  BY <1>1, <1>2
<1>7. /\ queries' \in [Clients -> Seq(QuerySet)] /\ queries'[c] = Tail(q)
      /\ \A d \in Clients \ {c} : queries'[d] = queries[d]
  BY <1>1, <1>2, <1>4
<1>8. /\ pc' \in [Clients -> {"off", "idle", "confirm", "query", "box", "save", "refresh"}]
      /\ pc'[c] = l /\ \A d \in Clients \ {c} : pc'[d] = pc[d]
  BY <1>1, <1>2
<1>9. TypeOK'
  BY <1>1, <1>6, <1>8 DEF CInv, TypeOK
<1>10. \A d \in Clients \ {c} : Same(d)
  BY <1>1, <1>6, <1>7, <1>8 DEF Same
<1> HIDE DEF q
<1>11. \A i \in 1 .. Len(Tail(q)) : Tail(q)[i].op = "DELETE"
  BY <1>3, <1>4 DEF Shape, InTurn, q
<1>12. ClientInv(c)'
  <2>1. Shape(c)'
    <3>1. InTurn(Tail(q))
      BY <1>3, <1>4 DEF Shape, InTurn, q
    <3> QED
      BY <1>4, <1>7, <1>8, <3>1 DEF Shape
  <2>2. Shows(c)'
    BY <1>8 DEF Shows
  <2>3. Cancels(c)'
    <3> SUFFICES ASSUME NEW i \in 1 .. Len(Tail(q))
                 PROVE  /\ Tail(q)[i].code # NoCode
                        /\ \A s \in Tail(q)[i].seats : owner[s] = Tail(q)[i].code
      BY <1>1, <1>7 DEF Cancels
    <3>1. i + 1 \in 1 .. Len(q) /\ i + 1 # 1 /\ Tail(q)[i] = q[i + 1] /\ q[i + 1].op = "DELETE"
      BY <1>4, <1>11
    <3> QED
      BY <1>3, <3>1 DEF Cancels, q
  <2>4. Asks(c)'
    <3>1. l = "query" => Tail(q)[1].op = "DELETE"
      <4>1. Len(q) \in Nat \ {0}
        BY <1>4
      <4>2. l = "query" => 1 \in 1 .. Len(Tail(q))
        <5>1. l = "query" => Len(q) # 1
          BY DEF q
        <5> QED
          BY <1>4, <4>1, <5>1
      <4> QED
        BY <1>11, <4>2
    <3> QED
      BY <1>7, <1>8, <3>1 DEF Asks
  <2> QED
    BY <2>1, <2>2, <2>3, <2>4 DEF ClientInv
<1>13. CodesOf(c)' \subseteq CodesOf(c)
  <2>1. \A i \in 1 .. Len(Tail(q)) : Tail(q)[i].code \in {q[j].code : j \in 1 .. Len(q)}
    <3> SUFFICES ASSUME NEW i \in 1 .. Len(Tail(q))
                 PROVE  \E j \in 1 .. Len(q) : Tail(q)[i].code = q[j].code
      OBVIOUS
    <3>1. i + 1 \in 1 .. Len(q) /\ Tail(q)[i] = q[i + 1]
      BY <1>4
    <3> QED
      BY <3>1
  <2> QED
    BY <1>1, <1>6, <1>7, <2>1 DEF CodesOf, q
<1>14. ASSUME NEW s \in Seats, owner[s] # NoCode, HeldBy(c, owner[s])
       PROVE  failed' \/ HeldBy(c, owner[s])'
  <2>1. CASE pc[c] = "box"
    BY <1>1, <1>3, <2>1 DEF Asks
  <2>2. CASE pc[c] = "save" /\ q[1].op = "DELETE"
    <3>1. answer[c] = Succ
      BY <1>3, <2>2 DEF Asks, q
    <3>2. owner[s] \in Nat
      BY DEF CInv, TypeOK
    <3>3. saved[c] = owner[s]
      BY <1>14, <3>1, <3>2, AnswerAssumption DEF HeldBy
    <3> QED
      BY <1>1, <1>6, <3>1, <3>3 DEF HeldBy
  <2>3. CASE pc[c] = "save" /\ q[1].op = "BOOK"
    <3>1. answer[c] \in Nat \ {NoCode} /\ saved[c] \in {NoCode, answer[c]}
      BY <1>3, <2>3 DEF Asks, q
    <3>2. owner[s] = answer[c]
      BY <1>14, <3>1 DEF HeldBy
    <3>3. saved'[c] = owner[s]
      BY <1>6, <3>1, <3>2, AnswerAssumption
    <3> QED
      BY <1>1, <3>3 DEF HeldBy
  <2> QED
    BY <1>1, <1>5, <2>1, <2>2, <2>3
<1>15. UNCHANGED hall
  BY <1>1 DEF hall
<1> QED
  BY <1>1, <1>7, <1>9, <1>10, <1>12, <1>13, <1>14, <1>15, LocalStep

(* An answer that changes no seat with a code of client d keeps what holds *)
(* of d.                                                                   *)
LEMMA SeatsKeep ==
    ASSUME NEW d, ClientInv(d), Same(d), failed => failed',
           \A s \in Seats : owner[s] \in CodesOf(d) /\ owner[s] # NoCode => owner'[s] = owner[s],
           queries[d] \in Seq(QuerySet)
    PROVE  ClientInv(d)'
<1>1. Shape(d)'
  BY DEF ClientInv, Same, Shape
<1>2. Shows(d)'
  <2>1. saved[d] \in CodesOf(d)
    BY DEF CodesOf
  <2> QED
    BY <2>1 DEF ClientInv, Same, Shows, OwnShown
<1>3. Cancels(d)'
  <2> SUFFICES ASSUME NEW i \in 1 .. Len(queries[d]), queries[d][i].op = "DELETE",
                      ~(pc[d] = "save" /\ i = 1)
               PROVE  /\ queries[d][i].code # NoCode
                      /\ \A s \in queries[d][i].seats : owner'[s] = queries[d][i].code
    BY DEF Same, Cancels
  <2>1. queries[d][i].code \in CodesOf(d)
    BY DEF CodesOf
  <2>2. queries[d][i].seats \subseteq Seats
    <3>1. queries[d][i] \in QuerySet
      OBVIOUS
    <3> QED
      BY <3>1 DEF QuerySet
  <2> QED
    BY <2>1, <2>2 DEF ClientInv, Cancels
<1>4. Asks(d)'
  <2>1. answer[d] \in CodesOf(d)
    BY DEF CodesOf
  <2> QED
    BY <2>1 DEF ClientInv, Same, Asks
<1> QED
  BY <1>1, <1>2, <1>3, <1>4 DEF ClientInv

(* What a query changes at the client that sends it. *)
LEMMA QueryFrame ==
    ASSUME CInv, NEW c \in Clients, QueryServer(c)
    PROVE  LET q == queries[c][1]
               r == IF q.op = "BOOK" THEN Books(q) ELSE Deletes(q)
           IN  /\ UNCHANGED <<saved, pic, queries, code, presses>>
               /\ pc[c] = "query" /\ queries[c] # <<>> /\ q \in QuerySet
               /\ owner' = r.owner /\ issued' = r.issued
               /\ answer' = [answer EXCEPT ![c] = r.answer]
               /\ failed' = (failed \/ r.answer = Fail)
               /\ pc' = [pc EXCEPT ![c] = IF r.answer = Fail THEN "box" ELSE "save"]
<1>1. pc[c] = "query"
  BY DEF QueryServer
<1>2. queries[c] # <<>> /\ queries[c] \in Seq(QuerySet)
  BY <1>1 DEF CInv, ClientInv, Shape
<1>3. Head(queries[c]) = queries[c][1] /\ queries[c][1] \in QuerySet
  BY <1>2
<1> QED
  BY <1>1, <1>2, <1>3 DEF QueryServer, Goto

(* A booking that is refused changes nothing at the server. *)
LEMMA RefusedKeeps ==
    ASSUME CInv, NEW c \in Clients, QueryServer(c), queries[c][1].op = "BOOK",
           ~\A s \in queries[c][1].seats : owner[s] = 0
    PROVE  CInv'
<1>1. /\ UNCHANGED <<owner, issued, saved, pic, queries, code, presses>>
      /\ pc[c] = "query" /\ pc' = [pc EXCEPT ![c] = "box"]
      /\ answer' = [answer EXCEPT ![c] = Fail] /\ failed' = TRUE
  BY QueryFrame DEF Books
<1>2. /\ pc' \in [Clients -> {"off", "idle", "confirm", "query", "box", "save", "refresh"}]
      /\ answer' \in [Clients -> Nat \cup {Fail, Succ}]
      /\ pc'[c] = "box" /\ answer'[c] = Fail
      /\ \A d \in Clients \ {c} : pc'[d] = pc[d] /\ answer'[d] = answer[d]
  BY <1>1 DEF CInv, TypeOK
<1>3. TypeOK' /\ queries' \in [Clients -> Seq(QuerySet)]
  BY <1>1, <1>2 DEF CInv, TypeOK
<1>4. \A d \in Clients \ {c} : Same(d)
  BY <1>1, <1>2 DEF Same
<1>5. ClientInv(c)'
  BY <1>1, <1>2 DEF CInv, ClientInv, Shape, Shows, Cancels, Asks
<1>6. CodesOf(c)' \subseteq CodesOf(c) \cup {NoCode, Fail, Succ}
  BY <1>1, <1>2 DEF CodesOf
<1>7. UNCHANGED hall
  BY <1>1 DEF hall
<1> QED
  BY <1>1, <1>3, <1>4, <1>5, <1>6, <1>7, LocalStep

(* An answer of the server to c keeps the invariant if it leaves the seats *)
(* of the other clients alone, and c has the code of what it was given.    *)
LEMMA AnswerStep ==
    ASSUME CInv, NEW c \in Clients,
           TypeOK', queries' \in [Clients -> Seq(QuerySet)],
           \A d \in Clients \ {c} : Same(d),
           failed => failed',
           issued <= issued', \A s \in Seats : owner'[s] <= issued',
           \A d \in Clients \ {c} : \A s \in Seats :
                owner[s] \in CodesOf(d) /\ owner[s] # NoCode => owner'[s] = owner[s],
           ClientInv(c)',
           \A k \in CodesOf(c)' : k \in Nat =>
                k = NoCode \/ k \in CodesOf(c) \/ (k = issued' /\ issued < issued'),
           \A s \in Seats : owner'[s] # NoCode =>
                \/ owner'[s] = owner[s] /\ (HeldBy(c, owner[s]) => HeldBy(c, owner[s])')
                \/ HeldBy(c, owner[s])'
    PROVE  CInv'
<1>1. \A d \in Clients \ {c} : ClientInv(d)'
  <2> SUFFICES ASSUME NEW d \in Clients \ {c} PROVE ClientInv(d)'
    OBVIOUS
  <2>1. ClientInv(d) /\ Same(d) /\ queries[d] \in Seq(QuerySet)
    BY DEF CInv
  <2> QED
    BY <2>1, SeatsKeep
<1>2. \A d \in Clients \ {c} : CodesOf(d)' = CodesOf(d)
  BY SameCodes
<1>3. issued \in Nat /\ issued' \in Nat
  BY DEF CInv, TypeOK
<1>4. \A d \in Clients : \A k \in CodesOf(d) : k \in Nat => k <= issued
  BY DEF CInv, OwnCodes
<1>5. OwnCodes'
  <2>1. ASSUME NEW d \in Clients, NEW k \in CodesOf(d)', k \in Nat
        PROVE  k <= issued'
    <3>1. CASE d = c
      <4>1. k = NoCode \/ k \in CodesOf(c) \/ k = issued'
        BY <2>1, <3>1
      <4>2. k \in CodesOf(c) => k <= issued
        BY <1>4, <2>1
      <4> QED
        BY <1>3, <2>1, <4>1, <4>2 DEF NoCode
    <3>2. CASE d # c
      <4>1. k <= issued
        BY <1>2, <1>4, <2>1, <3>2
      <4> QED
        BY <1>3, <2>1, <4>1
    <3> QED
      BY <3>1, <3>2
  <2>2. ASSUME NEW d \in Clients \ {c}, NEW k \in CodesOf(d)', k \in CodesOf(c)', k \in Nat
        PROVE  k = NoCode
    <3>1. k \in CodesOf(d) /\ k <= issued
      BY <1>2, <1>4, <2>2
    <3>2. k = NoCode \/ k \in CodesOf(c)
      <4>1. k = NoCode \/ k \in CodesOf(c) \/ (k = issued' /\ issued < issued')
        BY <2>2
      <4> QED
        BY <1>3, <3>1, <4>1
    <3> QED
      BY <2>2, <3>1, <3>2 DEF CInv, OwnCodes
  <2>3. ASSUME NEW d \in Clients, NEW e \in Clients, d # e,
               NEW k \in CodesOf(d)', k \in CodesOf(e)', k \in Nat
        PROVE  k = NoCode
    <3>1. CASE d = c \/ e = c
      BY <2>2, <2>3, <3>1
    <3>2. CASE d # c /\ e # c
      <4>1. k \in CodesOf(d) /\ k \in CodesOf(e)
        BY <1>2, <2>3, <3>2
      <4> QED
        BY <2>3, <4>1 DEF CInv, OwnCodes
    <3> QED
      BY <3>1, <3>2
  <2> QED
    BY <2>1, <2>3 DEF OwnCodes
<1>6. BookedSeatsHeld'
  <2> SUFFICES ASSUME ~failed', NEW s \in Seats, owner'[s] # 0
               PROVE  \E d \in Clients : HeldBy(d, owner[s])'
    BY DEF BookedSeatsHeld, HeldBy
  <2>1. CASE HeldBy(c, owner[s])'
    BY <2>1
  <2>2. CASE owner'[s] = owner[s] /\ (HeldBy(c, owner[s]) => HeldBy(c, owner[s])')
    <3>1. PICK d \in Clients : HeldBy(d, owner[s])
      BY <2>2 DEF CInv, BookedSeatsHeld, HeldBy
    <3>2. CASE d = c
      BY <2>2, <3>1, <3>2
    <3>3. CASE d # c
      BY <2>2, <3>1, <3>3 DEF Same, HeldBy
    <3> QED
      BY <3>2, <3>3
  <2> QED
    BY <2>1, <2>2 DEF NoCode
<1> QED
  BY <1>1, <1>5, <1>6 DEF CInv

LEMMA BookedKeeps ==
    ASSUME CInv, NEW c \in Clients, QueryServer(c), queries[c][1].op = "BOOK",
           \A s \in queries[c][1].seats : owner[s] = 0
    PROVE  CInv'
<1> DEFINE q == queries[c][1]
           new == IF q.code = NoCode THEN issued + 1 ELSE q.code
<1>0. /\ issued \in Nat /\ owner \in [Seats -> Nat] /\ new \in Nat \ {NoCode}
      /\ answer \in [Clients -> Nat \cup {Fail, Succ}]
      /\ pc \in [Clients -> {"off", "idle", "confirm", "query", "box", "save", "refresh"}]
  <2>1. issued \in Nat /\ owner \in [Seats -> Nat]
        /\ answer \in [Clients -> Nat \cup {Fail, Succ}]
        /\ pc \in [Clients -> {"off", "idle", "confirm", "query", "box", "save", "refresh"}]
    BY DEF CInv, TypeOK
  <2>2. q.code \in Nat
    BY QueryFrame DEF QuerySet
  <2> QED
    BY <2>1, <2>2 DEF NoCode
<1>1. /\ UNCHANGED <<saved, pic, queries, code, presses, failed>>
      /\ pc[c] = "query" /\ queries[c] # <<>>
      /\ owner' = [s \in Seats |-> IF s \in q.seats THEN new ELSE owner[s]]
      /\ issued' = IF q.code = NoCode THEN issued + 1 ELSE issued
      /\ answer' = [answer EXCEPT ![c] = new]
      /\ pc' = [pc EXCEPT ![c] = "save"]
  <2>1. Books(q) = [answer |-> new,
                    owner  |-> [s \in Seats |-> IF s \in q.seats THEN new ELSE owner[s]],
                    issued |-> IF q.code = NoCode THEN issued + 1 ELSE issued]
    BY DEF Books
  <2>2. Books(q).answer # Fail
    BY <1>0, <2>1, AnswerAssumption
  <2>3. failed \in BOOLEAN
    BY DEF CInv, TypeOK
  <2> QED
    BY <2>1, <2>2, <2>3, QueryFrame
<1>2. Shape(c) /\ Cancels(c) /\ Asks(c)
  BY DEF CInv, ClientInv
<1>3. q.code = saved[c] /\ \A s \in Seats : pic[c][s] = "selected" => s \in q.seats
  BY <1>1, <1>2 DEF Asks
<1>4. \A s \in Seats : owner[s] # NoCode => owner'[s] = owner[s]
  BY <1>1 DEF NoCode
<1>5. \A s \in Seats : owner'[s] = new \/ owner'[s] = owner[s]
  BY <1>1
<1>6. /\ issued' \in Nat /\ issued <= issued' /\ new <= issued'
      /\ new \in CodesOf(c) \/ (new = issued' /\ issued < issued')
  <2>1. CASE q.code = NoCode
    BY <1>0, <1>1, <2>1
  <2>2. CASE q.code # NoCode
    <3>1. new = saved[c] /\ saved[c] \in CodesOf(c)
      BY <1>3, <2>2 DEF CodesOf
    <3>2. new <= issued
      BY <1>0, <3>1 DEF CInv, OwnCodes
    <3> QED
      BY <1>0, <1>1, <2>2, <3>1, <3>2
  <2> QED
    BY <2>1, <2>2
<1> HIDE DEF new
<1>7. /\ owner' \in [Seats -> Nat] /\ \A s \in Seats : owner'[s] <= issued'
  <2>1. \A s \in Seats : owner[s] <= issued
    BY DEF CInv, OwnCodes
  <2>2. owner' \in [Seats -> Nat]
    BY <1>0, <1>1
  <2>3. ASSUME NEW s \in Seats PROVE owner'[s] <= issued'
    <3>1. owner[s] <= issued /\ owner[s] \in Nat
      BY <1>0, <2>1
    <3> QED
      BY <1>0, <1>5, <1>6, <3>1
  <2> QED
    BY <2>2, <2>3
<1>8. /\ answer' \in [Clients -> Nat \cup {Fail, Succ}] /\ answer'[c] = new
      /\ pc' \in [Clients -> {"off", "idle", "confirm", "query", "box", "save", "refresh"}]
      /\ pc'[c] = "save"
      /\ \A d \in Clients \ {c} : pc'[d] = pc[d] /\ answer'[d] = answer[d]
  BY <1>0, <1>1
<1>9. TypeOK' /\ queries' \in [Clients -> Seq(QuerySet)]
  BY <1>1, <1>6, <1>7, <1>8 DEF CInv, TypeOK
<1>10. \A d \in Clients \ {c} : Same(d)
  BY <1>1, <1>8 DEF Same
<1>11. ClientInv(c)'
  <2>1. Shape(c)'
    BY <1>1, <1>2, <1>8 DEF Shape
  <2>2. Shows(c)'
    BY <1>8 DEF Shows
  <2>3. Cancels(c)'
    <3> SUFFICES ASSUME NEW i \in 1 .. Len(queries[c]), queries[c][i].op = "DELETE"
                 PROVE  /\ queries[c][i].code # NoCode
                        /\ \A s \in queries[c][i].seats : owner'[s] = queries[c][i].code
      BY <1>1 DEF Cancels
    <3>1. /\ queries[c][i].code # NoCode
          /\ \A s \in queries[c][i].seats : owner[s] = queries[c][i].code
      BY <1>1, <1>2 DEF Cancels
    <3>2. queries[c][i].seats \subseteq Seats
      <4>1. queries[c][i] \in QuerySet
        BY DEF CInv
      <4> QED
        BY <4>1 DEF QuerySet
    <3> QED
      BY <1>4, <3>1, <3>2
  <2>4. Asks(c)'
    <3>1. saved[c] \in {NoCode, new}
      BY <1>3 DEF new
    <3>2. \A s \in Seats : pic[c][s] = "selected" => owner'[s] = new
      BY <1>1, <1>3
    <3> QED
      BY <1>0, <1>1, <1>8, <3>1, <3>2 DEF Asks
  <2> QED
    BY <2>1, <2>2, <2>3, <2>4 DEF ClientInv
<1>12. \A k \in CodesOf(c)' : k = new \/ k \in CodesOf(c)
  BY <1>1, <1>8 DEF CodesOf
<1>13. ASSUME NEW s \in Seats
       PROVE  \/ owner'[s] = owner[s] /\ (HeldBy(c, owner[s]) => HeldBy(c, owner[s])')
              \/ HeldBy(c, owner[s])'
  BY <1>1, <1>5, <1>8 DEF HeldBy
<1> QED
  BY <1>1, <1>4, <1>6, <1>7, <1>9, <1>10, <1>11, <1>12, <1>13, AnswerStep

(* A cancellation is granted, and frees seats of no other client. *)
LEMMA DeletedKeeps ==
    ASSUME CInv, NEW c \in Clients, QueryServer(c), queries[c][1].op = "DELETE"
    PROVE  CInv'
<1> DEFINE q == queries[c][1]
<1>0. /\ issued \in Nat /\ owner \in [Seats -> Nat]
      /\ answer \in [Clients -> Nat \cup {Fail, Succ}] /\ failed \in BOOLEAN
      /\ pc \in [Clients -> {"off", "idle", "confirm", "query", "box", "save", "refresh"}]
  BY DEF CInv, TypeOK
<1>1. pc[c] = "query" /\ queries[c] # <<>> /\ queries[c] \in Seq(QuerySet) /\ q \in QuerySet
  <2>1. queries[c] \in Seq(QuerySet)
    BY DEF CInv
  <2> QED
    BY <2>1, QueryFrame
<1>2. Shape(c) /\ Cancels(c)
  BY DEF CInv, ClientInv
<1>3. q.code \in Nat /\ q.code # NoCode /\ \A s \in q.seats : owner[s] = q.code
  <2>1. 1 \in 1 .. Len(queries[c])
    BY <1>1
  <2> QED
    BY <1>1, <1>2, <2>1 DEF Cancels, QuerySet
<1>4. /\ UNCHANGED <<saved, pic, queries, code, presses, issued, failed>>
      /\ owner' = [s \in Seats |-> IF s \in q.seats THEN 0 ELSE owner[s]]
      /\ answer' = [answer EXCEPT ![c] = Succ]
      /\ pc' = [pc EXCEPT ![c] = "save"]
  <2>1. Deletes(q) = [answer |-> Succ, issued |-> issued,
                      owner  |-> [s \in Seats |-> IF s \in q.seats THEN 0 ELSE owner[s]]]
    BY <1>3 DEF Deletes
  <2> QED
    BY <1>0, <2>1, QueryFrame, AnswerAssumption
<1>5. Len(queries[c]) = 1
  BY <1>1, <1>2 DEF Shape, InTurn
<1>6. /\ owner' \in [Seats -> Nat] /\ \A s \in Seats : owner'[s] = 0 \/ owner'[s] = owner[s]
      /\ \A s \in Seats : owner[s] # q.code => owner'[s] = owner[s]
  BY <1>0, <1>3, <1>4
<1>7. \A s \in Seats : owner'[s] <= issued'
  <2>1. \A s \in Seats : owner[s] <= issued
    BY DEF CInv, OwnCodes
  <2> QED
    BY <1>0, <1>4, <1>6, <2>1
<1>8. /\ answer' \in [Clients -> Nat \cup {Fail, Succ}] /\ answer'[c] = Succ
      /\ pc' \in [Clients -> {"off", "idle", "confirm", "query", "box", "save", "refresh"}]
      /\ pc'[c] = "save"
      /\ \A d \in Clients \ {c} : pc'[d] = pc[d] /\ answer'[d] = answer[d]
  BY <1>0, <1>4
<1>9. TypeOK' /\ queries' \in [Clients -> Seq(QuerySet)]
  BY <1>4, <1>6, <1>8 DEF CInv, TypeOK
<1>10. \A d \in Clients \ {c} : Same(d)
  BY <1>4, <1>8 DEF Same
<1>11. \A d \in Clients \ {c} : q.code \notin CodesOf(d)
  <2>1. q.code \in CodesOf(c)
    BY <1>5 DEF CodesOf
  <2> QED
    BY <1>3, <2>1 DEF CInv, OwnCodes
<1>12. ClientInv(c)'
  <2>1. Shape(c)'
    BY <1>1, <1>2, <1>4, <1>8 DEF Shape
  <2>2. Shows(c)'
    BY <1>8 DEF Shows
  <2>3. Cancels(c)'
    <3>1. \A i \in 1 .. Len(queries[c]) : i = 1
      BY <1>5
    <3> QED
      BY <1>4, <1>8, <3>1 DEF Cancels
  <2>4. Asks(c)'
    BY <1>4, <1>8 DEF Asks
  <2> QED
    BY <2>1, <2>2, <2>3, <2>4 DEF ClientInv
<1>13. \A k \in CodesOf(c)' : k \in Nat => k \in CodesOf(c)
  BY <1>4, <1>8, AnswerAssumption DEF CodesOf
<1>14. ASSUME NEW s \in Seats, owner'[s] # NoCode
       PROVE  owner'[s] = owner[s] /\ (HeldBy(c, owner[s]) => HeldBy(c, owner[s])')
  BY <1>1, <1>4, <1>6, <1>14 DEF HeldBy, NoCode
<1>15. \A d \in Clients \ {c} : \A s \in Seats :
          owner[s] \in CodesOf(d) /\ owner[s] # NoCode => owner'[s] = owner[s]
  BY <1>6, <1>11
<1>16. issued <= issued'
  BY <1>0, <1>4
<1> QED
  BY <1>4, <1>7, <1>9, <1>10, <1>12, <1>13, <1>14, <1>15, <1>16, AnswerStep

LEMMA QueryKeeps ==
    ASSUME CInv, NEW c \in Clients, QueryServer(c)
    PROVE  CInv'
<1>1. queries[c][1].op = "BOOK" \/ queries[c][1].op = "DELETE"
  BY QueryFrame DEF QuerySet
<1> QED
  BY <1>1, RefusedKeeps, BookedKeeps, DeletedKeeps

-----------------------------------------------------------------------------
(* Every step *)

LEMMA NextCInv ==
    ASSUME CInv, [Next]_vars
    PROVE  CInv'
<1>1. ASSUME NEW c \in Clients, Start(c) \/ Timer(c) \/ Refresh(c) PROVE CInv'
  BY <1>1, StartKeeps, TimerKeeps, RefreshKeeps
<1>2. ASSUME NEW c \in Clients, PressBook(c) \/ PressModify(c) \/ PressDelete(c) PROVE CInv'
  BY <1>2, PressBookKeeps, PressModifyKeeps, PressDeleteKeeps
<1>3. ASSUME NEW c \in Clients, Confirm(c) \/ Decline(c) \/ Exit(c) PROVE CInv'
  BY <1>3, ConfirmKeeps, DeclineKeeps, ExitKeeps
<1>4. ASSUME NEW c \in Clients, QueryServer(c) \/ Save(c) PROVE CInv'
  BY <1>4, QueryKeeps, SaveKeeps
<1>5. ASSUME NEW c \in Clients, NEW s \in Seats, Click(c, s) PROVE CInv'
  BY <1>5, ClickKeeps
<1>6. CASE UNCHANGED vars
  <2>1. UNCHANGED <<owner, issued, saved, pic, pc, queries, code, answer, failed, presses>>
    BY <1>6 DEF vars, hall
  <2>2. TypeOK' /\ queries' \in [Clients -> Seq(QuerySet)] /\ BookedSeatsHeld'
    BY <2>1 DEF CInv, TypeOK, BookedSeatsHeld
  <2>3. OwnCodes'
    BY <2>1 DEF CInv, OwnCodes, CodesOf
  <2>4. \A c \in Clients : ClientInv(c)'
    BY <2>1, OthersKeep DEF CInv, Same
  <2> QED
    BY <2>2, <2>3, <2>4 DEF CInv
<1> QED
  BY <1>1, <1>2, <1>3, <1>4, <1>5, <1>6 DEF Next

LEMMA Invariant == Spec => []CInv
<1>1. Init => CInv
  BY InitCInv
<1>2. CInv /\ [Next]_vars => CInv'
  BY NextCInv
<1> QED
  BY <1>1, <1>2, PTL DEF Spec

(* What the server answers keeps its type at the client, and no button     *)
(* sends MSG_FAIL as a code (client.c, ButtonClickHandler).                *)
THEOREM TypeCorrect == Spec => []TypeOK
<1>1. CInv => TypeOK
  BY DEF CInv
<1> QED
  BY <1>1, Invariant, PTL

(* Between two clicks, the seats a client shows as its own are booked with *)
(* the code in its file, whatever other clients book, cancel or close.     *)
THEOREM OwnPicturesHold == Spec => []OwnPicturesTrue
<1>1. CInv => OwnPicturesTrue
  BY DEF CInv, ClientInv, Shows, OwnShown, OwnPicturesTrue
<1> QED
  BY <1>1, Invariant, PTL

(* The cancellations that GetSeatsQuery builds of the pictures are always  *)
(* granted: only for a booking does the message box report a failure.      *)
THEOREM CancellationsGranted == Spec => []OnlyBookingsFail
<1>1. CInv => OnlyBookingsFail
  <2> SUFFICES ASSUME CInv, NEW c \in Clients, pc[c] = "box"
               PROVE  Head(queries[c]).op = "BOOK"
    BY DEF OnlyBookingsFail
  <2>1. queries[c] \in Seq(QuerySet) /\ queries[c] # <<>> /\ queries[c][1].op = "BOOK"
    BY DEF CInv, ClientInv, Shape, Asks
  <2> QED
    BY <2>1
<1> QED
  BY <1>1, Invariant, PTL

(* No booked seat is forgotten by all clients as long as no query fails    *)
(* and no client ends while it waits for an answer.                        *)
THEOREM BookedSeatsAreHeld == Spec => []BookedSeatsHeld
<1>1. CInv => BookedSeatsHeld
  BY DEF CInv
<1> QED
  BY <1>1, Invariant, PTL

(* The code that answers a booking is on every seat that the user selected *)
(* for it (client.c, GetSeatsQuery).                                       *)
THEOREM BookingsAsSelected == Spec => []BookedAsSelected
<1>1. CInv => BookedAsSelected
  <2> SUFFICES ASSUME CInv, NEW c \in Clients, pc[c] = "save", Head(queries[c]).op = "BOOK",
                      NEW s \in Seats, pic[c][s] = "selected"
               PROVE  owner[s] = answer[c]
    BY DEF BookedAsSelected
  <2>1. queries[c] \in Seq(QuerySet) /\ queries[c] # <<>>
    BY DEF CInv, ClientInv, Shape
  <2>2. queries[c][1].op = "BOOK"
    BY <2>1
  <2> QED
    BY <2>2 DEF CInv, ClientInv, Asks
<1> QED
  BY <1>1, Invariant, PTL
=============================================================================
