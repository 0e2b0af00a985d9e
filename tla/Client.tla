------------------------------- MODULE Client -------------------------------
(***************************************************************************)
(* The client program (client/client.c, booking.c): one thread that reacts *)
(* to clicks on seats, to its three buttons and to a timer that polls the  *)
(* map.  The booking code is kept in a file; what a picture shows of a     *)
(* seat decides what the buttons ask for.  Several clients share a hall.   *)
(* A message box lets the timer run while it is open.                      *)
(*                                                                         *)
(* The server is external here: a query is one step of it, and the module  *)
(* Database shows what that step stands for.                               *)
(*                                                                         *)
(* Bound: MaxPresses, how often buttons are pressed in a behaviour.        *)
(***************************************************************************)
EXTENDS Integers, Sequences, FiniteSets

CONSTANTS
    Clients,
    Seats,        \* of the hall, numbered
    Fail, Succ,   \* MSG_FAIL and MSG_SUCC
    MaxPresses

ASSUME SeatsAssumption == Seats \subseteq Nat
ASSUME AnswerAssumption == Fail \notin Nat /\ Succ \notin Nat /\ Fail # Succ
ASSUME PressesAssumption == MaxPresses \in Nat

(* An answer is read into MSG_LEN zeroed characters, two of which show a   *)
(* seat: what follows MSG_FAIL there is no digit.                          *)
ASSUME HallAssumption == 2 * Cardinality(Seats) <= 4096

NoCode   == 0     \* the empty file; "-1" in a query
Pictures == {"default", "selected", "booked", "remove", "disabled"}

VARIABLES
    owner,     \* owner[s]: the code seat s is booked with at the server, 0 if free
    issued,    \* the codes issued by the server
    saved,     \* saved[c]: the content of the file of client c
    pic,       \* pic[c][s]: the picture of seat s
    pc,        \* pc[c]: where c is; "off" if it does not run
    queries,   \* queries[c]: what a button still has to send: [op, code, seats]
    code,      \* code[c]: the code a button read from the file
    answer,    \* answer[c]: the last answer of the server
    held,      \* held[c]: the last code c wrote to its file (for the properties)
    failed,    \* has a query failed or a client ended? (for the properties)
    presses

hall == <<owner, issued>>
vars == <<hall, saved, pic, pc, queries, code, answer, held, failed, presses>>

Init ==
    /\ owner = [s \in Seats |-> 0] /\ issued = 0
    /\ saved = [c \in Clients |-> NoCode]
    /\ pic = [c \in Clients |-> [s \in Seats |-> "default"]]
    /\ pc = [c \in Clients |-> "off"]
    /\ queries = [c \in Clients |-> <<>>]
    /\ code = [c \in Clients |-> NoCode]
    /\ answer = [c \in Clients |-> Succ]
    /\ held = [c \in Clients |-> NoCode]
    /\ failed = FALSE
    /\ presses = MaxPresses

Goto(c, l) == pc' = [pc EXCEPT ![c] = l]

-----------------------------------------------------------------------------
(* The server, external. *)

(* BOOK takes the seats as they arrive, all or none.                       *)
Books(q) ==
    IF \A s \in q.seats : owner[s] = 0
    THEN LET new == IF q.code = NoCode THEN issued + 1 ELSE q.code
         IN  [answer |-> new,
              owner  |-> [s \in Seats |-> IF s \in q.seats THEN new ELSE owner[s]],
              issued |-> IF q.code = NoCode THEN issued + 1 ELSE issued]
    ELSE [answer |-> Fail, owner |-> owner, issued |-> issued]

Deletes(q) ==
    IF \A s \in q.seats : owner[s] = q.code
    THEN [answer |-> Succ, issued |-> issued,
          owner  |-> [s \in Seats |-> IF s \in q.seats THEN 0 ELSE owner[s]]]
    ELSE [answer |-> Fail, owner |-> owner, issued |-> issued]

(* The digit of seat s in the map for code i; no digit when i is no code,  *)
(* "MAP OPERATION FAILED" is no query.                                     *)
Digit(s, i) ==
    IF i = Fail THEN "none"
    ELSE IF owner[s] = 0 THEN "0" ELSE IF owner[s] = i THEN "1" ELSE "2"

-----------------------------------------------------------------------------
(* UpdateSeats *)

(* Every picture from the map. *)
Reset(d) == CASE d = "0" -> "default" [] d = "1" -> "booked" [] OTHER -> "disabled"

(* Only what the user has not touched. *)
Update(p, d) ==
    CASE p = "default" /\ d = "1" -> "booked"
      [] p = "default" /\ d = "2" -> "disabled"
      [] p \in {"disabled", "booked"} /\ d = "0" -> "default"
      [] OTHER -> p

(* When the map shows no seat of the code in the file, the file is emptied.*)
UpdateSeats(c, reset) ==
    LET digit == [s \in Seats |-> Digit(s, saved[c])]
    IN  /\ pic' = [pic EXCEPT ![c] = [s \in Seats |->
                IF reset THEN Reset(digit[s]) ELSE Update(@[s], digit[s])]]
        /\ saved' = [saved EXCEPT ![c] =
                IF \E s \in Seats : digit[s] = "1" THEN @ ELSE NoCode]

Start(c) ==
    /\ pc[c] = "off"
    /\ UpdateSeats(c, FALSE)
    /\ Goto(c, "idle")
    /\ UNCHANGED <<hall, queries, code, answer, held, failed, presses>>

(* WM_TIMER, also under an open message box. *)
Timer(c) ==
    /\ pc[c] \in {"idle", "confirm", "box"}
    /\ UpdateSeats(c, FALSE)
    /\ UNCHANGED <<hall, pc, queries, code, answer, held, failed, presses>>

-----------------------------------------------------------------------------
(* Clicks *)

Toggle == [default |-> "selected", selected |-> "default", booked |-> "remove",
           remove |-> "booked", disabled |-> "disabled"]

Click(c, s) ==
    /\ pc[c] = "idle"
    /\ pic[c][s] # "disabled"
    /\ pic' = [pic EXCEPT ![c][s] = Toggle[@]]
    /\ UNCHANGED <<hall, saved, pc, queries, code, answer, held, failed, presses>>

(* Mutant: the loop over the seats ends one seat early. *)
PicturedShort(c, P) == {s \in Seats : pic[c][s] \in P /\ \E t \in Seats : t > s}

(* GetSeatsQuery; a query without seats is not sent. *)
Pictured(c, P) == {s \in Seats : pic[c][s] \in P}
Query(op, i, S) == IF S = {} THEN <<>> ELSE <<[op |-> op, code |-> i, seats |-> S]>>

Press(c, S) ==
    /\ presses > 0 /\ presses' = presses - 1
    /\ code' = [code EXCEPT ![c] = saved[c]]
    /\ queries' = [queries EXCEPT ![c] = S]
    /\ UNCHANGED <<hall, saved, pic, answer, held, failed>>

(* Button 1 is there without a code, buttons 2 and 3 with one. *)
PressBook(c) ==
    LET q == Query("BOOK", NoCode, Pictured(c, {"selected"}))
    IN  /\ pc[c] = "idle" /\ saved[c] = NoCode /\ q # <<>>
        /\ Press(c, q)
        /\ Goto(c, "query")

PressModify(c) ==
    LET q == Query("BOOK", saved[c], Pictured(c, {"selected"}))
             \o Query("DELETE", saved[c], Pictured(c, {"remove"}))
    IN  /\ pc[c] = "idle" /\ saved[c] # NoCode
        /\ Press(c, q)
        /\ Goto(c, IF q = <<>> THEN "refresh" ELSE "query")

PressDelete(c) ==
    /\ pc[c] = "idle" /\ saved[c] # NoCode
    /\ Press(c, <<>>)
    /\ Goto(c, "confirm")

(* Mutant: the seats that are only selected are deleted as well. *)
ConfirmSelected(c) ==
    LET q == Query("DELETE", code[c], Pictured(c, {"booked", "remove", "selected"}))
    IN  /\ pc[c] = "confirm"
        /\ queries' = [queries EXCEPT ![c] = q]
        /\ Goto(c, IF q = <<>> THEN "idle" ELSE "query")
        /\ UNCHANGED <<hall, saved, pic, code, answer, held, failed, presses>>

(* The pictures count when the user has answered, the code was read before *)
Confirm(c) ==
    LET q == Query("DELETE", code[c], Pictured(c, {"booked", "remove"}))
    IN  /\ pc[c] = "confirm"
        /\ queries' = [queries EXCEPT ![c] = q]
        /\ Goto(c, IF q = <<>> THEN "idle" ELSE "query")
        /\ UNCHANGED <<hall, saved, pic, code, answer, held, failed, presses>>

Decline(c) ==
    /\ pc[c] = "confirm"
    /\ Goto(c, "idle")
    /\ UNCHANGED <<hall, saved, pic, queries, code, answer, held, failed, presses>>

-----------------------------------------------------------------------------
(* ButtonClickHandler *)

QueryServer(c) ==
    LET q == Head(queries[c])
        r == IF q.op = "BOOK" THEN Books(q) ELSE Deletes(q)
    IN  /\ pc[c] = "query"
        /\ owner' = r.owner /\ issued' = r.issued
        /\ answer' = [answer EXCEPT ![c] = r.answer]
        /\ failed' = (failed \/ r.answer = Fail)
        /\ Goto(c, IF r.answer = Fail THEN "box" ELSE "save")
        /\ UNCHANGED <<saved, pic, queries, code, held, presses>>

(* Mutant: every answer is saved. *)
SaveEveryAnswer(c) ==
    /\ pc[c] \in {"box", "save"}
    /\ saved' = [saved EXCEPT ![c] = answer[c]]
    /\ held' = [held EXCEPT ![c] = IF answer[c] \in {Fail, Succ} THEN @ ELSE answer[c]]
    /\ queries' = [queries EXCEPT ![c] = Tail(@)]
    /\ Goto(c, IF Len(queries[c]) = 1 THEN "refresh" ELSE "query")
    /\ UNCHANGED <<hall, pic, code, answer, failed, presses>>

(* Everything that is not MSG_SUCC is saved as the code, MSG_FAIL too. *)
Save(c) ==
    /\ pc[c] \in {"box", "save"}
    /\ saved' = [saved EXCEPT ![c] = IF answer[c] = Succ THEN @ ELSE answer[c]]
    /\ held' = [held EXCEPT ![c] = IF answer[c] \in {Fail, Succ} THEN @ ELSE answer[c]]
    /\ queries' = [queries EXCEPT ![c] = Tail(@)]
    /\ Goto(c, IF Len(queries[c]) = 1 THEN "refresh" ELSE "query")
    /\ UNCHANGED <<hall, pic, code, answer, failed, presses>>

(* Mutant: the pictures are updated, not reset. *)
RefreshKeeping(c) ==
    /\ pc[c] = "refresh"
    /\ UpdateSeats(c, FALSE)
    /\ Goto(c, "idle")
    /\ UNCHANGED <<hall, queries, code, answer, held, failed, presses>>

Refresh(c) ==
    /\ pc[c] = "refresh"
    /\ UpdateSeats(c, TRUE)
    /\ Goto(c, "idle")
    /\ UNCHANGED <<hall, queries, code, answer, held, failed, presses>>

(* The user closes the window, or a call fails and ErrorHandler exits.     *)
Exit(c) ==
    /\ pc[c] # "off"
    /\ Goto(c, "off")
    /\ pic' = [pic EXCEPT ![c] = [s \in Seats |-> "default"]]
    /\ queries' = [queries EXCEPT ![c] = <<>>]
    /\ code' = [code EXCEPT ![c] = NoCode]
    /\ answer' = [answer EXCEPT ![c] = Succ]
    /\ failed' = (failed \/ pc[c] # "idle")
    /\ UNCHANGED <<hall, saved, held, presses>>

Next ==
    \E c \in Clients :
        \/ Start(c) \/ Timer(c) \/ \E s \in Seats : Click(c, s)
        \/ PressBook(c) \/ PressModify(c) \/ PressDelete(c) \/ Confirm(c) \/ Decline(c)
        \/ QueryServer(c) \/ Save(c) \/ Refresh(c) \/ Exit(c)

Spec == Init /\ [][Next]_vars

-----------------------------------------------------------------------------
(* Types; MSG_SUCC is never taken for a code, and no button reads MSG_FAIL *)
(* from the file.                                                          *)
TypeOK ==
    /\ owner \in [Seats -> Nat] /\ issued \in Nat
    /\ saved \in [Clients -> Nat \cup {Fail}]
    /\ pic \in [Clients -> [Seats -> Pictures]]
    /\ pc \in [Clients -> {"off", "idle", "confirm", "query", "box", "save", "refresh"}]
    /\ code \in [Clients -> Nat]
    /\ answer \in [Clients -> Nat \cup {Fail, Succ}]
    /\ failed \in BOOLEAN /\ presses \in 0 .. MaxPresses

(* A seat that a running client shows as its own, or as its own to give    *)
(* back, is booked with its code, although other clients book and cancel   *)
(* between two polls.                                                      *)
OwnPicturesTrue ==
    \A c \in Clients, s \in Seats :
        pc[c] = "idle" /\ pic[c][s] \in {"booked", "remove"} => owner[s] = saved[c]

(* The requests to cancel that the buttons build are never refused: only a *)
(* booking can lose a race, and the message box says so.                   *)
OnlyBookingsFail ==
    \A c \in Clients : pc[c] = "box" => Head(queries[c]).op = "BOOK"

(* While no query fails and no client ends in the middle of one, every     *)
(* booked seat has a client that holds its code, or is about to save it.   *)
BookedSeatsHeld ==
    ~failed => \A s \in Seats : owner[s] # 0 =>
        \E c \in Clients : saved[c] = owner[s] \/ (pc[c] = "save" /\ answer[c] = owner[s])

(* README: the client sends "the list of seats to be reserved" and         *)
(* retrieves "the booking confirmation".  The code that answers a booking  *)
(* is the code of every seat the user has selected.                        *)
BookedAsSelected ==
    \A c \in Clients :
        pc[c] = "save" /\ Head(queries[c]).op = "BOOK" =>
            \A s \in Seats : pic[c][s] = "selected" => owner[s] = answer[c]

(* README: the client can "cancel the reservation associated with the code *)
(* held".  The code written to the file stays there while it has seats.    *)
CodeKept ==
    \A c \in Clients :
        /\ pc[c] = "idle" /\ held[c] # NoCode
        /\ \E s \in Seats : owner[s] = held[c]
        => saved[c] = held[c]

=============================================================================
