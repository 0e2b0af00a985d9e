------------------------------ MODULE KeyValue ------------------------------
(***************************************************************************)
(* What the storage promises to the procedures of the database: a map from *)
(* keys to values in which a load, a store and a lock are one step each.   *)
(* A client asks for the lock of one key, shared to load it, exclusive to  *)
(* store it, does so once, and gives the lock back.  A crash keeps the map *)
(* and ends every call.                                                    *)
(***************************************************************************)
CONSTANTS Clients, Keys, Values,
          Missing,     \* the value of a key that was never stored
          TooLong,     \* a value that is refused
          Fail, Succ   \* the answers to a call

VARIABLES
    value,    \* value[k]: what is stored under k
    stage,    \* stage[c]: idle, waiting for the lock, locked, answered, unlocked
    call,     \* call[c]: what it does
    answer    \* answer[c]: what its load or store returned

vars == <<value, stage, call, answer>>

NoCall == [op |-> "NONE", key |-> "", val |-> TooLong]

Init ==
    /\ value \in [Keys -> Values \cup {Missing}]
    /\ stage = [c \in Clients |-> "idle"]
    /\ call = [c \in Clients |-> NoCall]
    /\ answer = [c \in Clients |-> Fail]

Moves(c, from, to) == stage[c] = from /\ stage' = [stage EXCEPT ![c] = to]

Holds(c, k) == stage[c] \in {"locked", "answered"} /\ call[c].key = k

Ask(c) ==
    /\ Moves(c, "idle", "waiting")
    /\ \E op \in {"GET", "SET"}, k \in Keys, v \in Values \cup {TooLong} :
        call' = [call EXCEPT ![c] = [op |-> op, key |-> k, val |-> v]]
    /\ UNCHANGED <<value, answer>>

Acquire(c) ==
    /\ Moves(c, "waiting", "locked")
    /\ \A d \in Clients : Holds(d, call[c].key) => {call[c].op, call[d].op} = {"GET"}
    /\ UNCHANGED <<value, call, answer>>

Load(c) ==
    /\ Moves(c, "locked", "answered") /\ call[c].op = "GET"
    /\ answer' = [answer EXCEPT ![c] =
            IF value[call[c].key] = Missing THEN Fail ELSE value[call[c].key]]
    /\ UNCHANGED <<value, call>>

Store(c) ==
    /\ Moves(c, "locked", "answered") /\ call[c].op = "SET"
    /\ IF call[c].val = TooLong
       THEN answer' = [answer EXCEPT ![c] = Fail] /\ UNCHANGED value
       ELSE /\ answer' = [answer EXCEPT ![c] = Succ]
            /\ value' = [value EXCEPT ![call[c].key] = call[c].val]
    /\ UNCHANGED call

Release(c) == Moves(c, "answered", "unlocked") /\ UNCHANGED <<value, call, answer>>

Return(c) ==
    /\ Moves(c, "unlocked", "idle")
    /\ call' = [call EXCEPT ![c] = NoCall]
    /\ answer' = [answer EXCEPT ![c] = Fail]
    /\ UNCHANGED value

Crash ==
    /\ stage' = [c \in Clients |-> "idle"]
    /\ call' = [c \in Clients |-> NoCall]
    /\ answer' = [c \in Clients |-> Fail]
    /\ UNCHANGED value

Next ==
    \/ \E c \in Clients : Ask(c) \/ Acquire(c) \/ Load(c) \/ Store(c) \/ Release(c) \/ Return(c)
    \/ Crash

Spec == Init /\ [][Next]_vars

=============================================================================
