------------------------- MODULE StorageProperties -------------------------
(***************************************************************************)
(* The storage with its file, its copy in memory and its index implements  *)
(* the map of the module KeyValue.                                         *)
(***************************************************************************)
EXTENDS Storage

(* A call has taken effect from the write of the file on, a load from the  *)
(* read of the copy on.                                                    *)
TookEffect(t) == phase[t] = "unlock" \/ pc[t] \in {"free", "reload", "write_cache"}

Stage(t) ==
    CASE pc[t] = "idle"                                  -> "idle"
      [] pc[t] = "done"                                  -> "unlocked"
      [] pc[t] \notin {"idle", "done"} /\ ~Inside(t)     -> "waiting"
      [] pc[t] # "idle" /\ Inside(t) /\ ~TookEffect(t)   -> "locked"
      [] pc[t] # "idle" /\ Inside(t) /\ TookEffect(t)    -> "answered"

Answer(t) == IF pc[t] \in {"free", "reload", "write_cache"} THEN Succ ELSE ret[t]

StoredValue(k) ==
    IF Slots(k) = {} THEN NoThread ELSE disk[CHOOSE i \in Slots(k) : TRUE].val

Abstract == INSTANCE KeyValue WITH
    Clients <- Threads,
    Missing <- NoThread,
    value   <- [k \in Keys |-> StoredValue(k)],
    stage   <- [t \in Threads |-> Stage(t)],
    call    <- [t \in Threads |-> [op |-> call[t].op, key |-> call[t].key, val |-> call[t].val]],
    answer  <- [t \in Threads |-> Answer(t)]

(* Single-key calls of any number of handlers look as if each lock, load,  *)
(* store and unlock were one step on a map, and the map survives a crash   *)
(* at any point (storage.h).                                               *)
ImplementsKeyValue == Abstract!Spec

=============================================================================
