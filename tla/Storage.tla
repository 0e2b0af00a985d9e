------------------------------ MODULE Storage ------------------------------
(***************************************************************************)
(* The storage of the server (server/cinemad/storage.c) and its index      *)
(* (index_table.c): a file of fixed-size slots, a copy of the file in      *)
(* memory, and an index from each key to a record with the offset of its   *)
(* value and its reader-writer lock.  Handlers run procedure_get and       *)
(* procedure_set on it: lock, load or store, unlock, each of which looks   *)
(* the key up again and makes a record for a key that has none.  A record  *)
(* made for a key that is not in the file has no offset, and is deleted by *)
(* the load or the unlock that finds it so.                                *)
(*                                                                         *)
(* A freed record keeps its content as long as somebody points to it, and  *)
(* a write to the freed copy of the file is lost: of what a use after free *)
(* may do, the mildest.                                                    *)
(*                                                                         *)
(* Bounds: MaxCalls, the calls of a behaviour; Records, the records that   *)
(* can exist at a time.                                                    *)
(***************************************************************************)
EXTENDS Integers, Sequences, FiniteSets

CONSTANTS
    Threads,
    Keys,
    InFile,      \* the keys of the file at the start, in the order of its slots
    Values,      \* values that fit a slot
    TooLong,     \* a value that does not
    Records,     \* records of the index, numbered from 1
    NoThread,
    Fail, Succ,  \* MSG_FAIL and MSG_SUCC
    Racing,      \* may a key that is not in the file be looked up and dropped
                 \* while another handler is at work?
    MaxCalls

(* The file was written by this storage: it has one slot per key. *)
ASSUME FileAssumption ==
    /\ InFile \in Seq(Keys)
    /\ \A i, j \in DOMAIN InFile : InFile[i] = InFile[j] => i = j
ASSUME AnswerAssumption ==
    /\ Fail # Succ /\ {Fail, Succ} \cap Values = {} /\ TooLong \notin Values
    /\ NoThread \notin Threads \cup Values
(* Memory is never exhausted. *)
ASSUME RecordAssumption ==
    /\ IsFiniteSet(Keys) /\ IsFiniteSet(Threads) /\ IsFiniteSet(Records)
    /\ Records = 1 .. Cardinality(Records)
    /\ Cardinality(Records) >= Cardinality(Keys) + Cardinality(Threads)

VARIABLES
    disk,       \* data.dat: its slots
    cache,      \* buffer_cache: the values of the slots; <<>> once freed
    index,      \* index[k]: the record of key k, 0 if it has none
    record,     \* record[r]: offset (0 if unset) and lock of record r
    mutex,      \* the holder of mutex_seek_stream
    cacheLock,  \* the holder of lock_buffer_cache for writing
    pc,
    phase,      \* phase[t]: in storage_lock_*, in storage_load or _store, in storage_unlock
    call,       \* call[t]: the procedure t executes
    ptr,        \* ptr[t]: the record its last search returned
    ret,        \* ret[t]: the result of its load or store
    budget

tables == <<index, record>>
files  == <<disk, cache>>
guards == <<mutex, cacheLock>>
vars   == <<tables, files, guards, pc, phase, call, ptr, ret, budget>>

NoCall == [op |-> "NONE", key |-> "", val |-> TooLong, drops |-> FALSE]
NewRecord(i) == [offset |-> i, writer |-> NoThread, readers |-> {}]

Key(t) == call[t].key
Slots(k) == {i \in DOMAIN disk : disk[i].key = k}
Known(k) == index[k] # 0 /\ record[index[k]].offset # 0
Busy(t)  == pc[t] # "idle"

(* load_table and update_buffer_cache: the index f and the copy of the     *)
(* file, from the slots of file d.                                         *)
Loads(d, f) ==
    \A k \in Keys : LET S == {i \in DOMAIN d : d[i].key = k}
                    IN  f[k] \in (IF S = {} THEN {0} ELSE S)
ValuesOf(d) == [i \in DOMAIN d |-> d[i].val]
Table(d)   == [r \in Records |-> NewRecord(IF r \in DOMAIN d THEN r ELSE 0)]

Init ==
    /\ \E v \in Values : disk = [i \in DOMAIN InFile |-> [key |-> InFile[i], val |-> v]]
    /\ cache = ValuesOf(disk)
    /\ index \in {f \in [Keys -> {0} \cup DOMAIN disk] : Loads(disk, f)}
    /\ record = Table(disk)
    /\ mutex = NoThread /\ cacheLock = NoThread
    /\ pc = [t \in Threads |-> "idle"]
    /\ phase = [t \in Threads |-> "lock"]
    /\ call = [t \in Threads |-> NoCall]
    /\ ptr = [t \in Threads |-> 0]
    /\ ret = [t \in Threads |-> Fail]
    /\ budget = MaxCalls

Goto(t, l) == pc' = [pc EXCEPT ![t] = l]

(* On to the next of lock, load or store, and unlock: its search. *)
Enter(t, p) == Goto(t, "search") /\ phase' = [phase EXCEPT ![t] = p]

Returns(t, v) == ret' = [ret EXCEPT ![t] = v]

(* A procedure begins.  It drops the record of its key when the file has   *)
(* no value of the key and it is not going to store one.                   *)
Begin(t) ==
    /\ pc[t] = "idle" /\ budget > 0
    /\ \E op \in {"GET", "SET"}, k \in Keys, v \in Values \cup {TooLong} :
        LET drops == ~Known(k) /\ v = TooLong
        IN  /\ (op = "GET" => v = TooLong)
            /\ ~Racing => /\ drops => \A u \in Threads : ~Busy(u)
                          /\ \A u \in Threads : ~call[u].drops
            /\ call' = [call EXCEPT ![t] = [op |-> op, key |-> k, val |-> v, drops |-> drops]]
    /\ Enter(t, "lock")
    /\ budget' = budget - 1
    /\ UNCHANGED <<tables, files, guards, ptr, ret>>

-----------------------------------------------------------------------------
(* index_table_search: look the key up, and once more under the exclusive  *)
(* lock of the index before a record is made for it.                       *)

(* A value that does not fit is refused before the search. *)
Refused(t) == phase[t] = "access" /\ call[t].op = "SET" /\ call[t].val = TooLong

Search(t) ==
    /\ pc[t] = "search" /\ ~Refused(t)
    /\ ptr' = [ptr EXCEPT ![t] = index[Key(t)]]
    /\ Goto(t, IF index[Key(t)] # 0 THEN "use" ELSE "create")
    /\ UNCHANGED <<tables, files, guards, phase, call, ret, budget>>

(* The memory of a new record: nobody uses or points to it. *)
Free == Records \ ({index[k] : k \in Keys} \cup {ptr[u] : u \in Threads})
Fresh == CHOOSE r \in Free : TRUE

(* Mutant: the key is not looked up again. *)
CreateBlindly(t) ==
    /\ pc[t] = "create"
    /\ index' = [index EXCEPT ![Key(t)] = Fresh]
    /\ record' = [record EXCEPT ![Fresh] = NewRecord(0)]
    /\ ptr' = [ptr EXCEPT ![t] = Fresh]
    /\ Goto(t, "use")
    /\ UNCHANGED <<files, guards, phase, call, ret, budget>>

Create(t) ==
    /\ pc[t] = "create"
    /\ IF index[Key(t)] # 0
       THEN ptr' = [ptr EXCEPT ![t] = index[Key(t)]] /\ UNCHANGED tables
       ELSE /\ index' = [index EXCEPT ![Key(t)] = Fresh]
            /\ record' = [record EXCEPT ![Fresh] = NewRecord(0)]
            /\ ptr' = [ptr EXCEPT ![t] = Fresh]
    /\ Goto(t, "use")
    /\ UNCHANGED <<files, guards, phase, call, ret, budget>>

(* index_table_delete: the record the key has now is destroyed, whoever    *)
(* holds its lock.  If the key has none any more the process dies (Crash). *)
Delete(t) ==
    /\ pc[t] = "delete" /\ index[Key(t)] # 0
    /\ index' = [index EXCEPT ![Key(t)] = 0]
    /\ IF phase[t] = "access"
       THEN Enter(t, "unlock") /\ Returns(t, Fail)
       ELSE Goto(t, "done") /\ UNCHANGED <<phase, ret>>
    /\ UNCHANGED <<record, files, guards, call, ptr, budget>>

-----------------------------------------------------------------------------
(* storage_lock_shared, storage_lock_exclusive, storage_unlock *)

Lock(t) ==
    /\ pc[t] = "use" /\ phase[t] = "lock"
    /\ record[ptr[t]].writer = NoThread
    /\ \/ /\ call[t].op = "GET"
          /\ record' = [record EXCEPT ![ptr[t]].readers = @ \cup {t}]
       \/ /\ call[t].op = "SET" /\ record[ptr[t]].readers = {}
          /\ record' = [record EXCEPT ![ptr[t]].writer = t]
    /\ Enter(t, "access")
    /\ UNCHANGED <<index, files, guards, call, ptr, ret, budget>>

Unlock(t) ==
    /\ pc[t] = "use" /\ phase[t] = "unlock"
    /\ IF record[ptr[t]].offset = 0
       THEN Goto(t, "delete") /\ UNCHANGED record
       ELSE /\ record' = [record EXCEPT
                    ![ptr[t]].writer = IF @ = t THEN NoThread ELSE @,
                    ![ptr[t]].readers = @ \ {t}]
            /\ Goto(t, "done")
    /\ UNCHANGED <<index, files, guards, phase, call, ptr, ret, budget>>

-----------------------------------------------------------------------------
(* storage_load *)

LoadCheck(t) ==
    /\ pc[t] = "use" /\ phase[t] = "access" /\ call[t].op = "GET"
    /\ Goto(t, IF record[ptr[t]].offset = 0 THEN "delete" ELSE "read")
    /\ UNCHANGED <<tables, files, guards, phase, call, ptr, ret, budget>>

Read(t) ==
    /\ pc[t] = "read"
    /\ cacheLock = NoThread
    /\ Returns(t, cache[record[ptr[t]].offset])
    /\ Enter(t, "unlock")
    /\ UNCHANGED <<tables, files, guards, call, ptr, budget>>

-----------------------------------------------------------------------------
(* storage_store *)

Refuse(t) ==
    /\ pc[t] = "search" /\ Refused(t)
    /\ Returns(t, Fail)
    /\ Enter(t, "unlock")
    /\ UNCHANGED <<tables, files, guards, call, ptr, budget>>

StoreCheck(t) ==
    /\ pc[t] = "use" /\ phase[t] = "access" /\ call[t].op = "SET"
    /\ Goto(t, IF record[ptr[t]].offset = 0 THEN "cache_lock" ELSE "stream_lock")
    /\ UNCHANGED <<tables, files, guards, phase, call, ptr, ret, budget>>

(* A new key: its slot is added at the end of the file, and the file read  *)
(* into memory again, all with lock_buffer_cache held.                     *)
LockCache(t) ==
    /\ pc[t] = "cache_lock"
    /\ cacheLock = NoThread
    /\ cacheLock' = t
    /\ Goto(t, "append")
    /\ UNCHANGED <<tables, files, mutex, phase, call, ptr, ret, budget>>

(* Mutant: the offset of the new slot is not kept in the record. *)
AddRecordUnset(t) ==
    /\ pc[t] = "append"
    /\ mutex = NoThread
    /\ disk' = Append(disk, [key |-> Key(t), val |-> call[t].val])
    /\ Goto(t, "free")
    /\ UNCHANGED <<index, record, cache, guards, phase, call, ptr, ret, budget>>

(* Mutant: the position is asked after the slot is written. *)
AddRecordAfter(t) ==
    /\ pc[t] = "append"
    /\ mutex = NoThread
    /\ disk' = Append(disk, [key |-> Key(t), val |-> call[t].val])
    /\ record' = [record EXCEPT ![ptr[t]].offset = Len(disk) + 2]
    /\ Goto(t, "free")
    /\ UNCHANGED <<index, cache, guards, phase, call, ptr, ret, budget>>

AddRecord(t) ==
    /\ pc[t] = "append"
    /\ mutex = NoThread
    /\ disk' = Append(disk, [key |-> Key(t), val |-> call[t].val])
    /\ record' = [record EXCEPT ![ptr[t]].offset = Len(disk) + 1]
    /\ Goto(t, "free")
    /\ UNCHANGED <<index, cache, guards, phase, call, ptr, ret, budget>>

(* The copy is freed before mutex_seek_stream is taken. *)
FreeCache(t) ==
    /\ pc[t] = "free"
    /\ cache' = <<>>
    /\ Goto(t, "reload")
    /\ UNCHANGED <<tables, disk, guards, phase, call, ptr, ret, budget>>

UpdateBufferCache(t) ==
    /\ pc[t] = "reload"
    /\ mutex = NoThread
    /\ cache' = ValuesOf(disk)
    /\ cacheLock' = NoThread
    /\ Returns(t, Succ)
    /\ Enter(t, "unlock")
    /\ UNCHANGED <<tables, disk, mutex, call, ptr, budget>>

(* A known key: its slot is written in the file and then in the copy. *)
LockStream(t) ==
    /\ pc[t] = "stream_lock"
    /\ mutex = NoThread
    /\ mutex' = t
    /\ Goto(t, "write")
    /\ UNCHANGED <<tables, files, cacheLock, phase, call, ptr, ret, budget>>

(* Mutant: the file is not written. *)
WriteFileForgotten(t) ==
    /\ pc[t] = "write"
    /\ Goto(t, "write_cache")
    /\ UNCHANGED <<tables, files, guards, phase, call, ptr, ret, budget>>

WriteFile(t) ==
    /\ pc[t] = "write"
    /\ disk' = [disk EXCEPT ![record[ptr[t]].offset].val = call[t].val]
    /\ Goto(t, "write_cache")
    /\ UNCHANGED <<tables, cache, guards, phase, call, ptr, ret, budget>>

(* Mutant: the copy in memory is not written. *)
WriteCacheForgotten(t) ==
    /\ pc[t] = "write_cache"
    /\ mutex' = NoThread
    /\ Returns(t, Succ)
    /\ Enter(t, "unlock")
    /\ UNCHANGED <<tables, files, cacheLock, call, ptr, budget>>

WriteCache(t) ==
    /\ pc[t] = "write_cache"
    /\ cache' = IF cache = <<>> THEN cache
                ELSE [cache EXCEPT ![record[ptr[t]].offset] = call[t].val]
    /\ mutex' = NoThread
    /\ Returns(t, Succ)
    /\ Enter(t, "unlock")
    /\ UNCHANGED <<tables, disk, cacheLock, call, ptr, budget>>

-----------------------------------------------------------------------------
Done(t) ==
    /\ pc[t] = "done"
    /\ Goto(t, "idle")
    /\ phase' = [phase EXCEPT ![t] = "lock"]
    /\ call' = [call EXCEPT ![t] = NoCall]
    /\ ptr' = [ptr EXCEPT ![t] = 0]
    /\ ret' = [ret EXCEPT ![t] = Fail]
    /\ UNCHANGED <<tables, files, guards, budget>>

(* The process dies and is started again: storage_init on the file. *)
Crash ==
    /\ \E t \in Threads : Busy(t)
    /\ cache' = ValuesOf(disk)
    /\ index' \in {f \in [Keys -> {0} \cup DOMAIN disk] : Loads(disk, f)}
    /\ record' = Table(disk)
    /\ mutex' = NoThread /\ cacheLock' = NoThread
    /\ pc' = [t \in Threads |-> "idle"]
    /\ phase' = [t \in Threads |-> "lock"]
    /\ call' = [t \in Threads |-> NoCall]
    /\ ptr' = [t \in Threads |-> 0]
    /\ ret' = [t \in Threads |-> Fail]
    /\ UNCHANGED <<disk, budget>>

Step(t) ==
    \/ Begin(t) \/ Search(t) \/ Create(t) \/ Delete(t) \/ Lock(t) \/ Unlock(t)
    \/ LoadCheck(t) \/ Read(t) \/ Refuse(t) \/ StoreCheck(t) \/ LockCache(t)
    \/ AddRecord(t) \/ FreeCache(t) \/ UpdateBufferCache(t) \/ LockStream(t)
    \/ WriteFile(t) \/ WriteCache(t) \/ Done(t)

Quiet == budget = 0 /\ (\A t \in Threads : ~Busy(t)) /\ UNCHANGED vars

Next == (\E t \in Threads : Step(t)) \/ Crash \/ Quiet

Spec == Init /\ [][Next]_vars

-----------------------------------------------------------------------------
Labels == {"idle", "search", "create", "use", "delete", "read", "cache_lock", "append", "free",
           "reload", "stream_lock", "write", "write_cache", "done"}

(* Types; every record that a key or a handler has points into the file.   *)
TypeOK ==
    /\ disk \in Seq([key : Keys, val : Values])
    /\ cache \in Seq(Values)
    /\ index \in [Keys -> {0} \cup Records]
    /\ record \in [Records -> [offset : 0 .. Len(disk), writer : Threads \cup {NoThread},
                               readers : SUBSET Threads]]
    /\ {mutex, cacheLock} \subseteq Threads \cup {NoThread}
    /\ pc \in [Threads -> Labels]
    /\ phase \in [Threads -> {"lock", "access", "unlock"}]
    /\ ptr \in [Threads -> {0} \cup Records]
    /\ ret \in [Threads -> Values \cup {Fail, Succ}]

(* t is between the return of its lock and its unlock. *)
Inside(t) == phase[t] \in {"access", "unlock"} /\ pc[t] # "done"

(* The lock of a key excludes, although every call looks the record up     *)
(* again: two handlers are on one key only to load it both.                *)
KeysExclude ==
    \A t, u \in Threads : t # u /\ Inside(t) /\ Inside(u) /\ Key(t) = Key(u) =>
        call[t].op = "GET" /\ call[u].op = "GET"

(* A store that succeeds can be found: the index leads to a slot of the    *)
(* key with the value, and the next load or a restart finds it there.      *)
StoredIsFound ==
    \A t \in Threads : Inside(t) /\ phase[t] = "unlock" /\ ret[t] = Succ =>
        /\ Known(Key(t))
        /\ disk[record[index[Key(t)]].offset] = [key |-> Key(t), val |-> call[t].val]

(* No key has two slots, of which a restart would find either.             *)
OneSlotPerKey == \A k \in Keys : Cardinality(Slots(k)) <= 1

=============================================================================
