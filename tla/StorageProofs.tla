--------------------------- MODULE StorageProofs ---------------------------
(***************************************************************************)
(* Proofs about the modules Storage and StorageProperties for any number   *)
(* of handlers, keys, values and calls: the lock of a key excludes, what   *)
(* is stored is found, and the storage implements the map of KeyValue.     *)
(***************************************************************************)
EXTENDS StorageProperties, FiniteSetTheorems, TLAPS

(* Nobody asks for a key that was never stored while others are at work:   *)
(* because the handlers keep to it, or because all keys are in the file.   *)
Undisturbed == ~Racing \/ \A k \in Keys : \E i \in DOMAIN InFile : InFile[i] = k

Procedures == [op : {"GET", "SET"}, key : Keys, val : Values \cup {TooLong}, drops : BOOLEAN]

(* The labels between the check of the offset and the answer of a store,   *)
(* and those at which the search is over.                                  *)
Storing  == {"cache_lock", "append", "free", "reload", "stream_lock", "write", "write_cache"}
Pointing == {"use", "delete", "read"} \cup Storing

(* The slot of a key. *)
SlotOf(k) == record[index[k]].offset

(* Where handler t can be with its call. *)
Control(t) ==
    /\ pc[t] = "idle" => phase[t] = "lock" /\ call[t] = NoCall /\ ptr[t] = 0
    /\ pc[t] # "idle" => call[t] \in Procedures /\ (call[t].op = "GET" => call[t].val = TooLong)
    /\ pc[t] = "delete" =>
         call[t].drops /\ (phase[t] = "unlock" \/ (phase[t] = "access" /\ call[t].op = "GET"))
    /\ pc[t] = "read" => phase[t] = "access" /\ call[t].op = "GET"
    /\ pc[t] \in Storing => phase[t] = "access" /\ call[t].op = "SET"
    /\ pc[t] \in {"create", "use"} \cup Storing /\ phase[t] = "access" /\ call[t].op = "SET" =>
         call[t].val # TooLong
    /\ pc[t] = "done" => phase[t] = "unlock"
    /\ phase[t] # "unlock" => ret[t] = Fail
    /\ phase[t] = "unlock" /\ ret[t] = Succ => call[t].op = "SET" /\ call[t].val # TooLong

(* A call that drops its record is alone, and its key stays without value. *)
Alone(t) ==
    call[t].drops =>
        /\ call[t].val = TooLong /\ ~Known(Key(t))
        /\ \A u \in Threads : u # t => pc[u] = "idle"

(* Any other call has the record of its key for itself or for loads. *)
Holds(t) ==
    pc[t] # "idle" /\ ~call[t].drops =>
        /\ Known(Key(t)) \/ call[t].val # TooLong
        /\ Inside(t) =>
             /\ index[Key(t)] # 0
             /\ call[t].op = "GET" => t \in record[index[Key(t)]].readers
             /\ call[t].op = "SET" => record[index[Key(t)]].writer = t

Points(t) ==
    pc[t] \in Pointing => index[Key(t)] # 0 /\ ptr[t] = index[Key(t)]

(* What t has found of its slot, and what it has stored there. *)
Finds(t) ==
    /\ pc[t] \in {"cache_lock", "append"} => ~Known(Key(t))
    /\ pc[t] \in {"read", "stream_lock", "write"} => Known(Key(t))
    /\ Inside(t) /\ phase[t] = "unlock" /\ ~call[t].drops => Known(Key(t))
    /\ pc[t] \in {"free", "reload", "write_cache"} \/ (Inside(t) /\ phase[t] = "unlock" /\ ret[t] = Succ) =>
         Known(Key(t)) /\ disk[SlotOf(Key(t))] = [key |-> Key(t), val |-> call[t].val]

HandlerInv(t) == Control(t) /\ Alone(t) /\ Holds(t) /\ Points(t) /\ Finds(t)

(* Each key has its own record, each slot the record that points to it.    *)
Tables ==
    /\ \A k, l \in Keys : k # l /\ index[k] # 0 => index[k] # index[l]
    /\ \A k \in Keys : Known(k) => SlotOf(k) \in 1 .. Len(disk) /\ disk[SlotOf(k)].key = k
    /\ \A i \in 1 .. Len(disk) : index[disk[i].key] # 0 /\ SlotOf(disk[i].key) = i
    /\ \A k \in Keys : index[k] # 0 /\ record[index[k]].writer # NoThread => record[index[k]].readers = {}

(* Who holds mutex_seek_stream and lock_buffer_cache. *)
Guards(t) ==
    /\ mutex = t <=> pc[t] \in {"write", "write_cache"}
    /\ cacheLock = t <=> pc[t] \in {"append", "free", "reload"}
Guarded == \A t \in Threads : Guards(t)

(* The copy has the slots of the file, but those of a store under way.     *)
Copied ==
    /\ (\A t \in Threads : pc[t] \notin {"free", "reload"}) => Len(cache) = Len(disk)
    /\ \A t \in Threads : pc[t] = "free" => Len(cache) < Len(disk)
    /\ \A t \in Threads : pc[t] = "reload" => cache = <<>>
    /\ \A i \in 1 .. Len(cache) :
         cache[i] = disk[i].val \/ \E t \in Threads : pc[t] = "write_cache" /\ record[ptr[t]].offset = i

AllKnown == (\A k \in Keys : \E i \in DOMAIN InFile : InFile[i] = k) => \A k \in Keys : Known(k)

SInv ==
    /\ TypeOK /\ call \in [Threads -> Procedures \cup {NoCall}]
    /\ \A t \in Threads : HandlerInv(t)
    /\ Tables /\ Guarded /\ Copied /\ AllKnown

-----------------------------------------------------------------------------
(* Sets of slots and records *)

SlotSet == [key : Keys, val : Values]

OneSlotEach(d) == \A i, j \in 1 .. Len(d) : d[i].key = d[j].key => i = j

(* A file with one slot per key has no more slots than there are records. *)
LEMMA DiskFits ==
    ASSUME NEW d \in Seq(SlotSet), OneSlotEach(d)
    PROVE  1 .. Len(d) \subseteq Records
<1> DEFINE f == [i \in 1 .. Len(d) |-> d[i].key]
<1>1. Len(d) \in Nat /\ \A i \in 1 .. Len(d) : d[i].key \in Keys
  <2>1. \A i \in 1 .. Len(d) : d[i] \in SlotSet
    OBVIOUS
  <2> QED
    BY <2>1 DEF SlotSet
<1>2. f \in Injection(1 .. Len(d), Keys)
  BY <1>1 DEF OneSlotEach, Injection, IsInjective
<1>3. Cardinality(1 .. Len(d)) <= Cardinality(Keys)
  BY <1>2, FS_Injection, RecordAssumption
<1>4. Cardinality(1 .. Len(d)) = Len(d)
  BY <1>1, FS_Interval
<1>5. Cardinality(Keys) \in Nat /\ Cardinality(Threads) \in Nat /\ Cardinality(Records) \in Nat
  BY RecordAssumption, FS_CardinalityType
<1>6. Len(d) <= Cardinality(Records)
  BY <1>1, <1>3, <1>4, <1>5, RecordAssumption
<1>7. 1 .. Len(d) \subseteq 1 .. Cardinality(Records)
  BY <1>1, <1>5, <1>6
<1> QED
  BY <1>7, RecordAssumption

LEMMA RecordNumbers == Records \subseteq Nat \ {0}
<1>1. Cardinality(Records) \in Nat
  BY RecordAssumption, FS_CardinalityType
<1>2. 1 .. Cardinality(Records) \subseteq Nat \ {0}
  BY <1>1
<1> QED
  BY <1>2, RecordAssumption

(* There is always a record for one more key. *)
LEMMA FreshIsNew ==
    ASSUME TypeOK, NEW k \in Keys, index[k] = 0
    PROVE  /\ Fresh \in Records
           /\ \A l \in Keys : index[l] # Fresh
           /\ \A u \in Threads : ptr[u] # Fresh
<1> DEFINE A == {index[l] : l \in Keys}
           B == {ptr[u] : u \in Threads}
<1>1. index \in Surjection(Keys, A) /\ ptr \in Surjection(Threads, B)
  BY DEF TypeOK, Surjection
<1>2. /\ IsFiniteSet(A) /\ Cardinality(A) <= Cardinality(Keys)
      /\ IsFiniteSet(B) /\ Cardinality(B) <= Cardinality(Threads)
  BY <1>1, FS_Surjection, RecordAssumption
<1>3. /\ Cardinality(A) \in Nat /\ Cardinality(B) \in Nat /\ Cardinality(A \cap B) \in Nat
      /\ Cardinality(Keys) \in Nat /\ Cardinality(Threads) \in Nat /\ Cardinality(Records) \in Nat
  <2>1. IsFiniteSet(A \cap B)
    BY <1>2, FS_Intersection
  <2> QED
    BY <1>2, <2>1, FS_CardinalityType, RecordAssumption
<1>4. IsFiniteSet(A \cup B) /\ Cardinality(A \cup B) <= Cardinality(Keys) + Cardinality(Threads)
  <2>1. /\ IsFiniteSet(A \cup B)
        /\ Cardinality(A \cup B) = Cardinality(A) + Cardinality(B) - Cardinality(A \cap B)
    BY <1>2, FS_Union
  <2> HIDE DEF A, B
  <2> QED
    BY <1>2, <1>3, <2>1
<1>5. 0 \in A /\ 0 \notin Records
  BY RecordNumbers
<1>6. Free = Records \ (A \cup B)
  BY DEF Free
<1>7. Free # {}
  <2> SUFFICES ASSUME Free = {} PROVE FALSE
    OBVIOUS
  <2>1. Records \cup {0} \subseteq A \cup B
    BY <1>5, <1>6
  <2>2. Cardinality(Records \cup {0}) <= Cardinality(A \cup B)
    BY <1>4, <2>1, FS_Subset
  <2>3. Cardinality(Records \cup {0}) = Cardinality(Records) + 1
    BY <1>5, FS_AddElement, RecordAssumption
  <2>4. Cardinality(A \cup B) \in Nat
    BY <1>4, FS_CardinalityType
  <2> HIDE DEF A, B
  <2> QED
    BY <1>3, <1>4, <2>2, <2>3, <2>4, RecordAssumption
<1>8. Fresh \in Free
  BY <1>7 DEF Fresh
<1> QED
  BY <1>6, <1>8

-----------------------------------------------------------------------------
(* storage_init: a file with one slot per key is loaded, nobody at work    *)
Started ==
    /\ disk \in Seq(SlotSet) /\ OneSlotEach(disk)
    /\ (\A k \in Keys : \E i \in DOMAIN InFile : InFile[i] = k) =>
         \A k \in Keys : \E i \in 1 .. Len(disk) : disk[i].key = k
    /\ cache = ValuesOf(disk)
    /\ index \in {f \in [Keys -> {0} \cup DOMAIN disk] : Loads(disk, f)}
    /\ record = Table(disk)
    /\ mutex = NoThread /\ cacheLock = NoThread
    /\ pc = [t \in Threads |-> "idle"]
    /\ phase = [t \in Threads |-> "lock"]
    /\ call = [t \in Threads |-> NoCall]
    /\ ptr = [t \in Threads |-> 0]
    /\ ret = [t \in Threads |-> Fail]

LEMMA StartedSInv == Started => SInv
<1> SUFFICES ASSUME Started PROVE SInv
  OBVIOUS
<1>1. disk \in Seq(SlotSet) /\ OneSlotEach(disk)
  BY DEF Started
<1>2. /\ Len(disk) \in Nat /\ DOMAIN disk = 1 .. Len(disk)
      /\ \A i \in 1 .. Len(disk) : disk[i] \in SlotSet /\ disk[i].key \in Keys /\ disk[i].val \in Values
  <2>1. \A i \in 1 .. Len(disk) : disk[i] \in SlotSet
    BY <1>1
  <2> QED
    BY <1>1, <2>1 DEF SlotSet
<1>3. 1 .. Len(disk) \subseteq Records
  BY <1>1, DiskFits
<1>4. /\ cache \in Seq(Values) /\ Len(cache) = Len(disk)
      /\ \A i \in 1 .. Len(disk) : cache[i] = disk[i].val
  <2>1. cache = [i \in 1 .. Len(disk) |-> disk[i].val]
    BY <1>2 DEF Started, ValuesOf
  <2> QED
    BY <1>2, <2>1
<1>5. /\ index \in [Keys -> {0} \cup 1 .. Len(disk)]
      /\ \A k \in Keys : index[k] # 0 => disk[index[k]].key = k
      /\ \A i \in 1 .. Len(disk) : index[disk[i].key] = i
  <2>1. index \in [Keys -> {0} \cup 1 .. Len(disk)] /\ Loads(disk, index)
    BY <1>2 DEF Started
  <2>2. \A k \in Keys : index[k] # 0 => disk[index[k]].key = k
    BY <1>2, <2>1 DEF Loads
  <2>3. ASSUME NEW i \in 1 .. Len(disk) PROVE index[disk[i].key] = i
    <3>1. disk[i].key \in Keys
      BY <1>2
    <3>2. PICK j \in 1 .. Len(disk) : disk[j].key = disk[i].key /\ index[disk[i].key] = j
      BY <1>2, <2>1, <3>1 DEF Loads
    <3> QED
      BY <1>1, <3>2 DEF OneSlotEach
  <2> QED
    BY <2>1, <2>2, <2>3
<1>6. /\ record \in [Records -> [offset : 0 .. Len(disk), writer : Threads \cup {NoThread},
                                  readers : SUBSET Threads]]
      /\ \A r \in Records : record[r] = NewRecord(IF r \in 1 .. Len(disk) THEN r ELSE 0)
  BY <1>2 DEF Started, Table, NewRecord
<1>7. \A i \in 1 .. Len(disk) : record[i].offset = i /\ record[i].writer = NoThread
  BY <1>3, <1>6 DEF NewRecord
<1>8. /\ mutex = NoThread /\ cacheLock = NoThread
      /\ \A t \in Threads : pc[t] = "idle" /\ phase[t] = "lock" /\ call[t] = NoCall /\ ptr[t] = 0 /\ ret[t] = Fail
  BY DEF Started
<1>9. TypeOK
  <2>1. index \in [Keys -> {0} \cup Records]
    BY <1>3, <1>5
  <2>2. pc \in [Threads -> Labels] /\ phase \in [Threads -> {"lock", "access", "unlock"}]
    BY DEF Started, Labels
  <2>3. ptr \in [Threads -> {0} \cup Records] /\ ret \in [Threads -> Values \cup {Fail, Succ}]
    BY DEF Started
  <2> QED
    BY <1>1, <1>4, <1>6, <1>8, <2>1, <2>2, <2>3 DEF TypeOK, SlotSet
<1>10. ASSUME NEW t \in Threads PROVE HandlerInv(t)
  <2>1. pc[t] = "idle" /\ phase[t] = "lock" /\ call[t] = NoCall /\ ptr[t] = 0 /\ ret[t] = Fail
    BY <1>8
  <2>2. Control(t)
    BY <2>1 DEF Control, Storing
  <2>3. Alone(t)
    <3>1. ~NoCall.drops
      BY DEF NoCall
    <3> QED
      BY <2>1, <3>1 DEF Alone
  <2>4. Holds(t) /\ Points(t) /\ Finds(t)
    BY <2>1 DEF Holds, Points, Finds, Inside, Storing, Pointing
  <2> QED
    BY <2>2, <2>3, <2>4 DEF HandlerInv
<1>11. Tables
  <2>1. \A k \in Keys : index[k] # 0 => SlotOf(k) = index[k] /\ index[k] \in 1 .. Len(disk)
    BY <1>5, <1>7 DEF SlotOf
  <2>2. \A k, l \in Keys : k # l /\ index[k] # 0 => index[k] # index[l]
    BY <1>5
  <2>3. \A k \in Keys : Known(k) => SlotOf(k) \in 1 .. Len(disk) /\ disk[SlotOf(k)].key = k
    BY <1>5, <2>1 DEF Known
  <2>4. \A i \in 1 .. Len(disk) : index[disk[i].key] # 0 /\ SlotOf(disk[i].key) = i
    BY <1>2, <1>5, <2>1
  <2>5. \A k \in Keys : index[k] # 0 => record[index[k]].writer = NoThread
    BY <1>5, <1>7
  <2> QED
    BY <2>2, <2>3, <2>4, <2>5 DEF Tables
<1>12. Guarded
  BY <1>8, AnswerAssumption DEF Guarded, Guards
<1>13. Copied
  BY <1>4, <1>8 DEF Copied
<1>14. AllKnown
  <2> SUFFICES ASSUME \A k \in Keys : \E i \in DOMAIN InFile : InFile[i] = k, NEW k \in Keys
               PROVE  Known(k)
    BY DEF AllKnown
  <2>1. PICK i \in 1 .. Len(disk) : disk[i].key = k
    BY DEF Started
  <2> QED
    BY <1>2, <1>5, <1>7, <2>1 DEF Known
<1> QED
  BY <1>9, <1>10, <1>11, <1>12, <1>13, <1>14 DEF SInv, Started

LEMMA InitStarted == Init => Started
<1> SUFFICES ASSUME Init PROVE Started
  OBVIOUS
<1>1. PICK v \in Values : disk = [i \in DOMAIN InFile |-> [key |-> InFile[i], val |-> v]]
  BY DEF Init
<1>2. InFile \in Seq(Keys) /\ Len(InFile) \in Nat /\ DOMAIN InFile = 1 .. Len(InFile)
  BY FileAssumption
<1>3. \A i \in 1 .. Len(InFile) : InFile[i] \in Keys
  BY <1>2
<1>4. disk \in Seq(SlotSet) /\ Len(disk) = Len(InFile)
      /\ \A i \in 1 .. Len(InFile) : disk[i].key = InFile[i]
  <2>1. disk = [i \in 1 .. Len(InFile) |-> [key |-> InFile[i], val |-> v]]
    BY <1>1, <1>2
  <2>2. \A i \in 1 .. Len(InFile) : [key |-> InFile[i], val |-> v] \in SlotSet
    BY <1>3 DEF SlotSet
  <2> QED
    BY <1>2, <2>1, <2>2
<1>5. OneSlotEach(disk)
  BY <1>2, <1>4, FileAssumption DEF OneSlotEach
<1> QED
  BY <1>2, <1>4, <1>5 DEF Init, Started

(* A restart finds one slot per key in the file, whatever the moment. *)
LEMMA CrashSInv ==
    ASSUME SInv, Crash
    PROVE  SInv'
<1>1. disk' = disk /\ disk \in Seq(SlotSet)
  BY DEF Crash, SInv, TypeOK, SlotSet
<1>2. OneSlotEach(disk)
  BY DEF SInv, Tables, OneSlotEach
<1>3. ASSUME \A k \in Keys : \E i \in DOMAIN InFile : InFile[i] = k, NEW k \in Keys
      PROVE  \E i \in 1 .. Len(disk) : disk[i].key = k
  <2>1. Known(k)
    BY <1>3 DEF SInv, AllKnown
  <2> QED
    BY <2>1 DEF SInv, Tables
<1>4. Started'
  BY <1>1, <1>2, <1>3 DEF Crash, Started, OneSlotEach
<1> QED
  BY <1>4, StartedSInv, PTL

-----------------------------------------------------------------------------
(* What a step of t leaves to the other handlers *)

OnlyOf(t) ==
    \A u \in Threads : u # t =>
        /\ pc'[u] = pc[u] /\ phase'[u] = phase[u] /\ call'[u] = call[u]
        /\ ptr'[u] = ptr[u] /\ ret'[u] = ret[u]

LEMMA StepOnlyOf ==
    ASSUME SInv, NEW t \in Threads, Step(t)
    PROVE  OnlyOf(t)
<1> USE DEF OnlyOf, Goto, Enter, Returns
<1>0. DOMAIN pc = Threads /\ DOMAIN phase = Threads /\ DOMAIN call = Threads
      /\ DOMAIN ptr = Threads /\ DOMAIN ret = Threads
  BY DEF SInv, TypeOK
<1>1. CASE Begin(t) \/ Search(t) \/ Create(t) \/ Lock(t) \/ LoadCheck(t)
  BY <1>0, <1>1 DEF Begin, Search, Create, Lock, LoadCheck
<1>2. CASE Delete(t)
  BY <1>0, <1>2 DEF Delete
<1>3. CASE Unlock(t)
  BY <1>0, <1>3 DEF Unlock
<1>4. CASE Read(t) \/ Refuse(t) \/ StoreCheck(t) \/ LockCache(t) \/ AddRecord(t)
  BY <1>0, <1>4 DEF Read, Refuse, StoreCheck, LockCache, AddRecord
<1>5. CASE FreeCache(t) \/ UpdateBufferCache(t) \/ LockStream(t) \/ WriteFile(t) \/ WriteCache(t) \/ Done(t)
  BY <1>0, <1>5 DEF FreeCache, UpdateBufferCache, LockStream, WriteFile, WriteCache, Done
<1> QED
  BY <1>1, <1>2, <1>3, <1>4, <1>5 DEF Step

(* The record of the key of u, while u relies on it. *)
KeptFor(u) ==
    /\ index[Key(u)] # 0 => index'[Key(u)] = index[Key(u)]
    /\ Known(Key(u)) => record'[index[Key(u)]].offset # 0
    /\ Inside(u) =>
         /\ record'[index[Key(u)]].offset = record[index[Key(u)]].offset
         /\ u \in record[index[Key(u)]].readers => u \in record'[index[Key(u)]].readers
         /\ record[index[Key(u)]].writer = u => record'[index[Key(u)]].writer = u
         /\ Known(Key(u)) => disk'[SlotOf(Key(u))] = disk[SlotOf(Key(u))]

LEMMA Frame ==
    ASSUME NEW u \in Threads, HandlerInv(u), ~call[u].drops,
           pc'[u] = pc[u], phase'[u] = phase[u], call'[u] = call[u],
           ptr'[u] = ptr[u], ret'[u] = ret[u],
           pc[u] # "idle" => KeptFor(u)
    PROVE  HandlerInv(u)'
<1>1. Control(u)'
  BY DEF HandlerInv, Control
<1>2. Alone(u)'
  BY DEF Alone
<1>3. CASE pc[u] = "idle"
  <2>1. phase[u] = "lock"
    BY <1>3 DEF HandlerInv, Control
  <2> QED
    BY <1>1, <1>2, <1>3, <2>1 DEF HandlerInv, Holds, Points, Finds, Inside, Pointing, Storing
<1>4. CASE pc[u] # "idle"
  <2>1. KeptFor(u) /\ Inside(u)' = Inside(u) /\ Key(u)' = Key(u)
    BY <1>4 DEF Inside, Key
  <2>2. Known(Key(u)) => Known(Key(u))'
    BY <2>1 DEF Known, KeptFor
  <2>3. Holds(u)'
    BY <1>4, <2>1, <2>2 DEF HandlerInv, Holds, KeptFor
  <2>4. Points(u)'
    BY <2>1 DEF HandlerInv, Points, KeptFor
  <2>5. Inside(u) => /\ Known(Key(u))' <=> Known(Key(u))
                     /\ SlotOf(Key(u))' = SlotOf(Key(u))
                     /\ Known(Key(u)) => disk'[SlotOf(Key(u))] = disk[SlotOf(Key(u))]
    BY <1>4, <2>1 DEF HandlerInv, Holds, KeptFor, Known, SlotOf
  <2>6. pc[u] \in Storing \cup {"read"} => Inside(u)
    BY DEF HandlerInv, Control, Inside, Storing
  <2>7. Finds(u)'
    BY <2>1, <2>5, <2>6 DEF HandlerInv, Finds, Storing
  <2> QED
    BY <1>1, <1>2, <2>3, <2>4, <2>7 DEF HandlerInv
<1> QED
  BY <1>3, <1>4

(* A handler at work is not beside a call that drops its record. *)
LEMMA Others ==
    ASSUME SInv, NEW t \in Threads, pc[t] # "idle", OnlyOf(t),
           \A u \in Threads : u # t /\ pc[u] # "idle" => KeptFor(u)
    PROVE  \A u \in Threads : u # t => HandlerInv(u)'
<1> SUFFICES ASSUME NEW u \in Threads, u # t PROVE HandlerInv(u)'
  OBVIOUS
<1>1. HandlerInv(u) /\ ~call[u].drops
  BY DEF SInv, HandlerInv, Alone
<1> QED
  BY <1>1, Frame DEF OnlyOf

(* The lock of a key excludes. *)
LEMMA Exclusive ==
    ASSUME SInv, NEW t \in Threads, NEW u \in Threads, t # u,
           Inside(t), Inside(u), Key(t) = Key(u)
    PROVE  call[t].op = "GET" /\ call[u].op = "GET"
<1>1. HandlerInv(t) /\ HandlerInv(u) /\ Tables
  BY DEF SInv
<1>2. pc[t] # "idle" /\ pc[u] # "idle"
  BY <1>1 DEF HandlerInv, Control, Inside
<1>3. ~call[t].drops /\ ~call[u].drops
  BY <1>1, <1>2 DEF HandlerInv, Alone
<1>4. call[t].op \in {"GET", "SET"} /\ call[u].op \in {"GET", "SET"} /\ Key(t) \in Keys
  BY <1>1, <1>2 DEF HandlerInv, Control, Procedures, Key
<1>5. /\ index[Key(t)] # 0
      /\ call[t].op = "GET" => t \in record[index[Key(t)]].readers
      /\ call[t].op = "SET" => record[index[Key(t)]].writer = t
      /\ call[u].op = "GET" => u \in record[index[Key(t)]].readers
      /\ call[u].op = "SET" => record[index[Key(t)]].writer = u
  BY <1>1, <1>2, <1>3 DEF HandlerInv, Holds
<1>6. record[index[Key(t)]].writer # NoThread => record[index[Key(t)]].readers = {}
  BY <1>1, <1>4, <1>5 DEF Tables
<1> QED
  BY <1>4, <1>5, <1>6, AnswerAssumption

(* The step is at the record and the slot of its own key. *)
LEMMA AtOwn ==
    ASSUME SInv, NEW t \in Threads, pc[t] # "idle"
    PROVE  /\ Key(t) \in Keys /\ call[t] \in Procedures
           /\ pc[t] \in Pointing =>
                /\ ptr[t] = index[Key(t)] /\ ptr[t] \in Records /\ index[Key(t)] # 0
                /\ Known(Key(t)) <=> record[ptr[t]].offset # 0
                /\ SlotOf(Key(t)) = record[ptr[t]].offset
                /\ \A k \in Keys : k # Key(t) => index[k] # ptr[t]
<1>1. HandlerInv(t) /\ TypeOK /\ Tables
  BY DEF SInv
<1>2. Key(t) \in Keys /\ call[t] \in Procedures
  BY <1>1 DEF HandlerInv, Control, Key, Procedures
<1> QED
  BY <1>1, <1>2 DEF HandlerInv, Points, Tables, TypeOK, Known, SlotOf

LEMMA Unshared ==
    ASSUME SInv, NEW t \in Threads, pc[t] # "idle", NEW u \in Threads, u # t
    PROVE  ~call[u].drops
BY DEF SInv, HandlerInv, Alone

(* Taking and giving back a lock *)
LocksKept(r, u) ==
    /\ record'[r].offset = record[r].offset
    /\ u \in record[r].readers => u \in record'[r].readers
    /\ record[r].writer = u => record'[r].writer = u

LEMMA LockWrites ==
    ASSUME SInv, NEW t \in Threads, Lock(t) \/ Unlock(t), NEW r \in Records
    PROVE  /\ \A u \in Threads : u # t => LocksKept(r, u)
           /\ record'[r].offset = record[r].offset
           /\ r # ptr[t] => record'[r] = record[r]
<1>1. pc[t] = "use" /\ TypeOK
  BY DEF Lock, Unlock, SInv
<1>2. ptr[t] \in Records
  BY <1>1, AtOwn DEF Pointing
<1>3. CASE Lock(t)
  <2>1. record[ptr[t]].writer = NoThread
    BY <1>3 DEF Lock
  <2>2. CASE record' = [record EXCEPT ![ptr[t]].readers = @ \cup {t}]
    BY <1>1, <1>2, <2>2 DEF TypeOK, LocksKept
  <2>3. CASE record' = [record EXCEPT ![ptr[t]].writer = t]
    BY <1>1, <1>2, <2>1, <2>3, AnswerAssumption DEF TypeOK, LocksKept
  <2> QED
    BY <1>3, <2>2, <2>3 DEF Lock
<1>4. CASE Unlock(t)
  <2>1. CASE record' = record
    BY <2>1 DEF LocksKept
  <2>2. CASE record' = [record EXCEPT ![ptr[t]].writer = IF @ = t THEN NoThread ELSE @,
                                      ![ptr[t]].readers = @ \ {t}]
    <3>1. /\ record'[ptr[t]].offset = record[ptr[t]].offset
          /\ record'[ptr[t]].writer = IF record[ptr[t]].writer = t THEN NoThread ELSE record[ptr[t]].writer
          /\ record'[ptr[t]].readers = record[ptr[t]].readers \ {t}
      BY <1>1, <1>2, <2>2 DEF TypeOK
    <3>2. r # ptr[t] => record'[r] = record[r]
      BY <1>1, <1>2, <2>2 DEF TypeOK
    <3> QED
      BY <3>1, <3>2 DEF LocksKept
  <2> QED
    BY <1>4, <2>1, <2>2 DEF Unlock
<1> QED
  BY <1>3, <1>4

(* The actions that write the index, a record or the file *)
LEMMA StepWrites ==
    ASSUME NEW t \in Threads, Step(t)
    PROVE  \/ UNCHANGED <<tables, disk>> \/ (Create(t) /\ index[Key(t)] = 0)
           \/ Delete(t) \/ Lock(t) \/ Unlock(t) \/ AddRecord(t) \/ WriteFile(t)
<1> USE DEF files
<1>1. CASE Search(t) \/ LoadCheck(t) \/ Read(t) \/ Refuse(t) \/ StoreCheck(t) \/ LockCache(t)
  BY <1>1 DEF Search, LoadCheck, Read, Refuse, StoreCheck, LockCache
<1>2. CASE FreeCache(t) \/ UpdateBufferCache(t) \/ LockStream(t) \/ WriteCache(t) \/ Done(t) \/ Begin(t)
  BY <1>2 DEF FreeCache, UpdateBufferCache, LockStream, WriteCache, Done, Begin
<1>3. CASE Create(t)
  BY <1>3 DEF Create
<1> QED
  BY <1>1, <1>2, <1>3 DEF Step

LEMMA StepKeeps ==
    ASSUME SInv, NEW t \in Threads, pc[t] # "idle", Step(t),
           NEW u \in Threads, u # t, pc[u] # "idle"
    PROVE  KeptFor(u)
<1>1. Key(u) \in Keys /\ Key(t) \in Keys /\ TypeOK /\ HandlerInv(t) /\ HandlerInv(u) /\ Tables
  BY AtOwn DEF SInv
<1>2. CASE UNCHANGED <<tables, disk>>
  BY <1>2 DEF KeptFor, tables, Known
<1>3. ASSUME Create(t), index[Key(t)] = 0 PROVE KeptFor(u)
  <2>1. Fresh \in Records /\ \A l \in Keys : index[l] # Fresh
    BY <1>1, <1>3, FreshIsNew
  <2>2. index' = [index EXCEPT ![Key(t)] = Fresh] /\ record' = [record EXCEPT ![Fresh] = NewRecord(0)]
        /\ disk' = disk
    BY <1>3 DEF Create, files
  <2>3. index[Key(u)] # 0 => index'[Key(u)] = index[Key(u)] /\ record'[index[Key(u)]] = record[index[Key(u)]]
    BY <1>1, <1>3, <2>1, <2>2 DEF TypeOK
  <2>4. Inside(u) => index[Key(u)] # 0
    BY <1>1, Unshared DEF HandlerInv, Holds
  <2> QED
    BY <2>2, <2>3, <2>4 DEF KeptFor, Known
<1>4. CASE Delete(t)
  BY <1>1, <1>4 DEF Delete, HandlerInv, Control, Alone
<1>5. CASE Lock(t) \/ Unlock(t)
  <2>1. index' = index /\ disk' = disk
    BY <1>5 DEF Lock, Unlock, files
  <2>2. ASSUME NEW k \in Keys, index[k] # 0
        PROVE  LocksKept(index[k], u)
    BY <1>1, <1>5, <2>2, LockWrites DEF TypeOK
  <2>3. Inside(u) => index[Key(u)] # 0
    BY <1>1, Unshared DEF HandlerInv, Holds
  <2> QED
    BY <1>1, <2>1, <2>2, <2>3 DEF KeptFor, Known, LocksKept
<1>6. CASE AddRecord(t)
  <2>1. /\ index' = index /\ pc[t] = "append"
        /\ disk' = Append(disk, [key |-> Key(t), val |-> call[t].val])
        /\ record' = [record EXCEPT ![ptr[t]].offset = Len(disk) + 1]
    BY <1>6 DEF AddRecord
  <2>2. ptr[t] = index[Key(t)] /\ ptr[t] \in Records /\ \A k \in Keys : k # Key(t) => index[k] # ptr[t]
    BY <2>1, AtOwn DEF Pointing, Storing
  <2>3. Len(disk) \in Nat /\ disk \in Seq(SlotSet)
    BY <1>1 DEF TypeOK, SlotSet
  <2>4. Known(Key(u)) => record'[index[Key(u)]].offset # 0
    <3>1. Len(disk) + 1 # 0
      BY <2>3
    <3> HIDE <2>3
    <3> QED
      BY <1>1, <2>1, <2>2, <3>1 DEF TypeOK, Known
  <2>5. ASSUME Inside(u)
        PROVE  /\ record'[index[Key(u)]] = record[index[Key(u)]]
               /\ Known(Key(u)) => disk'[SlotOf(Key(u))] = disk[SlotOf(Key(u))]
    <3>1. Key(u) # Key(t)
      <4>1. Inside(t) /\ call[t].op = "SET"
        BY <1>1, <2>1 DEF HandlerInv, Control, Inside, Storing
      <4> QED
        BY <2>5, <4>1, Exclusive
    <3>2. index[Key(u)] # ptr[t] /\ index[Key(u)] \in Records
      BY <1>1, <2>2, <2>5, <3>1, Unshared DEF HandlerInv, Holds, TypeOK
    <3>3. record'[index[Key(u)]] = record[index[Key(u)]]
      BY <1>1, <2>1, <3>2 DEF TypeOK
    <3>4. Known(Key(u)) => SlotOf(Key(u)) \in 1 .. Len(disk)
      BY <1>1 DEF Tables
    <3> QED
      BY <2>1, <2>3, <3>3, <3>4
  <2> QED
    BY <2>1, <2>4, <2>5 DEF KeptFor
<1>7. CASE WriteFile(t)
  <2>1. UNCHANGED tables /\ pc[t] = "write" /\ disk' = [disk EXCEPT ![record[ptr[t]].offset].val = call[t].val]
    BY <1>7 DEF WriteFile
  <2>2. record[ptr[t]].offset = SlotOf(Key(t)) /\ SlotOf(Key(t)) \in 1 .. Len(disk) /\ Known(Key(t))
    BY <1>1, <2>1, AtOwn DEF Pointing, Storing, HandlerInv, Finds, Tables
  <2>3. ASSUME Inside(u), Known(Key(u))
        PROVE  disk'[SlotOf(Key(u))] = disk[SlotOf(Key(u))]
    <3>1. Key(u) # Key(t)
      <4>1. Inside(t) /\ call[t].op = "SET"
        BY <1>1, <2>1 DEF HandlerInv, Control, Inside, Storing
      <4> QED
        BY <2>3, <4>1, Exclusive
    <3>2. SlotOf(Key(u)) \in 1 .. Len(disk) /\ disk[SlotOf(Key(u))].key = Key(u) /\ disk[SlotOf(Key(t))].key = Key(t)
      BY <1>1, <2>2, <2>3 DEF Tables
    <3> QED
      BY <1>1, <2>1, <2>2, <3>1, <3>2 DEF TypeOK
  <2> QED
    BY <2>1, <2>3 DEF KeptFor, tables, Known
<1> QED
  <2>1. UNCHANGED <<tables, disk>> \/ (Create(t) /\ index[Key(t)] = 0) \/ Delete(t) \/ Lock(t) \/ Unlock(t)
        \/ AddRecord(t) \/ WriteFile(t)
    BY StepWrites
  <2> QED
    BY <1>2, <1>3, <1>4, <1>5, <1>6, <1>7, <2>1

(* A load reads the slot of its key in the copy, where no store of the key *)
(* is under way and the copy is not being made anew.                       *)
LEMMA ReadsOwn ==
    ASSUME SInv, NEW t \in Threads, Read(t)
    PROVE  /\ record[ptr[t]].offset = SlotOf(Key(t)) /\ SlotOf(Key(t)) \in 1 .. Len(cache) /\ Known(Key(t))
           /\ cache[record[ptr[t]].offset] = disk[SlotOf(Key(t))].val
<1>1. pc[t] = "read" /\ cacheLock = NoThread /\ TypeOK /\ HandlerInv(t) /\ Tables /\ Guarded /\ Copied
  BY DEF Read, SInv
<1>2. Key(t) \in Keys /\ record[ptr[t]].offset = SlotOf(Key(t)) /\ Known(Key(t))
  BY <1>1, AtOwn DEF Pointing, HandlerInv, Finds
<1>3. Len(cache) = Len(disk)
  BY <1>1, AnswerAssumption DEF Guarded, Guards, Copied
<1>4. SlotOf(Key(t)) \in 1 .. Len(cache)
  BY <1>1, <1>2, <1>3 DEF Tables
<1>5. ASSUME NEW u \in Threads, pc[u] = "write_cache", record[ptr[u]].offset = SlotOf(Key(t))
      PROVE  FALSE
  <2>1. HandlerInv(u)
    BY DEF SInv
  <2>2. Key(u) \in Keys /\ SlotOf(Key(u)) = SlotOf(Key(t)) /\ Known(Key(u))
    BY <1>5, <2>1, AtOwn DEF Pointing, Storing, HandlerInv, Finds
  <2>3. Key(u) = Key(t)
    BY <1>1, <1>2, <2>2 DEF Tables
  <2>4. Inside(t) /\ Inside(u) /\ call[u].op = "SET" /\ t # u
    BY <1>1, <1>5, <2>1 DEF HandlerInv, Control, Storing, Inside
  <2> QED
    BY <2>3, <2>4, Exclusive
<1>6. cache[SlotOf(Key(t))] = disk[SlotOf(Key(t))].val
  BY <1>1, <1>4, <1>5 DEF Copied
<1> QED
  BY <1>2, <1>4, <1>6

-----------------------------------------------------------------------------
(* Types *)

LEMMA StepTypes ==
    ASSUME SInv, NEW t \in Threads, Step(t)
    PROVE  TypeOK' /\ call' \in [Threads -> Procedures \cup {NoCall}]
<1>1. TypeOK /\ HandlerInv(t) /\ Tables /\ call \in [Threads -> Procedures \cup {NoCall}]
  BY DEF SInv
<1>2. pc' \in [Threads -> Labels] /\ phase' \in [Threads -> {"lock", "access", "unlock"}]
  <2> USE DEF Labels, Goto, Enter
  <2>1. CASE Begin(t) \/ Lock(t)
    <3>1. pc' = [pc EXCEPT ![t] = "search"] /\ phase' \in {[phase EXCEPT ![t] = "lock"], [phase EXCEPT ![t] = "access"]}
      BY <2>1 DEF Begin, Lock
    <3> QED
      BY <1>1, <3>1 DEF TypeOK
  <2>6. CASE Search(t) \/ Create(t)
    BY <1>1, <2>6 DEF TypeOK, Search, Create
  <2>4. CASE Delete(t)
    BY <1>1, <2>4 DEF TypeOK, Delete
  <2>5. CASE Unlock(t)
    BY <1>1, <2>5 DEF TypeOK, Unlock
  <2>2. CASE LoadCheck(t) \/ Read(t) \/ Refuse(t) \/ StoreCheck(t) \/ LockCache(t) \/ AddRecord(t)
    BY <1>1, <2>2, ZenonT(60) DEF TypeOK, LoadCheck, Read, Refuse, StoreCheck, LockCache, AddRecord
  <2>3. CASE FreeCache(t) \/ UpdateBufferCache(t) \/ LockStream(t) \/ WriteFile(t) \/ WriteCache(t) \/ Done(t)
    BY <1>1, <2>3, SMTT(30) DEF TypeOK, FreeCache, UpdateBufferCache, LockStream, WriteFile, WriteCache, Done
  <2> QED
    BY <2>1, <2>2, <2>3, <2>4, <2>5, <2>6 DEF Step
<1>3. call' \in [Threads -> Procedures \cup {NoCall}]
  <2>1. CASE Begin(t)
    BY <1>1, <2>1 DEF Begin, Procedures
  <2>2. CASE Done(t)
    BY <1>1, <2>2 DEF Done
  <2>3. CASE call' = call
    BY <1>1, <2>3
  <2> QED
    BY <2>1, <2>2, <2>3 DEF Step, Search, Create, Delete, Lock, Unlock, LoadCheck, Read, Refuse,
       StoreCheck, LockCache, AddRecord, FreeCache, UpdateBufferCache, LockStream, WriteFile, WriteCache
<1>4. {mutex', cacheLock'} \subseteq Threads \cup {NoThread}
  BY <1>1 DEF TypeOK, Step, Begin, Search, Create, Delete, Lock, Unlock, LoadCheck, Read, Refuse,
     StoreCheck, LockCache, AddRecord, FreeCache, UpdateBufferCache, LockStream, WriteFile,
     WriteCache, Done, guards
<1>5. ASSUME Create(t), index[Key(t)] = 0 PROVE Fresh \in Records /\ Key(t) \in Keys
  <2>1. Key(t) \in Keys
    BY <1>5, AtOwn DEF Create
  <2> QED
    BY <1>1, <1>5, <2>1, FreshIsNew
<1>6. index' \in [Keys -> {0} \cup Records]
  <2>1. CASE Create(t)
    BY <1>1, <1>5, <2>1 DEF TypeOK, Create, tables
  <2>2. CASE Delete(t)
    BY <1>1, <2>2 DEF TypeOK, Delete
  <2>3. CASE index' = index
    BY <1>1, <2>3 DEF TypeOK
  <2> QED
    BY <2>1, <2>2, <2>3 DEF Step, Begin, Search, Lock, Unlock, LoadCheck, Read, Refuse,
       StoreCheck, LockCache, AddRecord, FreeCache, UpdateBufferCache, LockStream, WriteFile,
       WriteCache, Done, tables
<1>7. ptr' \in [Threads -> {0} \cup Records]
  <2>1. CASE Create(t)
    <3>1. Key(t) \in Keys
      BY <2>1, AtOwn DEF Create
    <3> QED
      BY <1>1, <1>5, <2>1, <3>1 DEF TypeOK, Create
  <2>2. CASE Search(t)
    <3>1. Key(t) \in Keys
      BY <2>2, AtOwn DEF Search
    <3> QED
      BY <1>1, <2>2, <3>1 DEF TypeOK, Search
  <2>3. CASE Done(t)
    BY <1>1, <2>3 DEF TypeOK, Done
  <2>4. CASE ptr' = ptr
    BY <1>1, <2>4 DEF TypeOK
  <2> QED
    BY <2>1, <2>2, <2>3, <2>4 DEF Step, Begin, Delete, Lock, Unlock, LoadCheck, Read, Refuse,
       StoreCheck, LockCache, AddRecord, FreeCache, UpdateBufferCache, LockStream, WriteFile, WriteCache
<1>8. CASE AddRecord(t)
  <2>1. /\ disk' = Append(disk, [key |-> Key(t), val |-> call[t].val]) /\ pc[t] = "append"
        /\ record' = [record EXCEPT ![ptr[t]].offset = Len(disk) + 1]
        /\ cache' = cache /\ ret' = ret
    BY <1>8 DEF AddRecord
  <2>2. Key(t) \in Keys /\ call[t].val \in Values
    BY <1>1, <2>1, AtOwn DEF HandlerInv, Control, Storing, Procedures
  <2>3. [key |-> Key(t), val |-> call[t].val] \in SlotSet /\ disk \in Seq(SlotSet)
    BY <1>1, <2>2 DEF TypeOK, SlotSet
  <2>4. disk' \in Seq(SlotSet) /\ Len(disk') = Len(disk) + 1 /\ Len(disk) \in Nat
    BY <2>1, <2>3
  <2>5. 0 .. Len(disk) \subseteq 0 .. Len(disk') /\ Len(disk) + 1 \in 0 .. Len(disk')
    <3> HIDE <2>1
    <3> QED
      BY <2>4
  <2>6. record' \in [Records -> [offset : 0 .. Len(disk'), writer : Threads \cup {NoThread},
                                 readers : SUBSET Threads]]
    <3> HIDE <2>4
    <3> DEFINE n == Len(disk')
    <3>1. record \in [Records -> [offset : 0 .. n, writer : Threads \cup {NoThread}, readers : SUBSET Threads]]
      BY <1>1, <2>5 DEF TypeOK
    <3>2. Len(disk) + 1 \in 0 .. n
      BY <2>5
    <3> HIDE DEF n
    <3>3. record' \in [Records -> [offset : 0 .. n, writer : Threads \cup {NoThread}, readers : SUBSET Threads]]
      BY <2>1, <3>1, <3>2
    <3> QED
      BY <3>3 DEF n
  <2> QED
    BY <1>1, <1>2, <1>3, <1>4, <1>6, <1>7, <2>1, <2>4, <2>6 DEF TypeOK, SlotSet
<1>9. CASE WriteFile(t)
  <2>1. /\ disk' = [disk EXCEPT ![record[ptr[t]].offset].val = call[t].val] /\ pc[t] = "write"
        /\ record' = record /\ cache' = cache /\ ret' = ret
    BY <1>9 DEF WriteFile, tables
  <2>2. call[t].val \in Values
    BY <1>1, <2>1, AtOwn DEF HandlerInv, Control, Storing, Procedures
  <2>3. disk \in Seq(SlotSet)
    BY <1>1 DEF TypeOK, SlotSet
  <2>4. disk' \in Seq(SlotSet) /\ Len(disk') = Len(disk)
    <3> DEFINE o == record[ptr[t]].offset
               w == [disk[o] EXCEPT !.val = call[t].val]
    <3>1. disk' = [disk EXCEPT ![o] = w]
      BY <2>1
    <3>2. o \in 1 .. Len(disk) => w \in SlotSet
      <4>1. o \in 1 .. Len(disk) => disk[o] \in SlotSet
        BY <2>3
      <4> HIDE DEF o
      <4> QED
        BY <2>2, <4>1 DEF SlotSet
    <3> HIDE DEF o, w
    <3>3. CASE o \in 1 .. Len(disk)
      BY <2>3, <3>1, <3>2, <3>3
    <3>4. CASE o \notin 1 .. Len(disk)
      <4>1. disk' = disk
        BY <2>3, <3>1, <3>4
      <4> QED
        BY <2>3, <4>1
    <3> QED
      BY <3>3, <3>4
  <2> QED
    BY <1>1, <1>2, <1>3, <1>4, <1>6, <1>7, <2>1, <2>4 DEF TypeOK, SlotSet
<1>10. CASE disk' = disk
  <2>1. record' \in [Records -> [offset : 0 .. Len(disk), writer : Threads \cup {NoThread},
                                 readers : SUBSET Threads]]
    <3>1. CASE Create(t)
      <4>1. NewRecord(0) \in [offset : 0 .. Len(disk), writer : Threads \cup {NoThread}, readers : SUBSET Threads]
        <5>1. 0 \in 0 .. Len(disk)
          BY <1>1 DEF TypeOK
        <5> QED
          BY <5>1 DEF NewRecord
      <4> QED
        BY <1>1, <1>5, <3>1, <4>1 DEF TypeOK, Create, tables
    <3>2. CASE Lock(t)
      <4>1. CASE record' = [record EXCEPT ![ptr[t]].readers = @ \cup {t}]
        BY <1>1, <4>1, ZenonT(60) DEF TypeOK
      <4>2. CASE record' = [record EXCEPT ![ptr[t]].writer = t]
        BY <1>1, <4>2, ZenonT(60) DEF TypeOK
      <4> QED
        BY <3>2, <4>1, <4>2 DEF Lock
    <3>3. CASE Unlock(t)
      <4>1. CASE record' = record
        BY <1>1, <4>1 DEF TypeOK
      <4>2. CASE record' = [record EXCEPT ![ptr[t]].writer = IF @ = t THEN NoThread ELSE @,
                                          ![ptr[t]].readers = @ \ {t}]
        <5> DEFINE RT == [offset : 0 .. Len(disk), writer : Threads \cup {NoThread}, readers : SUBSET Threads]
                   w == [record[ptr[t]] EXCEPT !.writer = IF @ = t THEN NoThread ELSE @, !.readers = @ \ {t}]
        <5>1. ptr[t] \in Records
          BY <3>3, AtOwn DEF Unlock, Pointing
        <5>2. record \in [Records -> RT] /\ record[ptr[t]] \in RT
          BY <1>1, <5>1 DEF TypeOK
        <5>3. w \in RT
          BY <5>2
        <5>4. record' = [record EXCEPT ![ptr[t]] = w]
          BY <4>2, <5>1, <5>2
        <5> HIDE DEF w
        <5> QED
          BY <5>2, <5>3, <5>4
      <4> QED
        BY <3>3, <4>1, <4>2 DEF Unlock
    <3>4. CASE AddRecord(t)
      BY <1>1, <1>10, <3>4 DEF TypeOK, AddRecord
    <3>5. CASE record' = record
      BY <1>1, <3>5 DEF TypeOK
    <3> QED
      BY <3>1, <3>2, <3>3, <3>4, <3>5 DEF Step, Begin, Search, Delete, LoadCheck, Read, Refuse,
         StoreCheck, LockCache, FreeCache, UpdateBufferCache, LockStream, WriteFile, WriteCache, Done, tables
  <2>2. cache' \in Seq(Values)
    <3>1. CASE UpdateBufferCache(t)
      <4>1. cache' = [i \in DOMAIN disk |-> disk[i].val]
        BY <3>1 DEF UpdateBufferCache, ValuesOf
      <4>2. disk \in Seq(SlotSet)
        BY <1>1 DEF TypeOK, SlotSet
      <4>3. DOMAIN disk = 1 .. Len(disk) /\ Len(disk) \in Nat /\ \A i \in 1 .. Len(disk) : disk[i] \in SlotSet
        BY <4>2
      <4>4. \A i \in 1 .. Len(disk) : disk[i].val \in Values
        BY <4>3 DEF SlotSet
      <4> QED
        BY <4>1, <4>3, <4>4
    <3>2. CASE WriteCache(t)
      <4>1. call[t].val \in Values
        BY <1>1, <3>2, AtOwn DEF WriteCache, HandlerInv, Control, Storing, Procedures
      <4>2. cache \in Seq(Values)
        BY <1>1 DEF TypeOK
      <4>3. cache' = cache \/ cache' = [cache EXCEPT ![record[ptr[t]].offset] = call[t].val]
        BY <3>2 DEF WriteCache
      <4> QED
        BY <4>1, <4>2, <4>3
    <3>3. CASE cache' = <<>>
      BY <3>3
    <3>4. CASE cache' = cache
      BY <1>1, <3>4 DEF TypeOK
    <3> QED
      BY <3>1, <3>2, <3>3, <3>4 DEF Step, Begin, Search, Create, Delete, Lock, Unlock, LoadCheck, Read, Refuse,
         StoreCheck, LockCache, AddRecord, FreeCache, LockStream, WriteFile, Done, files
  <2>3. ret' \in [Threads -> Values \cup {Fail, Succ}]
    <3>1. CASE Read(t)
      <4>1. cache[record[ptr[t]].offset] \in Values
        BY <3>1, ReadsOwn DEF SInv, TypeOK
      <4> QED
        BY <1>1, <3>1, <4>1 DEF TypeOK, Read, Returns
    <3>2. CASE ret' = ret \/ ret' = [ret EXCEPT ![t] = Fail] \/ ret' = [ret EXCEPT ![t] = Succ]
      BY <1>1, <3>2 DEF TypeOK
    <3>3. Read(t) \/ ret' = ret \/ ret' = [ret EXCEPT ![t] = Fail] \/ ret' = [ret EXCEPT ![t] = Succ]
      BY DEF Step, Begin, Search, Create, Delete, Lock, Unlock, LoadCheck, Refuse, StoreCheck, LockCache,
         AddRecord, FreeCache, UpdateBufferCache, LockStream, WriteFile, WriteCache, Done, Returns
    <3> QED
      BY <3>1, <3>2, <3>3
  <2> QED
    BY <1>1, <1>2, <1>3, <1>4, <1>6, <1>7, <1>10, <2>1, <2>2, <2>3 DEF TypeOK
<1>11. AddRecord(t) \/ WriteFile(t) \/ disk' = disk
  BY DEF Step, Begin, Search, Create, Delete, Lock, Unlock, LoadCheck, Read, Refuse, StoreCheck, LockCache,
     FreeCache, UpdateBufferCache, LockStream, WriteCache, Done, files
<1> QED
  BY <1>8, <1>9, <1>10, <1>11

-----------------------------------------------------------------------------
(* The tables, the locks of the file, the copy *)

(* A value that was stored stays: no step takes the offset of a record     *)
(* away, or the record of a key that is known.                             *)
LEMMA StepKnown ==
    ASSUME SInv, NEW t \in Threads, Step(t), NEW k \in Keys, Known(k)
    PROVE  index'[k] = index[k] /\ record'[index[k]].offset = SlotOf(k) /\ SlotOf(k) # 0
<1>1. TypeOK /\ Tables /\ HandlerInv(t) /\ index[k] \in Records /\ index[k] # 0 /\ SlotOf(k) # 0
  BY DEF SInv, TypeOK, Known, SlotOf
<1>2. CASE UNCHANGED tables
  BY <1>1, <1>2 DEF tables, SlotOf
<1>3. ASSUME Create(t), index[Key(t)] = 0
      PROVE  index'[k] = index[k] /\ record'[index[k]].offset = SlotOf(k)
  <2>1. Key(t) \in Keys
    BY <1>3, AtOwn DEF Create
  <2>2. Fresh \in Records /\ \A l \in Keys : index[l] # Fresh
    BY <1>1, <1>3, <2>1, FreshIsNew
  <2> QED
    BY <1>1, <1>3, <2>1, <2>2 DEF Create, TypeOK, SlotOf
<1>4. CASE Delete(t)
  BY <1>1, <1>4 DEF Delete, HandlerInv, Control, Alone, TypeOK, SlotOf
<1>5. CASE Lock(t) \/ Unlock(t)
  BY <1>1, <1>5, LockWrites DEF Lock, Unlock, SlotOf
<1>6. CASE AddRecord(t)
  <2>1. pc[t] = "append" /\ index' = index /\ record' = [record EXCEPT ![ptr[t]].offset = Len(disk) + 1]
    BY <1>6 DEF AddRecord
  <2>2. ~Known(Key(t)) /\ ptr[t] = index[Key(t)] /\ Key(t) \in Keys /\ ptr[t] \in Records
    BY <1>1, <2>1, AtOwn DEF HandlerInv, Finds, Pointing, Storing
  <2>3. index[k] # ptr[t]
    BY <1>1, <2>2 DEF Tables
  <2> QED
    BY <1>1, <2>1, <2>2, <2>3 DEF TypeOK, SlotOf
<1> QED
  <2>1. UNCHANGED tables \/ (Create(t) /\ index[Key(t)] = 0) \/ Delete(t) \/ Lock(t) \/ Unlock(t) \/ AddRecord(t)
    BY DEF Step, Begin, Search, Create, LoadCheck, Read, Refuse, StoreCheck, LockCache, FreeCache,
       UpdateBufferCache, LockStream, WriteFile, WriteCache, Done
  <2> QED
    BY <1>1, <1>2, <1>3, <1>4, <1>5, <1>6, <2>1

LEMMA StepAllKnown ==
    ASSUME SInv, NEW t \in Threads, Step(t)
    PROVE  AllKnown'
<1> SUFFICES ASSUME \A k \in Keys : \E i \in DOMAIN InFile : InFile[i] = k, NEW k \in Keys
             PROVE  Known(k)'
  BY DEF AllKnown
<1>1. Known(k)
  BY DEF SInv, AllKnown
<1> QED
  BY <1>1, StepKnown DEF Known

LEMMA StepTables ==
    ASSUME SInv, NEW t \in Threads, Step(t)
    PROVE  Tables'
<1>1. TypeOK /\ Tables /\ HandlerInv(t) /\ disk \in Seq(SlotSet) /\ Len(disk) \in Nat
  BY DEF SInv, TypeOK, SlotSet
<1>2. CASE UNCHANGED <<tables, disk>>
  BY <1>1, <1>2 DEF tables, Tables, Known, SlotOf
<1>3. ASSUME Create(t), index[Key(t)] = 0 PROVE Tables'
  <2>1. Key(t) \in Keys
    BY <1>3, AtOwn DEF Create
  <2>2. Fresh \in Records /\ \A l \in Keys : index[l] # Fresh
    BY <1>1, <1>3, <2>1, FreshIsNew
  <2>3. Fresh # 0
    BY <2>2, RecordNumbers
  <2>4. /\ index' = [index EXCEPT ![Key(t)] = Fresh] /\ record' = [record EXCEPT ![Fresh] = NewRecord(0)]
        /\ disk' = disk
    BY <1>3 DEF Create, files
  <2>5. /\ index'[Key(t)] = Fresh
        /\ \A k \in Keys : k # Key(t) => index'[k] = index[k]
        /\ \A k \in Keys : k # Key(t) /\ index[k] # 0 => record'[index[k]] = record[index[k]]
        /\ record'[Fresh].offset = 0 /\ record'[Fresh].readers = {}
    BY <1>1, <2>1, <2>2, <2>4 DEF TypeOK, NewRecord
  <2>6. \A k, l \in Keys : k # l /\ index'[k] # 0 => index'[k] # index'[l]
    BY <1>1, <2>1, <2>2, <2>3, <2>5 DEF Tables
  <2>7. \A k \in Keys : k # Key(t) /\ index[k] # 0 => SlotOf(k)' = SlotOf(k)
    BY <2>5 DEF SlotOf
  <2>8. \A k \in Keys : Known(k)' => k # Key(t) /\ Known(k) /\ SlotOf(k)' = SlotOf(k)
    BY <2>5, <2>7 DEF Known
  <2>9. ASSUME NEW i \in 1 .. Len(disk)
        PROVE  index'[disk[i].key] # 0 /\ SlotOf(disk[i].key)' = i
    <3>1. disk[i].key \in Keys /\ index[disk[i].key] # 0 /\ SlotOf(disk[i].key) = i
      <4>1. disk[i] \in SlotSet
        BY <1>1
      <4> QED
        BY <1>1, <4>1 DEF Tables, SlotSet
    <3>2. disk[i].key # Key(t)
      BY <1>3, <3>1
    <3> DEFINE k == disk[i].key
    <3>3. index'[k] = index[k] /\ record'[index[k]] = record[index[k]]
      BY <2>5, <3>1, <3>2
    <3> QED
      BY <2>4, <3>1, <3>3 DEF SlotOf
  <2>10. \A k \in Keys : index'[k] # 0 /\ record'[index'[k]].writer # NoThread => record'[index'[k]].readers = {}
    BY <1>1, <2>5 DEF Tables
  <2> QED
    BY <1>1, <2>4, <2>6, <2>8, <2>9, <2>10 DEF Tables
<1>4. CASE Delete(t)
  <2>1. pc[t] = "delete" /\ ~Known(Key(t)) /\ Key(t) \in Keys /\ index' = [index EXCEPT ![Key(t)] = 0]
        /\ UNCHANGED <<record, disk>>
    BY <1>1, <1>4, AtOwn DEF Delete, HandlerInv, Control, Alone, files
  <2>2. index'[Key(t)] = 0 /\ \A k \in Keys : k # Key(t) => index'[k] = index[k]
    BY <1>1, <2>1 DEF TypeOK
  <2>3. \A k \in Keys : Known(k)' => k # Key(t) /\ Known(k) /\ SlotOf(k)' = SlotOf(k)
    BY <2>1, <2>2 DEF Known, SlotOf
  <2>4. ASSUME NEW i \in 1 .. Len(disk)
        PROVE  index'[disk[i].key] # 0 /\ SlotOf(disk[i].key)' = i
    <3>1. disk[i].key \in Keys /\ index[disk[i].key] # 0 /\ SlotOf(disk[i].key) = i /\ i # 0
      <4>1. disk[i] \in SlotSet
        BY <1>1
      <4> QED
        BY <1>1, <4>1 DEF Tables, SlotSet
    <3>2. disk[i].key # Key(t)
      BY <2>1, <3>1 DEF Known, SlotOf
    <3> QED
      BY <2>1, <2>2, <3>1, <3>2 DEF SlotOf
  <2> QED
    BY <1>1, <2>1, <2>2, <2>3, <2>4, SMTT(30) DEF Tables
<1>5. CASE Lock(t) \/ Unlock(t)
  <2>1. index' = index /\ disk' = disk /\ pc[t] = "use"
    BY <1>5 DEF Lock, Unlock, files
  <2>2. \A k \in Keys : index[k] # 0 => Known(k)' = Known(k) /\ SlotOf(k)' = SlotOf(k)
    BY <1>1, <1>5, <2>1, LockWrites DEF TypeOK, Known, SlotOf
  <2>3. ptr[t] \in Records
    BY <2>1, AtOwn DEF Pointing
  <2>4. record[ptr[t]].writer # NoThread => record[ptr[t]].readers = {}
    BY <1>1, <2>1, AtOwn DEF Tables, Pointing
  <2>5. record'[ptr[t]].writer # NoThread => record'[ptr[t]].readers = {}
    <3>1. CASE Lock(t) /\ call[t].op = "GET"
      BY <1>1, <2>3, <3>1 DEF Lock, TypeOK
    <3>2. CASE Lock(t) /\ call[t].op = "SET"
      BY <1>1, <2>3, <3>2, SMTT(30) DEF Lock, TypeOK
    <3>3. CASE Unlock(t)
      <4>1. CASE record' = record
        BY <2>4, <4>1
      <4>2. CASE record' = [record EXCEPT ![ptr[t]].writer = IF @ = t THEN NoThread ELSE @,
                                          ![ptr[t]].readers = @ \ {t}]
        <5>1. /\ record'[ptr[t]].writer = IF record[ptr[t]].writer = t THEN NoThread ELSE record[ptr[t]].writer
              /\ record'[ptr[t]].readers = record[ptr[t]].readers \ {t}
          BY <1>1, <2>3, <4>2 DEF TypeOK
        <5> QED
          BY <2>4, <5>1
      <4> QED
        BY <3>3, <4>1, <4>2 DEF Unlock
    <3> QED
      BY <1>5, <3>1, <3>2, <3>3 DEF Lock
  <2>6. \A k \in Keys : index[k] # 0 /\ record'[index[k]].writer # NoThread => record'[index[k]].readers = {}
    <3>1. \A r \in Records : r # ptr[t] => record'[r] = record[r]
      BY <1>5, LockWrites
    <3> QED
      BY <1>1, <2>5, <3>1 DEF Tables, TypeOK
  <2>7. \A i \in 1 .. Len(disk) : disk[i] \in SlotSet
    BY <1>1
  <2> QED
    BY <1>1, <2>1, <2>2, <2>6, <2>7 DEF Tables, Known, SlotSet
<1>6. CASE AddRecord(t)
  <2>1. /\ pc[t] = "append" /\ index' = index
        /\ disk' = Append(disk, [key |-> Key(t), val |-> call[t].val])
        /\ record' = [record EXCEPT ![ptr[t]].offset = Len(disk) + 1]
    BY <1>6 DEF AddRecord
  <2>2. /\ ~Known(Key(t)) /\ ptr[t] = index[Key(t)] /\ Key(t) \in Keys /\ ptr[t] \in Records /\ ptr[t] # 0
        /\ \A k \in Keys : k # Key(t) => index[k] # ptr[t]
    BY <1>1, <2>1, AtOwn DEF HandlerInv, Finds, Pointing, Storing
  <2>3. /\ DOMAIN disk' = 1 .. Len(disk) + 1 /\ Len(disk') = Len(disk) + 1
        /\ disk'[Len(disk) + 1].key = Key(t)
        /\ \A i \in 1 .. Len(disk) : disk'[i] = disk[i] /\ disk[i] \in SlotSet
    BY <1>1, <2>1
  <2>4. /\ record'[ptr[t]].offset = Len(disk) + 1
        /\ \A r \in Records : r # ptr[t] => record'[r] = record[r]
        /\ \A r \in Records : record'[r].writer = record[r].writer /\ record'[r].readers = record[r].readers
    <3> DEFINE n == Len(disk) + 1
    <3> HIDE DEF n
    <3>1. record' = [record EXCEPT ![ptr[t]].offset = n]
      BY <2>1 DEF n
    <3>2. record'[ptr[t]].offset = n
      BY <1>1, <2>2, <3>1 DEF TypeOK
    <3>3. \A r \in Records : r # ptr[t] => record'[r] = record[r]
      BY <1>1, <2>2, <3>1 DEF TypeOK
    <3>4. \A r \in Records : record'[r].writer = record[r].writer /\ record'[r].readers = record[r].readers
      BY <1>1, <2>2, <3>1 DEF TypeOK
    <3> QED
      BY <3>2, <3>3, <3>4 DEF n
  <2>5. SlotOf(Key(t))' = Len(disk) + 1
    BY <1>6, <2>1, <2>2, <2>4 DEF SlotOf, Key, AddRecord
  <2>6. \A k \in Keys : k # Key(t) /\ index[k] # 0 => SlotOf(k)' = SlotOf(k) /\ Known(k)' = Known(k)
    BY <1>1, <2>1, <2>2, <2>4 DEF SlotOf, TypeOK, Known
  <2>7. ASSUME NEW k \in Keys, Known(k)'
        PROVE  SlotOf(k)' \in 1 .. Len(disk') /\ disk'[SlotOf(k)'].key = k
    <3>1. CASE k = Key(t)
      <4>1. SlotOf(k)' = Len(disk) + 1
        BY <2>1, <2>2, <2>4, <3>1 DEF SlotOf
      <4>2. Len(disk) + 1 \in 1 .. Len(disk) + 1
        BY <1>1
      <4> QED
        BY <2>3, <3>1, <4>1, <4>2
    <3>2. CASE k # Key(t)
      <4>1. index[k] # 0
        BY <2>1, <2>7 DEF Known
      <4>2. Known(k) /\ SlotOf(k)' = SlotOf(k)
        BY <2>6, <2>7, <3>2, <4>1
      <4>3. SlotOf(k) \in 1 .. Len(disk) /\ disk[SlotOf(k)].key = k
        BY <1>1, <4>2 DEF Tables
      <4>4. SlotOf(k) \in 1 .. Len(disk) + 1
        BY <1>1, <4>3
      <4> QED
        BY <2>3, <4>2, <4>3, <4>4
    <3> QED
      BY <3>1, <3>2
  <2>8. ASSUME NEW i \in 1 .. Len(disk')
        PROVE  index'[disk'[i].key] # 0 /\ record'[index'[disk'[i].key]].offset = i
    <3>1. CASE i = Len(disk) + 1
      <4>1. disk'[i].key = Key(t)
        BY <2>3, <3>1
      <4>2. record'[index'[Key(t)]].offset = i /\ index'[Key(t)] # 0
        BY <2>1, <2>2, <2>4, <3>1
      <4> QED
        BY <4>1, <4>2
    <3>2. CASE i \in 1 .. Len(disk)
      <4> DEFINE k == disk[i].key
      <4>1. k \in Keys /\ index[k] # 0 /\ SlotOf(k) = i /\ i # 0
        BY <1>1, <2>3, <3>2 DEF Tables, SlotSet
      <4>2. k # Key(t)
        BY <2>2, <4>1 DEF Known, SlotOf
      <4>3. record'[index'[k]].offset = i /\ index'[k] # 0
        BY <1>1, <2>1, <2>2, <2>4, <4>1, <4>2 DEF SlotOf, TypeOK
      <4>4. disk'[i].key = k
        BY <2>3, <3>2
      <4> QED
        BY <4>3, <4>4
    <3>3. i = Len(disk) + 1 \/ i \in 1 .. Len(disk)
      <4>1. i \in 1 .. Len(disk) + 1
        BY <2>3
      <4> QED
        BY <1>1, <4>1
    <3> QED
      BY <3>1, <3>2, <3>3
  <2>9. \A k \in Keys : index[k] # 0 /\ record'[index[k]].writer # NoThread => record'[index[k]].readers = {}
    BY <1>1, <2>4 DEF Tables, TypeOK
  <2> QED
    BY <1>1, <2>1, <2>7, <2>8, <2>9 DEF Tables, SlotOf
<1>7. CASE WriteFile(t)
  <2>1. UNCHANGED tables /\ disk' = [disk EXCEPT ![record[ptr[t]].offset].val = call[t].val]
    BY <1>7 DEF WriteFile
  <2>2. Len(disk') = Len(disk) /\ \A i \in 1 .. Len(disk) : disk'[i].key = disk[i].key
    <3>1. \A i \in 1 .. Len(disk) : disk[i] \in SlotSet
      BY <1>1
    <3>2. DOMAIN disk' = 1 .. Len(disk) /\ Len(disk') = Len(disk)
      BY <1>1, <2>1
    <3> QED
      BY <1>1, <2>1, <3>1, <3>2 DEF SlotSet
  <2>3. index' = index /\ record' = record
    BY <2>1 DEF tables
  <2>4. (\A k \in Keys : Known(k) => SlotOf(k) \in 1 .. Len(disk) /\ disk[SlotOf(k)].key = k)'
    BY <1>1, <2>2, <2>3 DEF Tables, Known, SlotOf
  <2>5. (\A i \in 1 .. Len(disk) : index[disk[i].key] # 0 /\ SlotOf(disk[i].key) = i)'
    BY <1>1, <2>2, <2>3 DEF Tables, SlotOf
  <2> QED
    BY <1>1, <2>3, <2>4, <2>5 DEF Tables
<1> QED
  <2>1. UNCHANGED <<tables, disk>> \/ (Create(t) /\ index[Key(t)] = 0) \/ Delete(t) \/ Lock(t) \/ Unlock(t)
        \/ AddRecord(t) \/ WriteFile(t)
    BY StepWrites
  <2> QED
    BY <1>2, <1>3, <1>4, <1>5, <1>6, <1>7, <2>1

LEMMA StepGuarded ==
    ASSUME SInv, NEW t \in Threads, Step(t)
    PROVE  Guarded'
<1>1. TypeOK /\ Guarded /\ OnlyOf(t) /\ NoThread \notin Threads
  BY StepOnlyOf, AnswerAssumption DEF SInv
<1>2. pc'[t] \in Labels
  BY StepTypes DEF TypeOK
<1>4. ASSUME UNCHANGED guards, pc'[t] \in {"write", "write_cache"} <=> pc[t] \in {"write", "write_cache"},
             pc'[t] \in {"append", "free", "reload"} <=> pc[t] \in {"append", "free", "reload"}
      PROVE  Guarded'
  BY <1>1, <1>4 DEF Guarded, Guards, guards, OnlyOf
<1>5. CASE LockCache(t) \/ UpdateBufferCache(t)
  <2>1. mutex' = mutex /\ pc'[t] \notin {"write", "write_cache"} /\ pc[t] \notin {"write", "write_cache"}
    BY <1>1, <1>5 DEF LockCache, UpdateBufferCache, TypeOK, Goto, Enter
  <2>2. CASE LockCache(t)
    <3>1. cacheLock = NoThread /\ cacheLock' = t /\ pc'[t] = "append"
      BY <1>1, <2>2 DEF LockCache, TypeOK, Goto
    <3> QED
      BY <1>1, <2>1, <3>1 DEF Guarded, Guards, OnlyOf
  <2>3. CASE UpdateBufferCache(t)
    <3>1. pc[t] = "reload" /\ cacheLock' = NoThread /\ pc'[t] = "search"
      BY <1>1, <2>3 DEF UpdateBufferCache, TypeOK, Goto, Enter
    <3> QED
      BY <1>1, <2>1, <3>1 DEF Guarded, Guards, OnlyOf
  <2> QED
    BY <1>5, <2>2, <2>3
<1>6. CASE LockStream(t) \/ WriteCache(t)
  <2>1. cacheLock' = cacheLock /\ pc'[t] \notin {"append", "free", "reload"} /\ pc[t] \notin {"append", "free", "reload"}
    BY <1>1, <1>6 DEF LockStream, WriteCache, TypeOK, Goto, Enter
  <2>2. CASE LockStream(t)
    <3>1. mutex = NoThread /\ mutex' = t /\ pc'[t] = "write"
      BY <1>1, <2>2 DEF LockStream, TypeOK, Goto
    <3> QED
      BY <1>1, <2>1, <3>1 DEF Guarded, Guards, OnlyOf
  <2>3. CASE WriteCache(t)
    <3>1. pc[t] = "write_cache" /\ mutex' = NoThread /\ pc'[t] = "search"
      BY <1>1, <2>3 DEF WriteCache, TypeOK, Goto, Enter
    <3> QED
      BY <1>1, <2>1, <3>1 DEF Guarded, Guards, OnlyOf
  <2> QED
    BY <1>6, <2>2, <2>3
<1>7. CASE Begin(t) \/ Search(t) \/ Create(t) \/ Lock(t) \/ LoadCheck(t) \/ Read(t) \/ Refuse(t) \/ Done(t)
  BY <1>1, <1>4, <1>7 DEF Begin, Search, Create, Lock, LoadCheck, Read, Refuse, Done, TypeOK, Goto, Enter
<1>8. CASE Delete(t) \/ Unlock(t) \/ StoreCheck(t)
  BY <1>1, <1>4, <1>8 DEF Delete, Unlock, StoreCheck, TypeOK, Goto, Enter
<1>9. CASE AddRecord(t) \/ FreeCache(t) \/ WriteFile(t)
  BY <1>1, <1>4, <1>9 DEF AddRecord, FreeCache, WriteFile, TypeOK, Goto
<1> QED
  BY <1>5, <1>6, <1>7, <1>8, <1>9 DEF Step

(* A store between the file and the copy keeps its slot. *)
LEMMA WritersSlot ==
    ASSUME SInv, NEW t \in Threads, Step(t), NEW u \in Threads, u # t, pc[u] = "write_cache"
    PROVE  pc'[u] = "write_cache" /\ record'[ptr'[u]].offset = record[ptr[u]].offset
<1>1. HandlerInv(u) /\ OnlyOf(t)
  BY StepOnlyOf DEF SInv
<1>2. ptr[u] = index[Key(u)] /\ Inside(u)
  BY <1>1, AtOwn DEF Pointing, Storing, HandlerInv, Control, Inside
<1>3. record'[index[Key(u)]].offset = record[index[Key(u)]].offset
  <2>1. CASE pc[t] = "idle"
    <3>1. record' = record
      BY <2>1 DEF Step, Begin, Search, Create, Delete, Lock, Unlock, LoadCheck, Read, Refuse, StoreCheck,
         LockCache, AddRecord, FreeCache, UpdateBufferCache, LockStream, WriteFile, WriteCache, Done, tables
    <3> QED
      BY <3>1
  <2>2. CASE pc[t] # "idle"
    BY <1>2, <2>2, StepKeeps DEF KeptFor
  <2> QED
    BY <2>1, <2>2
<1> QED
  BY <1>1, <1>2, <1>3 DEF OnlyOf

LEMMA StepCopied ==
    ASSUME SInv, NEW t \in Threads, Step(t)
    PROVE  Copied'
<1>1. TypeOK /\ Guarded /\ OnlyOf(t) /\ Copied /\ Tables /\ HandlerInv(t)
      /\ Len(disk) \in Nat /\ Len(cache) \in Nat /\ disk \in Seq(SlotSet)
  BY StepOnlyOf DEF SInv, TypeOK, SlotSet
<1>2. ASSUME cacheLock = t, NEW u \in Threads, u # t PROVE pc'[u] \notin {"free", "reload"}
  BY <1>1, <1>2 DEF Guarded, Guards, OnlyOf
<1>3. CASE AddRecord(t)
  <2>1. /\ pc[t] = "append" /\ cache' = cache /\ pc'[t] = "free"
        /\ disk' = Append(disk, [key |-> Key(t), val |-> call[t].val])
    BY <1>1, <1>3 DEF AddRecord, Goto, TypeOK
  <2>2. cacheLock = t /\ \A u \in Threads : pc[u] \notin {"free", "reload"}
    BY <1>1, <2>1 DEF Guarded, Guards
  <2>3. Len(cache) = Len(disk)
    BY <1>1, <2>2 DEF Copied
  <2>4. Len(disk') = Len(disk) + 1 /\ \A i \in 1 .. Len(disk) : disk'[i] = disk[i]
    BY <1>1, <2>1
  <2>5. Len(cache') < Len(disk')
    <3> HIDE <2>1
    <3>1. cache' = cache
      BY <2>1
    <3> QED
      BY <1>1, <2>3, <2>4, <3>1
  <2>6. ASSUME NEW i \in 1 .. Len(cache')
        PROVE  cache'[i] = disk'[i].val \/ \E u \in Threads : pc'[u] = "write_cache" /\ record'[ptr'[u]].offset = i
    <3>1. i \in 1 .. Len(cache) /\ i \in 1 .. Len(disk)
      BY <2>1, <2>3
    <3>2. CASE cache[i] = disk[i].val
      BY <2>1, <2>4, <3>1, <3>2
    <3>3. ASSUME NEW u \in Threads, pc[u] = "write_cache", record[ptr[u]].offset = i
          PROVE  pc'[u] = "write_cache" /\ record'[ptr'[u]].offset = i
      BY <2>1, <3>3, WritersSlot
    <3> QED
      BY <1>1, <3>1, <3>2, <3>3 DEF Copied
  <2> QED
    BY <1>2, <2>1, <2>2, <2>5, <2>6 DEF Copied
<1>4. CASE WriteFile(t)
  <2>1. /\ pc[t] = "write" /\ cache' = cache /\ pc'[t] = "write_cache"
        /\ disk' = [disk EXCEPT ![record[ptr[t]].offset].val = call[t].val]
        /\ record' = record /\ ptr' = ptr
    BY <1>1, <1>4 DEF WriteFile, Goto, TypeOK, tables
  <2>2. Len(disk') = Len(disk) /\ \A i \in 1 .. Len(disk) : i # record[ptr[t]].offset => disk'[i] = disk[i]
    BY <1>1, <2>1
  <2>3. \A u \in Threads : pc'[u] \in {"free", "reload"} <=> pc[u] \in {"free", "reload"}
    BY <1>1, <2>1 DEF OnlyOf
  <2>4. Len(cache) <= Len(disk)
    BY <1>1 DEF Copied
  <2>5. ASSUME NEW i \in 1 .. Len(cache')
        PROVE  cache'[i] = disk'[i].val \/ \E u \in Threads : pc'[u] = "write_cache" /\ record'[ptr'[u]].offset = i
    <3>1. CASE i = record[ptr[t]].offset
      BY <2>1, <3>1
    <3>2. CASE i # record[ptr[t]].offset
      <4>1. i \in 1 .. Len(cache) /\ i \in 1 .. Len(disk)
        BY <1>1, <2>1, <2>4
      <4>2. CASE cache[i] = disk[i].val
        BY <2>1, <2>2, <3>2, <4>1, <4>2
      <4>3. ASSUME NEW u \in Threads, pc[u] = "write_cache", record[ptr[u]].offset = i
            PROVE  pc'[u] = "write_cache" /\ record'[ptr'[u]].offset = i
        BY <2>1, <4>3, WritersSlot
      <4> QED
        BY <1>1, <4>1, <4>2, <4>3 DEF Copied
    <3> QED
      BY <3>1, <3>2
  <2>6. \A u \in Threads : u # t => pc'[u] = pc[u]
    BY <1>1 DEF OnlyOf
  <2> QED
    BY <1>1, <2>1, <2>2, <2>3, <2>5, <2>6 DEF Copied
<1>5. CASE FreeCache(t)
  <2>1. pc[t] = "free" /\ cache' = <<>> /\ disk' = disk /\ pc'[t] = "reload"
    BY <1>1, <1>5 DEF FreeCache, Goto, TypeOK
  <2>2. cacheLock = t /\ Len(cache') = 0
    BY <1>1, <2>1 DEF Guarded, Guards
  <2> QED
    BY <1>2, <2>1, <2>2 DEF Copied
<1>6. CASE UpdateBufferCache(t)
  <2>1. pc[t] = "reload" /\ cache' = [i \in DOMAIN disk |-> disk[i].val] /\ disk' = disk /\ pc'[t] = "search"
    BY <1>1, <1>6 DEF UpdateBufferCache, ValuesOf, Goto, Enter, TypeOK
  <2>2. cacheLock = t
    BY <1>1, <2>1 DEF Guarded, Guards
  <2>3. Len(cache') = Len(disk) /\ \A i \in 1 .. Len(disk) : cache'[i] = disk[i].val
    BY <1>1, <2>1
  <2> QED
    BY <1>2, <2>1, <2>2, <2>3 DEF Copied
<1>7. CASE WriteCache(t)
  <2>1. /\ pc[t] = "write_cache" /\ pc'[t] = "search" /\ disk' = disk /\ record' = record /\ ptr' = ptr
        /\ cache' = IF cache = <<>> THEN cache ELSE [cache EXCEPT ![record[ptr[t]].offset] = call[t].val]
    BY <1>1, <1>7 DEF WriteCache, Goto, Enter, TypeOK, tables
  <2>2. record[ptr[t]].offset = SlotOf(Key(t)) /\ disk[SlotOf(Key(t))].val = call[t].val
    BY <1>1, <2>1, AtOwn DEF Pointing, Storing, HandlerInv, Finds
  <2>3. /\ Len(cache') = Len(cache)
        /\ \A i \in 1 .. Len(cache) : cache'[i] = IF i = record[ptr[t]].offset THEN call[t].val ELSE cache[i]
    <3>1. CASE cache = <<>>
      BY <2>1, <3>1
    <3>2. CASE cache # <<>>
      <4>1. cache \in Seq(Values)
        BY <1>1 DEF TypeOK
      <4> QED
        BY <2>1, <3>2, <4>1
    <3> QED
      BY <3>1, <3>2
  <2>4. \A u \in Threads : (pc'[u] = "free" <=> pc[u] = "free") /\ (pc'[u] = "reload" <=> pc[u] = "reload")
    BY <1>1, <2>1 DEF OnlyOf
  <2>5. ASSUME NEW i \in 1 .. Len(cache')
        PROVE  cache'[i] = disk'[i].val \/ \E u \in Threads : pc'[u] = "write_cache" /\ record'[ptr'[u]].offset = i
    <3>1. CASE i = record[ptr[t]].offset
      BY <2>1, <2>2, <2>3, <3>1
    <3>2. CASE i # record[ptr[t]].offset
      <4>1. i \in 1 .. Len(cache) /\ cache'[i] = cache[i]
        BY <2>3, <3>2
      <4>2. CASE cache[i] = disk[i].val
        BY <2>1, <4>1, <4>2
      <4>3. ASSUME NEW u \in Threads, pc[u] = "write_cache", record[ptr[u]].offset = i
            PROVE  pc'[u] = "write_cache" /\ record'[ptr'[u]].offset = i
        BY <2>1, <3>2, <4>3, WritersSlot
      <4> QED
        BY <1>1, <4>1, <4>2, <4>3 DEF Copied
    <3> QED
      BY <3>1, <3>2
  <2>6. \A u \in Threads : pc[u] = "reload" => cache' = <<>>
    BY <1>1, <2>1 DEF Copied
  <2> QED
    BY <1>1, <2>1, <2>3, <2>4, <2>5, <2>6 DEF Copied
<1>8. ASSUME UNCHANGED files, pc[t] \notin {"free", "reload", "write_cache"},
             pc'[t] \notin {"free", "reload", "write_cache"}
      PROVE  Copied'
  <2>1. cache' = cache /\ disk' = disk
    BY <1>8 DEF files
  <2>2. \A u \in Threads : (pc'[u] = "free" <=> pc[u] = "free") /\ (pc'[u] = "reload" <=> pc[u] = "reload")
    BY <1>1, <1>8 DEF OnlyOf
  <2>3. ASSUME NEW i \in 1 .. Len(cache')
        PROVE  cache'[i] = disk'[i].val \/ \E u \in Threads : pc'[u] = "write_cache" /\ record'[ptr'[u]].offset = i
    <3>1. i \in 1 .. Len(cache)
      BY <2>1
    <3>2. CASE cache[i] = disk[i].val
      BY <2>1, <3>2
    <3>3. ASSUME NEW u \in Threads, pc[u] = "write_cache", record[ptr[u]].offset = i
          PROVE  pc'[u] = "write_cache" /\ record'[ptr'[u]].offset = i
      BY <1>8, <3>3, WritersSlot
    <3> QED
      BY <1>1, <3>1, <3>2, <3>3 DEF Copied
  <2> QED
    BY <1>1, <2>1, <2>2, <2>3 DEF Copied
<1>9. CASE Begin(t) \/ Search(t) \/ Create(t) \/ Lock(t) \/ LoadCheck(t) \/ Read(t) \/ Refuse(t) \/ Done(t)
  BY <1>1, <1>8, <1>9 DEF Begin, Search, Create, Lock, LoadCheck, Read, Refuse, Done, TypeOK, Goto, Enter
<1>10. CASE Delete(t) \/ Unlock(t) \/ StoreCheck(t) \/ LockCache(t) \/ LockStream(t)
  BY <1>1, <1>8, <1>10 DEF Delete, Unlock, StoreCheck, LockCache, LockStream, TypeOK, Goto, Enter
<1> QED
  BY <1>3, <1>4, <1>5, <1>6, <1>7, <1>9, <1>10 DEF Step

-----------------------------------------------------------------------------
(* What a step of t leaves true of t itself *)

(* A step that leaves the tables and the file alone leaves the record of   *)
(* the key and its slot alone.                                             *)
LEMMA SameTables ==
    ASSUME UNCHANGED <<tables, disk>>, NEW t \in Threads, call'[t] = call[t]
    PROVE  /\ Key(t)' = Key(t) /\ index'[Key(t)] = index[Key(t)]
           /\ Known(Key(t))' = Known(Key(t)) /\ SlotOf(Key(t))' = SlotOf(Key(t))
           /\ record'[index'[Key(t)]] = record[index[Key(t)]]
BY DEF tables, Known, SlotOf, Key

LEMMA SearchOwn ==
    ASSUME SInv, NEW t \in Threads, Search(t)
    PROVE  HandlerInv(t)'
<1>1. TypeOK /\ HandlerInv(t) /\ OnlyOf(t) /\ call[t] \in Procedures /\ pc[t] = "search"
  BY StepOnlyOf, AtOwn DEF SInv, Step, Search
<1>2. /\ UNCHANGED <<tables, disk>> /\ phase' = phase /\ call' = call /\ ret' = ret /\ ~Refused(t)
      /\ pc'[t] = IF index[Key(t)] # 0 THEN "use" ELSE "create"
      /\ ptr'[t] = index[Key(t)]
  BY <1>1 DEF Search, TypeOK, Goto, files
<1>3. Control(t)'
  BY <1>1, <1>2 DEF HandlerInv, Control, Refused, Storing
<1>4. Alone(t)'
  BY <1>1, <1>2, SameTables DEF HandlerInv, Alone, OnlyOf
<1>5. Holds(t)'
  BY <1>1, <1>2, SameTables DEF HandlerInv, Holds, Inside
<1>6. Points(t)'
  BY <1>1, <1>2, SameTables DEF Points, Pointing, Storing
<1>7. Finds(t)'
  BY <1>1, <1>2, SameTables DEF HandlerInv, Finds, Inside
<1> QED
  BY <1>3, <1>4, <1>5, <1>6, <1>7 DEF HandlerInv

LEMMA CreateOwn ==
    ASSUME SInv, NEW t \in Threads, Create(t)
    PROVE  HandlerInv(t)'
<1>1. /\ TypeOK /\ HandlerInv(t) /\ OnlyOf(t) /\ call[t] \in Procedures /\ pc[t] = "create"
      /\ Key(t) \in Keys /\ NoThread \notin Threads
  BY StepOnlyOf, AtOwn, AnswerAssumption DEF SInv, Step, Create
<1>2. disk' = disk /\ phase' = phase /\ call' = call /\ ret' = ret /\ pc'[t] = "use"
  BY <1>1 DEF Create, TypeOK, Goto, files
<1>3. Control(t)'
  BY <1>1, <1>2 DEF HandlerInv, Control, Storing
<1>4. CASE index[Key(t)] # 0
  <2>1. UNCHANGED tables /\ ptr'[t] = index[Key(t)]
    BY <1>1, <1>4 DEF Create, TypeOK
  <2>2. Alone(t)'
    BY <1>1, <1>2, <2>1, SameTables DEF HandlerInv, Alone, OnlyOf
  <2>3. Holds(t)'
    BY <1>1, <1>2, <2>1, SameTables DEF HandlerInv, Holds, Inside
  <2>4. Points(t)'
    BY <1>1, <1>2, <1>4, <2>1, SameTables DEF Points
  <2>5. Finds(t)'
    BY <1>1, <1>2, <2>1, SameTables DEF HandlerInv, Finds, Inside
  <2> QED
    BY <1>3, <2>2, <2>3, <2>4, <2>5 DEF HandlerInv
<1>5. CASE index[Key(t)] = 0
  <2>1. Fresh \in Records /\ Fresh # 0
    BY <1>1, <1>5, FreshIsNew, RecordNumbers
  <2>2. /\ index'[Key(t)] = Fresh /\ record'[Fresh].offset = 0 /\ ptr'[t] = Fresh
    BY <1>1, <1>5, <2>1 DEF Create, TypeOK, NewRecord
  <2>3. Key(t)' = Key(t) /\ ~Known(Key(t)) /\ ~Known(Key(t))'
    BY <1>2, <1>5, <2>2 DEF Key, Known
  <2>4. Alone(t)'
    BY <1>1, <1>2, <2>3 DEF HandlerInv, Alone, OnlyOf
  <2>5. Inside(t)' = Inside(t) /\ (Inside(t) => call[t].drops)
    BY <1>1, <1>2, <1>5 DEF HandlerInv, Holds, Inside
  <2>6. Holds(t)'
    BY <1>1, <1>2, <2>3, <2>5 DEF HandlerInv, Holds
  <2>7. Points(t)'
    BY <1>2, <2>1, <2>2, <2>3 DEF Points
  <2>8. ~(Inside(t) /\ phase[t] = "unlock" /\ ret[t] = Succ)
    BY <1>1, <2>3 DEF HandlerInv, Finds
  <2>9. Finds(t)'
    BY <1>2, <2>5, <2>8 DEF Finds
  <2> QED
    BY <1>3, <2>4, <2>6, <2>7, <2>9 DEF HandlerInv
<1> QED
  BY <1>4, <1>5

LEMMA DeleteOwn ==
    ASSUME SInv, NEW t \in Threads, Delete(t)
    PROVE  HandlerInv(t)'
<1>1. /\ TypeOK /\ HandlerInv(t) /\ OnlyOf(t) /\ call[t] \in Procedures /\ pc[t] = "delete"
      /\ Key(t) \in Keys /\ call[t].drops /\ phase[t] \in {"access", "unlock"}
  BY StepOnlyOf, AtOwn DEF SInv, Step, Delete, HandlerInv, Control
<1>2. call' = call /\ index'[Key(t)] = 0 /\ Key(t)' = Key(t)
  BY <1>1 DEF Delete, TypeOK, Key
<1>3. \/ pc'[t] = "search" /\ phase'[t] = "unlock" /\ ret'[t] = Fail
      \/ pc'[t] = "done" /\ phase'[t] = "unlock" /\ ret'[t] = ret[t]
  BY <1>1 DEF Delete, TypeOK, Goto, Enter, Returns
<1>4. Control(t)'
  BY <1>1, <1>2, <1>3, AnswerAssumption DEF HandlerInv, Control, Storing
<1>5. Alone(t)'
  BY <1>1, <1>2 DEF HandlerInv, Alone, OnlyOf, Known
<1>6. Holds(t)' /\ Points(t)'
  BY <1>1, <1>2, <1>3 DEF Holds, Points, Pointing, Storing
<1>7. Finds(t)'
  BY <1>1, <1>2, <1>3, AnswerAssumption DEF Finds, Inside
<1> QED
  BY <1>4, <1>5, <1>6, <1>7 DEF HandlerInv

LEMMA LockOwn ==
    ASSUME SInv, NEW t \in Threads, Lock(t)
    PROVE  HandlerInv(t)'
<1>1. /\ TypeOK /\ HandlerInv(t) /\ OnlyOf(t) /\ call[t] \in Procedures /\ pc[t] = "use" /\ phase[t] = "lock"
      /\ Key(t) \in Keys /\ ptr[t] = index[Key(t)] /\ ptr[t] \in Records /\ index[Key(t)] # 0
  BY StepOnlyOf, AtOwn DEF SInv, Step, Lock, Pointing
<1>2. /\ UNCHANGED <<index, disk>> /\ call' = call /\ ret' = ret /\ ptr' = ptr
      /\ pc'[t] = "search" /\ phase'[t] = "access"
  BY <1>1 DEF Lock, TypeOK, Goto, Enter, files
<1>3. /\ call[t].op = "GET" => t \in record'[ptr[t]].readers
      /\ call[t].op = "SET" => record'[ptr[t]].writer = t
  BY <1>1 DEF Lock, TypeOK
<1>4. Known(Key(t))' = Known(Key(t)) /\ Key(t)' = Key(t)
  BY <1>1, <1>2, LockWrites DEF Known, Key
<1>5. Control(t)'
  BY <1>1, <1>2 DEF HandlerInv, Control, Storing
<1>6. Alone(t)'
  BY <1>1, <1>2, <1>4 DEF HandlerInv, Alone, OnlyOf
<1>7. Holds(t)'
  BY <1>1, <1>2, <1>3, <1>4 DEF HandlerInv, Holds
<1>8. Points(t)' /\ Finds(t)'
  BY <1>2 DEF Points, Finds, Pointing, Storing
<1> QED
  BY <1>5, <1>6, <1>7, <1>8 DEF HandlerInv

LEMMA UnlockOwn ==
    ASSUME SInv, NEW t \in Threads, Unlock(t)
    PROVE  HandlerInv(t)'
<1>1. /\ TypeOK /\ HandlerInv(t) /\ OnlyOf(t) /\ call[t] \in Procedures /\ pc[t] = "use" /\ phase[t] = "unlock"
      /\ Key(t) \in Keys /\ ptr[t] = index[Key(t)] /\ ptr[t] \in Records /\ index[Key(t)] # 0
      /\ (Known(Key(t)) <=> record[ptr[t]].offset # 0)
  BY StepOnlyOf, AtOwn DEF SInv, Step, Unlock, Pointing
<1>2. UNCHANGED <<index, disk>> /\ call' = call /\ ret' = ret /\ ptr' = ptr /\ phase' = phase
  BY <1>1 DEF Unlock, files
<1>3. Known(Key(t))' = Known(Key(t)) /\ Key(t)' = Key(t)
  BY <1>1, <1>2, LockWrites DEF Known, Key
<1>4. Alone(t)'
  BY <1>1, <1>2, <1>3 DEF HandlerInv, Alone, OnlyOf
<1>5. CASE record[ptr[t]].offset = 0
  <2>1. record' = record /\ pc'[t] = "delete"
    BY <1>1, <1>5 DEF Unlock, TypeOK, Goto
  <2>2. call[t].drops
    BY <1>1, <1>5 DEF HandlerInv, Finds, Inside
  <2>3. Control(t)'
    BY <1>1, <1>2, <2>1, <2>2 DEF HandlerInv, Control, Storing
  <2>4. Holds(t)'
    BY <1>2, <2>2 DEF Holds
  <2>5. Points(t)'
    BY <1>1, <1>2, <1>3 DEF Points
  <2>6. ret[t] # Succ
    BY <1>1, <1>5 DEF HandlerInv, Finds, Inside
  <2>7. Finds(t)'
    BY <1>2, <2>1, <2>2, <2>6 DEF Finds
  <2> QED
    BY <1>4, <2>3, <2>4, <2>5, <2>7 DEF HandlerInv
<1>6. CASE record[ptr[t]].offset # 0
  <2>1. pc'[t] = "done"
    BY <1>1, <1>6 DEF Unlock, TypeOK, Goto
  <2>2. Control(t)'
    BY <1>1, <1>2, <2>1 DEF HandlerInv, Control, Storing
  <2>3. Holds(t)'
    BY <1>1, <1>2, <1>3, <2>1 DEF HandlerInv, Holds, Inside
  <2>4. Points(t)' /\ Finds(t)'
    BY <2>1 DEF Points, Finds, Pointing, Storing, Inside
  <2> QED
    BY <1>4, <2>2, <2>3, <2>4 DEF HandlerInv
<1> QED
  BY <1>5, <1>6

(* The steps of a load and of a store that only move their handler on. *)
LEMMA LocalOwn ==
    ASSUME SInv, NEW t \in Threads,
           LoadCheck(t) \/ Read(t) \/ Refuse(t) \/ StoreCheck(t) \/ LockCache(t) \/ FreeCache(t)
             \/ UpdateBufferCache(t) \/ LockStream(t) \/ WriteCache(t)
    PROVE  HandlerInv(t)'
<1>1. /\ TypeOK /\ HandlerInv(t) /\ OnlyOf(t) /\ call[t] \in Procedures /\ pc[t] # "idle"
      /\ pc[t] \in Pointing \/ pc[t] = "search"
  BY StepOnlyOf, AtOwn DEF SInv, Step, LoadCheck, Read, Refuse, StoreCheck, LockCache, FreeCache,
     UpdateBufferCache, LockStream, WriteCache, Pointing, Storing
<1>2. UNCHANGED <<tables, disk>> /\ call' = call /\ ptr' = ptr
  BY DEF LoadCheck, Read, Refuse, StoreCheck, LockCache, FreeCache, UpdateBufferCache, LockStream,
     WriteCache, files
<1>3. /\ Key(t)' = Key(t) /\ index'[Key(t)] = index[Key(t)]
      /\ Known(Key(t))' = Known(Key(t)) /\ SlotOf(Key(t))' = SlotOf(Key(t))
      /\ record'[index[Key(t)]] = record[index[Key(t)]]
  BY <1>2, SameTables
<1>4. Alone(t)'
  BY <1>1, <1>2, <1>3 DEF HandlerInv, Alone, OnlyOf
<1>5. Inside(t) /\ pc[t] # "done" /\ phase[t] = "access"
  BY <1>1 DEF HandlerInv, Control, Inside, Storing, LoadCheck, Read, Refuse, Refused, StoreCheck, LockCache,
     FreeCache, UpdateBufferCache, LockStream, WriteCache
<1>6. Holds(t)'
  BY <1>1, <1>2, <1>3, <1>5 DEF HandlerInv, Holds
<1>7. pc'[t] \in Pointing => pc[t] \in Pointing
  BY <1>1 DEF Refuse, TypeOK, LoadCheck, Read, StoreCheck, LockCache, FreeCache, UpdateBufferCache,
     LockStream, WriteCache, Goto, Enter, Pointing, Storing
<1>8. Points(t)'
  BY <1>1, <1>2, <1>3, <1>7 DEF HandlerInv, Points
<1>9. pc[t] \in Pointing => (Known(Key(t)) <=> record[ptr[t]].offset # 0)
  BY <1>1, AtOwn
<1>10. CASE LoadCheck(t)
  <2>1. pc[t] = "use" /\ call[t].op = "GET" /\ phase' = phase /\ ret' = ret
        /\ pc'[t] = IF Known(Key(t)) THEN "read" ELSE "delete"
    BY <1>1, <1>9, <1>10 DEF LoadCheck, TypeOK, Goto, Pointing
  <2>2. call[t].val = TooLong /\ (~Known(Key(t)) => call[t].drops)
    BY <1>1, <2>1 DEF HandlerInv, Control, Holds
  <2>3. Control(t)'
    BY <1>1, <1>2, <1>5, <2>1, <2>2 DEF HandlerInv, Control, Storing
  <2>4. Finds(t)'
    BY <1>3, <1>5, <2>1 DEF Finds
  <2> QED
    BY <1>4, <1>6, <1>8, <2>3, <2>4 DEF HandlerInv
<1>11. CASE Read(t)
  <2>1. pc[t] = "read" /\ pc'[t] = "search" /\ phase'[t] = "unlock" /\ ret'[t] = cache[record[ptr[t]].offset]
    BY <1>1, <1>11 DEF Read, TypeOK, Goto, Enter, Returns
  <2>2. cache[record[ptr[t]].offset] \in Values
    BY <1>1, <1>11, ReadsOwn DEF TypeOK
  <2>3. ret'[t] # Succ
    BY <2>1, <2>2, AnswerAssumption
  <2>4. Control(t)'
    BY <1>1, <1>2, <2>1, <2>3 DEF HandlerInv, Control, Storing
  <2>5. Finds(t)'
    BY <1>1, <1>3, <2>1, <2>3 DEF HandlerInv, Finds
  <2> QED
    BY <1>4, <1>6, <1>8, <2>4, <2>5 DEF HandlerInv
<1>12. CASE Refuse(t)
  <2>1. pc[t] = "search" /\ pc'[t] = "search" /\ phase'[t] = "unlock" /\ ret'[t] = Fail /\ call[t].val = TooLong
    BY <1>1, <1>12 DEF Refuse, Refused, TypeOK, Goto, Enter, Returns
  <2>2. Control(t)'
    BY <1>1, <1>2, <2>1, AnswerAssumption DEF HandlerInv, Control, Storing
  <2>3. ~call[t].drops => Known(Key(t))
    BY <1>1, <2>1 DEF HandlerInv, Holds
  <2>4. Finds(t)'
    BY <1>2, <1>3, <2>1, <2>3, AnswerAssumption DEF Finds
  <2> QED
    BY <1>4, <1>6, <1>8, <2>2, <2>4 DEF HandlerInv
<1>13. CASE StoreCheck(t)
  <2>1. pc[t] = "use" /\ call[t].op = "SET" /\ phase' = phase /\ ret' = ret
        /\ pc'[t] = IF Known(Key(t)) THEN "stream_lock" ELSE "cache_lock"
    BY <1>1, <1>9, <1>13 DEF StoreCheck, TypeOK, Goto, Pointing
  <2>2. Control(t)'
    BY <1>1, <1>2, <1>5, <2>1 DEF HandlerInv, Control, Storing
  <2>3. Finds(t)'
    BY <1>3, <1>5, <2>1 DEF Finds
  <2> QED
    BY <1>4, <1>6, <1>8, <2>2, <2>3 DEF HandlerInv
<1>14. CASE LockCache(t) \/ FreeCache(t) \/ LockStream(t)
  <2>1. /\ phase' = phase /\ ret' = ret
        /\ <<pc[t], pc'[t]>> \in {<<"cache_lock", "append">>, <<"free", "reload">>, <<"stream_lock", "write">>}
    BY <1>1, <1>14 DEF LockCache, FreeCache, LockStream, TypeOK, Goto
  <2>2. Control(t)'
    BY <1>1, <1>2, <2>1 DEF HandlerInv, Control, Storing
  <2>3. Finds(t)'
    BY <1>1, <1>2, <1>3, <1>5, <2>1 DEF HandlerInv, Finds
  <2> QED
    BY <1>4, <1>6, <1>8, <2>2, <2>3 DEF HandlerInv
<1>15. CASE UpdateBufferCache(t) \/ WriteCache(t)
  <2>1. pc[t] \in {"reload", "write_cache"} /\ pc'[t] = "search" /\ phase'[t] = "unlock"
    BY <1>1, <1>15 DEF UpdateBufferCache, WriteCache, TypeOK, Goto, Enter
  <2>2. Control(t)'
    BY <1>1, <1>2, <2>1 DEF HandlerInv, Control, Storing
  <2>3. Finds(t)'
    BY <1>1, <1>2, <1>3, <2>1 DEF HandlerInv, Finds
  <2> QED
    BY <1>4, <1>6, <1>8, <2>2, <2>3 DEF HandlerInv
<1> QED
  BY <1>10, <1>11, <1>12, <1>13, <1>14, <1>15

LEMMA AddRecordOwn ==
    ASSUME SInv, NEW t \in Threads, AddRecord(t)
    PROVE  HandlerInv(t)'
<1>1. /\ TypeOK /\ HandlerInv(t) /\ OnlyOf(t) /\ call[t] \in Procedures /\ pc[t] = "append"
      /\ Key(t) \in Keys /\ ptr[t] = index[Key(t)] /\ ptr[t] \in Records /\ index[Key(t)] # 0
      /\ disk \in Seq(SlotSet) /\ Len(disk) \in Nat
  <2>1. TypeOK /\ HandlerInv(t) /\ OnlyOf(t) /\ pc[t] = "append"
    BY StepOnlyOf DEF SInv, Step, AddRecord
  <2>2. /\ call[t] \in Procedures /\ Key(t) \in Keys
        /\ ptr[t] = index[Key(t)] /\ ptr[t] \in Records /\ index[Key(t)] # 0
    BY <2>1, AtOwn DEF Pointing, Storing
  <2>3. disk \in Seq(SlotSet) /\ Len(disk) \in Nat
    BY <2>1 DEF TypeOK, SlotSet
  <2> QED
    BY <2>1, <2>2, <2>3
<1>2. /\ UNCHANGED <<index, ptr, call, ret, phase>> /\ pc'[t] = "free"
      /\ disk' = Append(disk, [key |-> Key(t), val |-> call[t].val])
      /\ record' = [record EXCEPT ![ptr[t]].offset = Len(disk) + 1]
  BY <1>1 DEF AddRecord, TypeOK, Goto
<1>3. /\ record'[ptr[t]].offset = Len(disk) + 1
      /\ record'[ptr[t]].writer = record[ptr[t]].writer /\ record'[ptr[t]].readers = record[ptr[t]].readers
  <2> DEFINE n == Len(disk) + 1
  <2> HIDE DEF n
  <2>1. record' = [record EXCEPT ![ptr[t]].offset = n]
    BY <1>2 DEF n
  <2>2. /\ record'[ptr[t]].offset = n
        /\ record'[ptr[t]].writer = record[ptr[t]].writer /\ record'[ptr[t]].readers = record[ptr[t]].readers
    BY <1>1, <2>1 DEF TypeOK
  <2> QED
    BY <2>2 DEF n
<1>4. Key(t)' = Key(t) /\ SlotOf(Key(t))' = Len(disk) + 1
  BY <1>1, <1>2, <1>3 DEF Key, SlotOf
<1>5. Known(Key(t))'
  <2>1. Len(disk) + 1 # 0
    BY <1>1
  <2> QED
    BY <1>1, <1>2, <1>3, <1>4, <2>1 DEF Known
<1>6. disk'[Len(disk) + 1] = [key |-> Key(t), val |-> call[t].val]
  BY <1>1, <1>2
<1>7. Control(t)'
  BY <1>1, <1>2 DEF HandlerInv, Control, Storing
<1>8. ~call[t].drops /\ phase[t] = "access"
  BY <1>1 DEF HandlerInv, Control, Alone, Storing
<1>9. Alone(t)'
  BY <1>2, <1>8 DEF Alone
<1>10. Holds(t)'
  BY <1>1, <1>2, <1>3, <1>4, <1>5 DEF HandlerInv, Holds, Inside
<1>11. Points(t)'
  BY <1>1, <1>2, <1>4 DEF Points
<1>12. Finds(t)'
  <2>1. disk'[SlotOf(Key(t))'] = [key |-> Key(t)', val |-> call'[t].val]
    BY <1>2, <1>4, <1>6
  <2> QED
    BY <1>2, <1>5, <2>1 DEF Finds
<1> QED
  BY <1>7, <1>9, <1>10, <1>11, <1>12 DEF HandlerInv

LEMMA WriteFileOwn ==
    ASSUME SInv, NEW t \in Threads, WriteFile(t)
    PROVE  HandlerInv(t)'
<1>1. /\ TypeOK /\ HandlerInv(t) /\ OnlyOf(t) /\ call[t] \in Procedures /\ pc[t] = "write" /\ Tables
      /\ Key(t) \in Keys /\ record[ptr[t]].offset = SlotOf(Key(t)) /\ Known(Key(t))
      /\ disk \in Seq(SlotSet)
  <2>1. TypeOK /\ HandlerInv(t) /\ OnlyOf(t) /\ pc[t] = "write" /\ Tables
    BY StepOnlyOf DEF SInv, Step, WriteFile
  <2>2. call[t] \in Procedures /\ Key(t) \in Keys /\ record[ptr[t]].offset = SlotOf(Key(t))
    BY <2>1, AtOwn DEF Pointing, Storing
  <2>3. Known(Key(t)) /\ disk \in Seq(SlotSet)
    BY <2>1 DEF HandlerInv, Finds, TypeOK, SlotSet
  <2> QED
    BY <2>1, <2>2, <2>3
<1>2. /\ UNCHANGED <<index, record, ptr, call, ret, phase>> /\ pc'[t] = "write_cache"
      /\ disk' = [disk EXCEPT ![SlotOf(Key(t))].val = call[t].val]
  BY <1>1 DEF WriteFile, TypeOK, Goto, tables
<1>3. /\ Key(t)' = Key(t) /\ SlotOf(Key(t))' = SlotOf(Key(t)) /\ Known(Key(t))'
      /\ SlotOf(Key(t)) \in 1 .. Len(disk) /\ disk[SlotOf(Key(t))].key = Key(t)
  BY <1>1, <1>2 DEF Key, SlotOf, Known, Tables
<1>4. disk'[SlotOf(Key(t))] = [key |-> Key(t), val |-> call[t].val]
  <2> DEFINE o == SlotOf(Key(t))
  <2>1. disk[o] \in SlotSet /\ o \in DOMAIN disk
    BY <1>1, <1>3
  <2>2. disk'[o] = [disk[o] EXCEPT !.val = call[t].val]
    BY <1>2, <2>1
  <2> HIDE DEF o
  <2>3. [disk[o] EXCEPT !.val = call[t].val] = [key |-> disk[o].key, val |-> call[t].val]
    BY <2>1 DEF SlotSet
  <2> QED
    BY <1>3, <2>2, <2>3 DEF o
<1>5. Control(t)'
  BY <1>1, <1>2 DEF HandlerInv, Control, Storing
<1>6. Alone(t)'
  BY <1>1, <1>2 DEF HandlerInv, Control, Alone, Storing
<1>7. Holds(t)' /\ Points(t)'
  BY <1>1, <1>2, <1>3 DEF HandlerInv, Holds, Points, Inside, Pointing, Storing
<1>8. Finds(t)'
  <2>1. disk'[SlotOf(Key(t))'] = [key |-> Key(t)', val |-> call'[t].val]
    BY <1>2, <1>3, <1>4
  <2> QED
    BY <1>2, <1>3, <2>1 DEF Finds
<1> QED
  BY <1>5, <1>6, <1>7, <1>8 DEF HandlerInv

LEMMA DoneOwn ==
    ASSUME SInv, NEW t \in Threads, Done(t)
    PROVE  HandlerInv(t)'
<1>1. /\ pc'[t] = "idle" /\ phase'[t] = "lock" /\ call'[t] = NoCall /\ ptr'[t] = 0 /\ ret'[t] = Fail
  BY DEF SInv, TypeOK, Done, Goto
<1>2. ~NoCall.drops
  BY DEF NoCall
<1> QED
  BY <1>1, <1>2 DEF HandlerInv, Control, Alone, Holds, Points, Finds, Inside, Pointing, Storing

LEMMA BeginHandlers ==
    ASSUME SInv, Undisturbed, NEW t \in Threads, Begin(t)
    PROVE  \A u \in Threads : HandlerInv(u)'
<1>1. /\ TypeOK /\ OnlyOf(t) /\ call \in [Threads -> Procedures \cup {NoCall}]
      /\ \A u \in Threads : HandlerInv(u)
  BY StepOnlyOf DEF SInv, Step
<1>2. PICK op \in {"GET", "SET"}, k \in Keys, v \in Values \cup {TooLong} :
        /\ op = "GET" => v = TooLong
        /\ ~Racing => /\ ~Known(k) /\ v = TooLong => \A u \in Threads : ~Busy(u)
                      /\ \A u \in Threads : ~call[u].drops
        /\ call' = [call EXCEPT ![t] = [op |-> op, key |-> k, val |-> v, drops |-> ~Known(k) /\ v = TooLong]]
  BY DEF Begin
<1>3. /\ pc[t] = "idle" /\ UNCHANGED <<tables, disk>> /\ ptr' = ptr /\ ret' = ret
      /\ pc'[t] = "search" /\ phase'[t] = "lock"
  BY <1>1 DEF Begin, TypeOK, Goto, Enter, files
<1>4. Racing => \A l \in Keys : Known(l)
  BY DEF Undisturbed, SInv, AllKnown
<1>5. ASSUME NEW u \in Threads, u # t PROVE HandlerInv(u)'
  <2>1. ~call[u].drops
    <3> SUFFICES ASSUME call[u].drops PROVE FALSE
      OBVIOUS
    <3>1. Racing /\ ~Known(Key(u))
      BY <1>1, <1>2 DEF HandlerInv, Alone
    <3>2. call[u] # NoCall
      <4>1. ~NoCall.drops
        BY DEF NoCall
      <4> QED
        BY <4>1
    <3>3. Key(u) \in Keys
      BY <1>1, <3>2 DEF Key, Procedures
    <3> QED
      BY <1>4, <3>1, <3>3
  <2>2. KeptFor(u)
    BY <1>3 DEF KeptFor, tables, Known
  <2> QED
    BY <1>1, <1>5, <2>1, <2>2, Frame DEF OnlyOf
<1>6. HandlerInv(t)'
  <2>1. call'[t] = [op |-> op, key |-> k, val |-> v, drops |-> ~Known(k) /\ v = TooLong]
    BY <1>1, <1>2
  <2>2. /\ call'[t].op = op /\ call'[t].key = k /\ call'[t].val = v /\ Key(t)' = k
        /\ call'[t].drops <=> (~Known(k) /\ v = TooLong)
    <3> DEFINE d == ~Known(k) /\ v = TooLong
    <3>1. d \in BOOLEAN /\ call'[t] = [op |-> op, key |-> k, val |-> v, drops |-> d]
      BY <2>1
    <3> HIDE DEF d
    <3>2. /\ call'[t].op = op /\ call'[t].key = k /\ call'[t].val = v /\ call'[t].drops = d
      BY <3>1
    <3> QED
      BY <3>2 DEF Key, d
  <2>3. call'[t] \in Procedures
    BY <2>1 DEF Procedures
  <2>4. Known(k)' = Known(k)
    BY <1>3 DEF Known, tables
  <2>5. ret'[t] = Fail
    BY <1>1, <1>3 DEF HandlerInv, Control
  <2>6. Control(t)'
    BY <1>2, <1>3, <2>2, <2>3, <2>5 DEF Control, Storing
  <2>7. Alone(t)'
    <3> SUFFICES ASSUME ~Known(k), v = TooLong
                 PROVE  \A u \in Threads : u # t => pc'[u] = "idle"
      BY <2>2, <2>4 DEF Alone
    <3>1. ~Racing
      BY <1>4
    <3> QED
      BY <1>1, <1>2, <3>1 DEF OnlyOf, Busy
  <2>8. Holds(t)'
    BY <1>3, <2>2, <2>4 DEF Holds, Inside
  <2>9. Points(t)' /\ Finds(t)'
    BY <1>3 DEF Points, Finds, Pointing, Storing, Inside
  <2> QED
    BY <2>6, <2>7, <2>8, <2>9 DEF HandlerInv
<1> QED
  BY <1>5, <1>6

LEMMA StepHandlers ==
    ASSUME SInv, Undisturbed, NEW t \in Threads, Step(t)
    PROVE  \A u \in Threads : HandlerInv(u)'
<1>1. CASE Begin(t)
  BY <1>1, BeginHandlers
<1>2. CASE ~Begin(t)
  <2>1. pc[t] # "idle"
    BY <1>2 DEF Step, Search, Create, Delete, Lock, Unlock, LoadCheck, Read, Refuse, StoreCheck,
       LockCache, AddRecord, FreeCache, UpdateBufferCache, LockStream, WriteFile, WriteCache, Done
  <2>2. \A u \in Threads : u # t => HandlerInv(u)'
    BY <2>1, StepOnlyOf, StepKeeps, Others
  <2>3. HandlerInv(t)'
    BY <1>2, SearchOwn, CreateOwn, DeleteOwn, LockOwn, UnlockOwn, LocalOwn, AddRecordOwn, WriteFileOwn,
       DoneOwn DEF Step
  <2> QED
    BY <2>2, <2>3
<1> QED
  BY <1>1, <1>2

LEMMA NextSInv ==
    ASSUME Undisturbed
    PROVE  SInv /\ [Next]_vars => SInv'
<1> SUFFICES ASSUME SInv, [Next]_vars PROVE SInv'
  OBVIOUS
<1>1. ASSUME NEW t \in Threads, Step(t) PROVE SInv'
  BY <1>1, StepTypes, StepHandlers, StepTables, StepGuarded, StepCopied, StepAllKnown DEF SInv
<1>2. CASE Crash
  BY <1>2, CrashSInv
<1>3. CASE UNCHANGED vars
  <2>1. /\ UNCHANGED <<disk, cache, index, record, mutex, cacheLock, pc, phase, call, ptr, ret>>
    BY <1>3 DEF vars, tables, files, guards
  <2>2. TypeOK' /\ call' \in [Threads -> Procedures \cup {NoCall}]
    BY <2>1 DEF SInv, TypeOK
  <2>3. \A t \in Threads : HandlerInv(t)'
    BY <2>1, SMTT(30) DEF SInv, HandlerInv, Control, Alone, Holds, Points, Finds, Inside, Known, Key, SlotOf
  <2>4. Tables' /\ Guarded' /\ Copied' /\ AllKnown'
    BY <2>1 DEF SInv, Tables, Guarded, Guards, Copied, AllKnown, Known, SlotOf
  <2> QED
    BY <2>2, <2>3, <2>4 DEF SInv
<1> QED
  BY <1>1, <1>2, <1>3 DEF Next, Quiet

THEOREM Invariant ==
    ASSUME Undisturbed
    PROVE  Spec => []SInv
<1>1. Init => SInv
  BY InitStarted, StartedSInv
<1>2. SInv /\ [Next]_vars => SInv'
  BY NextSInv
<1> QED
  BY <1>1, <1>2, PTL DEF Spec

-----------------------------------------------------------------------------
(* Types: every record that a key or a handler has points into the file,   *)
(* in every state of any number of handlers, keys and calls.               *)
THEOREM TypeCorrect ==
    ASSUME Undisturbed
    PROVE  Spec => []TypeOK
<1>1. SInv => TypeOK
  BY DEF SInv
<1>2. Spec => []SInv
  BY Invariant
<1> QED
  BY <1>1, <1>2, PTL

(* Two handlers with the lock of one key hold the same record, whose lock  *)
(* admits several only for loads.                                          *)
LEMMA SInvExcludes == SInv => KeysExclude
  BY Exclusive DEF KeysExclude

(* Although lock, access and unlock each look the record of the key up     *)
(* again, two handlers inside storage_load and storage_store of one key    *)
(* both load.                                                              *)
THEOREM LocksExclude ==
    ASSUME Undisturbed
    PROVE  Spec => []KeysExclude
<1>1. Spec => []SInv
  BY Invariant
<1> QED
  BY <1>1, SInvExcludes, PTL

(* A store that has answered MSG_SUCC is in the file, where the index      *)
(* finds it, until its handler gives the lock back.                        *)
THEOREM StoresAreFound ==
    ASSUME Undisturbed
    PROVE  Spec => []StoredIsFound
<1>1. SInv => StoredIsFound
  <2> SUFFICES ASSUME SInv, NEW t \in Threads, Inside(t), phase[t] = "unlock", ret[t] = Succ
               PROVE  /\ Known(Key(t))
                      /\ disk[record[index[Key(t)]].offset] = [key |-> Key(t), val |-> call[t].val]
    BY DEF StoredIsFound
  <2> QED
    BY DEF SInv, HandlerInv, Finds, SlotOf
<1>2. Spec => []SInv
  BY Invariant
<1> QED
  BY <1>1, <1>2, PTL

(* Concurrent stores of one new key make one slot of it.                   *)
THEOREM SlotsAreUnique ==
    ASSUME Undisturbed
    PROVE  Spec => []OneSlotPerKey
<1>1. SInv => OneSlotPerKey
  <2> SUFFICES ASSUME SInv, NEW k \in Keys PROVE Cardinality(Slots(k)) <= 1
    BY DEF OneSlotPerKey
  <2>1. \A i, j \in Slots(k) : i = j
    <3>1. disk \in Seq(SlotSet)
      BY DEF SInv, TypeOK, SlotSet
    <3>2. DOMAIN disk = 1 .. Len(disk)
      BY <3>1
    <3> QED
      BY <3>2 DEF SInv, Tables, Slots
  <2>2. CASE Slots(k) = {}
    BY <2>2, FS_EmptySet
  <2>3. CASE Slots(k) # {}
    <3>1. PICK i : Slots(k) = {i}
      BY <2>1, <2>3
    <3> QED
      BY <3>1, FS_Singleton
  <2> QED
    BY <2>2, <2>3
<1>2. Spec => []SInv
  BY Invariant
<1> QED
  BY <1>1, <1>2, PTL

-----------------------------------------------------------------------------
(* The refinement: each step is one of KeyValue or leaves its state alone *)

valueBar  == [k \in Keys |-> StoredValue(k)]
stageBar  == [t \in Threads |-> Stage(t)]
callBar   == [t \in Threads |-> [op |-> call[t].op, key |-> call[t].key, val |-> call[t].val]]
answerBar == [t \in Threads |-> Answer(t)]

(* The map has under a key what the slot of the key has. *)
LEMMA ValueIs ==
    SInv => \A k \in Keys : StoredValue(k) = IF Known(k) THEN disk[SlotOf(k)].val ELSE NoThread
<1> SUFFICES ASSUME SInv, NEW k \in Keys
             PROVE  StoredValue(k) = IF Known(k) THEN disk[SlotOf(k)].val ELSE NoThread
  OBVIOUS
<1>1. DOMAIN disk = 1 .. Len(disk)
  <2>1. disk \in Seq(SlotSet)
    BY DEF SInv, TypeOK, SlotSet
  <2> QED
    BY <2>1
<1>2. CASE Known(k)
  <2>1. SlotOf(k) \in Slots(k) /\ \A i \in Slots(k) : i = SlotOf(k)
    BY <1>1, <1>2 DEF SInv, Tables, Slots
  <2>2. Slots(k) = {SlotOf(k)}
    BY <2>1
  <2>3. (CHOOSE i \in Slots(k) : TRUE) = SlotOf(k)
    BY <2>2
  <2> QED
    BY <1>2, <2>2, <2>3 DEF StoredValue
<1>3. CASE ~Known(k)
  <2>1. Slots(k) = {}
    <3> SUFFICES ASSUME NEW i \in Slots(k) PROVE FALSE
      OBVIOUS
    <3>1. i \in 1 .. Len(disk) /\ disk[i].key = k
      BY <1>1 DEF Slots
    <3>2. index[k] # 0 /\ SlotOf(k) = i /\ i # 0
      BY <3>1 DEF SInv, Tables
    <3> QED
      BY <1>3, <3>2 DEF Known, SlotOf
  <2> QED
    BY <1>3, <2>1 DEF StoredValue
<1> QED
  BY <1>2, <1>3

LEMMA StageIs ==
    ASSUME NEW t \in Threads
    PROVE  /\ pc[t] = "idle" => Stage(t) = "idle"
           /\ pc[t] = "done" => Stage(t) = "unlocked"
           /\ pc[t] \notin {"idle", "done"} /\ phase[t] = "lock" => Stage(t) = "waiting"
           /\ pc[t] \notin {"idle", "done", "free", "reload", "write_cache"} /\ phase[t] = "access" => Stage(t) = "locked"
           /\ pc[t] \in {"free", "reload", "write_cache"} /\ phase[t] \in {"access", "unlock"} => Stage(t) = "answered"
           /\ pc[t] \notin {"idle", "done"} /\ phase[t] = "unlock" => Stage(t) = "answered"
BY DEF Stage, Inside, TookEffect

LEMMA NextStageIs ==
    ASSUME NEW t \in Threads
    PROVE  /\ pc'[t] = "idle" => Stage(t)' = "idle"
           /\ pc'[t] = "done" => Stage(t)' = "unlocked"
           /\ pc'[t] \notin {"idle", "done"} /\ phase'[t] = "lock" => Stage(t)' = "waiting"
           /\ pc'[t] \notin {"idle", "done", "free", "reload", "write_cache"} /\ phase'[t] = "access" => Stage(t)' = "locked"
           /\ pc'[t] \in {"free", "reload", "write_cache"} /\ phase'[t] \in {"access", "unlock"} => Stage(t)' = "answered"
           /\ pc'[t] \notin {"idle", "done"} /\ phase'[t] = "unlock" => Stage(t)' = "answered"
BY DEF Stage, Inside, TookEffect

LEMMA BarsFrame ==
    ASSUME NEW t \in Threads, OnlyOf(t)
    PROVE  /\ stageBar' = [stageBar EXCEPT ![t] = Stage(t)']
           /\ answerBar' = [answerBar EXCEPT ![t] = Answer(t)']
           /\ call' = call => callBar' = callBar
           /\ disk' = disk => valueBar' = valueBar
<1>1. \A u \in Threads : u # t => Stage(u)' = Stage(u) /\ Answer(u)' = Answer(u)
  BY DEF OnlyOf, Stage, Answer, Inside, TookEffect
<1>2. stageBar' = [stageBar EXCEPT ![t] = Stage(t)']
  BY <1>1 DEF stageBar
<1>3. answerBar' = [answerBar EXCEPT ![t] = Answer(t)']
  BY <1>1 DEF answerBar
<1>4. call' = call => callBar' = callBar
  BY DEF callBar
<1>5. disk' = disk => valueBar' = valueBar
  BY DEF valueBar, StoredValue, Slots
<1> QED
  BY <1>2, <1>3, <1>4, <1>5

(* A store in the file changes the value of its own key. *)
LEMMA StoreValue ==
    ASSUME SInv, SInv', NEW t \in Threads, AddRecord(t) \/ WriteFile(t)
    PROVE  /\ Key(t) \in Keys /\ call[t].val \in Values
           /\ valueBar' = [valueBar EXCEPT ![Key(t)] = call[t].val]
<1>1. /\ TypeOK /\ HandlerInv(t) /\ Tables /\ Key(t) \in Keys /\ call[t].val \in Values
      /\ disk \in Seq(SlotSet) /\ Len(disk) \in Nat /\ ptr[t] = index[Key(t)] /\ ptr[t] \in Records
  <2>1. TypeOK /\ HandlerInv(t) /\ Tables /\ pc[t] \in {"append", "write"}
    BY DEF SInv, AddRecord, WriteFile
  <2>2. call[t] \in Procedures /\ Key(t) \in Keys /\ ptr[t] = index[Key(t)] /\ ptr[t] \in Records
    BY <2>1, AtOwn DEF Pointing, Storing
  <2>3. call[t].val \in Values
    BY <2>1, <2>2 DEF HandlerInv, Control, Storing, Procedures
  <2>4. disk \in Seq(SlotSet) /\ Len(disk) \in Nat
    BY <2>1 DEF TypeOK, SlotSet
  <2> QED
    BY <2>1, <2>2, <2>3, <2>4
<1>2. \A k \in Keys : StoredValue(k)' = IF Known(k)' THEN disk'[SlotOf(k)'].val ELSE NoThread
  <2>1. (\A k \in Keys : StoredValue(k) = IF Known(k) THEN disk[SlotOf(k)].val ELSE NoThread)'
    BY ValueIs, PTL
  <2> QED
    BY <2>1
<1>3. StoredValue(Key(t))' = call[t].val
  <2>1. HandlerInv(t)' /\ pc'[t] \in {"free", "write_cache"} /\ call' = call
    BY <1>1 DEF SInv, AddRecord, WriteFile, TypeOK, Goto
  <2>2. Known(Key(t))' /\ disk'[SlotOf(Key(t))'] = [key |-> Key(t)', val |-> call'[t].val]
    BY <2>1 DEF HandlerInv, Finds
  <2> DEFINE k == Key(t)
  <2>3. Known(k)' /\ disk'[SlotOf(k)'].val = call[t].val
    BY <2>1, <2>2 DEF Key
  <2>4. PICK l \in Keys : l = Key(t) /\ Key(t)' = l
    BY <1>1, <2>1 DEF Key
  <2>5. Known(l)' /\ disk'[SlotOf(l)'].val = call[t].val
    BY <2>1, <2>2, <2>4 DEF Known, SlotOf, Key
  <2>6. StoredValue(l)' = call[t].val
    BY <1>2, <2>5
  <2> QED
    BY <2>4, <2>6 DEF StoredValue, Slots
<1>4. ASSUME NEW k \in Keys, k # Key(t) PROVE StoredValue(k)' = StoredValue(k)
  <2>1. StoredValue(k) = IF Known(k) THEN disk[SlotOf(k)].val ELSE NoThread
    BY ValueIs
  <2>2. CASE Known(k)
    <3>1. Step(t)
      BY DEF Step
    <3>2. index'[k] = index[k] /\ record'[index[k]].offset = SlotOf(k) /\ SlotOf(k) # 0
      BY <2>2, <3>1, StepKnown
    <3>3. SlotOf(k)' = SlotOf(k) /\ Known(k)'
      BY <2>2, <3>2 DEF SlotOf, Known
    <3>4. SlotOf(k) \in 1 .. Len(disk) /\ disk[SlotOf(k)].key = k
      BY <1>1, <2>2 DEF Tables
    <3>5. CASE AddRecord(t)
      <4>1. disk' = Append(disk, [key |-> Key(t), val |-> call[t].val])
        BY <3>5 DEF AddRecord
      <4>2. disk'[SlotOf(k)] = disk[SlotOf(k)]
        BY <1>1, <3>4, <4>1
      <4> QED
        BY <1>2, <2>1, <2>2, <3>3, <4>2
    <3>6. CASE WriteFile(t)
      <4>1. disk' = [disk EXCEPT ![record[ptr[t]].offset].val = call[t].val] /\ pc[t] = "write"
        BY <3>6 DEF WriteFile
      <4>2. record[ptr[t]].offset = SlotOf(Key(t)) /\ disk[SlotOf(Key(t))].key = Key(t)
        BY <1>1, <4>1 DEF HandlerInv, Finds, SlotOf, Tables
      <4>3. disk'[SlotOf(k)] = disk[SlotOf(k)]
        BY <1>1, <1>4, <3>4, <4>1, <4>2
      <4> QED
        BY <1>2, <2>1, <2>2, <3>3, <4>3
    <3> QED
      BY <3>5, <3>6
  <2>3. CASE ~Known(k)
    <3>1. index' = index /\ (index[k] # 0 => record'[index[k]].offset = record[index[k]].offset)
      <4>1. CASE WriteFile(t)
        BY <4>1 DEF WriteFile, tables
      <4>2. CASE AddRecord(t)
        <5>1. /\ index' = index /\ record' = [record EXCEPT ![ptr[t]].offset = Len(disk) + 1]
          BY <4>2 DEF AddRecord
        <5>2. index[k] # 0 => index[k] # ptr[t] /\ index[k] \in Records
          BY <1>1, <1>4 DEF Tables, TypeOK
        <5> QED
          BY <1>1, <5>1, <5>2 DEF TypeOK
      <4> QED
        BY <4>1, <4>2
    <3>2. ~Known(k)'
      BY <2>3, <3>1 DEF Known
    <3> QED
      BY <1>2, <2>1, <2>3, <3>2
  <2> QED
    BY <2>2, <2>3
<1>5. valueBar' = [valueBar EXCEPT ![Key(t)] = call[t].val]
  <2>1. valueBar' = [k \in Keys |-> StoredValue(k)']
    BY DEF valueBar
  <2>2. \A k \in Keys : StoredValue(k)' = IF k = Key(t) THEN call[t].val ELSE StoredValue(k)
    <3> SUFFICES ASSUME NEW k \in Keys
                 PROVE  StoredValue(k)' = IF k = Key(t) THEN call[t].val ELSE StoredValue(k)
      OBVIOUS
    <3>1. CASE k = Key(t)
      <4>1. Key(t)' = k
        BY <3>1 DEF Key, AddRecord, WriteFile
      <4>2. StoredValue(k)' = StoredValue(Key(t))'
        BY <4>1 DEF StoredValue, Slots
      <4> QED
        BY <1>3, <3>1, <4>2
    <3> QED
      BY <1>4, <3>1
  <2> QED
    BY <2>1, <2>2 DEF valueBar
<1> QED
  BY <1>1, <1>5

LEMMA RefineInit ==
    ASSUME Init
    PROVE  Abstract!Init
<1>1. SInv
  BY InitStarted, StartedSInv
<1>2. \A t \in Threads : pc[t] = "idle" /\ call[t] = NoCall /\ ret[t] = Fail
  BY DEF Init
<1>3. valueBar \in [Keys -> Values \cup {NoThread}]
  <2>1. disk \in Seq(SlotSet)
    BY <1>1 DEF SInv, TypeOK, SlotSet
  <2>2. \A i \in DOMAIN disk : disk[i].val \in Values
    <3>1. \A i \in DOMAIN disk : disk[i] \in SlotSet
      BY <2>1
    <3> QED
      BY <3>1 DEF SlotSet
  <2>3. \A k \in Keys : Known(k) => SlotOf(k) \in DOMAIN disk
    <3>1. DOMAIN disk = 1 .. Len(disk)
      BY <2>1
    <3> QED
      BY <1>1, <3>1 DEF SInv, Tables
  <2>4. \A k \in Keys : StoredValue(k) \in Values \cup {NoThread}
    BY <1>1, <2>2, <2>3, ValueIs
  <2> QED
    BY <2>4 DEF valueBar
<1>4. stageBar = [t \in Threads |-> "idle"]
  BY <1>2, StageIs DEF stageBar
<1>5. callBar = [t \in Threads |-> Abstract!NoCall]
  <2>1. NoCall.op = "NONE" /\ NoCall.key = "" /\ NoCall.val = TooLong
    BY DEF NoCall
  <2> QED
    BY <1>2, <2>1 DEF callBar, Abstract!NoCall
<1>6. answerBar = [t \in Threads |-> Fail]
  BY <1>2 DEF answerBar, Answer
<1> QED
  BY <1>3, <1>4, <1>5, <1>6 DEF Abstract!Init, valueBar, stageBar, callBar, answerBar

(* The actions of KeyValue in terms of the barred state. *)
LEMMA AbstractMoves ==
    ASSUME NEW t \in Threads, OnlyOf(t), NEW from, NEW to, Stage(t) = from, Stage(t)' = to
    PROVE  Abstract!Moves(t, from, to)
<1>1. stageBar' = [stageBar EXCEPT ![t] = to] /\ stageBar[t] = from
  BY BarsFrame DEF stageBar
<1> QED
  BY <1>1 DEF Abstract!Moves, stageBar

LEMMA RefineStutter ==
    ASSUME NEW t \in Threads, OnlyOf(t), call' = call, disk' = disk,
           Stage(t)' = Stage(t), Answer(t)' = Answer(t)
    PROVE  UNCHANGED Abstract!vars
<1>1. stageBar' = stageBar /\ answerBar' = answerBar /\ callBar' = callBar /\ valueBar' = valueBar
  BY BarsFrame DEF stageBar, answerBar
<1> QED
  BY <1>1 DEF Abstract!vars, stageBar, answerBar, callBar, valueBar

LEMMA RefineBegin ==
    ASSUME SInv, NEW t \in Threads, Begin(t)
    PROVE  Abstract!Ask(t)
<1>1. TypeOK /\ OnlyOf(t) /\ call \in [Threads -> Procedures \cup {NoCall}]
  BY StepOnlyOf DEF SInv, Step
<1>2. pc[t] = "idle" /\ pc'[t] = "search" /\ phase'[t] = "lock" /\ disk' = disk /\ ret' = ret
  BY <1>1 DEF Begin, TypeOK, Goto, Enter, files
<1>3. PICK op \in {"GET", "SET"}, k \in Keys, v \in Values \cup {TooLong} :
        call' = [call EXCEPT ![t] = [op |-> op, key |-> k, val |-> v, drops |-> ~Known(k) /\ v = TooLong]]
  BY DEF Begin
<1>4. Abstract!Moves(t, "idle", "waiting")
  BY <1>1, <1>2, StageIs, NextStageIs, AbstractMoves
<1>5. answerBar' = answerBar /\ valueBar' = valueBar
  BY <1>1, <1>2, BarsFrame DEF answerBar, Answer
<1>6. callBar' = [callBar EXCEPT ![t] = [op |-> op, key |-> k, val |-> v]]
  <2>1. call'[t].op = op /\ call'[t].key = k /\ call'[t].val = v
    BY <1>1, <1>3
  <2>2. \A u \in Threads : u # t => call'[u] = call[u]
    BY <1>1 DEF OnlyOf
  <2> QED
    BY <2>1, <2>2 DEF callBar
<1> QED
  BY <1>4, <1>5, <1>6 DEF Abstract!Ask, answerBar, valueBar, callBar

LEMMA NextExclusive ==
    ASSUME SInv', NEW t \in Threads, NEW u \in Threads, t # u,
           Inside(t)', Inside(u)', Key(t)' = Key(u)'
    PROVE  (call[t].op = "GET" /\ call[u].op = "GET")'
<1>1. KeysExclude'
  BY SInvExcludes, PTL
<1> QED
  BY <1>1 DEF KeysExclude

LEMMA RefineLock ==
    ASSUME SInv, SInv', NEW t \in Threads, Lock(t)
    PROVE  Abstract!Acquire(t)
<1>1. TypeOK /\ OnlyOf(t) /\ pc[t] = "use" /\ phase[t] = "lock"
  BY StepOnlyOf DEF SInv, Step, Lock
<1>2. pc'[t] = "search" /\ phase'[t] = "access" /\ disk' = disk /\ ret' = ret /\ call' = call
  BY <1>1 DEF Lock, TypeOK, Goto, Enter, files
<1>3. Abstract!Moves(t, "waiting", "locked")
  BY <1>1, <1>2, StageIs, NextStageIs, AbstractMoves
<1>4. answerBar' = answerBar /\ valueBar' = valueBar /\ callBar' = callBar
  BY <1>1, <1>2, BarsFrame DEF answerBar, Answer
<1>5. ASSUME NEW u \in Threads, Stage(u) \in {"locked", "answered"}, Key(u) = Key(t)
      PROVE  {call[t].op, call[u].op} = {"GET"}
  <2>1. u # t /\ Inside(u)
    BY <1>1, <1>5, StageIs DEF SInv, TypeOK, HandlerInv, Control, Inside
  <2>2. Inside(u)' /\ Inside(t)' /\ Key(u)' = Key(t)'
    BY <1>1, <1>2, <1>5, <2>1 DEF OnlyOf, Inside, Key
  <2>3. (call[t].op = "GET" /\ call[u].op = "GET")'
    BY <2>1, <2>2, NextExclusive
  <2> QED
    BY <1>2, <2>3
<1> QED
  BY <1>3, <1>4, <1>5 DEF Abstract!Acquire, Abstract!Holds, answerBar, valueBar, callBar, Key, stageBar

LEMMA RefineLoad ==
    ASSUME SInv, NEW t \in Threads, Read(t) \/ (Delete(t) /\ phase[t] = "access")
    PROVE  Abstract!Load(t)
<1>1. TypeOK /\ OnlyOf(t) /\ HandlerInv(t) /\ pc[t] \in {"read", "delete"} /\ phase[t] = "access"
      /\ call[t].op = "GET" /\ Key(t) \in Keys
  BY StepOnlyOf, AtOwn DEF SInv, Step, Read, Delete, HandlerInv, Control
<1>2. pc'[t] = "search" /\ phase'[t] = "unlock" /\ disk' = disk /\ call' = call
  BY <1>1 DEF Read, Delete, TypeOK, Goto, Enter, files
<1>3. Abstract!Moves(t, "locked", "answered")
  BY <1>1, <1>2, StageIs, NextStageIs, AbstractMoves
<1>4. ret'[t] = IF StoredValue(Key(t)) = NoThread THEN Fail ELSE StoredValue(Key(t))
  <2>1. CASE Read(t)
    <3>1. Known(Key(t)) /\ cache[record[ptr[t]].offset] = disk[SlotOf(Key(t))].val
      BY <2>1, ReadsOwn
    <3>2. ret'[t] = StoredValue(Key(t)) /\ cache[record[ptr[t]].offset] \in Values
      <4>1. StoredValue(Key(t)) = cache[record[ptr[t]].offset]
        BY <1>1, <3>1, ValueIs
      <4>2. ret'[t] = cache[record[ptr[t]].offset]
        BY <1>1, <2>1 DEF Read, Returns, TypeOK
      <4>3. record[ptr[t]].offset \in 1 .. Len(cache)
        BY <2>1, ReadsOwn
      <4> QED
        BY <1>1, <4>1, <4>2, <4>3 DEF TypeOK
    <3>3. StoredValue(Key(t)) # NoThread
      BY <1>1, <3>1, <3>2, ValueIs, AnswerAssumption
    <3> QED
      BY <3>2, <3>3
  <2>2. CASE Delete(t)
    <3>1. ~Known(Key(t))
      BY <1>1, <2>2 DEF Delete, HandlerInv, Control, Alone
    <3>2. ret'[t] = Fail
      BY <1>1, <2>2 DEF Delete, Returns, TypeOK
    <3> QED
      BY <1>1, <3>1, <3>2, ValueIs
  <2> QED
    BY <2>1, <2>2
<1>5. /\ valueBar' = valueBar /\ callBar' = callBar /\ valueBar[Key(t)] = StoredValue(Key(t))
      /\ answerBar' = [answerBar EXCEPT ![t] = ret'[t]]
  BY <1>1, <1>2, BarsFrame DEF Answer, valueBar
<1> QED
  BY <1>1, <1>3, <1>4, <1>5 DEF Abstract!Load, answerBar, valueBar, callBar, Key

LEMMA RefineStore ==
    ASSUME SInv, SInv', NEW t \in Threads, Refuse(t) \/ AddRecord(t) \/ WriteFile(t)
    PROVE  Abstract!Store(t)
<1>1. TypeOK /\ OnlyOf(t) /\ HandlerInv(t) /\ pc[t] \in {"search", "append", "write"} /\ phase[t] = "access"
      /\ call[t].op = "SET" /\ call' = call
  <2>1. TypeOK /\ OnlyOf(t) /\ HandlerInv(t) /\ pc[t] \in {"search", "append", "write"}
    BY StepOnlyOf DEF SInv, Step, Refuse, AddRecord, WriteFile
  <2> QED
    BY <2>1 DEF Refuse, Refused, AddRecord, WriteFile, HandlerInv, Control, Storing
<1>2. callBar' = callBar
  BY <1>1, BarsFrame
<1>3. CASE Refuse(t)
  <2>1. pc[t] = "search" /\ pc'[t] = "search" /\ phase'[t] = "unlock" /\ ret'[t] = Fail /\ disk' = disk /\ call[t].val = TooLong
    BY <1>1, <1>3 DEF Refuse, Refused, TypeOK, Goto, Enter, Returns, files
  <2>2. Abstract!Moves(t, "locked", "answered")
    BY <1>1, <2>1, StageIs, NextStageIs, AbstractMoves
  <2>3. valueBar' = valueBar /\ answerBar' = [answerBar EXCEPT ![t] = Fail]
    BY <1>1, <2>1, BarsFrame DEF Answer
  <2> QED
    BY <1>1, <1>2, <2>1, <2>2, <2>3 DEF Abstract!Store, answerBar, valueBar, callBar
<1>4. CASE AddRecord(t) \/ WriteFile(t)
  <2>1. pc[t] \in {"append", "write"} /\ pc'[t] \in {"free", "write_cache"} /\ phase' = phase
    BY <1>1, <1>4 DEF AddRecord, WriteFile, TypeOK, Goto
  <2>2. Abstract!Moves(t, "locked", "answered")
    BY <1>1, <2>1, StageIs, NextStageIs, AbstractMoves
  <2>3. answerBar' = [answerBar EXCEPT ![t] = Succ]
    BY <1>1, <2>1, BarsFrame DEF Answer
  <2>4. call[t].val \in Values /\ valueBar' = [valueBar EXCEPT ![Key(t)] = call[t].val]
    BY <1>4, StoreValue
  <2>5. call[t].val # TooLong
    BY <2>4, AnswerAssumption
  <2> QED
    BY <1>1, <1>2, <2>2, <2>3, <2>4, <2>5 DEF Abstract!Store, answerBar, valueBar, callBar, Key
<1> QED
  BY <1>3, <1>4

LEMMA RefineRelease ==
    ASSUME SInv, NEW t \in Threads,
           (Unlock(t) /\ pc'[t] = "done") \/ (Delete(t) /\ phase[t] = "unlock")
    PROVE  Abstract!Release(t)
<1>1. TypeOK /\ OnlyOf(t) /\ pc[t] \in {"use", "delete"} /\ phase[t] = "unlock"
  BY StepOnlyOf DEF SInv, Step, Unlock, Delete
<1>2. pc'[t] = "done" /\ disk' = disk /\ ret' = ret /\ call' = call
  BY <1>1 DEF Unlock, Delete, TypeOK, Goto, files
<1>3. Abstract!Moves(t, "answered", "unlocked")
  BY <1>1, <1>2, StageIs, NextStageIs, AbstractMoves
<1>4. answerBar' = answerBar /\ valueBar' = valueBar /\ callBar' = callBar
  BY <1>1, <1>2, BarsFrame DEF answerBar, Answer
<1> QED
  BY <1>3, <1>4 DEF Abstract!Release, answerBar, valueBar, callBar

LEMMA RefineDone ==
    ASSUME SInv, NEW t \in Threads, Done(t)
    PROVE  Abstract!Return(t)
<1>1. TypeOK /\ OnlyOf(t) /\ pc[t] = "done" /\ call \in [Threads -> Procedures \cup {NoCall}]
  BY StepOnlyOf DEF SInv, Step, Done
<1>2. pc'[t] = "idle" /\ disk' = disk /\ ret'[t] = Fail /\ call'[t] = NoCall
  BY <1>1 DEF Done, TypeOK, Goto, files
<1>3. Abstract!Moves(t, "unlocked", "idle")
  BY <1>1, <1>2, StageIs, NextStageIs, AbstractMoves
<1>4. answerBar' = [answerBar EXCEPT ![t] = Fail] /\ valueBar' = valueBar
  BY <1>1, <1>2, BarsFrame DEF Answer
<1>5. callBar' = [callBar EXCEPT ![t] = Abstract!NoCall]
  <2>1. NoCall.op = "NONE" /\ NoCall.key = "" /\ NoCall.val = TooLong
    BY DEF NoCall
  <2>2. \A u \in Threads : u # t => call'[u] = call[u]
    BY <1>1 DEF OnlyOf
  <2> QED
    BY <1>2, <2>1, <2>2 DEF callBar, Abstract!NoCall
<1> QED
  BY <1>3, <1>4, <1>5 DEF Abstract!Return, answerBar, valueBar, callBar

LEMMA RefineCrash ==
    ASSUME Crash
    PROVE  Abstract!Crash
<1>1. \A t \in Threads : pc'[t] = "idle" /\ call'[t] = NoCall /\ ret'[t] = Fail
  BY DEF Crash
<1>2. disk' = disk
  BY DEF Crash
<1>3. stageBar' = [t \in Threads |-> "idle"]
  BY <1>1, NextStageIs DEF stageBar
<1>4. callBar' = [t \in Threads |-> Abstract!NoCall]
  <2>1. NoCall.op = "NONE" /\ NoCall.key = "" /\ NoCall.val = TooLong
    BY DEF NoCall
  <2> QED
    BY <1>1, <2>1 DEF callBar, Abstract!NoCall
<1>5. answerBar' = [t \in Threads |-> Fail]
  BY <1>1 DEF answerBar, Answer
<1>6. valueBar' = valueBar
  BY <1>2 DEF valueBar, StoredValue, Slots
<1> QED
  BY <1>3, <1>4, <1>5, <1>6 DEF Abstract!Crash, valueBar, stageBar, callBar, answerBar

(* Searches, checks, locks of the file and the copy in memory are nobody's *)
(* business but the storage's.                                             *)
LEMMA RefineInner ==
    ASSUME SInv, NEW t \in Threads,
           \/ Search(t) \/ Create(t) \/ LoadCheck(t) \/ StoreCheck(t) \/ LockCache(t) \/ FreeCache(t)
           \/ UpdateBufferCache(t) \/ LockStream(t) \/ WriteCache(t) \/ (Unlock(t) /\ pc'[t] # "done")
    PROVE  UNCHANGED Abstract!vars
<1>1. TypeOK /\ OnlyOf(t) /\ HandlerInv(t)
  BY StepOnlyOf DEF SInv, Step
<1>2. call' = call /\ disk' = disk
  BY DEF Search, Create, LoadCheck, StoreCheck, LockCache, FreeCache, UpdateBufferCache, LockStream,
     WriteCache, Unlock, files
<1>3. Stage(t)' = Stage(t) /\ Answer(t)' = Answer(t)
  <2>1. CASE Search(t) \/ Create(t) \/ LoadCheck(t) \/ StoreCheck(t) \/ LockCache(t) \/ LockStream(t)
    <3>1. /\ phase' = phase /\ ret' = ret
          /\ {pc[t], pc'[t]} \cap {"idle", "done", "free", "reload", "write_cache"} = {}
      BY <1>1, <2>1 DEF Search, Create, LoadCheck, StoreCheck, LockCache, LockStream, TypeOK, Goto
    <3> QED
      BY <1>1, <3>1 DEF Stage, Inside, TookEffect, Answer
  <2>2. CASE FreeCache(t)
    <3>1. phase' = phase /\ ret' = ret /\ pc[t] = "free" /\ pc'[t] = "reload"
      BY <1>1, <2>2 DEF FreeCache, TypeOK, Goto
    <3> QED
      BY <1>1, <3>1 DEF Stage, Inside, TookEffect, Answer
  <2>3. CASE UpdateBufferCache(t) \/ WriteCache(t)
    <3>1. pc[t] \in {"reload", "write_cache"} /\ pc'[t] = "search" /\ phase'[t] = "unlock" /\ ret'[t] = Succ
      BY <1>1, <2>3 DEF UpdateBufferCache, WriteCache, TypeOK, Goto, Enter, Returns
    <3>2. phase[t] = "access"
      BY <1>1, <3>1 DEF HandlerInv, Control, Storing
    <3>3. Stage(t) = "answered" /\ Stage(t)' = "answered"
      BY <3>1, <3>2, StageIs, NextStageIs
    <3> QED
      BY <3>1, <3>3 DEF Answer
  <2>4. CASE Unlock(t) /\ pc'[t] # "done"
    <3>1. pc[t] = "use" /\ pc'[t] = "delete" /\ phase' = phase /\ ret' = ret
      BY <1>1, <2>4 DEF Unlock, TypeOK, Goto
    <3> QED
      BY <1>1, <3>1 DEF Stage, Inside, TookEffect, Answer
  <2> QED
    BY <2>1, <2>2, <2>3, <2>4
<1> QED
  BY <1>1, <1>2, <1>3, RefineStutter

LEMMA RefineNext ==
    ASSUME SInv, SInv', [Next]_vars
    PROVE  [Abstract!Next]_(Abstract!vars)
<1>1. ASSUME NEW t \in Threads, Step(t) PROVE [Abstract!Next]_(Abstract!vars)
  <2>1. CASE Begin(t)
    BY <2>1, RefineBegin DEF Abstract!Next
  <2>2. CASE Lock(t)
    BY <2>2, RefineLock DEF Abstract!Next
  <2>3. CASE Read(t) \/ (Delete(t) /\ phase[t] = "access")
    BY <2>3, RefineLoad DEF Abstract!Next
  <2>4. CASE Refuse(t) \/ AddRecord(t) \/ WriteFile(t)
    BY <2>4, RefineStore DEF Abstract!Next
  <2>5. CASE (Unlock(t) /\ pc'[t] = "done") \/ (Delete(t) /\ phase[t] = "unlock")
    BY <2>5, RefineRelease DEF Abstract!Next
  <2>6. CASE Done(t)
    BY <2>6, RefineDone DEF Abstract!Next
  <2>7. CASE \/ Search(t) \/ Create(t) \/ LoadCheck(t) \/ StoreCheck(t) \/ LockCache(t) \/ FreeCache(t)
             \/ UpdateBufferCache(t) \/ LockStream(t) \/ WriteCache(t) \/ (Unlock(t) /\ pc'[t] # "done")
    BY <2>7, RefineInner
  <2>8. Delete(t) => phase[t] \in {"access", "unlock"}
    BY DEF Delete, SInv, HandlerInv, Control
  <2> QED
    BY <1>1, <2>1, <2>2, <2>3, <2>4, <2>5, <2>6, <2>7, <2>8 DEF Step
<1>2. CASE Crash
  BY <1>2, RefineCrash DEF Abstract!Next
<1>3. CASE UNCHANGED vars
  <2>1. UNCHANGED <<disk, pc, phase, call, ret>>
    BY <1>3 DEF vars, files
  <2>2. stageBar' = stageBar /\ answerBar' = answerBar /\ callBar' = callBar /\ valueBar' = valueBar
    BY <2>1 DEF stageBar, answerBar, callBar, valueBar, Stage, Answer, Inside, TookEffect, StoredValue, Slots
  <2> QED
    BY <2>2 DEF Abstract!vars, stageBar, answerBar, callBar, valueBar
<1> QED
  BY <1>1, <1>2, <1>3 DEF Next, Quiet

(* Calls of any number of handlers to the storage look as if each lock,    *)
(* load, store and unlock were one step on a map, which survives a crash   *)
(* at any point (storage.h).                                               *)
THEOREM StorageImplementsKeyValue ==
    ASSUME Undisturbed
    PROVE  Spec => ImplementsKeyValue
<1>1. Init => Abstract!Init
  BY RefineInit
<1>2. SInv /\ SInv' /\ [Next]_vars => [Abstract!Next]_(Abstract!vars)
  BY RefineNext
<1>3. Spec => []SInv
  BY Invariant
<1> QED
  BY <1>1, <1>2, <1>3, PTL DEF Spec, ImplementsKeyValue, Abstract!Spec

=============================================================================
