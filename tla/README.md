# Verification of the cinema booking system

TLA+ models of the client/server seat reservation system of this repository,
TLC runs that check them on small instances, and TLAPS proofs of the properties
that matter most. Paths are relative to the repository (`src/`).

## 1. Inventory

| Part | Code | State | Operations |
|---|---|---|---|
| server threads | `server/cinemad/cinemad.c` | threads, pending signals, connections, `is_server_running`, `request_queue` | start, accept, handle a request with a timeout, join handlers, shut down |
| stored procedures | `server/cinemad/database.c` | `cinema_info`, the keys of the storage | BOOK, DELETE, MAP, GET, SET, ID, CLEAN, POPULATE, SETUP |
| storage | `server/cinemad/storage.c` | the file, `buffer_cache`, two locks | lock shared/exclusive, unlock, load, store of one key |
| index table | `server/cinemad/index_table.c` | key -> record (offset, rwlock) | search (creates a missing record), insert, delete |
| AVL tree | `lib/src/data-structure/avl_tree*.c` | nodes with stored heights | insert, search, delete, rotate |
| request queue, flag | `lib/src/data-structure/{queue,stack,concurrent_*}.c` | two stacks; a flag | enqueue, dequeue, is_empty; set, unset, status |
| client | `client/client.c`, `client/booking.c` | picture of each seat, file with the booking code | click, book, modify, delete, poll the map |
| connections | `lib/src/connection/connection.c` | sockets | accept, recv, send, close |
| `try` macros | `lib/include/try.h` | - | what a failed call does: jump, or end the process |
| daemon start | `server/cinemad/utils.c`, `cinemad.c` | PID file with its lock, pipe to the starting process, signal mask | fork, store_pid, drop privileges, notify, wait for a signal |
| cinemactl | `server/cinemactl/cinemactl.c` | the PID it was told | start, stop, status, settings |
| resources, build | `lib/src/resources`, CMake | - | not modelled, see 8 |

How they interact. A client opens a connection per query. A connection manager
accepts it, starts a handler thread and puts it in `request_queue`; the handler
starts a timer, receives one query, stops the timer, calls `database_execute`
and sends the answer. The joiner takes handlers from the queue, joins them and
closes their connections. A procedure works on the storage key by key, with the
lock of the key; the storage finds the record of a key in the index table, which
is an AVL tree. Handlers share the database, managers and the joiner share the
queue, main and the joiner share the flag, and SIGALRM is sent between threads.
cinemactl executes the daemon, which takes the lock of the PID file, reports to the
process that executed it through a pipe, and then populates or sets up the data
file; to stop it, cinemactl asks for its PID and signals it.

What is hard: handlers interleave between any two lock operations; BOOK holds
several locks; DELETE, MAP and CLEAN take them one at a time; every storage call
looks its record up again; records are deleted while others use them; the file
and its copy are written one after the other; a crash may come anywhere; a timer
races with the request it guards; the shutdown races with connections being
accepted; answers get lost; the client polls while a message box is open; one recv
is taken for a whole message; daemons are started together, die while they set up
the data file, and the next one goes on from there. The
list with its lines is under `hazards` in `PROJECT.json`.

What makes each part correct:

- procedures: no seat goes from one code to another, a booking is all or
  nothing, a code is issued once, only the holder of a code cancels, MAP shows a
  client its own seats, every request is answered, no lock is left behind;
- storage: the lock of a key excludes, a load returns what the file holds, a
  successful store can be found, a key has one slot;
- AVL tree: a search finds exactly the keys inserted and not deleted, and a
  destruction reaches each node once;
- threads: a request is served on an open connection and database, a shutdown
  closes every accepted connection (but one with which a manager died before it had
  made its handler), the shutdown ends, silent clients are reaped;
- queue: first in, first out;
- client: what it shows as its own is its own, it keeps its code as long as it
  has seats, its code is that of the seats it selected;
- daemons: one at a time works on the data file, each start ends and reports, one
  that serves has its settings, its seats and its own PID, no start loses a booking
  of a hall whose seats are all in the file, a start lets the codes begin again only when
  no seat has one, a signal ends it.

## 2. Modules

| Module | Models | Composes |
|---|---|---|
| `Database` | the procedures under concurrent handlers, with crashes | - |
| `Reservations` | what the procedures promise: an abstract hall | - |
| `DatabaseProperties` | properties of `Database`, refinement of `Reservations` | `Database`, `Reservations` |
| `DatabaseProofs` | TLAPS proofs: locks, what BOOK has checked, no double booking, no deadlock | `DatabaseProperties` |
| `DatabaseCodesProofs` | TLAPS proofs: codes, own seats, the refinement of `Reservations` | `DatabaseProofs` |
| `Daemon` | start, setup, stop and crash of daemons on one data file, with cinemactl | - |
| `DaemonProperties` | properties of `Daemon` | `Daemon` |
| `DaemonProofs` | TLAPS proofs: one daemon on the file, what it has there, codes and bookings across starts | `DaemonProperties` |
| `Storage` | storage and index table under concurrent single-key calls, with crashes | - |
| `KeyValue` | what the storage promises: a map with a lock per key | - |
| `StorageProperties` | refinement of `KeyValue` | `Storage`, `KeyValue` |
| `StorageProofs` | TLAPS proofs: exclusion, index, the refinement of `KeyValue` | `StorageProperties` |
| `AvlTree` | the AVL tree as the index uses it, with its pointers | - |
| `AvlTreeProofs` | TLAPS proofs: searches and the destruction, for every tree, and when none is lost | `AvlTree` |
| `RequestQueue`, `Fifo` | the queue of two stacks, and what it promises | `Fifo` |
| `RequestQueueProofs` | TLAPS proof of the refinement | `RequestQueue` |
| `Server` | the threads of the daemon | `RequestQueue` |
| `ServerProofs` | TLAPS proofs: open connections, nothing lost, the queue in the server | `Server`, `RequestQueueProofs` |
| `Client` | clients around a hall that answers each query in one step | - |
| `ClientProofs` | TLAPS proofs: pictures, cancellations, holders of codes | `Client` |
| `MCDatabase`, `MCStorage`, `MCAvlTree`, `MCClient` | constants of the instances | |

### Database

`cell[k]` is the value stored under key `k` (0 a free seat, otherwise the code),
`writer`/`readers` the rwlock of the key, `pc` where the handler is, `req` its
request, `id` the local code, `todo` and `at` the loop variables. One action is
one storage call of a procedure: lock, load, store or unlock of one key.
`BookLock ... BookAbort` are `procedure_book`, `Id*` is `procedure_get_id` (asked
for by a client, or from inside BOOK with the seats still locked), `Get*` is
`procedure_get` as called by GET, by MAP for each seat and by the checks of
DELETE, `Set*` is `procedure_set` as called by SET, by the second loop of DELETE
and by CLEAN. `Rejected` requests answer `MSG_FAIL` before they take any lock.
`Reply` ends a request; the client learns the code of the answer or does not.
`Crash` is the death of the process: it ends all handlers and keeps the cells, because a
store is flushed to the kernel (`fflush`) before the call returns. `Init` is the state after POPULATE and SETUP.

A client presents only a code it has received (`Presentable`). `SharedCodes`
says whether two requests in flight may present the same code. The client
program sends one request at a time, so the safety run has it FALSE; what happens
otherwise is told in 7. The refinement (`hall`) has it TRUE.

Abstractions: a value that does not fit a slot, and a number that is no number,
do not occur; a code is an unbounded natural number.

### Daemon

`setting` and `seat` are the data file, `created` whether it exists, `pidFile` and
`lockHolder` the PID file and its flock, `pc[p]` where daemon `p` is, `starter[p]`
the process that executed it, `writers[p]` who holds the write end of their pipe,
`message[p]` whether the report is in it. The actions follow the calls:
`SecondFork ... ClosePipe` are `sysv_daemon` with `store_pid` and
`drop_privileges`; `SignalBlockAll ... SetupConnections` are `main` up to its
threads; `Populate`, `SetupSizes`, `SetupSeat` and `Clean` store one key at a
time, because each SET is flushed before the next. `Ends` is the end of a process:
the kernel drops its lock and closes its end of the pipe. `Crash` may come at any
step and stands for a fatal signal and each library call whose failure ends
the process (a directory that cannot be made, a `bind` that is refused); the file keeps
what was flushed. A power cut, after which the kernel may not have written what was
flushed, is not modelled. `Terminate`
is SIGTERM: it kills before `signal_block_all` and stays pending after it.

While a daemon serves, its requests are the changes they make to the file, in any order and
one store at a time. `Issue` is `procedure_get_id`, for the query ID or inside a BOOK
without a code; `Store` is one store of a BOOK, under any code that was ever handed out
(`held`): the one just issued, or one the client has kept, also over a CLEAN
(`database.c:415-422`). So a BOOK is an `Issue` and some `Store`s, and the daemon may die
between any two of them. `Unbook` frees one seat. CLEAN goes seat by seat beside the other
requests (`CleanBegins`, `Clean`); two CLEANs do not overlap here. How requests interleave
under their locks is the subject of `Database`. `Resize` is SET ROWS or SET
COLUMNS, to a larger or a smaller size: the file changes, `size[p]`, the copy in
`cinema_info`, does not.
`AsksPid`, `StopKills`, `StatusTest`, `StatusTime` are cinemactl, whose queries
go to whichever daemon serves at the moment. The child between the two forks counts
with the daemon, and the start time is told by the number of the process.

### Storage

`disk` is the file as a sequence of slots, `cache` its copy in memory (`<<>>`
when freed), `index` and `record` the index table, `mutex` and `cacheLock`
`mutex_seek_stream` and `lock_buffer_cache`. A handler runs a GET or a SET of one
key: `phase` is which of lock, access and unlock it is in, and each of them starts
with `index_table_search` (`Search`, and `Create` under the exclusive lock).
`Delete` is `index_table_delete`, from a load or an unlock that finds a record
without an offset. The store has two paths, a new slot (`LockCache`, `AddRecord`,
`FreeCache`, `UpdateBufferCache`) and a known one (`LockStream`, `WriteFile`,
`WriteCache`).

Use after free is a nondeterministic matter in C. The model takes the mildest
outcome: a destroyed record keeps its content, a write to the freed copy is lost.
What holds is therefore not a promise about runs in which memory is reused; what
fails, fails even so. `Racing = FALSE` keeps a key that is not in the file from
being looked up and dropped while others work: all keys the server itself uses
exist after SETUP, and the programs of the repository ask for no other, but anyone who
opens a connection can send a GET or a SET of one. `Racing = TRUE`
is the run `storage_missing`. The file names a key at most once, as POPULATE and
`storage_store` leave it, and memory is never exhausted: there is a record for each key
and for each handler (`RecordAssumption`), and a new record is one that no key and no
handler points to (`Fresh`).

`KeyValue` says what callers rely on: each lock, load and store of a key is one
step on a map, shared and exclusive locks exclude, a value that is too long is
refused, and a crash keeps the map. In the refinement a store takes effect with
the write of the file (`TookEffect`), although the copy in memory, from which loads
are answered, is written later: the lock of the key hides the difference.

A slot is written in one step: it is 32 characters, flushed at once. Values do not
contain a newline, at which `update_buffer_cache` would stop reading.

### AvlTree

`Nodes` is the memory and a node without a key is free; `root`, `father`, `left`,
`right`, `height` and `key` are the fields of the C structures (`value` moves with
`key`). `pc`, `goal`, `arg`, `cur` and `target` are the call under way and its local
variables, and one action is one turn of a loop: `SearchStep`, `InsertStep`, `InsertLeaf`,
`BalanceInsert`, `BalanceDelete`, `PredStep`, `DestroyStep`, with `SwapAndCut` and `Cut` for
what follows the search of a deletion. Rotations keep the node at the top and swap
keys, as `right_rotation` and `left_rotation` do; a double rotation is two steps
(`SecondRotation`). `rotate` is as it is, with its test of the left son in both halves, and
a rotation without a son to turn dereferences NULL: `pc = "crashed"`.

The callers are `load_table` (`Load`), `index_table_search` (`Lookup`, which inserts a key
it does not find), a store (`Keep`: the key has a value from then on), a load or an
unlock of a key without a value (`Drop`) and `index_table_destroy` (`Close`). The lock of
the index lets one of them change the tree at a time; the search that may run beside
others reads only, so the search modelled is the one under the write lock. `probed` are the
keys without a value; more than one of them is the case of `Racing` above.

A root with exactly one son that is deleted takes the tree with it: `avl_tree_cut` sets
the root to NULL before it looks for sons. `lost` says that it has happened. It takes
two probed keys at a time: with one, `lost` stays FALSE (`OneProbedNeverLost`). The
properties and the theorems are about the behaviours up to there, and `SearchFinds` and
`DestroysEachOnce` say so.

Assumed: memory is not exhausted (`InsertLeaf` waits for a free node), and the keys of a
file are distinct (`FilesAssumption`), as `Storage` shows of the file (`OneSlotPerKey`).

### Server

The program counters of main, the managers, the handlers, their timers and the
joiner; `signalled` holds those with SIGALRM pending, which takes effect where the
mask lets it (`ManagerDies`, `HandlerDies`, `TimerDies`). The outcome of
`pthread_join` on a detached handler is an error that `try(..., !0)` does not
recognise (`JoinBegins`). `Detach` includes the undefined case of a handler that
has already been joined. `HandlerFails` is a call whose failure ends the process.
`Connect` puts a connection into the backlog of a socket, `Accept` takes one from it
when fewer than `limit` are open: the loop of `connection_accepted` over EMFILE is
to wait for a descriptor. `limit` is chosen from `Limits` at the start. `Punctual` says that a timer expires only on a client that stays silent, and has
detached its handler before the identifier is reused. It is what the timeout is
meant for; `server_timeout` has it FALSE.

### Client

`pic` is the picture of each seat, `saved` the file with the code. A query is one
step of an external server, which behaves as the module `Database` does for
clients that do not share codes (`Books`, `Deletes`, `Digit`). `held` and `failed`
are history variables for the properties.

## 3. Runs

| Run | Shows | Bounds |
|---|---|---|
| `booking` | the safety of the procedures with crashes | 3 handlers, 2 seats, 4 requests |
| `hall` | `Database` implements `Reservations`; every request is answered | 2 handlers, 2 seats, a setting, 3 requests |
| `clean` (violation) | CLEAN beside BOOK makes a code not unique | 2 handlers, 2 seats, 4 requests |
| `daemon` | one daemon on the file and what it has there, PID file, codes and bookings across starts; starts and signals come to an end | 2 daemons, 2 seats, 1 code, a hall that is resized |
| `server` | threads: safety, FIFO, termination, reaping, a connection that waits for a descriptor | 1 manager, 2 connections, 1 or 2 descriptors |
| `server_timeout` (violation) | a late timer makes the joiner skip a running handler | 2 connections, 2 descriptors, `Punctual = FALSE` |
| `storage` | one-key storage: exclusion, index; it implements `KeyValue` | 3 handlers, 2 keys (one new), 4 calls |
| `storage_missing` (violation) | a stored key that cannot be found | 2 handlers, 3 calls, `Racing = TRUE` |
| `avl` | searches find what is there, each record destroyed once | 12 keys and nodes, 11 kept, 2 probed, 5 asked for; an empty file and one of 9 keys |
| `avl_crash` (violation) | `rotate` turns a son that is not there | 12 keys and nodes, 1 probed, 2 asked for; a file of 10 keys |
| `client` | pictures, cancellations, holders of codes, bookings as selected | 2 clients, 3 seats, 4 buttons |
| `client_code` (violation) | a client loses the code of its seats | 2 clients, 2 seats, 3 buttons |

Why the bounds are enough for the cases of interest. Two seats are the least for
which a booking can be half locked, half checked and half stored and for which two
requests can name seats in opposite orders. Three handlers let two requests
interfere with a third; four requests allow a booking, its cancellation and two
rivals. Four storage calls let a new key be added while a known one is written and
read. The file of nine keys of `avl` makes a tree from which each case of `rotate`, the
first rotation and the second, comes up after few calls; from the empty file the run explores every order in which five keys come and
go. It looks no further than a state in which the tree is lost (`NotLost`). All trees
and histories are the business of the theorems. Two daemons are
enough for a start beside a daemon that serves and for one that finds what its
predecessor left at any step, and two seats for a hall that grows or shrinks by one.
One code is enough: it is on a seat, kept by a client or both, and what matters is
whether the counter starts again; with two codes the state space is three times as large
and the result the same. A third
daemon, which finds what two predecessors left, is the business of the theorems, which
hold for any number; TLC agrees with three on the invariants and `CodesStartAfresh` (5.0 million
states). Two connections are the least
for which the queue has an order; the second manager adds an interleaving of
enqueues only, which the mutex of the queue makes atomic (the invariants were
also checked with two managers, 0.9 million states, same result). Symmetry is used for handlers and clients in
runs without liveness properties.

`TypeOK` of `Database` includes the control state: the index of a loop stays in the
list of its keys, a seat is stored with a real code only.

## 4. Fairness

`hall`, `server` and `daemon` are checked under weak fairness of what a thread does once it
runs: `Work(t)` of a handler that has a request, the steps of main after the
signal, of the joiner, of a manager after accept, of a handler, of a timer (whose
sleep ends), and the delivery of a pending signal. That is what the kernel
scheduler gives; for daemons it is the steps of a process that exists (`Original`,
`SysvDaemon`, `Main`), and for `accept` that its retries go on. No fairness is assumed of a client (it may connect and say
nothing), of the arrival of a signal, or of a failure. A lock operation is fair
only while it stays possible: as requests are bounded, the starvation of a
writer by an endless stream of readers cannot show up, and is not claimed absent.

## 5. Proofs

Everything in this section holds for any values of the constants that meet the named
assumptions of the modules (keys and answers are distinct, requests are well formed, and
so on), which TLC evaluates in the runs, and those named here. Each inductive invariant was checked by TLC on
the instances of section 3 before it was proved. The proof that steps preserve it has a
case per action.

### Procedures

`DatabaseProofs`, with crashes (`CrashSpec`):

- `Invariance`: `TypeOK`, `LockInv` and `ChecksStayTrue` hold in every state, the
  first and the last also as `TypeCorrect` and `CheckedSeatsStayFree`;
- `NoDoubleBookingHolds`: no step hands a booked seat to another code, under the
  assumption `OnlySettingsSet` that SET is used for settings: the programs of the repository send no
  other, the server would take one from any client. Without it, SET of a seat is a counterexample by definition;
- `NeverDeadlocked`: while a request is under way, some handler has the lock it asks for
  or asks for none (`NoDeadlock`). TLC's deadlock check says it of the instances.

The inductive invariant is `IInv == TypeOK /\ LockInv /\ ChecksStayTrue`.
`ChecksStayTrue` alone is not inductive: that nobody writes a seat another handler
has checked follows from the exclusive lock, hence `LockInv`, which says
exactly which handler holds which lock at which label; to read from a label which
request and which loop variables a handler has needs `TypeOK` with its
`ControlOf`. Steps of one handler leave
what the others hold alone (`WorkFrame`, `OthersHold`), and four lemmas say what
taking and giving back a lock do to `LockInv`. `NoDoubleBooking` follows: the only
stores of a seat with a code are those of BOOK, of a seat that is reserved, hence
free.

`NeverDeadlocked` rests on one more invariant, `Ascending`: the seats that a BOOK has locked
come before those it has still to lock. Suppose everybody waits. By `LockInv` who holds
a lock while it waits is in BOOK, nobody among them holds the lock of the counter, so somebody
waits for a seat and holds another; of all seats held in this way take the last
(`LastSeat`): its holder waits for a later one, which is held in this way too. It is about
one moment: that each request is answered in the end, which also needs that handlers are
scheduled, is `EveryRequestAnswered` and stays with TLC.

`DatabaseCodesProofs`, on top of `IInv`, under `OnlySettingsSet` and `NoClean` (no
request is CLEAN: it starts the codes again, and the run `clean` shows that they are
then issued twice):

- `CodesAreUnique`: a code is given to one booking (`UniqueCodes`), with crashes;
- `ProceduresImplementReservations`: `Database` implements the hall of `Reservations`
  (without crashes, as the run `hall`: a crash inside BOOK leaves half a booking, which
  the abstract hall does not know);
- `CancelsOwn`, `ConfirmedSeatsHold`, `MapShowsOwnSeats`: a DELETE frees seats of its own
  code only, a BOOK that answers a code has it on all its seats, and MAP is right about
  the seats of the client that asked, with crashes. They also need `~SharedCodes` (7
  says why) and `DistinctDeletes`: no DELETE names a seat twice. The
  client enumerates each seat once; the server does not check it, and a seat
  named twice can go to another client between its two turns in the second loop of
  `procedure_unbook`, which then frees it again.

`CodesInv` says that the counter is at least every code anywhere (`Counted`), that what
ID has loaded is still the counter when it stores the next one (`LoadedIsCurrent`, from
the lock of the counter), and that a code that came with a request is one a client has
received (`CarriedKnown`). `OwnInv` adds `BearersDiffer` (no two requests in flight bear
one code), `OwnSeats` (which seats each handler knows to be its own, by label and
position in its loops) and what GET and MAP have read so far. `OwnSeats` is inductive
only with `BearersDiffer`: another bearer of the code would free the seats; and
`BearersDiffer` needs `Counted` for a code that is just being issued. For
the refinement, the steps of BOOK before its last store are stutters; that the last one is
a booking of free seats is `ChecksStayTrue`.

### Request queue and threads

`RequestQueueProofs` proves `TwoStacksImplementFifo`: the queue made of two stacks
implements `Fifo` for every set of items and any length. The mapping is
`Contents`, the departures followed by the arrivals reversed; the lemmas say
that reversing turns the new top into the last item, and that
moving the arrivals over does not change `Contents`.

`ServerProofs`, for any number of managers, connections and descriptors:

- `TypeCorrect`, and `NothingIsLost`: once main has joined the threads the queue is empty,
  and an accepted connection that is still open is one with which a manager died before it
  had made its handler (`NothingLost`);
- `OnlyDetachedLoseTheirs`: a handler that no timer has detached has its connection and
  the database open while it works, and is over when main has joined all threads,
  whatever the timers do. This is what the code guarantees without a word about time; the run
  `server_timeout` shows that the exception is real;
- `ServesOpenOnly`: `ServesOnOpen` for every handler, under the assumption `Punctual`;
- `QueueOfHandlersIsFifo`: `QueueIsFifo`, the theorem on the two stacks carried over to the
  server by an instance of `RequestQueueProofs`.

The invariant `SInv` follows a connection: `AcceptsOnce` (it is in one backlog, then with
one manager, which gives it its handler), `Tracked` (a handler is with its manager, in the
queue or with the joiner until its connection is closed), `WithManager` (an open connection
without a handler is with a manager, alive or dead), `ClosesEnded` (the joiner closes
only what has ended or was detached), `TimersOfHandlers`, and `InOrder` (managers dead,
then the flag unset, then read by the joiner, then the queue found empty, then main goes on).
`NothingLost` is not inductive without `Tracked`, nor `Tracked` without the order
in which the joiner reads the flag and then the queue.

### Clients

`ClientProofs`, for any number of clients, seats and presses of buttons: `OwnPicturesHold`,
`CancellationsGranted`, `BookedSeatsAreHeld`, `BookingsAsSelected` and `TypeCorrect`, all
from one invariant `CInv`. It has, for each client, `Shape` (there are queries exactly
while a button is at work, of the forms that `GetSeatsQuery` builds), `Shows` (the seats
shown as its own have its code), `Cancels` (a cancellation still to be sent names seats of
its code) and `Asks` (a booking asks for what is selected, and its answer is on it); and
for the hall `OwnCodes`: no code is with two clients, none is there before it is issued.
`Shows` needs `OwnCodes`: no other client can free the seats, as no other has the
code. `BookedSeatsHeld` is conditional as in the run: it says nothing after a query has failed
(the run `client_code`) or a client has ended inside a query.

### Daemons

`DaemonProofs`, for any number of daemons, any hall and a crash or a signal at
any step:

- `Exclusion`: no two daemons are past `store_pid` at a time, and a start that
  reports success is that of the daemon with the lock (`OneOnFile`,
  `SuccessHoldsLock`);
- `ServesItself` and `AnswersAsItself`: a daemon that serves has its settings, its seats and
  its own PID in the file (`ServesComplete`, `AnswersItself`); `CtlStopsADaemon`: cinemactl
  signals a daemon that has served (`StopsADaemon`); `TypeCorrect`;
- `PidFileHolds`: the PID file never names another than the daemon that serves
  (`PidFileNamesOwner`).

The inductive invariant is the conjunction of `TypeOK`, `LockHeld` (a daemon past
`store_pid` holds the flock), `MessageSent` (the report is in the pipe only from
`notify` on), `FilesHave` (what the file is known to have at each label: SETUP that
has come to seat n has the seats before it, a file with a later setting has the
earlier ones, because POPULATE writes them in order) and `StopsADaemon`. The lock
makes the file the matter of one daemon; the order of POPULATE makes the check of
ROWS and COLUMNS in SETUP enough to know that the size is there, and that of the
sockets that the address and the port are. The counter is behind them in that order:
a daemon that dies in POPULATE after COLUMNS leaves none, the next adds the seats, and
if it dies before its clean, the third finds all seats and serves without a counter.
That is why `ServesComplete` cannot name it.

The second half of the module is about codes and bookings across starts, for a hall
that is made larger and smaller at any time:

- `CodesAlwaysStartAfresh`: a start lets the codes begin again only when no seat has one
  (`CodesStartAfresh`), although SETUP frees only the seats of `cinema_info`, clients keep
  codes over a CLEAN and the daemon before may have died between a code and its seats or
  inside CLEAN;
- `StartsKeepBookings`: a start that finds all seats of the hall in the file has each
  booking at every step until it serves (`RestartKeepsBookings`), in a hall of any size.

The invariant `SeatInv` adds to `IInv` what is known of the seats. The seats of the file
are always the first ones of the largest hall it had (`FileSeats`): SETUP adds them in order and nothing
removes one. So a SETUP that misses a seat has found none behind it, and all it has are
before it; when it comes to its clean, every seat of the file is within `cinema_info`,
whatever sizes the hall has had (`SeatsOf`), and the clean that has come to seat n has
freed those before it. That argument is about a SETUP that has just started to look, hence
`CleanIsLocal`: the local `clean` of `procedure_setup` is false until then. The second
theorem follows one daemon `p`, one seat and its code by `Keeps`, where nobody but `p`
moves what it knows (`OwnerMoves`): while it is starting it has the file for itself.

### AVL tree

`AvlTreeProofs`, for any set of keys, any memory, any bounds and any file:

- `SearchAlwaysFinds` (`SearchFinds`) and `DestroyAlwaysOnce` (`DestroysEachOnce`);
- `TreeAlways`: the invariant `IInv` behind both;
- `OneProbedNeverLost`: with `MaxProbed <= 1`, no deletion ever takes the tree with it.

The proof of the first three says nothing about heights, and that is its point: the code chooses its
rotations from heights that a deletion leaves wrong and by a test that is wrong, so neither
the balance of the tree nor the right choice can be part of an argument. What
holds is that *every* rotation of a node that has the son to turn keeps a search tree of the
same keys, whatever it was chosen for.

"The nodes form a search tree" is a statement about the nodes below a node, which in a
structure of pointers is a reachability, hence recursive. `IInv` says instead that there is
some function `below` from nodes to sets of nodes with, at each node, the equation
`below[n] = {n} \cup below[left[n]] \cup below[right[n]]` and the conditions that make it a
tree (`Shape`) in order (`Sorted`) with the keys of the index (`Holds`). The function is not
part of the state: it is a witness, which each step of the proof builds anew. A rotation
(`RotationShape`) changes it at one node, an insertion (`InsertShape`) and a cut
(`CutLeafShape`, `CutSonShape`) at all nodes above one, and the new equations hold because
two subtrees of which neither contains the other are disjoint (`OneFather`). The left
rotation is the right one in a mirror (`Mirror`).
On top of the tree the invariant follows the walk: `SearchInv` and `InsertInv` (the key,
if it is there, or its place is below `cur`), `ClimbInv`, `PredInv` (`cur` is on the right
border of the left subtree of `target`), `TodoInv` (what the file still holds is new) and
`DestroyInv` (the subtrees on the stack are disjoint, and together with the keys destroyed
they are the tree). `OneProbedNeverLost` adds `ProbedInv`, on the one node whose key has no
value: a leaf of height 0 when it is made, it can be lifted only by the first half of a
double rotation, whose second half gives it its second son; so it has both sons or none
when it is deleted, and a root with none is the whole tree. A second key without a value
could be inserted below it, which is the case the bound excludes.
`SearchFinds` is not inductive without all of them: a rotation
under a wrong `below` loses a subtree, and a second copy of a key comes from a search that
passed by it.

### Storage

`StorageProofs`, for any number of handlers, keys, values and calls, with crashes, under the
assumption `Undisturbed`: `Racing` is FALSE, or all keys are in the file, so that no
record without a value is deleted beside a call that needs it. The run `storage_missing`
refutes `StoredIsFound` without it.

- `LocksExclude` (`KeysExclude`), `StoresAreFound` (`StoredIsFound`), `SlotsAreUnique`
  (`OneSlotPerKey`), `TypeCorrect`;
- `StorageImplementsKeyValue`: the storage implements the map of `KeyValue`
  (`ImplementsKeyValue`).

The invariant `SInv` has three layers. `HandlerInv(t)` is the view of one call: where it can
be (`Control`), that it has the record of its key, for itself or for loads (`Holds`),
that `ptr` is that record wherever it is used (`Points`), what it has found and stored in
its slot (`Finds`), and that a call that drops its record is alone (`Alone`). `Tables` ties
the index to the file: keys have records of their own, records slots of their own, and
each slot is that of a record. `Copied` ties the copy in memory to the file: they have the same
slots, but for the one that the holder of `mutex_seek_stream` is about to write and for
the time in which the holder of `lock_buffer_cache` reads the file again (`Guarded`).
Exclusion follows from `Holds` only because the three searches of a call lead to one record, which
is `Points` with `Tables`. `TypeOK` itself needs the counting of records (`DiskFits`,
`FreshIsNew`): there is always a free one. In the refinement, `AddRecord`, `WriteFile` and
the refusal of a long value are the abstract store; that a load, which reads the copy, returns the
value of the file is `Copied` with the exclusion of the store.

## 6. What is only model-checked

- Liveness (`EveryRequestAnswered`, `ShutdownTerminates`, `ConnectionsReaped`,
  `AcceptedEventually`, `StarterReturns`, `StartSettles`, `SignalStops`): fairness and
  ENABLED are beyond the prover.
- That the bounded server of `Client` behaves as `Database` does: `Client` is a model of
  its own, whose hall answers in one step; its agreement with `Reservations` is by
  reading.

Every other property of a passing run is the subject of a theorem.

## 7. Findings

Five runs show that the code does not do what a line of the repository says; the
quotations are in `PROJECT.json`.

1. `clean`: `procedure_clean` resets the counter beside bookings.
2. `server_timeout`: a timer that wakes as the request arrives detaches a running
   handler, and main goes on as if all threads were joined.
3. `storage_missing`: an unlock or a load deletes the record of a missing key while
   a store of the same key holds its lock.
4. `client_code`: the client saves "OPERATION FAILED" as its booking code.
5. `avl_crash`: `rotate` tests the balance factor of the left son in the right-heavy case
   too (`avl_tree.c:362`), and then turns a right son that has no left son: NULL is
   dereferenced. It takes a certain order of keys in the file and two requests for keys that
   have no value; the keys of a hall come in another order. The C code itself, compiled and
   given the operations of TLC's behaviour, ends with a segmentation fault.

Met while modelling, and without a run of their own:

- `store_pid` opens the PID file with O_TRUNC before it asks for the lock
  (`utils.c:184-185`), so a second start empties the file of the daemon that serves,
  against the comment at `utils.c:166-171`; `PidFileNamesOwner` is what remains true;
- `procedure_unbook` checks and frees the seats in separate critical sections
  (`database.c:455-475`): in the instance `booking` with `SharedCodes = TRUE` TLC finds that
  two DELETEs of one code and a BOOK between them cancel the booking of another code
  (`CancelsOnlyOwn`), against "Cancel the reservation associated with the code held"
  (`README.md:25`);
- a tree is not balanced after the keys 1, 3, 2, for the same test of `rotate`; searches are
  right all the same (`SearchAlwaysFinds`), only slower;
- deleting a root with one son empties the index (`avl_tree.c:109-112`), which takes two
  keys without a value at a time, see 2 and `OneProbedNeverLost`;
- POPULATE is not run again on a file it did not finish, and the counter may be missing
  after two crashes (see 5);
- CLEAN frees the seats of `cinema_info` only: when the hall was made smaller, a CLEAN
  leaves the seats outside with their codes and the counter issues these again; with three
  daemons TLC finds a code that is issued while a seat outside the hall has it. Starts do
  not do so (`CodesAlwaysStartAfresh`);
- CLEAN does not call in the codes that clients hold: a BOOK that comes with a code of
  before stores that code and leaves the counter as it is (`database.c:415-422`), and the
  counter issues the same code to another client later. Freshness is therefore stated of
  the start (`CodesStartAfresh`), where no seat may have a code, and of issued codes only
  without CLEAN (`UniqueCodes`);
- a manager that dies of SIGALRM between accept and the mask (`cinemad.c:251-253`) leaves
  the connection it has accepted open and without a handler until the process ends;
  `NothingLost` states this exception;
- ROWS and COLUMNS are read once (`database.c:178-182`), while clients that start after a
  SET read the new ones and get a map of the old size.

## 8. Not modelled

- PID reuse by the operating system; a ROWS or COLUMNS that is no number; the value
  of `errno` that `try(database_init(...), NULL || errno == ENOENT)` compares with
  before the call: the model takes the reading under which a missing file is made.
- Library calls of the start without state of their own (`mkdir`, `setsid`, standard
  streams, descriptors that were inherited, signal handlers): their failure is `Crash`.
- A `pthread_create` that fails with EAGAIN, which `try(..., !0)` takes for a success:
  the identifier the joiner then joins is indeterminate.
- Errors of library calls that make a procedure return 1, with locks held: the
  handler then ends the process (`HandlerFails`), which is a `Crash` for `Database`.
- The text of messages, Unicode, a message that TCP delivers in pieces or that is longer
  than MSG_LEN (one recv is taken for all of it), a map that does not fit the buffer of
  the client; windows, bitmaps, build files.
- Memory: leaks, reuse of freed memory (a write to the copy of the file that was just
  freed, `storage.c:287`, is a lost write in `Storage`), the allocator under `thread_exit`.
- A BOOK that names a seat outside the hall: `procedure_book` writes `tmp[seat]` without a
  check (`database.c:387`), which is undefined. `RequestAssumption` keeps requests to seats
  that exist.
- A power cut: the storage flushes with `fflush` only, so a store that was answered may not
  be on the disk. `Crash` is the death of the process in all modules.

## 9. Plan

Done: `Database` with `Reservations` and the first proofs, then `RequestQueue` with
its proof, `Server`, `Storage`, `AvlTree`, `Client`; then `Daemon` with its proofs,
`KeyValue`, the limit of descriptors in `Server`, the destruction of the index in
`AvlTree`, the selection of seats in `Client`; then the proofs of the safety properties:
codes and own seats of `Database` with its refinement of `Reservations`, `Server`,
`Client`, the other invariants of `Daemon`, `Storage` with its refinement of `KeyValue`;
last `AvlTree` again, with pointers and loops in the place of recursive operators, its
proofs, and the order of the locks in `Database`.

Left, in this order:

1. Proofs with weaker assumptions: own seats for requests that share a code of which
   only one cancels; the codes of `Database` when a CLEAN runs alone; `Storage` when a
   missing key is asked for by loads only.
2. The refinement of `Reservations` with crashes, which needs an abstract hall in
   which a booking may stay half stored.
3. A writer that competes with endless MAP requests, as an instance of its own.
