------------------------------- MODULE Daemon -------------------------------
(***************************************************************************)
(* The life of the server process: cinemactl start, sysv_daemon and the    *)
(* PID file (server/cinemad/utils.c), the first part of main (cinemad.c),  *)
(* the procedures POPULATE, SETUP and CLEAN (database.c) on the data file, *)
(* and cinemactl stop and status (server/cinemactl/cinemactl.c).           *)
(*                                                                         *)
(* Several daemons may be started, each may die at any step, by a signal   *)
(* or a failed call, and the next one finds what it left in the files.     *)
(* Every SET is flushed before the next.  While a daemon serves, its       *)
(* requests are the changes they make to the file, one at a time and in    *)
(* any order, CLEAN seat by seat beside the others: the locks between them *)
(* are in the module Database, the threads in Server.                      *)
(*                                                                         *)
(* Bounds: NProcs, the daemons ever started; MaxCode, the codes issued;    *)
(* RowSizes and ColumnSizes, the values of ROWS and COLUMNS.               *)
(***************************************************************************)
EXTENDS Integers, Sequences

CONSTANTS
    NProcs,        \* processes 1 .. NProcs; 0 is the PID of no process
    RowSizes, ColumnSizes,
    NSeats,        \* the seats of the largest hall
    MaxCode

Procs == 1 .. NProcs
Seats == 0 .. NSeats - 1
None   == 0        \* no process
Absent == -1       \* the value of a key that is not in the file

ASSUME ProcAssumption == NProcs \in Nat
ASSUME SizeAssumption ==
    /\ 1 \in RowSizes /\ RowSizes \subseteq Nat
    /\ 1 \in ColumnSizes /\ ColumnSizes \subseteq Nat
    /\ NSeats \in Nat /\ MaxCode \in Nat
    /\ \A r \in RowSizes, c \in ColumnSizes : r * c <= NSeats

(* The settings in the order in which POPULATE writes them; seat 0 follows. *)
PopulateList == <<"IP", "PORT", "PID", "TIMESTAMP", "ROWS", "COLUMNS", "FILM", "SHOWTIME",
                  "ID_COUNTER">>
Settings == {"IP", "PORT", "PID", "TIMESTAMP", "ROWS", "COLUMNS", "FILM", "SHOWTIME",
             "ID_COUNTER"}
Default(k) == IF k \in {"ROWS", "COLUMNS"} THEN 1 ELSE 0

VARIABLES
    pidFile,    \* the PID in the PID file, None while it is empty
    lockHolder, \* the daemon whose descriptor holds the flock of the PID file
    created,    \* does data.dat exist?
    setting,    \* its settings
    seat,       \* its seats: Absent, 0 (free) or a code
    held,       \* the codes handed out, to requests under way and to clients
    pc,         \* pc[p]: where daemon p is
    at,         \* at[p]: the index of its current loop
    clean,      \* clean[p]: the local of procedure_setup
    size,       \* size[p]: rows * columns of cinema_info
    signalled,  \* the daemons that block a SIGTERM
    starter,    \* starter[p]: the process that executed cinemad, until it exits
    writers,    \* writers[p]: the processes with the write end of its pipe open
    message,    \* message[p]: is MSG in the pipe?
    ctl,        \* what cinemactl does
    asked       \* the PID the server told cinemactl

files    == <<created, setting, seat>>
pidLock  == <<pidFile, lockHolder>>
loops    == <<at, clean, size>>
pipes    == <<starter, writers, message>>
operator == <<ctl, asked>>
outside  == <<operator, held>>
vars     == <<pidLock, files, pc, loops, signalled, pipes, outside>>

Init ==
    /\ pidFile = None /\ lockHolder = None
    /\ created = FALSE
    /\ setting = [k \in Settings |-> Absent]
    /\ seat = [s \in Seats |-> Absent]
    /\ held = {}
    /\ pc = [p \in Procs |-> "new"]
    /\ at = [p \in Procs |-> 0]
    /\ clean = [p \in Procs |-> FALSE]
    /\ size = [p \in Procs |-> 0]
    /\ signalled = {}
    /\ starter = [p \in Procs |-> "none"]
    /\ writers = [p \in Procs |-> {}]
    /\ message = [p \in Procs |-> FALSE]
    /\ ctl = "idle"
    /\ asked = None

-----------------------------------------------------------------------------
Goto(p, l) == pc' = [pc EXCEPT ![p] = l]

(* Before signal_block_all a SIGTERM kills, after it it stays pending. *)
Unblocked == {"fork", "open_pid", "lock_pid", "write_pid", "chdir", "notify", "close_pipe", "block"}
(* Mutant: the sockets listen before the PID is written. *)
ServingEarly(p) == pc[p] \in {"set_pid", "serving", "serving_clean"}

Serving(p) == pc[p] \in {"serving", "serving_clean"}
Running(p) == pc[p] \notin {"new", "dead"}

(* The process ends: its memory is gone, the kernel closes its descriptors *)
(* and drops its lock.                                                     *)
Ends(p) ==
    /\ Goto(p, "dead")
    /\ lockHolder' = IF lockHolder = p THEN None ELSE lockHolder
    /\ writers' = [writers EXCEPT ![p] = @ \ {"daemon"}]
    /\ signalled' = signalled \ {p}
    /\ at' = [at EXCEPT ![p] = 0]
    /\ clean' = [clean EXCEPT ![p] = FALSE]
    /\ size' = [size EXCEPT ![p] = 0]
    /\ UNCHANGED <<pidFile, files, starter, message>>

(* A failed call or a fatal signal.  The file keeps what was flushed.      *)
Crash(p) == Running(p) /\ Ends(p) /\ UNCHANGED outside

(* A SIGTERM from cinemactl or from an administrator. *)
Terminate(p) ==
    IF pc[p] \in Unblocked THEN Ends(p)
    ELSE /\ signalled' = IF Running(p) THEN signalled \cup {p} ELSE signalled
         /\ UNCHANGED <<pidLock, files, pc, loops, pipes>>

Kill(p) == Running(p) /\ Terminate(p) /\ UNCHANGED outside

-----------------------------------------------------------------------------
(* cinemactl start and sysv_daemon: the original process opens a pipe and  *)
(* forks, its child forks the daemon and exits, and the original waits     *)
(* for the message of the daemon or for the end of the pipe.  The child    *)
(* and the daemon count as one process, which has the write end once.      *)

(* Processes are numbered in the order in which they are started. *)
Start(p) ==
    /\ pc[p] = "new" /\ \A q \in Procs : q < p => pc[q] # "new"
    /\ Goto(p, "fork")
    /\ starter' = [starter EXCEPT ![p] = "close"]
    /\ writers' = [writers EXCEPT ![p] = {"starter", "daemon"}]
    /\ UNCHANGED <<pidLock, files, loops, signalled, message, outside>>

(* Mutant: the original keeps the write end of the pipe. *)
StarterKeepsPipe(p) ==
    /\ starter[p] = "close"
    /\ starter' = [starter EXCEPT ![p] = "read"]
    /\ UNCHANGED <<pidLock, files, pc, loops, signalled, writers, message, outside>>

StarterCloses(p) ==
    /\ starter[p] = "close"
    /\ starter' = [starter EXCEPT ![p] = "read"]
    /\ writers' = [writers EXCEPT ![p] = @ \ {"starter"}]
    /\ UNCHANGED <<pidLock, files, pc, loops, signalled, message, outside>>

StarterReads(p) ==
    /\ starter[p] = "read"
    /\ message[p] \/ writers[p] = {}
    /\ starter' = [starter EXCEPT ![p] = IF message[p] THEN "success" ELSE "failure"]
    /\ UNCHANGED <<pidLock, files, pc, loops, signalled, writers, message, outside>>

SecondFork(p) ==
    /\ pc[p] = "fork"
    /\ Goto(p, "open_pid")
    /\ UNCHANGED <<pidLock, files, loops, signalled, pipes, outside>>

(* Mutant: the PID is written when the file is opened, before the lock. *)
OpenPidFileWriting(p) ==
    /\ pc[p] = "open_pid"
    /\ Goto(p, "lock_pid")
    /\ pidFile' = p
    /\ UNCHANGED <<lockHolder, files, loops, signalled, pipes, outside>>

(* store_pid: open with O_TRUNC, flock without waiting, write the PID.     *)
(* The descriptor is never closed, so the lock lasts as long as the daemon. *)
OpenPidFile(p) ==
    /\ pc[p] = "open_pid"
    /\ Goto(p, "lock_pid")
    /\ pidFile' = None
    /\ UNCHANGED <<lockHolder, files, loops, signalled, pipes, outside>>

LockPidFile(p) ==
    /\ pc[p] = "lock_pid"
    /\ IF lockHolder = None
       THEN /\ lockHolder' = p
            /\ Goto(p, "write_pid")
            /\ UNCHANGED <<pidFile, files, loops, signalled, pipes>>
       ELSE Ends(p)
    /\ UNCHANGED outside

(* Mutant: the descriptor with the lock is closed with the stream. *)
WritePidClosing(p) ==
    /\ pc[p] = "write_pid"
    /\ Goto(p, "chdir")
    /\ pidFile' = p /\ lockHolder' = None
    /\ UNCHANGED <<files, loops, signalled, pipes, outside>>

WritePid(p) ==
    /\ pc[p] = "write_pid"
    /\ Goto(p, "chdir")
    /\ pidFile' = p
    /\ UNCHANGED <<lockHolder, files, loops, signalled, pipes, outside>>

(* drop_privileges; without the directory the daemon ends (Crash). *)
DropPrivileges(p) ==
    /\ pc[p] = "chdir"
    /\ Goto(p, "notify")
    /\ UNCHANGED <<pidLock, files, loops, signalled, pipes, outside>>

Notify(p) ==
    /\ pc[p] = "notify"
    /\ Goto(p, "close_pipe")
    /\ message' = [message EXCEPT ![p] = TRUE]
    /\ UNCHANGED <<pidLock, files, loops, signalled, starter, writers, outside>>

ClosePipe(p) ==
    /\ pc[p] = "close_pipe"
    /\ Goto(p, "block")
    /\ writers' = [writers EXCEPT ![p] = @ \ {"daemon"}]
    /\ UNCHANGED <<pidLock, files, loops, signalled, starter, message, outside>>

SignalBlockAll(p) ==
    /\ pc[p] = "block"
    /\ Goto(p, "connect")
    /\ UNCHANGED <<pidLock, files, loops, signalled, pipes, outside>>

-----------------------------------------------------------------------------
(* connect_database, POPULATE and SETUP: only the daemon with the lock of  *)
(* the PID file comes here.                                                *)

Put(k, v) == setting' = [setting EXCEPT ![k] = v]

(* A missing file is created empty, and only then populated. *)
ConnectDatabase(p) ==
    /\ pc[p] = "connect"
    /\ created' = TRUE
    /\ Goto(p, IF created THEN "sizes" ELSE "populate")
    /\ at' = [at EXCEPT ![p] = 1]
    /\ UNCHANGED <<pidLock, setting, seat, clean, size, signalled, pipes, outside>>

Populate(p) ==
    /\ pc[p] = "populate"
    /\ IF at[p] <= Len(PopulateList)
       THEN /\ Put(PopulateList[at[p]], Default(PopulateList[at[p]]))
            /\ at' = [at EXCEPT ![p] = @ + 1]
            /\ UNCHANGED <<seat, pc>>
       ELSE /\ seat' = [seat EXCEPT ![0] = 0]
            /\ Goto(p, "sizes")
            /\ UNCHANGED <<setting, at>>
    /\ UNCHANGED <<pidLock, created, clean, size, signalled, pipes, outside>>

(* The hall as the file has it. *)
Hall == setting["ROWS"] * setting["COLUMNS"]

(* Mutant: a size that is no number is taken for 1. *)
SetupSizesUnchecked(p) ==
    /\ pc[p] = "sizes"
    /\ size' = [size EXCEPT ![p] =
            IF Absent \in {setting["ROWS"], setting["COLUMNS"]} THEN 1 ELSE Hall]
    /\ at' = [at EXCEPT ![p] = 0]
    /\ Goto(p, "seats")
    /\ UNCHANGED <<pidLock, files, clean, signalled, pipes, outside>>

(* Mutant: it waits until there is a size. *)
SetupSizesWaits(p) ==
    /\ pc[p] = "sizes"
    /\ Absent \notin {setting["ROWS"], setting["COLUMNS"]}
    /\ size' = [size EXCEPT ![p] = Hall]
    /\ at' = [at EXCEPT ![p] = 0]
    /\ Goto(p, "seats")
    /\ UNCHANGED <<pidLock, files, clean, signalled, pipes, outside>>

(* SETUP reads the size of the hall; without a number the start fails. *)
SetupSizes(p) ==
    /\ pc[p] = "sizes"
    /\ IF Absent \in {setting["ROWS"], setting["COLUMNS"]}
       THEN Ends(p)
       ELSE /\ size' = [size EXCEPT ![p] = Hall]
            /\ at' = [at EXCEPT ![p] = 0]
            /\ Goto(p, "seats")
            /\ UNCHANGED <<pidLock, files, clean, signalled, pipes>>
    /\ UNCHANGED outside

(* Mutant: the hall is cleaned at every start. *)
SetupSeatCleaning(p) ==
    /\ pc[p] = "seats"
    /\ IF at[p] < size[p]
       THEN /\ clean' = [clean EXCEPT ![p] = TRUE]
            /\ seat' = [seat EXCEPT ![at[p]] = IF @ = Absent THEN 0 ELSE @]
            /\ at' = [at EXCEPT ![p] = @ + 1]
            /\ UNCHANGED pc
       ELSE /\ Goto(p, "setup_clean")
            /\ at' = [at EXCEPT ![p] = 0]
            /\ UNCHANGED <<seat, clean>>
    /\ UNCHANGED <<pidLock, created, setting, size, signalled, pipes, outside>>

(* A seat the file does not have is added, and the hall will be cleaned. *)
SetupSeat(p) ==
    /\ pc[p] = "seats"
    /\ IF at[p] < size[p]
       THEN /\ clean' = [clean EXCEPT ![p] = @ \/ seat[at[p]] = Absent]
            /\ seat' = [seat EXCEPT ![at[p]] = IF @ = Absent THEN 0 ELSE @]
            /\ at' = [at EXCEPT ![p] = @ + 1]
            /\ UNCHANGED pc
       ELSE /\ Goto(p, IF clean[p] THEN "setup_clean" ELSE "set_pid")
            /\ at' = [at EXCEPT ![p] = 0]
            /\ UNCHANGED <<seat, clean>>
    /\ UNCHANGED <<pidLock, created, setting, size, signalled, pipes, outside>>

(* Mutant: the counter starts again before the seats are free. *)
CleanCounterFirst(p) ==
    /\ pc[p] \in {"setup_clean", "serving_clean"}
    /\ IF at[p] < size[p]
       THEN /\ Put("ID_COUNTER", 0)
            /\ seat' = [seat EXCEPT ![at[p]] = 0]
            /\ at' = [at EXCEPT ![p] = @ + 1]
            /\ UNCHANGED pc
       ELSE /\ Goto(p, IF pc[p] = "setup_clean" THEN "set_pid" ELSE "serving")
            /\ UNCHANGED <<setting, seat, at>>
    /\ UNCHANGED <<pidLock, created, clean, size, signalled, pipes, outside>>

(* Mutant: the loop over the seats runs once too often. *)
CleanPastEnd(p) ==
    /\ pc[p] \in {"setup_clean", "serving_clean"}
    /\ IF at[p] <= size[p]
       THEN /\ seat' = [s \in Seats |-> IF s = at[p] THEN 0 ELSE seat[s]]
            /\ at' = [at EXCEPT ![p] = @ + 1]
            /\ UNCHANGED <<setting, pc>>
       ELSE /\ Put("ID_COUNTER", 0)
            /\ Goto(p, IF pc[p] = "setup_clean" THEN "set_pid" ELSE "serving")
            /\ UNCHANGED <<seat, at>>
    /\ UNCHANGED <<pidLock, created, clean, size, signalled, pipes, outside>>

(* procedure_clean, in SETUP and for the query CLEAN. *)
Clean(p) ==
    /\ pc[p] \in {"setup_clean", "serving_clean"}
    /\ IF at[p] < size[p]
       THEN /\ seat' = [seat EXCEPT ![at[p]] = 0]
            /\ at' = [at EXCEPT ![p] = @ + 1]
            /\ UNCHANGED <<setting, pc>>
       ELSE /\ Put("ID_COUNTER", 0)
            /\ Goto(p, IF pc[p] = "setup_clean" THEN "set_pid" ELSE "serving")
            /\ UNCHANGED <<seat, at>>
    /\ UNCHANGED <<pidLock, created, clean, size, signalled, pipes, outside>>

(* Mutant: the PID is written only into a fresh database. *)
SetPidOnce(p) ==
    /\ pc[p] = "set_pid"
    /\ IF setting["PID"] \in {Absent, 0} THEN Put("PID", p) ELSE UNCHANGED setting
    /\ Goto(p, "set_timestamp")
    /\ UNCHANGED <<pidLock, created, seat, loops, signalled, pipes, outside>>

SetPid(p) ==
    /\ pc[p] = "set_pid"
    /\ Put("PID", p)
    /\ Goto(p, "set_timestamp")
    /\ UNCHANGED <<pidLock, created, seat, loops, signalled, pipes, outside>>

(* The start time of a process is told by its number. *)
SetTimestamp(p) ==
    /\ pc[p] = "set_timestamp"
    /\ Put("TIMESTAMP", p)
    /\ Goto(p, "sockets")
    /\ UNCHANGED <<pidLock, created, seat, loops, signalled, pipes, outside>>

(* The sockets and the threads; an address or a port that is none, or a    *)
(* bind that is refused, ends the process.                                 *)
SetupConnections(p) ==
    /\ pc[p] = "sockets"
    /\ IF Absent \in {setting["IP"], setting["PORT"]}
       THEN Ends(p)
       ELSE Goto(p, "serving") /\ UNCHANGED <<pidLock, files, loops, signalled, pipes>>
    /\ UNCHANGED outside

(* signal_wait returns, and main joins, closes and returns (module Server). *)
Shutdown(p) ==
    /\ pc[p] = "serving" /\ p \in signalled
    /\ Ends(p)
    /\ UNCHANGED outside

-----------------------------------------------------------------------------
(* Requests while p serves.  Those under way go on after the signal, but   *)
(* no CLEAN begins then, nor beside another.                               *)

(* procedure_get_id, for the query ID or inside a BOOK that came without a *)
(* code.  Without a counter it fails, and with it the process.             *)
Issue(p) ==
    /\ Serving(p)
    /\ setting["ID_COUNTER"] < MaxCode
    /\ IF setting["ID_COUNTER"] = Absent
       THEN Ends(p) /\ UNCHANGED held
       ELSE /\ Put("ID_COUNTER", setting["ID_COUNTER"] + 1)
            /\ held' = held \cup {setting["ID_COUNTER"] + 1}
            /\ UNCHANGED <<pidLock, created, seat, pc, loops, signalled, pipes>>
    /\ UNCHANGED operator

(* One store of a BOOK, under the code it was issued or the one it came    *)
(* with, which the client may have kept over a CLEAN.                      *)
Store(p) ==
    /\ Serving(p)
    /\ \E s \in Seats, c \in held :
        /\ s < size[p] /\ seat[s] = 0
        /\ seat' = [seat EXCEPT ![s] = c]
    /\ UNCHANGED <<pidLock, created, setting, pc, loops, signalled, pipes, outside>>

Unbook(p) ==
    /\ Serving(p)
    /\ \E s \in Seats :
        /\ seat[s] > 0
        /\ seat' = [seat EXCEPT ![s] = 0]
    /\ UNCHANGED <<pidLock, created, setting, pc, loops, signalled, pipes, outside>>

CleanBegins(p) ==
    /\ pc[p] = "serving" /\ p \notin signalled
    /\ Goto(p, "serving_clean")
    /\ at' = [at EXCEPT ![p] = 0]
    /\ UNCHANGED <<pidLock, files, clean, size, signalled, pipes, outside>>

(* SET ROWS, SET COLUMNS, larger or smaller: cinema_info stays as it is.   *)
Resize(p) ==
    /\ Serving(p)
    /\ \E k \in {"ROWS", "COLUMNS"} :
       \E n \in (IF k = "ROWS" THEN RowSizes ELSE ColumnSizes) :
            /\ n # setting[k]
            /\ Put(k, n)
    /\ UNCHANGED <<pidLock, created, seat, pc, loops, signalled, pipes, outside>>

-----------------------------------------------------------------------------
(* cinemactl stop and status: each query goes to the daemon that serves at *)
(* that moment, and fails if there is none.                                *)

Answers == \E p \in Procs : Serving(p)

CtlGoes(l) == ctl' = l /\ UNCHANGED <<pidLock, files, pc, loops, signalled, pipes, held>>

AsksPid(from, to) ==
    /\ ctl = from /\ Answers
    /\ asked' = setting["PID"]
    /\ CtlGoes(to)

StopKills ==
    /\ ctl = "kill"
    /\ ctl' = "idle" /\ asked' = None /\ held' = held
    /\ IF asked \in Procs
       THEN Terminate(asked)
       ELSE UNCHANGED <<pidLock, files, pc, loops, signalled, pipes>>

(* TEST is no query the server knows, but it answers. *)
StatusTest == ctl = "idle" /\ Answers /\ CtlGoes("status_pid") /\ UNCHANGED asked

StatusTime == ctl = "status_time" /\ Answers /\ CtlGoes("idle") /\ asked' = None

QueryFails ==
    /\ ctl \in {"status_pid", "status_time"} /\ ~Answers
    /\ CtlGoes("idle") /\ asked' = None

Cinemactl ==
    \/ AsksPid("idle", "kill") \/ StopKills
    \/ StatusTest \/ AsksPid("status_pid", "status_time") \/ StatusTime \/ QueryFails

-----------------------------------------------------------------------------
SysvDaemon(p) ==
    \/ SecondFork(p) \/ OpenPidFile(p) \/ LockPidFile(p) \/ WritePid(p) \/ DropPrivileges(p)
    \/ Notify(p) \/ ClosePipe(p)

Main(p) ==
    \/ SignalBlockAll(p) \/ ConnectDatabase(p) \/ Populate(p) \/ SetupSizes(p) \/ SetupSeat(p)
    \/ Clean(p) \/ SetPid(p) \/ SetTimestamp(p) \/ SetupConnections(p) \/ Shutdown(p)

Original(p) == StarterCloses(p) \/ StarterReads(p)

Requests(p) == Issue(p) \/ Store(p) \/ Unbook(p) \/ CleanBegins(p) \/ Resize(p)

(* Every process has come to its end. *)
Over ==
    /\ \A p \in Procs : pc[p] = "dead" /\ starter[p] \in {"success", "failure"}
    /\ UNCHANGED vars

Process(p) == Start(p) \/ Original(p) \/ SysvDaemon(p) \/ Main(p) \/ Requests(p)

(* A day on which nothing dies: cinemactl starts and stops the daemons. *)
CalmNext == (\E p \in Procs : Process(p)) \/ Cinemactl \/ Over

Next == CalmNext \/ \E p \in Procs : Crash(p) \/ Kill(p)

Spec == Init /\ [][Next]_vars

(* A process that runs is scheduled; nobody has to start one, to send a    *)
(* request or a signal, and no call has to fail.                           *)
LiveSpec ==
    Spec /\ \A p \in Procs :
        WF_vars(Original(p)) /\ WF_vars(SysvDaemon(p)) /\ WF_vars(Main(p))

=============================================================================
