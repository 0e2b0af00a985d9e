-------------------------- MODULE DaemonProperties --------------------------
(***************************************************************************)
(* What must hold of the daemons that are started on one data file.        *)
(***************************************************************************)
EXTENDS Daemon

States == Unblocked \cup {"new", "connect", "populate", "sizes", "seats", "setup_clean",
          "set_pid", "set_timestamp", "sockets", "serving", "serving_clean", "dead"}

FileTypes ==
    /\ created \in BOOLEAN
    /\ setting \in [Settings -> Nat \cup {Absent}]
    /\ setting["ROWS"] \in RowSizes \cup {Absent}
    /\ setting["COLUMNS"] \in ColumnSizes \cup {Absent}
    /\ seat \in [Seats -> Nat \cup {Absent}]

(* The loops stay inside their lists. *)
LoopTypes ==
    /\ pc \in [Procs -> States]
    /\ at \in [Procs -> Nat] /\ size \in [Procs -> 0 .. NSeats]
    /\ \A p \in Procs :
        /\ pc[p] = "populate" => at[p] \in 1 .. Len(PopulateList) + 1
        /\ pc[p] \in {"seats", "setup_clean", "serving_clean"} => at[p] <= size[p]
    /\ clean \in [Procs -> BOOLEAN]

ProcessTypes ==
    /\ pidFile \in Procs \cup {None} /\ lockHolder \in Procs \cup {None}
    /\ signalled \in SUBSET Procs
    /\ starter \in [Procs -> {"none", "close", "read", "success", "failure"}]
    /\ writers \in [Procs -> SUBSET {"starter", "daemon"}]
    /\ message \in [Procs -> BOOLEAN]
    /\ ctl \in {"idle", "kill", "status_pid", "status_time"}
    /\ asked \in Nat \cup {Absent}
    /\ held \in SUBSET (1 .. MaxCode)

(* Types, and the ranges of the loops. *)
TypeOK == FileTypes /\ LoopTypes /\ ProcessTypes

-----------------------------------------------------------------------------
(* The states of a daemon that has the data file to itself. *)
OnFile(p) == pc[p] \notin Unblocked \cup {"new", "dead"}

(* No two daemons work on the data file at a time, however many are        *)
(* started together: store_pid lets one of them through (utils.c:184).     *)
OneOnFile == \A p, q \in Procs : OnFile(p) /\ OnFile(q) => p = q

(* A start that reports success is that of the daemon that got the lock:   *)
(* the message leaves after store_pid (utils.c:53-56).                     *)
SuccessHoldsLock ==
    \A p \in Procs : starter[p] = "success" /\ pc[p] # "dead" => lockHolder = p

(* Wherever its predecessors died, in POPULATE, in SETUP or in CLEAN, a    *)
(* daemon that serves has an address, a size, its PID and every seat of    *)
(* the hall (database.c:145-213).                                          *)
ServesComplete ==
    \A p \in Procs : Serving(p) =>
        /\ \A k \in Settings \ {"FILM", "SHOWTIME", "ID_COUNTER"} : setting[k] # Absent
        /\ \A s \in Seats : s < size[p] => seat[s] # Absent

(* The server answers GET PID and GET TIMESTAMP with its own, so that      *)
(* cinemactl stop hits it and cinemactl status shows it (cinemad.c:127).   *)
AnswersItself ==
    \A p \in Procs : Serving(p) => setting["PID"] = p /\ setting["TIMESTAMP"] = p

(* cinemactl signals a daemon that has served, never the PID 0 of          *)
(* POPULATE, its own process group (cinemactl.c:123-127).                  *)
StopsADaemon ==
    ctl \in {"kill", "status_time"} =>
        asked \in Procs /\ pc[asked] \in {"serving", "serving_clean", "dead"}

(* The PID file never names another than the daemon that serves: a second *)
(* start empties the file before it asks for the lock, but it writes its   *)
(* own PID only with the lock (utils.c:184-191).                           *)
PidFileNamesOwner == \A p \in Procs : Serving(p) => pidFile \in {None, p}

(* A start that lets the codes begin again from 1 leaves no seat with a    *)
(* code of before, although SETUP cleans only what the new daemon takes    *)
(* for the hall, the hall may have been resized since, and the daemon      *)
(* before may have died between a code and its seats or inside CLEAN       *)
(* (database.c:160, 202-205, 227-237).                                     *)
CodesStartAfresh ==
    [][setting'["ID_COUNTER"] # setting["ID_COUNTER"] /\ ~(\E p \in Procs : Serving(p)) =>
        \A s \in Seats : seat[s] <= 0]_vars

(* Daemon p comes to the data file, and finds in it each seat of the hall. *)
FindsAllSeats(p) ==
    /\ pc[p] = "connect" /\ created
    /\ Absent \notin {setting["ROWS"], setting["COLUMNS"]}
    /\ \A s \in Seats : s < Hall => seat[s] # Absent

Starting == {"connect", "populate", "sizes", "seats", "setup_clean", "set_pid", "set_timestamp",
             "sockets"}

(* A start that finds all seats of the hall in the file, of any size, has  *)
(* kept every booking when it comes to serve, and at each step before:     *)
(* SETUP cleans the hall only when a seat was missing (database.c:185-205).*)
RestartKeepsBookings ==
    \A p \in Procs, s \in Seats, c \in 1 .. MaxCode :
        [](FindsAllSeats(p) /\ seat[s] = c => [](pc[p] \in Starting => seat[s] = c))

(* The original process returns, with success or failure, wherever the     *)
(* daemon or the child before it dies (utils.c:64-68).                     *)
StarterReturns == \A p \in Procs : starter[p] = "close" ~> starter[p] \in {"success", "failure"}

(* Every start comes to an end: the daemon serves or is gone.              *)
StartSettles == \A p \in Procs : pc[p] = "fork" ~> pc[p] \in {"serving", "dead"}

(* A SIGTERM ends the daemon, also one that comes while it is starting     *)
(* and has blocked it (cinemad.c:61, 74).                                  *)
SignalStops == \A p \in Procs : p \in signalled ~> pc[p] = "dead"

=============================================================================
