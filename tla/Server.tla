------------------------------- MODULE Server -------------------------------
(***************************************************************************)
(* The threads of the daemon (server/cinemad/cinemad.c): main, one         *)
(* connection manager per listening socket, one handler with a timer per   *)
(* accepted connection, and the joiner that reaps the handlers through     *)
(* request_queue.  SIGALRM stops a manager at shutdown, a handler whose    *)
(* client stays silent, and a timer no longer needed.  What a handler does *)
(* in the database is the subject of the module Database: here it is one   *)
(* step that needs the database open.                                      *)
(*                                                                         *)
(* Bound: each element of Handlers is one connection, accepted once.       *)
(***************************************************************************)
EXTENDS Integers, FiniteSets, Sequences

CONSTANTS
    Managers,    \* the connection managers: internet and internal
    Handlers,    \* the connections of a behaviour, with their handlers
    Limits,      \* how many descriptors may be left for accepted connections
    Punctual,    \* are timers on time: they expire only on a client that stays
                 \* silent, and detach its handler before its id is reused
    NoHandler

ASSUME LimitsAssumption == Limits \subseteq Nat \ {0}
ASSUME PunctualAssumption == Punctual \in BOOLEAN
ASSUME NoHandlerAssumption == NoHandler \notin Handlers

VARIABLES
    mainPc,      \* where main is; "stopped" and "aborted" end the process
    running,     \* is_server_running
    dbOpen,      \* the database has not been closed
    mgrPc,       \* mgrPc[m]: where manager m is
    mgrReq,      \* mgrReq[m]: the connection it is handling
    hPc,         \* hPc[h]: where the handler of connection h is
    talks,       \* talks[h]: the client of h sends a request
    limit,       \* the descriptors left for accepted connections, in this run
    backlog,     \* backlog[m]: the connections that wait for accept at the socket of m
    conn,        \* conn[h]: "none", "open" or "closed"
    tPc,         \* tPc[h]: where the timer of h is
    signalled,   \* the managers, handlers and timers with SIGALRM pending
    detached,    \* the handlers detached by their timers
    jPc,         \* where the joiner is
    jStatus,     \* its local status
    jReq,        \* the connection it is joining and closing
    stackIn, stackOut   \* request_queue

main    == <<mainPc, running, dbOpen>>
manager == <<mgrPc, mgrReq>>
handler == <<hPc, talks, backlog, limit>>
timer   == <<tPc, detached>>
joiner  == <<jPc, jStatus, jReq>>
queue   == <<stackIn, stackOut>>
vars    == <<main, manager, handler, conn, timer, signalled, joiner, queue>>

Queue == INSTANCE RequestQueue WITH Items <- Handlers

Timer(h) == <<"timer", h>>

(* The threads run until main returns or a failed call exits the process. *)
Alive == mainPc \notin {"stopped", "aborted"}

Init ==
    /\ mainPc = "wait" /\ running = TRUE /\ dbOpen = TRUE
    /\ mgrPc = [m \in Managers |-> "accept"]
    /\ mgrReq = [m \in Managers |-> NoHandler]
    /\ hPc = [h \in Handlers |-> "none"]
    /\ talks = [h \in Handlers |-> FALSE]
    /\ limit \in Limits
    /\ backlog = [m \in Managers |-> {}]
    /\ conn = [h \in Handlers |-> "none"]
    /\ tPc = [h \in Handlers |-> "none"]
    /\ signalled = {} /\ detached = {}
    /\ jPc = "status" /\ jStatus = TRUE /\ jReq = NoHandler
    /\ Queue!Init

-----------------------------------------------------------------------------
(* main: wait for a signal, stop the managers, then the joiner, then close *)
(* the database.                                                           *)

SignalArrives ==
    /\ mainPc = "wait"
    /\ mainPc' = "kill"
    /\ UNCHANGED <<running, dbOpen, manager, handler, conn, timer, signalled, joiner, queue>>

KillManager ==
    /\ mainPc = "kill"
    /\ \E m \in Managers \ signalled :
        /\ signalled' = signalled \cup {m}
        /\ mainPc' = IF Managers \subseteq signalled' THEN "join_managers" ELSE "kill"
    /\ UNCHANGED <<running, dbOpen, manager, handler, conn, timer, joiner, queue>>

(* Mutant: the flag is unset while a manager may still enqueue. *)
UnsetEarly ==
    /\ mainPc = "join_managers"
    /\ mainPc' = "join_joiner"
    /\ running' = FALSE
    /\ UNCHANGED <<dbOpen, manager, handler, conn, timer, signalled, joiner, queue>>

JoinManagersUnset ==
    /\ mainPc = "join_managers"
    /\ \A m \in Managers : mgrPc[m] = "dead"
    /\ mainPc' = "join_joiner"
    /\ running' = FALSE
    /\ UNCHANGED <<dbOpen, manager, handler, conn, timer, signalled, joiner, queue>>

JoinJoiner ==
    /\ mainPc = "join_joiner"
    /\ jPc = "ended"
    /\ mainPc' = "all_joined"
    /\ UNCHANGED <<running, dbOpen, manager, handler, conn, timer, signalled, joiner, queue>>

CloseDatabase ==
    /\ mainPc = "all_joined"
    /\ dbOpen' = FALSE
    /\ mainPc' = "closed"
    /\ UNCHANGED <<running, manager, handler, conn, timer, signalled, joiner, queue>>

Return ==
    /\ mainPc = "closed"
    /\ mainPc' = "stopped"
    /\ UNCHANGED <<running, dbOpen, manager, handler, conn, timer, signalled, joiner, queue>>

(* A call whose failure a try without a label turns into exit(). *)
Abort == mainPc' = "aborted" /\ UNCHANGED <<running, dbOpen>>

Main == KillManager \/ JoinManagersUnset \/ JoinJoiner \/ CloseDatabase \/ Return

-----------------------------------------------------------------------------
(* connection_mngr.  SIGALRM is blocked from the return of accept to the   *)
(* end of the enqueue.                                                     *)

(* A client connects: the kernel has the connection in the backlog of the  *)
(* listening socket until the manager accepts it.                          *)
Connect(m) ==
    /\ \E h \in Handlers, sends \in BOOLEAN :
        /\ conn[h] = "none" /\ \A n \in Managers : h \notin backlog[n]
        /\ backlog' = [backlog EXCEPT ![m] = @ \cup {h}]
        /\ talks' = [talks EXCEPT ![h] = sends]
    /\ UNCHANGED <<main, manager, hPc, limit, conn, timer, signalled, joiner, queue>>

(* accept fails with EMFILE while no descriptor is free; connection_accepted *)
(* sleeps and tries again, which is to wait for one.                       *)
DescriptorFree == Cardinality({h \in Handlers : conn[h] = "open"}) < limit

(* Mutant: the connection is not recorded in the request. *)
AcceptUnrecorded(m) ==
    /\ mgrPc[m] = "accept" /\ DescriptorFree
    /\ \E h \in backlog[m] :
        /\ backlog' = [backlog EXCEPT ![m] = @ \ {h}]
        /\ conn' = [conn EXCEPT ![h] = "open"]
    /\ mgrPc' = [mgrPc EXCEPT ![m] = "accepted"]
    /\ UNCHANGED <<main, mgrReq, hPc, talks, limit, timer, signalled, joiner, queue>>

Accept(m) ==
    /\ mgrPc[m] = "accept" /\ DescriptorFree
    /\ \E h \in backlog[m] :
        /\ backlog' = [backlog EXCEPT ![m] = @ \ {h}]
        /\ conn' = [conn EXCEPT ![h] = "open"]
        /\ mgrReq' = [mgrReq EXCEPT ![m] = h]
    /\ mgrPc' = [mgrPc EXCEPT ![m] = "accepted"]
    /\ UNCHANGED <<main, hPc, talks, limit, timer, signalled, joiner, queue>>

BlockSignal(m) ==
    /\ mgrPc[m] = "accepted"
    /\ mgrPc' = [mgrPc EXCEPT ![m] = "create"]
    /\ UNCHANGED <<main, mgrReq, handler, conn, timer, signalled, joiner, queue>>

CreateHandler(m) ==
    /\ mgrPc[m] = "create"
    /\ hPc' = [hPc EXCEPT ![mgrReq[m]] = "start"]
    /\ mgrPc' = [mgrPc EXCEPT ![m] = "enqueue"]
    /\ UNCHANGED <<main, mgrReq, talks, backlog, limit, conn, timer, signalled, joiner, queue>>

EnqueueHandler(m) ==
    /\ mgrPc[m] = "enqueue"
    /\ Queue!Enqueue(mgrReq[m])
    /\ mgrPc' = [mgrPc EXCEPT ![m] = "accept"]
    /\ UNCHANGED <<main, mgrReq, handler, conn, timer, signalled, joiner>>

(* The signal handler thread_exit runs where SIGALRM is not blocked: after *)
(* accept too, and then the connection stays open without a handler.       *)
ManagerDies(m) ==
    /\ m \in signalled /\ mgrPc[m] \in {"accept", "accepted"}
    /\ mgrPc' = [mgrPc EXCEPT ![m] = "dead"]
    /\ UNCHANGED <<main, mgrReq, handler, conn, timer, signalled, joiner, queue>>

Manager(m) == Accept(m) \/ BlockSignal(m) \/ CreateHandler(m) \/ EnqueueHandler(m) \/ ManagerDies(m)

-----------------------------------------------------------------------------
(* request_handler.  SIGALRM is unblocked around recv only. *)

GoTo(h, from, to) ==
    /\ hPc[h] = from
    /\ hPc' = [hPc EXCEPT ![h] = to]
    /\ UNCHANGED <<talks, backlog, limit>>

CreateTimer(h) ==
    /\ GoTo(h, "start", "timed")
    /\ tPc' = [tPc EXCEPT ![h] = "sleep"]
    /\ UNCHANGED <<main, manager, conn, detached, signalled, joiner, queue>>

UnblockSignal(h) ==
    /\ GoTo(h, "timed", "recv")
    /\ UNCHANGED <<main, manager, conn, timer, signalled, joiner, queue>>

RecvReturns(h) ==
    /\ talks[h]
    /\ GoTo(h, "recv", "received")
    /\ UNCHANGED <<main, manager, conn, timer, signalled, joiner, queue>>

BlockAgain(h) ==
    /\ GoTo(h, "received", "kill_timer")
    /\ UNCHANGED <<main, manager, conn, timer, signalled, joiner, queue>>

KillTimer(h) ==
    /\ GoTo(h, "kill_timer", "join_timer")
    /\ signalled' = signalled \cup {Timer(h)}
    /\ UNCHANGED <<main, manager, conn, timer, joiner, queue>>

JoinTimer(h) ==
    /\ tPc[h] = "ended"
    /\ GoTo(h, "join_timer", "execute")
    /\ UNCHANGED <<main, manager, conn, timer, signalled, joiner, queue>>

Execute(h) ==
    /\ GoTo(h, "execute", "send")
    /\ UNCHANGED <<main, manager, conn, timer, signalled, joiner, queue>>

Send(h) ==
    /\ GoTo(h, "send", "exited")
    /\ UNCHANGED <<main, manager, conn, timer, signalled, joiner, queue>>

(* A call fails and exits the process: recv when the client resets the     *)
(* connection, database_execute, or send with an errno that try compares   *)
(* to its value of before the call.                                        *)
HandlerFails(h) ==
    /\ hPc[h] \in {"recv", "execute", "send"}
    /\ Abort
    /\ UNCHANGED <<manager, handler, conn, timer, signalled, joiner, queue>>

(* thread_exit runs: SIGALRM is delivered while it is not blocked. *)
HandlerDies(h) ==
    /\ h \in signalled
    /\ \E from \in {"recv", "received"} : GoTo(h, from, "exited")
    /\ UNCHANGED <<main, manager, conn, timer, signalled, joiner, queue>>

Handler(h) ==
    \/ CreateTimer(h) \/ UnblockSignal(h) \/ RecvReturns(h) \/ BlockAgain(h)
    \/ KillTimer(h) \/ JoinTimer(h) \/ Execute(h) \/ Send(h) \/ HandlerDies(h)

-----------------------------------------------------------------------------
(* thread_timer.  SIGALRM ends it at any point, but not at once. *)

Expire(h) ==
    /\ tPc[h] = "sleep"
    /\ Punctual => (~talks[h] /\ hPc[h] = "recv")
    /\ tPc' = [tPc EXCEPT ![h] = "kill"]
    /\ UNCHANGED <<main, manager, handler, conn, detached, signalled, joiner, queue>>

(* Mutant: the timer signals itself, and its parent is left alone. *)
KillSelf(h) ==
    /\ tPc[h] = "kill"
    /\ signalled' = signalled \cup {Timer(h)}
    /\ tPc' = [tPc EXCEPT ![h] = "detach"]
    /\ UNCHANGED <<main, manager, handler, conn, detached, joiner, queue>>

KillHandler(h) ==
    /\ tPc[h] = "kill"
    /\ signalled' = signalled \cup {h}
    /\ tPc' = [tPc EXCEPT ![h] = "detach"]
    /\ UNCHANGED <<main, manager, handler, conn, detached, joiner, queue>>

(* The joiner waits for h or has joined it. *)
JoinedOrJoining(h) == conn[h] = "closed" \/ (jReq = h /\ jPc \in {"joining", "close"})

(* pthread_detach has no effect on a thread that is being joined.  On one  *)
(* that has been joined it is undefined: nothing, or a late timer detaches *)
(* the thread to which the identifier of its parent has passed.            *)
Detach(h) ==
    /\ tPc[h] = "detach"
    /\ \/ ~JoinedOrJoining(h) /\ detached' = detached \cup {h}
       \/ JoinedOrJoining(h) /\ detached' = detached
       \/ /\ ~Punctual /\ conn[h] = "closed"
          /\ \E g \in Handlers : /\ hPc[g] # "none" /\ ~JoinedOrJoining(g)
                                 /\ detached' = detached \cup {g}
    /\ tPc' = [tPc EXCEPT ![h] = "ended"]
    /\ UNCHANGED <<main, manager, handler, conn, signalled, joiner, queue>>

TimerDies(h) ==
    /\ Timer(h) \in signalled /\ tPc[h] # "ended"
    /\ tPc' = [tPc EXCEPT ![h] = "ended"]
    /\ UNCHANGED <<main, manager, handler, conn, detached, signalled, joiner, queue>>

TimerStep(h) == Expire(h) \/ KillHandler(h) \/ Detach(h) \/ TimerDies(h)

-----------------------------------------------------------------------------
(* thread_joiner.  It reads the flag before the queue: once the flag is    *)
(* unset nobody enqueues any more.                                         *)

ReadStatus ==
    /\ jPc = "status"
    /\ jStatus' = running
    /\ jPc' = "empty"
    /\ UNCHANGED <<main, manager, handler, conn, timer, signalled, jReq, queue>>

ReadEmpty ==
    /\ jPc = "empty"
    /\ jPc' = IF ~Queue!IsEmpty THEN "dequeue" ELSE IF jStatus THEN "status" ELSE "ended"
    /\ UNCHANGED <<main, manager, handler, conn, timer, signalled, jStatus, jReq, queue>>

DequeueHandler ==
    /\ jPc = "dequeue"
    /\ \E h \in Handlers : Queue!Dequeue(h) /\ jReq' = h
    /\ jPc' = "join"
    /\ UNCHANGED <<main, manager, handler, conn, timer, signalled, jStatus>>

(* Mutant: a failed join is given up, and the connection stays open.       *)
JoinBeginsGivingUp ==
    /\ jPc = "join"
    /\ jPc' = IF jReq \in detached THEN "again" ELSE "joining"
    /\ UNCHANGED <<main, manager, handler, conn, timer, signalled, jStatus, jReq, queue>>

(* pthread_join returns at once, with an error that try(..., !0) takes for *)
(* a success, when the handler has been detached.                          *)
JoinBegins ==
    /\ jPc = "join"
    /\ jPc' = IF jReq \in detached THEN "close" ELSE "joining"
    /\ UNCHANGED <<main, manager, handler, conn, timer, signalled, jStatus, jReq, queue>>

(* Mutant: the joiner does not wait for the handler. *)
JoinReturnsEarly ==
    /\ jPc = "joining"
    /\ jPc' = "close"
    /\ UNCHANGED <<main, manager, handler, conn, timer, signalled, jStatus, jReq, queue>>

JoinReturns ==
    /\ jPc = "joining"
    /\ hPc[jReq] = "exited"
    /\ jPc' = "close"
    /\ UNCHANGED <<main, manager, handler, conn, timer, signalled, jStatus, jReq, queue>>

CloseConnection ==
    /\ jPc = "close"
    /\ conn' = [conn EXCEPT ![jReq] = "closed"]
    /\ jPc' = "again"
    /\ UNCHANGED <<main, manager, handler, timer, signalled, jStatus, jReq, queue>>

(* Mutant: the inner loop does not ask whether the queue is empty. *)
NeverEmptyAgain ==
    /\ jPc = "again"
    /\ jPc' = "dequeue"
    /\ UNCHANGED <<main, manager, handler, conn, timer, signalled, jStatus, jReq, queue>>

(* The inner loop goes on while the queue is not empty. *)
ReadEmptyAgain ==
    /\ jPc = "again"
    /\ jPc' = IF Queue!IsEmpty THEN "status" ELSE "dequeue"
    /\ UNCHANGED <<main, manager, handler, conn, timer, signalled, jStatus, jReq, queue>>

Joiner ==
    \/ ReadStatus \/ ReadEmpty \/ DequeueHandler \/ JoinBegins \/ JoinReturns
    \/ CloseConnection \/ ReadEmptyAgain

-----------------------------------------------------------------------------
Next ==
    \/ /\ Alive
       /\ \/ SignalArrives \/ Main \/ Joiner
          \/ \E m \in Managers : Connect(m) \/ Manager(m)
          \/ \E h \in Handlers : Handler(h) \/ HandlerFails(h) \/ TimerStep(h)
    \/ ~Alive /\ UNCHANGED vars

Spec == Init /\ [][Next]_vars

(* The scheduler runs every thread that can go on and delivers a pending   *)
(* signal; the sleeps of the timers and of accept end.  Nobody owes the daemon a connection, a *)
(* signal or a failure.                                                    *)
LiveSpec ==
    /\ Spec
    /\ WF_vars(Alive /\ Main) /\ WF_vars(Alive /\ Joiner)
    /\ \A m \in Managers : WF_vars(Alive /\ Manager(m)) /\ WF_vars(Alive /\ ManagerDies(m))
    /\ \A h \in Handlers : /\ WF_vars(Alive /\ Handler(h)) /\ WF_vars(Alive /\ TimerStep(h))
                           /\ WF_vars(Alive /\ HandlerDies(h)) /\ WF_vars(Alive /\ TimerDies(h))

-----------------------------------------------------------------------------
MainLabels == {"wait", "kill", "join_managers", "join_joiner", "all_joined", "closed",
               "stopped", "aborted"}
HandlerLabels == {"none", "start", "timed", "recv", "received", "kill_timer", "join_timer",
                  "execute", "send", "exited"}

(* Types; a handler exists from its creation to its exit with a connection *)
(* that was accepted.                                                      *)
TypeOK ==
    /\ mainPc \in MainLabels /\ running \in BOOLEAN /\ dbOpen \in BOOLEAN
    /\ mgrPc \in [Managers -> {"accept", "accepted", "create", "enqueue", "dead"}]
    /\ mgrReq \in [Managers -> Handlers \cup {NoHandler}]
    /\ hPc \in [Handlers -> HandlerLabels]
    /\ talks \in [Handlers -> BOOLEAN]
    /\ backlog \in [Managers -> SUBSET Handlers] /\ limit \in Limits
    /\ conn \in [Handlers -> {"none", "open", "closed"}]
    /\ tPc \in [Handlers -> {"none", "sleep", "kill", "detach", "ended"}]
    /\ signalled \subseteq Managers \cup Handlers \cup {Timer(h) : h \in Handlers}
    /\ detached \subseteq Handlers
    /\ jPc \in {"status", "empty", "dequeue", "join", "joining", "close", "again", "ended"}
    /\ jStatus \in BOOLEAN /\ jReq \in Handlers \cup {NoHandler}
    /\ stackIn \in Seq(Handlers) /\ stackOut \in Seq(Handlers)
    /\ \A h \in Handlers : hPc[h] # "none" => conn[h] # "none"

(* A handler that runs a request or sends its answer has its connection    *)
(* and the database: neither the joiner nor the shutdown is ahead of it.   *)
ServesOnOpen ==
    \A h \in Handlers : hPc[h] \in {"execute", "send"} => conn[h] = "open" /\ dbOpen

(* What the managers enqueue and the joiner dequeues goes through the two  *)
(* stacks as through one queue: handlers are joined in the order in which  *)
(* they were enqueued, and none is lost or joined twice.                   *)
QueueIsFifo == Queue!ImplementsFifo

(* When main has joined the joiner, the queue is empty and no connection   *)
(* that was accepted is open, but for one at each manager that the signal  *)
(* ended between accept and the mask (cinemad.c:251-253), before it had a  *)
(* handler.                                                                *)
NothingLost ==
    mainPc \in {"all_joined", "closed", "stopped"} =>
        /\ Queue!IsEmpty
        /\ \A h \in Handlers : conn[h] = "open" =>
                hPc[h] = "none" /\ \E m \in Managers : mgrPc[m] = "dead" /\ mgrReq[m] = h

(* "All thread joined" (cinemad.c, main): no handler runs any more.        *)
AllThreadJoined ==
    mainPc = "all_joined" => \A h \in Handlers : hPc[h] \in {"none", "exited"}

(* The termination signal leads to the end of the process, whatever the    *)
(* clients that are connected do or fail to do.                            *)
ShutdownTerminates == mainPc = "kill" ~> ~Alive

(* Every handler ends and has its connection closed, in the lifetime of    *)
(* the process: a silent client holds neither for ever.                    *)
ConnectionsReaped == \A h \in Handlers : hPc[h] = "start" ~> conn[h] = "closed" \/ ~Alive

(* A client that connects is served: when the descriptors are used up by   *)
(* other clients, silent ones included, accept goes on trying until the    *)
(* joiner has closed one of them.  Only a shutdown or the end of the       *)
(* process leaves a client in the backlog.                                 *)
AcceptedEventually ==
    \A h \in Handlers : (\E m \in Managers : h \in backlog[m]) ~>
                           (conn[h] # "none" \/ mainPc # "wait")

=============================================================================
