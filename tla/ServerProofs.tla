---------------------------- MODULE ServerProofs ----------------------------
(***************************************************************************)
(* Proofs of the safety properties of the module Server for any number of  *)
(* managers, connections and descriptors.                                  *)
(***************************************************************************)
EXTENDS Server, TLAPS

(* Handler h waits in request_queue. *)
InQueue(h) ==
    \/ \E i \in 1 .. Len(stackIn) : stackIn[i] = h
    \/ \E i \in 1 .. Len(stackOut) : stackOut[i] = h

(* A connection goes through one manager, once: it is in one backlog until *)
(* it is accepted, and gets its handler before it is enqueued.             *)
AcceptsOnce ==
    /\ \A m \in Managers :
        /\ mgrPc[m] \in {"accepted", "create"} =>
             mgrReq[m] \in Handlers /\ hPc[mgrReq[m]] = "none" /\ conn[mgrReq[m]] = "open"
        /\ mgrPc[m] = "enqueue" => mgrReq[m] \in Handlers /\ hPc[mgrReq[m]] # "none"
        /\ \A h \in backlog[m] : conn[h] = "none"
    /\ \A m, n \in Managers : m # n =>
        /\ backlog[m] \cap backlog[n] = {}
        /\ {mgrPc[m], mgrPc[n]} \subseteq {"accepted", "create"} => mgrReq[m] # mgrReq[n]

(* Only a handler that was created has a timer that runs or is detached. *)
TimersOfHandlers ==
    \A h \in Handlers :
        tPc[h] \in {"sleep", "kill", "detach"} \/ h \in detached => hPc[h] # "none"

(* The joiner closes the connection of a handler that ended, or that was   *)
(* detached, and of no other.                                              *)
ClosesEnded ==
    /\ jPc \in {"join", "joining", "close"} => jReq \in Handlers
    /\ jPc = "close" => hPc[jReq] = "exited" \/ jReq \in detached
    /\ \A h \in Handlers : conn[h] = "closed" => hPc[h] = "exited" \/ h \in detached

(* A handler is with its manager, in the queue, or with the joiner, until  *)
(* its connection is closed.                                               *)
Tracked ==
    \A h \in Handlers : hPc[h] # "none" =>
        \/ conn[h] = "closed" \/ InQueue(h)
        \/ jPc \in {"join", "joining", "close"} /\ jReq = h
        \/ \E m \in Managers : mgrPc[m] = "enqueue" /\ mgrReq[m] = h

(* The order of the shutdown: the managers, the flag, the joiner that has  *)
(* read it and found the queue empty, main.                                *)
InOrder ==
    /\ ~running => \A m \in Managers : mgrPc[m] = "dead"
    /\ ~jStatus => ~running
    /\ jPc = "ended" => Queue!IsEmpty /\ ~running
    /\ mainPc \in {"join_joiner", "all_joined", "closed", "stopped"} => ~running
    /\ mainPc \in {"all_joined", "closed", "stopped"} \/ ~dbOpen => jPc = "ended"

SInv == TypeOK /\ AcceptsOnce /\ TimersOfHandlers /\ ClosesEnded /\ Tracked /\ InOrder

(* What a handler does from the request it received to the answer. *)
Serving == {"received", "kill_timer", "join_timer", "execute", "send"}

(* With timers that are on time, a handler whose client sends a request is *)
(* never detached.                                                         *)
TalkersUndisturbed ==
    \A h \in Handlers :
        /\ hPc[h] \in Serving => talks[h]
        /\ tPc[h] \in {"kill", "detach"} \/ h \in detached => ~talks[h]

-----------------------------------------------------------------------------
LEMMA InitSInv == Init => SInv /\ TalkersUndisturbed
<1> SUFFICES ASSUME Init PROVE SInv /\ TalkersUndisturbed
  OBVIOUS
<1> USE DEF Init, Queue!Init
<1>1. TypeOK
  BY DEF TypeOK, MainLabels, HandlerLabels
<1>2. AcceptsOnce /\ TimersOfHandlers /\ ClosesEnded /\ Tracked /\ InOrder
  BY DEF AcceptsOnce, TimersOfHandlers, ClosesEnded, Tracked, InOrder
<1>3. TalkersUndisturbed
  BY DEF TalkersUndisturbed, Serving
<1> QED
  BY <1>1, <1>2, <1>3 DEF SInv

(* The invariants speak of these variables only through their values. *)
LEMMA StutterSInv ==
    ASSUME SInv, UNCHANGED vars
    PROVE  SInv'
<1>1. /\ UNCHANGED <<mainPc, running, dbOpen, mgrPc, mgrReq, hPc, talks, backlog, limit>>
      /\ UNCHANGED <<conn, tPc, detached, signalled, jPc, jStatus, jReq, stackIn, stackOut>>
  BY DEF vars, main, manager, handler, timer, joiner, queue
<1>2. TypeOK'
  BY <1>1 DEF SInv, TypeOK
<1>3. AcceptsOnce' /\ TimersOfHandlers' /\ ClosesEnded'
  BY <1>1 DEF SInv, AcceptsOnce, TimersOfHandlers, ClosesEnded
<1>4. Tracked' /\ InOrder'
  BY <1>1 DEF SInv, Tracked, InQueue, InOrder, Queue!IsEmpty
<1> QED
  BY <1>2, <1>3, <1>4 DEF SInv

-----------------------------------------------------------------------------
(* main *)

(* main changes nothing but where it is, its flag and the database. *)
LEMMA MainFrame ==
    ASSUME SignalArrives \/ Main
    PROVE  /\ UNCHANGED <<mgrPc, mgrReq, hPc, talks, backlog, limit>>
           /\ UNCHANGED <<conn, tPc, detached, jPc, jStatus, jReq, stackIn, stackOut>>
BY DEF SignalArrives, Main, KillManager, JoinManagersUnset, JoinJoiner, CloseDatabase, Return,
       manager, handler, timer, joiner, queue

LEMMA MainKeeps ==
    ASSUME SInv, SignalArrives \/ Main
    PROVE  SInv'
<1>1. /\ UNCHANGED <<mgrPc, mgrReq, hPc, talks, backlog, limit>>
      /\ UNCHANGED <<conn, tPc, detached, jPc, jStatus, jReq, stackIn, stackOut>>
  BY MainFrame
<1>2. /\ mainPc' \in MainLabels /\ running' \in BOOLEAN /\ dbOpen' \in BOOLEAN
      /\ signalled' \subseteq Managers \cup Handlers \cup {Timer(h) : h \in Handlers}
  BY DEF SInv, TypeOK, MainLabels, SignalArrives, Main, KillManager, JoinManagersUnset,
         JoinJoiner, CloseDatabase, Return
<1>3. TypeOK'
  BY <1>1, <1>2 DEF SInv, TypeOK
<1>4. AcceptsOnce' /\ TimersOfHandlers' /\ ClosesEnded'
  BY <1>1 DEF SInv, AcceptsOnce, TimersOfHandlers, ClosesEnded
<1>5. Tracked'
  BY <1>1 DEF SInv, Tracked, InQueue
<1>6. InOrder'
  BY <1>1 DEF SInv, TypeOK, InOrder, Queue!IsEmpty, SignalArrives, Main, KillManager,
         JoinManagersUnset, JoinJoiner, CloseDatabase, Return
<1> QED
  BY <1>3, <1>4, <1>5, <1>6 DEF SInv

-----------------------------------------------------------------------------
(* The connection managers *)

(* The flag is set while a manager lives. *)
LEMMA ManagerRuns ==
    ASSUME SInv, NEW m \in Managers, mgrPc[m] # "dead"
    PROVE  running /\ jStatus /\ jPc # "ended" /\ dbOpen
           /\ mainPc \notin {"join_joiner", "all_joined", "closed", "stopped"}
BY DEF SInv, InOrder, TypeOK

LEMMA ConnectKeeps ==
    ASSUME SInv, NEW m \in Managers, Connect(m)
    PROVE  SInv'
<1>1. PICK h \in Handlers, sends \in BOOLEAN :
        /\ conn[h] = "none" /\ \A n \in Managers : h \notin backlog[n]
        /\ backlog' = [backlog EXCEPT ![m] = @ \cup {h}]
        /\ talks' = [talks EXCEPT ![h] = sends]
  BY DEF Connect
<1>2. /\ UNCHANGED <<mainPc, running, dbOpen, mgrPc, mgrReq, hPc, limit>>
      /\ UNCHANGED <<conn, tPc, detached, signalled, jPc, jStatus, jReq, stackIn, stackOut>>
  BY DEF Connect, main, manager, timer, joiner, queue
<1>3. backlog \in [Managers -> SUBSET Handlers] /\ talks \in [Handlers -> BOOLEAN]
  BY DEF SInv, TypeOK
<1>4. backlog' \in [Managers -> SUBSET Handlers]
      /\ \A n \in Managers : backlog'[n] = IF n = m THEN backlog[n] \cup {h} ELSE backlog[n]
  BY <1>1, <1>3
<1>5. talks' \in [Handlers -> BOOLEAN]
  BY <1>1, <1>3
<1>6. TypeOK'
  BY <1>2, <1>4, <1>5 DEF SInv, TypeOK
<1>7. AcceptsOnce'
  BY <1>1, <1>2, <1>4 DEF SInv, AcceptsOnce
<1>8. TimersOfHandlers' /\ ClosesEnded'
  BY <1>2 DEF SInv, TimersOfHandlers, ClosesEnded
<1>9. Tracked' /\ InOrder'
  BY <1>2 DEF SInv, Tracked, InQueue, InOrder, Queue!IsEmpty
<1> QED
  BY <1>6, <1>7, <1>8, <1>9 DEF SInv

LEMMA AcceptKeeps ==
    ASSUME SInv, NEW m \in Managers, Accept(m)
    PROVE  SInv'
<1>1. PICK h \in backlog[m] :
        /\ backlog' = [backlog EXCEPT ![m] = @ \ {h}]
        /\ conn' = [conn EXCEPT ![h] = "open"]
        /\ mgrReq' = [mgrReq EXCEPT ![m] = h]
  BY DEF Accept
<1>2. /\ UNCHANGED <<mainPc, running, dbOpen, hPc, talks, limit>>
      /\ UNCHANGED <<tPc, detached, signalled, jPc, jStatus, jReq, stackIn, stackOut>>
      /\ mgrPc[m] = "accept" /\ mgrPc' = [mgrPc EXCEPT ![m] = "accepted"]
  BY DEF Accept, main, timer, joiner, queue
<1>3. /\ backlog \in [Managers -> SUBSET Handlers] /\ conn \in [Handlers -> {"none", "open", "closed"}]
      /\ mgrReq \in [Managers -> Handlers \cup {NoHandler}]
      /\ mgrPc \in [Managers -> {"accept", "accepted", "create", "enqueue", "dead"}]
  BY DEF SInv, TypeOK
<1>4. /\ h \in Handlers /\ conn[h] = "none" /\ hPc[h] = "none"
      /\ \A n \in Managers \ {m} : h \notin backlog[n]
  BY <1>1, <1>3 DEF SInv, TypeOK, AcceptsOnce
<1>5. /\ backlog' \in [Managers -> SUBSET Handlers]
      /\ \A n \in Managers : backlog'[n] = IF n = m THEN backlog[n] \ {h} ELSE backlog[n]
  BY <1>1, <1>3
<1>6. /\ conn' \in [Handlers -> {"none", "open", "closed"}]
      /\ \A g \in Handlers : conn'[g] = IF g = h THEN "open" ELSE conn[g]
  BY <1>1, <1>3
<1>7. /\ mgrReq' \in [Managers -> Handlers \cup {NoHandler}]
      /\ mgrPc' \in [Managers -> {"accept", "accepted", "create", "enqueue", "dead"}]
      /\ mgrReq'[m] = h /\ mgrPc'[m] = "accepted"
      /\ \A n \in Managers \ {m} : mgrReq'[n] = mgrReq[n] /\ mgrPc'[n] = mgrPc[n]
  BY <1>1, <1>2, <1>3, <1>4
<1>8. TypeOK'
  BY <1>2, <1>5, <1>6, <1>7 DEF SInv, TypeOK
<1>9. AcceptsOnce'
  <2>1. ASSUME NEW n \in Managers
        PROVE  /\ mgrPc'[n] \in {"accepted", "create"} =>
                    mgrReq'[n] \in Handlers /\ hPc'[mgrReq'[n]] = "none" /\ conn'[mgrReq'[n]] = "open"
               /\ mgrPc'[n] = "enqueue" => mgrReq'[n] \in Handlers /\ hPc'[mgrReq'[n]] # "none"
               /\ \A g \in backlog'[n] : conn'[g] = "none"
    BY <1>2, <1>3, <1>4, <1>5, <1>6, <1>7 DEF SInv, AcceptsOnce
  <2>2. ASSUME NEW n \in Managers, NEW k \in Managers, n # k
        PROVE  backlog'[n] \cap backlog'[k] = {}
    BY <1>5, <2>2 DEF SInv, AcceptsOnce
  <2>3. ASSUME NEW n \in Managers, NEW k \in Managers, n # k,
               {mgrPc'[n], mgrPc'[k]} \subseteq {"accepted", "create"}
        PROVE  mgrReq'[n] # mgrReq'[k]
    BY <1>4, <1>7, <2>3 DEF SInv, AcceptsOnce
  <2> QED
    BY <2>1, <2>2, <2>3 DEF AcceptsOnce
<1>10. TimersOfHandlers' /\ ClosesEnded'
  BY <1>2, <1>6 DEF SInv, TimersOfHandlers, ClosesEnded
<1>11. Tracked'
  BY <1>2, <1>4, <1>6, <1>7 DEF SInv, Tracked, InQueue
<1>12. InOrder'
  BY <1>2, <1>7, ManagerRuns DEF InOrder
<1> QED
  BY <1>8, <1>9, <1>10, <1>11, <1>12 DEF SInv

LEMMA BlockSignalKeeps ==
    ASSUME SInv, NEW m \in Managers, BlockSignal(m)
    PROVE  SInv'
<1>1. /\ UNCHANGED <<mainPc, running, dbOpen, mgrReq, hPc, talks, backlog, limit, conn>>
      /\ UNCHANGED <<tPc, detached, signalled, jPc, jStatus, jReq, stackIn, stackOut>>
      /\ mgrPc[m] = "accepted" /\ mgrPc' = [mgrPc EXCEPT ![m] = "create"]
  BY DEF BlockSignal, main, handler, timer, joiner, queue
<1>2. mgrPc \in [Managers -> {"accept", "accepted", "create", "enqueue", "dead"}]
  BY DEF SInv, TypeOK
<1>3. /\ mgrPc' \in [Managers -> {"accept", "accepted", "create", "enqueue", "dead"}]
      /\ \A n \in Managers : mgrPc'[n] = IF n = m THEN "create" ELSE mgrPc[n]
  BY <1>1, <1>2
<1>4. TypeOK'
  BY <1>1, <1>3 DEF SInv, TypeOK
<1>5. AcceptsOnce'
  BY <1>1, <1>3 DEF SInv, AcceptsOnce
<1>6. TimersOfHandlers' /\ ClosesEnded'
  BY <1>1 DEF SInv, TimersOfHandlers, ClosesEnded
<1>7. Tracked'
  BY <1>1, <1>3 DEF SInv, Tracked, InQueue
<1>8. InOrder'
  BY <1>1, ManagerRuns DEF InOrder
<1> QED
  BY <1>4, <1>5, <1>6, <1>7, <1>8 DEF SInv

LEMMA CreateHandlerKeeps ==
    ASSUME SInv, NEW m \in Managers, CreateHandler(m)
    PROVE  SInv'
<1> DEFINE h == mgrReq[m]
<1>1. /\ UNCHANGED <<mainPc, running, dbOpen, mgrReq, talks, backlog, limit, conn>>
      /\ UNCHANGED <<tPc, detached, signalled, jPc, jStatus, jReq, stackIn, stackOut>>
      /\ mgrPc[m] = "create" /\ mgrPc' = [mgrPc EXCEPT ![m] = "enqueue"]
      /\ hPc' = [hPc EXCEPT ![h] = "start"]
  BY DEF CreateHandler, main, timer, joiner, queue
<1>2. /\ mgrPc \in [Managers -> {"accept", "accepted", "create", "enqueue", "dead"}]
      /\ hPc \in [Handlers -> HandlerLabels]
  BY DEF SInv, TypeOK
<1>3. h \in Handlers /\ hPc[h] = "none" /\ conn[h] = "open"
  BY <1>1 DEF SInv, AcceptsOnce
<1>4. /\ mgrPc' \in [Managers -> {"accept", "accepted", "create", "enqueue", "dead"}]
      /\ \A n \in Managers : mgrPc'[n] = IF n = m THEN "enqueue" ELSE mgrPc[n]
  BY <1>1, <1>2
<1>5. /\ hPc' \in [Handlers -> HandlerLabels]
      /\ \A g \in Handlers : hPc'[g] = IF g = h THEN "start" ELSE hPc[g]
  <2>1. "start" \in HandlerLabels
    BY DEF HandlerLabels
  <2> QED
    BY <1>1, <1>2, <2>1
<1> HIDE DEF h
<1>6. TypeOK'
  BY <1>1, <1>3, <1>4, <1>5 DEF SInv, TypeOK
<1>7. AcceptsOnce'
  <2>1. ASSUME NEW n \in Managers, n # m, mgrPc[n] \in {"accepted", "create"} PROVE mgrReq[n] # h
    BY <1>1, <2>1 DEF SInv, AcceptsOnce, h
  <2> QED
    BY <1>1, <1>3, <1>4, <1>5, <2>1 DEF SInv, AcceptsOnce, h
<1>8. TimersOfHandlers'
  BY <1>1, <1>5 DEF SInv, TimersOfHandlers
<1>9. ClosesEnded'
  <2>1. h \notin detached
    BY <1>3 DEF SInv, TimersOfHandlers
  <2>2. jPc = "close" => jReq # h
    BY <1>3, <2>1 DEF SInv, ClosesEnded
  <2> QED
    BY <1>1, <1>3, <1>5, <2>2 DEF SInv, ClosesEnded
<1>10. Tracked'
  <2> SUFFICES ASSUME NEW g \in Handlers, hPc'[g] # "none"
               PROVE  \/ conn'[g] = "closed" \/ InQueue(g)'
                      \/ jPc' \in {"join", "joining", "close"} /\ jReq' = g
                      \/ \E n \in Managers : mgrPc'[n] = "enqueue" /\ mgrReq'[n] = g
    BY DEF Tracked
  <2>1. CASE g = h
    <3>1. mgrPc'[m] = "enqueue"
      BY <1>4
    <3>2. mgrReq'[m] = h
      BY <1>1 DEF h
    <3> QED
      BY <2>1, <3>1, <3>2
  <2>2. CASE g # h
    BY <1>1, <1>4, <1>5, <2>2 DEF SInv, Tracked, InQueue
  <2> QED
    BY <2>1, <2>2
<1>11. InOrder'
  BY <1>1, ManagerRuns DEF InOrder
<1> QED
  BY <1>6, <1>7, <1>8, <1>9, <1>10, <1>11 DEF SInv

(* What pushing on a stack does. *)
LEMMA Pushed ==
    ASSUME NEW S, NEW s \in Seq(S), NEW x \in S
    PROVE  /\ <<x>> \o s \in Seq(S)
           /\ \E i \in 1 .. Len(<<x>> \o s) : (<<x>> \o s)[i] = x
           /\ \A y : (\E i \in 1 .. Len(s) : s[i] = y) =>
                        \E i \in 1 .. Len(<<x>> \o s) : (<<x>> \o s)[i] = y
<1> DEFINE p == <<x>> \o s
<1>1. p \in Seq(S) /\ Len(p) = 1 + Len(s) /\ p[1] = x /\ \A i \in 1 .. Len(s) : p[i + 1] = s[i]
  OBVIOUS
<1>2. Len(s) \in Nat
  OBVIOUS
<1> HIDE DEF p
<1>3. 1 \in 1 .. Len(p) /\ \A i \in 1 .. Len(s) : i + 1 \in 1 .. Len(p)
  BY <1>1, <1>2
<1>4. \A y : (\E i \in 1 .. Len(s) : s[i] = y) => \E i \in 1 .. Len(p) : p[i] = y
  <2> SUFFICES ASSUME NEW y, NEW i \in 1 .. Len(s), s[i] = y PROVE \E j \in 1 .. Len(p) : p[j] = y
    OBVIOUS
  <2>1. i + 1 \in 1 .. Len(p) /\ p[i + 1] = y
    BY <1>1, <1>3
  <2> QED
    BY <2>1
<1> QED
  BY <1>1, <1>3, <1>4 DEF p

LEMMA EnqueueKeeps ==
    ASSUME SInv, NEW m \in Managers, EnqueueHandler(m)
    PROVE  SInv'
<1>0. PICK h \in Handlers : h = mgrReq[m]
  BY DEF EnqueueHandler, SInv, AcceptsOnce
<1>1. /\ UNCHANGED <<mainPc, running, dbOpen, mgrReq, hPc, talks, backlog, limit, conn>>
      /\ UNCHANGED <<tPc, detached, signalled, jPc, jStatus, jReq, stackOut>>
      /\ mgrPc[m] = "enqueue" /\ mgrPc' = [mgrPc EXCEPT ![m] = "accept"]
      /\ stackIn' = <<h>> \o stackIn
  BY <1>0 DEF EnqueueHandler, main, handler, timer, joiner, Queue!Enqueue
<1>2. /\ mgrPc \in [Managers -> {"accept", "accepted", "create", "enqueue", "dead"}]
      /\ stackIn \in Seq(Handlers)
  BY DEF SInv, TypeOK
<1>3. /\ mgrPc' \in [Managers -> {"accept", "accepted", "create", "enqueue", "dead"}]
      /\ \A n \in Managers : mgrPc'[n] = IF n = m THEN "accept" ELSE mgrPc[n]
  BY <1>1, <1>2
<1>4. stackIn' \in Seq(Handlers) /\ InQueue(h)' /\ \A g \in Handlers : InQueue(g) => InQueue(g)'
  BY <1>1, <1>2, Pushed DEF InQueue
<1>5. TypeOK'
  BY <1>1, <1>3, <1>4 DEF SInv, TypeOK
<1>6. AcceptsOnce'
  BY <1>1, <1>3 DEF SInv, AcceptsOnce
<1>7. TimersOfHandlers' /\ ClosesEnded'
  BY <1>1 DEF SInv, TimersOfHandlers, ClosesEnded
<1>8. Tracked'
  <2> SUFFICES ASSUME NEW g \in Handlers, hPc'[g] # "none"
               PROVE  \/ conn'[g] = "closed" \/ InQueue(g)'
                      \/ jPc' \in {"join", "joining", "close"} /\ jReq' = g
                      \/ \E n \in Managers : mgrPc'[n] = "enqueue" /\ mgrReq'[n] = g
    BY DEF Tracked
  <2>1. CASE g = h
    BY <1>4, <2>1 DEF InQueue
  <2>2. CASE g # h
    BY <1>0, <1>1, <1>3, <1>4, <2>2 DEF SInv, Tracked
  <2> QED
    BY <2>1, <2>2
<1>9. InOrder'
  BY <1>1, ManagerRuns DEF InOrder
<1> QED
  BY <1>5, <1>6, <1>7, <1>8, <1>9 DEF SInv

LEMMA ManagerDiesKeeps ==
    ASSUME SInv, NEW m \in Managers, ManagerDies(m)
    PROVE  SInv'
<1>1. /\ UNCHANGED <<mainPc, running, dbOpen, mgrReq, hPc, talks, backlog, limit, conn>>
      /\ UNCHANGED <<tPc, detached, signalled, jPc, jStatus, jReq, stackIn, stackOut>>
      /\ mgrPc[m] \in {"accept", "accepted"} /\ mgrPc' = [mgrPc EXCEPT ![m] = "dead"]
  BY DEF ManagerDies, main, handler, timer, joiner, queue
<1>2. mgrPc \in [Managers -> {"accept", "accepted", "create", "enqueue", "dead"}]
  BY DEF SInv, TypeOK
<1>3. /\ mgrPc' \in [Managers -> {"accept", "accepted", "create", "enqueue", "dead"}]
      /\ \A n \in Managers : mgrPc'[n] = IF n = m THEN "dead" ELSE mgrPc[n]
  BY <1>1, <1>2
<1>4. TypeOK'
  BY <1>1, <1>3 DEF SInv, TypeOK
<1>5. AcceptsOnce'
  BY <1>1, <1>3 DEF SInv, AcceptsOnce
<1>6. TimersOfHandlers' /\ ClosesEnded'
  BY <1>1 DEF SInv, TimersOfHandlers, ClosesEnded
<1>7. Tracked'
  BY <1>1, <1>3 DEF SInv, Tracked, InQueue
<1>8. InOrder'
  BY <1>1, ManagerRuns DEF InOrder
<1> QED
  BY <1>4, <1>5, <1>6, <1>7, <1>8 DEF SInv

-----------------------------------------------------------------------------
(* The handlers and their timers *)

(* What a step of a handler can do. *)
LEMMA HandlerMoves ==
    ASSUME SInv, NEW h \in Handlers, Handler(h) \/ HandlerFails(h)
    PROVE  /\ UNCHANGED <<running, dbOpen, mgrPc, mgrReq, talks, backlog, limit, conn>>
           /\ UNCHANGED <<detached, jPc, jStatus, jReq, stackIn, stackOut>>
           /\ mainPc' \in {mainPc, "aborted"}
           /\ signalled' \in {signalled, signalled \cup {Timer(h)}}
           /\ tPc' \in {tPc, [tPc EXCEPT ![h] = "sleep"]}
           /\ hPc[h] \notin {"none", "exited"}
           /\ \/ hPc' = hPc
              \/ \E l \in HandlerLabels \ {"none"} :
                    /\ hPc' = [hPc EXCEPT ![h] = l]
                    /\ l \in Serving => talks[h] \/ hPc[h] \in Serving
<1> USE DEF GoTo, main, manager, timer, joiner, queue, handler, HandlerLabels, Serving
<1>1. CASE CreateTimer(h) \/ UnblockSignal(h)
  BY <1>1 DEF CreateTimer, UnblockSignal
<1>2. CASE RecvReturns(h) \/ BlockAgain(h) \/ KillTimer(h)
  BY <1>2 DEF RecvReturns, BlockAgain, KillTimer
<1>3. CASE JoinTimer(h) \/ Execute(h) \/ Send(h)
  BY <1>3 DEF JoinTimer, Execute, Send
<1>4. CASE HandlerDies(h)
  BY <1>4 DEF HandlerDies
<1>5. CASE HandlerFails(h)
  BY <1>5 DEF HandlerFails, Abort
<1> QED
  BY <1>1, <1>2, <1>3, <1>4, <1>5 DEF Handler

LEMMA HandlerKeeps ==
    ASSUME SInv, NEW h \in Handlers, Handler(h) \/ HandlerFails(h)
    PROVE  SInv'
<1>1. /\ UNCHANGED <<running, dbOpen, mgrPc, mgrReq, talks, backlog, limit, conn>>
      /\ UNCHANGED <<detached, jPc, jStatus, jReq, stackIn, stackOut>>
      /\ mainPc' \in {mainPc, "aborted"}
      /\ signalled' \in {signalled, signalled \cup {Timer(h)}}
      /\ tPc' \in {tPc, [tPc EXCEPT ![h] = "sleep"]}
      /\ hPc[h] \notin {"none", "exited"}
      /\ hPc' = hPc \/ \E l \in HandlerLabels \ {"none"} : hPc' = [hPc EXCEPT ![h] = l]
  BY HandlerMoves
<1>2. hPc \in [Handlers -> HandlerLabels] /\ tPc \in [Handlers -> {"none", "sleep", "kill", "detach", "ended"}]
  BY DEF SInv, TypeOK
<1>3. /\ hPc' \in [Handlers -> HandlerLabels] /\ hPc'[h] # "none"
      /\ \A g \in Handlers \ {h} : hPc'[g] = hPc[g]
  BY <1>1, <1>2
<1>4. /\ tPc' \in [Handlers -> {"none", "sleep", "kill", "detach", "ended"}]
      /\ \A g \in Handlers \ {h} : tPc'[g] = tPc[g]
  BY <1>1, <1>2
<1>5. TypeOK'
  <2>1. mainPc' \in MainLabels
    BY <1>1 DEF SInv, TypeOK, MainLabels
  <2>2. signalled' \subseteq Managers \cup Handlers \cup {Timer(g) : g \in Handlers}
    BY <1>1 DEF SInv, TypeOK
  <2>3. \A g \in Handlers : hPc'[g] # "none" => conn'[g] # "none"
    BY <1>1, <1>3 DEF SInv, TypeOK
  <2> QED
    BY <1>1, <1>3, <1>4, <2>1, <2>2, <2>3 DEF SInv, TypeOK
<1>6. AcceptsOnce'
  BY <1>1, <1>3 DEF SInv, AcceptsOnce
<1>7. TimersOfHandlers'
  BY <1>1, <1>3, <1>4 DEF SInv, TimersOfHandlers
<1>8. ClosesEnded'
  BY <1>1, <1>3 DEF SInv, ClosesEnded
<1>9. Tracked'
  BY <1>1, <1>3 DEF SInv, Tracked, InQueue
<1>10. InOrder'
  BY <1>1 DEF SInv, InOrder, Queue!IsEmpty
<1> QED
  BY <1>5, <1>6, <1>7, <1>8, <1>9, <1>10 DEF SInv

(* What a step of a timer can do.  A late one may detach another handler.  *)
LEMMA TimerMoves ==
    ASSUME SInv, NEW h \in Handlers, TimerStep(h)
    PROVE  /\ UNCHANGED <<mainPc, running, dbOpen, mgrPc, mgrReq, hPc, talks, backlog, limit>>
           /\ UNCHANGED <<conn, jPc, jStatus, jReq, stackIn, stackOut>>
           /\ signalled' \in {signalled, signalled \cup {h}}
           /\ \/ detached' = detached
              \/ \E g \in Handlers : /\ hPc[g] # "none" /\ detached' = detached \cup {g}
                                     /\ Punctual => g = h /\ tPc[h] = "detach"
           /\ \E l \in {"kill", "detach", "ended"} :
                /\ tPc' = [tPc EXCEPT ![h] = l]
                /\ Punctual /\ l = "kill" => ~talks[h]
                /\ l = "detach" => tPc[h] = "kill"
                /\ l \in {"kill", "detach"} => hPc[h] # "none"
<1> USE DEF main, manager, timer, joiner, queue, handler
<1>1. CASE Expire(h)
  BY <1>1 DEF Expire, SInv, TimersOfHandlers
<1>2. CASE KillHandler(h)
  BY <1>2 DEF KillHandler, SInv, TimersOfHandlers
<1>3. CASE Detach(h)
  <2>1. tPc[h] = "detach" /\ hPc[h] # "none"
    BY <1>3 DEF Detach, SInv, TimersOfHandlers
  <2> QED
    BY <1>3, <2>1 DEF Detach
<1>4. CASE TimerDies(h)
  BY <1>4 DEF TimerDies
<1> QED
  BY <1>1, <1>2, <1>3, <1>4 DEF TimerStep

LEMMA TimerKeeps ==
    ASSUME SInv, NEW h \in Handlers, TimerStep(h)
    PROVE  SInv'
<1>1. /\ UNCHANGED <<mainPc, running, dbOpen, mgrPc, mgrReq, hPc, talks, backlog, limit>>
      /\ UNCHANGED <<conn, jPc, jStatus, jReq, stackIn, stackOut>>
      /\ signalled' \in {signalled, signalled \cup {h}}
  BY TimerMoves
<1>2. /\ detached \subseteq detached' /\ detached' \subseteq Handlers
      /\ \A g \in detached' \ detached : hPc[g] # "none"
  <2>1. \/ detached' = detached
        \/ \E g \in Handlers : hPc[g] # "none" /\ detached' = detached \cup {g}
    BY TimerMoves
  <2> QED
    BY <2>1 DEF SInv, TypeOK
<1>3. PICK l \in {"kill", "detach", "ended"} :
        /\ tPc' = [tPc EXCEPT ![h] = l]
        /\ l \in {"kill", "detach"} => hPc[h] # "none"
  BY TimerMoves
<1>4. /\ tPc' \in [Handlers -> {"none", "sleep", "kill", "detach", "ended"}]
      /\ \A g \in Handlers : tPc'[g] = IF g = h THEN l ELSE tPc[g]
  BY <1>3 DEF SInv, TypeOK
<1>5. TypeOK'
  BY <1>1, <1>2, <1>4 DEF SInv, TypeOK
<1>6. AcceptsOnce' /\ InOrder'
  BY <1>1 DEF SInv, AcceptsOnce, InOrder, Queue!IsEmpty
<1>7. TimersOfHandlers'
  BY <1>1, <1>2, <1>3, <1>4 DEF SInv, TimersOfHandlers
<1>8. ClosesEnded'
  BY <1>1, <1>2 DEF SInv, ClosesEnded
<1>9. Tracked'
  BY <1>1 DEF SInv, Tracked, InQueue
<1> QED
  BY <1>5, <1>6, <1>7, <1>8, <1>9 DEF SInv

-----------------------------------------------------------------------------
(* The joiner *)

QueueProofs == INSTANCE RequestQueueProofs WITH Items <- Handlers

(* What taking the head of a stack leaves. *)
LEMMA Popped ==
    ASSUME NEW S, NEW s \in Seq(S), s # <<>>
    PROVE  /\ Head(s) \in S /\ Tail(s) \in Seq(S)
           /\ \A y : (\E i \in 1 .. Len(s) : s[i] = y) =>
                        y = Head(s) \/ \E i \in 1 .. Len(Tail(s)) : Tail(s)[i] = y
<1>1. /\ Tail(s) \in Seq(S) /\ Len(Tail(s)) = Len(s) - 1 /\ Head(s) = s[1] /\ Head(s) \in S
      /\ \A i \in 1 .. Len(s) - 1 : Tail(s)[i] = s[i + 1]
  OBVIOUS
<1>2. Len(s) \in Nat
  OBVIOUS
<1>3. ASSUME NEW i \in 1 .. Len(s)
      PROVE  i = 1 \/ (i - 1 \in 1 .. Len(Tail(s)) /\ Tail(s)[i - 1] = s[i])
  BY <1>1, <1>2
<1>4. ASSUME NEW i \in 1 .. Len(s)
      PROVE  s[i] = Head(s) \/ \E j \in 1 .. Len(Tail(s)) : Tail(s)[j] = s[i]
  <2>1. CASE i = 1
    BY <1>1, <2>1
  <2>2. CASE i - 1 \in 1 .. Len(Tail(s)) /\ Tail(s)[i - 1] = s[i]
    BY <2>2
  <2> QED
    BY <1>3, <2>1, <2>2
<1> QED
  BY <1>1, <1>4

(* Reversing a stack keeps its elements. *)
LEMMA Reversed ==
    ASSUME NEW S, NEW s \in Seq(S), s # <<>>
    PROVE  /\ Queue!Reverse(s) \in Seq(S) /\ Queue!Reverse(s) # <<>>
           /\ \A y : (\E i \in 1 .. Len(s) : s[i] = y) =>
                        \E i \in 1 .. Len(Queue!Reverse(s)) : Queue!Reverse(s)[i] = y
<1> DEFINE r == Queue!Reverse(s)
<1>1. /\ r \in Seq(S) /\ Len(r) = Len(s)
      /\ \A i \in 1 .. Len(s) : r[i] = s[Len(s) - i + 1]
  BY DEF Queue!Reverse
<1>2. Len(s) \in Nat \ {0}
  OBVIOUS
<1> HIDE DEF r
<1>3. ASSUME NEW i \in 1 .. Len(s)
      PROVE  \E j \in 1 .. Len(r) : r[j] = s[i]
  <2> DEFINE j == Len(s) - i + 1
  <2>1. j \in 1 .. Len(s) /\ Len(s) - j + 1 = i
    BY <1>2
  <2> HIDE DEF j
  <2>2. j \in 1 .. Len(r) /\ r[j] = s[i]
    BY <1>1, <2>1
  <2> QED
    BY <2>2
<1> QED
  BY <1>1, <1>2, <1>3 DEF r

(* What leaves the queue is one handler: the others stay in it. *)
LEMMA DequeueTakesOne ==
    ASSUME stackIn \in Seq(Handlers), stackOut \in Seq(Handlers),
           NEW h \in Handlers, Queue!Dequeue(h)
    PROVE  /\ stackIn' \in Seq(Handlers) /\ stackOut' \in Seq(Handlers)
           /\ \A g \in Handlers : InQueue(g) => g = h \/ InQueue(g)'
<1>1. CASE stackOut = <<>>
  <2> DEFINE r == Queue!Reverse(stackIn)
  <2>1. h = Head(r) /\ stackOut' = Tail(r) /\ stackIn' = <<>> /\ stackIn # <<>>
    BY <1>1 DEF Queue!Dequeue, Queue!IsEmpty
  <2>2. /\ r \in Seq(Handlers) /\ r # <<>>
        /\ \A y : (\E i \in 1 .. Len(stackIn) : stackIn[i] = y) => \E i \in 1 .. Len(r) : r[i] = y
    BY <2>1, Reversed
  <2> HIDE DEF r
  <2>3. /\ Tail(r) \in Seq(Handlers)
        /\ \A y : (\E i \in 1 .. Len(r) : r[i] = y) =>
                     y = Head(r) \/ \E i \in 1 .. Len(Tail(r)) : Tail(r)[i] = y
    BY <2>2, Popped
  <2>4. ~\E i \in 1 .. Len(stackOut) : TRUE
    BY <1>1
  <2>5. \A g \in Handlers : InQueue(g) => g = h \/ InQueue(g)'
    BY <2>1, <2>2, <2>3, <2>4 DEF InQueue
  <2>6. <<>> \in Seq(Handlers)
    OBVIOUS
  <2> QED
    BY <2>1, <2>3, <2>5, <2>6
<1>2. CASE stackOut # <<>>
  <2>1. h = Head(stackOut) /\ stackOut' = Tail(stackOut) /\ stackIn' = stackIn
    BY <1>2 DEF Queue!Dequeue
  <2>2. /\ Tail(stackOut) \in Seq(Handlers)
        /\ \A y : (\E i \in 1 .. Len(stackOut) : stackOut[i] = y) =>
                     y = Head(stackOut) \/ \E i \in 1 .. Len(Tail(stackOut)) : Tail(stackOut)[i] = y
    BY <1>2, Popped
  <2>3. \A g \in Handlers : InQueue(g) => g = h \/ InQueue(g)'
    BY <2>1, <2>2 DEF InQueue
  <2> QED
    BY <2>1, <2>2, <2>3
<1> QED
  BY <1>1, <1>2

(* The joiner changes nothing of the other threads but a connection. *)
LEMMA JoinerFrame ==
    ASSUME Joiner
    PROVE  /\ UNCHANGED <<mainPc, running, dbOpen, mgrPc, mgrReq, hPc, talks, backlog, limit>>
           /\ UNCHANGED <<tPc, detached, signalled>>
BY DEF Joiner, ReadStatus, ReadEmpty, DequeueHandler, JoinBegins, JoinReturns, CloseConnection,
       ReadEmptyAgain, main, manager, handler, timer

(* Between two steps that touch the queue the joiner only moves on. *)
LEMMA JoinerWalks ==
    ASSUME SInv, ReadStatus \/ ReadEmpty \/ JoinBegins \/ JoinReturns \/ ReadEmptyAgain
    PROVE  SInv'
<1>1. /\ UNCHANGED <<mainPc, running, dbOpen, mgrPc, mgrReq, hPc, talks, backlog, limit>>
      /\ UNCHANGED <<tPc, detached, signalled>>
  BY JoinerFrame DEF Joiner
<1>2. UNCHANGED <<conn, jReq, stackIn, stackOut>>
  BY DEF ReadStatus, ReadEmpty, JoinBegins, JoinReturns, ReadEmptyAgain, queue
<1>3. /\ jPc' \in {"status", "empty", "dequeue", "join", "joining", "close", "again", "ended"}
      /\ jStatus' \in BOOLEAN
      /\ jPc \in {"join", "joining", "close"} <=> jPc' \in {"join", "joining", "close"}
      /\ jPc' = "close" => hPc[jReq] = "exited" \/ jReq \in detached
  BY DEF ReadStatus, ReadEmpty, JoinBegins, JoinReturns, ReadEmptyAgain, SInv, TypeOK, InOrder
<1>4. TypeOK'
  BY <1>1, <1>2, <1>3 DEF SInv, TypeOK
<1>5. AcceptsOnce' /\ TimersOfHandlers'
  BY <1>1, <1>2 DEF SInv, AcceptsOnce, TimersOfHandlers
<1>6. ClosesEnded'
  BY <1>1, <1>2, <1>3 DEF SInv, ClosesEnded
<1>7. Tracked'
  BY <1>1, <1>2, <1>3 DEF SInv, Tracked, InQueue
<1>8. InOrder'
  <2>1. /\ ~jStatus' => ~running
        /\ jPc' = "ended" => Queue!IsEmpty /\ ~running
        /\ jPc # "ended"
    BY DEF ReadStatus, ReadEmpty, JoinBegins, JoinReturns, ReadEmptyAgain, SInv, TypeOK, InOrder
  <2> QED
    BY <1>1, <1>2, <2>1 DEF SInv, InOrder, Queue!IsEmpty
<1> QED
  BY <1>4, <1>5, <1>6, <1>7, <1>8 DEF SInv

LEMMA DequeueKeeps ==
    ASSUME SInv, DequeueHandler
    PROVE  SInv'
<1>1. /\ UNCHANGED <<mainPc, running, dbOpen, mgrPc, mgrReq, hPc, talks, backlog, limit>>
      /\ UNCHANGED <<conn, tPc, detached, signalled, jStatus>>
      /\ jPc = "dequeue" /\ jPc' = "join"
  BY DEF DequeueHandler, main, manager, handler, timer
<1>2. PICK h \in Handlers : Queue!Dequeue(h) /\ jReq' = h
  BY DEF DequeueHandler
<1>3. stackIn \in Seq(Handlers) /\ stackOut \in Seq(Handlers)
  BY DEF SInv, TypeOK
<1>4. /\ stackIn' \in Seq(Handlers) /\ stackOut' \in Seq(Handlers)
      /\ \A g \in Handlers : InQueue(g) => g = h \/ InQueue(g)'
  BY <1>2, <1>3, DequeueTakesOne
<1>5. TypeOK'
  BY <1>1, <1>2, <1>4 DEF SInv, TypeOK
<1>6. AcceptsOnce' /\ TimersOfHandlers'
  BY <1>1 DEF SInv, AcceptsOnce, TimersOfHandlers
<1>7. ClosesEnded'
  BY <1>1, <1>2 DEF SInv, ClosesEnded
<1>8. Tracked'
  BY <1>1, <1>2, <1>4 DEF SInv, Tracked
<1>9. InOrder'
  BY <1>1 DEF SInv, InOrder
<1> QED
  BY <1>5, <1>6, <1>7, <1>8, <1>9 DEF SInv

LEMMA CloseKeeps ==
    ASSUME SInv, CloseConnection
    PROVE  SInv'
<1>1. /\ UNCHANGED <<mainPc, running, dbOpen, mgrPc, mgrReq, hPc, talks, backlog, limit>>
      /\ UNCHANGED <<tPc, detached, signalled, jStatus, jReq, stackIn, stackOut>>
      /\ jPc = "close" /\ jPc' = "again"
      /\ conn' = [conn EXCEPT ![jReq] = "closed"]
  BY DEF CloseConnection, main, manager, handler, timer, queue
<1>2. /\ jReq \in Handlers /\ (hPc[jReq] = "exited" \/ jReq \in detached)
      /\ hPc[jReq] # "none" /\ conn \in [Handlers -> {"none", "open", "closed"}]
  BY <1>1 DEF SInv, TypeOK, ClosesEnded, TimersOfHandlers
<1>3. /\ conn' \in [Handlers -> {"none", "open", "closed"}]
      /\ \A g \in Handlers : conn'[g] = IF g = jReq THEN "closed" ELSE conn[g]
  BY <1>1, <1>2
<1>4. TypeOK'
  BY <1>1, <1>2, <1>3 DEF SInv, TypeOK
<1>5. AcceptsOnce'
  BY <1>1, <1>2, <1>3 DEF SInv, TypeOK, AcceptsOnce
<1>6. TimersOfHandlers' /\ ClosesEnded'
  BY <1>1, <1>2, <1>3 DEF SInv, TimersOfHandlers, ClosesEnded
<1>7. Tracked'
  BY <1>1, <1>2, <1>3 DEF SInv, Tracked, InQueue
<1>8. InOrder'
  BY <1>1 DEF SInv, InOrder
<1> QED
  BY <1>4, <1>5, <1>6, <1>7, <1>8 DEF SInv

-----------------------------------------------------------------------------
(* Every step *)

LEMMA NextSInv ==
    ASSUME SInv, [Next]_vars
    PROVE  SInv'
<1>1. CASE SignalArrives \/ Main
  BY <1>1, MainKeeps
<1>2. CASE Joiner
  BY <1>2, JoinerWalks, DequeueKeeps, CloseKeeps DEF Joiner
<1>3. ASSUME NEW m \in Managers, Connect(m) \/ Manager(m) PROVE SInv'
  BY <1>3, ConnectKeeps, AcceptKeeps, BlockSignalKeeps, CreateHandlerKeeps, EnqueueKeeps,
     ManagerDiesKeeps DEF Manager
<1>4. ASSUME NEW h \in Handlers, Handler(h) \/ HandlerFails(h) PROVE SInv'
  BY <1>4, HandlerKeeps
<1>5. ASSUME NEW h \in Handlers, TimerStep(h) PROVE SInv'
  BY <1>5, TimerKeeps
<1>6. CASE UNCHANGED vars
  BY <1>6, StutterSInv
<1> QED
  BY <1>1, <1>2, <1>3, <1>4, <1>5, <1>6 DEF Next

LEMMA Invariant == Spec => []SInv
<1>1. Init => SInv
  BY InitSInv
<1>2. SInv /\ [Next]_vars => SInv'
  BY NextSInv
<1> QED
  BY <1>1, <1>2, PTL DEF Spec

(* Every variable keeps its type, and every handler its connection.        *)
THEOREM TypeCorrect == Spec => []TypeOK
<1>1. SInv => TypeOK
  BY DEF SInv
<1> QED
  BY <1>1, Invariant, PTL

(* A connection without a handler is with the manager that accepted it, or *)
(* that manager has died with it.                                          *)
WithManager ==
    \A h \in Handlers : conn[h] = "open" /\ hPc[h] = "none" =>
        \E m \in Managers : mgrReq[m] = h /\ mgrPc[m] \in {"accepted", "create", "dead"}

LEMMA ManagerWithManager ==
    ASSUME TypeOK, WithManager, NEW m \in Managers, Connect(m) \/ Manager(m)
    PROVE  WithManager'
<1> USE DEF TypeOK
<1>1. CASE Connect(m)
  BY <1>1 DEF Connect, WithManager, manager
<1>2. CASE Accept(m)
  BY <1>2 DEF Accept, WithManager
<1>3. CASE BlockSignal(m)
  BY <1>3 DEF BlockSignal, WithManager, handler
<1>4. CASE CreateHandler(m)
  <2>1. \A n \in Managers : n # m => mgrPc'[n] = mgrPc[n]
    BY <1>4 DEF CreateHandler
  <2>2. \A h \in Handlers : hPc'[h] = "none" => hPc[h] = "none" /\ h # mgrReq[m]
    BY <1>4 DEF CreateHandler
  <2>3. mgrReq' = mgrReq /\ conn' = conn
    BY <1>4 DEF CreateHandler
  <2>4. ASSUME NEW h \in Handlers, conn'[h] = "open", hPc'[h] = "none"
        PROVE  \E n \in Managers : mgrReq'[n] = h /\ mgrPc'[n] \in {"accepted", "create", "dead"}
    <3>1. PICK n \in Managers : mgrReq[n] = h /\ mgrPc[n] \in {"accepted", "create", "dead"}
      BY <2>2, <2>3, <2>4 DEF WithManager
    <3> QED
      BY <2>1, <2>2, <2>3, <2>4, <3>1
  <2> QED
    BY <2>4 DEF WithManager
<1>5. CASE EnqueueHandler(m)
  BY <1>5 DEF EnqueueHandler, WithManager, handler
<1>6. CASE ManagerDies(m)
  BY <1>6 DEF ManagerDies, WithManager, handler
<1> QED
  BY <1>1, <1>2, <1>3, <1>4, <1>5, <1>6 DEF Manager

LEMMA NextWithManager ==
    ASSUME TypeOK, WithManager, [Next]_vars
    PROVE  WithManager'
<1>1. CASE SignalArrives \/ Main
  BY <1>1, MainFrame DEF WithManager
<1>2. CASE Joiner
  BY <1>2 DEF Joiner, ReadStatus, ReadEmpty, DequeueHandler, JoinBegins, JoinReturns,
     CloseConnection, ReadEmptyAgain, TypeOK, WithManager, manager, handler
<1>3. ASSUME NEW m \in Managers, Connect(m) \/ Manager(m) PROVE WithManager'
  BY <1>3, ManagerWithManager
<1>4. ASSUME NEW h \in Handlers, Handler(h) \/ HandlerFails(h) PROVE WithManager'
  <2>1. /\ mgrPc' = mgrPc /\ mgrReq' = mgrReq /\ conn' = conn
        /\ \A g \in Handlers : hPc'[g] = "none" => hPc[g] = "none"
    BY <1>4 DEF Handler, HandlerFails, CreateTimer, UnblockSignal, RecvReturns, BlockAgain,
       KillTimer, JoinTimer, Execute, Send, HandlerDies, GoTo, TypeOK, manager, handler
  <2> QED
    BY <2>1 DEF WithManager
<1>5. ASSUME NEW h \in Handlers, TimerStep(h) PROVE WithManager'
  BY <1>5 DEF TimerStep, Expire, KillHandler, Detach, TimerDies, WithManager, manager, handler
<1>6. CASE UNCHANGED vars
  BY <1>6 DEF vars, WithManager, manager, handler
<1> QED
  BY <1>1, <1>2, <1>3, <1>4, <1>5, <1>6 DEF Next

(* Whatever the moment at which the shutdown begins, once main has joined  *)
(* the joiner (cinemad.c:82) the queue is empty, and a connection that is  *)
(* still open is that with which a manager died before the mask: the other *)
(* connections that were accepted are closed.                              *)
THEOREM NothingIsLost == Spec => []NothingLost
<1>1. SInv /\ WithManager => NothingLost
  <2> SUFFICES ASSUME SInv, WithManager, mainPc \in {"all_joined", "closed", "stopped"}
               PROVE  /\ Queue!IsEmpty
                      /\ \A h \in Handlers : conn[h] = "open" =>
                            hPc[h] = "none"
                            /\ \E m \in Managers : mgrPc[m] = "dead" /\ mgrReq[m] = h
    BY DEF NothingLost
  <2>1. Queue!IsEmpty /\ jPc = "ended" /\ \A m \in Managers : mgrPc[m] = "dead"
    BY DEF SInv, InOrder
  <2>2. \A h \in Handlers : ~InQueue(h)
    BY <2>1 DEF Queue!IsEmpty, InQueue
  <2>3. \A h \in Handlers : hPc[h] # "none" => conn[h] = "closed"
    BY <2>1, <2>2 DEF SInv, Tracked
  <2> QED
    BY <2>1, <2>3 DEF WithManager
<1>2. Init => WithManager
  BY DEF Init, WithManager
<1>3. SInv /\ WithManager /\ [Next]_vars => WithManager'
  BY NextWithManager DEF SInv
<1> QED
  BY <1>1, <1>2, <1>3, Invariant, PTL DEF Spec

-----------------------------------------------------------------------------
(* Who is served on an open connection *)

(* A handler that was not detached and has not ended keeps its connection  *)
(* open, and as long as it has it the shutdown does not close the database.*)
LEMMA OpenWhileServing ==
    ASSUME SInv, NEW h \in Handlers, hPc[h] \notin {"none", "exited"}, h \notin detached
    PROVE  conn[h] = "open" /\ dbOpen /\ mainPc # "all_joined"
<1>1. conn[h] = "open"
  BY DEF SInv, TypeOK, ClosesEnded
<1>2. SUFFICES ASSUME ~dbOpen \/ mainPc = "all_joined" PROVE FALSE
  BY <1>1
<1>3. Queue!IsEmpty /\ jPc = "ended" /\ \A m \in Managers : mgrPc[m] = "dead"
  BY <1>2 DEF SInv, InOrder
<1>4. ~InQueue(h)
  BY <1>3 DEF Queue!IsEmpty, InQueue
<1> QED
  BY <1>1, <1>3, <1>4 DEF SInv, Tracked

(* The part of ServesOnOpen and of AllThreadJoined that does not depend on *)
(* the timers.                                                             *)
UndetachedAreServed ==
    \A h \in Handlers : hPc[h] \notin {"none", "exited"} /\ h \notin detached =>
        conn[h] = "open" /\ dbOpen /\ mainPc # "all_joined"

(* Only a handler that its timer detached can lose its connection to the   *)
(* joiner or the database to the shutdown before it ends, and only such a  *)
(* handler can still run when main reports that all threads are joined.    *)
THEOREM OnlyDetachedLoseTheirs == Spec => []UndetachedAreServed
<1>1. SInv => UndetachedAreServed
  BY OpenWhileServing DEF UndetachedAreServed
<1> QED
  BY <1>1, Invariant, PTL

(* A handler that its client talks to stays undisturbed by its timer, if   *)
(* timers are on time.                                                     *)
LEMMA NextTalkers ==
    ASSUME Punctual, SInv, TalkersUndisturbed, [Next]_vars
    PROVE  TalkersUndisturbed'
<1>0. /\ hPc \in [Handlers -> HandlerLabels] /\ talks \in [Handlers -> BOOLEAN]
      /\ tPc \in [Handlers -> {"none", "sleep", "kill", "detach", "ended"}]
      /\ \A h \in Handlers : conn[h] = "none" => hPc[h] = "none"
  BY DEF SInv, TypeOK
<1>1. CASE UNCHANGED <<hPc, talks, tPc, detached>>
  BY <1>1 DEF TalkersUndisturbed
<1>2. ASSUME NEW m \in Managers, Connect(m) PROVE TalkersUndisturbed'
  <2>1. PICK g \in Handlers, sends \in BOOLEAN :
          conn[g] = "none" /\ talks' = [talks EXCEPT ![g] = sends]
    BY <1>2 DEF Connect
  <2>2. UNCHANGED <<hPc, tPc, detached>>
    BY <1>2 DEF Connect, timer
  <2>3. hPc[g] = "none" /\ ~(tPc[g] \in {"kill", "detach"} \/ g \in detached)
    BY <1>0, <2>1 DEF SInv, TimersOfHandlers
  <2>4. \A h \in Handlers \ {g} : talks'[h] = talks[h]
    BY <1>0, <2>1
  <2>5. hPc[g] \notin Serving
    BY <2>3 DEF Serving
  <2>6. ASSUME NEW h \in Handlers
        PROVE  /\ hPc'[h] \in Serving => talks'[h]
               /\ tPc'[h] \in {"kill", "detach"} \/ h \in detached' => ~talks'[h]
    <3>1. CASE h = g
      BY <2>2, <2>3, <2>5, <3>1
    <3>2. CASE h # g
      <4>1. talks'[h] = talks[h]
        BY <2>4, <3>2
      <4> QED
        BY <2>2, <4>1 DEF TalkersUndisturbed
    <3> QED
      BY <3>1, <3>2
  <2> QED
    BY <2>6 DEF TalkersUndisturbed
<1>3. ASSUME NEW m \in Managers, CreateHandler(m) PROVE TalkersUndisturbed'
  <2>1. /\ UNCHANGED <<talks, tPc, detached>> /\ hPc' = [hPc EXCEPT ![mgrReq[m]] = "start"]
    BY <1>3 DEF CreateHandler, timer
  <2>2. \A h \in Handlers : hPc'[h] \in {hPc[h], "start"}
    BY <1>0, <2>1
  <2>3. \A h \in Handlers : hPc'[h] \in Serving => hPc[h] \in Serving
    BY <2>2 DEF Serving
  <2> QED
    BY <2>1, <2>3 DEF TalkersUndisturbed
<1>4. ASSUME NEW g \in Handlers, Handler(g) \/ HandlerFails(g) PROVE TalkersUndisturbed'
  <2>1. /\ UNCHANGED <<talks, detached>> /\ tPc' \in {tPc, [tPc EXCEPT ![g] = "sleep"]}
        /\ \/ hPc' = hPc
           \/ \E l \in HandlerLabels \ {"none"} :
                 /\ hPc' = [hPc EXCEPT ![g] = l]
                 /\ l \in Serving => talks[g] \/ hPc[g] \in Serving
    BY <1>4, HandlerMoves
  <2>2. \A h \in Handlers : tPc'[h] \in {tPc[h], "sleep"}
    BY <1>0, <2>1
  <2>3. \A h \in Handlers : hPc'[h] \in Serving => talks[h] \/ hPc[h] \in Serving
    BY <1>0, <2>1
  <2> QED
    BY <2>1, <2>2, <2>3 DEF TalkersUndisturbed
<1>5. ASSUME NEW g \in Handlers, TimerStep(g) PROVE TalkersUndisturbed'
  <2>1. /\ UNCHANGED <<hPc, talks>>
        /\ detached' = detached \/ (detached' = detached \cup {g} /\ tPc[g] = "detach")
    BY <1>5, TimerMoves
  <2>2. PICK l \in {"kill", "detach", "ended"} :
          /\ tPc' = [tPc EXCEPT ![g] = l]
          /\ l = "kill" => ~talks[g]
          /\ l = "detach" => tPc[g] = "kill"
    BY <1>5, TimerMoves
  <2>3. \A h \in Handlers : tPc'[h] = IF h = g THEN l ELSE tPc[h]
    BY <1>0, <2>2
  <2> QED
    BY <2>1, <2>2, <2>3 DEF TalkersUndisturbed
<1>6. ASSUME NEW m \in Managers, Manager(m), ~CreateHandler(m)
      PROVE  UNCHANGED <<hPc, talks, tPc, detached>>
  BY <1>6 DEF Manager, Accept, BlockSignal, EnqueueHandler, ManagerDies, handler, timer
<1>7. CASE UNCHANGED vars
  BY <1>1, <1>7 DEF vars, handler, timer
<1> QED
  BY <1>1, <1>2, <1>3, <1>4, <1>5, <1>6, <1>7, MainFrame, JoinerFrame DEF Next

(* A request is executed and answered on the open connection of its client *)
(* and in an open database, whenever the client connects and whenever the  *)
(* shutdown begins (cinemad.c), provided that timers are on time.  What a   *)
(* late one can do is the limit set by OnlyDetachedLoseTheirs.             *)
THEOREM ServesOpenOnly ==
    ASSUME Punctual
    PROVE  Spec => []ServesOnOpen
<1>1. Init => SInv /\ TalkersUndisturbed
  BY InitSInv
<1>2. SInv /\ TalkersUndisturbed /\ [Next]_vars => (SInv /\ TalkersUndisturbed)'
  BY NextSInv, NextTalkers
<1>3. SInv /\ TalkersUndisturbed => ServesOnOpen
  BY OpenWhileServing DEF ServesOnOpen, TalkersUndisturbed, Serving
<1> QED
  BY <1>1, <1>2, <1>3, PTL DEF Spec

-----------------------------------------------------------------------------
(* The request queue between the managers and the joiner *)

(* A step of the daemon enqueues or dequeues one handler, or leaves the    *)
(* queue alone.                                                            *)
LEMMA StepsOfQueue ==
    ASSUME SInv, [Next]_vars
    PROVE  \/ UNCHANGED <<stackIn, stackOut>>
           \/ \E h \in Handlers : Queue!Enqueue(h) \/ Queue!Dequeue(h)
<1> SUFFICES ASSUME ~UNCHANGED <<stackIn, stackOut>>
             PROVE  \E h \in Handlers : Queue!Enqueue(h) \/ Queue!Dequeue(h)
  OBVIOUS
<1>1. ~(SignalArrives \/ Main) /\ ~UNCHANGED vars
  BY MainFrame DEF vars, queue
<1>2. ASSUME NEW h \in Handlers PROVE ~Handler(h) /\ ~HandlerFails(h) /\ ~TimerStep(h)
  BY HandlerMoves, TimerMoves
<1>3. ASSUME NEW m \in Managers, Connect(m) \/ Manager(m) PROVE EnqueueHandler(m)
  BY <1>3 DEF Connect, Manager, Accept, BlockSignal, CreateHandler, ManagerDies, queue
<1>4. ASSUME NEW m \in Managers, EnqueueHandler(m) PROVE \E h \in Handlers : Queue!Enqueue(h)
  BY <1>4 DEF EnqueueHandler, SInv, AcceptsOnce
<1>5. CASE Joiner
  <2>1. DequeueHandler
    BY <1>5 DEF Joiner, ReadStatus, ReadEmpty, JoinBegins, JoinReturns, CloseConnection,
                ReadEmptyAgain, queue
  <2> QED
    BY <2>1 DEF DequeueHandler
<1> QED
  BY <1>1, <1>2, <1>3, <1>4, <1>5 DEF Next

(* To the queue that the stacks are, it is a step of that queue. *)
LEMMA StepsOfFifo ==
    ASSUME SInv, [Next]_vars
    PROVE  [Queue!FifoQueue!Next]_(Queue!Contents)
<1> DEFINE C == Queue!Contents
<1>1. QueueProofs!StacksType
  BY DEF SInv, TypeOK, QueueProofs!StacksType
<1>2. QueueProofs!Contents = C /\ QueueProofs!Contents' = C'
  BY DEF QueueProofs!Contents, Queue!Contents, QueueProofs!Reverse, Queue!Reverse
<1> HIDE DEF C
<1>3. ASSUME NEW h \in Handlers, Queue!Enqueue(h) PROVE C' = Append(C, h)
  <2>1. QueueProofs!Enqueue(h)
    BY <1>3 DEF Queue!Enqueue, QueueProofs!Enqueue
  <2>2. QueueProofs!Contents' = Append(QueueProofs!Contents, h)
    BY <1>1, <2>1, QueueProofs!EnqueueAppends
  <2> QED
    BY <1>2, <2>2
<1>4. ASSUME NEW h \in Handlers, Queue!Dequeue(h)
      PROVE  C # <<>> /\ h = Head(C) /\ C' = Tail(C)
  <2>1. QueueProofs!Dequeue(h)
    BY <1>4 DEF Queue!Dequeue, QueueProofs!Dequeue, Queue!IsEmpty, QueueProofs!IsEmpty,
                Queue!Reverse, QueueProofs!Reverse
  <2>2. /\ QueueProofs!Contents # <<>> /\ h = Head(QueueProofs!Contents)
        /\ QueueProofs!Contents' = Tail(QueueProofs!Contents)
    BY <1>1, <2>1, QueueProofs!DequeueTakesHead
  <2> QED
    BY <1>2, <2>2
<1>5. CASE UNCHANGED <<stackIn, stackOut>>
  BY <1>5 DEF C, Queue!Contents
<1>6. C' = C \/ Queue!FifoQueue!Next
  BY <1>3, <1>4, <1>5, StepsOfQueue
  DEF C, Queue!FifoQueue!Next, Queue!FifoQueue!Enqueue, Queue!FifoQueue!Dequeue
<1> QED
  BY <1>6 DEF C

(* Handlers are joined in the order in which their managers enqueued them, *)
(* each once: request_queue of cinemad.c is a queue of lib/queue.h.        *)
THEOREM QueueOfHandlersIsFifo == Spec => QueueIsFifo
<1>1. Init => Queue!FifoQueue!Init
  <2>1. Queue!Reverse(<<>>) = <<>>
    BY DEF Queue!Reverse
  <2>2. <<>> \o <<>> = <<>>
    OBVIOUS
  <2> QED
    BY <2>1, <2>2 DEF Init, Queue!Init, Queue!FifoQueue!Init, Queue!Contents
<1>2. SInv /\ [Next]_vars => [Queue!FifoQueue!Next]_(Queue!Contents)
  BY StepsOfFifo
<1> QED
  BY <1>1, <1>2, Invariant, PTL DEF Spec, QueueIsFifo, Queue!ImplementsFifo, Queue!FifoQueue!Spec
=============================================================================
