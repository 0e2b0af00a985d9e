---------------------------- MODULE DaemonProofs ----------------------------
(***************************************************************************)
(* Proofs of the safety of the daemons, for any number of them, any hall   *)
(* and deaths at any step.                                                 *)
(***************************************************************************)
EXTENDS DaemonProperties, TLAPS

(* From the lock of the PID file to its end a daemon holds it. *)
LockHeld ==
    \A p \in Procs : pc[p] \notin {"new", "fork", "open_pid", "lock_pid", "dead"} => lockHolder = p

(* The message is in the pipe only when the lock has been taken, and an    *)
(* original process that reports success has read it.                      *)
MessageSent ==
    \A p \in Procs :
        /\ message[p] => pc[p] \notin {"new", "fork", "open_pid", "lock_pid", "write_pid",
                                       "chdir", "notify"}
        /\ starter[p] = "success" => message[p]

SetupLabels == {"setup_clean", "set_pid"}
PidLabels   == {"set_timestamp", "sockets", "serving", "serving_clean"}

(* What a daemon has already read, added or written is in the file. *)
FileHas(p) ==
    /\ pc[p] \in {"seats"} \cup SetupLabels \cup PidLabels =>
            setting["ROWS"] # Absent /\ setting["COLUMNS"] # Absent
    /\ pc[p] = "seats" => \A s \in Seats : s < at[p] => seat[s] # Absent
    /\ pc[p] \in SetupLabels \cup PidLabels => \A s \in Seats : s < size[p] => seat[s] # Absent
    /\ pc[p] \in PidLabels => setting["PID"] = p
    /\ pc[p] \in PidLabels \ {"set_timestamp"} => setting["TIMESTAMP"] = p
    /\ Serving(p) => setting["IP"] # Absent /\ setting["PORT"] # Absent

FilesHave == \A p \in Procs : FileHas(p)

IInv == TypeOK /\ LockHeld /\ MessageSent /\ FilesHave /\ StopsADaemon

(* The product of two admissible sizes is a number of seats there are. *)
LEMMA HallSize ==
    ASSUME TypeOK, setting["ROWS"] # Absent, setting["COLUMNS"] # Absent
    PROVE  Hall \in 0 .. NSeats
<1>1. setting["ROWS"] \in RowSizes /\ setting["COLUMNS"] \in ColumnSizes
  BY DEF TypeOK, FileTypes, LoopTypes, ProcessTypes
<1>2. Hall <= NSeats
  BY <1>1, SizeAssumption DEF Hall
<1>3. Hall \in Nat
  <2>1. setting["ROWS"] \in Nat /\ setting["COLUMNS"] \in Nat
    BY <1>1, SizeAssumption
  <2>2. \A m, n \in Nat : m * n \in Nat
    OBVIOUS
  <2> QED
    BY <2>1, <2>2 DEF Hall
<1> QED
  BY <1>2, <1>3, SizeAssumption

LEMMA InitIInv == Init => IInv
<1> SUFFICES ASSUME Init PROVE IInv
  OBVIOUS
<1> USE DEF Init
<1>1. TypeOK
  <2>1. FileTypes
    BY DEF FileTypes, Settings, Absent
  <2>2. LoopTypes
    BY SizeAssumption DEF LoopTypes, States
  <2>3. ProcessTypes
    BY DEF ProcessTypes, None
  <2> QED
    BY <2>1, <2>2, <2>3 DEF TypeOK
<1>2. LockHeld /\ MessageSent
  BY DEF LockHeld, MessageSent
<1>3. FilesHave
  BY DEF FilesHave, FileHas, SetupLabels, PidLabels, Serving
<1>4. StopsADaemon
  BY DEF StopsADaemon
<1> QED
  BY <1>1, <1>2, <1>3, <1>4 DEF IInv

LEMMA EndsTypeOK ==
    ASSUME TypeOK, NEW p \in Procs, Ends(p), ctl' \in {"idle", "kill", "status_pid", "status_time"},
           asked' \in Nat \cup {Absent}, held' \in SUBSET (1 .. MaxCode)
    PROVE  TypeOK'
BY SizeAssumption DEF TypeOK, FileTypes, LoopTypes, ProcessTypes, Ends, Goto, files, States, Unblocked, None

LEMMA TerminateTypeOK ==
    ASSUME TypeOK, NEW p \in Procs, Terminate(p),
           ctl' \in {"idle", "kill", "status_pid", "status_time"}, asked' \in Nat \cup {Absent},
           held' \in SUBSET (1 .. MaxCode)
    PROVE  TypeOK'
<1>1. CASE pc[p] \in Unblocked
  BY <1>1, EndsTypeOK DEF Terminate
<1>2. CASE pc[p] \notin Unblocked
  BY <1>2 DEF Terminate, TypeOK, FileTypes, LoopTypes, ProcessTypes, pidLock, files, loops, pipes
<1> QED
  BY <1>1, <1>2

(* Every step keeps the types. *)
LEMMA NextTypeOK == TypeOK /\ Next => TypeOK'
<1> SUFFICES ASSUME TypeOK, Next PROVE TypeOK'
  OBVIOUS
<1> USE SizeAssumption
<1>1. ASSUME NEW p \in Procs, Start(p) PROVE TypeOK'
  BY <1>1 DEF Start, TypeOK, FileTypes, LoopTypes, ProcessTypes, Goto, States, Unblocked, pidLock, files, loops, outside, operator
<1>2. ASSUME NEW p \in Procs, Original(p) PROVE TypeOK'
  <2>1. FileTypes'
    BY <1>2 DEF Original, StarterCloses, StarterReads, TypeOK, FileTypes, Settings, files
  <2>2. LoopTypes'
    BY <1>2 DEF Original, StarterCloses, StarterReads, TypeOK, LoopTypes, FileTypes, Goto, States, Unblocked, PopulateList, loops
  <2>3. ProcessTypes'
    BY <1>2 DEF Original, StarterCloses, StarterReads, TypeOK, ProcessTypes, None, pidLock, pipes, outside, operator
  <2> QED
    BY <2>1, <2>2, <2>3 DEF TypeOK
<1>3. ASSUME NEW p \in Procs, SysvDaemon(p) PROVE TypeOK'
  <2>1. ASSUME SecondFork(p) \/ OpenPidFile(p) \/ WritePid(p) \/ DropPrivileges(p)
               \/ Notify(p) \/ ClosePipe(p)
        PROVE TypeOK'
    <3>1. FileTypes'
      BY <2>1 DEF SecondFork, OpenPidFile, WritePid, DropPrivileges, Notify, ClosePipe, TypeOK, FileTypes, Settings, files
    <3>2. LoopTypes'
      BY <2>1 DEF SecondFork, OpenPidFile, WritePid, DropPrivileges, Notify, ClosePipe, TypeOK, LoopTypes, FileTypes, Goto, States, Unblocked, PopulateList, loops
    <3>3. ProcessTypes'
      BY <2>1 DEF SecondFork, OpenPidFile, WritePid, DropPrivileges, Notify, ClosePipe, TypeOK, ProcessTypes, None, pidLock, pipes, outside, operator
    <3> QED
      BY <3>1, <3>2, <3>3 DEF TypeOK
  <2>2. ASSUME LockPidFile(p) PROVE TypeOK'
    <3>1. CASE lockHolder = None
      BY <2>2, <3>1 DEF LockPidFile, TypeOK, FileTypes, LoopTypes, ProcessTypes, Goto, States, Unblocked, files, loops, pipes, outside, operator
    <3>2. CASE lockHolder # None
      BY <2>2, <3>2, EndsTypeOK DEF LockPidFile, outside, operator, TypeOK, FileTypes, LoopTypes, ProcessTypes
    <3> QED
      BY <3>1, <3>2
  <2> QED
    BY <1>3, <2>1, <2>2 DEF SysvDaemon
<1>4. ASSUME NEW p \in Procs, Main(p) PROVE TypeOK'
  <2>1. CASE SignalBlockAll(p)
    BY <2>1 DEF SignalBlockAll, TypeOK, FileTypes, LoopTypes, ProcessTypes, Goto, States, Unblocked, pidLock, files, loops, pipes, outside, operator
  <2>2. CASE ConnectDatabase(p)
    BY <2>2 DEF ConnectDatabase, TypeOK, FileTypes, LoopTypes, ProcessTypes, Goto, States, PopulateList, pidLock, pipes, outside, operator
  <2>3. CASE Populate(p)
    <3>1. /\ setting' \in [Settings -> Nat \cup {Absent}]
          /\ setting'["ROWS"] \in RowSizes \cup {Absent}
          /\ setting'["COLUMNS"] \in ColumnSizes \cup {Absent}
      <4>1. FileTypes /\ pc[p] = "populate" /\ at[p] \in 1 .. Len(PopulateList) + 1
        BY <2>3 DEF Populate, TypeOK, LoopTypes
      <4>2. CASE at[p] <= Len(PopulateList)
        <5> DEFINE k == PopulateList[at[p]]
        <5>1. at[p] \in 1 .. 9 /\ k \in Settings
          BY <4>1, <4>2 DEF PopulateList, Settings
        <5>2. setting' = [setting EXCEPT ![k] = Default(k)]
          BY <2>3, <4>2 DEF Populate, Put
        <5>3. Default(k) \in Nat /\ (k \in {"ROWS", "COLUMNS"} => Default(k) = 1)
          BY DEF Default
        <5> HIDE DEF k
        <5> QED
          BY <4>1, <5>1, <5>2, <5>3, SizeAssumption DEF FileTypes, Settings
      <4>3. CASE at[p] > Len(PopulateList)
        <5>1. setting' = setting
          BY <2>3, <4>1, <4>3 DEF Populate, PopulateList
        <5> QED
          BY <4>1, <5>1 DEF FileTypes
      <4> QED
        BY <4>1, <4>2, <4>3 DEF PopulateList
    <3>2. seat' \in [Seats -> Nat \cup {Absent}]
      <4>1. seat \in [Seats -> Nat \cup {Absent}]
        BY DEF TypeOK, FileTypes
      <4>2. seat' = seat \/ seat' = [seat EXCEPT ![0] = 0]
        BY <2>3 DEF Populate
      <4> QED
        BY <4>1, <4>2
    <3> QED
      BY <2>3, <3>1, <3>2 DEF Populate, TypeOK, FileTypes, LoopTypes, ProcessTypes, Goto, States, PopulateList, pidLock, pipes, outside, operator
  <2>4. CASE SetupSizes(p)
    <3>1. CASE Absent \in {setting["ROWS"], setting["COLUMNS"]}
      BY <2>4, <3>1, EndsTypeOK DEF SetupSizes, outside, operator, TypeOK, FileTypes, LoopTypes, ProcessTypes
    <3>2. CASE Absent \notin {setting["ROWS"], setting["COLUMNS"]}
      <4>1. FileTypes'
        BY <2>4, <3>2, HallSize DEF SetupSizes, TypeOK, FileTypes, Settings, files
      <4>2. LoopTypes'
        BY <2>4, <3>2, HallSize DEF SetupSizes, TypeOK, LoopTypes, FileTypes, Goto, States, Unblocked, PopulateList, loops
      <4>3. ProcessTypes'
        BY <2>4, <3>2, HallSize DEF SetupSizes, TypeOK, ProcessTypes, None, pidLock, pipes, outside, operator
      <4> QED
        BY <4>1, <4>2, <4>3 DEF TypeOK
    <3> QED
      BY <3>1, <3>2
  <2>5. CASE SetupSeat(p)
    <3>1. FileTypes'
      BY <2>5 DEF SetupSeat, TypeOK, FileTypes, Settings, files
    <3>2. LoopTypes'
      <4>1. at[p] \in Nat /\ size[p] \in 0 .. NSeats /\ pc[p] = "seats"
        BY <2>5 DEF SetupSeat, TypeOK, LoopTypes
      <4>2. clean' \in [Procs -> BOOLEAN]
        <5>1. \A b : (clean[p] \/ b) \in BOOLEAN
          OBVIOUS
        <5>2. clean \in [Procs -> BOOLEAN]
          BY DEF TypeOK, LoopTypes
        <5>3. CASE clean' = [clean EXCEPT ![p] = @ \/ seat[at[p]] = Absent]
          BY <5>1, <5>2, <5>3, Zenon
        <5>4. CASE clean' = clean
          BY <5>2, <5>4
        <5> QED
          BY <2>5, <5>3, <5>4 DEF SetupSeat
      <4>3. CASE at[p] < size[p]
        <5>1. at' = [at EXCEPT ![p] = @ + 1] /\ pc' = pc /\ size' = size
          BY <2>5, <4>3 DEF SetupSeat
        <5> QED
          BY <4>1, <4>2, <4>3, <5>1 DEF TypeOK, LoopTypes
      <4>4. CASE ~(at[p] < size[p])
        <5>1. at' = [at EXCEPT ![p] = 0] /\ size' = size
          BY <2>5, <4>4 DEF SetupSeat
        <5>2. pc' = [pc EXCEPT ![p] = IF clean[p] THEN "setup_clean" ELSE "set_pid"]
          BY <2>5, <4>4 DEF SetupSeat, Goto
        <5>3. PICK l \in {"setup_clean", "set_pid"} : pc' = [pc EXCEPT ![p] = l]
          BY <5>2
        <5> QED
          BY <4>1, <4>2, <5>1, <5>3 DEF TypeOK, LoopTypes, States
      <4> QED
        BY <4>3, <4>4
    <3>3. ProcessTypes'
      BY <2>5 DEF SetupSeat, TypeOK, ProcessTypes, None, pidLock, pipes, outside, operator
    <3> QED
      BY <3>1, <3>2, <3>3 DEF TypeOK
  <2>6. CASE Clean(p)
    <3>1. FileTypes'
      BY <2>6 DEF Clean, Put, TypeOK, FileTypes, Settings, files
    <3>2. LoopTypes'
      BY <2>6 DEF Clean, Put, TypeOK, LoopTypes, FileTypes, Goto, States, Unblocked, PopulateList, loops
    <3>3. ProcessTypes'
      BY <2>6 DEF Clean, Put, TypeOK, ProcessTypes, None, pidLock, pipes, outside, operator
    <3> QED
      BY <3>1, <3>2, <3>3 DEF TypeOK
  <2>7. CASE SetPid(p) \/ SetTimestamp(p)
    <3>1. FileTypes'
      BY <2>7 DEF SetPid, SetTimestamp, Put, Procs, TypeOK, FileTypes, Settings, files
    <3>2. LoopTypes'
      BY <2>7 DEF SetPid, SetTimestamp, Put, Procs, TypeOK, LoopTypes, FileTypes, Goto, States, Unblocked, PopulateList, loops
    <3>3. ProcessTypes'
      BY <2>7 DEF SetPid, SetTimestamp, Put, Procs, TypeOK, ProcessTypes, None, pidLock, pipes, outside, operator
    <3> QED
      BY <3>1, <3>2, <3>3 DEF TypeOK
  <2>8. CASE SetupConnections(p)
    <3>1. CASE Absent \in {setting["IP"], setting["PORT"]}
      BY <2>8, <3>1, EndsTypeOK DEF SetupConnections, outside, operator, TypeOK, FileTypes, LoopTypes, ProcessTypes
    <3>2. CASE Absent \notin {setting["IP"], setting["PORT"]}
      BY <2>8, <3>2 DEF SetupConnections, TypeOK, FileTypes, LoopTypes, ProcessTypes, Goto, States, pidLock, files, loops, pipes, outside, operator
    <3> QED
      BY <3>1, <3>2
  <2>9. CASE Shutdown(p)
    BY <2>9, EndsTypeOK DEF Shutdown, outside, operator, TypeOK, FileTypes, LoopTypes, ProcessTypes
  <2> QED
    BY <1>4, <2>1, <2>2, <2>3, <2>4, <2>5, <2>6, <2>7, <2>8, <2>9 DEF Main
<1>5. ASSUME NEW p \in Procs, Requests(p) PROVE TypeOK'
  <2>1. CASE Issue(p)
    <3>1. CASE setting["ID_COUNTER"] = Absent
      BY <2>1, <3>1, EndsTypeOK DEF Issue, outside, operator, TypeOK, FileTypes, LoopTypes, ProcessTypes
    <3>2. CASE setting["ID_COUNTER"] # Absent
      <4>1. FileTypes'
        BY <2>1, <3>2 DEF Issue, Put, TypeOK, FileTypes, Settings, files
      <4>2. LoopTypes'
        BY <2>1, <3>2 DEF Issue, TypeOK, LoopTypes, loops
      <4>3. held' \in SUBSET (1 .. MaxCode)
        <5>1. setting["ID_COUNTER"] + 1 \in 1 .. MaxCode
          BY <2>1, <3>2 DEF Issue, TypeOK, FileTypes, Settings
        <5>2. held' = held \cup {setting["ID_COUNTER"] + 1}
          BY <2>1, <3>2 DEF Issue
        <5> QED
          BY <5>1, <5>2 DEF TypeOK, ProcessTypes
      <4>4. ProcessTypes'
        BY <2>1, <3>2, <4>3 DEF Issue, TypeOK, ProcessTypes, None, pidLock, pipes, operator
      <4> QED
        BY <4>1, <4>2, <4>4 DEF TypeOK
    <3> QED
      BY <3>1, <3>2
  <2>2. CASE Store(p) \/ Unbook(p) \/ CleanBegins(p)
    <3>1. FileTypes'
      BY <2>2 DEF Store, Unbook, CleanBegins, Put, TypeOK, FileTypes, ProcessTypes, Settings, files
    <3>2. LoopTypes'
      BY <2>2 DEF Store, Unbook, CleanBegins, TypeOK, LoopTypes, FileTypes, Goto, States, Unblocked, PopulateList, loops
    <3>3. ProcessTypes'
      BY <2>2 DEF Store, Unbook, CleanBegins, TypeOK, ProcessTypes, None, pidLock, pipes, outside, operator
    <3> QED
      BY <3>1, <3>2, <3>3 DEF TypeOK
  <2>3. CASE Resize(p)
    BY <2>3 DEF Resize, Put, TypeOK, FileTypes, LoopTypes, ProcessTypes, Settings, pidLock, loops, pipes, outside, operator
  <2> QED
    BY <1>5, <2>1, <2>2, <2>3 DEF Requests
<1>6. ASSUME Cinemactl PROVE TypeOK'
  <2>1. CASE StopKills
    <3>1. CASE asked \in Procs
      BY <2>1, <3>1, TerminateTypeOK DEF StopKills, None, TypeOK, ProcessTypes
    <3>2. CASE asked \notin Procs
      BY <2>1, <3>2 DEF StopKills, TypeOK, FileTypes, LoopTypes, ProcessTypes, None, pidLock, files, loops, pipes
    <3> QED
      BY <3>1, <3>2
  <2>2. CASE ~StopKills
    <3>1. UNCHANGED <<pidLock, files, pc, loops, signalled, pipes, held>>
      BY <1>6, <2>2 DEF Cinemactl, AsksPid, StatusTest, StatusTime, QueryFails, CtlGoes
    <3>2. ctl' \in {"idle", "kill", "status_pid", "status_time"} /\ asked' \in Nat \cup {Absent}
      BY <1>6, <2>2 DEF Cinemactl, AsksPid, StatusTest, StatusTime, QueryFails, CtlGoes, TypeOK,
         FileTypes, ProcessTypes, Settings, None
    <3> QED
      BY <3>1, <3>2 DEF TypeOK, FileTypes, LoopTypes, ProcessTypes, pidLock, files, loops, pipes
  <2> QED
    BY <2>1, <2>2
<1>7. ASSUME NEW p \in Procs, Crash(p) \/ Kill(p) PROVE TypeOK'
  BY <1>7, EndsTypeOK, TerminateTypeOK DEF Crash, Kill, outside, operator, TypeOK, FileTypes, LoopTypes, ProcessTypes
<1>8. ASSUME Over PROVE TypeOK'
  BY <1>8 DEF Over, vars, TypeOK, FileTypes, LoopTypes, ProcessTypes, pidLock, files, loops, pipes, outside, operator
<1> QED
  BY <1>1, <1>2, <1>3, <1>4, <1>5, <1>6, <1>7, <1>8 DEF Next, CalmNext, Process

-----------------------------------------------------------------------------
(* Only a daemon with the lock moves among the states that need it. *)
LEMMA EndsLock ==
    ASSUME TypeOK, LockHeld, MessageSent, NEW p \in Procs, Ends(p)
    PROVE  LockHeld' /\ MessageSent'
BY DEF TypeOK, LoopTypes, ProcessTypes, LockHeld, MessageSent, Ends, Goto, None, Procs

LEMMA TerminateLock ==
    ASSUME TypeOK, LockHeld, MessageSent, NEW p \in Procs, Terminate(p)
    PROVE  LockHeld' /\ MessageSent'
<1>1. CASE pc[p] \in Unblocked
  BY <1>1, EndsLock DEF Terminate
<1>2. CASE pc[p] \notin Unblocked
  BY <1>2 DEF Terminate, LockHeld, MessageSent, pidLock, pipes
<1> QED
  BY <1>1, <1>2

LEMMA NextLock == TypeOK /\ LockHeld /\ MessageSent /\ Next => LockHeld' /\ MessageSent'
<1> SUFFICES ASSUME TypeOK, LockHeld, MessageSent, Next PROVE LockHeld' /\ MessageSent'
  OBVIOUS
<1> USE DEF LockHeld, MessageSent, Goto
<1>0. LoopTypes /\ ProcessTypes
  BY DEF TypeOK
<1>1. ASSUME NEW p \in Procs, Start(p) PROVE LockHeld' /\ MessageSent'
  BY <1>0, <1>1 DEF Start, LoopTypes, ProcessTypes, pidLock
<1>2. ASSUME NEW p \in Procs, Original(p) PROVE LockHeld' /\ MessageSent'
  BY <1>0, <1>2 DEF Original, StarterCloses, StarterReads, ProcessTypes, pidLock
<1>3. ASSUME NEW p \in Procs, SysvDaemon(p) PROVE LockHeld' /\ MessageSent'
  <2>1. CASE SecondFork(p) \/ OpenPidFile(p) \/ WritePid(p) \/ DropPrivileges(p)
    BY <1>0, <2>1 DEF SecondFork, OpenPidFile, WritePid, DropPrivileges, LoopTypes, pidLock, pipes
  <2>2. CASE Notify(p) \/ ClosePipe(p)
    BY <1>0, <2>2, ZenonT(60) DEF Notify, ClosePipe, LoopTypes, ProcessTypes, pidLock
  <2>3. CASE LockPidFile(p)
    <3>1. CASE lockHolder = None
      <4>1. \A q \in Procs : q # None
        BY ProcAssumption DEF Procs, None
      <4> QED
        BY <1>0, <2>3, <3>1, <4>1 DEF LockPidFile, LoopTypes, pipes
    <3>2. CASE lockHolder # None
      BY <2>3, <3>2, EndsLock DEF LockPidFile
    <3> QED
      BY <3>1, <3>2
  <2> QED
    BY <1>3, <2>1, <2>2, <2>3 DEF SysvDaemon
<1>4. ASSUME NEW p \in Procs, Main(p) PROVE LockHeld' /\ MessageSent'
  <2>1. CASE Ends(p)
    BY <2>1, EndsLock
  <2>2. CASE ~Ends(p)
    BY <1>0, <1>4, <2>2, ZenonT(60) DEF Main, SignalBlockAll, ConnectDatabase, Populate, SetupSizes, SetupSeat,
       Clean, SetPid, SetTimestamp, SetupConnections, Shutdown, LoopTypes, pidLock, pipes
  <2> QED
    BY <2>1, <2>2
<1>5. ASSUME NEW p \in Procs, Requests(p) PROVE LockHeld' /\ MessageSent'
  <2>1. CASE Ends(p)
    BY <2>1, EndsLock
  <2>2. CASE ~Ends(p)
    BY <1>0, <1>5, <2>2 DEF Requests, Issue, Store, Unbook, CleanBegins, Resize, Serving, LoopTypes,
       pidLock, pipes
  <2> QED
    BY <2>1, <2>2
<1>6. ASSUME Cinemactl PROVE LockHeld' /\ MessageSent'
  <2>1. CASE StopKills /\ asked \in Procs
    BY <2>1, TerminateLock DEF StopKills
  <2>2. CASE ~(StopKills /\ asked \in Procs)
    BY <1>6, <2>2 DEF Cinemactl, StopKills, AsksPid, StatusTest, StatusTime, QueryFails, CtlGoes,
       pidLock, pipes
  <2> QED
    BY <2>1, <2>2
<1>7. ASSUME NEW p \in Procs, Crash(p) \/ Kill(p) PROVE LockHeld' /\ MessageSent'
  BY <1>7, EndsLock, TerminateLock DEF Crash, Kill
<1>8. ASSUME Over PROVE LockHeld' /\ MessageSent'
  BY <1>8 DEF Over, vars, pidLock, pipes
<1> QED
  BY <1>1, <1>2, <1>3, <1>4, <1>5, <1>6, <1>7, <1>8 DEF Next, CalmNext, Process

-----------------------------------------------------------------------------
(* A step that leaves the file and the control of a daemon alone. *)
LEMMA FileFrame ==
    ASSUME NEW q \in Procs, FileHas(q), pc'[q] = pc[q], at'[q] = at[q], size'[q] = size[q],
           setting' = setting, seat' = seat
    PROVE  FileHas(q)'
BY DEF FileHas, Serving

(* While one daemon holds the lock, no other is where it has read the file. *)
LEMMA OtherFiles ==
    ASSUME LockHeld, NEW p \in Procs, NEW q \in Procs, q # p, pc'[q] = pc[q],
           pc[p] \notin {"new", "fork", "open_pid", "lock_pid", "dead"}
    PROVE  FileHas(q)'
<1>1. pc[q] \in {"new", "fork", "open_pid", "lock_pid", "dead"}
  BY DEF LockHeld
<1> QED
  BY <1>1 DEF FileHas, Serving, SetupLabels, PidLabels

LEMMA EndsFiles ==
    ASSUME TypeOK, FilesHave, NEW p \in Procs, Ends(p)
    PROVE  FilesHave'
<1> SUFFICES ASSUME NEW q \in Procs PROVE FileHas(q)'
  BY DEF FilesHave
<1>1. CASE q = p
  BY <1>1 DEF Ends, Goto, TypeOK, LoopTypes, FileHas, Serving, SetupLabels, PidLabels
<1>2. CASE q # p
  BY <1>2, FileFrame DEF FilesHave, Ends, Goto, TypeOK, LoopTypes, files
<1> QED
  BY <1>1, <1>2

LEMMA TerminateFiles ==
    ASSUME TypeOK, FilesHave, NEW p \in Procs, Terminate(p)
    PROVE  FilesHave'
<1>1. CASE pc[p] \in Unblocked
  BY <1>1, EndsFiles DEF Terminate
<1>2. CASE pc[p] \notin Unblocked
  BY <1>2, FileFrame DEF Terminate, FilesHave, files, loops
<1> QED
  BY <1>1, <1>2

(* The steps of a daemon before it opens the data file. *)
LEMMA EarlyFiles ==
    ASSUME TypeOK, FilesHave, NEW p \in Procs, NEW l \in Unblocked \cup {"connect"},
           pc' = pc \/ pc' = [pc EXCEPT ![p] = l], UNCHANGED <<files, loops>>
    PROVE  FilesHave'
<1> SUFFICES ASSUME NEW q \in Procs PROVE FileHas(q)'
  BY DEF FilesHave
<1>1. CASE pc'[q] = pc[q]
  BY <1>1, FileFrame DEF FilesHave, files, loops
<1>2. CASE pc'[q] = l
  BY <1>2 DEF Unblocked, FileHas, Serving, SetupLabels, PidLabels
<1> QED
  BY <1>1, <1>2 DEF TypeOK, LoopTypes

(* The steps of main keep what it has read, added and written. *)
LEMMA MainFiles ==
    ASSUME TypeOK, LockHeld, FilesHave, NEW p \in Procs, Main(p)
    PROVE  FilesHave'
<1> USE DEF Goto, SetupLabels, PidLabels
<1>0. /\ FileHas(p) /\ FileTypes /\ LoopTypes
      /\ at[p] \in Nat /\ size[p] \in Nat
  BY SizeAssumption DEF FilesHave, TypeOK, LoopTypes
<1>1. CASE Ends(p)
  BY <1>1, EndsFiles
<1>2. CASE SignalBlockAll(p)
  BY <1>2, EarlyFiles DEF SignalBlockAll
<1>3. CASE ~Ends(p) /\ ~SignalBlockAll(p)
  <2> SUFFICES FileHas(p)'
    <3>1. ASSUME NEW q \in Procs, q # p PROVE pc'[q] = pc[q]
      <4>1. CASE ConnectDatabase(p) \/ Populate(p) \/ SetPid(p) \/ SetTimestamp(p)
        BY <1>0, <3>1, <4>1 DEF ConnectDatabase, Populate, SetPid, SetTimestamp, LoopTypes
      <4>2. CASE SetupSizes(p) \/ SetupConnections(p) \/ Shutdown(p)
        BY <1>0, <1>3, <3>1, <4>2 DEF SetupSizes, SetupConnections, Shutdown, LoopTypes
      <4>3. CASE SetupSeat(p)
        BY <1>0, <3>1, <4>3 DEF SetupSeat, LoopTypes
      <4>4. CASE Clean(p)
        BY <1>0, <3>1, <4>4 DEF Clean, LoopTypes
      <4> QED
        BY <1>3, <4>1, <4>2, <4>3, <4>4 DEF Main
    <3>2. pc[p] \notin {"new", "fork", "open_pid", "lock_pid", "dead"}
      BY <1>3 DEF Main, ConnectDatabase, Populate, SetupSizes, SetupSeat, Clean, SetPid,
         SetTimestamp, SetupConnections, Shutdown
    <3>3. \A q \in Procs : q # p => FileHas(q)'
      BY <3>1, <3>2, OtherFiles
    <3> QED
      BY <3>3 DEF FilesHave
  <2>1. CASE ConnectDatabase(p) \/ Populate(p)
    BY <1>0, <2>1 DEF ConnectDatabase, Populate, FileHas, Serving, LoopTypes
  <2>2. CASE SetupSizes(p)
    BY <1>0, <1>3, <2>2, SizeAssumption DEF SetupSizes, FileHas, Serving, LoopTypes, Seats, files
  <2>3. CASE SetupSeat(p)
    <3>1. CASE at[p] < size[p]
      <4>1. /\ seat' = [seat EXCEPT ![at[p]] = IF @ = Absent THEN 0 ELSE @]
            /\ at' = [at EXCEPT ![p] = @ + 1] /\ pc' = pc /\ setting' = setting
        BY <2>3, <3>1 DEF SetupSeat
      <4>2. \A s \in Seats : s < at[p] \/ s = at[p] => seat'[s] # Absent
        BY <1>0, <2>3, <4>1 DEF SetupSeat, FileHas, FileTypes, Absent
      <4> QED
        BY <1>0, <2>3, <4>1, <4>2 DEF SetupSeat, FileHas, Serving, LoopTypes, Seats
    <3>2. CASE ~(at[p] < size[p])
      <4>1. /\ seat' = seat /\ setting' = setting /\ size' = size
            /\ pc'[p] \in {"setup_clean", "set_pid"}
        BY <1>0, <2>3, <3>2 DEF SetupSeat, LoopTypes
      <4> QED
        BY <1>0, <2>3, <3>2, <4>1 DEF SetupSeat, FileHas, Serving, Seats
    <3> QED
      BY <3>1, <3>2
  <2>4. CASE Clean(p)
    BY <1>0, <2>4 DEF Clean, Put, FileHas, Serving, FileTypes, LoopTypes, Settings, Absent
  <2>5. CASE SetPid(p) \/ SetTimestamp(p)
    BY <1>0, <2>5 DEF SetPid, SetTimestamp, Put, FileHas, Serving, FileTypes, LoopTypes, Settings, loops
  <2>6. CASE SetupConnections(p)
    BY <1>0, <1>3, <2>6 DEF SetupConnections, FileHas, Serving, LoopTypes, loops, files
  <2> QED
    BY <1>3, <2>1, <2>2, <2>3, <2>4, <2>5, <2>6 DEF Main, Shutdown
<1> QED
  BY <1>1, <1>2, <1>3

(* The requests of a server keep the file complete. *)
LEMMA RequestFiles ==
    ASSUME TypeOK, LockHeld, FilesHave, NEW p \in Procs, Requests(p)
    PROVE  FilesHave'
<1>0. FileHas(p) /\ FileTypes /\ LoopTypes
  BY DEF FilesHave, TypeOK
<1>1. CASE Ends(p)
  BY <1>1, EndsFiles
<1>2. CASE ~Ends(p)
  <2>1. pc[p] \in {"serving", "serving_clean"} /\ size' = size
    BY <1>2 DEF Requests, Issue, Store, Unbook, CleanBegins, Resize, Serving, loops
  <2>2. pc' = pc \/ pc' = [pc EXCEPT ![p] = "serving_clean"]
    BY <1>2 DEF Requests, Issue, Store, Unbook, CleanBegins, Resize, Goto
  <2>3. \A k \in Settings \ {"ROWS", "COLUMNS", "ID_COUNTER"} : setting'[k] = setting[k]
    BY <1>0, <1>2 DEF Requests, Issue, Store, Unbook, CleanBegins, Resize, Put, FileTypes, files
  <2>4. setting'["ROWS"] # Absent /\ setting'["COLUMNS"] # Absent
    <3>1. setting["ROWS"] # Absent /\ setting["COLUMNS"] # Absent
      BY <1>0, <2>1 DEF FileHas, PidLabels
    <3>2. Absent \notin RowSizes /\ Absent \notin ColumnSizes
      BY SizeAssumption DEF Absent
    <3> QED
      BY <1>0, <1>2, <3>1, <3>2 DEF Requests, Issue, Store, Unbook, CleanBegins, Resize, Put, FileTypes, files,
         Settings
  <2>5. \A s \in Seats : seat[s] # Absent => seat'[s] # Absent
    <3>1. CASE Store(p)
      <4>1. held \subseteq Nat
        BY DEF TypeOK, ProcessTypes
      <4> QED
        BY <1>0, <3>1, <4>1 DEF Store, FileTypes, Absent
    <3>2. CASE ~Store(p)
      BY <1>0, <1>2, <3>2 DEF Requests, Issue, Unbook, CleanBegins, Resize, FileTypes, files, Absent
    <3> QED
      BY <3>1, <3>2
  <2>6. FileHas(p)'
    BY <1>0, <2>1, <2>2, <2>3, <2>4, <2>5 DEF FileHas, Serving, PidLabels, SetupLabels, Settings,
       LoopTypes
  <2>7. \A q \in Procs : q # p => FileHas(q)'
    BY <1>0, <2>1, <2>2, OtherFiles DEF LoopTypes
  <2> QED
    BY <2>6, <2>7 DEF FilesHave
<1> QED
  BY <1>1, <1>2

LEMMA NextFiles == TypeOK /\ LockHeld /\ FilesHave /\ Next => FilesHave'
<1> SUFFICES ASSUME TypeOK, LockHeld, FilesHave, Next PROVE FilesHave'
  OBVIOUS
<1>1. ASSUME NEW p \in Procs, Start(p) PROVE FilesHave'
  BY <1>1, EarlyFiles DEF Start, Goto, Unblocked
<1>2. ASSUME NEW p \in Procs, Original(p) PROVE FilesHave'
  <2>1. pc' = pc /\ UNCHANGED <<files, loops>>
    BY <1>2 DEF Original, StarterCloses, StarterReads
  <2> QED
    BY <2>1, EarlyFiles DEF Unblocked
<1>3. ASSUME NEW p \in Procs, SysvDaemon(p) PROVE FilesHave'
  <2>1. CASE Ends(p)
    BY <2>1, EndsFiles
  <2>2. CASE ~Ends(p)
    <3>1. UNCHANGED <<files, loops>>
      BY <1>3, <2>2 DEF SysvDaemon, SecondFork, OpenPidFile, LockPidFile, WritePid, DropPrivileges,
         Notify, ClosePipe
    <3>2. PICK l \in Unblocked : pc' = [pc EXCEPT ![p] = l]
      BY <1>3, <2>2 DEF SysvDaemon, SecondFork, OpenPidFile, LockPidFile, WritePid, DropPrivileges,
         Notify, ClosePipe, Goto, Unblocked
    <3> QED
      BY <3>1, <3>2, EarlyFiles
  <2> QED
    BY <2>1, <2>2
<1>4. ASSUME Cinemactl PROVE FilesHave'
  <2>1. CASE StopKills /\ asked \in Procs
    BY <2>1, TerminateFiles DEF StopKills
  <2>2. CASE ~(StopKills /\ asked \in Procs)
    <3>1. pc' = pc /\ UNCHANGED <<files, loops>>
      BY <1>4, <2>2 DEF Cinemactl, StopKills, AsksPid, StatusTest, StatusTime, QueryFails, CtlGoes
    <3> QED
      BY <3>1, FileFrame DEF FilesHave, files, loops
  <2> QED
    BY <2>1, <2>2
<1>5. ASSUME Over PROVE FilesHave'
  BY <1>5, FileFrame DEF Over, vars, FilesHave, files, loops
<1>6. ASSUME NEW p \in Procs, Crash(p) \/ Kill(p) PROVE FilesHave'
  BY <1>6, EndsFiles, TerminateFiles DEF Crash, Kill
<1> QED
  BY <1>1, <1>2, <1>3, <1>4, <1>5, <1>6, MainFiles, RequestFiles DEF Next, CalmNext, Process

-----------------------------------------------------------------------------
Served == {"serving", "serving_clean", "dead"}

(* A daemon that has served keeps serving or is gone. *)
LEMMA ServedStays ==
    ASSUME TypeOK, Next, NEW q \in Procs, pc[q] \in Served
    PROVE  pc'[q] \in Served
<1> USE DEF Served, Goto
<1>0. pc \in [Procs -> States]
  BY DEF TypeOK, LoopTypes
<1>1. ASSUME NEW p \in Procs, Ends(p) PROVE pc'[q] \in Served
  BY <1>0, <1>1 DEF Ends
<1>2. ASSUME NEW p \in Procs, Terminate(p) PROVE pc'[q] \in Served
  BY <1>1, <1>2 DEF Terminate
<1>3. ASSUME NEW p \in Procs, ~Ends(p), Process(p) PROVE pc'[q] \in Served
  <2>1. CASE Start(p) \/ Original(p)
    BY <1>0, <2>1 DEF Start, Original, StarterCloses, StarterReads
  <2>2. CASE SysvDaemon(p)
    BY <1>0, <1>3, <2>2 DEF SysvDaemon, SecondFork, OpenPidFile, LockPidFile, WritePid,
       DropPrivileges, Notify, ClosePipe
  <2>3. CASE Main(p)
    <3>1. CASE SetupSeat(p)
      BY <1>0, <3>1 DEF SetupSeat
    <3>2. CASE Clean(p)
      BY <1>0, <3>2 DEF Clean
    <3>3. CASE ~SetupSeat(p) /\ ~Clean(p)
      BY <1>0, <1>3, <2>3, <3>3 DEF Main, SignalBlockAll, ConnectDatabase, Populate, SetupSizes,
         SetPid, SetTimestamp, SetupConnections, Shutdown
    <3> QED
      BY <3>1, <3>2, <3>3
  <2>4. CASE Requests(p)
    BY <1>0, <1>3, <2>4 DEF Requests, Issue, Store, Unbook, CleanBegins, Resize
  <2> QED
    BY <1>3, <2>1, <2>2, <2>3, <2>4 DEF Process
<1>4. ASSUME Cinemactl PROVE pc'[q] \in Served
  <2>1. CASE StopKills /\ asked \in Procs
    BY <1>2, <2>1 DEF StopKills
  <2>2. CASE ~(StopKills /\ asked \in Procs)
    BY <1>4, <2>2 DEF Cinemactl, StopKills, AsksPid, StatusTest, StatusTime, QueryFails, CtlGoes
  <2> QED
    BY <2>1, <2>2
<1>5. ASSUME Over PROVE pc'[q] \in Served
  BY <1>5 DEF Over, vars
<1> QED
  BY <1>1, <1>2, <1>3, <1>4, <1>5 DEF Next, CalmNext, Crash, Kill

LEMMA NextStops == TypeOK /\ FilesHave /\ StopsADaemon /\ Next => StopsADaemon'
<1> SUFFICES ASSUME TypeOK, FilesHave, StopsADaemon, Next PROVE StopsADaemon'
  OBVIOUS
<1>1. CASE UNCHANGED operator
  <2>1. ctl \in {"kill", "status_time"} => asked \in Procs /\ pc'[asked] \in Served
    BY ServedStays DEF StopsADaemon, Served
  <2> QED
    BY <1>1, <2>1 DEF StopsADaemon, Served, outside, operator
<1>2. CASE Cinemactl
  <2>1. CASE Answers /\ asked' = setting["PID"] /\ pc' = pc
    <3>1. PICK q \in Procs : Serving(q)
      BY <2>1 DEF Answers
    <3>2. setting["PID"] = q
      BY <3>1 DEF FilesHave, FileHas, Serving, PidLabels
    <3> QED
      BY <2>1, <3>1, <3>2 DEF StopsADaemon, Serving
  <2>2. CASE ctl' \notin {"kill", "status_time"}
    BY <2>2 DEF StopsADaemon
  <2> QED
    BY <1>2, <2>1, <2>2 DEF Cinemactl, AsksPid, StopKills, StatusTest, StatusTime, QueryFails,
       CtlGoes
<1>3. CASE Over
  BY <1>3 DEF Over, vars, StopsADaemon, outside, operator
<1> QED
  <2>1. ASSUME NEW p \in Procs, Process(p) \/ Crash(p) \/ Kill(p) PROVE UNCHANGED operator
    <3>1. CASE Start(p) \/ Original(p) \/ Crash(p) \/ Kill(p)
      BY <3>1 DEF Start, Original, StarterCloses, StarterReads, Crash, Kill, outside
    <3>2. CASE SysvDaemon(p)
      BY <3>2 DEF SysvDaemon, SecondFork, OpenPidFile, LockPidFile, WritePid, DropPrivileges,
         Notify, ClosePipe, outside
    <3>3. CASE Main(p)
      BY <3>3 DEF Main, SignalBlockAll, ConnectDatabase, Populate, SetupSizes, SetupSeat, Clean,
         SetPid, SetTimestamp, SetupConnections, Shutdown, outside
    <3>4. CASE Requests(p)
      BY <3>4 DEF Requests, Issue, Store, Unbook, CleanBegins, Resize, outside
    <3> QED
      BY <2>1, <3>1, <3>2, <3>3, <3>4 DEF Process
  <2> QED
    BY <1>1, <1>2, <1>3, <2>1 DEF Next, CalmNext

-----------------------------------------------------------------------------
LEMMA NextIInv == IInv /\ [Next]_vars => IInv'
<1> SUFFICES ASSUME IInv, [Next]_vars PROVE IInv'
  OBVIOUS
<1>1. CASE Next
  BY <1>1, NextTypeOK, NextLock, NextFiles, NextStops DEF IInv
<1>2. CASE UNCHANGED vars
  BY <1>2 DEF vars, pidLock, files, loops, pipes, outside, operator, IInv, TypeOK, FileTypes, LoopTypes,
     ProcessTypes, LockHeld, MessageSent, FilesHave, FileHas, Serving, StopsADaemon
<1> QED
  BY <1>1, <1>2

LEMMA Invariant == Spec => []IInv
BY InitIInv, NextIInv, PTL DEF Spec

(* At most one daemon has the data file, and a start that reports success  *)
(* is that of the daemon with the lock (utils.c:53-56, 184-185).           *)
THEOREM Exclusion == Spec => [](OneOnFile /\ SuccessHoldsLock)
<1>1. IInv => OneOnFile
  BY DEF IInv, LockHeld, OneOnFile, OnFile, Unblocked
<1>2. IInv => SuccessHoldsLock
  BY DEF IInv, LockHeld, MessageSent, SuccessHoldsLock
<1> QED
  BY <1>1, <1>2, Invariant, PTL

(* From WritePid on, the PID file is empty or names the daemon with the    *)
(* lock.                                                                   *)
PidFileInv ==
    \A p \in Procs : pc[p] \notin {"new", "fork", "open_pid", "lock_pid", "write_pid", "dead"} =>
        pidFile \in {None, p}

LEMMA TerminatePidFile ==
    ASSUME TypeOK, PidFileInv, NEW p \in Procs, Terminate(p)
    PROVE  PidFileInv'
BY DEF Terminate, Ends, Goto, PidFileInv, TypeOK, LoopTypes, pidLock

LEMMA NextPidFile == TypeOK /\ LockHeld /\ PidFileInv /\ Next => PidFileInv'
<1> SUFFICES ASSUME TypeOK, LockHeld, PidFileInv, Next PROVE PidFileInv'
  OBVIOUS
<1>0. LoopTypes
  BY DEF TypeOK
<1>1. ASSUME NEW p \in Procs, Start(p) PROVE PidFileInv'
  BY <1>0, <1>1 DEF Start, Goto, PidFileInv, LoopTypes, pidLock
<1>2. ASSUME NEW p \in Procs, Original(p) PROVE PidFileInv'
  BY <1>2 DEF Original, StarterCloses, StarterReads, PidFileInv, pidLock
<1>3. ASSUME NEW p \in Procs, SysvDaemon(p) PROVE PidFileInv'
  <2>1. CASE WritePid(p)
    <3>1. \A q \in Procs : q # p => pc[q] \in {"new", "fork", "open_pid", "lock_pid", "dead"}
      BY <2>1 DEF WritePid, LockHeld
    <3> QED
      BY <1>0, <2>1, <3>1 DEF WritePid, Goto, PidFileInv, LoopTypes
  <2>2. CASE OpenPidFile(p) \/ LockPidFile(p)
    BY <1>0, <2>2 DEF OpenPidFile, LockPidFile, Ends, Goto, PidFileInv, LoopTypes
  <2>3. CASE SecondFork(p) \/ DropPrivileges(p) \/ Notify(p) \/ ClosePipe(p)
    BY <1>0, <2>3 DEF SecondFork, DropPrivileges, Notify, ClosePipe, Goto, PidFileInv, LoopTypes,
       pidLock
  <2> QED
    BY <1>3, <2>1, <2>2, <2>3 DEF SysvDaemon
<1>4. ASSUME NEW p \in Procs, Main(p) PROVE PidFileInv'
  <2>1. CASE SignalBlockAll(p) \/ ConnectDatabase(p) \/ Populate(p) \/ SetupSizes(p) \/ SetupSeat(p)
    BY <1>0, <2>1 DEF SignalBlockAll, ConnectDatabase, Populate, SetupSizes, SetupSeat, Ends, Goto,
       PidFileInv, LoopTypes, pidLock
  <2>2. CASE Clean(p) \/ SetPid(p) \/ SetTimestamp(p) \/ SetupConnections(p) \/ Shutdown(p)
    BY <1>0, <2>2 DEF Clean, SetPid, SetTimestamp, SetupConnections, Shutdown, Ends, Goto,
       PidFileInv, LoopTypes, pidLock
  <2> QED
    BY <1>4, <2>1, <2>2 DEF Main
<1>5. ASSUME NEW p \in Procs, Requests(p) PROVE PidFileInv'
  BY <1>0, <1>5 DEF Requests, Issue, Store, Unbook, CleanBegins, Resize, Serving, Ends, Goto, PidFileInv,
     LoopTypes, pidLock
<1>6. ASSUME Cinemactl PROVE PidFileInv'
  BY <1>6, TerminatePidFile DEF Cinemactl, StopKills, AsksPid, StatusTest, StatusTime, QueryFails,
     CtlGoes, PidFileInv, pidLock
<1>7. ASSUME NEW p \in Procs, Crash(p) \/ Kill(p) PROVE PidFileInv'
  BY <1>0, <1>7, TerminatePidFile DEF Crash, Kill, Ends, Goto, PidFileInv, LoopTypes
<1>8. ASSUME Over PROVE PidFileInv'
  BY <1>8 DEF Over, vars, PidFileInv, pidLock
<1> QED
  BY <1>1, <1>2, <1>3, <1>4, <1>5, <1>6, <1>7, <1>8 DEF Next, CalmNext, Process

(* However many daemons are started beside it, the PID file never names    *)
(* another than the one that serves (utils.c:184-191).                     *)
THEOREM PidFileHolds == Spec => []PidFileNamesOwner
<1>1. Init => PidFileInv
  BY DEF Init, PidFileInv
<1>2. IInv /\ PidFileInv /\ [Next]_vars => PidFileInv'
  <2>1. UNCHANGED vars /\ PidFileInv => PidFileInv'
    BY DEF vars, PidFileInv, pidLock
  <2> QED
    BY <2>1, NextPidFile DEF IInv
<1>3. PidFileInv => PidFileNamesOwner
  BY DEF PidFileInv, PidFileNamesOwner, Serving
<1> QED
  BY <1>1, <1>2, <1>3, Invariant, PTL DEF Spec

(* Every variable of the daemons, their starters and cinemactl keeps its   *)
(* type, and every loop over settings and seats its range.                 *)
THEOREM TypeCorrect == Spec => []TypeOK
<1>1. IInv => TypeOK
  BY DEF IInv
<1> QED
  BY <1>1, Invariant, PTL

(* Wherever the daemons before it died, the one that serves finds every    *)
(* setting it reads and every seat of the hall (database.c:145-213).       *)
THEOREM ServesItself == Spec => []ServesComplete
<1>1. IInv => ServesComplete
  <2> SUFFICES ASSUME IInv, NEW p \in Procs, Serving(p)
               PROVE  /\ \A k \in Settings \ {"FILM", "SHOWTIME", "ID_COUNTER"} : setting[k] # Absent
                      /\ \A s \in Seats : s < size[p] => seat[s] # Absent
    BY DEF ServesComplete
  <2>1. FileHas(p)
    BY DEF IInv, FilesHave
  <2>2. p # Absent
    BY ProcAssumption DEF Procs, Absent
  <2> QED
    BY <2>1, <2>2 DEF FileHas, Serving, PidLabels, SetupLabels, Settings
<1> QED
  BY <1>1, Invariant, PTL

(* It answers GET PID and GET TIMESTAMP with its own, whatever daemons     *)
(* were started beside it since it stored them (cinemad.c:127-149).        *)
THEOREM AnswersAsItself == Spec => []AnswersItself
<1>1. IInv => AnswersItself
  BY DEF IInv, FilesHave, FileHas, Serving, PidLabels, AnswersItself
<1> QED
  BY <1>1, Invariant, PTL

(* cinemactl signals the PID of a daemon that has served, though the       *)
(* daemon may end between its answer and the signal (cinemactl.c:123-127). *)
THEOREM CtlStopsADaemon == Spec => []StopsADaemon
<1>1. IInv => StopsADaemon
  BY DEF IInv
<1> QED
  BY <1>1, Invariant, PTL

-----------------------------------------------------------------------------
(* Codes across starts: for deaths at any step, in a hall of any size at   *)
(* any time, a start lets the codes begin again only when no seat has one. *)

SetUp    == {"seats", "setup_clean", "set_pid", "set_timestamp", "sockets", "serving",
             "serving_clean"}

NoSeat     == \A s \in Seats : seat[s] = Absent

(* The seats of the file are the first ones of the largest hall it had. *)
FileSeats ==
    /\ ~created => NoSeat
    /\ \A r, s \in Seats : r < s /\ seat[s] # Absent => seat[r] # Absent

(* What daemon p knows of them: POPULATE comes before the first, and a     *)
(* SETUP that has missed one has them all behind it, to be freed in their  *)
(* order before any request.                                               *)
SeatsOf(p) ==
    /\ pc[p] \in SetUp \cup {"populate", "sizes"} => created
    /\ pc[p] = "populate" => NoSeat
    /\ pc[p] = "seats" /\ clean[p] => \A s \in Seats : seat[s] # Absent => s < at[p]
    /\ pc[p] = "setup_clean" => \A s \in Seats :
            (seat[s] # Absent => s < size[p]) /\ (s < at[p] => seat[s] <= 0)

SeatInv == FileSeats /\ \A p \in Procs : SeatsOf(p)

(* The local clean of procedure_setup is false until SETUP looks at seats. *)
CleanIsLocal == \A p \in Procs : pc[p] \notin SetUp => ~clean[p]

-----------------------------------------------------------------------------
LEMMA NextCleanIsLocal == TypeOK /\ CleanIsLocal /\ Next => CleanIsLocal'
<1> SUFFICES ASSUME TypeOK, CleanIsLocal, Next PROVE CleanIsLocal'
  OBVIOUS
<1>0. LoopTypes
  BY DEF TypeOK
<1>1. ASSUME NEW p \in Procs, Ends(p) PROVE CleanIsLocal'
  BY <1>0, <1>1 DEF Ends, Goto, CleanIsLocal, LoopTypes, SetUp
<1>2. ASSUME NEW p \in Procs, Terminate(p) PROVE CleanIsLocal'
  BY <1>1, <1>2 DEF Terminate, CleanIsLocal, loops
<1>3. ASSUME NEW p \in Procs, ~Ends(p), Process(p) PROVE CleanIsLocal'
  <2>1. CASE Start(p) \/ Original(p) \/ SysvDaemon(p)
    BY <1>0, <1>3, <2>1 DEF Start, Original, StarterCloses, StarterReads, SysvDaemon, SecondFork,
       OpenPidFile, LockPidFile, WritePid, DropPrivileges, Notify, ClosePipe, Goto, CleanIsLocal,
       LoopTypes, loops, SetUp
  <2>2. CASE Main(p)
    <3>1. CASE SetupSeat(p)
      <4>1. pc[p] \in SetUp /\ pc'[p] \in SetUp
        BY <1>0, <3>1 DEF SetupSeat, Goto, LoopTypes, SetUp
      <4>2. \A q \in Procs : q # p => pc'[q] = pc[q] /\ clean'[q] = clean[q]
        BY <1>0, <3>1, Zenon DEF SetupSeat, Goto, LoopTypes
      <4> QED
        BY <4>1, <4>2 DEF CleanIsLocal
    <3>2. CASE ~SetupSeat(p)
      BY <1>0, <1>3, <2>2, <3>2 DEF Main, SignalBlockAll, ConnectDatabase, Populate, SetupSizes,
         Clean, SetPid, SetTimestamp, SetupConnections, Shutdown, Goto, CleanIsLocal, LoopTypes,
         loops, SetUp
    <3> QED
      BY <3>1, <3>2
  <2>3. CASE Requests(p)
    BY <1>0, <1>3, <2>3 DEF Requests, Issue, Store, Unbook, CleanBegins, Resize, Serving, Goto,
       CleanIsLocal, LoopTypes, loops, SetUp
  <2> QED
    BY <1>3, <2>1, <2>2, <2>3 DEF Process
<1>4. ASSUME Cinemactl PROVE CleanIsLocal'
  BY <1>2, <1>4 DEF Cinemactl, StopKills, AsksPid, StatusTest, StatusTime, QueryFails, CtlGoes,
     CleanIsLocal, loops
<1>5. ASSUME Over PROVE CleanIsLocal'
  BY <1>5 DEF Over, vars, CleanIsLocal, loops
<1> QED
  BY <1>1, <1>2, <1>3, <1>4, <1>5 DEF Next, CalmNext, Crash, Kill

-----------------------------------------------------------------------------
LEMMA InitSeatInv == Init => SeatInv
BY DEF Init, SeatInv, FileSeats, SeatsOf, SetUp, NoSeat, Absent

(* A step that leaves the file alone. *)
LEMMA FileSeatsFrame ==
    ASSUME FileSeats, UNCHANGED files
    PROVE  FileSeats'
BY DEF FileSeats, NoSeat, files

(* A step that leaves the file and the control of a daemon alone. *)
LEMMA SeatsFrame ==
    ASSUME NEW q \in Procs, SeatsOf(q), UNCHANGED files,
           pc'[q] = pc[q], at'[q] = at[q], size'[q] = size[q], clean'[q] = clean[q]
    PROVE  SeatsOf(q)'
BY DEF SeatsOf, NoSeat, files

(* While one daemon holds the lock, the others know nothing of the file. *)
LEMMA OtherSeats ==
    ASSUME LockHeld, NEW p \in Procs, NEW q \in Procs, q # p, SeatsOf(q),
           pc'[q] = pc[q],
           pc[p] \notin {"new", "fork", "open_pid", "lock_pid", "dead"}
    PROVE  SeatsOf(q)'
<1>1. pc[q] \in {"new", "fork", "open_pid", "lock_pid", "dead"}
  BY DEF LockHeld
<1> QED
  BY <1>1 DEF SeatsOf, SetUp

LEMMA EndsSeats ==
    ASSUME TypeOK, SeatInv, NEW p \in Procs, Ends(p)
    PROVE  SeatInv'
<1>1. FileSeats'
  BY FileSeatsFrame DEF SeatInv, Ends
<1>2. ASSUME NEW q \in Procs PROVE SeatsOf(q)'
  <2>1. CASE q = p
    BY <2>1 DEF Ends, Goto, TypeOK, LoopTypes, SeatsOf, SetUp
  <2>2. CASE q # p
    BY <2>2, SeatsFrame DEF SeatInv, Ends, Goto, TypeOK, LoopTypes
  <2> QED
    BY <2>1, <2>2
<1> QED
  BY <1>1, <1>2 DEF SeatInv

LEMMA TerminateSeats ==
    ASSUME TypeOK, SeatInv, NEW p \in Procs, Terminate(p)
    PROVE  SeatInv'
<1>1. CASE pc[p] \in Unblocked
  BY <1>1, EndsSeats DEF Terminate
<1>2. CASE pc[p] \notin Unblocked
  BY <1>2, FileSeatsFrame, SeatsFrame DEF Terminate, SeatInv, loops
<1> QED
  BY <1>1, <1>2

(* The steps of a daemon before it opens the data file. *)
LEMMA EarlySeats ==
    ASSUME TypeOK, SeatInv, NEW p \in Procs, NEW l \in Unblocked \cup {"connect"},
           pc' = pc \/ (pc[p] \notin SetUp /\ pc' = [pc EXCEPT ![p] = l]), UNCHANGED <<files, loops>>
    PROVE  SeatInv'
<1>1. FileSeats'
  BY FileSeatsFrame DEF SeatInv
<1>2. ASSUME NEW q \in Procs PROVE SeatsOf(q)'
  <2>1. CASE pc'[q] = pc[q]
    BY <2>1, SeatsFrame DEF SeatInv, loops
  <2>2. CASE pc'[q] = l /\ pc[q] \notin SetUp
    BY <2>2 DEF SeatInv, SeatsOf, SetUp, Unblocked, loops
  <2> QED
    BY <2>1, <2>2 DEF TypeOK, LoopTypes
<1> QED
  BY <1>1, <1>2 DEF SeatInv

-----------------------------------------------------------------------------
(* The steps of a daemon that has the data file: it suffices to look at    *)
(* the file and at this daemon.                                            *)
LEMMA OwnerSeats ==
    ASSUME LockHeld, SeatInv, NEW p \in Procs, FileSeats', SeatsOf(p)',
           pc[p] \notin {"new", "fork", "open_pid", "lock_pid", "dead"},
           \A q \in Procs : q # p => pc'[q] = pc[q]
    PROVE  SeatInv'
<1>1. ASSUME NEW q \in Procs, q # p PROVE SeatsOf(q)'
  BY <1>1, OtherSeats DEF SeatInv
<1> QED
  BY <1>1 DEF SeatInv

LEMMA ConnectSeats ==
    ASSUME TypeOK, LockHeld, SeatInv, NEW p \in Procs, ConnectDatabase(p)
    PROVE  SeatInv'
<1>0. FileSeats /\ SeatsOf(p) /\ LoopTypes
  BY DEF SeatInv, TypeOK
<1>1. FileSeats'
  BY <1>0 DEF ConnectDatabase, FileSeats, NoSeat
<1>2. SeatsOf(p)'
  BY <1>0 DEF ConnectDatabase, Goto, SeatsOf, FileSeats, NoSeat, SetUp, LoopTypes
<1> QED
  BY <1>0, <1>1, <1>2, OwnerSeats DEF ConnectDatabase, Goto, LoopTypes

LEMMA PopulateSeats ==
    ASSUME TypeOK, LockHeld, SeatInv, NEW p \in Procs, Populate(p)
    PROVE  SeatInv'
<1>0. /\ FileSeats /\ SeatsOf(p) /\ LoopTypes /\ FileTypes
      /\ pc[p] = "populate" /\ at[p] \in 1 .. 10 /\ NoSeat /\ created /\ created' = created
  BY DEF SeatInv, SeatsOf, TypeOK, LoopTypes, Populate, PopulateList
<1>1. CASE at[p] <= Len(PopulateList)
  <2>1. seat' = seat /\ pc' = pc
    BY <1>1 DEF Populate
  <2>2. FileSeats' /\ SeatsOf(p)'
    BY <1>0, <2>1 DEF FileSeats, SeatsOf, NoSeat, SetUp
  <2> QED
    BY <2>1, <1>0, <2>2, OwnerSeats
<1>2. CASE ~(at[p] <= Len(PopulateList))
  <2>1. seat' = [seat EXCEPT ![0] = 0] /\ pc' = [pc EXCEPT ![p] = "sizes"]
    BY <1>2 DEF Populate, Goto
  <2>2. \A s \in Seats : seat'[s] = Absent \/ s = 0
    BY <1>0, <2>1 DEF NoSeat, FileTypes
  <2>3. FileSeats'
    BY <1>0, <2>2 DEF FileSeats, NoSeat, Seats
  <2>4. SeatsOf(p)'
    BY <1>0, <2>1 DEF SeatsOf, SetUp, LoopTypes
  <2> QED
    BY <1>0, <2>1, <2>3, <2>4, OwnerSeats DEF LoopTypes
<1> QED
  BY <1>1, <1>2

LEMMA SizesSeats ==
    ASSUME TypeOK, LockHeld, CleanIsLocal, SeatInv, NEW p \in Procs, SetupSizes(p)
    PROVE  SeatInv'
<1>1. CASE Absent \in {setting["ROWS"], setting["COLUMNS"]}
  BY <1>1, EndsSeats DEF SetupSizes
<1>2. CASE Absent \notin {setting["ROWS"], setting["COLUMNS"]}
  <2>1. /\ pc[p] = "sizes" /\ pc' = [pc EXCEPT ![p] = "seats"] /\ clean' = clean
        /\ UNCHANGED files /\ SeatsOf(p) /\ LoopTypes
    BY <1>2 DEF SetupSizes, Goto, SeatInv, TypeOK
  <2>2. FileSeats'
    BY <2>1, FileSeatsFrame DEF SeatInv
  <2>3. SeatsOf(p)'
    BY <2>1 DEF SeatsOf, SetUp, CleanIsLocal, LoopTypes, files
  <2> QED
    BY <2>1, <2>2, <2>3, OwnerSeats DEF LoopTypes
<1> QED
  BY <1>1, <1>2

LEMMA SeatSeats ==
    ASSUME TypeOK, LockHeld, FilesHave, SeatInv, NEW p \in Procs, SetupSeat(p)
    PROVE  SeatInv'
<1>0. /\ FileSeats /\ SeatsOf(p) /\ LoopTypes /\ FileTypes /\ pc[p] = "seats"
      /\ at[p] \in Nat /\ size[p] \in Nat /\ at[p] <= size[p] /\ created
      /\ \A s \in Seats : s < at[p] => seat[s] # Absent
  BY SizeAssumption DEF SeatInv, SeatsOf, TypeOK, LoopTypes, SetupSeat, SetUp, FilesHave, FileHas
<1>1. size' = size /\ created' = created
  BY DEF SetupSeat
<1>2. CASE at[p] < size[p]
  <2>1. /\ seat' = [seat EXCEPT ![at[p]] = IF @ = Absent THEN 0 ELSE @]
        /\ clean' = [clean EXCEPT ![p] = @ \/ seat[at[p]] = Absent]
        /\ at' = [at EXCEPT ![p] = @ + 1] /\ pc' = pc
    BY <1>2 DEF SetupSeat
  <2>2. at[p] \in Seats
    BY <1>0, <1>2, SizeAssumption DEF LoopTypes, Seats
  <2>3. \A s \in Seats : seat'[s] = IF s = at[p] /\ seat[s] = Absent THEN 0 ELSE seat[s]
    BY <1>0, <2>1 DEF FileTypes
  <2>4. at'[p] = at[p] + 1
    BY <1>0, <2>1 DEF LoopTypes
  <2>5. FileSeats'
    BY <1>0, <1>1, <2>3 DEF FileSeats, NoSeat, Absent, Seats
  <2>6. clean'[p] => \A s \in Seats : seat'[s] # Absent => s < at'[p]
    <3>1. CASE clean[p]
      BY <1>0, <2>3, <2>4, <3>1 DEF SeatsOf, Seats
    <3>2. CASE seat[at[p]] = Absent
      <4>1. \A s \in Seats : seat[s] # Absent => s < at[p]
        BY <1>0, <2>2, <3>2 DEF FileSeats, Seats
      <4> QED
        BY <1>0, <2>3, <2>4, <4>1 DEF Seats
    <3>3. CASE ~clean[p] /\ seat[at[p]] # Absent
      <4>1. ~clean'[p]
        BY <1>0, <2>1, <3>3 DEF LoopTypes
      <4> QED
        BY <4>1
    <3> QED
      BY <3>1, <3>2, <3>3
  <2>7. SeatsOf(p)'
    BY <1>0, <1>1, <2>1, <2>6 DEF SeatsOf, SetUp
  <2> QED
    BY <1>0, <2>1, <2>5, <2>7, OwnerSeats
<1>3. CASE ~(at[p] < size[p])
  <2>1. /\ seat' = seat /\ at' = [at EXCEPT ![p] = 0]
        /\ pc' = [pc EXCEPT ![p] = IF clean[p] THEN "setup_clean" ELSE "set_pid"]
    BY <1>3 DEF SetupSeat, Goto
  <2>2. FileSeats'
    BY <1>0, <1>1, <2>1 DEF FileSeats, NoSeat
  <2>3. clean[p] => \A s \in Seats : seat[s] # Absent => s < size[p]
    BY <1>0, <1>3 DEF SeatsOf, Seats
  <2>4. pc'[p] \in {"setup_clean", "set_pid"} /\ (pc'[p] = "setup_clean" => clean[p]) /\ at'[p] = 0
    BY <1>0, <2>1 DEF LoopTypes
  <2>5. SeatsOf(p)'
    BY <1>0, <1>1, <2>1, <2>3, <2>4 DEF SeatsOf, SetUp, Seats
  <2> QED
    BY <1>0, <2>1, <2>2, <2>5, OwnerSeats DEF LoopTypes
<1> QED
  BY <1>2, <1>3

LEMMA CleanSeats ==
    ASSUME TypeOK, LockHeld, FilesHave, SeatInv, NEW p \in Procs, Clean(p)
    PROVE  SeatInv'
<1>0. /\ FileSeats /\ SeatsOf(p) /\ LoopTypes /\ FileTypes
      /\ pc[p] \in {"setup_clean", "serving_clean"}
      /\ at[p] \in Nat /\ size[p] \in Nat /\ created
      /\ \A s \in Seats : s < size[p] => seat[s] # Absent
  BY SizeAssumption DEF SeatInv, SeatsOf, TypeOK, LoopTypes, Clean, SetUp, FilesHave, FileHas,
     SetupLabels, PidLabels
<1>1. size' = size /\ created' = created
  BY DEF Clean
<1>2. CASE at[p] < size[p]
  <2>1. /\ seat' = [seat EXCEPT ![at[p]] = 0] /\ at' = [at EXCEPT ![p] = @ + 1] /\ pc' = pc
    BY <1>2 DEF Clean
  <2>2. \A s \in Seats : seat'[s] = IF s = at[p] THEN 0 ELSE seat[s]
    BY <1>0, <2>1 DEF FileTypes
  <2>3. \A s \in Seats : seat'[s] # Absent <=> seat[s] # Absent
    BY <1>0, <1>2, <2>2 DEF Absent
  <2>4. FileSeats'
    BY <1>0, <1>1, <2>3 DEF FileSeats, NoSeat
  <2>5. pc[p] = "setup_clean" => \A s \in Seats : s < at'[p] => seat'[s] <= 0
    BY <1>0, <2>1, <2>2 DEF SeatsOf, LoopTypes, Seats
  <2>6. SeatsOf(p)'
    BY <1>0, <1>1, <2>1, <2>3, <2>5 DEF SeatsOf, SetUp
  <2> QED
    BY <1>0, <2>1, <2>4, <2>6, OwnerSeats
<1>3. CASE ~(at[p] < size[p])
  <2>1. /\ seat' = seat
        /\ pc' = [pc EXCEPT ![p] = IF pc[p] = "setup_clean" THEN "set_pid" ELSE "serving"]
    BY <1>3 DEF Clean, Goto
  <2>2. FileSeats'
    BY <1>0, <1>1, <2>1 DEF FileSeats, NoSeat
  <2>3. SeatsOf(p)'
    BY <1>0, <1>1, <2>1 DEF SeatsOf, SetUp, LoopTypes
  <2> QED
    BY <1>0, <2>1, <2>2, <2>3, OwnerSeats DEF LoopTypes
<1> QED
  BY <1>2, <1>3

LEMMA SetPidSeats ==
    ASSUME TypeOK, LockHeld, SeatInv, NEW p \in Procs, SetPid(p) \/ SetTimestamp(p)
    PROVE  SeatInv'
<1>0. FileSeats /\ SeatsOf(p) /\ LoopTypes /\ pc[p] \in {"set_pid", "set_timestamp"}
  BY DEF SeatInv, TypeOK, SetPid, SetTimestamp
<1>1. seat' = seat /\ created' = created
  BY DEF SetPid, SetTimestamp
<1>2. /\ pc'[p] \in {"set_timestamp", "sockets"}
      /\ \A q \in Procs : q # p => pc'[q] = pc[q]
  BY <1>0 DEF SetPid, SetTimestamp, Goto, LoopTypes
<1>3. FileSeats'
  BY <1>0, <1>1 DEF FileSeats, NoSeat
<1>4. SeatsOf(p)'
  BY <1>0, <1>1, <1>2 DEF SeatsOf, SetUp
<1> QED
  BY <1>0, <1>2, <1>3, <1>4, OwnerSeats

LEMMA MainSeats ==
    ASSUME TypeOK, LockHeld, FilesHave, CleanIsLocal, SeatInv, NEW p \in Procs, Main(p)
    PROVE  SeatInv'
<1>1. CASE SignalBlockAll(p)
  BY <1>1, EarlySeats DEF SignalBlockAll, Goto, SetUp
<1>2. CASE SetupConnections(p)
  <2>1. CASE Ends(p)
    BY <2>1, EndsSeats
  <2>2. CASE ~Ends(p)
    <3>1. /\ UNCHANGED <<files, loops>> /\ pc[p] = "sockets" /\ pc' = [pc EXCEPT ![p] = "serving"]
      BY <1>2, <2>2 DEF SetupConnections, Goto
    <3>2. FileSeats'
      BY <3>1, FileSeatsFrame DEF SeatInv
    <3>3. SeatsOf(p)'
      BY <3>1 DEF SeatInv, SeatsOf, SetUp, files, loops, TypeOK, LoopTypes
    <3> QED
      BY <3>1, <3>2, <3>3, OwnerSeats DEF TypeOK, LoopTypes, loops
  <2> QED
    BY <2>1, <2>2
<1>3. CASE Shutdown(p)
  BY <1>3, EndsSeats DEF Shutdown
<1> QED
  BY <1>1, <1>2, <1>3, ConnectSeats, PopulateSeats, SizesSeats, SeatSeats, CleanSeats, SetPidSeats
     DEF Main

-----------------------------------------------------------------------------
(* A request adds no seat to the file; it gives or frees one that is there. *)
LEMMA BookSeats ==
    ASSUME TypeOK, LockHeld, SeatInv, NEW p \in Procs, Serving(p),
           \A s \in Seats : seat'[s] # Absent <=> seat[s] # Absent,
           UNCHANGED <<created, pc, loops>>
    PROVE  SeatInv'
<1>0. /\ FileSeats /\ SeatsOf(p) /\ pc[p] \in {"serving", "serving_clean"}
      /\ UNCHANGED <<at, clean, size>>
  BY DEF SeatInv, Serving, loops
<1>1. created
  BY <1>0 DEF SeatsOf, SetUp
<1>2. FileSeats'
  BY <1>0, <1>1 DEF FileSeats
<1>3. SeatsOf(p)'
  BY <1>0, <1>1 DEF SeatsOf, SetUp
<1> QED
  BY <1>0, <1>2, <1>3, OwnerSeats

LEMMA RequestSeats ==
    ASSUME TypeOK, LockHeld, FilesHave, SeatInv, NEW p \in Procs, Requests(p)
    PROVE  SeatInv'
<1>0. FileSeats /\ SeatsOf(p) /\ LoopTypes /\ FileTypes
  BY DEF SeatInv, TypeOK
<1>1. CASE Issue(p)
  <2>1. CASE Ends(p)
    BY <2>1, EndsSeats
  <2>2. CASE ~Ends(p)
    BY <1>0, <1>1, <2>2, BookSeats DEF Issue, Put, FileTypes, Settings
  <2> QED
    BY <2>1, <2>2
<1>2. CASE Store(p) \/ Unbook(p)
  <2>1. PICK x \in Seats, c \in Nat : seat[x] # Absent /\ seat' = [seat EXCEPT ![x] = c]
    BY <1>2 DEF Store, Unbook, TypeOK, ProcessTypes, Absent
  <2>2. \A s \in Seats : seat'[s] # Absent <=> seat[s] # Absent
    BY <1>0, <2>1 DEF FileTypes, Absent
  <2> QED
    BY <1>2, <2>2, BookSeats DEF Store, Unbook
<1>3. CASE CleanBegins(p)
  <2>1. /\ UNCHANGED files /\ clean' = clean /\ size' = size /\ pc[p] = "serving"
        /\ at' = [at EXCEPT ![p] = 0] /\ pc' = [pc EXCEPT ![p] = "serving_clean"]
    BY <1>3 DEF CleanBegins, Goto
  <2>2. FileSeats'
    BY <1>0, <2>1, FileSeatsFrame
  <2>3. SeatsOf(p)'
    BY <1>0, <2>1 DEF SeatsOf, SetUp, files, LoopTypes, Seats
  <2> QED
    BY <1>0, <2>1, <2>2, <2>3, OwnerSeats DEF LoopTypes
<1>4. CASE Resize(p)
  BY <1>4, BookSeats DEF Resize
<1> QED
  BY <1>1, <1>2, <1>3, <1>4 DEF Requests

LEMMA NextSeats == TypeOK /\ LockHeld /\ FilesHave /\ CleanIsLocal /\ SeatInv /\ Next => SeatInv'
<1> SUFFICES ASSUME TypeOK, LockHeld, FilesHave, CleanIsLocal, SeatInv, Next PROVE SeatInv'
  OBVIOUS
<1>1. ASSUME NEW p \in Procs, Start(p) PROVE SeatInv'
  BY <1>1, EarlySeats DEF Start, Goto, Unblocked, SetUp
<1>2. ASSUME NEW p \in Procs, Original(p) PROVE SeatInv'
  <2>1. pc' = pc /\ UNCHANGED <<files, loops>>
    BY <1>2 DEF Original, StarterCloses, StarterReads
  <2> QED
    BY <2>1, EarlySeats DEF Unblocked
<1>3. ASSUME NEW p \in Procs, SysvDaemon(p) PROVE SeatInv'
  <2>1. CASE Ends(p)
    BY <2>1, EndsSeats
  <2>2. CASE ~Ends(p)
    <3>1. UNCHANGED <<files, loops>> /\ pc[p] \notin SetUp
      BY <1>3, <2>2 DEF SysvDaemon, SecondFork, OpenPidFile, LockPidFile, WritePid, DropPrivileges,
         Notify, ClosePipe, SetUp
    <3>2. PICK l \in Unblocked : pc' = [pc EXCEPT ![p] = l]
      BY <1>3, <2>2 DEF SysvDaemon, SecondFork, OpenPidFile, LockPidFile, WritePid, DropPrivileges,
         Notify, ClosePipe, Goto, Unblocked
    <3> QED
      BY <3>1, <3>2, EarlySeats
  <2> QED
    BY <2>1, <2>2
<1>4. ASSUME Cinemactl PROVE SeatInv'
  <2>1. CASE StopKills /\ asked \in Procs
    BY <2>1, TerminateSeats DEF StopKills
  <2>2. CASE ~(StopKills /\ asked \in Procs)
    <3>1. pc' = pc /\ UNCHANGED <<files, loops>>
      BY <1>4, <2>2 DEF Cinemactl, StopKills, AsksPid, StatusTest, StatusTime, QueryFails, CtlGoes
    <3> QED
      BY <3>1, FileSeatsFrame, SeatsFrame DEF SeatInv, loops
  <2> QED
    BY <2>1, <2>2
<1>5. ASSUME Over PROVE SeatInv'
  BY <1>5, FileSeatsFrame, SeatsFrame DEF Over, vars, SeatInv, loops
<1>6. ASSUME NEW p \in Procs, Crash(p) \/ Kill(p) PROVE SeatInv'
  BY <1>6, EndsSeats, TerminateSeats DEF Crash, Kill
<1> QED
  BY <1>1, <1>2, <1>3, <1>4, <1>5, <1>6, MainSeats, RequestSeats DEF Next, CalmNext, Process

LEMMA CleanInvariant == Spec => []CleanIsLocal
<1>1. Init => CleanIsLocal
  BY DEF Init, CleanIsLocal
<1>2. IInv /\ CleanIsLocal /\ [Next]_vars => CleanIsLocal'
  <2>1. UNCHANGED vars /\ CleanIsLocal => CleanIsLocal'
    BY DEF vars, loops, CleanIsLocal
  <2> QED
    BY <2>1, NextCleanIsLocal DEF IInv
<1> QED
  BY <1>1, <1>2, Invariant, PTL DEF Spec

LEMMA SeatInvariant == Spec => [](IInv /\ SeatInv)
<1>1. IInv /\ CleanIsLocal /\ SeatInv /\ [Next]_vars => SeatInv'
  <2>1. UNCHANGED vars /\ SeatInv => SeatInv'
    BY FileSeatsFrame, SeatsFrame DEF vars, SeatInv, loops
  <2> QED
    BY <2>1, NextSeats DEF IInv
<1> QED
  BY <1>1, InitSeatInv, Invariant, CleanInvariant, PTL DEF Spec

-----------------------------------------------------------------------------
(* However many daemons are started, and wherever one of them dies, in     *)
(* POPULATE, in SETUP, between a code and its seats or in CLEAN, and also  *)
(* when the hall was made larger and smaller again: a start lets the codes *)
(* begin again only when no seat has one (database.c:160, 202-205,         *)
(* 227-237).                                                               *)
THEOREM CodesAlwaysStartAfresh == Spec => CodesStartAfresh
<1>1. ASSUME IInv, SeatInv, [Next]_vars, setting'["ID_COUNTER"] # setting["ID_COUNTER"],
             \A p \in Procs : ~Serving(p), NEW s \in Seats
      PROVE  seat[s] <= 0
  <2>0. FileTypes /\ LoopTypes /\ setting' # setting
    BY <1>1 DEF IInv, TypeOK
  <2>1. PICK p \in Procs : Populate(p) \/ Clean(p)
    <3>1. ASSUME NEW p \in Procs, Main(p), ~Populate(p), ~Clean(p) PROVE FALSE
      BY <1>1, <2>0, <3>1 DEF Main, SignalBlockAll, ConnectDatabase, SetupSizes, SetupSeat, SetPid,
         SetTimestamp, SetupConnections, Shutdown, Ends, Put, FileTypes, Settings, files
    <3>2. ASSUME NEW p \in Procs, Requests(p) PROVE FALSE
      BY <1>1, <3>2 DEF Requests, Issue, Store, Unbook, CleanBegins, Resize, Serving
    <3>3. ASSUME NEW p \in Procs, Start(p) \/ Original(p) \/ SysvDaemon(p) \/ Crash(p) \/ Kill(p)
          PROVE  FALSE
      BY <2>0, <3>3 DEF Start, Original, StarterCloses, StarterReads, SysvDaemon, SecondFork,
         OpenPidFile, LockPidFile, WritePid, DropPrivileges, Notify, ClosePipe, Crash, Kill, Terminate,
         Ends, files
    <3>4. ASSUME Cinemactl \/ Over \/ UNCHANGED vars PROVE FALSE
      BY <2>0, <3>4 DEF Cinemactl, StopKills, AsksPid, StatusTest, StatusTime, QueryFails, CtlGoes,
         Terminate, Ends, Over, vars, files
    <3> QED
      BY <1>1, <3>1, <3>2, <3>3, <3>4 DEF Next, CalmNext, Process
  <2>2. SeatsOf(p)
    BY <1>1 DEF SeatInv
  <2>3. CASE Populate(p)
    BY <2>2, <2>3 DEF Populate, SeatsOf, NoSeat, Absent
  <2>4. CASE Clean(p)
    <3>1. pc[p] = "setup_clean"
      BY <1>1, <2>4 DEF Clean, Serving
    <3>2. ~(at[p] < size[p])
      BY <2>0, <2>4 DEF Clean
    <3>3. at[p] \in Nat /\ size[p] \in Nat
      BY <2>0, SizeAssumption DEF LoopTypes
    <3>4. seat[s] # Absent => s < at[p]
      BY <2>2, <3>1, <3>2, <3>3 DEF SeatsOf, SetUp, Seats
    <3> QED
      BY <2>2, <3>1, <3>4 DEF SeatsOf, Absent
  <2> QED
    BY <2>1, <2>3, <2>4
<1>2. IInv /\ SeatInv /\ [Next]_vars =>
        [setting'["ID_COUNTER"] # setting["ID_COUNTER"] /\ ~(\E p \in Procs : Serving(p)) =>
            \A s \in Seats : seat[s] <= 0]_vars
  BY <1>1
<1>3. Spec => [](IInv /\ SeatInv)
  BY SeatInvariant
<1> QED
  BY <1>2, <1>3, PTL DEF Spec, CodesStartAfresh

-----------------------------------------------------------------------------
(* Bookings across a start, of a hall of any size, and also of one that    *)
(* was made smaller.                                                       *)

(* The file has each seat of its hall. *)
AllSeats ==
    /\ Absent \notin {setting["ROWS"], setting["COLUMNS"]}
    /\ \A s \in Seats : s < Hall => seat[s] # Absent

(* Daemon p, which found each seat of the hall, has kept code c on seat s, *)
(* and has found no seat missing so far.                                   *)
Keeps(p, s, c) ==
    \/ /\ pc[p] \in {"connect", "sizes"} /\ created /\ AllSeats /\ seat[s] = c
    \/ /\ pc[p] = "seats" /\ ~clean[p] /\ seat[s] = c
       /\ \A r \in Seats : r < size[p] => seat[r] # Absent
    \/ pc[p] \in {"set_pid", "set_timestamp", "sockets"} /\ seat[s] = c
    \/ pc[p] \in {"serving", "serving_clean", "dead"}


(* While p has the file, only p itself moves on and changes it.            *)
LEMMA OwnerMoves ==
    ASSUME IInv, Next, NEW p \in Procs, pc[p] \in Starting
    PROVE  \/ Main(p)
           \/ pc'[p] = "dead"
           \/ UNCHANGED files /\ pc'[p] = pc[p] /\ clean'[p] = clean[p] /\ size'[p] = size[p]
<1>0. /\ LoopTypes /\ pc[p] \notin Unblocked \cup {"new", "dead", "serving", "serving_clean"}
  BY DEF IInv, TypeOK, Starting, Unblocked
<1>1. \A q \in Procs : q # p => pc[q] \in {"new", "fork", "open_pid", "lock_pid", "dead"}
  BY <1>0 DEF IInv, LockHeld, Unblocked
<1>2. ASSUME NEW q \in Procs, Ends(q)
      PROVE  \/ pc'[p] = "dead"
             \/ UNCHANGED files /\ pc'[p] = pc[p] /\ clean'[p] = clean[p] /\ size'[p] = size[p]
  BY <1>0, <1>2 DEF Ends, Goto, LoopTypes
<1>3. ASSUME NEW q \in Procs, Terminate(q)
      PROVE  \/ pc'[p] = "dead"
             \/ UNCHANGED files /\ pc'[p] = pc[p] /\ clean'[p] = clean[p] /\ size'[p] = size[p]
  BY <1>2, <1>3 DEF Terminate, loops
<1>4. ASSUME NEW q \in Procs, Start(q) \/ Original(q) \/ SysvDaemon(q), ~Ends(q)
      PROVE  UNCHANGED files /\ pc'[p] = pc[p] /\ clean'[p] = clean[p] /\ size'[p] = size[p]
  BY <1>0, <1>4 DEF Start, Original, StarterCloses, StarterReads, SysvDaemon, SecondFork,
     OpenPidFile, LockPidFile, WritePid, DropPrivileges, Notify, ClosePipe, Goto, LoopTypes, loops,
     Unblocked
<1>5. ASSUME NEW q \in Procs, Main(q) \/ Requests(q) PROVE q = p /\ Main(q)
  BY <1>0, <1>1, <1>5 DEF Main, SignalBlockAll, ConnectDatabase, Populate, SetupSizes, SetupSeat,
     Clean, SetPid, SetTimestamp, SetupConnections, Shutdown, Requests, Issue, Store, Unbook,
     CleanBegins, Resize, Serving
<1>6. ASSUME Cinemactl
      PROVE  \/ pc'[p] = "dead"
             \/ UNCHANGED files /\ pc'[p] = pc[p] /\ clean'[p] = clean[p] /\ size'[p] = size[p]
  BY <1>3, <1>6 DEF Cinemactl, StopKills, AsksPid, StatusTest, StatusTime, QueryFails, CtlGoes, loops
<1>7. ASSUME Over
      PROVE  UNCHANGED files /\ pc'[p] = pc[p] /\ clean'[p] = clean[p] /\ size'[p] = size[p]
  BY <1>7 DEF Over, vars, loops
<1> QED
  BY <1>2, <1>3, <1>4, <1>5, <1>6, <1>7 DEF Next, CalmNext, Process, Crash, Kill

(* What a start that found each seat has kept it keeps.                    *)
LEMMA NextKeeps ==
    ASSUME IInv, CleanIsLocal, [Next]_vars, NEW p \in Procs, NEW s \in Seats, NEW c \in Nat,
           Keeps(p, s, c)
    PROVE  Keeps(p, s, c)'
<1>0. LoopTypes /\ FileTypes
  BY DEF IInv, TypeOK
<1>1. CASE UNCHANGED <<files, pc, clean, size>>
  BY <1>1 DEF Keeps, AllSeats, Hall, files
<1>2. CASE Next /\ pc[p] \in {"serving", "serving_clean", "dead"}
  BY <1>2, ServedStays DEF IInv, Served, Keeps
<1>3. CASE Next /\ pc[p] \in Starting
  <2>1. CASE pc'[p] = "dead"
    BY <2>1 DEF Keeps
  <2>2. CASE UNCHANGED files /\ pc'[p] = pc[p] /\ clean'[p] = clean[p] /\ size'[p] = size[p]
    BY <2>2 DEF Keeps, AllSeats, Hall, files
  <2>3. CASE Main(p) /\ pc'[p] # "dead"
    <3>0. ~Ends(p)
      BY <1>0, <2>3 DEF Ends, Goto, LoopTypes
    <3>1. CASE ConnectDatabase(p)
      BY <1>0, <3>1 DEF ConnectDatabase, Goto, Keeps, AllSeats, Hall, LoopTypes
    <3>2. CASE SetupSizes(p)
      <4>1. /\ pc'[p] = "seats" /\ size'[p] = Hall /\ clean' = clean /\ UNCHANGED files
            /\ pc[p] = "sizes"
        BY <1>0, <3>0, <3>2, HallSize DEF SetupSizes, Goto, LoopTypes
      <4> QED
        BY <4>1 DEF CleanIsLocal, SetUp, Keeps, AllSeats, files
    <3>3. CASE SetupSeat(p)
      <4>1. /\ pc[p] = "seats" /\ ~clean[p] /\ seat[s] = c
            /\ \A r \in Seats : r < size[p] => seat[r] # Absent
        BY <3>3 DEF SetupSeat, Keeps
      <4>2. CASE at[p] < size[p]
        <5>1. at[p] \in Seats /\ seat[at[p]] # Absent
          BY <1>0, <4>1, <4>2, SizeAssumption DEF LoopTypes, Seats
        <5>2. seat' = seat /\ pc' = pc /\ size' = size
          BY <1>0, <3>3, <4>2, <5>1 DEF SetupSeat, FileTypes
        <5>3. clean'[p] = (clean[p] \/ seat[at[p]] = Absent)
          BY <1>0, <3>3, <4>2, Zenon DEF SetupSeat, LoopTypes
        <5> QED
          BY <4>1, <5>1, <5>2, <5>3 DEF Keeps
      <4>3. CASE ~(at[p] < size[p])
        BY <1>0, <3>3, <4>1, <4>3 DEF SetupSeat, Goto, LoopTypes, Keeps
      <4> QED
        BY <4>2, <4>3
    <3>4. CASE SetPid(p) \/ SetTimestamp(p) \/ SetupConnections(p)
      BY <1>0, <3>0, <3>4 DEF SetPid, SetTimestamp, SetupConnections, Goto, LoopTypes, Keeps, files
    <3>5. CASE SignalBlockAll(p) \/ Populate(p) \/ Clean(p) \/ Shutdown(p)
      BY <1>3, <3>5 DEF SignalBlockAll, Populate, Clean, Shutdown, Keeps, Starting
    <3> QED
      BY <2>3, <3>1, <3>2, <3>3, <3>4, <3>5 DEF Main
  <2> QED
    BY <1>3, <2>1, <2>2, <2>3, OwnerMoves
<1> QED
  BY <1>1, <1>2, <1>3 DEF vars, loops, Keeps, Starting

(* A start that finds all seats of the hall in the file, of any size and   *)
(* after any deaths, has each booking still when it comes to serve, and at *)
(* each step before (database.c:185-205).                                  *)
THEOREM StartsKeepBookings == Spec => RestartKeepsBookings
<1>1. Spec => []CleanIsLocal
  BY CleanInvariant
<1>2. ASSUME NEW p \in Procs, NEW s \in Seats, NEW c \in 1 .. MaxCode
      PROVE  Spec => [](FindsAllSeats(p) /\ seat[s] = c => [](pc[p] \in Starting => seat[s] = c))
  <2>1. FindsAllSeats(p) /\ seat[s] = c => Keeps(p, s, c)
    BY DEF FindsAllSeats, Keeps, AllSeats
  <2>2. IInv /\ CleanIsLocal /\ Keeps(p, s, c) /\ [Next]_vars => Keeps(p, s, c)'
    BY NextKeeps
  <2>3. Keeps(p, s, c) => (pc[p] \in Starting => seat[s] = c)
    BY DEF Keeps, Starting
  <2> QED
    BY <1>1, <2>1, <2>2, <2>3, Invariant, PTL DEF Spec
<1> QED
  BY <1>2 DEF RestartKeepsBookings

=============================================================================
