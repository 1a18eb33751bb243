----------------------------- MODULE SST_proofs -----------------------------
(***************************************************************************)
(* Proofs about wsrep_sst_mariabackup, for every number of attempts and    *)
(* crashes, every set of files and every choice of faults: the variables   *)
(* have their types and the port of the joiner one listener, and the gtid  *)
(* stage is over for the scripts that go on from it.                       *)
(***************************************************************************)
EXTENDS SST, FiniteSetTheorems, TLAPS

(***************************************************************************)
(* The inductive invariant.                                                *)
(***************************************************************************)
ServerTypes ==
  att \in 0..MaxAttempts /\ up \in BOOLEAN /\ crashes \in 0..MaxCrashes

JoinerTypes ==
  /\ jpc \in [Attempts -> JoinerStates]
  /\ ready \subseteq Attempts
  /\ coords \in [Attempts -> States]

NetTypes ==
  /\ sock \in [Attempts -> [Stages -> SocketStates]]
  /\ src \in [Attempts -> [Stages -> (0..MaxAttempts) \X Stages]]

DirTypes ==
  /\ stat \in [Attempts -> SUBSET StatItems]
  /\ cwd \in [Attempts -> 0..MaxAttempts]

DiskTypes ==
  /\ pidfile \in {0} \union Attempts /\ sst \in 0..MaxAttempts
  /\ backup \in [BackupItems -> 0..MaxAttempts]
  /\ data \in [DataFiles -> States]
  /\ left \in [Attempts -> SUBSET (DataFiles \union {"pid"})]

DonorTypes ==
  /\ dpc \in [Attempts -> DonorStates]
  /\ bypass \in [Attempts -> BOOLEAN]
  /\ sent \in [Attempts -> SUBSET Files]

Types == ServerTypes /\ JoinerTypes /\ NetTypes /\ DirTypes /\ DiskTypes
         /\ DonorTypes

\* The port has one listener at most.
OneListener == \A q, r \in Listening : q = r

\* What is in a STATDIR came over a connection from some donor, and an .sst
\* that is not there holds nothing.
FromDonor == \A a \in Attempts : stat[a] # {} => src[a]["gtid"][1] \in Attempts
NoSst     == sst = 0 => backup = Empty

\* Scripts start one by one; the gtid stage is over for those that got past
\* it, and those that receive a backup were not given the IST marker.
TakesBackup == {"rmsst", "mksst", "clean", "cleaning", "monitor", "check",
                "prepare", "move", "moving", "finish"}
AfterGtid   == {"parent", "coords"} \union TakesBackup

Stage(a) ==
  /\ a > att => jpc[a] = "none"
  /\ jpc[a] \in AfterGtid => sock[a]["gtid"] \in {"eof", "broken"}
  /\ jpc[a] \in TakesBackup => ~IstSelected(a)

StageInv == \A a \in Attempts : Stage(a)

IInv == Types /\ OneListener /\ FromDonor /\ NoSst /\ StageInv

-----------------------------------------------------------------------------
(***************************************************************************)
(* Types.                                                                  *)
(***************************************************************************)
LEMMA TypesInit == Init => Types
<1> SUFFICES ASSUME Init PROVE Types
  OBVIOUS
<1> USE SSTAssumption DEF Init
<1>1. ServerTypes
  <2>1. att \in 0..MaxAttempts /\ crashes \in 0..MaxCrashes
    OBVIOUS
  <2>2. up \in BOOLEAN
    OBVIOUS
  <2> QED
    BY <2>1, <2>2 DEF ServerTypes
<1>4. JoinerTypes
  BY DEF JoinerTypes, JoinerStates, States, OwnData, NoData
<1>5. DiskTypes
  BY DEF DiskTypes, Empty, States, OwnData, NoData
<1>2. NetTypes /\ DirTypes
  BY DEF NetTypes, DirTypes, SocketStates, Stages, NoStream
<1>3. DonorTypes
  BY DEF DonorTypes, DonorStates
<1> QED
  BY <1>1, <1>2, <1>3, <1>4, <1>5 DEF Types

\* What the helpers of the actions do to the types.
LEMMA GoToTypes ==
  ASSUME JoinerTypes, NEW a \in Attempts, NEW pc \in JoinerStates, GoTo(a, pc)
  PROVE  jpc' \in [Attempts -> JoinerStates]
BY DEF JoinerTypes, GoTo

LEMMA SetSockTypes ==
  ASSUME NetTypes, NEW a \in Attempts, NEW s \in Stages,
         NEW st \in SocketStates, SetSock(a, s, st)
  PROVE  sock' \in [Attempts -> [Stages -> SocketStates]]
BY DEF NetTypes, SetSock

LEMMA DonorGoToTypes ==
  ASSUME DonorTypes, NEW d \in Attempts, NEW pc \in DonorStates,
         DonorGoTo(d, pc)
  PROVE  dpc' \in [Attempts -> DonorStates]
BY DEF DonorTypes, DonorGoTo

LEMMA RemoveInfoTypes ==
  ASSUME DiskTypes, RemoveInfo
  PROVE  data' \in [DataFiles -> States]
BY DEF DiskTypes, RemoveInfo, States

LEMMA ExtractTypes ==
  ASSUME DirTypes, DiskTypes, NEW r \in Attempts \X Stages, NEW d \in Attempts,
         NEW items, Extract(r, d, items), UNCHANGED <<cwd, pidfile, sst, data, left>>
  PROVE  DirTypes' /\ DiskTypes'
<1>1. r[1] \in Attempts /\ d \in 0..MaxAttempts
  BY SSTAssumption DEF Attempts
<1>2. CASE r[2] = "gtid"
  BY <1>1, <1>2 DEF Extract, DirTypes, DiskTypes
<1>3. CASE r[2] # "gtid"
  BY <1>1, <1>3 DEF Extract, DirTypes, DiskTypes
<1> QED
  BY <1>2, <1>3

LEMMA SourceTypes ==
  ASSUME NetTypes, NEW a \in Attempts, NEW s \in Stages
  PROVE  src[a][s][1] \in States
<1>1. src[a][s] \in (0..MaxAttempts) \X Stages
  BY DEF NetTypes
<1>2. src[a][s][1] \in 0..MaxAttempts
  BY <1>1
<1> QED
  BY <1>2, SSTAssumption DEF States, OwnData, Attempts

LEMMA ConnectTypes ==
  ASSUME NetTypes, NEW d \in Attempts, NEW s \in Stages, NEW pc,
         Connect(d, s, pc)
  PROVE  NetTypes'
<1>1. CASE UNCHANGED <<sock, src>>
  BY <1>1 DEF NetTypes
<1>2. CASE Listening # {}
  <2>1. PICK r \in Listening :
          /\ SetSock(r[1], r[2], "open")
          /\ src' = [src EXCEPT ![r[1]][r[2]] = <<d, s>>]
    BY <1>2 DEF Connect
  <2>2. r[1] \in Attempts /\ r[2] \in Stages
    BY <2>1 DEF Listening
  <2>3. sock' \in [Attempts -> [Stages -> SocketStates]]
    BY <2>1, <2>2, SetSockTypes DEF SocketStates
  <2>4. <<d, s>> \in (0..MaxAttempts) \X Stages
    BY SSTAssumption DEF Attempts
  <2>5. src' \in [Attempts -> [Stages -> (0..MaxAttempts) \X Stages]]
    BY <2>1, <2>2, <2>4 DEF NetTypes
  <2> QED
    BY <2>3, <2>5 DEF NetTypes
<1> QED
  BY <1>1, <1>2 DEF Connect

LEMMA DeliverTypes ==
  ASSUME NetTypes, DirTypes, DiskTypes, NEW r \in Attempts \X Stages,
         NEW d \in Attempts, NEW items, Deliver(r, d, items),
         UNCHANGED <<src, cwd, pidfile, sst, data, left>>
  PROVE  NetTypes' /\ DirTypes' /\ DiskTypes'
<1>1. \E st \in SocketStates : SetSock(r[1], r[2], st)
  BY DEF Deliver, SocketStates
<1>2. NetTypes'
  BY <1>1, SetSockTypes DEF NetTypes
<1>3. Extract(r, d, items) \/ UNCHANGED <<stat, backup>>
  BY DEF Deliver
<1> QED
  BY <1>2, <1>3, ExtractTypes DEF DirTypes, DiskTypes

LEMMA FailTypes ==
  ASSUME Types, NEW a \in Attempts, Fail(a)
  PROVE  jpc' \in [Attempts -> JoinerStates] /\ DiskTypes'
<1>1. jpc' \in [Attempts -> JoinerStates]
  BY GoToTypes DEF Types, Fail, JoinerStates, Over
<1>2. data' \in [DataFiles -> States]
  BY RemoveInfoTypes DEF Types, DiskTypes, Fail
<1>3. backup' \in [BackupItems -> 0..MaxAttempts]
  <2>1. 0 \in 0..MaxAttempts
    BY SSTAssumption
  <2>2. CASE MagicIsInSst(a)
    BY <2>1, <2>2 DEF Types, DiskTypes, Fail
  <2>3. CASE ~MagicIsInSst(a)
    BY <2>3 DEF Types, DiskTypes, Fail
  <2> QED
    BY <2>2, <2>3
<1>4. DiskTypes'
  BY <1>2, <1>3 DEF Types, DiskTypes, Fail
<1> QED
  BY <1>1, <1>4

LEMMA RmSstTypes ==
  ASSUME Types, NEW a \in Attempts, NEW next \in JoinerStates, RmSst(a, next)
  PROVE  jpc' \in [Attempts -> JoinerStates] /\ DiskTypes'
<1>1. CASE Fail(a)
  BY <1>1, FailTypes
<1>2. CASE ~Fail(a)
  <2>1. jpc' \in [Attempts -> JoinerStates]
    BY <1>2, GoToTypes DEF Types, RmSst
  <2>2. DiskTypes'
    BY <1>2, SSTAssumption DEF Types, DiskTypes, RmSst, Empty
  <2> QED
    BY <2>1, <2>2
<1> QED
  BY <1>1, <1>2

LEMMA TypesNext == Types /\ [Next]_vars => Types'
<1> SUFFICES ASSUME Types, [Next]_vars PROVE Types'
  OBVIOUS
<1> USE SSTAssumption DEF Types
<1>1. CASE StartServer
  <2>1. ServerTypes'
    BY <1>1 DEF StartServer, ServerTypes
  <2>2. JoinerTypes'
    BY <1>1 DEF StartServer, JoinerTypes, JoinerStates, Attempts, ServerTypes
  <2>3. DiskTypes'
    BY <1>1, RemoveInfoTypes DEF StartServer, DiskTypes
  <2>4. NetTypes' /\ DirTypes' /\ DonorTypes'
    BY <1>1 DEF StartServer, NetTypes, DirTypes, DonorTypes, donorVars,
       netVars
  <2> QED
    BY <2>1, <2>2, <2>3, <2>4
<1>2. CASE Crash
  <2>1. ServerTypes'
    <3>1. att' \in 0..MaxAttempts /\ crashes' \in 0..MaxCrashes
      BY <1>2 DEF Crash, ServerTypes
    <3>2. up' \in BOOLEAN
      BY <1>2 DEF Crash
    <3> QED
      BY <3>1, <3>2 DEF ServerTypes
  <2>2. JoinerTypes' /\ NetTypes' /\ DirTypes' /\ DiskTypes' /\ DonorTypes'
    BY <1>2 DEF Crash, JoinerTypes, NetTypes, DirTypes, DiskTypes, DonorTypes,
       diskVars, donorVars, netVars
  <2> QED
    BY <2>1, <2>2
<1>3. CASE Abort
  <2>1. ServerTypes'
    BY <1>3 DEF Abort, ServerTypes
  <2>2. JoinerTypes' /\ NetTypes' /\ DirTypes' /\ DiskTypes' /\ DonorTypes'
    BY <1>3 DEF Abort, JoinerTypes, NetTypes, DirTypes, DiskTypes, DonorTypes,
       diskVars, donorVars, netVars
  <2> QED
    BY <2>1, <2>2
<1>4. CASE StartDonor
  <2>1. DonorTypes'
    BY <1>4 DEF StartDonor, DonorTypes, DonorStates
  <2>2. ServerTypes' /\ JoinerTypes' /\ NetTypes' /\ DirTypes' /\ DiskTypes'
    BY <1>4 DEF StartDonor, ServerTypes, JoinerTypes, NetTypes, DirTypes,
       DiskTypes, diskVars, netVars, serverVars
  <2> QED
    BY <2>1, <2>2
<1>5. ASSUME NEW a \in Attempts, StopWaiting(a) PROVE Types'
  <2>1. JoinerTypes'
    BY <1>5, GoToTypes DEF StopWaiting, JoinerTypes, JoinerStates, Over
  <2>2. ServerTypes' /\ NetTypes' /\ DirTypes' /\ DiskTypes' /\ DonorTypes'
    BY <1>5 DEF StopWaiting, ServerTypes, NetTypes, DirTypes, DiskTypes,
       DonorTypes, diskVars, donorVars, netVars, serverVars
  <2> QED
    BY <2>1, <2>2
<1>6. ASSUME NEW a \in Attempts, CheckPid(a) PROVE Types'
  <2>1. JoinerTypes'
    BY <1>6, GoToTypes DEF CheckPid, JoinerTypes, JoinerStates, Over
  <2>2. ServerTypes' /\ NetTypes' /\ DirTypes' /\ DiskTypes' /\ DonorTypes'
    BY <1>6 DEF CheckPid, ServerTypes, NetTypes, DirTypes, DiskTypes,
       DonorTypes, diskVars, donorVars, netVars, serverVars
  <2> QED
    BY <2>1, <2>2
<1>7. ASSUME NEW a \in Attempts, WritePid(a) PROVE Types'
  <2>1. JoinerTypes'
    BY <1>7, GoToTypes DEF WritePid, JoinerTypes, JoinerStates, Over
  <2>2. DiskTypes'
    BY <1>7, RemoveInfoTypes DEF WritePid, DiskTypes
  <2>3. ServerTypes' /\ NetTypes' /\ DirTypes' /\ DonorTypes'
    BY <1>7 DEF WritePid, ServerTypes, NetTypes, DirTypes, DonorTypes,
       donorVars, netVars, serverVars
  <2> QED
    BY <2>1, <2>2, <2>3
<1>8. ASSUME NEW a \in Attempts, BindGtid(a) PROVE Types'
  <2>1. JoinerTypes'
    BY <1>8, GoToTypes, FailTypes DEF BindGtid, JoinerTypes, JoinerStates,
       Over
  <2>2. NetTypes'
    BY <1>8, SetSockTypes DEF BindGtid, NetTypes, SocketStates, Stages
  <2>3. DirTypes'
    BY <1>8 DEF BindGtid, DirTypes, netVars
  <2>4. DiskTypes'
    BY <1>8, FailTypes DEF BindGtid, diskVars, DiskTypes
  <2>5. ServerTypes' /\ DonorTypes'
    BY <1>8 DEF BindGtid, ServerTypes, DonorTypes, donorVars, serverVars
  <2> QED
    BY <2>1, <2>2, <2>3, <2>4, <2>5
<1>9. ASSUME NEW a \in Attempts, GtidReceived(a) PROVE Types'
  <2>1. JoinerTypes'
    BY <1>9, GoToTypes, FailTypes DEF GtidReceived, JoinerTypes, JoinerStates,
       Over
  <2>2. DirTypes'
    BY <1>9 DEF GtidReceived, DirTypes, netVars
  <2>3. DiskTypes'
    BY <1>9, FailTypes DEF GtidReceived, diskVars, DiskTypes
  <2>4. ServerTypes' /\ NetTypes' /\ DonorTypes'
    BY <1>9 DEF GtidReceived, ServerTypes, NetTypes, DonorTypes, donorVars,
       netVars, serverVars
  <2> QED
    BY <2>1, <2>2, <2>3, <2>4
<1>10. ASSUME NEW a \in Attempts, CheckParent(a) PROVE Types'
  <2>1. JoinerTypes'
    BY <1>10, GoToTypes, FailTypes DEF CheckParent, JoinerTypes, JoinerStates,
       Over
  <2>2. DirTypes'
    BY <1>10 DEF CheckParent, DirTypes, netVars
  <2>3. DiskTypes'
    BY <1>10, FailTypes DEF CheckParent, diskVars, DiskTypes
  <2>4. ServerTypes' /\ NetTypes' /\ DonorTypes'
    BY <1>10 DEF CheckParent, ServerTypes, NetTypes, DonorTypes, donorVars,
       netVars, serverVars
  <2> QED
    BY <2>1, <2>2, <2>3, <2>4
<1>11. ASSUME NEW a \in Attempts, Monitor(a) PROVE Types'
  <2>1. JoinerTypes'
    BY <1>11, GoToTypes, FailTypes DEF Monitor, JoinerTypes, JoinerStates,
       Over
  <2>2. DirTypes'
    BY <1>11 DEF Monitor, DirTypes, netVars
  <2>3. DiskTypes'
    BY <1>11, FailTypes DEF Monitor, diskVars, DiskTypes
  <2>4. ServerTypes' /\ NetTypes' /\ DonorTypes'
    BY <1>11 DEF Monitor, ServerTypes, NetTypes, DonorTypes, donorVars,
       netVars, serverVars
  <2> QED
    BY <2>1, <2>2, <2>3, <2>4
<1>12. ASSUME NEW a \in Attempts, CheckBackup(a) PROVE Types'
  <2>1. JoinerTypes'
    BY <1>12, GoToTypes, FailTypes DEF CheckBackup, JoinerTypes, JoinerStates,
       Over
  <2>2. DirTypes'
    BY <1>12 DEF CheckBackup, DirTypes, netVars
  <2>3. DiskTypes'
    BY <1>12, FailTypes DEF CheckBackup, diskVars, DiskTypes
  <2>4. ServerTypes' /\ NetTypes' /\ DonorTypes'
    BY <1>12 DEF CheckBackup, ServerTypes, NetTypes, DonorTypes, donorVars,
       netVars, serverVars
  <2> QED
    BY <2>1, <2>2, <2>3, <2>4
<1>13. ASSUME NEW a \in Attempts, NEW next \in JoinerStates, RmSst(a, next)
       PROVE  Types'
  <2>1. jpc' \in [Attempts -> JoinerStates] /\ DiskTypes'
    BY <1>13, RmSstTypes
  <2>2. JoinerTypes'
    BY <1>13, <2>1 DEF RmSst, JoinerTypes
  <2>3. ServerTypes' /\ NetTypes' /\ DirTypes' /\ DonorTypes'
    BY <1>13 DEF RmSst, ServerTypes, NetTypes, DirTypes, DonorTypes, donorVars,
       netVars, serverVars
  <2> QED
    BY <2>1, <2>2, <2>3
<1>14. ASSUME NEW a \in Attempts, MakeSst(a) PROVE Types'
  <2>1. JoinerTypes'
    BY <1>14, GoToTypes DEF MakeSst, JoinerTypes, JoinerStates
  <2>2. NetTypes'
    BY <1>14, SetSockTypes DEF MakeSst, NetTypes, SocketStates, Stages
  <2>3. DiskTypes'
    BY <1>14 DEF MakeSst, DiskTypes, Attempts
  <2>4. ServerTypes' /\ DirTypes' /\ DonorTypes'
    BY <1>14 DEF MakeSst, ServerTypes, DirTypes, DonorTypes, donorVars, serverVars
  <2> QED
    BY <2>1, <2>2, <2>3, <2>4
<1>15. ASSUME NEW a \in Attempts, Prepare(a) PROVE Types'
  <2>1. JoinerTypes'
    BY <1>15, GoToTypes, FailTypes DEF Prepare, JoinerTypes, JoinerStates
  <2>2. DiskTypes'
    <3>1. "checkpoints" \in BackupItems
      BY DEF BackupItems
    <3> QED
      BY <1>15, <3>1, FailTypes DEF Prepare, DiskTypes
  <2>3. ServerTypes' /\ NetTypes' /\ DirTypes' /\ DonorTypes'
    BY <1>15 DEF Prepare, ServerTypes, NetTypes, DirTypes, DonorTypes, donorVars,
       netVars, serverVars
  <2> QED
    BY <2>1, <2>2, <2>3
<1>16. ASSUME NEW a \in Attempts, FindOld(a) \/ RemoveOld(a) \/ FindBackup(a)
       PROVE  Types'
  <2>1. JoinerTypes'
    BY <1>16, GoToTypes, FailTypes DEF FindOld, RemoveOld, FindBackup, JoinerTypes,
       JoinerStates
  <2>2. DiskTypes'
    <3>1. CASE FindOld(a)
      BY <3>1 DEF FindOld, DiskTypes
    <3>2. CASE RemoveOld(a)
      BY <3>2 DEF RemoveOld, DiskTypes, States
    <3>3. CASE FindBackup(a)
      BY <3>3, FailTypes DEF FindBackup, DiskTypes
    <3> QED
      BY <1>16, <3>1, <3>2, <3>3
  <2>3. ServerTypes' /\ NetTypes' /\ DirTypes' /\ DonorTypes'
    BY <1>16 DEF FindOld, RemoveOld, FindBackup, ServerTypes, NetTypes, DirTypes,
       DonorTypes, donorVars, netVars, serverVars
  <2> QED
    BY <2>1, <2>2, <2>3
<1>32. ASSUME NEW a \in Attempts, MoveBack(a) PROVE Types'
  <2>1. JoinerTypes'
    BY <1>32, GoToTypes, FailTypes DEF MoveBack, JoinerTypes, JoinerStates
  <2>2. DiskTypes'
    <3>1. CASE Fail(a) \/ UNCHANGED diskVars
      BY <3>1, FailTypes DEF diskVars, DiskTypes
    <3>2. CASE ~(Fail(a) \/ UNCHANGED diskVars)
      <4>1. PICK f \in left[a] : /\ backup[f] # 0 /\ data' = [data EXCEPT ![f] = backup[f]]
                                 /\ backup' = [backup EXCEPT ![f] = 0]
                                 /\ left' = [left EXCEPT ![a] = @ \ {f}]
                                 /\ UNCHANGED <<pidfile, sst>>
        BY <1>32, <3>2 DEF MoveBack
      <4>2. f \in DataFiles => f \in BackupItems /\ backup[f] \in States
        BY <4>1, SSTAssumption DEF DiskTypes, BackupItems, States, Attempts
      <4>3. data' \in [DataFiles -> States]
        BY <4>1, <4>2 DEF DiskTypes
      <4>4. 0 \in 0..MaxAttempts
        BY SSTAssumption
      <4>5. backup' \in [BackupItems -> 0..MaxAttempts]
        BY <4>1, <4>4 DEF DiskTypes
      <4> QED
        BY <4>1, <4>3, <4>5 DEF DiskTypes
    <3> QED
      BY <3>1, <3>2
  <2>3. ServerTypes' /\ NetTypes' /\ DirTypes' /\ DonorTypes'
    BY <1>32 DEF MoveBack, ServerTypes, NetTypes, DirTypes, DonorTypes, donorVars,
       netVars, serverVars
  <2> QED
    BY <2>1, <2>2, <2>3
<1>33. ASSUME NEW a \in Attempts, ReceiverEnter(a) PROVE Types'
  <2>1. NetTypes'
    BY <1>33, SetSockTypes DEF ReceiverEnter, NetTypes, SocketStates, Stages
  <2>2. DirTypes'
    BY <1>33 DEF ReceiverEnter, DirTypes, DiskTypes
  <2>3. ServerTypes' /\ JoinerTypes' /\ DiskTypes' /\ DonorTypes'
    BY <1>33 DEF ReceiverEnter, ServerTypes, JoinerTypes, DiskTypes, DonorTypes,
       diskVars, donorVars, serverVars
  <2> QED
    BY <2>1, <2>2, <2>3
<1>17. ASSUME NEW a \in Attempts, PrintCoords(a) PROVE Types'
  <2>1. JoinerTypes'
    <3>1. Magic(a) \in States
      BY SourceTypes DEF Magic, DiskTypes, DataFiles, Stages
    <3>2. jpc' \in [Attempts -> JoinerStates]
      BY <1>17, GoToTypes, FailTypes DEF PrintCoords, JoinerStates, Over
    <3>3. coords' \in [Attempts -> States]
      BY <1>17, <3>1 DEF PrintCoords, JoinerTypes
    <3>4. ready' \subseteq Attempts
      BY <1>17 DEF PrintCoords, JoinerTypes
    <3> QED
      BY <3>2, <3>3, <3>4 DEF JoinerTypes
  <2>2. DirTypes'
    BY <1>17 DEF PrintCoords, DirTypes, netVars
  <2>3. DiskTypes'
    BY <1>17, FailTypes DEF PrintCoords, diskVars, DiskTypes
  <2>4. ServerTypes' /\ NetTypes' /\ DonorTypes'
    BY <1>17 DEF PrintCoords, ServerTypes, NetTypes, DonorTypes, donorVars,
       netVars, serverVars
  <2> QED
    BY <2>1, <2>2, <2>3, <2>4
<1>18. ASSUME NEW a \in Attempts, Ready(a) PROVE Types'
  <2>1. JoinerTypes'
    BY <1>18 DEF Ready, JoinerTypes
  <2>2. ServerTypes' /\ NetTypes' /\ DirTypes' /\ DiskTypes' /\ DonorTypes'
    BY <1>18 DEF Ready, ServerTypes, NetTypes, DirTypes, DiskTypes,
       DonorTypes, diskVars, donorVars, netVars, serverVars
  <2> QED
    BY <2>1, <2>2
<1>19. ASSUME NEW a \in Attempts, GtidTimeout(a) PROVE Types'
  <2>1. NetTypes'
    BY <1>19, SetSockTypes DEF GtidTimeout, NetTypes, SocketStates, Stages
  <2>2. ServerTypes' /\ JoinerTypes' /\ DirTypes' /\ DiskTypes' /\ DonorTypes'
    BY <1>19 DEF GtidTimeout, ServerTypes, JoinerTypes, DirTypes, DiskTypes,
       DonorTypes, diskVars, donorVars, netVars, serverVars
  <2> QED
    BY <2>1, <2>2
<1>20. ASSUME NEW a \in Attempts, ReceiverBind(a) PROVE Types'
  <2>1. NetTypes'
    BY <1>20, SetSockTypes DEF ReceiverBind, NetTypes, SocketStates, Stages
  <2>2. ServerTypes' /\ JoinerTypes' /\ DirTypes' /\ DiskTypes' /\ DonorTypes'
    BY <1>20 DEF ReceiverBind, ServerTypes, JoinerTypes, DirTypes, DiskTypes,
       DonorTypes, diskVars, donorVars, netVars, serverVars
  <2> QED
    BY <2>1, <2>2
<1>21. ASSUME NEW a \in Attempts, Terminate(a) PROVE Types'
  <2>1. ServerTypes'
    BY <1>21 DEF Terminate, ServerTypes
  <2>2. JoinerTypes'
    BY <1>21, FailTypes DEF Terminate, JoinerTypes
  <2>3. DirTypes'
    BY <1>21 DEF Terminate, DirTypes, netVars
  <2>4. DiskTypes'
    BY <1>21, FailTypes DEF Terminate
  <2>5. NetTypes' /\ DonorTypes'
    BY <1>21 DEF Terminate, NetTypes, DonorTypes, donorVars, netVars
  <2> QED
    BY <2>1, <2>2, <2>3, <2>4, <2>5
<1>22. ASSUME NEW a \in Attempts, KillLeftOver(a) PROVE Types'
  <2>1. JoinerTypes'
    BY <1>22 DEF KillLeftOver, JoinerTypes, JoinerStates, Over
  <2>2. NetTypes'
    BY <1>22 DEF KillLeftOver, NetTypes, SocketStates
  <2>3. ServerTypes' /\ DirTypes' /\ DiskTypes' /\ DonorTypes'
    BY <1>22 DEF KillLeftOver, ServerTypes, DirTypes, DiskTypes, DonorTypes,
       diskVars, donorVars, netVars, serverVars
  <2> QED
    BY <2>1, <2>2, <2>3
<1>23. ASSUME NEW a \in Attempts, DonorConnectGtid(a) PROVE Types'
  <2>1. NetTypes'
    BY <1>23, ConnectTypes DEF DonorConnectGtid, DonorStates, Stages
  <2>2. DonorTypes'
    BY <1>23, DonorGoToTypes DEF DonorConnectGtid, Connect, DonorTypes,
       DonorStates
  <2>3. ServerTypes' /\ JoinerTypes' /\ DirTypes' /\ DiskTypes'
    BY <1>23 DEF DonorConnectGtid, ServerTypes, JoinerTypes, DirTypes,
       DiskTypes, diskVars, netVars, serverVars
  <2> QED
    BY <2>1, <2>2, <2>3
<1>24. ASSUME NEW a \in Attempts, DonorConnectData(a) PROVE Types'
  <2>1. NetTypes'
    BY <1>24, ConnectTypes DEF DonorConnectData, DonorStates, Stages
  <2>2. DonorTypes'
    BY <1>24, DonorGoToTypes DEF DonorConnectData, Connect, DonorTypes,
       DonorStates
  <2>3. ServerTypes' /\ JoinerTypes' /\ DirTypes' /\ DiskTypes'
    BY <1>24 DEF DonorConnectData, ServerTypes, JoinerTypes, DirTypes,
       DiskTypes, diskVars, netVars, serverVars
  <2> QED
    BY <2>1, <2>2, <2>3
<1>25. ASSUME NEW a \in Attempts, DonorSendGtid(a) PROVE Types'
  <2>1. NetTypes' /\ DirTypes' /\ DiskTypes'
    <3>1. ASSUME NEW r \in Peer(a, "gtid"), Deliver(r, a, GtidItems(a))
          PROVE  NetTypes' /\ DirTypes' /\ DiskTypes'
      BY <1>25, <3>1, DeliverTypes DEF DonorSendGtid, Peer
    <3>2. CASE UNCHANGED <<sock, stat, backup>>
      BY <1>25, <3>2 DEF DonorSendGtid, NetTypes, DirTypes, DiskTypes
    <3> QED
      BY <1>25, <3>1, <3>2 DEF DonorSendGtid
  <2>2. DonorTypes'
    BY <1>25, DonorGoToTypes DEF DonorSendGtid, DonorTypes, DonorStates
  <2>3. ServerTypes' /\ JoinerTypes'
    BY <1>25 DEF DonorSendGtid, ServerTypes, JoinerTypes, serverVars
  <2> QED
    BY <2>1, <2>2, <2>3
<1>26. ASSUME NEW a \in Attempts, DonorWake(a) PROVE Types'
  <2>1. DonorTypes'
    BY <1>26, DonorGoToTypes DEF DonorWake, DonorTypes, DonorStates
  <2>2. ServerTypes' /\ JoinerTypes' /\ NetTypes' /\ DirTypes' /\ DiskTypes'
    BY <1>26 DEF DonorWake, ServerTypes, JoinerTypes, NetTypes, DirTypes,
       DiskTypes, diskVars, netVars, serverVars
  <2> QED
    BY <2>1, <2>2
<1>27. ASSUME NEW a \in Attempts, DonorStream(a) PROVE Types'
  <2>1. PICK r \in Peer(a, "data"), f \in Files \ sent[a] :
          Extract(r, a, {f}) /\ sent' = [sent EXCEPT ![a] = @ \union {f}]
    BY <1>27 DEF DonorStream
  <2>2. DirTypes' /\ DiskTypes'
    BY <1>27, <2>1, ExtractTypes DEF DonorStream, Peer
  <2>3. DonorTypes'
    BY <1>27, <2>1 DEF DonorStream, DonorTypes
  <2>4. ServerTypes' /\ JoinerTypes' /\ NetTypes'
    BY <1>27 DEF DonorStream, ServerTypes, JoinerTypes, NetTypes, serverVars
  <2> QED
    BY <2>2, <2>3, <2>4
<1>28. ASSUME NEW a \in Attempts, DonorFinish(a) PROVE Types'
  <2>1. NetTypes' /\ DirTypes' /\ DiskTypes'
    BY <1>28, DeliverTypes DEF DonorFinish, Peer
  <2>2. DonorTypes'
    BY <1>28, DonorGoToTypes DEF DonorFinish, DonorTypes, DonorStates
  <2>3. ServerTypes' /\ JoinerTypes'
    BY <1>28 DEF DonorFinish, ServerTypes, JoinerTypes, serverVars
  <2> QED
    BY <2>1, <2>2, <2>3
<1>29. ASSUME NEW a \in Attempts, DonorBreaks(a) PROVE Types'
  <2>1. NetTypes'
    BY <1>29 DEF DonorBreaks, NetTypes, SocketStates
  <2>2. DonorTypes'
    BY <1>29, DonorGoToTypes DEF DonorBreaks, DonorTypes, DonorStates
  <2>3. ServerTypes' /\ JoinerTypes' /\ DirTypes' /\ DiskTypes'
    BY <1>29 DEF DonorBreaks, ServerTypes, JoinerTypes, DirTypes, DiskTypes,
       diskVars, netVars, serverVars
  <2> QED
    BY <2>1, <2>2, <2>3
<1>30. ASSUME NEW a \in Attempts, DonorLosesTail(a) PROVE Types'
  <2>1. NetTypes'
    BY <1>30, SetSockTypes DEF DonorLosesTail, Peer, NetTypes, SocketStates,
       Stages
  <2>2. DonorTypes'
    BY <1>30, DonorGoToTypes DEF DonorLosesTail, DonorTypes, DonorStates
  <2>3. ServerTypes' /\ JoinerTypes' /\ DirTypes' /\ DiskTypes'
    BY <1>30 DEF DonorLosesTail, ServerTypes, JoinerTypes, DirTypes,
       DiskTypes, diskVars, netVars, serverVars
  <2> QED
    BY <2>1, <2>2, <2>3
<1>31. CASE UNCHANGED vars
  BY <1>31 DEF vars, serverVars, netVars, diskVars, donorVars, ServerTypes,
     JoinerTypes, NetTypes, DirTypes, DiskTypes, DonorTypes
<1> QED
  BY <1>1, <1>2, <1>3, <1>4, <1>5, <1>6, <1>7, <1>8, <1>9, <1>10, <1>11,
     <1>12, <1>13, <1>14, <1>15, <1>16, <1>17, <1>18, <1>19, <1>20, <1>21,
     <1>22, <1>23, <1>24, <1>25, <1>26, <1>27, <1>28, <1>29, <1>30, <1>31,
     <1>32, <1>33 DEF Next, JoinerStep, DonorStep, RemoveStale, RemoveMoved,
     JoinerStates

-----------------------------------------------------------------------------
(***************************************************************************)
(* What a step may do to sockets, directories and streams.                 *)
(***************************************************************************)
Closed == {"eof", "broken"}

\* A listener appears only where there is none; a gtid stream that is over
\* stays over.
SockStep ==
  /\ \/ Listening' \subseteq Listening
     \/ Listening = {} /\ \E r \in Attempts \X Stages : Listening' \subseteq {r}
  /\ \A a \in Attempts :
       sock[a]["gtid"] \in Closed /\ jpc[a] # "bind"
       => sock'[a]["gtid"] \in Closed

\* Directories are filled over an open connection.
DirStep ==
  \A a \in Attempts :
    /\ sock[a]["gtid"] # "open" => (IstSelected(a)' <=> IstSelected(a))
    /\ stat'[a] # {} => stat[a] # {} \/ src[a]["gtid"][1] \in Attempts

SrcStep ==
  \A a \in Attempts, s \in Stages :
    src[a][s][1] \in Attempts => src'[a][s][1] \in Attempts

NetStep == SockStep /\ DirStep /\ SrcStep

LEMMA SockKept == ASSUME UNCHANGED sock PROVE SockStep
BY DEF SockStep, Listening

LEMMA DirKept == ASSUME UNCHANGED stat PROVE DirStep
BY DEF DirStep, IstSelected

LEMMA SrcKept == ASSUME UNCHANGED src PROVE SrcStep
BY DEF SrcStep

LEMMA SetSockStep ==
  ASSUME NetTypes, NEW a \in Attempts, NEW s \in Stages,
         NEW st \in SocketStates, SetSock(a, s, st),
         st # "listen" \/ Listening = {},
         s # "gtid" \/ st \in Closed \/ sock[a][s] \notin Closed \/ jpc[a] = "bind"
  PROVE  SockStep
<1>1. sock' = [sock EXCEPT ![a][s] = st]
  BY DEF SetSock
<1>2. \A b \in Attempts, t \in Stages :
        sock'[b][t] = IF b = a /\ t = s THEN st ELSE sock[b][t]
  BY <1>1 DEF NetTypes
<1>3. Listening' = {r \in Attempts \X Stages : sock'[r[1]][r[2]] = "listen"}
  BY DEF Listening
<1>4. CASE st # "listen"
  BY <1>2, <1>3, <1>4 DEF SockStep, Listening, Closed, Stages
<1>5. CASE Listening = {}
  <2>1. \A r \in Listening' : r = <<a, s>>
    BY <1>2, <1>3, <1>5 DEF Listening
  <2>2. <<a, s>> \in Attempts \X Stages
    OBVIOUS
  <2>3. Listening' \subseteq {<<a, s>>}
    BY <2>1
  <2>4. \A b \in Attempts :
          sock[b]["gtid"] \in Closed /\ jpc[b] # "bind"
          => sock'[b]["gtid"] \in Closed
    BY <1>2 DEF Stages
  <2> QED
    BY <1>5, <2>2, <2>3, <2>4 DEF SockStep
<1> QED
  BY <1>4, <1>5

LEMMA ExtractStep ==
  ASSUME Types, NEW d \in Attempts, NEW s \in Stages, NEW r \in Peer(d, s),
         NEW items, Extract(r, d, items)
  PROVE  DirStep
<1>1. /\ r[1] \in Attempts /\ r[2] \in Stages
      /\ src[r[1]][r[2]][1] = d /\ sock[r[1]][r[2]] = "open"
  BY DEF Peer
<1>2. CASE r[2] = "gtid"
  <2>1. \A b \in Attempts :
          stat'[b] = IF b = r[1] THEN stat[b] \union (items \intersect StatItems)
                                 ELSE stat[b]
    BY <1>1, <1>2 DEF Extract, Types, DirTypes
  <2> QED
    BY <1>1, <1>2, <2>1 DEF DirStep, IstSelected
<1>3. CASE r[2] # "gtid"
  BY <1>3, DirKept DEF Extract
<1> QED
  BY <1>2, <1>3

LEMMA ConnectStep ==
  ASSUME NetTypes, NEW d \in Attempts, NEW s \in Stages, NEW pc,
         Connect(d, s, pc)
  PROVE  SockStep /\ SrcStep
<1>1. CASE UNCHANGED <<sock, src>>
  BY <1>1, SockKept, SrcKept
<1>2. CASE Listening # {}
  <2>1. PICK r \in Listening :
          /\ SetSock(r[1], r[2], "open")
          /\ src' = [src EXCEPT ![r[1]][r[2]] = <<d, s>>]
    BY <1>2 DEF Connect
  <2>2. r[1] \in Attempts /\ r[2] \in Stages /\ sock[r[1]][r[2]] = "listen"
    BY <2>1 DEF Listening
  <2>3. SockStep
    BY <2>1, <2>2, SetSockStep DEF SocketStates, Closed
  <2>4. \A b \in Attempts, t \in Stages :
          src'[b][t] = IF b = r[1] /\ t = r[2] THEN <<d, s>> ELSE src[b][t]
    BY <2>1, <2>2 DEF NetTypes
  <2>5. SrcStep
    BY <2>4 DEF SrcStep
  <2> QED
    BY <2>3, <2>5
<1> QED
  BY <1>1, <1>2 DEF Connect

LEMMA DeliverStep ==
  ASSUME Types, NEW d \in Attempts, NEW s \in Stages, NEW r \in Peer(d, s),
         NEW items, Deliver(r, d, items)
  PROVE  SockStep /\ DirStep
<1>1. r[1] \in Attempts /\ r[2] \in Stages
  BY DEF Peer
<1>2. SockStep
  BY <1>1, SetSockStep DEF Deliver, Types, SocketStates, Closed
<1> QED
  BY <1>2, ExtractStep, DirKept DEF Deliver

LEMMA NetStepNext == Types /\ [Next]_vars => NetStep
<1> SUFFICES ASSUME Types, [Next]_vars PROVE NetStep
  OBVIOUS
<1> USE DEF NetStep
<1>1. CASE UNCHANGED netVars
  BY <1>1, SockKept, DirKept, SrcKept DEF netVars
<1>3. ASSUME NEW a \in Attempts, BindGtid(a) PROVE NetStep
  <2>1. SockStep
    BY <1>3, SetSockStep, SockKept DEF BindGtid, Types, SocketStates, Stages
  <2> QED
    BY <1>3, <2>1, DirKept, SrcKept DEF BindGtid
<1>5. ASSUME NEW a \in Attempts,
             GtidTimeout(a) \/ MakeSst(a) \/ ReceiverEnter(a) \/ ReceiverBind(a)
      PROVE  NetStep
  <2>1. SockStep
    BY <1>5, SetSockStep DEF GtidTimeout, MakeSst, ReceiverEnter, ReceiverBind,
       Types, SocketStates, Stages, Closed
  <2> QED
    BY <1>5, <2>1, DirKept, SrcKept DEF GtidTimeout, MakeSst, ReceiverEnter,
       ReceiverBind
<1>6. ASSUME NEW a \in Attempts, KillLeftOver(a) PROVE NetStep
  <2>1. \A b \in Attempts, s \in Stages :
          sock'[b][s] = IF b = a /\ sock[b][s] \in Unfinished
                        THEN "broken" ELSE sock[b][s]
    BY <1>6 DEF KillLeftOver, Types, NetTypes
  <2>2. SockStep
    BY <2>1 DEF SockStep, Listening, Closed, Stages
  <2> QED
    BY <1>6, <2>2, DirKept, SrcKept DEF KillLeftOver
<1>7. ASSUME NEW a \in Attempts, DonorConnectGtid(a) \/ DonorConnectData(a)
      PROVE  NetStep
  BY <1>7, ConnectStep, DirKept DEF DonorConnectGtid, DonorConnectData,
     Types, Stages
<1>8. ASSUME NEW a \in Attempts, DonorSendGtid(a) PROVE NetStep
  <2>1. ASSUME NEW r \in Peer(a, "gtid"), Deliver(r, a, GtidItems(a))
        PROVE  SockStep /\ DirStep
    BY <2>1, DeliverStep DEF Stages
  <2>2. CASE UNCHANGED <<sock, stat, backup>>
    BY <1>8, <2>2, SockKept, DirKept, SrcKept DEF DonorSendGtid
  <2> QED
    BY <1>8, <2>1, <2>2, SrcKept DEF DonorSendGtid
<1>9. ASSUME NEW a \in Attempts, DonorFinish(a) PROVE NetStep
  <2>1. PICK r \in Peer(a, "data") : Deliver(r, a, {"info", "checkpoints"})
    BY <1>9 DEF DonorFinish
  <2>2. SockStep /\ DirStep
    BY <2>1, DeliverStep DEF Stages
  <2> QED
    BY <1>9, <2>2, SrcKept DEF DonorFinish
<1>10. ASSUME NEW a \in Attempts, DonorStream(a) PROVE NetStep
  BY <1>10, ExtractStep, SockKept, SrcKept DEF DonorStream, Stages
<1>11. ASSUME NEW a \in Attempts, DonorBreaks(a) PROVE NetStep
  <2>1. \A b \in Attempts, s \in Stages :
          \/ sock'[b][s] = sock[b][s]
          \/ sock[b][s] = "open" /\ sock'[b][s] = "broken"
    BY <1>11 DEF DonorBreaks, Peer
  <2>2. SockStep
    BY <2>1 DEF SockStep, Listening, Closed, Stages
  <2> QED
    BY <1>11, <2>2, DirKept, SrcKept DEF DonorBreaks
<1>12. ASSUME NEW a \in Attempts, DonorLosesTail(a) PROVE NetStep
  <2>1. PICK r \in Peer(a, "data") : SetSock(r[1], r[2], "broken")
    BY <1>12 DEF DonorLosesTail
  <2>2. SockStep
    BY <2>1, SetSockStep DEF Peer, Types, SocketStates, Closed
  <2> QED
    BY <1>12, <2>2, DirKept, SrcKept DEF DonorLosesTail
<1>13. CASE StartServer \/ Crash \/ Abort \/ StartDonor
  BY <1>1, <1>13 DEF StartServer, Crash, Abort, StartDonor
<1>14. ASSUME NEW a \in Attempts,
              StopWaiting(a) \/ CheckPid(a) \/ WritePid(a) \/ Ready(a)
              \/ RemoveStale(a) \/ FindOld(a) \/ RemoveOld(a) \/ FindBackup(a)
              \/ RemoveMoved(a) \/ DonorWake(a)
       PROVE  NetStep
  BY <1>1, <1>14 DEF StopWaiting, CheckPid, WritePid, Ready, RemoveStale, FindOld,
     RemoveOld, FindBackup, RemoveMoved, RmSst, DonorWake
<1>15. ASSUME NEW a \in Attempts,
              GtidReceived(a) \/ CheckParent(a) \/ Monitor(a) \/ CheckBackup(a)
              \/ Prepare(a) \/ MoveBack(a) \/ PrintCoords(a) \/ Terminate(a)
       PROVE  NetStep
  BY <1>1, <1>15 DEF GtidReceived, CheckParent, Monitor, CheckBackup, Prepare,
     MoveBack, PrintCoords, Terminate
<1>16. CASE UNCHANGED vars
  BY <1>1, <1>16 DEF vars
<1> QED
  BY <1>3, <1>5, <1>6, <1>7, <1>8, <1>9, <1>10, <1>11, <1>12, <1>13,
     <1>14, <1>15, <1>16 DEF Next, JoinerStep, DonorStep

-----------------------------------------------------------------------------
(***************************************************************************)
(* An .sst that is not there holds nothing.                                *)
(***************************************************************************)
LEMMA ExtractSst ==
  ASSUME NoSst, NEW d \in Attempts, NEW s \in Stages, NEW r \in Peer(d, s),
         NEW items, Writable(r), Extract(r, d, items), UNCHANGED sst
  PROVE  NoSst'
BY DEF NoSst, Writable, Extract, Peer, Stages, Empty

LEMMA FailSst ==
  ASSUME Types, NoSst, NEW a \in Attempts, Fail(a)
  PROVE  NoSst'
BY DEF Types, DiskTypes, NoSst, Fail, Empty

LEMMA NoSstNext == Types /\ NoSst /\ [Next]_vars => NoSst'
<1> SUFFICES ASSUME Types, NoSst, [Next]_vars PROVE NoSst'
  OBVIOUS
<1>1. ASSUME UNCHANGED <<sst, backup>> PROVE NoSst'
  BY <1>1 DEF NoSst, Empty
<1>2. ASSUME NEW a \in Attempts, Fail(a) PROVE NoSst'
  BY <1>2, FailSst
<1>3. CASE StartServer \/ Crash \/ Abort \/ StartDonor \/ UNCHANGED vars
  BY <1>1, <1>3 DEF StartServer, Crash, Abort, StartDonor, vars, diskVars
<1>4. ASSUME NEW a \in Attempts, JoinerStep(a) PROVE NoSst'
  <2>1. CASE RemoveStale(a) \/ RemoveMoved(a)
    BY <1>2, <2>1 DEF RemoveStale, RemoveMoved, RmSst, NoSst, Empty
  <2>2. CASE MakeSst(a)
    BY <2>2 DEF MakeSst, NoSst, Attempts
  <2>3. CASE Prepare(a)
    <3>1. CASE ~Fail(a)
      <4>1. HasCheckpoints /\ UNCHANGED sst
        BY <2>3, <3>1 DEF Prepare
      <4>2. sst # 0
        BY <4>1 DEF HasCheckpoints, NoSst, Empty, BackupItems
      <4> QED
        BY <4>1, <4>2 DEF NoSst
    <3> QED
      BY <1>2, <3>1
  <2>4. CASE MoveBack(a)
    <3>1. Fail(a) \/ UNCHANGED diskVars
          \/ (UNCHANGED sst /\ \E f : backup[f] # 0 /\ backup' = [backup EXCEPT ![f] = 0])
      BY <2>4 DEF MoveBack
    <3>2. ASSUME UNCHANGED sst, NEW f, backup' = [backup EXCEPT ![f] = 0] PROVE NoSst'
      BY <3>2 DEF Types, DiskTypes, NoSst, Empty
    <3> QED
      BY <1>1, <1>2, <3>1, <3>2 DEF diskVars
  <2>5. CASE \/ StopWaiting(a) \/ CheckPid(a) \/ WritePid(a) \/ BindGtid(a)
             \/ GtidReceived(a) \/ CheckParent(a) \/ FindOld(a) \/ RemoveOld(a)
             \/ Monitor(a) \/ CheckBackup(a) \/ FindBackup(a) \/ PrintCoords(a)
    <3>1. Fail(a) \/ UNCHANGED <<sst, backup>>
      BY <2>5 DEF StopWaiting, CheckPid, WritePid, BindGtid, GtidReceived, CheckParent,
         FindOld, RemoveOld, Monitor, CheckBackup, FindBackup, PrintCoords, diskVars
    <3> QED
      BY <1>1, <1>2, <3>1
  <2> QED
    BY <1>4, <2>1, <2>2, <2>3, <2>4, <2>5 DEF JoinerStep
<1>5. ASSUME NEW a \in Attempts,
             Ready(a) \/ GtidTimeout(a) \/ ReceiverEnter(a) \/ ReceiverBind(a)
             \/ Terminate(a) \/ KillLeftOver(a) \/ DonorConnectGtid(a)
             \/ DonorWake(a) \/ DonorConnectData(a) \/ DonorBreaks(a)
             \/ DonorLosesTail(a)
      PROVE  NoSst'
  BY <1>1, <1>2, <1>5 DEF Ready, GtidTimeout, ReceiverEnter, ReceiverBind, Terminate,
     KillLeftOver, DonorConnectGtid, DonorWake, DonorConnectData, DonorBreaks,
     DonorLosesTail, diskVars
<1>6. ASSUME NEW a \in Attempts,
             DonorSendGtid(a) \/ DonorStream(a) \/ DonorFinish(a)
      PROVE  NoSst'
  <2>1. UNCHANGED sst
    BY <1>6 DEF DonorSendGtid, DonorStream, DonorFinish
  <2>2. \/ UNCHANGED backup
        \/ \E s \in Stages : \E r \in Peer(a, s) : \E items :
             Writable(r) /\ Extract(r, a, items)
    BY <1>6 DEF DonorSendGtid, DonorStream, DonorFinish, Deliver, Stages
  <2> QED
    BY <1>1, <2>1, <2>2, ExtractSst
<1> QED
  BY <1>3, <1>4, <1>5, <1>6 DEF Next, DonorStep

-----------------------------------------------------------------------------
(***************************************************************************)
(* The stages of the scripts.                                              *)
(***************************************************************************)
LEMMA StageKept ==
  ASSUME StageInv, NetStep, UNCHANGED <<att, jpc>>
  PROVE  StageInv'
<1> SUFFICES ASSUME NEW b \in Attempts PROVE Stage(b)'
  BY DEF StageInv
<1>1. Stage(b)
  BY DEF StageInv
<1>2. jpc[b] \in AfterGtid
      => /\ sock[b]["gtid"] \in Closed /\ sock'[b]["gtid"] \in Closed
         /\ IstSelected(b)' <=> IstSelected(b)
  BY <1>1 DEF Stage, NetStep, SockStep, DirStep, Closed, AfterGtid, TakesBackup
<1> QED
  BY <1>1, <1>2 DEF Stage, AfterGtid, TakesBackup, Closed

\* A script moves on: it may only enter a later stage when its gtid stage is
\* over, and take a backup when it was not given the IST marker.
LEMMA StageMove ==
  ASSUME Types, StageInv, NetStep, NEW a \in Attempts, NEW pc,
         jpc[a] # "none", jpc' = [jpc EXCEPT ![a] = pc], UNCHANGED att,
         pc \in AfterGtid => sock[a]["gtid"] \in Closed /\ jpc[a] # "bind",
         pc \in TakesBackup => ~IstSelected(a)
  PROVE  StageInv'
<1> SUFFICES ASSUME NEW b \in Attempts PROVE Stage(b)'
  BY DEF StageInv
<1>1. Stage(b)
  BY DEF StageInv
<1>2. jpc'[b] = IF b = a THEN pc ELSE jpc[b]
  BY DEF Types, JoinerTypes
<1>3. jpc'[b] \in AfterGtid
      => /\ sock[b]["gtid"] \in Closed /\ sock'[b]["gtid"] \in Closed
         /\ IstSelected(b)' <=> IstSelected(b)
  BY <1>1, <1>2 DEF Stage, NetStep, SockStep, DirStep, Closed, AfterGtid, TakesBackup
<1>4. b > att' => jpc'[b] = "none"
  BY <1>1, <1>2 DEF Stage
<1>5. jpc'[b] \in AfterGtid => sock'[b]["gtid"] \in {"eof", "broken"}
  BY <1>3 DEF Closed
<1>6. jpc'[b] \in TakesBackup => ~IstSelected(b)'
  BY <1>1, <1>2, <1>3 DEF Stage, AfterGtid, TakesBackup
<1> QED
  BY <1>4, <1>5, <1>6 DEF Stage

LEMMA StageNext == IInv /\ [Next]_vars => StageInv'
<1> SUFFICES ASSUME IInv, [Next]_vars PROVE StageInv'
  OBVIOUS
<1>1. NetStep /\ Types /\ StageInv
  BY NetStepNext DEF IInv
<1>2. ASSUME UNCHANGED <<att, jpc>> PROVE StageInv'
  BY <1>1, <1>2, StageKept
<1>3. ASSUME NEW a \in Attempts, Fail(a), jpc[a] # "none", UNCHANGED att
      PROVE  StageInv'
  <2>1. jpc' = [jpc EXCEPT ![a] = "failed"]
    BY <1>3 DEF Fail, GoTo
  <2> QED
    BY <1>1, <1>3, <2>1, StageMove DEF AfterGtid, TakesBackup
<1>4. CASE StartServer
  <2>1. \A b \in Attempts :
          jpc'[b] = IF b = att + 1 THEN "wait" ELSE jpc[b]
    BY <1>1, <1>4 DEF StartServer, Types, JoinerTypes
  <2>2. att \in Nat /\ att' = att + 1 /\ Attempts \subseteq Nat
    BY <1>1, <1>4, SSTAssumption DEF StartServer, Types, ServerTypes, Attempts
  <2>3. UNCHANGED <<sock, stat>>
    BY <1>4 DEF StartServer, netVars
  <2> SUFFICES ASSUME NEW b \in Attempts PROVE Stage(b)'
    BY DEF StageInv
  <2>4. Stage(b)
    BY <1>1 DEF StageInv
  <2>5. b > att' => jpc'[b] = "none"
    BY <2>1, <2>2, <2>4 DEF Stage
  <2>6. jpc'[b] \in AfterGtid => jpc[b] = jpc'[b]
    BY <2>1 DEF AfterGtid, TakesBackup
  <2> QED
    BY <2>3, <2>4, <2>5, <2>6 DEF Stage, IstSelected, AfterGtid, TakesBackup
<1>5. ASSUME NEW a \in Attempts, GtidReceived(a) PROVE StageInv'
  <2>1. UNCHANGED att /\ jpc[a] = "gtid" /\ sock[a]["gtid"] \in Closed
    BY <1>5 DEF GtidReceived, serverVars, Closed
  <2>2. CASE GoTo(a, "parent")
    BY <1>1, <2>1, <2>2, StageMove DEF GoTo, AfterGtid, TakesBackup
  <2> QED
    BY <1>3, <1>5, <2>1, <2>2 DEF GtidReceived
<1>6. ASSUME NEW a \in Attempts, CheckParent(a) PROVE StageInv'
  <2>1. UNCHANGED att /\ jpc[a] = "parent"
    BY <1>6 DEF CheckParent, serverVars
  <2>2. sock[a]["gtid"] \in Closed
    BY <1>1, <2>1 DEF StageInv, Stage, AfterGtid, Closed
  <2>3. CASE GoTo(a, IF IstSelected(a) THEN "coords" ELSE "rmsst")
    BY <1>1, <2>1, <2>2, <2>3, StageMove DEF GoTo, TakesBackup
  <2> QED
    BY <1>3, <1>6, <2>1, <2>3 DEF CheckParent
<1>7. ASSUME NEW a \in Attempts, NEW pc, jpc[a] \in TakesBackup, GoTo(a, pc),
             UNCHANGED att
      PROVE  StageInv'
  <2>1. sock[a]["gtid"] \in Closed /\ ~IstSelected(a) /\ jpc[a] # "bind"
        /\ jpc[a] # "none"
    BY <1>1, <1>7 DEF StageInv, Stage, AfterGtid, TakesBackup, Closed
  <2> QED
    BY <1>1, <1>7, <2>1, StageMove DEF GoTo
<1>8. ASSUME NEW a \in Attempts,
             RemoveStale(a) \/ MakeSst(a) \/ FindOld(a) \/ RemoveOld(a)
             \/ Monitor(a) \/ CheckBackup(a) \/ Prepare(a) \/ FindBackup(a)
             \/ MoveBack(a) \/ RemoveMoved(a)
      PROVE  StageInv'
  <2>1. UNCHANGED att /\ jpc[a] \in TakesBackup
    BY <1>8 DEF RemoveStale, MakeSst, FindOld, RemoveOld, Monitor, CheckBackup,
       Prepare, FindBackup, MoveBack, RemoveMoved, RmSst, serverVars, TakesBackup
  <2>2. UNCHANGED jpc \/ \E pc \in JoinerStates : GoTo(a, pc)
    BY <1>8 DEF RemoveStale, MakeSst, FindOld, RemoveOld, Monitor, CheckBackup,
       Prepare, FindBackup, MoveBack, RemoveMoved, RmSst, Fail, JoinerStates, Over
  <2> QED
    BY <1>2, <1>7, <2>1, <2>2
<1>9. ASSUME NEW a \in Attempts, NEW pc, jpc[a] # "none", GoTo(a, pc),
             pc \notin AfterGtid, UNCHANGED att
      PROVE  StageInv'
  BY <1>1, <1>9, StageMove DEF GoTo, AfterGtid, TakesBackup
<1>10. ASSUME NEW a \in Attempts,
              StopWaiting(a) \/ CheckPid(a) \/ WritePid(a) \/ BindGtid(a)
              \/ PrintCoords(a) \/ Terminate(a)
       PROVE  StageInv'
  <2>1. UNCHANGED att /\ jpc[a] # "none"
    BY <1>10 DEF StopWaiting, CheckPid, WritePid, BindGtid, PrintCoords,
       Terminate, serverVars
  <2>2. \E pc \in {"failed", "pid", "bind", "gtid", "ok"} : GoTo(a, pc)
    BY <1>10 DEF StopWaiting, CheckPid, WritePid, BindGtid, PrintCoords,
       Terminate, Fail
  <2> QED
    BY <1>9, <2>1, <2>2 DEF AfterGtid, TakesBackup
<1>11. ASSUME NEW a \in Attempts, KillLeftOver(a) PROVE StageInv'
  <2>1. CASE Alive(a)
    <3>1. UNCHANGED att /\ jpc[a] # "none" /\ GoTo(a, "failed")
      BY <1>11, <2>1 DEF KillLeftOver, Alive, GoTo, serverVars
    <3> QED
      BY <1>9, <3>1 DEF AfterGtid, TakesBackup
  <2>2. CASE ~Alive(a)
    <3>1. UNCHANGED <<att, jpc>>
      BY <1>1, <1>11, <2>2 DEF KillLeftOver, serverVars, Types, JoinerTypes
    <3> QED
      BY <1>2, <3>1
  <2> QED
    BY <2>1, <2>2
<1>12. CASE Crash \/ Abort \/ StartDonor
  BY <1>2, <1>12 DEF Crash, Abort, StartDonor, serverVars
<1>13. ASSUME NEW a \in Attempts,
              Ready(a) \/ GtidTimeout(a) \/ ReceiverEnter(a) \/ ReceiverBind(a)
              \/ DonorWake(a) \/ DonorConnectGtid(a) \/ DonorConnectData(a)
              \/ DonorSendGtid(a) \/ DonorStream(a) \/ DonorFinish(a)
              \/ DonorBreaks(a) \/ DonorLosesTail(a)
       PROVE  StageInv'
  BY <1>2, <1>13 DEF Ready, GtidTimeout, ReceiverEnter, ReceiverBind, DonorWake,
     DonorConnectGtid, DonorConnectData, DonorSendGtid, DonorStream,
     DonorFinish, DonorBreaks, DonorLosesTail, serverVars
<1>14. CASE UNCHANGED vars
  BY <1>2, <1>14 DEF vars, serverVars
<1> QED
  BY <1>4, <1>5, <1>6, <1>8, <1>10, <1>11, <1>12, <1>13, <1>14 DEF Next,
     JoinerStep, DonorStep

-----------------------------------------------------------------------------
(***************************************************************************)
(* The invariant.                                                          *)
(***************************************************************************)
LEMMA IInvInit == Init => IInv
<1> SUFFICES ASSUME Init PROVE IInv
  OBVIOUS
<1>1. Types
  BY TypesInit
<1>2. OneListener
  BY DEF Init, OneListener, Listening
<1>3. FromDonor
  BY DEF Init, FromDonor
<1>4. NoSst
  BY DEF Init, NoSst
<1>5. StageInv
  BY DEF Init, StageInv, Stage, AfterGtid, TakesBackup
<1> QED
  BY <1>1, <1>2, <1>3, <1>4, <1>5 DEF IInv

LEMMA IInvNext == IInv /\ [Next]_vars => IInv'
<1> SUFFICES ASSUME IInv, [Next]_vars PROVE IInv'
  OBVIOUS
<1>1. Types'
  BY TypesNext DEF IInv
<1>2. NetStep
  BY NetStepNext DEF IInv
<1>3. OneListener'
  BY <1>2 DEF IInv, OneListener, NetStep, SockStep
<1>4. FromDonor'
  BY <1>2 DEF IInv, FromDonor, NetStep, DirStep, SrcStep, Stages
<1>5. NoSst'
  BY NoSstNext DEF IInv
<1>6. StageInv'
  BY StageNext
<1> QED
  BY <1>1, <1>3, <1>4, <1>5, <1>6 DEF IInv

\* The inductive invariant holds in every behaviour.
THEOREM IInvHolds == Spec => []IInv
<1>1. Init => IInv
  BY IInvInit
<1>2. IInv /\ [Next]_vars => IInv'
  BY IInvNext
<1> QED
  BY <1>1, <1>2, PTL DEF Spec

\* The type invariant: two receivers are never bound to the joiner's port,
\* whatever scripts, receivers and donors of earlier attempts still run.
THEOREM TypeCorrect == Spec => []TypeOK
<1>1. IInv => TypeOK
  <2> SUFFICES ASSUME IInv PROVE TypeOK
    OBVIOUS
  <2>1. Cardinality(Listening) <= 1
    <3>1. CASE Listening = {}
      BY <3>1, FS_EmptySet
    <3>2. CASE Listening # {}
      <4>1. PICK r : r \in Listening
        BY <3>2
      <4>2. Listening = {r}
        BY <4>1 DEF IInv, OneListener
      <4> QED
        BY <4>2, FS_Singleton
    <3> QED
      BY <3>1, <3>2
  <2>2. att \in 0..MaxAttempts /\ up \in BOOLEAN /\ crashes \in 0..MaxCrashes
    BY DEF IInv, Types, ServerTypes
  <2> QED
    BY <2>1, <2>2 DEF TypeOK, IInv, Types, JoinerTypes, NetTypes, DirTypes,
       DiskTypes, DonorTypes
<1> QED
  BY <1>1, IInvHolds, PTL

=============================================================================
