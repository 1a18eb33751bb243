--------------------------- MODULE SSTPair_proofs ---------------------------
(***************************************************************************)
(* Proofs about SST when what a dead mysqld has left on its node is gone   *)
(* before mysqld is started anew (CleanRestart), while donors of earlier   *)
(* attempts are still sending: the scripts implement StateTransfer, so     *)
(* that co-ordinates returned are those of a database that came whole from *)
(* one donor, and if joiner and donor of one attempt both report success   *)
(* it came from that donor.                                                *)
(***************************************************************************)
EXTENDS SST_proofs

(***************************************************************************)
(* The invariant: who can hold a socket, and whose stream it has taken.    *)
(***************************************************************************)
BeforeGtid == {"none", "wait", "pid", "bind"}
BeforeData == BeforeGtid \union {"gtid", "parent", "rmsst", "mksst"}
Taken      == {"open"} \union Closed           \* a stream was accepted, or none

\* Each receiver is bound once, and that for the data only when the gtid stream
\* is over and did not select IST.
Receivers(a) ==
  /\ a # att => ~LeftOver(a)
  /\ a > att => dpc[a] = "none"
  /\ jpc[a] \in BeforeGtid => sock[a]["gtid"] = "none"
  /\ jpc[a] \in BeforeData => sock[a]["data"] = "none"
  /\ sock[a]["data"] # "none" => sock[a]["gtid"] \in Closed /\ ~IstSelected(a)

\* Where the data of the donor of this attempt goes.
DonorSends == {"gtidSend", "sleep", "connect", "data", "done"}
DataSent(d) == dpc[d] = "data" \/ (dpc[d] = "done" /\ ~bypass[d])

Streams(a) ==
  /\ dpc[a] \in DonorSends => sock[a]["gtid"] \in Taken
  /\ DataSent(a) => src[a]["data"] = <<a, "data">> /\ sock[a]["data"] \in Taken

\* A donor has sent nothing before its second connection is accepted.
BeforeSend  == {"none", "gtid", "gtidSend", "sleep", "connect"}
SentLater(d) == dpc[d] \in BeforeSend => sent[d] = {}

\* Where the script of this attempt has its backup from.
Origin(a)    == src[a]["data"][1]
Filling      == {"clean", "cleaning", "monitor", "check", "prepare", "move"}
HasSst       == Filling \union {"moving", "finish"}
HasMoved(a)  == jpc[a] = "coords" /\ ~IstSelected(a)
HasBackup(a) == \/ jpc[a] \in {"check", "prepare", "move", "moving", "finish"}
                \/ jpc[a] \in {"coords", "ok"} /\ ~IstSelected(a)

BackupOf(a) ==
  /\ jpc[a] \in HasSst => sst = a
  /\ jpc[a] = "mksst" => sst = 0
  /\ HasBackup(a) => sock[a]["data"] \in Closed
  /\ jpc[a] = "ok" /\ ~IstSelected(a) => coords[a] = Origin(a)
  /\ jpc[a] = "ok" => sock[a]["gtid"] \in Closed

\* What .sst holds came from one donor, and all of the database is there when
\* the file that is looked at is.
OneOrigin(a) ==
  \A i \in BackupItems :
    backup[i] # 0 => backup[i] = Origin(a) /\ sock[a]["data"] \in Taken
Arriving(a)  ==
  \A d \in Attempts :
    sock[a]["data"] = "open" /\ src[a]["data"] = <<d, "data">>
    => \A f \in sent[d] : backup[f] # 0
Arrived(a)   ==
  jpc[a] \in Filling /\ (backup["checkpoints"] # 0 \/ backup["prepared"] # 0)
  => \A f \in Files : backup[f] # 0
Contents(a)  == jpc[a] \in HasSst => OneOrigin(a) /\ Arriving(a) /\ Arrived(a)

\* What of it is in the datadir.
BeforeMove == (BeforeData \ {"none"}) \union Filling
Datadir(a) ==
  /\ jpc[a] \in BeforeMove => data["info"] = NoData
  /\ jpc[a] = "moving" => \A f \in Files \ left[a] : data[f] = Origin(a)
  /\ jpc[a] = "finish" \/ HasMoved(a) => \A f \in Files : data[f] = Origin(a)
  /\ jpc[a] \in {"moving", "finish"} \/ HasMoved(a)
     => data["info"] \in {NoData, Origin(a)} /\ Origin(a) \in Attempts

PairInv ==
  /\ up => att \in Attempts
  /\ \A a \in Attempts : Receivers(a) /\ SentLater(a)
  /\ att \in Attempts => Streams(att) /\ BackupOf(att) /\ Contents(att) /\ Datadir(att)

LEMMA PairInvInit == Init => PairInv
  BY SSTAssumption
  DEF Init, PairInv, Receivers, SentLater, LeftOver, Alive, Unfinished, Stages, Attempts

-----------------------------------------------------------------------------
(***************************************************************************)
(* What a step may do to one socket, one script, one donor.                *)
(***************************************************************************)
Forward(a, pc, next) == jpc[a] = pc /\ jpc'[a] = next

SockMove(a, s) ==
  \/ sock'[a][s] = sock[a][s]
  \/ s = "gtid" /\ Forward(a, "bind", "gtid") /\ sock'[a][s] = "listen"
  \/ s = "data" /\ Forward(a, "mksst", "clean") /\ sock'[a][s] = "start"
  \/ sock[a][s] = "start" /\ sock'[a][s] = "entered"
  \/ sock[a][s] = "entered" /\ sock'[a][s] = "listen"
  \/ /\ sock[a][s] = "listen" /\ sock'[a][s] = "open"
     /\ src'[a][s][1] \in Attempts /\ dpc[src'[a][s][1]] \in BeforeSend
  \/ sock[a][s] = "open" /\ sock'[a][s] = "eof"
  \/ sock[a][s] \in Unfinished /\ sock'[a][s] = "broken"

SrcMove(a, s) == src'[a][s] = src[a][s] \/ sock[a][s] = "listen"

NetMove == \A a \in Attempts, s \in Stages : SockMove(a, s) /\ SrcMove(a, s)

LEMMA SetSockMove ==
  ASSUME Types, NEW a \in Attempts, NEW s \in Stages, NEW st, SetSock(a, s, st)
  PROVE  \A b \in Attempts, t \in Stages :
           sock'[b][t] = IF b = a /\ t = s THEN st ELSE sock[b][t]
BY DEF SetSock, Types, NetTypes

LEMMA ConnectMove ==
  ASSUME Types, NEW d \in Attempts, NEW s \in Stages, NEW pc, Connect(d, s, pc),
         dpc[d] \in BeforeSend
  PROVE  NetMove
<1>1. CASE UNCHANGED <<sock, src>>
  BY <1>1 DEF NetMove, SockMove, SrcMove
<1>2. CASE Listening # {}
  <2>1. PICK r \in Listening : /\ SetSock(r[1], r[2], "open")
                               /\ src' = [src EXCEPT ![r[1]][r[2]] = <<d, s>>]
    BY <1>2 DEF Connect
  <2>2. r[1] \in Attempts /\ r[2] \in Stages /\ sock[r[1]][r[2]] = "listen"
    BY <2>1 DEF Listening
  <2>3. \A b \in Attempts, t \in Stages :
          sock'[b][t] = IF b = r[1] /\ t = r[2] THEN "open" ELSE sock[b][t]
    BY <2>1, <2>2, SetSockMove
  <2>4. \A b \in Attempts, t \in Stages :
          src'[b][t] = IF b = r[1] /\ t = r[2] THEN <<d, s>> ELSE src[b][t]
    BY <2>1, <2>2 DEF Types, NetTypes
  <2> QED
    BY <2>2, <2>3, <2>4 DEF NetMove, SockMove, SrcMove
<1> QED
  BY <1>1, <1>2 DEF Connect

LEMMA DeliverMove ==
  ASSUME Types, NEW d, NEW s, NEW r \in Peer(d, s), NEW items, Deliver(r, d, items),
         UNCHANGED src
  PROVE  NetMove
<1>1. r[1] \in Attempts /\ r[2] \in Stages /\ sock[r[1]][r[2]] = "open"
  BY DEF Peer
<1>2. \E st \in Closed : SetSock(r[1], r[2], st)
  BY DEF Deliver, Closed
<1> QED
  BY <1>1, <1>2, SetSockMove DEF NetMove, SockMove, SrcMove, Closed, Unfinished

LEMMA NetMoves == Types /\ [Next]_vars => NetMove
<1> SUFFICES ASSUME Types, [Next]_vars PROVE NetMove
  OBVIOUS
<1>1. ASSUME UNCHANGED <<sock, src>> PROVE NetMove
  BY <1>1 DEF NetMove, SockMove, SrcMove
<1>2. CASE StartServer \/ Crash \/ Abort \/ StartDonor \/ UNCHANGED vars
  BY <1>1, <1>2 DEF StartServer, Crash, Abort, StartDonor, vars, netVars
<1>3. ASSUME NEW a \in Attempts, BindGtid(a) PROVE NetMove
  <2>1. CASE SetSock(a, "gtid", "listen")
    <3>1. Forward(a, "bind", "gtid") \/ UNCHANGED sock
      BY <1>3, <2>1 DEF BindGtid, Forward, GoTo, Types, JoinerTypes
    <3> QED
      BY <1>1, <1>3, <2>1, <3>1, SetSockMove DEF NetMove, SockMove, SrcMove, BindGtid, Stages
  <2> QED
    BY <1>1, <1>3, <2>1 DEF BindGtid
<1>4. ASSUME NEW a \in Attempts, MakeSst(a) PROVE NetMove
  <2>1. Forward(a, "mksst", "clean")
    BY <1>4 DEF MakeSst, Forward, GoTo, Types, JoinerTypes
  <2> QED
    BY <1>4, <2>1, SetSockMove DEF NetMove, SockMove, SrcMove, MakeSst, Stages
<1>5. ASSUME NEW a \in Attempts, ReceiverEnter(a) \/ ReceiverBind(a) PROVE NetMove
  BY <1>5, SetSockMove DEF NetMove, SockMove, SrcMove, ReceiverEnter, ReceiverBind,
     Stages, Unfinished
<1>6. ASSUME NEW a \in Attempts, GtidTimeout(a) PROVE NetMove
  BY <1>6, SetSockMove DEF NetMove, SockMove, SrcMove, GtidTimeout, Stages, Unfinished
<1>7. ASSUME NEW a \in Attempts, KillLeftOver(a) PROVE NetMove
  <2>1. \A b \in Attempts, t \in Stages :
          sock'[b][t] = IF b = a /\ sock[b][t] \in Unfinished THEN "broken" ELSE sock[b][t]
    BY <1>7 DEF KillLeftOver, Types, NetTypes
  <2>2. UNCHANGED src
    BY <1>7 DEF KillLeftOver
  <2> QED
    BY <1>7, <2>1, <2>2 DEF NetMove, SockMove, SrcMove
<1>8. ASSUME NEW a \in Attempts,
             StopWaiting(a) \/ CheckPid(a) \/ WritePid(a) \/ GtidReceived(a)
             \/ CheckParent(a) \/ RemoveStale(a) \/ FindOld(a) \/ RemoveOld(a)
             \/ Monitor(a) \/ CheckBackup(a) \/ Prepare(a) \/ FindBackup(a)
             \/ MoveBack(a) \/ RemoveMoved(a) \/ PrintCoords(a) \/ Ready(a)
             \/ Terminate(a) \/ DonorWake(a) \/ DonorStream(a)
      PROVE  NetMove
  BY <1>1, <1>8 DEF StopWaiting, CheckPid, WritePid, GtidReceived, CheckParent,
     RemoveStale, RmSst, FindOld, RemoveOld, Monitor, CheckBackup, Prepare, FindBackup,
     MoveBack, RemoveMoved, PrintCoords, Ready, Terminate, DonorWake, DonorStream, netVars
<1>9. ASSUME NEW d \in Attempts, DonorConnectGtid(d) \/ DonorConnectData(d) PROVE NetMove
  BY <1>9, ConnectMove DEF DonorConnectGtid, DonorConnectData, Stages, BeforeSend
<1>10. ASSUME NEW d \in Attempts, DonorSendGtid(d) \/ DonorFinish(d) PROVE NetMove
  <2>1. CASE UNCHANGED <<sock, src>>
    BY <1>1, <2>1
  <2>2. CASE \E s \in Stages : \E r \in Peer(d, s) : \E items : Deliver(r, d, items)
    BY <1>10, <2>2, DeliverMove DEF DonorSendGtid, DonorFinish
  <2> QED
    BY <1>10, <2>1, <2>2 DEF DonorSendGtid, DonorFinish, Stages
<1>11. ASSUME NEW d \in Attempts, DonorLosesTail(d) PROVE NetMove
  <2>1. PICK r \in Peer(d, "data") : SetSock(r[1], r[2], "broken")
    BY <1>11 DEF DonorLosesTail
  <2>2. r[1] \in Attempts /\ r[2] \in Stages /\ sock[r[1]][r[2]] = "open"
    BY <2>1 DEF Peer
  <2> QED
    BY <1>11, <2>1, <2>2, SetSockMove DEF NetMove, SockMove, SrcMove, DonorLosesTail, Unfinished
<1>12. ASSUME NEW d \in Attempts, DonorBreaks(d) PROVE NetMove
  <2>1. \A b \in Attempts, t \in Stages :
          sock'[b][t] = sock[b][t] \/ (sock'[b][t] = "broken" /\ sock[b][t] = "open")
    BY <1>12 DEF DonorBreaks, Peer
  <2> QED
    BY <1>12, <2>1 DEF NetMove, SockMove, SrcMove, DonorBreaks, Unfinished
<1> QED
  BY <1>2, <1>3, <1>4, <1>5, <1>6, <1>7, <1>8, <1>9, <1>10, <1>11, <1>12
  DEF Next, JoinerStep, DonorStep

\* Where a joiner script goes, and what it must have found.
JoinerMove(a) ==
  \/ jpc'[a] = jpc[a]
  \/ StartServer /\ a = att + 1 /\ jpc'[a] = "wait"
  \/ Alive(a) /\ jpc'[a] = "failed"
  \/ Forward(a, "wait", "pid") \/ Forward(a, "pid", "bind")
  \/ Forward(a, "bind", "gtid") /\ sock'[a]["gtid"] = "listen"
  \/ Forward(a, "gtid", "parent") /\ UNCHANGED sock
  \/ Forward(a, "parent", IF IstSelected(a) THEN "coords" ELSE "rmsst")
     /\ UNCHANGED sock
  \/ Forward(a, "rmsst", "mksst") /\ sst' = 0
  \/ Forward(a, "mksst", "clean") /\ sst' = IF sst = 0 THEN a ELSE sst
  \/ Forward(a, "clean", "cleaning") \/ Forward(a, "cleaning", "monitor")
  \/ Forward(a, "monitor", "check") /\ sock[a]["data"] \in Closed
  \/ Forward(a, "check", "prepare") \/ Forward(a, "prepare", "move")
  \/ /\ Forward(a, "move", "moving") /\ backup["prepared"] # 0
     /\ left'[a] = {f \in DataFiles : backup[f] # 0}
  \/ Forward(a, "moving", "finish") /\ left[a] = {}
  \/ Forward(a, "finish", "coords")
  \/ Forward(a, "coords", "ok") /\ coords'[a] = Magic(a) /\ Magic(a) # NoData

\* A file is moved from .sst to the datadir.
FileMoved(a) ==
  /\ jpc[a] = "moving" /\ jpc'[a] = "moving"
  /\ \E f \in left[a] :
       /\ backup[f] # 0 /\ data[f] = NoData
       /\ data' = [data EXCEPT ![f] = backup[f]]
       /\ backup' = [backup EXCEPT ![f] = 0]
       /\ left' = [left EXCEPT ![a] = @ \ {f}]

DataMove ==
  \/ UNCHANGED data \/ RemoveInfo
  \/ \E a \in Attempts : \/ FileMoved(a)
                         \/ /\ jpc[a] = "cleaning"
                            /\ \A f \in DataFiles : data'[f] \in {NoData, data[f]}

LeftMove(a) ==
  \/ left'[a] = left[a] \/ jpc[a] \in {"clean", "cleaning", "move"} \/ FileMoved(a)

DiskMove ==
  /\ \/ sst' = sst
     \/ \E a \in Attempts : \/ Forward(a, "rmsst", "mksst") \/ Forward(a, "mksst", "clean")
                            \/ Forward(a, "finish", "coords")
  /\ DataMove
  /\ \A a \in Attempts : LeftMove(a) /\ (coords'[a] = coords[a] \/ Forward(a, "coords", "ok"))

ScriptMove == (\A a \in Attempts : JoinerMove(a)) /\ DiskMove

\* A script that fails, or one that goes on with its own state alone.
LEMMA FailMove ==
  ASSUME Types, NEW a \in Attempts, Fail(a), Alive(a), UNCHANGED coords
  PROVE  ScriptMove
BY DEF ScriptMove, JoinerMove, DiskMove, DataMove, LeftMove, Fail, GoTo, Types, JoinerTypes

LEMMA ScriptMoves == Types /\ [Next]_vars => ScriptMove
<1> SUFFICES ASSUME Types, [Next]_vars PROVE ScriptMove
  OBVIOUS
<1>0. jpc \in [Attempts -> JoinerStates] /\ coords \in [Attempts -> States]
  BY DEF Types, JoinerTypes
<1>1. ASSUME UNCHANGED <<jpc, sst, data, left, coords>> PROVE ScriptMove
  BY <1>1 DEF ScriptMove, JoinerMove, DiskMove, DataMove, LeftMove
<1>2. CASE StartServer
  BY <1>0, <1>2 DEF StartServer, ScriptMove, JoinerMove, DiskMove, DataMove, LeftMove
<1>3. CASE Crash \/ Abort \/ StartDonor \/ UNCHANGED vars
  BY <1>1, <1>3 DEF Crash, Abort, StartDonor, vars, diskVars
<1>4. ASSUME NEW a \in Attempts,
             StopWaiting(a) \/ CheckPid(a) \/ WritePid(a) \/ MakeSst(a)
      PROVE  ScriptMove
  BY <1>0, <1>4 DEF StopWaiting, CheckPid, WritePid, MakeSst, diskVars, GoTo,
     ScriptMove, JoinerMove, Forward, DiskMove, DataMove, LeftMove, Alive, Over
<1>5. ASSUME NEW a \in Attempts, NEW pc, NEW next, GoTo(a, next), jpc[a] = pc,
             <<pc, next>> \in {<<"rmsst", "mksst">>, <<"finish", "coords">>}, sst' = 0,
             UNCHANGED <<data, left, coords>>
      PROVE  ScriptMove
  BY <1>0, <1>5 DEF GoTo, ScriptMove, JoinerMove, Forward, DiskMove, DataMove, LeftMove
<1>6. ASSUME NEW a \in Attempts, BindGtid(a) PROVE ScriptMove
  <2>1. CASE Fail(a)
    BY <1>6, <2>1, FailMove DEF BindGtid, Alive, Over
  <2>2. CASE ~Fail(a)
    <3>1. sock'[a]["gtid"] = "listen"
      BY <1>6, <2>2, SetSockMove DEF BindGtid, Stages
    <3> QED
      BY <1>0, <1>6, <2>2, <3>1 DEF BindGtid, GoTo, diskVars, ScriptMove, JoinerMove,
         Forward, DiskMove, DataMove, LeftMove
  <2> QED
    BY <2>1, <2>2
<1>7. ASSUME NEW a \in Attempts, ~Fail(a),
             GtidReceived(a) \/ CheckParent(a) \/ Monitor(a) \/ CheckBackup(a)
             \/ Prepare(a)
      PROVE  ScriptMove
  BY <1>0, <1>7 DEF GtidReceived, CheckParent, Monitor, CheckBackup, Prepare,
     GoTo, diskVars, netVars, ScriptMove, JoinerMove, Forward, DiskMove, DataMove, LeftMove,
     Closed
<1>8. ASSUME NEW a \in Attempts, FindOld(a) \/ (FindBackup(a) /\ ~Fail(a))
      PROVE  ScriptMove
  <2>1. left \in [Attempts -> SUBSET (DataFiles \union {"pid"})]
    BY DEF Types, DiskTypes
  <2> QED
    BY <1>0, <1>8, <2>1 DEF FindOld, FindBackup, GoTo, ScriptMove, JoinerMove, Forward,
       DiskMove, DataMove, LeftMove
<1>9. ASSUME NEW a \in Attempts, RemoveOld(a) PROVE ScriptMove
  <2>1. \A b \in Attempts : left'[b] = left[b] \/ b = a
    BY <1>9 DEF RemoveOld, Types, DiskTypes
  <2>2. \A b \in Attempts : LeftMove(b)
    BY <1>9, <2>1 DEF RemoveOld, LeftMove
  <2>3. \A f \in DataFiles : data'[f] \in {NoData, data[f]}
    BY <1>9 DEF RemoveOld
  <2>4. DiskMove
    BY <1>9, <2>2, <2>3 DEF RemoveOld, DiskMove, DataMove
  <2>5. \A b \in Attempts : JoinerMove(b)
    BY <1>0, <1>9 DEF RemoveOld, GoTo, JoinerMove, Forward
  <2> QED
    BY <2>4, <2>5 DEF ScriptMove
<1>10. ASSUME NEW a \in Attempts, ~Fail(a), MoveBack(a) PROVE ScriptMove
  <2>1. CASE UNCHANGED jpc
    <3>1. FileMoved(a) /\ UNCHANGED <<sst, coords>>
      BY <1>10, <2>1 DEF MoveBack, FileMoved, GoTo, Types, JoinerTypes
    <3>2. \A b \in Attempts : left'[b] = left[b] \/ b = a
      BY <3>1 DEF FileMoved, Types, DiskTypes
    <3> QED
      BY <2>1, <3>1, <3>2 DEF ScriptMove, JoinerMove, DiskMove, DataMove, LeftMove
  <2>2. CASE ~UNCHANGED jpc
    BY <1>0, <1>10, <2>2 DEF MoveBack, GoTo, diskVars, ScriptMove, JoinerMove, Forward,
       DiskMove, DataMove, LeftMove
  <2> QED
    BY <2>1, <2>2
<1>11. ASSUME NEW a \in Attempts, ~Fail(a), PrintCoords(a) PROVE ScriptMove
  BY <1>0, <1>11 DEF PrintCoords, GoTo, ScriptMove, JoinerMove, Forward, DiskMove,
     DataMove, LeftMove
<1>12. ASSUME NEW a \in Attempts, Fail(a),
              GtidReceived(a) \/ CheckParent(a) \/ RemoveStale(a) \/ Monitor(a)
              \/ CheckBackup(a) \/ Prepare(a) \/ FindBackup(a) \/ MoveBack(a)
              \/ RemoveMoved(a) \/ PrintCoords(a) \/ Terminate(a)
       PROVE  ScriptMove
  <2>1. (Alive(a) /\ UNCHANGED coords) \/ PrintCoords(a)
    BY <1>12 DEF GtidReceived, CheckParent, RemoveStale, Monitor, CheckBackup, Prepare,
       FindBackup, MoveBack, RemoveMoved, RmSst, Terminate, Alive, Over
  <2>2. CASE PrintCoords(a)
    BY <1>0, <1>12, <2>2 DEF PrintCoords, Fail, GoTo, ScriptMove, JoinerMove, DiskMove,
       DataMove, LeftMove, Alive, Over
  <2> QED
    BY <1>12, <2>1, <2>2, FailMove
<1>13. ASSUME NEW a \in Attempts, ~Fail(a), RemoveStale(a) \/ RemoveMoved(a)
       PROVE  ScriptMove
  BY <1>5, <1>13 DEF RemoveStale, RemoveMoved, RmSst
<1>14. ASSUME NEW a \in Attempts, KillLeftOver(a) PROVE ScriptMove
  BY <1>0, <1>14 DEF KillLeftOver, diskVars, ScriptMove, JoinerMove, DiskMove, DataMove,
     LeftMove
<1>15. ASSUME NEW a \in Attempts,
              Ready(a) \/ GtidTimeout(a) \/ ReceiverEnter(a) \/ ReceiverBind(a)
              \/ DonorStep(a)
       PROVE  ScriptMove
  BY <1>1, <1>15 DEF Ready, GtidTimeout, ReceiverEnter, ReceiverBind, DonorStep, DonorWake,
     DonorConnectGtid, DonorConnectData, DonorSendGtid, DonorStream,
     DonorFinish, DonorBreaks, DonorLosesTail, diskVars
<1> QED
  BY <1>2, <1>3, <1>4, <1>6, <1>7, <1>8, <1>9, <1>10, <1>11, <1>12, <1>13, <1>14,
     <1>15 DEF Next, JoinerStep, Terminate

\* A donor goes on when a socket has taken its stream.
Accepted(d, s) == \E r \in Listening : /\ sock'[r[1]][r[2]] = "open"
                                       /\ src'[r[1]][r[2]] = <<d, s>>

DonorMove(d) ==
  \/ UNCHANGED <<dpc[d], bypass[d]>>
  \/ StartDonor /\ d = att /\ dpc'[d] = "gtid"
  \/ /\ bypass'[d] = bypass[d] /\ dpc[d] # "none"
     /\ \/ dpc'[d] = "failed"
        \/ dpc[d] = "gtid" /\ dpc'[d] = "gtidSend" /\ Accepted(d, "gtid")
        \/ dpc[d] = "gtidSend" /\ dpc'[d] = IF bypass[d] THEN "done" ELSE "sleep"
        \/ dpc[d] = "sleep" /\ dpc'[d] = "connect"
        \/ dpc[d] = "connect" /\ dpc'[d] = "data" /\ Accepted(d, "data")
        \/ dpc[d] = "data" /\ dpc'[d] = "done"

LEMMA ConnectAccepted ==
  ASSUME Types, NEW d \in Attempts, NEW s \in Stages, NEW pc, Connect(d, s, pc),
         dpc'[d] # "failed"
  PROVE  Accepted(d, s) /\ dpc'[d] = pc
<1>1. Listening # {}
  BY DEF Connect, DonorGoTo, Types, DonorTypes
<1>2. PICK r \in Listening : /\ SetSock(r[1], r[2], "open")
                             /\ src' = [src EXCEPT ![r[1]][r[2]] = <<d, s>>]
                             /\ DonorGoTo(d, pc)
  BY <1>1 DEF Connect
<1>3. r[1] \in Attempts /\ r[2] \in Stages
  BY <1>2 DEF Listening
<1>4. sock'[r[1]][r[2]] = "open" /\ src'[r[1]][r[2]] = <<d, s>>
  BY <1>2, <1>3 DEF SetSock, Types, NetTypes
<1> QED
  BY <1>2, <1>4 DEF Accepted, DonorGoTo, Types, DonorTypes

LEMMA DonorMoves == Types /\ [Next]_vars => \A d \in Attempts : DonorMove(d)
<1> SUFFICES ASSUME Types, [Next]_vars, NEW d \in Attempts PROVE DonorMove(d)
  OBVIOUS
<1>0. dpc \in [Attempts -> DonorStates] /\ bypass \in [Attempts -> BOOLEAN]
  BY DEF Types, DonorTypes
<1>1. ASSUME UNCHANGED <<dpc, bypass>> PROVE DonorMove(d)
  BY <1>1 DEF DonorMove
<1>2. CASE StartServer \/ Crash \/ Abort \/ UNCHANGED vars
  BY <1>1, <1>2 DEF StartServer, Crash, Abort, vars, donorVars
<1>3. CASE StartDonor
  BY <1>0, <1>3 DEF StartDonor, DonorMove
<1>4. ASSUME NEW a \in Attempts,
             JoinerStep(a) \/ Ready(a) \/ GtidTimeout(a) \/ ReceiverBind(a)
             \/ ReceiverEnter(a) \/ Terminate(a) \/ KillLeftOver(a)
      PROVE  DonorMove(d)
  BY <1>1, <1>4 DEF JoinerStep, StopWaiting, CheckPid, WritePid, BindGtid, GtidReceived,
     CheckParent, RemoveStale, RmSst, MakeSst, FindOld, RemoveOld, Monitor, CheckBackup,
     Prepare, FindBackup, MoveBack, RemoveMoved, PrintCoords, Ready, GtidTimeout,
     ReceiverEnter, ReceiverBind, Terminate, KillLeftOver, donorVars
<1>5. ASSUME NEW e \in Attempts, DonorStep(e), e # d PROVE DonorMove(d)
  <2>1. bypass' = bypass /\ \E pc : dpc' = [dpc EXCEPT ![e] = pc] \/ UNCHANGED dpc
    BY <1>5 DEF DonorStep, DonorWake, DonorConnectGtid, DonorConnectData, DonorSendGtid,
       DonorStream, DonorFinish, DonorBreaks, DonorLosesTail, DonorGoTo, Connect
  <2> QED
    BY <1>0, <1>5, <2>1 DEF DonorMove
<1>6. CASE DonorConnectGtid(d) \/ DonorConnectData(d)
  BY <1>6, ConnectAccepted DEF DonorConnectGtid, DonorConnectData, DonorMove, Stages
<1>7. CASE DonorSendGtid(d)
  BY <1>0, <1>7 DEF DonorSendGtid, DonorGoTo, DonorMove
<1>8. CASE DonorWake(d) \/ DonorStream(d) \/ DonorFinish(d) \/ DonorBreaks(d)
           \/ DonorLosesTail(d)
  BY <1>0, <1>8 DEF DonorWake, DonorStream, DonorFinish, DonorBreaks, DonorLosesTail,
     DonorGoTo, DonorMove
<1> QED
  BY <1>2, <1>3, <1>4, <1>5, <1>6, <1>7, <1>8 DEF Next, DonorStep

\* What becomes of .sst: it is emptied, moved out, prepared, or filled with
\* what the donor of the open stream has sent.
Filled(a) ==
  /\ sock[a]["data"] = "open" /\ UNCHANGED jpc
  /\ Origin(a) \in Attempts
  /\ \A i \in BackupItems : backup'[i] \in {backup[i], Origin(a)}
  /\ backup'["prepared"] = backup["prepared"]
  /\ backup'["checkpoints"] # backup["checkpoints"]
     => src[a]["data"] = <<Origin(a), "data">> /\ sent[Origin(a)] = Files

Prepared(a) ==
  /\ Forward(a, "prepare", "move") /\ HasCheckpoints
  /\ \A i \in BackupItems :
       backup'[i] = IF i = "prepared" THEN backup["checkpoints"] ELSE backup[i]

BackupMove ==
  \/ UNCHANGED backup
  \/ \E a \in Attempts : \/ Forward(a, "rmsst", "mksst") \/ Forward(a, "finish", "coords")
                         \/ Alive(a) /\ jpc'[a] = "failed"
                         \/ FileMoved(a) \/ Prepared(a) \/ Filled(a)

\* What a donor has sent to an open receiver of the data is in .sst.
SentMove(d) ==
  \/ sent'[d] = sent[d]
  \/ /\ dpc[d] = "data" /\ dpc'[d] = "data" /\ UNCHANGED jpc
     /\ \E f \in Files, r \in Peer(d, "data") :
          /\ sent'[d] = sent[d] \union {f}
          /\ r[2] = "data" => backup'[f] = d

LEMMA ExtractMove ==
  ASSUME Types, NEW d \in Attempts, NEW s \in Stages, NEW r \in Peer(d, s), NEW items,
         Extract(r, d, items), UNCHANGED jpc, "prepared" \notin items,
         "checkpoints" \in items => s = "data" /\ sent[d] = Files
  PROVE  BackupMove
<1>1. r[1] \in Attempts /\ r[2] \in Stages /\ sock[r[1]][r[2]] = "open"
      /\ src[r[1]][r[2]] = <<d, s>>
  BY DEF Peer
<1>2. CASE r[2] = "gtid"
  BY <1>2 DEF Extract, BackupMove
<1>3. CASE r[2] = "data"
  <2>1. \A i \in BackupItems : backup'[i] = IF i \in items THEN d ELSE backup[i]
    BY <1>3 DEF Extract
  <2>2. Origin(r[1]) = d /\ src[r[1]]["data"] = <<Origin(r[1]), s>>
    BY <1>1, <1>3 DEF Origin
  <2>3. "prepared" \in BackupItems /\ "checkpoints" \in BackupItems
    BY DEF BackupItems
  <2>4. Filled(r[1])
    BY <1>1, <1>3, <2>1, <2>2, <2>3 DEF Filled
  <2> QED
    BY <1>1, <2>4 DEF BackupMove
<1> QED
  BY <1>1, <1>2, <1>3 DEF Stages

LEMMA BackupMoves == Types /\ [Next]_vars => BackupMove
<1> SUFFICES ASSUME Types, [Next]_vars PROVE BackupMove
  OBVIOUS
<1>0. jpc \in [Attempts -> JoinerStates] /\ backup \in [BackupItems -> 0..MaxAttempts]
  BY DEF Types, JoinerTypes, DiskTypes
<1>1. ASSUME UNCHANGED backup PROVE BackupMove
  BY <1>1 DEF BackupMove
<1>2. ASSUME NEW a \in Attempts, Fail(a), Alive(a) PROVE BackupMove
  BY <1>0, <1>2 DEF Fail, GoTo, BackupMove
<1>3. CASE StartServer \/ Crash \/ Abort \/ StartDonor \/ UNCHANGED vars
  BY <1>1, <1>3 DEF StartServer, Crash, Abort, StartDonor, vars, diskVars
<1>4. ASSUME NEW a \in Attempts,
             \/ StopWaiting(a) \/ CheckPid(a) \/ WritePid(a) \/ BindGtid(a)
             \/ GtidReceived(a) \/ CheckParent(a) \/ MakeSst(a) \/ FindOld(a)
             \/ RemoveOld(a) \/ Monitor(a) \/ CheckBackup(a) \/ FindBackup(a)
             \/ PrintCoords(a) \/ Terminate(a)
      PROVE  BackupMove
  <2>1. UNCHANGED backup \/ (Fail(a) /\ Alive(a))
    BY <1>4 DEF StopWaiting, CheckPid, WritePid, BindGtid, GtidReceived, CheckParent,
       MakeSst, FindOld, RemoveOld, Monitor, CheckBackup, FindBackup, PrintCoords,
       Terminate, diskVars, Alive, Over
  <2> QED
    BY <1>1, <1>2, <2>1
<1>5. ASSUME NEW a \in Attempts, RemoveStale(a) \/ RemoveMoved(a) PROVE BackupMove
  <2>1. CASE Fail(a)
    BY <1>2, <1>5, <2>1 DEF RemoveStale, RemoveMoved, Alive, Over
  <2>2. CASE ~Fail(a)
    BY <1>0, <1>5, <2>2 DEF RemoveStale, RemoveMoved, RmSst, GoTo, BackupMove, Forward
  <2> QED
    BY <2>1, <2>2
<1>6. ASSUME NEW a \in Attempts, Prepare(a) PROVE BackupMove
  <2>1. CASE Fail(a)
    BY <1>2, <1>6, <2>1 DEF Prepare, Alive, Over
  <2>2. CASE ~Fail(a)
    <3>1. Prepared(a)
      BY <1>0, <1>6, <2>2 DEF Prepare, GoTo, Forward, Prepared
    <3> QED
      BY <3>1 DEF BackupMove
  <2> QED
    BY <2>1, <2>2
<1>7. ASSUME NEW a \in Attempts, MoveBack(a) PROVE BackupMove
  <2>1. CASE Fail(a)
    BY <1>2, <1>7, <2>1 DEF MoveBack, Alive, Over
  <2>2. CASE ~Fail(a)
    <3>1. FileMoved(a) \/ UNCHANGED backup
      BY <1>0, <1>7, <2>2 DEF MoveBack, FileMoved, diskVars
    <3> QED
      BY <3>1 DEF BackupMove
  <2> QED
    BY <2>1, <2>2
<1>8. ASSUME NEW a \in Attempts,
             Ready(a) \/ GtidTimeout(a) \/ ReceiverEnter(a) \/ ReceiverBind(a)
             \/ KillLeftOver(a) \/ DonorConnectGtid(a) \/ DonorWake(a)
             \/ DonorConnectData(a) \/ DonorBreaks(a) \/ DonorLosesTail(a)
      PROVE  BackupMove
  BY <1>1, <1>8 DEF Ready, GtidTimeout, ReceiverEnter, ReceiverBind, KillLeftOver,
     DonorConnectGtid, DonorWake, DonorConnectData, DonorBreaks, DonorLosesTail, diskVars
<1>9. ASSUME NEW d \in Attempts, DonorSendGtid(d) PROVE BackupMove
  <2>1. UNCHANGED backup
        \/ \E r \in Peer(d, "gtid") : Extract(r, d, GtidItems(d)) /\ UNCHANGED jpc
    BY <1>9 DEF DonorSendGtid, Deliver
  <2>2. "prepared" \notin GtidItems(d) /\ "checkpoints" \notin GtidItems(d)
    BY DEF GtidItems
  <2> QED
    BY <1>1, <2>1, <2>2, ExtractMove DEF Stages
<1>10. ASSUME NEW d \in Attempts, DonorStream(d) PROVE BackupMove
  <2>1. PICK r \in Peer(d, "data"), f \in Files : Extract(r, d, {f}) /\ UNCHANGED jpc
    BY <1>10 DEF DonorStream
  <2>2. "prepared" \notin {f} /\ "checkpoints" \notin {f}
    BY SSTAssumption
  <2> QED
    BY <2>1, <2>2, ExtractMove DEF Stages
<1>11. ASSUME NEW d \in Attempts, DonorFinish(d) PROVE BackupMove
  <2>1. UNCHANGED jpc /\ sent[d] = Files
        /\ \E r \in Peer(d, "data") :
             UNCHANGED backup \/ Extract(r, d, {"info", "checkpoints"})
    BY <1>11 DEF DonorFinish, Deliver
  <2> QED
    BY <1>1, <2>1, ExtractMove DEF Stages
<1> QED
  BY <1>3, <1>4, <1>5, <1>6, <1>7, <1>8, <1>9, <1>10, <1>11
  DEF Next, JoinerStep, DonorStep, Terminate

LEMMA SentMoves == Types /\ [Next]_vars => \A d \in Attempts : SentMove(d)
<1> SUFFICES ASSUME Types, [Next]_vars, NEW d \in Attempts PROVE SentMove(d)
  OBVIOUS
<1>1. CASE UNCHANGED sent
  BY <1>1 DEF SentMove
<1>2. CASE \E e \in Attempts : DonorStream(e)
  <2>0. PICK e \in Attempts : DonorStream(e)
    BY <1>2
  <2>1. PICK r \in Peer(e, "data"), f \in Files :
          /\ dpc[e] = "data" /\ UNCHANGED <<dpc, jpc>> /\ Extract(r, e, {f})
          /\ sent' = [sent EXCEPT ![e] = @ \union {f}]
    BY <2>0 DEF DonorStream
  <2>2. f \in BackupItems
    BY DEF BackupItems, DataFiles
  <2>3. r[2] = "data" => backup'[f] = e
    BY <2>1, <2>2 DEF Extract
  <2>4. CASE d = e
    BY <2>1, <2>3, <2>4 DEF SentMove, Types, DonorTypes
  <2>5. CASE d # e
    BY <2>1, <2>5 DEF SentMove, Types, DonorTypes
  <2> QED
    BY <2>4, <2>5
<1>3. UNCHANGED sent \/ \E e \in Attempts : DonorStream(e)
  BY DEF Next, vars, donorVars, JoinerStep, DonorStep, StartServer, Crash, Abort, StartDonor,
     StopWaiting, CheckPid, WritePid, BindGtid, GtidReceived, CheckParent, RemoveStale,
     RmSst, MakeSst, FindOld, RemoveOld, Monitor, CheckBackup, Prepare, FindBackup,
     MoveBack, RemoveMoved, PrintCoords, Ready, GtidTimeout, ReceiverEnter, ReceiverBind,
     Terminate, KillLeftOver, DonorWake, DonorConnectGtid, DonorConnectData,
     DonorSendGtid, DonorFinish, DonorBreaks, DonorLosesTail
<1> QED
  BY <1>1, <1>2, <1>3

-----------------------------------------------------------------------------
(***************************************************************************)
(* The invariant is kept.                                                  *)
(***************************************************************************)
Moves ==
  /\ NetMove /\ NetStep /\ ScriptMove /\ BackupMove
  /\ \A d \in Attempts : DonorMove(d) /\ SentMove(d)

\* Only the current attempt has anything running, so it alone moves.
LEMMA OthersRest ==
  ASSUME Types, PairInv, Moves, ~StartServer, NEW a \in Attempts, a # att
  PROVE  /\ jpc'[a] = jpc[a] /\ ~Alive(a)
         /\ \A s \in Stages : sock'[a][s] = sock[a][s] /\ sock[a][s] \notin Unfinished
<1>1. ~Alive(a) /\ \A s \in Stages : sock[a][s] \notin Unfinished
  BY DEF PairInv, Receivers, LeftOver
<1>2. jpc[a] \in {"none", "ok", "failed"} /\ JoinerMove(a)
  BY <1>1 DEF Alive, Over, Moves, ScriptMove
<1>3. jpc'[a] = jpc[a]
  BY <1>1, <1>2 DEF JoinerMove, Forward
<1>4. \A s \in Stages : SockMove(a, s)
  BY DEF Moves, NetMove
<1>5. \A s \in Stages : sock'[a][s] = sock[a][s]
  BY <1>1, <1>2, <1>4 DEF SockMove, Forward, Unfinished
<1> QED
  BY <1>1, <1>3, <1>5

LEMMA ReceiversNext ==
  ASSUME CleanRestart, IInv, PairInv, Moves, att' = att \/ StartServer, NEW a \in Attempts
  PROVE  Receivers(a)'
<1>0. /\ Types /\ Receivers(a) /\ Stage(a) /\ "gtid" \in Stages /\ "data" \in Stages
      /\ SockMove(a, "gtid") /\ SockMove(a, "data") /\ JoinerMove(a) /\ DonorMove(a)
      /\ att \in Nat /\ Attempts \subseteq Nat
  BY SSTAssumption
  DEF IInv, StageInv, PairInv, Moves, NetMove, ScriptMove, Stages, Types, ServerTypes, Attempts
<1>1. CASE StartServer
  <2>1. /\ att' = att + 1 /\ UNCHANGED <<sock, stat, dpc>>
        /\ jpc'[a] = IF a = att + 1 THEN "wait" ELSE jpc[a]
    BY <1>0, <1>1 DEF StartServer, netVars, donorVars, Types, JoinerTypes
  <2>2. ~LeftOver(a)
    BY <1>1 DEF StartServer
  <2>3. a = att + 1 => jpc[a] = "none"
    BY <1>0 DEF Stage
  <2> QED
    BY <1>0, <2>1, <2>2, <2>3 DEF Receivers, LeftOver, Alive, BeforeGtid, BeforeData,
       IstSelected
<1>2. CASE ~StartServer
  <2>0. att' = att
    BY <1>2
  <2>1. a # att => ~LeftOver(a)'
    <3> SUFFICES ASSUME a # att PROVE ~LeftOver(a)'
      OBVIOUS
    <3>1. ~LeftOver(a)
      BY <1>0 DEF Receivers
    <3>2. jpc'[a] = jpc[a] /\ \A s \in Stages : sock'[a][s] = sock[a][s]
      BY <1>0, <1>2, OthersRest
    <3> QED
      BY <3>1, <3>2 DEF LeftOver, Alive
  <2>2. a > att => dpc'[a] = "none"
    BY <1>0 DEF Receivers, DonorMove
  <2>3. jpc'[a] \in BeforeGtid => sock'[a]["gtid"] = "none"
    <3>1. jpc'[a] \in BeforeGtid => jpc[a] \in BeforeGtid
      BY <1>0, <1>2 DEF JoinerMove, Forward, BeforeGtid
    <3> QED
      BY <1>0, <3>1 DEF SockMove, Forward, BeforeGtid, Receivers, Unfinished
  <2>4. jpc'[a] \in BeforeData => sock'[a]["data"] = "none"
    <3>1. jpc'[a] \in BeforeData => jpc[a] \in BeforeData
      BY <1>0, <1>2 DEF JoinerMove, Forward, BeforeGtid, BeforeData
    <3> QED
      BY <1>0, <3>1 DEF SockMove, Forward, BeforeGtid, BeforeData, Receivers, Unfinished
  <2>5. ASSUME sock'[a]["data"] # "none"
        PROVE  sock'[a]["gtid"] \in Closed /\ ~IstSelected(a)'
    <3>1. sock[a]["gtid"] \in Closed /\ ~IstSelected(a)
      <4>1. CASE sock[a]["data"] # "none"
        BY <1>0, <4>1 DEF Receivers
      <4>2. CASE sock[a]["data"] = "none"
        <5>1. jpc[a] = "mksst"
          BY <1>0, <2>5, <4>2 DEF SockMove, Forward, Unfinished
        <5> QED
          BY <1>0, <5>1 DEF Stage, AfterGtid, TakesBackup, Closed
      <4> QED
        BY <4>1, <4>2
    <3>2. jpc[a] # "bind" /\ sock[a]["gtid"] # "open"
      BY <1>0, <3>1 DEF Receivers, BeforeGtid, Closed
    <3> QED
      BY <3>1, <3>2 DEF Moves, NetStep, SockStep, DirStep
  <2> QED
    BY <2>0, <2>1, <2>2, <2>3, <2>4, <2>5 DEF Receivers
<1> QED
  BY <1>1, <1>2

\* The socket that takes a stream is one of the current attempt.
LEMMA OwnSocket ==
  ASSUME PairInv, NEW d \in Attempts, NEW s \in Stages, Accepted(d, s)
  PROVE  \E t \in Stages : /\ sock[att][t] = "listen"
                           /\ sock'[att][t] = "open" /\ src'[att][t] = <<d, s>>
<1>1. PICK r \in Listening : sock'[r[1]][r[2]] = "open" /\ src'[r[1]][r[2]] = <<d, s>>
  BY DEF Accepted
<1>2. r[1] \in Attempts /\ r[2] \in Stages /\ sock[r[1]][r[2]] = "listen"
  BY DEF Listening
<1>3. r[1] = att
  BY <1>2 DEF PairInv, Receivers, LeftOver, Unfinished
<1> QED
  BY <1>1, <1>2, <1>3

LEMMA StreamsNext ==
  ASSUME PairInv, Moves, ~StartServer, UNCHANGED att, att \in Attempts
  PROVE  Streams(att)'
<1>0. /\ Receivers(att) /\ Streams(att) /\ DonorMove(att)
      /\ SockMove(att, "gtid") /\ SockMove(att, "data") /\ SrcMove(att, "data")
  BY DEF PairInv, Moves, NetMove, Stages
<1>1. ASSUME dpc'[att] \in DonorSends PROVE sock'[att]["gtid"] \in Taken
  <2>1. CASE sock[att]["gtid"] \in Taken
    <3>1. jpc[att] # "bind"
      BY <1>0, <2>1 DEF Receivers, BeforeGtid, Taken, Closed
    <3> QED
      BY <1>0, <2>1, <3>1 DEF SockMove, Forward, Taken, Closed, Unfinished
  <2>2. CASE sock[att]["gtid"] \notin Taken
    <3>1. Accepted(att, "gtid")
      BY <1>0, <1>1, <2>2 DEF DonorMove, Streams, DonorSends
    <3>2. PICK t \in Stages : sock[att][t] = "listen" /\ sock'[att][t] = "open"
      BY <3>1, OwnSocket DEF Stages
    <3>3. t # "data"
      BY <1>0, <2>2, <3>2 DEF Receivers, Taken
    <3> QED
      BY <3>2, <3>3 DEF Stages, Taken
  <2> QED
    BY <2>1, <2>2
<1>2. ASSUME DataSent(att)'
      PROVE  src'[att]["data"] = <<att, "data">> /\ sock'[att]["data"] \in Taken
  <2>1. CASE DataSent(att)
    <3>1. sock[att]["data"] \in Taken /\ src[att]["data"] = <<att, "data">>
      BY <1>0, <2>1 DEF Streams
    <3>2. jpc[att] # "mksst"
      BY <1>0, <3>1 DEF Receivers, BeforeData, Taken, Closed
    <3> QED
      BY <1>0, <3>1, <3>2 DEF SockMove, SrcMove, Forward, Taken, Closed, Unfinished
  <2>2. CASE ~DataSent(att)
    <3>1. dpc[att] = "connect" /\ Accepted(att, "data")
      BY <1>0, <1>2, <2>2 DEF DonorMove, DataSent
    <3>2. PICK t \in Stages : /\ sock[att][t] = "listen" /\ sock'[att][t] = "open"
                              /\ src'[att][t] = <<att, "data">>
      BY <3>1, OwnSocket DEF Stages
    <3>3. t # "gtid"
      BY <1>0, <3>1, <3>2 DEF Streams, DonorSends, Taken, Closed
    <3> QED
      BY <3>2, <3>3 DEF Stages, Taken
  <2> QED
    BY <2>1, <2>2
<1> QED
  BY <1>1, <1>2 DEF Streams, DataSent

\* What a step that is not the start of an mysqld can be, for the current attempt.
LEMMA Current ==
  ASSUME IInv, PairInv, Moves, ~StartServer, UNCHANGED att, att \in Attempts
  PROVE  /\ Types /\ NoSst /\ Receivers(att) /\ Stage(att) /\ JoinerMove(att)
         /\ BackupOf(att) /\ Contents(att) /\ Datadir(att)
         /\ SockMove(att, "gtid") /\ SockMove(att, "data") /\ SrcMove(att, "data")
         /\ \A a \in Attempts : Alive(a) \/ sock[a]["data"] = "open" => a = att
<1>1. \A a \in Attempts : LeftOver(a) => a = att
  BY DEF PairInv, Receivers
<1>2. \A a \in Attempts : Alive(a) \/ sock[a]["data"] = "open" => LeftOver(a)
  BY DEF LeftOver, Unfinished, Stages
<1>3. Types /\ NoSst /\ Stage(att)
  BY DEF IInv, StageInv
<1>4. Receivers(att) /\ BackupOf(att) /\ Contents(att) /\ Datadir(att)
  BY DEF PairInv
<1>5. /\ SockMove(att, "gtid") /\ SockMove(att, "data") /\ SrcMove(att, "data")
      /\ JoinerMove(att)
  BY DEF Moves, NetMove, ScriptMove, Stages
<1> QED
  BY <1>1, <1>2, <1>3, <1>4, <1>5

\* Once the stream of the data is taken, it is the one the backup comes from.
LEMMA OriginKept ==
  ASSUME IInv, PairInv, Moves, ~StartServer, UNCHANGED att, att \in Attempts,
         sock[att]["data"] \in Taken
  PROVE  /\ src'[att]["data"] = src[att]["data"] /\ Origin(att)' = Origin(att)
         /\ sock'[att]["data"] \in Taken
         /\ sock[att]["data"] \in Closed => sock'[att]["data"] \in Closed
<1>1. SockMove(att, "data") /\ SrcMove(att, "data") /\ Receivers(att)
  BY Current
<1>2. jpc[att] # "mksst"
  BY <1>1 DEF Receivers, BeforeData, Taken, Closed
<1> QED
  BY <1>1, <1>2 DEF SockMove, SrcMove, Forward, Taken, Closed, Unfinished, Origin

LEMMA BackupOfNext ==
  ASSUME IInv, PairInv, Moves, ~StartServer, UNCHANGED att, att \in Attempts
  PROVE  BackupOf(att)'
<1>0. /\ Receivers(att) /\ Stage(att) /\ BackupOf(att) /\ JoinerMove(att) /\ Datadir(att)
      /\ \A a \in Attempts : Alive(a) => a = att
  BY Current
<1>1. DiskMove
  BY DEF Moves, ScriptMove
<1>2. ASSUME jpc[att] \in AfterGtid \union {"ok"}
      PROVE  /\ sock[att]["gtid"] \in Closed /\ sock'[att]["gtid"] \in Closed
             /\ IstSelected(att)' <=> IstSelected(att)
  <2>1. sock[att]["gtid"] \in Closed /\ jpc[att] # "bind" /\ sock[att]["gtid"] # "open"
    BY <1>0, <1>2 DEF Stage, BackupOf, AfterGtid, TakesBackup, Closed
  <2> QED
    BY <2>1 DEF Moves, NetStep, SockStep, DirStep
<1>3. UNCHANGED sst \/ Forward(att, "rmsst", "mksst") \/ Forward(att, "mksst", "clean")
      \/ Forward(att, "finish", "coords")
  BY <1>0, <1>1 DEF DiskMove, Forward, Alive, Over
<1>4. /\ jpc'[att] \in HasSst => sst' = att
      /\ jpc'[att] = "mksst" => sst' = 0
  BY <1>0, <1>3 DEF BackupOf, JoinerMove, Forward, HasSst, Filling
<1>5. HasBackup(att)' => HasBackup(att) \/ Forward(att, "monitor", "check")
  <2>1. ASSUME jpc'[att] \in {"coords", "ok"}, ~IstSelected(att)'
        PROVE  HasBackup(att)
    <3>1. jpc[att] \in {"parent", "finish", "coords", "ok"}
      BY <1>0, <2>1 DEF JoinerMove, Forward
    <3>2. ~IstSelected(att)
      BY <1>2, <2>1, <3>1 DEF AfterGtid, TakesBackup
    <3> QED
      BY <1>0, <2>1, <3>1, <3>2 DEF JoinerMove, Forward, HasBackup
  <2>2. ASSUME jpc'[att] \in {"check", "prepare", "move", "moving", "finish"}
        PROVE  HasBackup(att) \/ Forward(att, "monitor", "check")
    BY <1>0, <2>2 DEF JoinerMove, Forward, HasBackup
  <2> QED
    BY <2>1, <2>2 DEF HasBackup
<1>6. ASSUME HasBackup(att)'
      PROVE  sock'[att]["data"] \in Closed /\ Origin(att)' = Origin(att)
  <2>1. sock[att]["data"] \in Closed
    BY <1>0, <1>5, <1>6 DEF BackupOf, JoinerMove, Forward
  <2> QED
    BY <2>1, OriginKept DEF Taken
<1>7. ASSUME jpc'[att] = "ok", ~IstSelected(att)'
      PROVE  coords'[att] = Origin(att)'
  <2>1. HasBackup(att)' /\ HasBackup(att) /\ jpc[att] \in {"coords", "ok"}
    BY <1>0, <1>5, <1>7 DEF HasBackup, JoinerMove, Forward
  <2>2. ~IstSelected(att)
    BY <1>2, <1>7, <2>1 DEF AfterGtid
  <2>3. CASE jpc[att] = "coords"
    <3>1. coords'[att] = data["info"] /\ data["info"] # NoData
      BY <1>0, <1>7, <2>2, <2>3 DEF JoinerMove, Forward, Magic
    <3>2. data["info"] = Origin(att)
      BY <1>0, <2>2, <2>3, <3>1 DEF Datadir, HasMoved
    <3> QED
      BY <1>6, <2>1, <3>1, <3>2
  <2>4. CASE jpc[att] = "ok"
    <3>1. coords[att] = Origin(att) /\ coords'[att] = coords[att]
      BY <1>0, <1>1, <2>2, <2>4 DEF BackupOf, DiskMove, Forward
    <3> QED
      BY <1>6, <2>1, <3>1
  <2> QED
    BY <2>1, <2>3, <2>4
<1>8. jpc'[att] = "ok" => sock'[att]["gtid"] \in Closed
  <2>1. jpc'[att] = "ok" => jpc[att] \in {"coords", "ok"}
    BY <1>0 DEF JoinerMove, Forward
  <2> QED
    BY <1>2, <2>1 DEF AfterGtid
<1> QED
  BY <1>4, <1>6, <1>7, <1>8 DEF BackupOf

\* What a step makes of .sst while the script of this attempt has one.
LEMMA BackupSteps ==
  ASSUME IInv, PairInv, Moves, ~StartServer, UNCHANGED att, att \in Attempts,
         jpc'[att] \in HasSst
  PROVE  UNCHANGED backup \/ FileMoved(att) \/ Prepared(att) \/ Filled(att)
<1>1. \A a \in Attempts : Alive(a) \/ sock[a]["data"] = "open" => a = att
  BY Current
<1>2. ~\E a \in Attempts : Forward(a, "rmsst", "mksst") \/ Forward(a, "finish", "coords")
                          \/ (Alive(a) /\ jpc'[a] = "failed")
  BY <1>1 DEF Forward, Alive, Over, HasSst, Filling
<1>3. \A a \in Attempts : FileMoved(a) \/ Prepared(a) \/ Filled(a) => a = att
  BY <1>1 DEF FileMoved, Prepared, Filled, Forward, Alive, Over
<1> QED
  BY <1>2, <1>3 DEF Moves, BackupMove

LEMMA OneOriginNext ==
  ASSUME IInv, PairInv, Moves, ~StartServer, UNCHANGED att, att \in Attempts,
         jpc'[att] \in HasSst
  PROVE  OneOrigin(att)'
<1>0. /\ Types /\ NoSst /\ JoinerMove(att) /\ BackupOf(att) /\ Contents(att)
  BY Current
<1>1. OneOrigin(att)
  <2>1. CASE jpc[att] \in HasSst
    BY <1>0, <2>1 DEF Contents
  <2>2. CASE jpc[att] \notin HasSst
    <3>1. jpc[att] = "mksst"
      BY <1>0, <2>2 DEF JoinerMove, Forward, HasSst, Filling
    <3>2. backup = Empty
      BY <1>0, <3>1 DEF BackupOf, NoSst
    <3> QED
      BY <3>2 DEF OneOrigin, Empty
  <2> QED
    BY <2>1, <2>2
<1> SUFFICES ASSUME NEW i \in BackupItems, backup'[i] # 0
             PROVE  backup'[i] = Origin(att)' /\ sock'[att]["data"] \in Taken
  BY DEF OneOrigin
<1>2. backup'[i] = Origin(att) /\ sock[att]["data"] \in Taken
  <2>1. "checkpoints" \in BackupItems
    BY DEF BackupItems
  <2>2. CASE UNCHANGED backup
    BY <1>1, <2>2 DEF OneOrigin
  <2>3. CASE FileMoved(att)
    <3>1. backup[i] # 0 /\ backup'[i] = backup[i]
      BY <1>0, <2>3 DEF FileMoved, Types, DiskTypes
    <3> QED
      BY <1>1, <3>1 DEF OneOrigin
  <2>4. CASE Prepared(att)
    BY <1>1, <2>1, <2>4 DEF OneOrigin, Prepared
  <2>5. CASE Filled(att)
    BY <1>1, <2>5 DEF OneOrigin, Filled, Taken
  <2> QED
    BY <2>2, <2>3, <2>4, <2>5, BackupSteps
<1> QED
  BY <1>2, OriginKept

\* Files that have arrived are there until they are moved out.
LEMMA FilesStay ==
  ASSUME IInv, PairInv, Moves, ~StartServer, UNCHANGED att, att \in Attempts,
         jpc'[att] \in HasSst, ~FileMoved(att), NEW f \in Files, backup[f] # 0
  PROVE  backup'[f] # 0
<1>1. f \in BackupItems /\ f # "prepared"
  BY SSTAssumption DEF BackupItems, DataFiles
<1>2. Filled(att) => backup'[f] \in {backup[f], Origin(att)} /\ Origin(att) # 0
  BY <1>1, SSTAssumption DEF Filled, Attempts
<1> QED
  BY <1>1, <1>2, BackupSteps DEF Prepared

LEMMA ArrivingNext ==
  ASSUME IInv, PairInv, Moves, ~StartServer, UNCHANGED att, att \in Attempts,
         jpc'[att] \in HasSst
  PROVE  Arriving(att)'
<1>0. /\ Types /\ JoinerMove(att) /\ BackupOf(att) /\ Contents(att) /\ Receivers(att)
      /\ SockMove(att, "data")
  BY Current
<1> SUFFICES ASSUME NEW d \in Attempts, sock'[att]["data"] = "open",
                    src'[att]["data"] = <<d, "data">>, NEW f \in sent'[d]
             PROVE  backup'[f] # 0
  BY DEF Arriving
<1>1. sent[d] \subseteq Files /\ SentMove(d) /\ SentLater(d)
  BY <1>0 DEF Types, DonorTypes, Moves, PairInv
<1>2. CASE sock[att]["data"] = "open"
  <2>1. src[att]["data"] = <<d, "data">>
    BY <1>2, OriginKept DEF Taken
  <2>2. jpc[att] \in HasSst /\ ~FileMoved(att)
    BY <1>0, <1>2 DEF JoinerMove, Forward, HasSst, Filling, Receivers, BeforeData,
       BeforeGtid, FileMoved, BackupOf, HasBackup, Closed
  <2>3. \A g \in sent[d] : backup[g] # 0
    BY <1>0, <1>2, <2>1, <2>2 DEF Contents, Arriving
  <2>4. CASE f \in sent[d]
    BY <1>1, <2>2, <2>3, <2>4, FilesStay
  <2>5. CASE f \notin sent[d]
    <3>1. PICK r \in Peer(d, "data") : r[2] = "data" => backup'[f] = d
      BY <1>1, <2>5 DEF SentMove
    <3>2. r[1] \in Attempts /\ r[2] \in Stages /\ sock[r[1]][r[2]] = "open"
      BY <3>1 DEF Peer
    <3>3. r[1] = att
      BY <3>2 DEF PairInv, Receivers, LeftOver, Unfinished
    <3>4. r[2] # "gtid"
      BY <1>0, <1>2, <3>2, <3>3 DEF Receivers, Closed
    <3> QED
      BY <3>1, <3>2, <3>4, SSTAssumption DEF Stages, Attempts
  <2> QED
    BY <2>4, <2>5
<1>3. CASE sock[att]["data"] # "open"
  <2>1. dpc[src'[att]["data"][1]] \in BeforeSend
    BY <1>0, <1>3 DEF SockMove
  <2>2. dpc[d] \in BeforeSend
    BY <2>1
  <2>3. sent'[d] = {}
    BY <1>1, <2>2 DEF SentMove, SentLater, BeforeSend
  <2> QED
    BY <2>3
<1> QED
  BY <1>2, <1>3

LEMMA ArrivedNext ==
  ASSUME IInv, PairInv, Moves, ~StartServer, UNCHANGED att, att \in Attempts,
         jpc'[att] \in HasSst
  PROVE  Arrived(att)'
<1>0. /\ Types /\ NoSst /\ JoinerMove(att) /\ BackupOf(att) /\ Contents(att)
  BY Current
<1>1. "checkpoints" \in BackupItems /\ "prepared" \in BackupItems
      /\ Files \subseteq BackupItems
  BY DEF BackupItems, DataFiles
<1> SUFFICES ASSUME jpc'[att] \in Filling,
                    backup'["checkpoints"] # 0 \/ backup'["prepared"] # 0,
                    NEW f \in Files
             PROVE  backup'[f] # 0
  BY DEF Arrived
<1>2. ~FileMoved(att)
  BY DEF FileMoved, Filling
<1>3. CASE jpc[att] \notin Filling
  <2>1. jpc[att] = "mksst" /\ jpc'[att] # "mksst"
    BY <1>0, <1>3 DEF JoinerMove, Forward, Filling
  <2>2. backup = Empty
    BY <1>0, <2>1 DEF BackupOf, NoSst
  <2>3. UNCHANGED backup
    BY <1>2, <2>1, BackupSteps DEF Prepared, Forward, Filled
  <2> QED
    BY <1>1, <2>2, <2>3 DEF Empty
<1>4. CASE jpc[att] \in Filling
  <2>1. Arrived(att) /\ Arriving(att)
    BY <1>0, <1>4 DEF Contents, HasSst
  <2>2. backup[f] # 0
    <3>1. CASE UNCHANGED backup
      BY <1>4, <2>1, <3>1 DEF Arrived
    <3>2. CASE Prepared(att)
      BY <1>4, <2>1, <3>2 DEF Arrived, Prepared, HasCheckpoints
    <3>3. CASE Filled(att)
      <4>1. CASE backup'["checkpoints"] # backup["checkpoints"]
        <5>1. src[att]["data"] = <<Origin(att), "data">> /\ sent[Origin(att)] = Files
              /\ Origin(att) \in Attempts /\ sock[att]["data"] = "open"
          BY <3>3, <4>1 DEF Filled
        <5> QED
          BY <2>1, <5>1 DEF Arriving
      <4>2. CASE backup'["checkpoints"] = backup["checkpoints"]
        BY <1>4, <2>1, <3>3, <4>2 DEF Arrived, Filled
      <4> QED
        BY <4>1, <4>2
    <3> QED
      BY <1>2, <3>1, <3>2, <3>3, BackupSteps
  <2> QED
    BY <1>2, <2>2, FilesStay
<1> QED
  BY <1>3, <1>4

\* The file of the datadir that a script moves there is one of its origin.
LEMMA MovedFrom ==
  ASSUME Types, NEW a \in Attempts, Contents(a), FileMoved(a)
  PROVE  \E f \in left[a] :
           /\ data' = [data EXCEPT ![f] = Origin(a)] /\ left'[a] = left[a] \ {f}
           /\ f \in DataFiles => Origin(a) \in Attempts
<1>1. PICK f \in left[a] : /\ backup[f] # 0 /\ data' = [data EXCEPT ![f] = backup[f]]
                           /\ left' = [left EXCEPT ![a] = @ \ {f}]
  BY DEF FileMoved
<1>2. left'[a] = left[a] \ {f}
  BY <1>1 DEF Types, DiskTypes
<1>3. f \in DataFiles => f \in BackupItems
  BY DEF BackupItems
<1>4. f \in DataFiles => backup[f] = Origin(a)
  BY <1>1, <1>3 DEF Contents, OneOrigin, FileMoved, HasSst
<1>5. f \in DataFiles => Origin(a) \in Attempts
  BY <1>1, <1>3, <1>4, SSTAssumption DEF Types, DiskTypes, Attempts
<1>6. f \notin DataFiles => data' = [data EXCEPT ![f] = Origin(a)]
  BY <1>1 DEF Types, DiskTypes
<1> QED
  BY <1>1, <1>2, <1>4, <1>5, <1>6

LEMMA DatadirNext ==
  ASSUME IInv, PairInv, Moves, ~StartServer, UNCHANGED att, att \in Attempts
  PROVE  Datadir(att)'
<1>0. /\ Types /\ JoinerMove(att) /\ BackupOf(att) /\ Contents(att) /\ Datadir(att)
      /\ Stage(att) /\ \A a \in Attempts : Alive(a) => a = att
  BY Current
<1>1. DataMove /\ LeftMove(att)
  BY DEF Moves, ScriptMove, DiskMove
<1>2. \A a \in Attempts : jpc[a] \in {"moving", "cleaning"} => a = att
  BY <1>0 DEF Alive, Over
<1>3. \/ UNCHANGED data \/ RemoveInfo \/ FileMoved(att)
      \/ jpc[att] = "cleaning" /\ \A f \in DataFiles : data'[f] \in {NoData, data[f]}
  BY <1>1, <1>2 DEF DataMove, FileMoved
<1>4. "info" \in DataFiles /\ Files \subseteq DataFiles /\ "info" \notin Files
      /\ data \in [DataFiles -> States]
  BY <1>0, SSTAssumption DEF DataFiles, Types, DiskTypes
<1>5. RemoveInfo => data'["info"] = NoData /\ \A f \in Files : data'[f] = data[f]
  BY <1>4 DEF RemoveInfo
<1>6. jpc'[att] \in BeforeMove => data'["info"] = NoData
  <2> SUFFICES ASSUME jpc'[att] \in BeforeMove PROVE data'["info"] = NoData
    OBVIOUS
  <2>1. jpc[att] \in BeforeMove /\ ~FileMoved(att)
    BY <1>0 DEF JoinerMove, Forward, BeforeMove, BeforeData, BeforeGtid, Filling, FileMoved
  <2>2. data["info"] = NoData
    BY <1>0, <2>1 DEF Datadir
  <2> QED
    BY <1>3, <1>4, <1>5, <2>1, <2>2
<1>7. HasMoved(att)' => HasMoved(att) \/ Forward(att, "finish", "coords")
  <2> SUFFICES ASSUME jpc'[att] = "coords", ~IstSelected(att)'
               PROVE  HasMoved(att) \/ Forward(att, "finish", "coords")
    BY DEF HasMoved
  <2>1. jpc[att] \in {"parent", "finish", "coords"}
    BY <1>0 DEF JoinerMove, Forward
  <2>2. IstSelected(att)' <=> IstSelected(att)
    BY <1>0, <2>1 DEF Stage, AfterGtid, TakesBackup, Moves, NetStep, DirStep
  <2> QED
    BY <1>0, <2>1, <2>2 DEF JoinerMove, Forward, HasMoved
<1>8. ASSUME jpc[att] \in {"moving", "finish"} \/ HasMoved(att)
      PROVE  Origin(att)' = Origin(att)
  <2>1. HasBackup(att)
    BY <1>8 DEF HasBackup, HasMoved
  <2> QED
    BY <1>0, <2>1, OriginKept DEF BackupOf, Taken
<1>9. ASSUME jpc[att] = "move", jpc'[att] = "moving"
      PROVE  /\ Files \ left'[att] = {} /\ Origin(att)' = Origin(att)
             /\ Origin(att) \in Attempts /\ data'["info"] = NoData
  <2>1. backup["prepared"] # 0 /\ left'[att] = {f \in DataFiles : backup[f] # 0}
    BY <1>0, <1>9 DEF JoinerMove, Forward
  <2>2. Arrived(att) /\ OneOrigin(att)
    BY <1>0, <1>9 DEF Contents, HasSst, Filling
  <2>3. \A f \in Files : backup[f] # 0
    BY <1>9, <2>1, <2>2 DEF Arrived, Filling
  <2>4. "prepared" \in BackupItems
    BY DEF BackupItems
  <2>5. backup["prepared"] = Origin(att) /\ Origin(att) \in Attempts
    BY <1>0, <2>1, <2>2, <2>4, SSTAssumption DEF OneOrigin, Types, DiskTypes, Attempts
  <2>6. sock[att]["data"] \in Closed
    BY <1>0, <1>9 DEF BackupOf, HasBackup
  <2>7. data["info"] = NoData
    BY <1>0, <1>9 DEF Datadir, BeforeMove, Filling
  <2>8. data'["info"] = NoData
    BY <1>3, <1>5, <1>9, <2>7 DEF FileMoved
  <2> QED
    BY <1>4, <2>1, <2>3, <2>5, <2>6, <2>8, OriginKept DEF Taken
<1>10. ASSUME jpc[att] = "moving", FileMoved(att), NEW f \in left[att],
              data' = [data EXCEPT ![f] = Origin(att)], left'[att] = left[att] \ {f},
              f \in DataFiles => Origin(att) \in Attempts
       PROVE  /\ \A g \in Files \ left'[att] : data'[g] = Origin(att)
              /\ data'["info"] \in {NoData, Origin(att)}
  <2>1. \A g \in DataFiles : data'[g] = IF g = f THEN Origin(att) ELSE data[g]
    BY <1>4, <1>10
  <2>2. \A g \in Files \ left[att] : data[g] = Origin(att)
    BY <1>0, <1>10 DEF Datadir
  <2>3. data["info"] \in {NoData, Origin(att)}
    BY <1>0, <1>10 DEF Datadir
  <2> QED
    BY <1>4, <1>10, <2>1, <2>2, <2>3
<1>11. ASSUME jpc[att] \in {"moving", "finish"} \/ HasMoved(att), ~FileMoved(att)
       PROVE  /\ \A f \in Files : data'[f] = data[f]
              /\ data'["info"] \in {NoData, data["info"]} /\ left'[att] = left[att]
  BY <1>1, <1>3, <1>4, <1>5, <1>11 DEF HasMoved, LeftMove
<1>12. jpc'[att] = "moving" => \A f \in Files \ left'[att] : data'[f] = Origin(att)'
  <2> SUFFICES ASSUME jpc'[att] = "moving"
               PROVE  \A f \in Files \ left'[att] : data'[f] = Origin(att)'
    OBVIOUS
  <2>1. jpc[att] \in {"move", "moving"}
    BY <1>0 DEF JoinerMove, Forward
  <2>2. CASE jpc[att] = "moving" /\ FileMoved(att)
    BY <1>0, <1>8, <1>10, <2>2, MovedFrom
  <2>3. CASE jpc[att] = "moving" /\ ~FileMoved(att)
    BY <1>0, <1>8, <1>11, <2>3 DEF Datadir
  <2> QED
    BY <1>9, <2>1, <2>2, <2>3
<1>13. jpc'[att] = "finish" \/ HasMoved(att)' => \A f \in Files : data'[f] = Origin(att)'
  <2> SUFFICES ASSUME jpc'[att] = "finish" \/ HasMoved(att)', NEW f \in Files
               PROVE  data'[f] = Origin(att)'
    OBVIOUS
  <2>1. ~FileMoved(att)
    BY DEF FileMoved, HasMoved
  <2>2. \/ jpc[att] = "moving" /\ left[att] = {}
        \/ jpc[att] = "finish" \/ HasMoved(att)
    BY <1>0, <1>7 DEF JoinerMove, Forward, HasMoved
  <2>3. data[f] = Origin(att)
    BY <1>0, <2>2 DEF Datadir
  <2> QED
    BY <1>8, <1>11, <2>1, <2>2, <2>3
<1>14. jpc'[att] \in {"moving", "finish"} \/ HasMoved(att)'
       => data'["info"] \in {NoData, Origin(att)'} /\ Origin(att)' \in Attempts
  <2> SUFFICES ASSUME jpc'[att] \in {"moving", "finish"} \/ HasMoved(att)'
               PROVE  data'["info"] \in {NoData, Origin(att)'} /\ Origin(att)' \in Attempts
    OBVIOUS
  <2>1. \/ jpc[att] = "move" /\ jpc'[att] = "moving"
        \/ jpc[att] \in {"moving", "finish"} \/ HasMoved(att)
    BY <1>0, <1>7 DEF JoinerMove, Forward, HasMoved
  <2>2. CASE jpc[att] \in {"moving", "finish"} \/ HasMoved(att)
    <3>1. data["info"] \in {NoData, Origin(att)} /\ Origin(att) \in Attempts
      BY <1>0, <2>2 DEF Datadir
    <3>2. CASE FileMoved(att)
      <4>1. jpc[att] = "moving"
        BY <3>2 DEF FileMoved
      <4> QED
        BY <1>0, <1>8, <1>10, <3>1, <3>2, <4>1, MovedFrom
    <3>3. CASE ~FileMoved(att)
      BY <1>8, <1>11, <2>2, <3>1, <3>3
    <3> QED
      BY <3>2, <3>3
  <2> QED
    BY <1>9, <2>1, <2>2
<1> QED
  BY <1>6, <1>12, <1>13, <1>14 DEF Datadir

\* What the moves are the moves of.
LEMMA MovesNext ==
  ASSUME Types, [Next]_vars
  PROVE  Moves /\ (StartServer \/ (UNCHANGED att /\ (up' => up)))
<1>1. StartServer \/ (UNCHANGED att /\ (up' => up))
  <2>1. CASE Crash \/ Abort \/ StartDonor \/ UNCHANGED vars
    BY <2>1 DEF Crash, Abort, StartDonor, vars, serverVars
  <2>2. ASSUME NEW a \in Attempts, JoinerStep(a) PROVE UNCHANGED serverVars
    BY <2>2 DEF JoinerStep, StopWaiting, CheckPid, WritePid, BindGtid, GtidReceived,
       CheckParent, RemoveStale, RmSst, MakeSst, FindOld, RemoveOld, Monitor, CheckBackup,
       Prepare, FindBackup, MoveBack, RemoveMoved, PrintCoords
  <2>3. ASSUME NEW a \in Attempts, DonorStep(a) PROVE UNCHANGED serverVars
    BY <2>3 DEF DonorStep, DonorWake, DonorConnectGtid, DonorConnectData, DonorSendGtid,
       DonorStream, DonorFinish, DonorBreaks, DonorLosesTail
  <2>4. ASSUME NEW a \in Attempts,
               Ready(a) \/ GtidTimeout(a) \/ ReceiverEnter(a) \/ ReceiverBind(a)
               \/ Terminate(a) \/ KillLeftOver(a)
        PROVE  UNCHANGED <<att, up>>
    BY <2>4 DEF Ready, GtidTimeout, ReceiverEnter, ReceiverBind, Terminate, KillLeftOver,
       serverVars
  <2> QED
    BY <2>1, <2>2, <2>3, <2>4 DEF Next, serverVars
<1>2. Moves
  BY NetMoves, NetStepNext, ScriptMoves, DonorMoves, BackupMoves, SentMoves DEF Moves
<1> QED
  BY <1>1, <1>2

LEMMA SentLaterNext ==
  ASSUME PairInv, Moves, NEW d \in Attempts
  PROVE  SentLater(d)'
<1>1. DonorMove(d) /\ SentMove(d) /\ SentLater(d)
  BY DEF Moves, PairInv
<1>2. dpc'[d] \in BeforeSend => dpc[d] \in BeforeSend
  BY <1>1 DEF DonorMove, BeforeSend, StartDonor
<1> QED
  BY <1>1, <1>2 DEF SentMove, SentLater, BeforeSend

\* A new attempt has nothing yet.
LEMMA NextAttempt ==
  ASSUME IInv, PairInv, StartServer, att' \in Attempts
  PROVE  Streams(att)' /\ BackupOf(att)' /\ Contents(att)' /\ Datadir(att)'
<1>1. att' = att + 1 /\ UNCHANGED dpc /\ att' > att
  BY SSTAssumption DEF StartServer, donorVars, IInv, Types, ServerTypes
<1>2. jpc'[att'] = "wait" /\ dpc'[att'] = "none"
  BY <1>1 DEF StartServer, IInv, Types, JoinerTypes, PairInv, Receivers
<1>3. data'["info"] = NoData
  BY DEF StartServer, RemoveInfo, IInv, Types, DiskTypes, DataFiles
<1>4. Streams(att)' /\ BackupOf(att)'
  BY <1>2 DEF Streams, DataSent, DonorSends, BackupOf, HasBackup, HasSst, Filling
<1>5. Contents(att)' /\ Datadir(att)'
  BY <1>2, <1>3 DEF Contents, Datadir, HasSst, Filling, HasMoved
<1> QED
  BY <1>4, <1>5

LEMMA PairInvNext ==
  ASSUME CleanRestart, IInv, PairInv, [Next]_vars
  PROVE  PairInv'
<1>1. Types /\ Moves /\ (StartServer \/ (UNCHANGED att /\ (up' => up)))
  BY MovesNext DEF IInv
<1>2. \A a \in Attempts : Receivers(a)' /\ SentLater(a)'
  BY <1>1, ReceiversNext, SentLaterNext
<1>3. ASSUME att' \in Attempts
      PROVE  Streams(att)' /\ BackupOf(att)' /\ Contents(att)' /\ Datadir(att)'
  <2>1. CASE StartServer
    BY <1>3, <2>1, NextAttempt
  <2>2. CASE ~StartServer
    <3>1. UNCHANGED att /\ att \in Attempts
      BY <1>1, <1>3, <2>2
    <3>2. Streams(att)' /\ BackupOf(att)' /\ Datadir(att)'
      BY <1>1, <2>2, <3>1, StreamsNext, BackupOfNext, DatadirNext
    <3>3. jpc'[att] \in HasSst => OneOrigin(att)' /\ Arriving(att)' /\ Arrived(att)'
      BY <1>1, <2>2, <3>1, OneOriginNext, ArrivingNext, ArrivedNext
    <3>4. Contents(att)'
      BY <3>1, <3>3 DEF Contents
    <3> QED
      BY <3>2, <3>4
  <2> QED
    BY <2>1, <2>2
<1>4. up' => att' \in Attempts
  <2>1. StartServer => att' \in Attempts
    BY <1>1, SSTAssumption DEF StartServer, Types, ServerTypes, Attempts
  <2> QED
    BY <1>1, <2>1 DEF PairInv
<1> QED
  BY <1>2, <1>3, <1>4 DEF PairInv

-----------------------------------------------------------------------------
(***************************************************************************)
(* The state of the database in a datadir.                                 *)
(***************************************************************************)
LEMMA DatabaseWhole ==
  ASSUME NEW D, NEW d \in States, \A f \in Files : D[f] = d
  PROVE  DatabaseOf(D) = d
<1>1. PICK f : f \in Files
  BY SSTAssumption
<1>2. \A e \in States : (\A g \in Files : D[g] = e) => e = d
  BY <1>1
<1> QED
  BY <1>2 DEF DatabaseOf

LEMMA DatabaseHas ==
  ASSUME NEW D, NEW f \in Files
  PROVE  DatabaseOf(D) \in {D[f], Partial}
<1>1. CASE \E d \in States : \A g \in Files : D[g] = d
  <2>1. PICK d \in States : \A g \in Files : D[g] = d
    BY <1>1
  <2>2. DatabaseOf(D) = d
    BY <2>1, DatabaseWhole
  <2> QED
    BY <2>1, <2>2
<1>2. CASE ~\E d \in States : \A g \in Files : D[g] = d
  BY <1>2 DEF DatabaseOf
<1> QED
  BY <1>1, <1>2

LEMMA DatabaseSame ==
  ASSUME NEW D, NEW E, \A f \in Files : D[f] = E[f]
  PROVE  DatabaseOf(D) = DatabaseOf(E)
<1>1. CASE \E d \in States : \A g \in Files : D[g] = d
  <2>1. PICK d \in States : \A g \in Files : D[g] = d
    BY <1>1
  <2>2. \A g \in Files : E[g] = d
    BY <2>1
  <2> QED
    BY <2>1, <2>2, DatabaseWhole
<1>2. CASE ~\E d \in States : \A g \in Files : D[g] = d
  BY <1>2 DEF DatabaseOf
<1> QED
  BY <1>1, <1>2

\* The info file is not part of it.
LEMMA DatabaseKept ==
  ASSUME IInv, UNCHANGED data \/ RemoveInfo
  PROVE  DatabaseOf(data)' = DatabaseOf(data)
<1>1. \A f \in Files : data'[f] = data[f]
  <2>1. data \in [DataFiles -> States] /\ "info" \notin Files
    BY SSTAssumption DEF IInv, Types, DiskTypes
  <2> QED
    BY <2>1 DEF RemoveInfo, DataFiles
<1>2. DatabaseOf(data') = DatabaseOf(data)
  BY <1>1, DatabaseSame
<1> QED
  BY <1>2 DEF DatabaseOf

-----------------------------------------------------------------------------
(***************************************************************************)
(* Refinement: every step is one of StateTransfer, or stutters there.      *)
(***************************************************************************)
Abstract == [Transfer!Next]_(Transfer!vars)

SameDatabase == DatabaseOf(data)' = DatabaseOf(data) /\ UNCHANGED coords

LEMMA ResultsKept ==
  ASSUME \A b \in Attempts : Result(b)' = Result(b), SameDatabase
  PROVE  Abstract
BY DEF Abstract, SameDatabase, Transfer!vars

\* A step that moves script a only changes its result only.
LEMMA OthersKept ==
  ASSUME IInv, NetStep, NEW b \in Attempts, jpc'[b] = jpc[b]
  PROVE  Result(b)' = Result(b)
<1>1. jpc[b] = "coords" => (IstSelected(b)' <=> IstSelected(b))
  BY DEF IInv, StageInv, Stage, AfterGtid, NetStep, DirStep
<1> QED
  BY <1>1 DEF Result

LEMMA ScriptsKept ==
  ASSUME IInv, NetStep, UNCHANGED jpc, SameDatabase
  PROVE  Abstract
BY OthersKept, ResultsKept

\* Script a gets the result r, and coords and data change as an abstract
\* action says.
LEMMA ResultTurns ==
  ASSUME IInv, NetStep, NEW a \in Attempts, NEW pc,
         jpc' = [jpc EXCEPT ![a] = pc]
  PROVE  [b \in Attempts |-> Result(b)]'
         = [[b \in Attempts |-> Result(b)] EXCEPT ![a] = Result(a)']
<1>1. \A b \in Attempts : b # a => jpc'[b] = jpc[b]
  BY DEF IInv, Types, JoinerTypes
<1>2. \A b \in Attempts : b # a => Result(b)' = Result(b)
  BY <1>1, OthersKept
<1> QED
  BY <1>2

\* Scripts that wait, receive, prepare or have moved just run on.
Running(pc) == pc \notin {"none", "ok", "failed", "coords"}

LEMMA RunsOn ==
  ASSUME IInv, NetStep, NEW a \in Attempts, NEW pc, Running(jpc[a]),
         GoTo(a, pc), SameDatabase, Running(pc) \/ (pc = "coords" /\ ~IstSelected(a)')
  PROVE  Abstract
<1>1. jpc'[a] = pc /\ jpc' = [jpc EXCEPT ![a] = pc]
  BY DEF GoTo, IInv, Types, JoinerTypes
<1>2. Result(a)' = Result(a)
  BY <1>1 DEF Result, Running
<1>3. \A b \in Attempts : b # a => Result(b)' = Result(b)
  BY <1>1, OthersKept DEF IInv, Types, JoinerTypes
<1> QED
  BY <1>2, <1>3, ResultsKept

LEMMA FailsAbstractly ==
  ASSUME IInv, NetStep, NEW a \in Attempts, Alive(a), GoTo(a, "failed"), SameDatabase
  PROVE  Abstract
<1>1. jpc'[a] = "failed" /\ jpc' = [jpc EXCEPT ![a] = "failed"]
  BY DEF GoTo, IInv, Types, JoinerTypes
<1>2. Result(a)' = "failed" /\ Result(a) \in {"running", "ist"}
  BY <1>1 DEF Result, Alive, Over
<1>3. Transfer!Fail(a)
  BY <1>1, <1>2, ResultTurns DEF Transfer!Fail, Transfer!Turn, SameDatabase
<1> QED
  BY <1>3 DEF Abstract, Transfer!Next

\* A new attempt starts only when nothing of an earlier one is left.
LEMMA StartImplements ==
  ASSUME CleanRestart, IInv, NetStep, StartServer PROVE Abstract
<1>0. Types
  BY DEF IInv
<1>1. PICK a \in Attempts : a = att + 1
  BY <1>0, SSTAssumption DEF StartServer, Types, ServerTypes, Attempts
<1>2. jpc[a] = "none"
  BY <1>0, <1>1 DEF IInv, StageInv, Stage, Types, ServerTypes
<1>3. jpc' = [jpc EXCEPT ![a] = "wait"] /\ SameDatabase
  BY <1>1, DatabaseKept DEF StartServer, SameDatabase
<1>4. jpc'[a] = "wait"
  BY <1>0, <1>3 DEF Types, JoinerTypes
<1>5. Result(a) = "none" /\ Result(a)' = "running"
  BY <1>2, <1>4 DEF Result
<1>6. \A b \in Attempts : Result(b) \notin {"running", "ist"}
  <2>1. \A b \in Attempts : ~Alive(b)
    BY DEF StartServer, LeftOver
  <2> QED
    BY <2>1 DEF Alive, Over, Result
<1>7. Transfer!Start(a)
  BY <1>1, <1>3, <1>5, <1>6, ResultTurns DEF Transfer!Start, Transfer!Turn, SameDatabase
<1> QED
  BY <1>7 DEF Abstract, Transfer!Next

\* A script that removes a file of the database, or moves one in.
LEMMA RemoveImplements ==
  ASSUME IInv, NetStep, NEW a \in Attempts, RemoveOld(a) PROVE Abstract
<1>1. jpc[a] = "cleaning" /\ UNCHANGED coords
  BY DEF RemoveOld
<1>2. CASE UNCHANGED data
  <2>1. SameDatabase
    BY <1>1, <1>2, DatabaseKept DEF SameDatabase
  <2>2. CASE UNCHANGED jpc
    BY <2>1, <2>2, ScriptsKept
  <2>3. CASE GoTo(a, "monitor")
    BY <1>1, <2>1, <2>3, RunsOn DEF Running
  <2> QED
    BY <2>2, <2>3 DEF RemoveOld
<1>3. CASE ~UNCHANGED data
  <2>1. PICK f : /\ data' = [g \in DataFiles |-> IF g = f THEN NoData ELSE data[g]]
                 /\ UNCHANGED jpc
    BY <1>3 DEF RemoveOld
  <2>2. \A b \in Attempts : Result(b)' = Result(b)
    BY <2>1, OthersKept
  <2>3. CASE f \in Files
    <3>1. data'[f] = NoData
      BY <2>1, <2>3 DEF DataFiles
    <3>2. DatabaseOf(data') \in {NoData, Partial}
      BY <2>3, <3>1, DatabaseHas
    <3>3. DatabaseOf(data)' \in {Transfer!NoData, Transfer!Partial}
      BY <3>2 DEF DatabaseOf, NoData, Partial, Transfer!NoData, Transfer!Partial
    <3>4. Result(a) = "running"
      BY <1>1 DEF Result
    <3>5. Transfer!Remove(a)
      BY <1>1, <2>2, <3>3, <3>4 DEF Transfer!Remove
    <3> QED
      BY <3>5 DEF Abstract, Transfer!Next
  <2>4. CASE f \notin Files
    <3>1. \A g \in Files : data'[g] = data[g]
      BY <2>1, <2>4 DEF DataFiles
    <3>2. DatabaseOf(data') = DatabaseOf(data)
      BY <3>1, DatabaseSame
    <3>3. SameDatabase
      BY <1>1, <3>2 DEF SameDatabase, DatabaseOf
    <3> QED
      BY <2>2, <3>3, ResultsKept
  <2> QED
    BY <2>3, <2>4
<1> QED
  BY <1>2, <1>3

LEMMA MoveImplements ==
  ASSUME IInv, NetStep, NEW a \in Attempts, MoveBack(a), ~Fail(a) PROVE Abstract
<1>1. jpc[a] = "moving" /\ UNCHANGED coords
  BY DEF MoveBack
<1>2. CASE UNCHANGED data
  <2>1. SameDatabase
    BY <1>1, <1>2, DatabaseKept DEF SameDatabase
  <2>2. CASE UNCHANGED jpc
    BY <2>1, <2>2, ScriptsKept
  <2>3. CASE GoTo(a, "finish")
    BY <1>1, <2>1, <2>3, RunsOn DEF Running
  <2> QED
    BY <2>2, <2>3 DEF MoveBack
<1>3. CASE ~UNCHANGED data
  <2>0. data \in [DataFiles -> States] /\ backup \in [BackupItems -> 0..MaxAttempts]
    BY DEF IInv, Types, DiskTypes
  <2>1. PICK f : /\ backup[f] # 0 /\ data[f] = NoData
                 /\ data' = [data EXCEPT ![f] = backup[f]]
                 /\ UNCHANGED jpc
    BY <1>3 DEF MoveBack, diskVars
  <2>2. \A b \in Attempts : Result(b)' = Result(b)
    BY <2>1, OthersKept
  <2>3. CASE f \in Files
    <3>1. data'[f] = backup[f] /\ backup[f] \in Attempts
      BY <2>0, <2>1, <2>3, SSTAssumption DEF DataFiles, BackupItems, Attempts
    <3>2. DatabaseOf(data) \in {NoData, Partial}
      BY <2>1, <2>3, DatabaseHas
    <3>3. DatabaseOf(data') \in Attempts \union {Partial}
      BY <2>3, <3>1, DatabaseHas
    <3>4. DatabaseOf(data) \in {Transfer!NoData, Transfer!Partial}
          /\ DatabaseOf(data)' \in Attempts \union {Transfer!Partial}
      BY <3>2, <3>3 DEF DatabaseOf, NoData, Partial, Transfer!NoData, Transfer!Partial
    <3>5. Result(a) = "running"
      BY <1>1 DEF Result
    <3>6. Transfer!Install(a)
      BY <1>1, <2>2, <3>4, <3>5 DEF Transfer!Install
    <3> QED
      BY <3>6 DEF Abstract, Transfer!Next
  <2>4. CASE f \notin Files
    <3>1. \A g \in Files : data'[g] = data[g]
      BY <2>0, <2>1, <2>4 DEF DataFiles
    <3>2. DatabaseOf(data') = DatabaseOf(data)
      BY <3>1, DatabaseSame
    <3>3. SameDatabase
      BY <1>1, <3>2 DEF SameDatabase, DatabaseOf
    <3> QED
      BY <2>2, <3>3, ResultsKept
  <2> QED
    BY <2>3, <2>4
<1> QED
  BY <1>2, <1>3

\* A script that succeeds prints what is in the datadir, all of it.
LEMMA PrintImplements ==
  ASSUME IInv, PairInv, NetStep, NEW a \in Attempts, PrintCoords(a),
         ~(Fail(a) /\ UNCHANGED coords)
  PROVE  Abstract
<1>1. /\ jpc[a] = "coords" /\ Magic(a) # NoData
      /\ coords' = [coords EXCEPT ![a] = Magic(a)]
      /\ jpc' = [jpc EXCEPT ![a] = "ok"] /\ UNCHANGED data
  BY DEF PrintCoords, GoTo
<1>2. jpc'[a] = "ok"
  BY <1>1 DEF IInv, Types, JoinerTypes
<1>3. Result(a)' = "joined"
  BY <1>2 DEF Result
<1>4. DatabaseOf(data)' = DatabaseOf(data)
  BY <1>1, DatabaseKept
<1>5. CASE IstSelected(a)
  <2>1. Magic(a) \in Attempts
    BY <1>5 DEF Magic, IstSelected, IInv, FromDonor
  <2>2. Result(a) = "ist"
    BY <1>1, <1>5 DEF Result
  <2>3. Transfer!JoinByIst(a)
    BY <1>1, <1>3, <1>4, <2>1, <2>2, ResultTurns DEF Transfer!JoinByIst, Transfer!Turn
  <2> QED
    BY <2>3 DEF Abstract, Transfer!Next
<1>6. CASE ~IstSelected(a)
  <2>1. a = att
    BY <1>1 DEF PairInv, Receivers, LeftOver, Alive, Over
  <2>2. Datadir(a) /\ HasMoved(a)
    BY <1>1, <1>6, <2>1 DEF PairInv, HasMoved
  <2>3. Magic(a) = Origin(a) /\ Origin(a) \in Attempts
    BY <1>1, <1>6, <2>2 DEF Magic, Datadir
  <2>4. DatabaseOf(data) = Origin(a)
    BY <2>2, <2>3, DatabaseWhole DEF Datadir, States
  <2>5. Result(a) = "running"
    BY <1>1, <1>6 DEF Result
  <2>6. Transfer!JoinBySst(a)
    BY <1>1, <1>3, <1>4, <2>3, <2>4, <2>5, ResultTurns
    DEF Transfer!JoinBySst, Transfer!Turn
  <2> QED
    BY <2>6 DEF Abstract, Transfer!Next
<1> QED
  BY <1>5, <1>6

LEMMA StepImplements ==
  ASSUME CleanRestart, IInv, PairInv, [Next]_vars PROVE Abstract
<1>1. NetStep /\ Types
  BY NetStepNext DEF IInv
<1>2. ASSUME UNCHANGED data \/ RemoveInfo, UNCHANGED coords PROVE SameDatabase
  BY <1>2, DatabaseKept DEF SameDatabase
<1>3. ASSUME NEW a \in Attempts, Fail(a), Alive(a), UNCHANGED coords
      PROVE  Abstract
  BY <1>1, <1>2, <1>3, FailsAbstractly DEF Fail
<1>4. ASSUME NEW a \in Attempts,
             StopWaiting(a) \/ CheckPid(a) \/ WritePid(a) \/ MakeSst(a) \/ FindOld(a)
      PROVE  Abstract
  <2>1. Running(jpc[a]) /\ (UNCHANGED data \/ RemoveInfo) /\ UNCHANGED coords
    BY <1>4 DEF StopWaiting, CheckPid, WritePid, MakeSst, FindOld, diskVars, Running
  <2>2. \E pc : GoTo(a, pc) /\ (Running(pc) \/ pc = "failed")
    BY <1>4 DEF StopWaiting, CheckPid, WritePid, MakeSst, FindOld, Running
  <2>3. Alive(a)
    BY <2>1 DEF Running, Alive, Over
  <2> QED
    BY <1>1, <1>2, <2>1, <2>2, <2>3, RunsOn, FailsAbstractly
<1>5. ASSUME NEW a \in Attempts,
             BindGtid(a) \/ GtidReceived(a) \/ Monitor(a) \/ CheckBackup(a)
             \/ Prepare(a) \/ FindBackup(a) \/ Terminate(a) \/ RemoveStale(a)
      PROVE  Abstract
  <2>1. Running(jpc[a]) /\ UNCHANGED coords
    BY <1>5 DEF BindGtid, GtidReceived, Monitor, CheckBackup, Prepare, FindBackup,
       Terminate, RemoveStale, RmSst, Running
  <2>2. Fail(a) \/ (UNCHANGED data /\ \E pc : GoTo(a, pc) /\ Running(pc))
    BY <1>5 DEF BindGtid, GtidReceived, Monitor, CheckBackup, Prepare, FindBackup,
       Terminate, RemoveStale, RmSst, diskVars, Running
  <2>3. Alive(a)
    BY <2>1 DEF Running, Alive, Over
  <2> QED
    BY <1>1, <1>2, <1>3, <2>1, <2>2, <2>3, RunsOn
<1>6. ASSUME NEW a \in Attempts, CheckParent(a) PROVE Abstract
  <2>1. jpc[a] = "parent" /\ UNCHANGED <<coords, stat>>
    BY <1>6 DEF CheckParent, netVars
  <2>2. CASE Fail(a)
    BY <1>3, <2>1, <2>2 DEF Alive, Over
  <2>3. CASE ~IstSelected(a) /\ ~Fail(a)
    <3>1. GoTo(a, "rmsst") /\ UNCHANGED data
      BY <1>6, <2>3 DEF CheckParent, diskVars
    <3> QED
      BY <1>1, <1>2, <2>1, <3>1, RunsOn DEF Running
  <2>4. CASE IstSelected(a) /\ ~Fail(a)
    <3>1. GoTo(a, "coords") /\ UNCHANGED data
      BY <1>6, <2>4 DEF CheckParent, diskVars
    <3>2. jpc'[a] = "coords" /\ jpc' = [jpc EXCEPT ![a] = "coords"]
      BY <1>1, <3>1 DEF GoTo, Types, JoinerTypes
    <3>3. Result(a) = "running" /\ Result(a)' = "ist"
      BY <2>1, <2>4, <3>2 DEF Result, IstSelected
    <3>4. SameDatabase
      BY <1>2, <2>1, <3>1
    <3>5. Transfer!SelectIst(a)
      BY <1>1, <3>2, <3>3, <3>4, ResultTurns DEF Transfer!SelectIst, Transfer!Turn,
         SameDatabase
    <3> QED
      BY <3>5 DEF Abstract, Transfer!Next
  <2> QED
    BY <2>2, <2>3, <2>4
<1>7. ASSUME NEW a \in Attempts, RemoveMoved(a) PROVE Abstract
  <2>1. jpc[a] = "finish" /\ UNCHANGED <<coords, stat>>
    BY <1>7 DEF RemoveMoved, RmSst, netVars
  <2>2. CASE Fail(a)
    BY <1>3, <2>1, <2>2 DEF Alive, Over
  <2>3. CASE ~Fail(a)
    <3>1. GoTo(a, "coords") /\ UNCHANGED data
      BY <1>7, <2>3 DEF RemoveMoved, RmSst
    <3>2. ~IstSelected(a)'
      BY <2>1 DEF IInv, StageInv, Stage, TakesBackup, IstSelected
    <3> QED
      BY <1>1, <1>2, <2>1, <3>1, <3>2, RunsOn DEF Running
  <2> QED
    BY <2>2, <2>3
<1>8. ASSUME NEW a \in Attempts, RemoveOld(a) \/ MoveBack(a) PROVE Abstract
  <2>1. CASE MoveBack(a) /\ Fail(a)
    BY <1>3, <2>1 DEF MoveBack, Alive, Over
  <2> QED
    BY <1>1, <1>8, <2>1, RemoveImplements, MoveImplements
<1>9. ASSUME NEW a \in Attempts, PrintCoords(a) PROVE Abstract
  <2>1. CASE Fail(a) /\ UNCHANGED coords
    BY <1>3, <1>9, <2>1 DEF PrintCoords, Alive, Over
  <2> QED
    BY <1>1, <1>9, <2>1, PrintImplements
<1>10. ASSUME NEW a \in Attempts, KillLeftOver(a) PROVE Abstract
  <2>1. SameDatabase
    BY <1>2, <1>10 DEF KillLeftOver, diskVars
  <2>2. CASE Alive(a)
    <3>1. GoTo(a, "failed")
      BY <1>10, <2>2 DEF KillLeftOver, GoTo
    <3> QED
      BY <1>1, <2>1, <2>2, <3>1, FailsAbstractly
  <2>3. CASE ~Alive(a)
    <3>1. UNCHANGED jpc
      BY <1>1, <1>10, <2>3 DEF KillLeftOver, Types, JoinerTypes
    <3> QED
      BY <1>1, <2>1, <3>1, ScriptsKept
  <2> QED
    BY <2>2, <2>3
<1>11. ASSUME UNCHANGED <<jpc, data, coords>> PROVE Abstract
  BY <1>1, <1>2, <1>11, ScriptsKept
<1>12. CASE Crash \/ Abort \/ StartDonor \/ UNCHANGED vars
  BY <1>11, <1>12 DEF Crash, Abort, StartDonor, diskVars, vars
<1>13. ASSUME NEW a \in Attempts,
              Ready(a) \/ GtidTimeout(a) \/ ReceiverEnter(a) \/ ReceiverBind(a)
              \/ DonorWake(a) \/ DonorConnectGtid(a) \/ DonorConnectData(a)
              \/ DonorSendGtid(a) \/ DonorStream(a) \/ DonorFinish(a)
              \/ DonorBreaks(a) \/ DonorLosesTail(a)
       PROVE  Abstract
  BY <1>11, <1>13 DEF Ready, GtidTimeout, ReceiverEnter, ReceiverBind, DonorWake,
     DonorConnectGtid, DonorConnectData, DonorSendGtid, DonorStream,
     DonorFinish, DonorBreaks, DonorLosesTail, diskVars
<1> QED
  BY <1>1, <1>4, <1>5, <1>6, <1>7, <1>8, <1>9, <1>10, <1>12, <1>13, StartImplements
  DEF Next, JoinerStep, DonorStep

LEMMA InitImplements == Init => Transfer!Init
<1> SUFFICES ASSUME Init PROVE Transfer!Init
  OBVIOUS
<1>1. \A f \in Files : data[f] = OwnData
  BY SSTAssumption DEF Init, DataFiles
<1>2. DatabaseOf(data) = OwnData
  BY <1>1, DatabaseWhole DEF States
<1>3. [a \in Attempts |-> Result(a)] = [a \in Attempts |-> "none"]
  BY DEF Init, Result
<1> QED
  BY <1>2, <1>3 DEF Init, Transfer!Init, OwnData, NoData, Transfer!OwnData, Transfer!NoData

\* The scripts implement StateTransfer, for every number of attempts, set of
\* files and fault: the database of the joiner is removed and replaced by the
\* one script that runs, file by file, and co-ordinates returned with success
\* are those of a database that came whole from one donor.
THEOREM Implements ==
  ASSUME CleanRestart PROVE Spec => KeepsPromise
<1>1. Init => PairInv /\ Transfer!Init
  BY PairInvInit, InitImplements
<1>2. IInv /\ PairInv /\ [Next]_vars => PairInv' /\ Abstract
  BY PairInvNext, StepImplements
<1> QED
  BY <1>1, <1>2, IInvHolds, PTL DEF Spec, KeepsPromise, Transfer!Spec, Abstract

\* Joiner and donor of one attempt that both succeed have transferred the data
\* of that donor, for every number of attempts and every fault.
THEOREM BothSucceedHolds ==
  ASSUME CleanRestart PROVE Spec => []BothSucceed
<1>1. Init => PairInv
  BY PairInvInit
<1>2. IInv /\ PairInv /\ [Next]_vars => PairInv'
  BY PairInvNext
<1>3. IInv /\ PairInv => BothSucceed
  <2> SUFFICES ASSUME IInv, PairInv, jpc[att] = "ok", dpc[att] = "done",
                      ~bypass[att], up
               PROVE  coords[att] = att
    BY DEF BothSucceed
  <2>1. att \in Attempts
    BY DEF PairInv
  <2>2. src[att]["data"] = <<att, "data">> /\ sock[att]["data"] \in Taken
    BY <2>1 DEF PairInv, Streams, DataSent
  <2>3. ~IstSelected(att)
    BY <2>1, <2>2 DEF PairInv, Receivers, Taken, Closed
  <2> QED
    BY <2>1, <2>2, <2>3 DEF PairInv, BackupOf, Origin
<1> QED
  BY <1>1, <1>2, <1>3, IInvHolds, PTL DEF Spec

=============================================================================
