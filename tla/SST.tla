-------------------------------- MODULE SST --------------------------------
(***************************************************************************)
(* wsrep_sst_mariabackup: state snapshot transfer between a joining node   *)
(* and the donors it is given.  Each incarnation of the joiner's mysqld    *)
(* starts one joiner script; the script, once it can be reached, prints    *)
(* `ready' and mysqld has the cluster start a donor script for it.  An     *)
(* attempt is the number of such an incarnation: it names the mysqld, its  *)
(* joiner script, and the donor script (and donor state) asked for it.     *)
(*                                                                         *)
(* A transfer takes two connections to the same port of the joiner, first  *)
(* the `gtid' stream (the info file, or with it the IST marker) and, ten   *)
(* seconds later, the `data' stream (the backup).  Scripts and receivers   *)
(* of an earlier attempt may still run when a later one begins; they share *)
(* the port, the datadir, its .sst subdirectory and wsrep_sst.pid.         *)
(***************************************************************************)
EXTENDS Integers, FiniteSets

CONSTANTS
  MaxAttempts,   \* bound: incarnations of the joiner's mysqld
  MaxCrashes,    \* bound: crashes of mysqld, and signals to a joiner script
  Files,         \* of a database
  Secrets,       \* whether ssl-mode is VERIFY_*, so that joiners have secrets
  CleanRestart,  \* whether what an mysqld has started is killed before the
                 \* next one starts, as a container or a service manager does
  Faults         \* what the environment may do besides: see AllFaults

(* "slowJoiner": the 10 s the donor sleeps may be too short for the joiner. *)
(* "slowDonor":  sst-initial-timeout may expire while a donor is coming.   *)
(* "slowListen": `ready' may be printed before the port is open.           *)
(* "donorFails": a donor script, or its host, may fail at any point.       *)
(* "tailLost":   the donor's socat may be killed with data in its pipe.    *)
(* "prepareFails": mariadb-backup --prepare may fail.                      *)
(* "signal":     a joiner script may be sent SIGTERM.                      *)
AllFaults == {"slowJoiner", "slowDonor", "slowListen", "donorFails",
              "tailLost", "prepareFails", "signal"}

ASSUME SSTAssumption ==
  /\ MaxAttempts \in Nat
  /\ MaxCrashes \in Nat
  /\ Files # {}
  /\ Files \intersect {"info", "pid", "checkpoints", "prepared"} = {}
  /\ Secrets \in BOOLEAN
  /\ CleanRestart \in BOOLEAN
  /\ Faults \subseteq AllFaults

Attempts == 1..MaxAttempts
Stages   == {"gtid", "data"}

\* Files of the datadir, of the .sst directory (with the mark of a backup that
\* has been prepared), and of STATDIR.
DataFiles   == Files \union {"info"}
BackupItems == DataFiles \union {"checkpoints", "prepared"}
StatItems   == {"info", "secret", "ist"}

\* States of a database: those of the donors, the joiner's own, and none.
OwnData == 0
NoData  == -1
States  == {OwnData, NoData} \union Attempts

VARIABLES
  att,      \* the current incarnation of mysqld, 0 before the first
  up,       \* whether it runs
  crashes,  \* crashes and signals so far
  jpc,      \* program counters of the joiner scripts
  ready,    \* the attempts whose script has printed `ready'
  pidfile,  \* the script named by wsrep_sst.pid, 0 if there is no file
  sock,     \* per attempt and stage, the state of the receiving socket
  src,      \* the stream it has accepted: <<donor, stage>>
  stat,     \* what was extracted in the STATDIR of each script
  cwd,      \* the .sst, by its maker, that the receiver of the data is in
  sst,      \* the script that made the .sst there is, 0 if there is none
  backup,   \* per file of that .sst, the donor it came from, 0 if absent
  data,     \* per file of the datadir, the state of a database it belongs to
  left,     \* files each script has found and is yet to remove, or to move
  coords,   \* what each script printed as co-ordinates
  dpc,      \* program counters of the donor scripts
  bypass,   \* whether the donor was told to bypass SST for IST
  sent      \* files of the database each donor has sent

serverVars == <<att, up, crashes>>
netVars    == <<sock, src, stat, cwd>>
diskVars   == <<pidfile, sst, backup, data, left>>
donorVars  == <<dpc, bypass, sent>>
vars == <<serverVars, jpc, ready, netVars, diskVars, coords, donorVars>>

Over         == {"ok", "failed"}
JoinerStates == {"none", "wait", "pid", "bind", "gtid", "parent", "rmsst",
                 "mksst", "clean", "cleaning", "monitor", "check", "prepare",
                 "move", "moving", "finish", "coords"} \union Over
SocketStates == {"none", "start", "entered", "listen", "open", "eof",
                 "broken"}
DonorStates  == {"none", "gtid", "gtidSend", "sleep", "connect", "data",
                 "done", "failed"}

ParentAlive(a) == up /\ att = a             \* ps -p $WSREP_SST_OPT_PARENT
Alive(a)       == jpc[a] \notin {"none"} \union Over
NoStream       == <<0, "gtid">>

\* Sockets listening on the port of the joiner: the system allows one.
Listening == {s \in Attempts \X Stages : sock[s[1]][s[2]] = "listen"}

Empty == [i \in BackupItems |-> 0]     \* an .sst that is empty, or absent

\* The state of the database in a datadir, if its files are of one.
Partial == -2
DatabaseOf(datadir) ==
  IF \E d \in States : \A f \in Files : datadir[f] = d
  THEN CHOOSE d \in States : \A f \in Files : datadir[f] = d
  ELSE Partial

Init ==
  /\ att = 0 /\ up = FALSE /\ crashes = 0
  /\ jpc = [a \in Attempts |-> "none"]
  /\ ready = {}
  /\ pidfile = 0
  /\ sock = [a \in Attempts |-> [s \in Stages |-> "none"]]
  /\ src = [a \in Attempts |-> [s \in Stages |-> NoStream]]
  /\ stat = [a \in Attempts |-> {}]
  /\ cwd = [a \in Attempts |-> 0]
  /\ sst = 0 /\ backup = Empty
  /\ \E i \in {NoData, OwnData} :
       data = [f \in DataFiles |-> IF f = "info" THEN i ELSE OwnData]
  /\ left = [a \in Attempts |-> {}]
  /\ coords = [a \in Attempts |-> NoData]
  /\ dpc = [d \in Attempts |-> "none"]
  /\ bypass = [d \in Attempts |-> FALSE]
  /\ sent = [d \in Attempts |-> {}]

-----------------------------------------------------------------------------
(***************************************************************************)
(* The joiner's mysqld and the cluster.                                    *)
(***************************************************************************)

\* A receiving process exists.
Unfinished  == {"start", "entered", "listen", "open"}
LeftOver(a) == Alive(a) \/ \E s \in Stages : sock[a][s] \in Unfinished

\* SIGKILL for what a dead mysqld has left on its node; no trap is run.
KillLeftOver(a) ==
  /\ CleanRestart /\ ~up /\ LeftOver(a)
  /\ jpc' = [jpc EXCEPT ![a] = IF Alive(a) THEN "failed" ELSE @]
  /\ sock' = [sock EXCEPT ![a] = [s \in Stages |->
               IF @[s] \in Unfinished THEN "broken" ELSE @[s]]]
  /\ UNCHANGED <<serverVars, ready, src, stat, cwd, diskVars, coords,
                 donorVars>>

RemoveInfo == data' = [data EXCEPT !["info"] = NoData]

\* mysqld starts, and starts its script: which begins by removing the info
\* file of the datadir.
StartServer ==
  /\ ~up /\ att < MaxAttempts
  /\ CleanRestart => \A a \in Attempts : ~LeftOver(a)
  /\ att' = att + 1 /\ up' = TRUE
  /\ jpc' = [jpc EXCEPT ![att + 1] = "wait"]
  /\ RemoveInfo
  /\ UNCHANGED <<crashes, ready, netVars, pidfile, sst, backup, left, coords,
                 donorVars>>

Crash ==
  /\ up /\ crashes < MaxCrashes
  /\ up' = FALSE /\ crashes' = crashes + 1
  /\ UNCHANGED <<att, jpc, ready, netVars, diskVars, coords, donorVars>>

\* mysqld aborts when its script fails or the cluster tells that the donor
\* did, and when the first line it reads is not `ready'; once the script has
\* succeeded it goes on.
Abort ==
  /\ up
  /\ \/ jpc[att] = "failed"
     \/ jpc[att] = "ok" /\ att \notin ready
     \/ jpc[att] # "ok" /\ dpc[att] = "failed"
  /\ up' = FALSE
  /\ UNCHANGED <<att, crashes, jpc, ready, netVars, diskVars, coords,
                 donorVars>>

\* The cluster starts a donor script for the current incarnation.
StartDonor ==
  /\ up /\ att \in ready /\ dpc[att] = "none"
  /\ dpc' = [dpc EXCEPT ![att] = "gtid"]
  /\ \E b \in BOOLEAN : bypass' = [bypass EXCEPT ![att] = b]
  /\ UNCHANGED <<serverVars, jpc, ready, netVars, diskVars, coords, sent>>

-----------------------------------------------------------------------------
(***************************************************************************)
(* The joiner script.                                                      *)
(***************************************************************************)

GoTo(a, pc) == jpc' = [jpc EXCEPT ![a] = pc]
SetSock(a, s, st) == sock' = [sock EXCEPT ![a][s] = st]

\* wsrep_sst.pid names a process that runs.
PreviousRuns == pidfile # 0 /\ Alive(pidfile)

\* The gtid stream has brought the IST marker.
IstSelected(a) == "ist" \in stat[a]

\* Where $MAGIC_FILE is, by the stage of the script: first in STATDIR, which
\* is the script's own, later in .sst, then in the datadir.
MagicIsInSst(a)     == jpc[a] \in {"monitor", "check", "prepare"}
MagicIsInDatadir(a) == \/ jpc[a] \in {"move", "moving", "finish"}
                       \/ jpc[a] = "coords" /\ ~IstSelected(a)

\* Exit with a status other than 0, through the EXIT trap: the magic file and
\* the pid file are removed, whosoever they are.
Fail(a) ==
  /\ GoTo(a, "failed")
  /\ pidfile' = 0
  /\ backup' = IF MagicIsInSst(a) THEN [backup EXCEPT !["info"] = 0] ELSE backup
  /\ IF MagicIsInDatadir(a) THEN RemoveInfo ELSE UNCHANGED data
  /\ UNCHANGED <<sst, left>>

\* Ten rounds have passed: exit 114, before any trap is set.
StopWaiting(a) ==
  /\ jpc[a] = "wait" /\ PreviousRuns
  /\ GoTo(a, "failed")
  /\ UNCHANGED <<serverVars, ready, netVars, diskVars, coords, donorVars>>

CheckPid(a) ==
  /\ jpc[a] = "wait" /\ ~PreviousRuns
  /\ GoTo(a, "pid")
  /\ UNCHANGED <<serverVars, ready, netVars, diskVars, coords, donorVars>>

\* The pid file is written; files an earlier transfer left are removed.
WritePid(a) ==
  /\ jpc[a] = "pid"
  /\ pidfile' = a /\ RemoveInfo
  /\ GoTo(a, "bind")
  /\ UNCHANGED <<serverVars, ready, netVars, sst, backup, left, coords,
                 donorVars>>

\* wait_for_listen, in the background: `ready' is printed once some process
\* listens on the port, or after about 30 s regardless.
Ready(a) ==
  /\ ParentAlive(a) /\ a \notin ready
  /\ jpc[a] \notin {"none", "wait", "pid", "ok"}
  /\ jpc[a] = "bind" => Listening # {} \/ "slowListen" \in Faults
  /\ ready' = ready \union {a}
  /\ UNCHANGED <<serverVars, jpc, netVars, diskVars, coords, donorVars>>

\* Mutant: the socket is bound with SO_REUSEPORT.
BindGtid_ReusePort(a) ==
  /\ jpc[a] = "bind"
  /\ GoTo(a, "gtid") /\ SetSock(a, "gtid", "listen")
  /\ UNCHANGED <<serverVars, ready, src, stat, cwd, diskVars, coords,
                 donorVars>>

\* recv_joiner for the gtid stream: socat binds the port, or fails.
BindGtid(a) ==
  /\ jpc[a] = "bind"
  /\ IF Listening = {}
     THEN /\ GoTo(a, "gtid") /\ SetSock(a, "gtid", "listen")
          /\ UNCHANGED diskVars
     ELSE Fail(a) /\ UNCHANGED sock
  /\ UNCHANGED <<serverVars, ready, src, stat, cwd, coords, donorVars>>

\* A donor that was, or will be, started for the attempt is on its way.
DonorComing(a) == ParentAlive(a) /\ dpc[a] \in {"none", "gtid", "gtidSend"}

\* `timeout' ends socat when sst-initial-timeout expires, whether or not the
\* script is still there to see it.
GtidTimeout(a) ==
  /\ sock[a]["gtid"] \in {"listen", "open"}
  /\ "slowDonor" \in Faults \/ ~DonorComing(a)
  /\ SetSock(a, "gtid", "broken")
  /\ UNCHANGED <<serverVars, jpc, ready, src, stat, cwd, diskVars, coords,
                 donorVars>>

\* What recv_joiner demands of the info file.
Trusted(a) ==
  /\ "info" \in stat[a]
  /\ Secrets => "secret" \in stat[a] /\ src[a]["gtid"][1] = a

GtidReceived(a) ==
  /\ jpc[a] = "gtid" /\ sock[a]["gtid"] \in {"eof", "broken"}
  /\ IF sock[a]["gtid"] = "eof" /\ Trusted(a)
     THEN GoTo(a, "parent") /\ UNCHANGED diskVars
     ELSE Fail(a)
  /\ UNCHANGED <<serverVars, ready, netVars, coords, donorVars>>

\* The parent may have gone during the gtid stage; the marker selects IST.
CheckParent(a) ==
  /\ jpc[a] = "parent"
  /\ IF ParentAlive(a)
     THEN /\ GoTo(a, IF IstSelected(a) THEN "coords" ELSE "rmsst")
          /\ UNCHANGED diskVars
     ELSE Fail(a)
  /\ UNCHANGED <<serverVars, ready, netVars, coords, donorVars>>

\* rm -rf of .sst: what a receiver still puts there can make it fail.
RmSst(a, next) ==
  /\ \/ /\ sst' = 0 /\ backup' = Empty
        /\ GoTo(a, next)
        /\ UNCHANGED <<pidfile, data, left>>
     \/ /\ sst # 0
        /\ \E b \in Attempts : sock[b]["data"] = "open" /\ cwd[b] = sst
        /\ Fail(a)
  /\ UNCHANGED <<serverVars, ready, netVars, coords, donorVars>>

\* Mutant: what an earlier transfer has left in .sst stays there.
RemoveStale_Keep(a) ==
  /\ jpc[a] = "rmsst"
  /\ GoTo(a, "mksst")
  /\ UNCHANGED <<serverVars, ready, netVars, diskVars, coords, donorVars>>

RemoveStale(a) == jpc[a] = "rmsst" /\ RmSst(a, "mksst")

\* mkdir -p: an .sst that is there again is taken as it is.  A receiver is
\* forked, to fill it in the background.
MakeSst(a) ==
  /\ jpc[a] = "mksst"
  /\ sst' = IF sst = 0 THEN a ELSE sst
  /\ SetSock(a, "data", "start")
  /\ GoTo(a, "clean")
  /\ UNCHANGED <<serverVars, ready, src, stat, cwd, pidfile, backup, data,
                 left, coords, donorVars>>

\* The receiver goes to the .sst there is by then, if there is one.
ReceiverEnter(a) ==
  /\ sock[a]["data"] = "start"
  /\ cwd' = [cwd EXCEPT ![a] = sst]
  /\ SetSock(a, "data", IF sst = 0 THEN "broken" ELSE "entered")
  /\ UNCHANGED <<serverVars, jpc, ready, src, stat, diskVars, coords,
                 donorVars>>

ReceiverBind(a) ==
  /\ sock[a]["data"] = "entered"
  /\ SetSock(a, "data", IF Listening = {} THEN "listen" ELSE "broken")
  /\ UNCHANGED <<serverVars, jpc, ready, src, stat, cwd, diskVars, coords,
                 donorVars>>

\* find lists the datadir, except for what the pattern cpat names: .sst is
\* one of those, wsrep_sst.pid is not.
FindOld(a) ==
  /\ jpc[a] = "clean"
  /\ left' = [left EXCEPT ![a] = {f \in DataFiles : data[f] # NoData}
                                \union (IF pidfile = 0 THEN {} ELSE {"pid"})]
  /\ GoTo(a, "cleaning")
  /\ UNCHANGED <<serverVars, ready, netVars, pidfile, sst, backup, data, coords,
                 donorVars>>

\* rm removes what find has listed, one file after the other.
RemoveOld(a) ==
  /\ jpc[a] = "cleaning"
  /\ \/ \E f \in left[a] :
          /\ left' = [left EXCEPT ![a] = @ \ {f}]
          /\ pidfile' = IF f = "pid" THEN 0 ELSE pidfile
          /\ data' = [g \in DataFiles |-> IF g = f THEN NoData ELSE data[g]]
          /\ UNCHANGED jpc
     \/ /\ left[a] = {}
        /\ GoTo(a, "monitor")
        /\ UNCHANGED <<pidfile, data, left>>
  /\ UNCHANGED <<serverVars, ready, netVars, sst, backup, coords, donorVars>>

\* Mutant: a plain wait for the receiver, which does not look at the parent.
Monitor_NoParent(a) ==
  /\ jpc[a] = "monitor" /\ sock[a]["data"] \in {"eof", "broken"}
  /\ GoTo(a, "check")
  /\ UNCHANGED <<serverVars, ready, netVars, diskVars, coords, donorVars>>

\* monitor_process: the parent is looked at first, then the receiver.
Monitor(a) ==
  /\ jpc[a] = "monitor"
  /\ \/ /\ ~ParentAlive(a)
        /\ Fail(a)
     \/ /\ ParentAlive(a) /\ sock[a]["data"] \in {"eof", "broken"}
        /\ GoTo(a, "check")
        /\ UNCHANGED diskVars
  /\ UNCHANGED <<serverVars, ready, netVars, coords, donorVars>>

\* The exit status of the receiver is not looked at, this file is.
HasCheckpoints == backup["checkpoints"] # 0

CheckBackup(a) ==
  /\ jpc[a] = "check"
  /\ IF HasCheckpoints
     THEN GoTo(a, "prepare") /\ UNCHANGED diskVars
     ELSE Fail(a)
  /\ UNCHANGED <<serverVars, ready, netVars, coords, donorVars>>

\* Decompression and --prepare work on whatever .sst holds.
Prepare(a) ==
  /\ jpc[a] = "prepare"
  /\ \/ /\ HasCheckpoints
        /\ backup' = [backup EXCEPT !["prepared"] = backup["checkpoints"]]
        /\ GoTo(a, "move")
        /\ UNCHANGED <<pidfile, sst, data, left>>
     \/ /\ ~HasCheckpoints \/ "prepareFails" \in Faults
           \/ \E f \in Files : backup[f] # backup["checkpoints"]
        /\ Fail(a)
  /\ UNCHANGED <<serverVars, ready, netVars, coords, donorVars>>

\* --move-back begins: it fails on a backup that is not prepared.
FindBackup(a) ==
  /\ jpc[a] = "move"
  /\ IF backup["prepared"] # 0
     THEN /\ left' = [left EXCEPT ![a] = {f \in DataFiles : backup[f] # 0}]
          /\ GoTo(a, "moving")
          /\ UNCHANGED <<pidfile, sst, backup, data>>
     ELSE Fail(a)
  /\ UNCHANGED <<serverVars, ready, netVars, coords, donorVars>>

\* It moves the files one by one, and fails on one that has gone, and on one
\* that is in the datadir already; what it has moved stays there.
MoveBack(a) ==
  /\ jpc[a] = "moving"
  /\ \/ \E f \in left[a] :
          IF backup[f] # 0 /\ data[f] = NoData
          THEN /\ data' = [data EXCEPT ![f] = backup[f]]
               /\ backup' = [backup EXCEPT ![f] = 0]
               /\ left' = [left EXCEPT ![a] = @ \ {f}]
               /\ UNCHANGED <<jpc, pidfile, sst>>
          ELSE Fail(a)
     \/ /\ left[a] = {}
        /\ GoTo(a, "finish")
        /\ UNCHANGED diskVars
  /\ UNCHANGED <<serverVars, ready, netVars, coords, donorVars>>

RemoveMoved(a) == jpc[a] = "finish" /\ RmSst(a, "coords")

\* $MAGIC_FILE at the end: in STATDIR if IST was selected, else in the datadir.
Magic(a) == IF IstSelected(a) THEN src[a]["gtid"][1] ELSE data["info"]

\* The co-ordinates are printed, and the script exits with status 0.
PrintCoords(a) ==
  /\ jpc[a] = "coords"
  /\ IF Magic(a) # NoData
     THEN /\ coords' = [coords EXCEPT ![a] = Magic(a)]
          /\ GoTo(a, "ok") /\ pidfile' = 0
          /\ UNCHANGED <<sst, backup, data, left>>
     ELSE Fail(a) /\ UNCHANGED coords
  /\ UNCHANGED <<serverVars, ready, netVars, donorVars>>

\* SIGTERM: bash runs the EXIT trap with $? = 0, the trap finds no coords and
\* exits with 32; so the test `$estatus -ge 128' fails and the processes of
\* the script's group are left alone.
Terminate(a) ==
  /\ "signal" \in Faults /\ crashes < MaxCrashes
  /\ jpc[a] \in {"bind", "gtid", "parent", "rmsst", "mksst", "clean", "monitor"}
  /\ crashes' = crashes + 1
  /\ Fail(a)
  /\ UNCHANGED <<att, up, ready, netVars, coords, donorVars>>

-----------------------------------------------------------------------------
(***************************************************************************)
(* The donor script, one stream after the other.                           *)
(***************************************************************************)

DonorGoTo(d, pc) == dpc' = [dpc EXCEPT ![d] = pc]

\* The socket that has accepted a stream, if its process is still there.
Peer(d, s) == {r \in Attempts \X Stages :
                 src[r[1]][r[2]] = <<d, s>> /\ sock[r[1]][r[2]] = "open"}

\* The directory a receiver is in is still there: STATDIR goes with its script,
\* .sst with the next transfer.
Writable(r) == IF r[2] = "gtid" THEN Alive(r[1])
                                ELSE sst # 0 /\ cwd[r[1]] = sst

Connect(d, s, pc) ==
  IF Listening # {}
  THEN \E r \in Listening :
         /\ SetSock(r[1], r[2], "open")
         /\ src' = [src EXCEPT ![r[1]][r[2]] = <<d, s>>]
         /\ DonorGoTo(d, pc)
  ELSE DonorGoTo(d, "failed") /\ UNCHANGED <<sock, src>>

DonorConnectGtid(d) ==
  /\ dpc[d] = "gtid"
  /\ Connect(d, "gtid", "gtidSend")
  /\ UNCHANGED <<serverVars, jpc, ready, stat, cwd, diskVars, coords, bypass,
                 sent>>

GtidItems(d) == {"info"} \union (IF Secrets THEN {"secret"} ELSE {})
                         \union (IF bypass[d] THEN {"ist"} ELSE {})

\* The receiver r extracts items of the donor d.
Extract(r, d, items) ==
  IF r[2] = "gtid"
  THEN /\ stat' = [stat EXCEPT ![r[1]] = @ \union (items \intersect StatItems)]
       /\ UNCHANGED backup
  ELSE /\ backup' = [i \in BackupItems |-> IF i \in items THEN d ELSE backup[i]]
       /\ UNCHANGED stat

\* It may stop at a file that is there already, or overwrite it.
Collides(r, items) ==
  r[2] = "data" /\ \E i \in items \intersect BackupItems : backup[i] # 0

\* What it makes of the last items of a stream.
Deliver(r, d, items) ==
  \/ Writable(r) /\ Extract(r, d, items) /\ SetSock(r[1], r[2], "eof")
  \/ /\ ~Writable(r) \/ Collides(r, items)
     /\ SetSock(r[1], r[2], "broken") /\ UNCHANGED <<stat, backup>>

\* send_donor.  A peer that has gone may be noticed or not, the stream being
\* shorter than the buffers of the connection.
DonorSendGtid(d) ==
  /\ dpc[d] = "gtidSend"
  /\ LET next == IF bypass[d] THEN "done" ELSE "sleep" IN
     \/ \E r \in Peer(d, "gtid") :
          Deliver(r, d, GtidItems(d)) /\ DonorGoTo(d, next)
     \/ /\ Peer(d, "gtid") = {}
        /\ \E pc \in {next, "failed"} : DonorGoTo(d, pc)
        /\ UNCHANGED <<sock, stat, backup>>
  /\ UNCHANGED <<serverVars, jpc, ready, src, cwd, pidfile, sst, data, left,
                 coords, bypass, sent>>

\* The joiner of the attempt is between its two receivers.
SettingUp(d) == \/ jpc[d] \in {"gtid", "parent", "rmsst", "mksst"}
                \/ sock[d]["data"] \in {"start", "entered"}


\* sleep 10: long enough for the joiner to set up its second receiver.
DonorWake(d) ==
  /\ dpc[d] = "sleep"
  /\ "slowJoiner" \in Faults \/ ~SettingUp(d)
  /\ DonorGoTo(d, "connect")
  /\ UNCHANGED <<serverVars, jpc, ready, netVars, diskVars, coords, bypass,
                 sent>>

\* Mutant: the exit codes of the pipeline are not looked at.
DonorConnectData_NoCheck(d) ==
  /\ dpc[d] = "connect"
  /\ IF Listening # {}
     THEN Connect(d, "data", "data")
     ELSE DonorGoTo(d, "done") /\ UNCHANGED <<sock, src>>
  /\ UNCHANGED <<serverVars, jpc, ready, stat, cwd, diskVars, coords, bypass,
                 sent>>

DonorConnectData(d) ==
  /\ dpc[d] = "connect"
  /\ Connect(d, "data", "data")
  /\ UNCHANGED <<serverVars, jpc, ready, stat, cwd, diskVars, coords, bypass,
                 sent>>

\* mariadb-backup sends the files one by one, last the info and checkpoints.
DonorStream(d) ==
  /\ dpc[d] = "data"
  /\ \E r \in Peer(d, "data"), f \in Files \ sent[d] :
       /\ Writable(r) /\ Extract(r, d, {f})
       /\ sent' = [sent EXCEPT ![d] = @ \union {f}]
  /\ UNCHANGED <<serverVars, jpc, ready, sock, src, cwd, pidfile, sst, data,
                 left, coords, dpc, bypass>>

DonorFinish(d) ==
  /\ dpc[d] = "data" /\ sent[d] = Files
  /\ \E r \in Peer(d, "data") :
       Writable(r) /\ Deliver(r, d, {"info", "checkpoints"})
  /\ DonorGoTo(d, "done")
  /\ UNCHANGED <<serverVars, jpc, ready, src, cwd, pidfile, sst, data, left,
                 coords, bypass, sent>>

\* The backup breaks off: its receiver has gone, cannot write or stops at a
\* file, or the donor itself fails.
DonorBreaks(d) ==
  /\ \/ /\ dpc[d] = "data"
        /\ \A r \in Peer(d, "data") :
             ~Writable(r) \/ Collides(r, Files \ sent[d])
     \/ /\ "donorFails" \in Faults
        /\ dpc[d] \notin {"none", "done", "failed"}
  /\ sock' = [a \in Attempts |-> [s \in Stages |->
               IF <<a, s>> \in Peer(d, "gtid") \union Peer(d, "data")
               THEN "broken" ELSE sock[a][s]]]
  /\ DonorGoTo(d, "failed")
  /\ UNCHANGED <<serverVars, jpc, ready, src, stat, cwd, diskVars, coords,
                 bypass, sent>>

\* socat dies of a signal after the backup was written to its pipe: of the
\* exit codes of the pipeline only the first, and 1 for the last, are errors.
DonorLosesTail(d) ==
  /\ "tailLost" \in Faults
  /\ dpc[d] = "data"
  /\ \E r \in Peer(d, "data") : SetSock(r[1], r[2], "broken")
  /\ DonorGoTo(d, "done")
  /\ UNCHANGED <<serverVars, jpc, ready, src, stat, cwd, diskVars, coords,
                 bypass, sent>>

-----------------------------------------------------------------------------
JoinerStep(a) ==
  \/ StopWaiting(a) \/ CheckPid(a) \/ WritePid(a) \/ BindGtid(a)
  \/ GtidReceived(a) \/ CheckParent(a) \/ RemoveStale(a) \/ MakeSst(a)
  \/ FindOld(a) \/ RemoveOld(a) \/ Monitor(a) \/ CheckBackup(a) \/ Prepare(a)
  \/ FindBackup(a) \/ MoveBack(a) \/ RemoveMoved(a) \/ PrintCoords(a)

DonorStep(d) ==
  \/ DonorConnectGtid(d) \/ DonorSendGtid(d) \/ DonorWake(d)
  \/ DonorConnectData(d) \/ DonorStream(d) \/ DonorFinish(d)
  \/ DonorBreaks(d) \/ DonorLosesTail(d)

Next ==
  \/ StartServer \/ Crash \/ Abort \/ StartDonor
  \/ \E a \in Attempts :
       JoinerStep(a) \/ Ready(a) \/ GtidTimeout(a) \/ ReceiverEnter(a)
       \/ ReceiverBind(a) \/ Terminate(a) \/ KillLeftOver(a) \/ DonorStep(a)

Spec == Init /\ [][Next]_vars

(***************************************************************************)
(* Fairness: the scripts and the processes they start run on, and the      *)
(* timeout expires in the end.  The cluster finds a donor, and tells the   *)
(* joiner of a donor that failed, upon which its mysqld aborts.            *)
(***************************************************************************)
Fairness ==
  /\ WF_vars(StartDonor) /\ WF_vars(Abort)
  /\ \A a \in Attempts :
       /\ WF_vars(JoinerStep(a)) /\ WF_vars(Ready(a))
       /\ WF_vars(GtidTimeout(a)) /\ WF_vars(DonorStep(a))
       /\ WF_vars(ReceiverEnter(a)) /\ WF_vars(ReceiverBind(a))

FairSpec == Spec /\ WF_vars(StartServer) /\ Fairness

-----------------------------------------------------------------------------
(***************************************************************************)
(* Properties.                                                             *)
(***************************************************************************)

\* Every variable has its type, and there is at most one listener.
TypeOK ==
  /\ att \in 0..MaxAttempts /\ up \in BOOLEAN /\ crashes \in 0..MaxCrashes
  /\ jpc \in [Attempts -> JoinerStates]
  /\ ready \subseteq Attempts
  /\ pidfile \in {0} \union Attempts
  /\ sock \in [Attempts -> [Stages -> SocketStates]]
  /\ src \in [Attempts -> [Stages -> (0..MaxAttempts) \X Stages]]
  /\ stat \in [Attempts -> SUBSET StatItems]
  /\ cwd \in [Attempts -> 0..MaxAttempts] /\ sst \in 0..MaxAttempts
  /\ backup \in [BackupItems -> 0..MaxAttempts]
  /\ data \in [DataFiles -> States]
  /\ left \in [Attempts -> SUBSET (DataFiles \union {"pid"})]
  /\ coords \in [Attempts -> States]
  /\ dpc \in [Attempts -> DonorStates]
  /\ bypass \in [Attempts -> BOOLEAN]
  /\ sent \in [Attempts -> SUBSET Files]
  /\ Cardinality(Listening) <= 1

\* What the scripts do is what StateTransfer promises: coords are those of
\* the one database in the datadir, which came whole from one donor.
Result(a) ==
  CASE jpc[a] = "none"   -> "none"
    [] jpc[a] = "ok"     -> "joined"
    [] jpc[a] = "failed" -> "failed"
    [] jpc[a] = "coords" /\ IstSelected(a) -> "ist"
    [] OTHER -> "running"

Transfer == INSTANCE StateTransfer WITH
              data <- DatabaseOf(data),
              result <- [a \in Attempts |-> Result(a)]

KeepsPromise == Transfer!Spec

\* When both scripts of the current attempt have reported success, and IST was
\* not chosen, the joiner has the database of that donor, whatever streams of
\* other donors its receivers were given.
BothSucceed ==
  up /\ jpc[att] = "ok" /\ dpc[att] = "done" /\ ~bypass[att]
  => coords[att] = att

\* Every joiner script ends, whatever becomes of donors and of its mysqld.
JoinerEnds == \A a \in Attempts : Alive(a) ~> ~Alive(a)


\* Once a script has written its pid file, the next one goes on only when it
\* has completed.
PreviousCompleted ==
  [][\A a, b \in Attempts :
       jpc[a] = "wait" /\ jpc'[a] = "pid" /\ Alive(b)
       => jpc[b] \in {"wait", "pid"}]_vars

\* A script that is sent a signal ends with all of its process group.
SignalEndsGroup ==
  [][\A a \in Attempts : Terminate(a)
       => \A s \in Stages : sock'[a][s] \notin Unfinished]_vars

=============================================================================
