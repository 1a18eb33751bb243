------------------------------- MODULE RunVM -------------------------------
(***************************************************************************)
(* buildbot/runvm: boot a KVM image, run a list of commands in it, shut it *)
(* down.  Three kinds of process interleave:                               *)
(*                                                                         *)
(*   - the parent, one per invocation (`ppc' is its program counter);      *)
(*   - one management process per boot, forked by the parent between       *)
(*     itself and KVM; the parent holds the write end of its stdin pipe    *)
(*     (PIPE1), so that it notices the death of the parent (`mpc');        *)
(*   - one KVM process per boot, child of the management process (`kvm').  *)
(*                                                                         *)
(* They share the forwarded port, the pid file and the image files.  A     *)
(* boot is named by a number that is also the pid of its KVM process; pid  *)
(* 0 is the process an earlier day's pid file names, which is gone.        *)
(***************************************************************************)
EXTENDS Integers, FiniteSets

CONSTANTS
  MaxRetries,      \* $opt_max_retries
  NumCmds,         \* length of the command list @ARGV
  AlwaysRun,       \* commands with the prefix `!'
  HostCmds,        \* commands with the prefix `='
  Images,          \* "plain", "base" (--base-image) or "work" (and --work-image)
  UnlinksPidfile,  \* whether this qemu removes its pid file on a clean exit
  Faults,          \* what the environment may do besides: see AllFaults
  MaxInvocations,  \* bound: invocations of runvm on this port, one at a time
  MaxBoots,        \* bound: KVM processes these may fork altogether
  MaxKills         \* bound: parents killed by a signal

(* "earlyReap": SIGCHLD of ssh reaches perl before its waitpid($pid).      *)
(* "slowStart": KVM may not have bound the port yet when the initial sleep *)
(*              ends, or when the next invocation begins.                  *)
(* "mvFails":   /bin/mv of the work image may fail.                        *)
AllFaults == {"earlyReap", "slowStart", "mvFails"}

ASSUME ConstantsAssumption ==
  /\ MaxRetries \in Nat \ {0}
  /\ NumCmds \in Nat
  /\ AlwaysRun \subseteq 1..NumCmds
  /\ HostCmds \subseteq 1..NumCmds
  /\ Images \in {"plain", "base", "work"}
  /\ UnlinksPidfile \in BOOLEAN
  /\ Faults \subseteq AllFaults
  /\ MaxInvocations \in Nat
  /\ MaxBoots \in Nat
  /\ MaxKills \in Nat

NoPid  == -1        \* undef, the result of get_kvm_pid() without a pid file
NotRun == -1        \* in `log': the command was skipped or not reached
Died   == 255       \* exit status of die()
Codes  == {1, 2}    \* the exit codes of failing commands, all we tell apart
Absent == 0         \* no file at this path
Torn   == -1        \* a copy made while KVM was writing to the original

Paths == {"work", "image"}
Boots == 1..MaxBoots
Pids  == 0..MaxBoots
Cmds  == 1..NumCmds

VARIABLES
  ppc,        \* program counter of the parent
  sdRet,      \* where the parent's shutdown_kvm() returns to
  inv,        \* invocations so far
  kills,      \* parents killed so far
  retries,    \* $retries
  pipe,       \* boot whose management process PIPE1 feeds, 0 if not open
  ok,         \* $success_attempts of wait_for_up
  kvmPid,     \* $kvm_pid of the running wait_for_up, start_kvm or shutdown_kvm
  timeout,    \* $timeout of the running wait_for_up or shutdown_kvm
  cmd,        \* next command of @ARGV
  ret,        \* exit status of the parent, $ret
  log,        \* history: the status of each command of this invocation
  boots,      \* KVM processes forked so far
  mpc,        \* program counters of the management processes
  kvm,        \* states of the KVM processes
  disk,       \* the overlay each KVM process has open
  pidfile,    \* content of the pid file
  file,       \* the overlay at the paths $opt_work_image and $image
  created     \* overlays created so far, their names

parentVars == <<ppc, sdRet, retries, pipe, ok, kvmPid, timeout, cmd, ret, log>>
envVars    == <<inv, kills>>
procVars   == <<boots, mpc, kvm, disk, pidfile>>
fileVars   == <<file, created>>
vars       == <<parentVars, envVars, procVars, fileVars>>

ParentStates == {"idle", "create", "probe", "probed", "recheck", "fork",
                 "sleep", "ssh", "check", "failed", "cmds", "sdSsh", "sdPoll",
                 "sdKill", "sdGrace", "retry", "closing", "exited", "killed"}
Ended        == {"idle", "exited", "killed"}
MgmtStates   == {"none", "stdin", "ssh", "reaping", "mv", "gone"}
KvmStates    == {"none", "forked", "boot", "up", "halting", "dying", "zombie",
                 "gone"}

(***************************************************************************)
(* What the processes can ask of each other.                               *)
(***************************************************************************)
Running(g) == kvm[g] \in {"boot", "up", "halting", "dying"}
Alive(p)   == kvm[p] \notin {"none", "gone"}           \* kill(0, p)
PortUsed   == \E g \in Boots : Running(g)           \* is_port_used()
GuestUp    == \E g \in Boots : kvm[g] = "up"
StillRunning(p) == PortUsed \/ (p # NoPid /\ Alive(p)) \* check_if_still_running

InUse(overlay) == \E g \in Boots : Running(g) /\ disk[g] = overlay

\* The path KVM boots from, and the one qemu-img creates.
VmPath == IF Images = "work" THEN "work" ELSE "image"

\* The management process reads end of file once the parent is gone, closes
\* the pipe by reopening PIPE1, or runs down its open handles in exit or die.
HoldsPipe(g) == pipe = g /\ ppc \notin {"fork", "closing"}

\* Mutant: the pipe is closed without waiting, as close of a plain file is.
MgmtDone_NoWait == TRUE

\* Closing PIPE1 waits for its process, if it is open.
MgmtDone == \A g \in Boots : pipe = g => mpc[g] = "gone"

Init ==
  /\ ppc = "idle" /\ sdRet = "recheck"
  /\ inv = 0 /\ kills = 0 /\ retries = 0 /\ pipe = 0 /\ ok = 0
  /\ kvmPid = NoPid /\ timeout = FALSE
  /\ cmd = 1 /\ ret = 0 /\ log = [c \in Cmds |-> NotRun]
  /\ boots = 0
  /\ mpc = [g \in Boots |-> "none"]
  /\ kvm = [p \in Pids |-> IF p = 0 THEN "gone" ELSE "none"]
  /\ disk = [g \in Boots |-> Absent]
  /\ pidfile \in {NoPid, 0}
  /\ file = [p \in Paths |-> IF p = "work" THEN Absent ELSE 1]
  /\ created = 1

-----------------------------------------------------------------------------
(***************************************************************************)
(* The parent: the main loop, start_kvm, wait_for_up, shutdown_kvm.        *)
(***************************************************************************)

\* The next runvm on this port; Buildbot runs one build of a slave at a time.
StartInvocation ==
  /\ ppc \in Ended
  /\ inv < MaxInvocations
  /\ boots + MaxRetries <= MaxBoots
  /\ "slowStart" \in Faults \/ \A g \in Boots : kvm[g] # "forked"
  /\ inv' = inv + 1
  /\ ppc' = "create" /\ sdRet' = "recheck"
  /\ retries' = 0 /\ cmd' = 1 /\ ret' = 0
  /\ log' = [c \in Cmds |-> NotRun]
  /\ UNCHANGED <<kills, pipe, ok, kvmPid, timeout, procVars, fileVars>>

\* exit() and die() run down PIPE1: they wait for the management process.
Exit(code) == ppc' = "closing" /\ ret' = code

\* qemu-img create overwrites whatever is at the path, before start_kvm looks
\* for an earlier KVM.
CreateImage ==
  /\ ppc = "create"
  /\ \/ /\ Images = "plain"
        /\ ppc' = "probe"
        /\ UNCHANGED <<ret, fileVars>>
     \/ /\ Images # "plain"
        /\ ppc' = "probe"
        /\ created' = created + 1
        /\ file' = [file EXCEPT ![VmPath] = created + 1]
        /\ UNCHANGED ret
     \/ /\ Images # "plain"
        /\ Exit(1)
        /\ UNCHANGED fileVars
  /\ UNCHANGED <<sdRet, retries, pipe, ok, kvmPid, timeout, cmd, log, envVars,
                 procVars>>

\* Mutant: the test for a stale pid is inverted.
Probe_Inverted ==
  /\ ppc = "probe"
  /\ ppc' = "probed"
  /\ kvmPid' = IF pidfile # NoPid /\ Alive(pidfile) THEN NoPid ELSE pidfile
  /\ UNCHANGED <<sdRet, retries, pipe, ok, timeout, cmd, ret, log, envVars,
                 procVars, fileVars>>

\* start_kvm: the pid of an earlier KVM, unless it is stale.
Probe ==
  /\ ppc = "probe"
  /\ ppc' = "probed"
  /\ kvmPid' = IF pidfile # NoPid /\ Alive(pidfile) THEN pidfile ELSE NoPid
  /\ UNCHANGED <<sdRet, retries, pipe, ok, timeout, cmd, ret, log, envVars,
                 procVars, fileVars>>

\* Entering shutdown_kvm(pid), to continue at `next' when it returns.
CallShutdown(pid, next) ==
  /\ ppc' = "sdSsh" /\ sdRet' = next
  /\ kvmPid' = pid /\ timeout' = FALSE

\* Mutant: KVM is started without a look at the port.
ProbePort_Skipped ==
  /\ ppc = "probed"
  /\ ppc' = "fork"
  /\ UNCHANGED <<sdRet, retries, pipe, ok, kvmPid, timeout, cmd, ret, log,
                 envVars, procVars, fileVars>>

\* start_kvm: shut an earlier KVM down if it has the port.
ProbePort ==
  /\ ppc = "probed"
  /\ \/ PortUsed /\ CallShutdown(kvmPid, "recheck")
     \/ ~PortUsed /\ ppc' = "recheck" /\ UNCHANGED <<sdRet, kvmPid, timeout>>
  /\ UNCHANGED <<retries, pipe, ok, cmd, ret, log, envVars, procVars, fileVars>>

Recheck ==
  /\ ppc = "recheck"
  /\ \/ PortUsed /\ Exit(Died)
     \/ ~PortUsed /\ ppc' = "fork" /\ UNCHANGED ret
  /\ UNCHANGED <<sdRet, retries, pipe, ok, kvmPid, timeout, cmd, log, envVars,
                 procVars, fileVars>>

\* open(PIPE1, '|-'): on a retry PIPE1 is still open, and perl first closes it
\* and waits for its process.  Then the management process is forked, and it
\* forks KVM; wait_for_up begins with its initial sleep.
Fork ==
  /\ ppc = "fork"
  /\ MgmtDone
  /\ boots' = boots + 1
  /\ pipe' = boots + 1
  /\ mpc' = [mpc EXCEPT ![boots + 1] = "stdin"]
  /\ kvm' = [kvm EXCEPT ![boots + 1] = "forked"]
  /\ ppc' = "sleep"
  /\ ok' = 0 /\ kvmPid' = NoPid /\ timeout' = FALSE
  /\ UNCHANGED <<sdRet, retries, cmd, ret, log, envVars, disk, pidfile, fileVars>>

\* The initial sleep is over; KVM started meanwhile unless it is very slow.
WakeUp ==
  /\ ppc = "sleep"
  /\ "slowStart" \in Faults \/ kvm[boots] # "forked"
  /\ ppc' = "ssh"
  /\ UNCHANGED <<sdRet, retries, pipe, ok, kvmPid, timeout, cmd, ret, log,
                 envVars, procVars, fileVars>>

\* One `ssh true'.  It may fail at any time, and succeeds only if some guest
\* answers on the port.
SshTrue ==
  /\ ppc = "ssh"
  /\ ~timeout
  /\ \/ GuestUp /\ ok' = ok + 1
     \/ ok' = 0
  /\ ppc' = IF ok' = 3 THEN "cmds" ELSE "check"
  /\ UNCHANGED <<sdRet, retries, pipe, kvmPid, timeout, cmd, ret, log, envVars,
                 procVars, fileVars>>

\* After an attempt: is KVM still there?  $kvm_pid is read from the pid file
\* once, and kill(0, undef) dies.
CheckKvm ==
  /\ ppc = "check"
  /\ kvmPid' = IF kvmPid = NoPid THEN pidfile ELSE kvmPid
  /\ \/ kvmPid' = NoPid /\ Exit(Died)
     \/ /\ kvmPid' # NoPid
        /\ ppc' = IF Alive(kvmPid') THEN "ssh" ELSE "failed"
        /\ UNCHANGED ret
  /\ UNCHANGED <<sdRet, retries, pipe, ok, timeout, cmd, log, envVars, procVars,
                 fileVars>>

\* Mutant: the result of wait_for_up is ignored.
GiveUp_Proceeds ==
  /\ ppc = "ssh"
  /\ timeout
  /\ ppc' = "cmds"
  /\ UNCHANGED <<sdRet, retries, pipe, ok, kvmPid, timeout, cmd, ret, log,
                 envVars, procVars, fileVars>>

\* wait_for_up leaves its loop by the timeout.
GiveUp ==
  /\ ppc = "ssh"
  /\ timeout
  /\ ppc' = "failed"
  /\ UNCHANGED <<sdRet, retries, pipe, ok, kvmPid, timeout, cmd, ret, log,
                 envVars, procVars, fileVars>>

\* The alarm: it sets $timeout, ends the initial sleep or kills the ssh child.
Alarm ==
  /\ ~timeout
  /\ timeout' = TRUE
  /\ \/ /\ ppc \in {"ssh", "check", "sdSsh", "sdPoll"}
        /\ UNCHANGED <<ppc, ok>>
     \/ /\ ppc = "sleep"
        /\ "slowStart" \in Faults \/ kvm[boots] # "forked"
        /\ ppc' = "ssh"
        /\ UNCHANGED ok
     \/ ppc = "ssh" /\ ppc' = "check" /\ ok' = 0
  /\ UNCHANGED <<sdRet, retries, pipe, kvmPid, cmd, ret, log, envVars, procVars,
                 fileVars>>

\* Mutant: the retry does not shut down the KVM that hangs.
BootFailed_NoShutdown ==
  /\ ppc = "failed"
  /\ retries' = retries + 1
  /\ ppc' = "retry"
  /\ UNCHANGED <<sdRet, pipe, ok, kvmPid, timeout, cmd, ret, log, envVars,
                 procVars, fileVars>>

\* Mutant: a boot that failed is not counted.
BootFailed_NotCounted ==
  /\ ppc = "failed"
  /\ CallShutdown(pidfile, "retry")
  /\ UNCHANGED <<retries, pipe, ok, cmd, ret, log, envVars, procVars, fileVars>>

\* KVM did not come up.
BootFailed ==
  /\ ppc = "failed"
  /\ retries' = retries + 1
  /\ CallShutdown(pidfile, "retry")
  /\ UNCHANGED <<pipe, ok, cmd, ret, log, envVars, procVars, fileVars>>

MayRetry == retries < MaxRetries

Retry ==
  /\ ppc = "retry"
  /\ \/ MayRetry /\ ppc' = "create" /\ UNCHANGED ret
     \/ ~MayRetry /\ Exit(1)
  /\ UNCHANGED <<sdRet, retries, pipe, ok, kvmPid, timeout, cmd, log, envVars,
                 procVars, fileVars>>

\* Mutant: the prefix `!' is forgotten.
Skipped_Always(c) == ret # 0
Skipped(c) == ret # 0 /\ c \notin AlwaysRun

\* system() waits for a command without a timeout: one of the host may never
\* return, nor may ssh as long as there is a machine at the other end.
MayHang ==
  /\ ppc = "cmds" /\ cmd \in Cmds /\ ~Skipped(cmd)
  /\ cmd \in HostCmds \/ PortUsed

\* One element of @ARGV.  After a failure only `!' commands run; $ret keeps
\* the first failure.  A command that hangs is a step that is never taken.
RunCommand ==
  /\ ppc = "cmds" /\ cmd \in Cmds
  /\ cmd' = cmd + 1
  /\ \/ /\ Skipped(cmd)
        /\ UNCHANGED <<ret, log>>
     \/ \E status \in {0} \cup Codes :
          /\ ~Skipped(cmd)
          /\ status = 0 => cmd \in HostCmds \/ GuestUp
          /\ log' = [log EXCEPT ![cmd] = status]
          /\ ret' = IF ret = 0 THEN status ELSE ret
  /\ UNCHANGED <<ppc, sdRet, retries, pipe, ok, kvmPid, timeout, envVars,
                 procVars, fileVars>>

CommandsDone ==
  /\ ppc = "cmds" /\ cmd \notin Cmds
  /\ CallShutdown(pidfile, "closing")
  /\ UNCHANGED <<retries, pipe, ok, cmd, ret, log, envVars, procVars, fileVars>>

\* `ssh shutdown', by whichever process: a guest that is up begins to halt,
\* whatever status ssh ends with; anything else makes ssh fail.
SshShutdown(success) ==
  \/ \E g \in Boots : kvm[g] = "up" /\ kvm' = [kvm EXCEPT ![g] = "halting"]
  \/ success /\ UNCHANGED kvm /\ \E g \in Boots : kvm[g] = "halting"
  \/ ~success /\ UNCHANGED kvm

\* shutdown_kvm: the loop of ssh attempts.  After a failed one it goes on only
\* while something is running.
ShutdownAttempt ==
  /\ ppc = "sdSsh"
  /\ \/ timeout /\ ppc' = "sdPoll" /\ UNCHANGED kvm
     \/ /\ ~timeout
        /\ \E success \in BOOLEAN :
             /\ SshShutdown(success)
             /\ ppc' = IF success \/ ~StillRunning(kvmPid) THEN "sdPoll" ELSE "sdSsh"
  /\ UNCHANGED <<sdRet, retries, pipe, ok, kvmPid, timeout, cmd, ret, log, envVars,
                 boots, mpc, disk, pidfile, fileVars>>

\* Mutant: the loop does not look at $timeout.
ShutdownPoll_NoTimeout ==
  /\ ppc = "sdPoll"
  /\ ~StillRunning(kvmPid) /\ ppc' = sdRet
  /\ UNCHANGED <<sdRet, retries, pipe, ok, kvmPid, timeout, cmd, ret, log, envVars,
                 procVars, fileVars>>

\* shutdown_kvm: wait for it to come down by itself.
ShutdownPoll ==
  /\ ppc = "sdPoll"
  /\ \/ ~StillRunning(kvmPid) /\ ppc' = sdRet
     \/ StillRunning(kvmPid) /\ timeout /\ ppc' = "sdKill"
  /\ UNCHANGED <<sdRet, retries, pipe, ok, kvmPid, timeout, cmd, ret, log, envVars,
                 procVars, fileVars>>

\* shutdown_kvm: kill -9; kill(9, undef) dies.
ShutdownKill ==
  /\ ppc = "sdKill"
  /\ \/ kvmPid = NoPid /\ Exit(Died) /\ UNCHANGED kvm
     \/ /\ kvmPid # NoPid
        /\ ppc' = "sdGrace"
        /\ kvm' = IF Running(kvmPid) THEN [kvm EXCEPT ![kvmPid] = "dying"] ELSE kvm
        /\ UNCHANGED ret
  /\ UNCHANGED <<sdRet, retries, pipe, ok, kvmPid, timeout, cmd, log, envVars,
                 boots, mpc, disk, pidfile, fileVars>>

\* shutdown_kvm: at most ten seconds later it returns, whether that helped
\* or not.
ShutdownGrace ==
  /\ ppc = "sdGrace"
  /\ ppc' = sdRet
  /\ UNCHANGED <<sdRet, retries, pipe, ok, kvmPid, timeout, cmd, ret, log, envVars,
                 procVars, fileVars>>

\* The end of exit() or die(): PIPE1 is closed and its process waited for.
Close ==
  /\ ppc = "closing"
  /\ MgmtDone
  /\ pipe' = 0
  /\ ppc' = "exited"
  /\ UNCHANGED <<sdRet, retries, ok, kvmPid, timeout, cmd, ret, log, envVars,
                 procVars, fileVars>>

\* The parent is killed by a signal: the build was stopped, or its tty closed.
KillParent ==
  /\ ppc \notin Ended
  /\ kills < MaxKills
  /\ kills' = kills + 1
  /\ ppc' = "killed"
  /\ pipe' = 0
  /\ UNCHANGED <<sdRet, inv, retries, ok, kvmPid, timeout, cmd, ret, log, procVars,
                 fileVars>>

-----------------------------------------------------------------------------
(***************************************************************************)
(* The management process of boot g.  Its SIGCHLD handler, which reaps one *)
(* child, copies the image back and exits, is installed for KVM; but the   *)
(* ssh it forks in shutdown_kvm is its child as well.  Once that ssh has   *)
(* ended the handler always takes over, so nothing behind the first ssh    *)
(* attempt of shutdown_kvm, and nothing behind the call of it, is reached. *)
(***************************************************************************)

\* The handler reaps KVM, whatever the process was doing.
MgmtReapKvm(g) ==
  /\ mpc[g] \in {"stdin", "ssh", "reaping"}
  /\ kvm[g] = "zombie"
  /\ kvm' = [kvm EXCEPT ![g] = "gone"]
  /\ mpc' = [mpc EXCEPT ![g] = "mv"]
  /\ UNCHANGED <<parentVars, envVars, boots, disk, pidfile, fileVars>>

\* Mutant: the image is copied back as soon as the parent is gone.
MgmtEof_NoShutdown(g) ==
  /\ mpc[g] = "stdin"
  /\ ~HoldsPipe(g)
  /\ mpc' = [mpc EXCEPT ![g] = "mv"]
  /\ UNCHANGED <<parentVars, envVars, boots, kvm, disk, pidfile, fileVars>>

\* scalar(<STDIN>) returns: the parent closed the pipe or is gone.
MgmtEof(g) ==
  /\ mpc[g] = "stdin"
  /\ ~HoldsPipe(g)
  /\ mpc' = [mpc EXCEPT ![g] = "ssh"]
  /\ UNCHANGED <<parentVars, envVars, boots, kvm, disk, pidfile, fileVars>>

\* The first ssh attempt of its shutdown_kvm has ended.  If waitpid($pid)
\* reaps ssh, the handler that runs next blocks in waitpid(-1) until KVM
\* exits; if the handler runs first, it reaps ssh and takes it for KVM.
MgmtSsh(g) ==
  /\ mpc[g] = "ssh"
  /\ \E success \in BOOLEAN : SshShutdown(success)
  /\ \/ mpc' = [mpc EXCEPT ![g] = "reaping"]
     \/ "earlyReap" \in Faults /\ mpc' = [mpc EXCEPT ![g] = "mv"]
  /\ UNCHANGED <<parentVars, envVars, boots, disk, pidfile, fileVars>>

\* copy_back_work_image, its status ignored, and exit.  The two paths are on
\* different file systems (/dev/shm), so mv copies and unlinks.
MgmtCopyBack(g) ==
  /\ mpc[g] = "mv"
  /\ mpc' = [mpc EXCEPT ![g] = "gone"]
  /\ \/ /\ Images = "work" /\ file["work"] # Absent
        /\ file' = [file EXCEPT !["work"] = Absent,
                                !["image"] = IF InUse(file["work"]) THEN Torn
                                             ELSE file["work"]]
     \/ /\ Images = "work" => file["work"] = Absent \/ "mvFails" \in Faults
        /\ UNCHANGED file
  /\ UNCHANGED <<parentVars, envVars, boots, kvm, disk, pidfile, created>>

-----------------------------------------------------------------------------
(***************************************************************************)
(* KVM and its guest, as runvm sees them.                                  *)
(***************************************************************************)

\* KVM opens its image, writes its pid file and binds the port, or fails.
KvmStart(g) ==
  /\ kvm[g] = "forked"
  /\ ~PortUsed /\ file[VmPath] # Absent
  /\ kvm' = [kvm EXCEPT ![g] = "boot"]
  /\ disk' = [disk EXCEPT ![g] = file[VmPath]]
  /\ pidfile' = g
  /\ UNCHANGED <<parentVars, envVars, boots, mpc, fileVars>>

KvmFail(g) ==
  /\ kvm[g] = "forked"
  /\ kvm' = [kvm EXCEPT ![g] = "zombie"]
  /\ UNCHANGED <<parentVars, envVars, boots, mpc, disk, pidfile, fileVars>>

GuestBooted(g) ==
  /\ kvm[g] = "boot"
  /\ kvm' = [kvm EXCEPT ![g] = "up"]
  /\ UNCHANGED <<parentVars, envVars, boots, mpc, disk, pidfile, fileVars>>

\* KVM exits: the guest halted, or one of them crashed.
KvmExit(g) ==
  /\ kvm[g] \in {"boot", "up", "halting"}
  /\ kvm' = [kvm EXCEPT ![g] = "zombie"]
  /\ pidfile' = IF UnlinksPidfile THEN NoPid ELSE pidfile
  /\ UNCHANGED <<parentVars, envVars, boots, mpc, disk, fileVars>>

\* SIGKILL takes effect.
KvmKilled(g) ==
  /\ kvm[g] = "dying"
  /\ kvm' = [kvm EXCEPT ![g] = "zombie"]
  /\ UNCHANGED <<parentVars, envVars, boots, mpc, disk, pidfile, fileVars>>

\* init reaps a KVM whose management process is gone.
InitReaps(g) ==
  /\ mpc[g] = "gone" /\ kvm[g] = "zombie"
  /\ kvm' = [kvm EXCEPT ![g] = "gone"]
  /\ UNCHANGED <<parentVars, envVars, boots, mpc, disk, pidfile, fileVars>>

-----------------------------------------------------------------------------
ParentStep ==
  \/ CreateImage \/ Probe \/ ProbePort \/ Recheck \/ Fork \/ WakeUp
  \/ SshTrue \/ CheckKvm \/ GiveUp \/ BootFailed \/ Retry
  \/ RunCommand \/ CommandsDone
  \/ ShutdownAttempt \/ ShutdownPoll \/ ShutdownKill \/ ShutdownGrace \/ Close

MgmtStep(g) == MgmtReapKvm(g) \/ MgmtEof(g) \/ MgmtSsh(g) \/ MgmtCopyBack(g)

\* What the host's kernel sees to.
HostStep(g) == KvmStart(g) \/ KvmFail(g) \/ KvmKilled(g) \/ InitReaps(g)

GuestStep(g) == GuestBooted(g) \/ KvmExit(g)

Next ==
  \/ StartInvocation \/ KillParent
  \/ ParentStep \/ Alarm
  \/ \E g \in Boots : MgmtStep(g) \/ HostStep(g) \/ GuestStep(g)

Spec == Init /\ [][Next]_vars

\* Processes are scheduled, timers fire, SIGKILL kills.  Guests owe us nothing:
\* they may neither boot nor halt, and the commands run in them, like those of
\* the host, may never return.
Fairness ==
  /\ WF_vars(~MayHang /\ ParentStep) /\ WF_vars(Alarm)
  /\ \A g \in Boots : WF_vars(MgmtStep(g)) /\ WF_vars(HostStep(g))

FairSpec == Spec /\ Fairness
-----------------------------------------------------------------------------
(***************************************************************************)
(* Properties.                                                             *)
(***************************************************************************)
Statuses == {0} \cup Codes \cup {Died}

ParentTypeOK ==
  /\ ppc \in ParentStates
  /\ sdRet \in {"recheck", "retry", "closing"}
  /\ inv \in 0..MaxInvocations /\ kills \in 0..MaxKills
  /\ retries \in 0..MaxRetries
  /\ pipe \in 0..boots
  /\ ok \in 0..3
  /\ kvmPid \in Pids \cup {NoPid}
  /\ timeout \in BOOLEAN
  /\ cmd \in 1..(NumCmds + 1)
  /\ ret \in Statuses
  /\ log \in [Cmds -> {NotRun, 0} \cup Codes]

ProcTypeOK ==
  /\ boots \in 0..MaxBoots
  /\ mpc \in [Boots -> MgmtStates]
  /\ kvm \in [Pids -> KvmStates]
  /\ disk \in [Boots -> Nat \cup {Torn}]
  /\ pidfile \in Pids \cup {NoPid}
  /\ file \in [Paths -> Nat \cup {Torn}]
  /\ created \in Nat

\* Every variable has its type; in particular the bounds suffice: no boot finds
\* the supply of KVM processes exhausted, and no invocation retries too often.
TypeOK == ParentTypeOK /\ ProcTypeOK

\* A guest command that succeeds ran in the machine this invocation booted
\* last, not in one that happens to answer on the port.
CommandsInOwnVm ==
  [][ppc = "cmds" /\ cmd' # cmd /\ log'[cmd] = 0 /\ cmd \notin HostCmds
       => kvm[boots] = "up"]_vars

\* The work image is moved to $image only when no KVM runs on it (the comment
\* of copy_back_work_image).
MovedOnlyWhenDown ==
  [][file["work"] # Absent /\ file'["work"] = Absent
       => ~InUse(file["work"])]_vars

\* After exit status 0 the image is the overlay the commands were run on.
ResultIsOwnOverlay ==
  ppc = "exited" /\ ret = 0 /\ Images # "plain" => file["image"] = disk[boots]

\* qemu-img create never overwrites the image of a KVM that was not even told
\* to die.
NoCreateUnderVm ==
  [][created' # created
       => \A g \in Boots : kvm[g] \in {"boot", "up", "halting"}
                            => disk[g] # file[VmPath]]_vars

\* When runvm exits, neither KVM nor a management process is left behind.
NothingLeftRunning ==
  ppc = "exited" => \A g \in Boots : /\ mpc[g] \in {"none", "gone"}
                                     /\ kvm[g] \in {"none", "gone"}

\* Once the commands are through, exactly the commands behind a failure that
\* have no `!' were skipped, and the exit status is that of the first failure.
FirstFailure(status) ==
  LET failed == {c \in Cmds : log[c] \in Codes} IN
  \/ failed = {} /\ status = 0
  \/ \E first \in failed : status = log[first] /\ \A c \in failed : first <= c

RightlySkipped(c) == c \notin AlwaysRun /\ \E d \in 1..(c - 1) : log[d] \in Codes

CommandDiscipline ==
  ppc = "exited" /\ sdRet = "closing" /\ ret # Died =>
    /\ \A c \in Cmds : log[c] = NotRun <=> RightlySkipped(c)
    /\ FirstFailure(ret)

\* Each invocation forks KVM at most MaxRetries times, whatever goes wrong: the
\* limit is one of boots, each counted when it has failed.
BootBudget == boots <= inv * MaxRetries

\* What the usage text says of --kvm-retries=N: a first invocation that gives
\* up has retried the boot N times, that is booted N + 1 times.
RetriesBeforeGivingUp ==
  [][inv = 1 /\ ppc = "retry" /\ ppc' = "closing" => boots = MaxRetries + 1]_vars

\* What runvm does for a build is what VmSession promises: the commands in
\* their order, all in one machine, the one booted last, that has answered.
Phase ==
  CASE ppc = "idle" -> "idle"
    [] ppc \in {"closing", "exited", "killed"} -> "ended"
    [] ppc \in {"sleep", "ssh", "check", "failed"} -> "boot"
    [] ppc = "cmds" -> "serve"
    [] ppc \in {"sdSsh", "sdPoll", "sdKill", "sdGrace"} /\ sdRet = "closing" -> "serve"
    [] OTHER -> "prepare"

GuestState(state) ==
  CASE state = "none" -> "none"
    [] state \in {"forked", "boot"} -> "coming"
    [] state = "up" -> "up"
    [] OTHER -> "down"

Session == INSTANCE VmSession WITH
             Machines <- Boots, phase <- Phase, machine <- boots,
             guest <- [g \in Boots |-> GuestState(kvm[g])]

KeepsSession == Session!Spec

\* An invocation ends, by itself or killed, unless it waits for ever for one of
\* the commands it was given, for which it has no timeout.  A guest that hangs
\* at any other time, or a machine of an earlier build, cannot keep it.
InvocationEnds == []<>(ppc \in Ended) \/ <>[]MayHang

\* What the usage text says of a killed parent: the machine is not left running.
ShutDownWithoutParent ==
  \A g \in Boots : (Running(g) /\ ppc \in Ended) ~> ~Running(g)

\* A machine left running is brought down by the next invocation.
NextInvocationEndsStray ==
  \A g \in Boots : (Running(g) /\ ppc = "probe") ~> ~Running(g)
=============================================================================
