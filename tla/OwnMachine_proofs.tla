------------------------- MODULE OwnMachine_proofs -------------------------
(***************************************************************************)
(* Proofs about RunVM: which machine answers on the port, which image it   *)
(* runs on, and what is left of it when the next image is made.            *)
(***************************************************************************)
EXTENDS RunVM_proofs

Prompt == "slowStart" \notin Faults
NoKill == MaxKills = 0

-----------------------------------------------------------------------------
(***************************************************************************)
(* What a step may do to the KVM processes and where the parent may go.    *)
(***************************************************************************)

\* Only Fork forks a KVM, only KvmStart lets one run, only GuestBooted has a
\* guest come up, and what has ended or was killed does not come back.
KvmStep ==
  \/ Fork
  \/ /\ boots' = boots
     /\ \A g \in Boots :
          /\ kvm'[g] \in {"none", "forked"} => kvm'[g] = kvm[g]
          /\ kvm'[g] = "boot" => kvm[g] = "boot" \/ KvmStart(g)
          /\ kvm'[g] = "up" => kvm[g] \in {"boot", "up"}
          /\ kvm'[g] = "halting" => kvm[g] \in {"up", "halting"}
          /\ kvm'[g] = "dying" => Running(g)
          /\ kvm[g] = "none" => kvm'[g] = "none"

LEMMA KvmStepNext == TypeInv /\ [Next]_vars => KvmStep
<1> SUFFICES ASSUME TypeInv, [Next]_vars PROVE KvmStep
  OBVIOUS
<1> USE DEF KvmStep, Running
<1>0. kvm \in [Pids -> KvmStates] /\ Boots \subseteq Pids
  BY DEF TypeInv, TypeOK, ProcTypeOK, Boots, Pids
<1>1. ASSUME UNCHANGED <<boots, kvm>> PROVE KvmStep
  BY <1>0, <1>1
<1>2. CASE StartInvocation \/ KillParent \/ Alarm
  BY <1>1, <1>2 DEF StartInvocation, KillParent, Alarm, procVars
<1>3. CASE ParentStep /\ ~Fork
  <2>1. CASE ShutdownAttempt
    BY <1>0, <2>1 DEF ShutdownAttempt, SshShutdown
  <2>2. CASE ShutdownKill
    BY <1>0, <2>2 DEF ShutdownKill
  <2>3. CASE ~ShutdownAttempt /\ ~ShutdownKill
    BY <1>1, <1>3, <2>3 DEF ParentStep, CreateImage, Probe, ProbePort, Recheck, WakeUp,
       SshTrue, CheckKvm, GiveUp, BootFailed, Retry, RunCommand, CommandsDone,
       ShutdownPoll, ShutdownGrace, Close, procVars
  <2> QED
    BY <2>1, <2>2, <2>3
<1>4. ASSUME NEW g \in Boots, MgmtStep(g) PROVE KvmStep
  BY <1>0, <1>4 DEF MgmtStep, MgmtReapKvm, MgmtEof, MgmtSsh, MgmtCopyBack, SshShutdown
<1>5. ASSUME NEW g \in Boots, HostStep(g) \/ GuestStep(g) PROVE KvmStep
  BY <1>0, <1>5 DEF HostStep, GuestStep, KvmStart, KvmFail, KvmKilled, InitReaps,
     GuestBooted, KvmExit
<1>6. CASE UNCHANGED vars
  BY <1>1, <1>6 DEF vars, procVars
<1> QED
  BY <1>2, <1>3, <1>4, <1>5, <1>6 DEF Next

-----------------------------------------------------------------------------
(***************************************************************************)
(* The invariants.  A boot that is late is the hazard: a KVM that has not  *)
(* bound its port when the parent stops waiting for it is one nobody looks *)
(* for.  So either no KVM is slow to start, or no process of an earlier    *)
(* boot is left for it to compete with.                                    *)
(***************************************************************************)
OneMachine == Quiet \/ Prompt

\* The states in which the parent waits for its machine or uses it.
UsesVm == ppc \in {"sleep", "ssh", "check", "cmds"}

NobodyElse == \A g \in Boots : Running(g) => g = boots

MachineInv ==
  /\ \A g \in Boots : g > boots => kvm[g] = "none" /\ mpc[g] = "none"
  /\ Prompt => \A g \in Boots :
                 kvm[g] = "forked" => g = boots /\ ppc \in {"sleep", "killed"}
  /\ Prompt /\ ppc = "fork" => ~PortUsed
  /\ UsesVm => NobodyElse

\* The boot counted last is the one the result will be taken from.
Booted ==
  \/ UsesVm
  \/ InShutdown("closing")
  \/ ppc \in {"closing", "exited"} /\ ret = 0

Answered == Booted /\ (ppc \in {"sleep", "ssh", "check"} => ok > 0)

ImageInv ==
  /\ \A g \in Boots : /\ g > boots => disk[g] = Absent
                      /\ Running(g) => disk[g] # Absent
  /\ Booted => boots \in Boots
  /\ Booted /\ ppc # "exited" => pipe = boots
  /\ Booted /\ ppc \notin {"closing", "exited"} => mpc[boots] \notin {"ssh", "reaping"}
  /\ Booted /\ ppc = "exited" => mpc[boots] = "gone"
  /\ Booted /\ kvm[boots] = "forked" => mpc[boots] \notin {"mv", "gone"}
  /\ Answered => disk[boots] # Absent
  /\ Booted /\ disk[boots] # Absent /\ Images # "plain"
       => file[IF mpc[boots] = "gone" THEN "image" ELSE VmPath] = disk[boots]

\* Where the parent shuts its own machine down, and where it may still be up.
ShutsOwn == ppc \in {"sdSsh", "sdPoll", "sdKill"} /\ sdRet # "recheck"
MayServe == ppc \in {"sleep", "ssh", "check", "failed", "cmds"} \/ ShutsOwn

DownInv ==
  /\ ppc # "killed"
  /\ \A g \in Boots : Running(g) => pidfile = g
  /\ ShutsOwn => \A g \in Boots : Running(g) => kvmPid = g
  /\ ~MayServe => \A g \in Boots : kvm[g] \notin {"boot", "up", "halting"}

-----------------------------------------------------------------------------
(***************************************************************************)
(* Where the parent may go.                                                *)
(***************************************************************************)
ParentMove ==
  /\ UsesVm' => UsesVm \/ Fork
  /\ Booted' => Booted \/ Fork
  /\ ppc' = "fork" => ppc = "fork" \/ (ppc = "recheck" /\ ~PortUsed)
  /\ ppc' = "exited" => ppc = "exited" \/ Close
  /\ ppc = "exited" => ppc' = "exited" \/ StartInvocation
  /\ ppc = "closing" => ppc' \in {"closing", "exited", "killed"}
  /\ ppc = "sleep" => \/ ppc' \in {"sleep", "killed"}
                      \/ "slowStart" \in Faults \/ kvm[boots] # "forked"
  /\ ppc = "killed" => ppc' = "killed" \/ StartInvocation
  /\ pipe' = pipe \/ Fork \/ ppc' \in {"exited", "killed"}

LEMMA ParentMoves == TypeInv /\ [Next]_vars => ParentMove
<1> SUFFICES ASSUME TypeInv, [Next]_vars PROVE ParentMove
  OBVIOUS
<1> USE DEF ParentMove, UsesVm, Booted, InShutdown
<1>0. sdRet \in {"recheck", "retry", "closing"} /\ ppc \in ParentStates
  BY DEF TypeInv, TypeOK, ParentTypeOK
<1>1. ASSUME UNCHANGED <<ppc, sdRet, ret, pipe>> PROVE ParentMove
  BY <1>1
<1>2. CASE StartInvocation \/ KillParent
  BY <1>2 DEF StartInvocation, KillParent, Ended
<1>3. CASE Fork \/ Close
  BY <1>3 DEF Fork, Close
<1>4. CASE CreateImage \/ Retry \/ Recheck \/ CheckKvm
  BY <1>4 DEF CreateImage, Retry, Recheck, CheckKvm, Exit, Died
<1>5. CASE Probe \/ ProbePort \/ BootFailed \/ CommandsDone
  BY <1>5 DEF Probe, ProbePort, BootFailed, CommandsDone, CallShutdown
<1>6. CASE WakeUp \/ SshTrue \/ GiveUp \/ Alarm \/ RunCommand
  BY <1>6 DEF WakeUp, SshTrue, GiveUp, Alarm, RunCommand
<1>7. CASE ShutdownAttempt \/ ShutdownPoll
  BY <1>0, <1>7 DEF ShutdownAttempt, ShutdownPoll
<1>8. CASE ShutdownKill \/ ShutdownGrace
  BY <1>0, <1>8 DEF ShutdownKill, ShutdownGrace, Exit, Died
<1>9. ASSUME NEW g \in Boots, MgmtStep(g) \/ HostStep(g) \/ GuestStep(g)
      PROVE  ParentMove
  BY <1>1, <1>9 DEF MgmtStep, HostStep, GuestStep, MgmtReapKvm, MgmtEof, MgmtSsh,
     MgmtCopyBack, KvmStart, KvmFail, KvmKilled, InitReaps, GuestBooted, KvmExit,
     parentVars
<1>10. CASE UNCHANGED vars
  BY <1>1, <1>10 DEF vars, parentVars
<1> QED
  BY <1>2, <1>3, <1>4, <1>5, <1>6, <1>7, <1>8, <1>9, <1>10 DEF Next, ParentStep

-----------------------------------------------------------------------------
(***************************************************************************)
(* One machine.                                                            *)
(***************************************************************************)
\* What a step may do to the management processes.
LEMMA MgmtMoves ==
  ASSUME TypeInv, [Next]_vars
  PROVE  \/ Fork
         \/ \A g \in Boots : \/ mpc'[g] = mpc[g]
                             \/ MgmtReapKvm(g) \/ MgmtEof(g) \/ MgmtSsh(g)
                             \/ MgmtCopyBack(g)
<1> DEFINE Moves == \A g \in Boots : \/ mpc'[g] = mpc[g]
                                     \/ MgmtReapKvm(g) \/ MgmtEof(g) \/ MgmtSsh(g)
                                     \/ MgmtCopyBack(g)
<1>0. mpc \in [Boots -> MgmtStates]
  BY DEF TypeInv, TypeOK, ProcTypeOK
<1>1. ASSUME UNCHANGED mpc PROVE Moves
  BY <1>1
<1>2. CASE StartInvocation \/ KillParent \/ Alarm \/ (ParentStep /\ ~Fork)
  BY <1>1, <1>2 DEF StartInvocation, KillParent, Alarm, ParentStep, CreateImage, Probe,
     ProbePort, Recheck, WakeUp, SshTrue, CheckKvm, GiveUp, BootFailed, Retry,
     RunCommand, CommandsDone, ShutdownAttempt, ShutdownPoll, ShutdownKill,
     ShutdownGrace, Close, procVars
<1>3. ASSUME NEW g \in Boots, MgmtStep(g) PROVE Moves
  BY <1>0, <1>3 DEF MgmtStep, MgmtReapKvm, MgmtEof, MgmtSsh, MgmtCopyBack
<1>4. ASSUME NEW g \in Boots, HostStep(g) \/ GuestStep(g) PROVE Moves
  BY <1>1, <1>4 DEF HostStep, GuestStep, KvmStart, KvmFail, KvmKilled, InitReaps,
     GuestBooted, KvmExit
<1>5. CASE UNCHANGED vars
  BY <1>1, <1>5 DEF vars, procVars
<1> QED
  BY <1>2, <1>3, <1>4, <1>5 DEF Next

LEMMA MachineInvInit == Init => MachineInv
  BY ConstantsAssumption
  DEF Init, MachineInv, UsesVm, NobodyElse, Running, Boots, Pids

LEMMA MachineInvStep ==
  ASSUME OneMachine, TypeInv, Quiet => QuietInv, MachineInv, [Next]_vars
  PROVE  MachineInv'
<1>0. /\ kvm \in [Pids -> KvmStates] /\ Boots \subseteq Pids
      /\ mpc \in [Boots -> MgmtStates] /\ boots \in 0..MaxBoots /\ Boots \subseteq Int
      /\ boots + 1 \in Int
  BY ConstantsAssumption DEF TypeInv, TypeOK, ProcTypeOK, Boots, Pids
<1>1. KvmStep /\ ParentMove
  BY KvmStepNext, ParentMoves
<1>2. CASE Fork
  <2>1. \A g \in Boots : /\ kvm'[g] = IF g = boots + 1 THEN "forked" ELSE kvm[g]
                         /\ mpc'[g] = IF g = boots + 1 THEN "stdin" ELSE mpc[g]
    BY <1>0, <1>2 DEF Fork
  <2>2. boots' = boots + 1 /\ ppc = "fork" /\ ppc' = "sleep"
    BY <1>2 DEF Fork
  <2>3. \A g \in Boots : ~Running(g)
    <3>1. CASE Prompt
      BY <2>2, <3>1 DEF MachineInv, PortUsed
    <3>2. CASE Quiet
      <4>1. MgmtDone /\ QuietInv /\ ppc \notin Ended
        BY <1>2, <2>2, <3>2 DEF Fork, Ended
      <4> QED
        BY <4>1 DEF MgmtDone, QuietInv, ProcessInv, Running
    <3> QED
      BY <3>1, <3>2 DEF OneMachine
  <2>4. \A g \in Boots : ~Running(g)'
    BY <2>1, <2>3 DEF Running
  <2>5. Prompt => \A g \in Boots : kvm[g] # "forked"
    BY <2>2 DEF MachineInv
  <2> QED
    BY <1>0, <2>1, <2>2, <2>4, <2>5 DEF MachineInv, NobodyElse
<1>3. CASE ~Fork
  <2>1. boots' = boots
    BY <1>1, <1>3 DEF KvmStep
  <2>2. \A g \in Boots : g > boots => kvm'[g] = "none" /\ mpc'[g] = "none"
    <3>1. \A g \in Boots : mpc[g] = "none" => mpc'[g] = "none"
      BY <1>3, MgmtMoves DEF MgmtReapKvm, MgmtEof, MgmtSsh, MgmtCopyBack
    <3> QED
      BY <1>1, <1>3, <3>1 DEF KvmStep, MachineInv
  <2>3. \A g \in Boots : kvm'[g] = "forked" => kvm[g] = "forked"
    BY <1>1, <1>3 DEF KvmStep
  <2>4. ASSUME Prompt, NEW g \in Boots, kvm'[g] = "forked"
        PROVE  g = boots /\ ppc' \in {"sleep", "killed"}
    <3>1. kvm[g] = "forked" /\ g = boots /\ ppc \in {"sleep", "killed"}
      BY <2>3, <2>4 DEF MachineInv
    <3>2. ~StartInvocation
      BY <2>4, <3>1 DEF StartInvocation, Prompt
    <3> QED
      BY <1>1, <2>4, <3>1, <3>2 DEF ParentMove, Prompt
  <2>5. \A g \in Boots : Running(g)' => Running(g) \/ KvmStart(g)
    BY <1>1, <1>3 DEF KvmStep, Running
  <2>6. ASSUME Prompt, ppc' = "fork" PROVE ~PortUsed'
    <3>1. ~PortUsed
      BY <1>1, <2>6 DEF ParentMove, MachineInv
    <3>2. ASSUME NEW g \in Boots, KvmStart(g) PROVE FALSE
      <4>1. ppc' = ppc /\ kvm[g] = "forked"
        BY <3>2 DEF KvmStart, parentVars
      <4> QED
        BY <2>6, <4>1 DEF MachineInv
    <3> QED
      BY <2>5, <3>1, <3>2 DEF PortUsed
  <2>7. ASSUME UsesVm' PROVE NobodyElse'
    <3>1. CASE Quiet
      <4>1. QuietInv'
        BY <3>1, QuietInvStep
      <4> QED
        BY <4>1, QuietNobodyElse DEF QuietInv, ProcessInv, NobodyElse, Running, Boots
    <3>2. CASE Prompt
      <4>1. UsesVm /\ NobodyElse
        BY <1>1, <1>3, <2>7 DEF ParentMove, MachineInv
      <4>2. \A g \in Boots : KvmStart(g) => g = boots
        BY <3>2 DEF KvmStart, MachineInv
      <4> QED
        BY <2>1, <2>5, <4>1, <4>2 DEF NobodyElse
    <3> QED
      BY <3>1, <3>2 DEF OneMachine
  <2> QED
    BY <2>1, <2>2, <2>4, <2>6, <2>7 DEF MachineInv
<1> QED
  BY <1>2, <1>3

\* The state invariants the theorems below share.
BaseInv == TypeInv /\ (Quiet => QuietInv) /\ MachineInv

LEMMA BaseInvHolds == ASSUME OneMachine PROVE Spec => []BaseInv
<1>1. Init => BaseInv
  BY TypeInvInit, QuietInvInit, MachineInvInit DEF BaseInv
<1>2. BaseInv /\ [Next]_vars => BaseInv'
  <2> SUFFICES ASSUME BaseInv, [Next]_vars PROVE BaseInv'
    OBVIOUS
  <2>1. TypeInv'
    BY TypeInvStep DEF BaseInv
  <2>2. Quiet => QuietInv'
    BY QuietInvStep DEF BaseInv
  <2>3. MachineInv'
    BY MachineInvStep DEF BaseInv
  <2> QED
    BY <2>1, <2>2, <2>3 DEF BaseInv, Quiet
<1> QED
  BY <1>1, <1>2, PTL DEF Spec

\* A guest command that succeeds ran in the machine booted last for it, if no
\* KVM is slow to start, or else nobody is killed and no handler takes ssh for
\* KVM.
THEOREM CommandsInOwnVmHolds ==
  ASSUME OneMachine PROVE Spec => CommandsInOwnVm
<1> DEFINE Succeeded == /\ ppc = "cmds" /\ cmd' # cmd /\ log'[cmd] = 0
                        /\ cmd \notin HostCmds
           Inv == BaseInv /\ CommandInv
<1>1. Inv /\ [Next]_vars => (Succeeded => kvm[boots] = "up")
  <2> SUFFICES ASSUME Inv, [Next]_vars, Succeeded PROVE kvm[boots] = "up"
    OBVIOUS
  <2>1. RunCommand
    BY CommandVarsStep DEF StartInvocation, Ended
  <2>2. log[cmd] = NotRun /\ cmd \in Cmds
    BY <2>1, ConstantsAssumption DEF RunCommand, CommandInv, Cmds
  <2>3. log \in [Cmds -> {NotRun, 0} \cup Codes]
    BY DEF BaseInv, TypeInv, TypeOK, ParentTypeOK
  <2>4. ~Skipped(cmd)
    BY <2>1, <2>2 DEF RunCommand, Skipped, NotRun
  <2>5. GuestUp
    <3>1. PICK status \in {0} \cup Codes :
            /\ status = 0 => cmd \in HostCmds \/ GuestUp
            /\ log' = [log EXCEPT ![cmd] = status]
      BY <2>1, <2>4 DEF RunCommand
    <3>2. status = 0
      BY <2>2, <2>3, <3>1
    <3> QED
      BY <3>1, <3>2
  <2>6. PICK g \in Boots : kvm[g] = "up"
    BY <2>5 DEF GuestUp
  <2>7. g = boots
    BY <2>1, <2>6 DEF RunCommand, BaseInv, MachineInv, NobodyElse, UsesVm, Running
  <2> QED
    BY <2>6, <2>7
<1>2. Init => CommandInv
  BY CommandInvInit
<1>3. TypeInv /\ CommandInv /\ [Next]_vars => CommandInv'
  BY CommandInvStep
<1>4. BaseInv => TypeInv
  BY DEF BaseInv
<1> QED
  BY <1>1, <1>2, <1>3, <1>4, BaseInvHolds, PTL DEF Spec, CommandsInOwnVm

-----------------------------------------------------------------------------
(***************************************************************************)
(* The image that is left is the one the commands ran on.                  *)
(***************************************************************************)
\* The work image is moved back only once its machine is reaped, and the move
\* is not seen to fail.
ImageAssumption == Images = "work" => Quiet /\ "mvFails" \notin Faults

LEMMA ImageInvInit == Init => ImageInv
  BY ConstantsAssumption
  DEF Init, ImageInv, Answered, Booted, UsesVm, InShutdown, Running, Boots, Pids, Absent

\* What a step may do to the overlays and the images.
DiskStep ==
  /\ \A g \in Boots : disk'[g] = disk[g] \/ KvmStart(g)
  /\ UNCHANGED file \/ CreateImage \/ \E g \in Boots : MgmtCopyBack(g)

LEMMA DiskStepNext == TypeInv /\ [Next]_vars => DiskStep
<1> SUFFICES ASSUME TypeInv, [Next]_vars PROVE DiskStep
  OBVIOUS
<1> USE DEF DiskStep
<1>0. disk \in [Boots -> Nat \cup {Torn}]
  BY DEF TypeInv, TypeOK, ProcTypeOK
<1>1. CASE StartInvocation \/ KillParent \/ Alarm
  BY <1>1 DEF StartInvocation, KillParent, Alarm, procVars, fileVars
<1>2. CASE ParentStep
  BY <1>2 DEF ParentStep, CreateImage, Probe, ProbePort, Recheck, Fork, WakeUp, SshTrue,
     CheckKvm, GiveUp, BootFailed, Retry, RunCommand, CommandsDone, ShutdownAttempt,
     ShutdownPoll, ShutdownKill, ShutdownGrace, Close, procVars, fileVars
<1>3. ASSUME NEW g \in Boots, MgmtStep(g) PROVE DiskStep
  BY <1>3 DEF MgmtStep, MgmtReapKvm, MgmtEof, MgmtSsh, MgmtCopyBack, fileVars
<1>4. ASSUME NEW g \in Boots, HostStep(g) \/ GuestStep(g) PROVE DiskStep
  BY <1>0, <1>4 DEF HostStep, GuestStep, KvmStart, KvmFail, KvmKilled, InitReaps,
     GuestBooted, KvmExit, fileVars
<1>5. CASE UNCHANGED vars
  BY <1>5 DEF vars, procVars, fileVars
<1> QED
  BY <1>1, <1>2, <1>3, <1>4, <1>5 DEF Next

\* A machine that has answered is one that has started.
LEMMA AnsweredStep ==
  ASSUME BaseInv, ImageInv, [Next]_vars, ~Fork, Answered'
  PROVE  Answered \/ disk[boots] # Absent
<1> USE DEF Answered, Booted, UsesVm, InShutdown
<1>0. sdRet \in {"recheck", "retry", "closing"} /\ ppc \in ParentStates /\ ok \in 0..3
  BY DEF BaseInv, TypeInv, TypeOK, ParentTypeOK
<1>1. CASE SshTrue
  <2>1. CASE GuestUp
    <3>1. PICK g \in Boots : kvm[g] = "up"
      BY <2>1 DEF GuestUp
    <3>2. g = boots /\ disk[g] # Absent
      BY <1>1, <3>1 DEF SshTrue, BaseInv, MachineInv, NobodyElse, Running, ImageInv
    <3> QED
      BY <3>2
  <2>2. CASE ~GuestUp
    BY <1>0, <1>1, <2>2 DEF SshTrue
  <2> QED
    BY <2>1, <2>2
<1>2. CASE UNCHANGED <<ppc, sdRet, ret, ok>>
  BY <1>0, <1>2
<1>3. CASE StartInvocation \/ KillParent
  BY <1>0, <1>3 DEF StartInvocation, KillParent, Ended
<1>4. CASE Close
  BY <1>0, <1>4 DEF Close
<1>5. CASE CreateImage \/ Retry \/ Recheck \/ CheckKvm
  BY <1>0, <1>5 DEF CreateImage, Retry, Recheck, CheckKvm, Exit, Died
<1>6. CASE Probe \/ ProbePort \/ BootFailed \/ CommandsDone
  BY <1>0, <1>6 DEF Probe, ProbePort, BootFailed, CommandsDone, CallShutdown
<1>7. CASE WakeUp \/ GiveUp \/ Alarm \/ RunCommand
  BY <1>0, <1>7 DEF WakeUp, GiveUp, Alarm, RunCommand
<1>8. CASE ShutdownAttempt \/ ShutdownPoll
  BY <1>0, <1>8 DEF ShutdownAttempt, ShutdownPoll
<1>9. CASE ShutdownKill \/ ShutdownGrace
  BY <1>0, <1>9 DEF ShutdownKill, ShutdownGrace, Exit, Died
<1>10. ASSUME NEW g \in Boots, MgmtStep(g) \/ HostStep(g) \/ GuestStep(g)
       PROVE  UNCHANGED <<ppc, sdRet, ret, ok>>
  BY <1>10 DEF MgmtStep, HostStep, GuestStep, MgmtReapKvm, MgmtEof, MgmtSsh,
     MgmtCopyBack, KvmStart, KvmFail, KvmKilled, InitReaps, GuestBooted, KvmExit,
     parentVars
<1>11. UNCHANGED vars => UNCHANGED <<ppc, sdRet, ret, ok>>
  BY DEF vars, parentVars
<1> QED
  BY <1>1, <1>2, <1>3, <1>4, <1>5, <1>6, <1>7, <1>8, <1>9, <1>10, <1>11
  DEF Next, ParentStep

LEMMA ImageInvStep ==
  ASSUME OneMachine, ImageAssumption, BaseInv, BaseInv', ImageInv, [Next]_vars
  PROVE  ImageInv'
<1>0. /\ mpc \in [Boots -> MgmtStates] /\ boots \in 0..MaxBoots /\ Boots \subseteq Int
      /\ boots + 1 \in Int /\ disk \in [Boots -> Nat \cup {Torn}]
      /\ file \in [Paths -> Nat \cup {Torn}] /\ Images \in {"plain", "base", "work"}
      /\ VmPath \in Paths /\ kvm \in [Pids -> KvmStates] /\ Boots \subseteq Pids
  BY ConstantsAssumption
  DEF BaseInv, TypeInv, TypeOK, ProcTypeOK, Boots, Pids, VmPath, Paths
<1>1. KvmStep /\ ParentMove /\ DiskStep
  BY KvmStepNext, ParentMoves, DiskStepNext DEF BaseInv
<1>2. CASE Fork
  <2>1. /\ boots' = boots + 1 /\ pipe' = boots' /\ ppc' = "sleep" /\ ok' = 0
        /\ UNCHANGED <<disk, file>>
    BY <1>2 DEF Fork, fileVars
  <2>2. boots' \in Boots
    BY <1>0, <1>2, <2>1 DEF Boots, Fork, BaseInv, TypeInv, TypeOK, ProcTypeOK
  <2>3. \A g \in Boots : /\ kvm'[g] = IF g = boots' THEN "forked" ELSE kvm[g]
                         /\ mpc'[g] = IF g = boots' THEN "stdin" ELSE mpc[g]
    BY <1>0, <1>2, <2>1 DEF Fork
  <2>4. disk'[boots'] = Absent
    BY <1>0, <2>1, <2>2 DEF ImageInv
  <2>5. \A g \in Boots : /\ g > boots' => disk'[g] = Absent
                         /\ Running(g)' => disk'[g] # Absent
    BY <1>0, <2>1, <2>3 DEF ImageInv, Running
  <2> QED
    BY <2>1, <2>2, <2>3, <2>4, <2>5 DEF ImageInv, Booted, Answered
<1>3. CASE ~Fork
  <2>0. boots' = boots /\ (Booted' => Booted /\ boots \in Boots /\ ~StartInvocation)
    <3>1. ~Booted' \/ ~StartInvocation
      BY DEF StartInvocation, Booted, UsesVm, InShutdown
    <3> QED
      BY <1>1, <1>3, <3>1 DEF KvmStep, ParentMove, ImageInv
  <2>1. \A g \in Boots : /\ g > boots => disk'[g] = Absent
                         /\ Running(g)' => disk'[g] # Absent
    <3>1. \A g \in Boots : Running(g)' => Running(g) \/ KvmStart(g)
      BY <1>1, <1>3 DEF KvmStep, Running
    <3>2. \A g \in Boots : KvmStart(g) => /\ g <= boots
                                          /\ disk'[g] = file[VmPath] /\ disk'[g] # Absent
      BY <1>0 DEF KvmStart, BaseInv, MachineInv
    <3> QED
      BY <1>0, <1>1, <3>1, <3>2 DEF DiskStep, ImageInv
  <2>2. Booted' /\ ppc' # "exited" => ppc # "exited" /\ pipe' = boots
    BY <1>1, <1>3, <2>0 DEF ParentMove, ImageInv, Booted, UsesVm, InShutdown
  <2>3. Booted' /\ ppc' \notin {"closing", "exited"} => mpc'[boots] \notin {"ssh", "reaping"}
    <3> SUFFICES ASSUME Booted', ppc' \notin {"closing", "exited"}
                 PROVE  mpc'[boots] \notin {"ssh", "reaping"}
      OBVIOUS
    <3>1. Booted /\ ppc \notin {"closing", "exited"} /\ pipe = boots /\ boots \in Boots
      BY <1>1, <2>0, <2>2 DEF ParentMove, ImageInv, Booted, UsesVm, InShutdown
    <3>2. ppc # "fork" /\ mpc[boots] \notin {"ssh", "reaping"}
      BY <3>1 DEF ImageInv, Booted, UsesVm, InShutdown
    <3> QED
      BY <1>0, <1>3, <3>1, <3>2, MgmtMoves
      DEF BaseInv, MgmtReapKvm, MgmtEof, MgmtSsh, MgmtCopyBack, HoldsPipe
  <2>4. Booted' /\ ppc' = "exited" => mpc'[boots] = "gone"
    <3> SUFFICES ASSUME Booted', ppc' = "exited" PROVE mpc'[boots] = "gone"
      OBVIOUS
    <3>1. mpc[boots] = "gone"
      BY <1>1, <2>0 DEF ParentMove, Close, MgmtDone, ImageInv
    <3> QED
      BY <1>3, <2>0, <3>1, MgmtMoves
      DEF BaseInv, MgmtReapKvm, MgmtEof, MgmtSsh, MgmtCopyBack
  <2>5. Booted' /\ kvm'[boots] = "forked" => mpc'[boots] \notin {"mv", "gone"}
    <3> SUFFICES ASSUME Booted', kvm'[boots] = "forked"
                 PROVE  mpc'[boots] \notin {"mv", "gone"}
      OBVIOUS
    <3>1. kvm[boots] = "forked" /\ mpc[boots] \notin {"mv", "gone"}
      BY <1>1, <1>3, <2>0 DEF KvmStep, ImageInv
    <3>2. ASSUME MgmtSsh(boots) PROVE mpc'[boots] = "reaping"
      <4>1. ppc = "closing"
        BY <2>0, <2>4, <3>1, <3>2 DEF MgmtSsh, ImageInv, parentVars
      <4>2. "earlyReap" \notin Faults
        BY <2>0, <3>1, <4>1 DEF OneMachine, BaseInv, MachineInv, Quiet
      <4> QED
        BY <1>0, <2>0, <3>2, <4>2 DEF MgmtSsh
    <3> QED
      BY <1>0, <1>3, <2>0, <3>1, <3>2, MgmtMoves
      DEF BaseInv, MgmtReapKvm, MgmtEof, MgmtCopyBack
  <2>6. Answered' => disk'[boots] # Absent
    <3> SUFFICES ASSUME Answered' PROVE disk'[boots] # Absent
      OBVIOUS
    <3>1. boots \in Boots
      BY <2>0 DEF Answered
    <3>2. disk[boots] # Absent
      BY <1>3, AnsweredStep DEF ImageInv
    <3> QED
      BY <1>0, <1>1, <3>1, <3>2 DEF DiskStep, KvmStart
  <2>7. ASSUME Booted', disk'[boots] # Absent, Images # "plain"
        PROVE  file'[IF mpc'[boots] = "gone" THEN "image" ELSE VmPath] = disk'[boots]
    <3>1. CASE KvmStart(boots)
      <4>1. mpc[boots] # "gone" /\ UNCHANGED <<mpc, file>> /\ disk'[boots] = file[VmPath]
        BY <1>0, <2>0, <2>7, <3>1 DEF KvmStart, ImageInv, fileVars
      <4> QED
        BY <4>1
    <3>2. CASE \E g \in Boots : MgmtCopyBack(g)
      <4>1. PICK g \in Boots : MgmtCopyBack(g)
        BY <3>2
      <4>2. mpc[g] = "mv" /\ mpc' = [mpc EXCEPT ![g] = "gone"] /\ UNCHANGED <<disk, kvm>>
        BY <4>1 DEF MgmtCopyBack
      <4>3. CASE Images = "base"
        <5>1. file' = file /\ VmPath = "image"
          BY <4>1, <4>3 DEF MgmtCopyBack, VmPath
        <5> QED
          BY <2>0, <2>7, <4>2, <5>1 DEF ImageInv
      <4>4. CASE Images = "work"
        <5>1. Quiet /\ "mvFails" \notin Faults /\ QuietInv /\ VmPath = "work"
          BY <4>4 DEF ImageAssumption, BaseInv, VmPath
        <5>2. g = pipe /\ pipe = boots /\ kvm[g] = "gone"
          BY <4>2, <5>1 DEF QuietInv, ProcessInv, Boots
        <5>3. file["work"] = disk[boots] /\ disk[boots] # Absent
          BY <2>0, <2>7, <4>2, <4>4, <5>1, <5>2 DEF ImageInv
        <5>4. ~InUse(file["work"])
          BY <5>1, <5>2, QuietNobodyElse DEF InUse, Running
        <5>5. file'["image"] = file["work"]
          BY <1>0, <4>1, <4>4, <5>1, <5>3, <5>4 DEF MgmtCopyBack, Paths
        <5>6. mpc'[boots] = "gone"
          BY <1>0, <4>2, <5>2
        <5> QED
          BY <4>2, <5>3, <5>5, <5>6
      <4> QED
        BY <1>0, <2>7, <4>3, <4>4
    <3>3. CASE ~KvmStart(boots) /\ ~\E g \in Boots : MgmtCopyBack(g)
      <4>1. disk'[boots] = disk[boots]
        BY <1>1, <2>0, <2>7, <3>3 DEF DiskStep
      <4>2. ~CreateImage
        BY <2>0, <2>7 DEF CreateImage, Booted, UsesVm, InShutdown
      <4>3. UNCHANGED file
        BY <1>1, <3>3, <4>2 DEF DiskStep
      <4>4. mpc'[boots] = "gone" <=> mpc[boots] = "gone"
        BY <1>0, <1>3, <2>0, <2>7, <3>3, MgmtMoves
        DEF BaseInv, MgmtReapKvm, MgmtEof, MgmtSsh
      <4> QED
        BY <2>0, <2>7, <4>1, <4>3, <4>4 DEF ImageInv
    <3> QED
      BY <3>1, <3>2, <3>3
  <2> QED
    BY <2>0, <2>1, <2>2, <2>3, <2>4, <2>5, <2>6, <2>7 DEF ImageInv
<1> QED
  BY <1>2, <1>3

\* After exit status 0 the image is the overlay the commands were run on,
\* whatever happens to KVM in between.
THEOREM ResultIsOwnOverlayHolds ==
  ASSUME OneMachine, ImageAssumption PROVE Spec => []ResultIsOwnOverlay
<1>1. Init => ImageInv
  BY ImageInvInit
<1>2. BaseInv /\ BaseInv' /\ ImageInv /\ [Next]_vars => ImageInv'
  BY ImageInvStep
<1>3. ImageInv => ResultIsOwnOverlay
  BY DEF ImageInv, ResultIsOwnOverlay, Booted, Answered
<1> QED
  BY <1>1, <1>2, <1>3, BaseInvHolds, PTL DEF Spec

-----------------------------------------------------------------------------
(***************************************************************************)
(* A machine that is given up was told to die before the next image is     *)
(* made: the pid file names it, so kill(9) reaches it.                     *)
(***************************************************************************)
LEMMA DownInvInit == Init => DownInv
  BY ConstantsAssumption
  DEF Init, DownInv, ShutsOwn, MayServe, Running, Boots, Pids

\* Who writes the pid file, and how the parent leaves its machine.
DownStep ==
  /\ pidfile' = pidfile \/ \E g \in Boots : KvmStart(g) \/ KvmExit(g)
  /\ ppc' = "killed" => ppc = "killed" \/ KillParent
  /\ ShutsOwn' => \/ ShutsOwn /\ kvmPid' = kvmPid
                  \/ (BootFailed \/ CommandsDone) /\ kvmPid' = pidfile
  /\ MayServe => \/ MayServe' \/ KillParent
                 \/ ShutsOwn /\ (~PortUsed \/ ShutdownKill)
                 \/ CheckKvm /\ pidfile = NoPid

LEMMA DownStepNext == TypeInv /\ [Next]_vars => DownStep
<1> SUFFICES ASSUME TypeInv, [Next]_vars PROVE DownStep
  OBVIOUS
<1> USE DEF DownStep, ShutsOwn, MayServe
<1>0. sdRet \in {"recheck", "retry", "closing"} /\ ppc \in ParentStates
  BY DEF TypeInv, TypeOK, ParentTypeOK
<1>1. ASSUME UNCHANGED <<ppc, sdRet, kvmPid>>
      PROVE  /\ ppc' = "killed" => ppc = "killed"
             /\ ShutsOwn' => ShutsOwn /\ kvmPid' = kvmPid
             /\ MayServe => MayServe'
  BY <1>1
<1>2. CASE StartInvocation \/ KillParent
  BY <1>2 DEF StartInvocation, KillParent, Ended, procVars
<1>3. CASE Fork \/ Close \/ CreateImage \/ Retry \/ Recheck \/ CheckKvm
  BY <1>3 DEF Fork, Close, CreateImage, Retry, Recheck, CheckKvm, Exit, procVars
<1>4. CASE Probe \/ ProbePort \/ BootFailed \/ CommandsDone
  BY <1>4 DEF Probe, ProbePort, BootFailed, CommandsDone, CallShutdown, procVars
<1>5. CASE WakeUp \/ SshTrue \/ GiveUp \/ Alarm \/ RunCommand
  BY <1>5 DEF WakeUp, SshTrue, GiveUp, Alarm, RunCommand, procVars
<1>6. CASE ShutdownAttempt \/ ShutdownPoll
  BY <1>0, <1>6 DEF ShutdownAttempt, ShutdownPoll, StillRunning, procVars
<1>7. CASE ShutdownKill \/ ShutdownGrace
  BY <1>0, <1>7 DEF ShutdownKill, ShutdownGrace, Exit, procVars
<1>8. ASSUME NEW g \in Boots, MgmtStep(g) \/ HostStep(g) \/ GuestStep(g)
      PROVE  DownStep
  BY <1>1, <1>8 DEF MgmtStep, HostStep, GuestStep, MgmtReapKvm, MgmtEof, MgmtSsh,
     MgmtCopyBack, KvmStart, KvmFail, KvmKilled, InitReaps, GuestBooted, KvmExit,
     parentVars
<1>9. CASE UNCHANGED vars
  BY <1>1, <1>9 DEF vars, parentVars, procVars
<1> QED
  BY <1>2, <1>3, <1>4, <1>5, <1>6, <1>7, <1>8, <1>9 DEF Next, ParentStep

LEMMA DownInvStep ==
  ASSUME NoKill, Prompt, BaseInv, DownInv, [Next]_vars
  PROVE  DownInv'
<1>0. /\ kvm \in [Pids -> KvmStates] /\ Boots \subseteq Pids
      /\ mpc \in [Boots -> MgmtStates] /\ boots \in 0..MaxBoots
      /\ NoPid \notin Boots
  BY ConstantsAssumption DEF BaseInv, TypeInv, TypeOK, ProcTypeOK, Boots, Pids, NoPid
<1>1. KvmStep /\ DownStep
  BY KvmStepNext, DownStepNext DEF BaseInv
<1>2. ~KillParent /\ ppc' # "killed"
  <2>1. ~KillParent
    BY DEF NoKill, KillParent, BaseInv, TypeInv, TypeOK, ParentTypeOK
  <2> QED
    BY <1>1, <2>1 DEF DownStep, DownInv
<1>3. \A g \in Boots : Running(g)' => Running(g) \/ KvmStart(g)
  <2>1. CASE Fork
    BY <1>0, <2>1 DEF Fork, Running
  <2>2. CASE ~Fork
    BY <1>1, <2>2 DEF KvmStep, Running
  <2> QED
    BY <2>1, <2>2
<1>4. ASSUME NEW g \in Boots, Running(g)' PROVE pidfile' = g
  <2>1. CASE KvmStart(g)
    BY <2>1 DEF KvmStart
  <2>2. CASE ~KvmStart(g)
    <3>1. Running(g) /\ pidfile = g
      BY <1>3, <1>4, <2>2 DEF DownInv
    <3>2. ASSUME NEW h \in Boots, KvmStart(h) PROVE FALSE
      BY <3>1, <3>2 DEF KvmStart, PortUsed
    <3>3. ASSUME NEW h \in Boots, KvmExit(h) PROVE FALSE
      <4>1. h = pidfile
        BY <3>3 DEF KvmExit, DownInv, Running
      <4>2. kvm'[g] = "zombie"
        BY <1>0, <3>1, <3>3, <4>1 DEF KvmExit
      <4> QED
        BY <1>4, <4>2 DEF Running
    <3> QED
      BY <1>1, <3>1, <3>2, <3>3 DEF DownStep
  <2> QED
    BY <2>1, <2>2
<1>5. ASSUME NEW g \in Boots, KvmStart(g) PROVE ppc' = "sleep"
  BY <1>5 DEF KvmStart, BaseInv, MachineInv, DownInv, parentVars
<1>6. ASSUME ShutsOwn', NEW g \in Boots, Running(g)' PROVE kvmPid' = g
  <2>1. Running(g)
    BY <1>3, <1>5, <1>6 DEF ShutsOwn
  <2> QED
    BY <1>1, <1>6, <2>1 DEF DownStep, DownInv
<1>7. ASSUME ~MayServe', NEW g \in Boots, kvm'[g] \in {"boot", "up", "halting"}
      PROVE  FALSE
  <2>1. ~KvmStart(g) /\ ~Fork
    BY <1>5, <1>7 DEF MayServe, Fork
  <2>2. Running(g)
    BY <1>3, <1>7, <2>1 DEF Running
  <2>3. kvm[g] \in {"boot", "up", "halting"}
    BY <1>1, <1>7, <2>1 DEF KvmStep
  <2>4. MayServe /\ pidfile = g
    BY <2>2, <2>3 DEF DownInv
  <2>5. ShutsOwn /\ ShutdownKill
    BY <1>0, <1>1, <1>2, <1>7, <2>2, <2>4 DEF DownStep, PortUsed
  <2>6. kvmPid = g
    BY <2>2, <2>5 DEF DownInv
  <2>7. kvm'[g] = "dying"
    BY <1>0, <2>2, <2>5, <2>6 DEF ShutdownKill
  <2> QED
    BY <1>7, <2>7
<1> QED
  BY <1>2, <1>4, <1>6, <1>7 DEF DownInv

\* qemu-img create never overwrites the image of a KVM that was not even told
\* to die, when nobody is killed and no KVM is slow to start.
THEOREM NoCreateUnderVmHolds ==
  ASSUME NoKill, Prompt PROVE Spec => NoCreateUnderVm
<1> DEFINE Clear == \A g \in Boots : kvm[g] \in {"boot", "up", "halting"}
                                      => disk[g] # file[VmPath]
<1>1. BaseInv /\ DownInv /\ [Next]_vars => (created' # created => Clear)
  <2> SUFFICES ASSUME BaseInv, DownInv, [Next]_vars, created' # created PROVE Clear
    OBVIOUS
  <2>1. ppc = "create"
    BY DEF Next, vars, fileVars, ParentStep, MgmtStep, HostStep, GuestStep,
       StartInvocation, KillParent, CreateImage, Probe, ProbePort, Recheck, Fork, WakeUp,
       SshTrue, CheckKvm, GiveUp, BootFailed, Retry, RunCommand, CommandsDone,
       ShutdownAttempt, ShutdownPoll, ShutdownKill, ShutdownGrace, Close, Alarm,
       MgmtReapKvm, MgmtEof, MgmtSsh, MgmtCopyBack, KvmStart, KvmFail, KvmKilled,
       InitReaps, GuestBooted, KvmExit
  <2> QED
    BY <2>1 DEF DownInv, MayServe, ShutsOwn
<1>2. Init => DownInv
  BY DownInvInit
<1>3. BaseInv /\ DownInv /\ [Next]_vars => DownInv'
  BY DownInvStep
<1>4. OneMachine
  BY DEF OneMachine
<1>5. Spec => []BaseInv
  BY <1>4, BaseInvHolds
<1> QED
  BY <1>1, <1>2, <1>3, <1>5, PTL DEF Spec, NoCreateUnderVm

=============================================================================
