-------------------------- MODULE Session_proofs ---------------------------
(***************************************************************************)
(* Proof that runvm keeps what VmSession promises: every step of its       *)
(* processes is a step of a session, or changes nothing a build can see.   *)
(***************************************************************************)
EXTENDS OwnMachine_proofs

Abstract == [Session!Next]_(Session!vars)

\* What holds of runvm while it steps.
SessionInv == BaseInv /\ CommandInv

Guests == [g \in Boots |-> GuestState(kvm[g])]

\* The variables that session and runvm have in common.
shared == <<boots, cmd, log, ret>>

-----------------------------------------------------------------------------
(***************************************************************************)
(* The kinds of steps.                                                     *)
(***************************************************************************)
LEMMA NothingSeen ==
  ASSUME Phase' = Phase, Guests' = Guests, UNCHANGED shared
  PROVE  Abstract
BY DEF Abstract, Session!vars, Guests, shared

\* One KVM changes its state, as seen by the build or not.
LEMMA GuestTurns ==
  ASSUME TypeInv, NEW g \in Boots, NEW state, kvm' = [kvm EXCEPT ![g] = state],
         Phase' = Phase, UNCHANGED shared,
         LET from == GuestState(kvm[g])
             to   == GuestState(state)
         IN  \/ to = from
             \/ from = "coming" /\ to = "up"
             \/ from \in {"coming", "up"} /\ to = "down"
  PROVE  Abstract
<1> DEFINE to == GuestState(state)
<1>1. kvm \in [Pids -> KvmStates] /\ Boots \subseteq Pids
  BY DEF TypeInv, TypeOK, ProcTypeOK, Boots, Pids
<1>2. Guests' = [Guests EXCEPT ![g] = to] /\ Guests[g] = GuestState(kvm[g])
  BY <1>1 DEF Guests
<1>3. CASE to = GuestState(kvm[g])
  BY <1>2, <1>3, NothingSeen DEF Guests
<1>4. CASE to # GuestState(kvm[g])
  <2>1. Session!Guest(g)
    BY <1>2, <1>4 DEF Session!Guest, Guests, shared
  <2> QED
    BY <2>1 DEF Abstract, Session!Next
<1> QED
  BY <1>3, <1>4

\* The parent goes on within a phase.
LEMMA GoesOn ==
  ASSUME Phase' = Phase, UNCHANGED kvm, UNCHANGED shared
  PROVE  Abstract
BY NothingSeen DEF Guests

\* The parent gives up, is through, or is killed.
LEMMA EndsSession ==
  ASSUME UNCHANGED <<kvm, boots, cmd, log>>, Phase \notin {"idle", "ended"},
         Phase' = "ended",
         \/ Phase \in {"prepare", "boot"} /\ ret' \in Codes \cup {Died}
         \/ Phase = "serve" /\ cmd > NumCmds /\ ret' \in {ret, Died}
         \/ UNCHANGED ret
  PROVE  Abstract
<1>1. Session!End
  BY DEF Session!End
<1> QED
  BY <1>1 DEF Abstract, Session!Next

-----------------------------------------------------------------------------
(***************************************************************************)
(* The actions that are steps of a session.                                *)
(***************************************************************************)
LEMMA Starts == ASSUME StartInvocation PROVE Abstract
<1>1. Phase \in {"idle", "ended"} /\ Phase' = "prepare"
  BY DEF StartInvocation, Ended, Phase
<1>2. Session!Start
  BY <1>1 DEF Session!Start, StartInvocation, procVars, Cmds
<1> QED
  BY <1>2 DEF Abstract, Session!Next

LEMMA BootsMachine == ASSUME SessionInv, Fork PROVE Abstract
<1>1. boots + 1 \in Boots
  <2>1. retries < MaxRetries /\ boots + MaxRetries - retries <= MaxBoots
    BY DEF SessionInv, BaseInv, TypeInv, BootsFit, BootAhead, Fork
  <2>2. retries \in 0..MaxRetries /\ boots \in 0..MaxBoots
    BY DEF SessionInv, BaseInv, TypeInv, TypeOK, ParentTypeOK, ProcTypeOK
  <2> QED
    BY <2>1, <2>2, ConstantsAssumption DEF Boots
<1>2. kvm \in [Pids -> KvmStates] /\ Boots \subseteq Pids
  BY DEF SessionInv, BaseInv, TypeInv, TypeOK, ProcTypeOK, Boots, Pids
<1>3. Phase = "prepare" /\ Phase' = "boot"
  BY DEF Fork, Phase
<1>4. Guests' = [Guests EXCEPT ![boots + 1] = "coming"]
  BY <1>1, <1>2 DEF Fork, Guests, GuestState
<1>5. Session!Boot
  BY <1>1, <1>3, <1>4 DEF Session!Boot, Fork, Guests
<1> QED
  BY <1>5 DEF Abstract, Session!Next

\* The third answer in a row comes from the machine booted last.
LEMMA Serves == ASSUME SessionInv, SshTrue PROVE Abstract
<1>1. UNCHANGED <<kvm, sdRet>> /\ UNCHANGED shared
  BY DEF SshTrue, shared, procVars
<1>2. CASE ok' # 3
  <2>1. Phase' = Phase
    BY <1>2 DEF SshTrue, Phase
  <2> QED
    BY <1>1, <2>1, GoesOn
<1>3. CASE ok' = 3
  <2>1. PICK g \in Boots : kvm[g] = "up"
    BY <1>3 DEF SshTrue, GuestUp
  <2>2. g = boots
    BY <2>1 DEF SshTrue, SessionInv, BaseInv, MachineInv, NobodyElse, UsesVm, Running
  <2>3. Guests[boots] = "up"
    BY <2>1, <2>2 DEF Guests, GuestState
  <2>4. Phase = "boot" /\ Phase' = "serve"
    BY <1>3 DEF SshTrue, Phase
  <2>5. Session!Serve
    BY <1>1, <2>3, <2>4 DEF Session!Serve, Guests, shared
  <2> QED
    BY <2>5 DEF Abstract, Session!Next
<1> QED
  BY <1>2, <1>3

LEMMA Commands == ASSUME SessionInv, RunCommand PROVE Abstract
<1>1. UNCHANGED <<kvm, boots, ppc, sdRet>> /\ cmd \in Cmds /\ cmd' = cmd + 1
  BY DEF RunCommand, procVars
<1>2. Phase = "serve" /\ Phase' = "serve"
  BY <1>1 DEF RunCommand, Phase
<1>3. Guests' = Guests
  BY <1>1 DEF Guests
<1>4. GuestUp => Guests[boots] = "up"
  <2> SUFFICES ASSUME NEW g \in Boots, kvm[g] = "up" PROVE Guests[boots] = "up"
    BY DEF GuestUp
  <2>1. g = boots
    BY DEF RunCommand, SessionInv, BaseInv, MachineInv, NobodyElse, UsesVm, Running
  <2> QED
    BY <2>1 DEF Guests, GuestState
<1>5. Session!Skip \/ \E status \in {0} \cup Codes : Session!Run(status)
  <2>1. CASE Skipped(cmd) /\ UNCHANGED <<ret, log>>
    BY <2>1 DEF Skipped, Session!Skip
  <2>2. ASSUME NEW status \in {0} \cup Codes, ~Skipped(cmd),
               status = 0 => cmd \in HostCmds \/ GuestUp,
               log' = [log EXCEPT ![cmd] = status],
               ret' = IF ret = 0 THEN status ELSE ret
        PROVE  Session!Run(status)
    BY <1>4, <2>2 DEF Skipped, Session!Run, Guests
  <2> QED
    BY <2>1, <2>2 DEF RunCommand
<1>6. Session!Command
  BY <1>1, <1>2, <1>3, <1>5 DEF Session!Command, Guests, Cmds
<1> QED
  BY <1>6 DEF Abstract, Session!Next

\* Another try: the build only sees that the machine is given up.
LEMMA TriesAgain == ASSUME BootFailed PROVE Abstract
<1>1. Phase = "boot" /\ Phase' = "prepare"
  BY DEF BootFailed, CallShutdown, Phase
<1>2. Session!Again
  BY <1>1 DEF Session!Again, BootFailed, procVars
<1> QED
  BY <1>2 DEF Abstract, Session!Next

-----------------------------------------------------------------------------
(***************************************************************************)
(* The rest of the parent.                                                 *)
(***************************************************************************)
\* It dies, or goes on.
LEMMA DiesOrGoesOn ==
  ASSUME CreateImage \/ Recheck \/ CheckKvm \/ Retry
  PROVE  Abstract
<1>1. UNCHANGED <<kvm, boots, cmd, log, sdRet>>
  BY DEF CreateImage, Recheck, CheckKvm, Retry, procVars
<1>2. Phase \in {"prepare", "boot"}
  BY DEF CreateImage, Recheck, CheckKvm, Retry, Phase
<1>3. CASE Phase' = Phase /\ ret' = ret
  BY <1>1, <1>3, GoesOn DEF shared
<1>4. CASE ppc' = "closing" /\ ret' \in Codes \cup {Died}
  <2>1. Phase' = "ended"
    BY <1>4 DEF Phase
  <2> QED
    BY <1>1, <1>2, <1>4, <2>1, EndsSession
<1>5. CASE CreateImage
  BY <1>3, <1>4, <1>5 DEF CreateImage, Exit, Phase, Codes
<1>6. CASE Recheck
  BY <1>3, <1>4, <1>6 DEF Recheck, Exit, Phase
<1>7. CASE CheckKvm
  BY <1>3, <1>4, <1>7 DEF CheckKvm, Exit, Phase
<1>8. CASE Retry
  BY <1>3, <1>4, <1>8 DEF Retry, Exit, Phase, Codes
<1> QED
  BY <1>5, <1>6, <1>7, <1>8

LEMMA ParentGoesOn ==
  ASSUME Probe \/ ProbePort \/ WakeUp \/ GiveUp \/ CommandsDone \/ Alarm \/ Close
  PROVE  Abstract
<1>1. UNCHANGED kvm /\ UNCHANGED shared
  BY DEF Probe, ProbePort, WakeUp, GiveUp, CommandsDone, Alarm, Close, CallShutdown,
     procVars, shared
<1>2. Phase' = Phase
  BY DEF Probe, ProbePort, WakeUp, GiveUp, CommandsDone, Alarm, Close, CallShutdown,
     Phase
<1> QED
  BY <1>1, <1>2, GoesOn

LEMMA Killed == ASSUME KillParent PROVE Abstract
<1>1. UNCHANGED kvm /\ UNCHANGED shared
  BY DEF KillParent, procVars, shared
<1>2. Phase # "idle" /\ Phase' = "ended"
  BY DEF KillParent, Ended, Phase
<1> QED
  BY <1>1, <1>2, GoesOn, EndsSession DEF shared

\* A shutdown returns to where it was called, which is the phase it is in.
LEMMA Returns ==
  ASSUME SessionInv, ppc \in {"sdPoll", "sdGrace"}, ppc' = sdRet, UNCHANGED sdRet,
         UNCHANGED kvm, UNCHANGED shared
  PROVE  Abstract
<1>1. sdRet \in {"recheck", "retry", "closing"}
  BY DEF SessionInv, BaseInv, TypeInv, TypeOK, ParentTypeOK
<1>2. CASE sdRet # "closing"
  <2>1. Phase' = Phase
    BY <1>1, <1>2 DEF Phase
  <2> QED
    BY <2>1, GoesOn
<1>3. CASE sdRet = "closing"
  <2>1. Phase = "serve" /\ Phase' = "ended"
    BY <1>3 DEF Phase
  <2>2. cmd > NumCmds
    BY <1>3, ConstantsAssumption DEF SessionInv, CommandInv
  <2> QED
    BY <2>1, <2>2, EndsSession DEF shared
<1> QED
  BY <1>2, <1>3

LEMMA ShutdownAsks ==
  ASSUME SessionInv, Phase' = Phase, UNCHANGED shared,
         \/ UNCHANGED kvm
         \/ \E g \in Boots : kvm[g] = "up" /\ kvm' = [kvm EXCEPT ![g] = "halting"]
  PROVE  Abstract
BY GoesOn, GuestTurns DEF SessionInv, BaseInv, GuestState

LEMMA ShutsDown ==
  ASSUME SessionInv, ShutdownAttempt \/ ShutdownPoll \/ ShutdownKill \/ ShutdownGrace
  PROVE  Abstract
<1>1. UNCHANGED <<sdRet, boots, cmd, log>>
  BY DEF ShutdownAttempt, ShutdownPoll, ShutdownKill, ShutdownGrace, procVars
<1>2. CASE ShutdownAttempt
  <2>1. Phase' = Phase /\ UNCHANGED shared
    BY <1>2 DEF ShutdownAttempt, Phase, shared
  <2> QED
    BY <1>2, <2>1, ShutdownAsks DEF ShutdownAttempt, SshShutdown
<1>3. CASE ShutdownPoll
  <2>1. UNCHANGED kvm /\ UNCHANGED shared
    BY <1>3 DEF ShutdownPoll, procVars, shared
  <2>2. CASE ppc' = "sdKill"
    <3>1. Phase' = Phase
      BY <1>1, <1>3, <2>2 DEF ShutdownPoll, Phase
    <3> QED
      BY <2>1, <3>1, GoesOn
  <2> QED
    BY <1>1, <1>3, <2>1, <2>2, Returns DEF ShutdownPoll
<1>4. CASE ShutdownGrace
  BY <1>1, <1>4, Returns DEF ShutdownGrace, procVars, shared
<1>5. CASE ShutdownKill
  <2>1. CASE kvmPid = NoPid
    <3>1. Phase \in {"prepare", "serve"} /\ Phase' = "ended" /\ ret' = Died
          /\ UNCHANGED kvm
      BY <1>5, <2>1 DEF ShutdownKill, Exit, Phase
    <3>2. Phase = "serve" => cmd > NumCmds
      BY <1>5, ConstantsAssumption DEF ShutdownKill, Phase, SessionInv, CommandInv
    <3> QED
      BY <1>1, <3>1, <3>2, EndsSession
  <2>2. CASE kvmPid # NoPid
    <3>1. Phase' = Phase /\ UNCHANGED shared
      BY <1>1, <1>5, <2>2 DEF ShutdownKill, Phase, shared
    <3>2. CASE ~Running(kvmPid)
      BY <1>5, <2>2, <3>1, <3>2, GoesOn DEF ShutdownKill
    <3>3. CASE Running(kvmPid)
      <4>1. kvm' = [kvm EXCEPT ![kvmPid] = "dying"]
        BY <1>5, <2>2, <3>3 DEF ShutdownKill
      <4>2. CASE kvmPid \in Boots
        BY <3>1, <3>3, <4>1, <4>2, GuestTurns DEF SessionInv, BaseInv, Running, GuestState
      <4>3. CASE kvmPid \notin Boots
        <5>1. kvm \in [Pids -> KvmStates] /\ Boots \subseteq Pids
          BY DEF SessionInv, BaseInv, TypeInv, TypeOK, ProcTypeOK, Boots, Pids
        <5>2. Guests' = Guests
          BY <4>1, <4>3, <5>1 DEF Guests
        <5> QED
          BY <3>1, <5>2, NothingSeen
      <4> QED
        BY <4>2, <4>3
    <3> QED
      BY <3>2, <3>3
  <2> QED
    BY <2>1, <2>2
<1> QED
  BY <1>2, <1>3, <1>4, <1>5

-----------------------------------------------------------------------------
(***************************************************************************)
(* The other processes.                                                    *)
(***************************************************************************)
LEMMA ManagementSteps ==
  ASSUME SessionInv, NEW g \in Boots, MgmtStep(g)
  PROVE  Abstract
<1>1. Phase' = Phase /\ UNCHANGED shared
  BY DEF MgmtStep, MgmtReapKvm, MgmtEof, MgmtSsh, MgmtCopyBack, parentVars, Phase,
     shared
<1>2. CASE MgmtReapKvm(g)
  BY <1>1, <1>2, GuestTurns DEF MgmtReapKvm, SessionInv, BaseInv, GuestState
<1>3. CASE MgmtSsh(g)
  BY <1>1, <1>3, ShutdownAsks DEF MgmtSsh, SshShutdown
<1>4. CASE MgmtEof(g) \/ MgmtCopyBack(g)
  BY <1>1, <1>4, GoesOn DEF MgmtEof, MgmtCopyBack
<1> QED
  BY <1>2, <1>3, <1>4 DEF MgmtStep

LEMMA KvmTurns ==
  ASSUME SessionInv, NEW g \in Boots, HostStep(g) \/ GuestStep(g)
  PROVE  Abstract
<1>1. Phase' = Phase /\ UNCHANGED shared
  BY DEF HostStep, GuestStep, KvmStart, KvmFail, KvmKilled, InitReaps, GuestBooted,
     KvmExit, parentVars, Phase, shared
<1>2. TypeInv
  BY DEF SessionInv, BaseInv
<1>3. CASE KvmStart(g) \/ GuestBooted(g)
  BY <1>1, <1>2, <1>3, GuestTurns DEF KvmStart, GuestBooted, GuestState
<1>4. CASE KvmFail(g) \/ KvmExit(g)
  BY <1>1, <1>2, <1>4, GuestTurns DEF KvmFail, KvmExit, GuestState
<1>5. CASE KvmKilled(g) \/ InitReaps(g)
  BY <1>1, <1>2, <1>5, GuestTurns DEF KvmKilled, InitReaps, GuestState
<1> QED
  BY <1>3, <1>4, <1>5 DEF HostStep, GuestStep

LEMMA EveryStepImplements == SessionInv /\ [Next]_vars => Abstract
<1> SUFFICES ASSUME SessionInv, [Next]_vars PROVE Abstract
  OBVIOUS
<1>1. CASE StartInvocation \/ KillParent
  BY <1>1, Starts, Killed
<1>2. CASE ParentStep \/ Alarm
  BY <1>2, BootsMachine, Serves, Commands, TriesAgain, DiesOrGoesOn, ParentGoesOn, ShutsDown
  DEF ParentStep
<1>3. ASSUME NEW g \in Boots, MgmtStep(g) \/ HostStep(g) \/ GuestStep(g)
      PROVE  Abstract
  BY <1>3, ManagementSteps, KvmTurns
<1>4. CASE UNCHANGED vars
  BY <1>4, GoesOn DEF vars, parentVars, procVars, Phase, shared
<1> QED
  BY <1>1, <1>2, <1>3, <1>4 DEF Next

\* A build gets what VmSession promises: its commands run in their order, in one
\* machine that was booted for this build and had answered before the first of
\* them.  The assumption is that of CommandsInOwnVmHolds.
THEOREM KeepsSessionHolds ==
  ASSUME OneMachine PROVE Spec => KeepsSession
<1>1. Init => Session!Init
  BY DEF Init, Session!Init, Phase, GuestState, Cmds, Boots, Pids
<1>2. SessionInv /\ [Next]_vars => Abstract
  BY EveryStepImplements
<1>3. Init => CommandInv
  BY CommandInvInit
<1>4. TypeInv /\ CommandInv /\ [Next]_vars => CommandInv'
  BY CommandInvStep
<1>5. BaseInv => TypeInv
  BY DEF BaseInv
<1>6. SessionInv <=> BaseInv /\ CommandInv
  BY DEF SessionInv
<1> QED
  BY <1>1, <1>2, <1>3, <1>4, <1>5, <1>6, BaseInvHolds, PTL
  DEF Spec, KeepsSession, Session!Spec, Abstract

=============================================================================
