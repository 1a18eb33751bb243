--------------------------- MODULE RunVM_proofs ---------------------------
(***************************************************************************)
(* Proofs about RunVM, for every number of retries, commands, invocations  *)
(* and kills, and whatever the Faults unless a theorem says otherwise.     *)
(***************************************************************************)
EXTENDS RunVM, TLAPS

InShutdown(next) == ppc \in {"sdSsh", "sdPoll", "sdKill", "sdGrace"} /\ sdRet = next

\* Where a boot is ahead, under way, or has failed and been counted.
BootAhead  == ppc \in {"create", "probe", "probed", "recheck", "fork"}
              \/ InShutdown("recheck")
BootUnderWay == ppc \in {"sleep", "ssh", "check", "failed"}
BootCounted  == ppc = "retry" \/ InShutdown("retry")

\* The boots that MaxRetries still allows fit into `limit'.
BootsFit(limit) ==
  /\ BootAhead    => retries < MaxRetries /\ boots + MaxRetries - retries <= limit
  /\ BootUnderWay => retries < MaxRetries /\ boots + MaxRetries - retries <= limit + 1
  /\ BootCounted  => boots + MaxRetries - retries <= limit
  /\ boots <= limit

TypeInv ==
  /\ TypeOK
  /\ BootsFit(MaxBoots)
  /\ ppc \in {"sleep", "ssh", "check"} => ok < 3

LEMMA TypeInvInit == Init => TypeInv
<1> SUFFICES ASSUME Init PROVE TypeInv
  OBVIOUS
<1> USE ConstantsAssumption DEF Init
<1>1. ParentTypeOK
  <2>1. /\ ppc \in ParentStates /\ sdRet \in {"recheck", "retry", "closing"}
        /\ kvmPid \in Pids \cup {NoPid} /\ timeout \in BOOLEAN /\ ret \in Statuses
    BY DEF ParentStates, Statuses
  <2>2. /\ inv \in 0..MaxInvocations /\ kills \in 0..MaxKills
        /\ retries \in 0..MaxRetries /\ pipe \in 0..boots /\ ok \in 0..3
        /\ cmd \in 1..(NumCmds + 1)
    OBVIOUS
  <2>3. log \in [Cmds -> {NotRun, 0} \cup Codes]
    OBVIOUS
  <2> QED
    BY <2>1, <2>2, <2>3 DEF ParentTypeOK
<1>2. ProcTypeOK
  <2>1. boots \in 0..MaxBoots /\ created \in Nat /\ pidfile \in Pids \cup {NoPid}
    BY DEF Pids
  <2>2. mpc \in [Boots -> MgmtStates] /\ kvm \in [Pids -> KvmStates]
    BY DEF MgmtStates, KvmStates
  <2>3. disk \in [Boots -> Nat \cup {Torn}] /\ file \in [Paths -> Nat \cup {Torn}]
    BY DEF Absent
  <2> QED
    BY <2>1, <2>2, <2>3 DEF ProcTypeOK
<1>3. BootsFit(MaxBoots) /\ (ppc \in {"sleep", "ssh", "check"} => ok < 3)
  BY DEF BootsFit, BootAhead, BootUnderWay, BootCounted, InShutdown
<1> QED
  BY <1>1, <1>2, <1>3 DEF TypeInv, TypeOK

LEMMA TypeInvStep == TypeInv /\ [Next]_vars => TypeInv'
<1> SUFFICES ASSUME TypeInv, [Next]_vars PROVE TypeInv'
  OBVIOUS
<1> USE ConstantsAssumption DEF TypeInv, TypeOK, parentVars, envVars, procVars, fileVars
<1> DEFINE Parent == ParentTypeOK /\ BootsFit(MaxBoots)
                     /\ (ppc \in {"sleep", "ssh", "check"} => ok < 3)
<1>1. CASE StartInvocation
  <2>1. Parent'
    BY <1>1 DEF ProcTypeOK, ParentTypeOK, ParentStates, Statuses, Codes, Died,
        BootsFit, BootAhead, BootUnderWay, BootCounted, InShutdown, NoPid, Pids,
        Cmds, NotRun, StartInvocation, Ended
  <2>2. ProcTypeOK'
    BY <1>1 DEF ProcTypeOK, StartInvocation
  <2> QED
    BY <2>1, <2>2
<1>2. CASE KillParent
  <2>1. Parent'
    BY <1>2 DEF ProcTypeOK, ParentTypeOK, ParentStates, Statuses, Codes, Died,
        BootsFit, BootAhead, BootUnderWay, BootCounted, InShutdown, NoPid, Pids,
        Cmds, NotRun, KillParent, Ended
  <2>2. ProcTypeOK'
    BY <1>2 DEF ProcTypeOK, KillParent
  <2> QED
    BY <2>1, <2>2
<1>3. CASE CreateImage
  <2>1. Parent'
    BY <1>3 DEF ProcTypeOK, ParentTypeOK, ParentStates, Statuses, Codes, Died,
        BootsFit, BootAhead, BootUnderWay, BootCounted, InShutdown, NoPid, Pids,
        Cmds, NotRun, CreateImage, Exit
  <2>2. ProcTypeOK'
    BY <1>3 DEF ProcTypeOK, CreateImage, VmPath, Paths
  <2> QED
    BY <2>1, <2>2
<1>4. CASE Probe
  <2>1. Parent'
    BY <1>4 DEF ProcTypeOK, ParentTypeOK, ParentStates, Statuses, Codes, Died,
        BootsFit, BootAhead, BootUnderWay, BootCounted, InShutdown, NoPid, Pids,
        Cmds, NotRun, Probe
  <2>2. ProcTypeOK'
    BY <1>4 DEF ProcTypeOK, Probe
  <2> QED
    BY <2>1, <2>2
<1>5. CASE ProbePort
  <2>1. Parent'
    BY <1>5 DEF ProcTypeOK, ParentTypeOK, ParentStates, Statuses, Codes, Died,
        BootsFit, BootAhead, BootUnderWay, BootCounted, InShutdown, NoPid, Pids,
        Cmds, NotRun, ProbePort, CallShutdown
  <2>2. ProcTypeOK'
    BY <1>5 DEF ProcTypeOK, ProbePort
  <2> QED
    BY <2>1, <2>2
<1>6. CASE Recheck
  <2>1. Parent'
    BY <1>6 DEF ProcTypeOK, ParentTypeOK, ParentStates, Statuses, Codes, Died,
        BootsFit, BootAhead, BootUnderWay, BootCounted, InShutdown, NoPid, Pids,
        Cmds, NotRun, Recheck, Exit
  <2>2. ProcTypeOK'
    BY <1>6 DEF ProcTypeOK, Recheck
  <2> QED
    BY <2>1, <2>2
<1>7. CASE Fork
  <2>1. Parent'
    <3>0. boots + 1 \in 1..MaxBoots
      BY <1>7 DEF Fork, BootsFit, BootAhead, ParentTypeOK, ProcTypeOK
    <3>1. ParentTypeOK'
      <4>1. pipe' \in 0..boots' /\ ok' \in 0..3 /\ ppc' \in ParentStates
        BY <1>7, <3>0 DEF ParentStates, Fork
      <4> QED
        BY <1>7, <4>1 DEF ParentTypeOK, Fork
    <3>2. BootsFit(MaxBoots)'
      BY <1>7 DEF ProcTypeOK, ParentTypeOK, BootsFit, BootAhead, BootUnderWay,
          BootCounted, InShutdown, Fork
    <3>3. (ppc \in {"sleep", "ssh", "check"} => ok < 3)'
      BY <1>7 DEF Fork
    <3> QED
      BY <3>1, <3>2, <3>3
  <2>2. ProcTypeOK'
    BY <1>7 DEF ProcTypeOK, Fork, Boots, Pids, KvmStates, MgmtStates,
        ParentTypeOK, BootsFit, BootAhead
  <2> QED
    BY <2>1, <2>2
<1>8. CASE WakeUp
  <2>1. Parent'
    BY <1>8 DEF ProcTypeOK, ParentTypeOK, ParentStates, Statuses, Codes, Died,
        BootsFit, BootAhead, BootUnderWay, BootCounted, InShutdown, NoPid, Pids,
        Cmds, NotRun, WakeUp
  <2>2. ProcTypeOK'
    BY <1>8 DEF ProcTypeOK, WakeUp
  <2> QED
    BY <2>1, <2>2
<1>9. CASE SshTrue
  <2>1. Parent'
    BY <1>9 DEF ProcTypeOK, ParentTypeOK, ParentStates, Statuses, Codes, Died,
        BootsFit, BootAhead, BootUnderWay, BootCounted, InShutdown, NoPid, Pids,
        Cmds, NotRun, SshTrue
  <2>2. ProcTypeOK'
    BY <1>9 DEF ProcTypeOK, SshTrue
  <2> QED
    BY <2>1, <2>2
<1>10. CASE CheckKvm
  <2>1. Parent'
    BY <1>10 DEF ProcTypeOK, ParentTypeOK, ParentStates, Statuses, Codes, Died,
        BootsFit, BootAhead, BootUnderWay, BootCounted, InShutdown, NoPid, Pids,
        Cmds, NotRun, CheckKvm, Exit
  <2>2. ProcTypeOK'
    BY <1>10 DEF ProcTypeOK, CheckKvm
  <2> QED
    BY <2>1, <2>2
<1>11. CASE GiveUp
  <2>1. Parent'
    BY <1>11 DEF ProcTypeOK, ParentTypeOK, ParentStates, Statuses, Codes, Died,
        BootsFit, BootAhead, BootUnderWay, BootCounted, InShutdown, NoPid, Pids,
        Cmds, NotRun, GiveUp
  <2>2. ProcTypeOK'
    BY <1>11 DEF ProcTypeOK, GiveUp
  <2> QED
    BY <2>1, <2>2
<1>12. CASE BootFailed
  <2>1. Parent'
    <3>0. retries + 1 \in 0..MaxRetries
      BY <1>12 DEF BootFailed, BootsFit, BootUnderWay, ParentTypeOK
    <3>1. ParentTypeOK'
      BY <1>12, <3>0 DEF ParentTypeOK, ProcTypeOK, ParentStates, BootFailed,
          CallShutdown
    <3>2. BootsFit(MaxBoots)'
      BY <1>12 DEF ProcTypeOK, ParentTypeOK, BootsFit, BootAhead, BootUnderWay,
          BootCounted, InShutdown, BootFailed, CallShutdown
    <3>3. (ppc \in {"sleep", "ssh", "check"} => ok < 3)'
      BY <1>12 DEF BootFailed, CallShutdown
    <3> QED
      BY <3>1, <3>2, <3>3
  <2>2. ProcTypeOK'
    BY <1>12 DEF ProcTypeOK, BootFailed
  <2> QED
    BY <2>1, <2>2
<1>13. CASE Retry
  <2>1. Parent'
    BY <1>13 DEF ProcTypeOK, ParentTypeOK, ParentStates, Statuses, Codes, Died,
        BootsFit, BootAhead, BootUnderWay, BootCounted, InShutdown, NoPid, Pids,
        Cmds, NotRun, Retry, Exit, MayRetry
  <2>2. ProcTypeOK'
    BY <1>13 DEF ProcTypeOK, Retry
  <2> QED
    BY <2>1, <2>2
<1>14. CASE RunCommand
  <2>1. Parent'
    <3>0. cmd + 1 \in 1..(NumCmds + 1)
      BY <1>14 DEF RunCommand, Cmds
    <3>a. ret' \in Statuses /\ log' \in [Cmds -> {NotRun, 0} \cup Codes]
      BY <1>14 DEF RunCommand, ParentTypeOK, Statuses
    <3>1. ParentTypeOK'
      BY <1>14, <3>0, <3>a DEF ParentTypeOK, RunCommand
    <3>2. BootsFit(MaxBoots)'
      BY <1>14 DEF ProcTypeOK, ParentTypeOK, BootsFit, BootAhead, BootUnderWay,
          BootCounted, InShutdown, RunCommand
    <3>3. (ppc \in {"sleep", "ssh", "check"} => ok < 3)'
      BY <1>14 DEF RunCommand
    <3> QED
      BY <3>1, <3>2, <3>3
  <2>2. ProcTypeOK'
    BY <1>14 DEF ProcTypeOK, RunCommand
  <2> QED
    BY <2>1, <2>2
<1>15. CASE CommandsDone
  <2>1. Parent'
    BY <1>15 DEF ProcTypeOK, ParentTypeOK, ParentStates, Statuses, Codes, Died,
        BootsFit, BootAhead, BootUnderWay, BootCounted, InShutdown, NoPid, Pids,
        Cmds, NotRun, CommandsDone, CallShutdown
  <2>2. ProcTypeOK'
    BY <1>15 DEF ProcTypeOK, CommandsDone
  <2> QED
    BY <2>1, <2>2
<1>16. CASE ShutdownAttempt
  <2>1. Parent'
    BY <1>16 DEF ProcTypeOK, ParentTypeOK, ParentStates, Statuses, Codes, Died,
        BootsFit, BootAhead, BootUnderWay, BootCounted, InShutdown, NoPid, Pids,
        Cmds, NotRun, ShutdownAttempt
  <2>2. ProcTypeOK'
    BY <1>16 DEF ProcTypeOK, ShutdownAttempt, SshShutdown, Boots, Pids,
        KvmStates, MgmtStates, ParentTypeOK, BootsFit, BootAhead
  <2> QED
    BY <2>1, <2>2
<1>17. CASE ShutdownPoll
  <2>1. Parent'
    BY <1>17 DEF ProcTypeOK, ParentTypeOK, ParentStates, Statuses, Codes, Died,
        BootsFit, BootAhead, BootUnderWay, BootCounted, InShutdown, NoPid, Pids,
        Cmds, NotRun, ShutdownPoll
  <2>2. ProcTypeOK'
    BY <1>17 DEF ProcTypeOK, ShutdownPoll
  <2> QED
    BY <2>1, <2>2
<1>18. CASE ShutdownKill
  <2>1. Parent'
    BY <1>18 DEF ProcTypeOK, ParentTypeOK, ParentStates, Statuses, Codes, Died,
        BootsFit, BootAhead, BootUnderWay, BootCounted, InShutdown, NoPid, Pids,
        Cmds, NotRun, ShutdownKill, Exit
  <2>2. ProcTypeOK'
    BY <1>18 DEF ProcTypeOK, ShutdownKill, Boots, Pids, KvmStates, MgmtStates,
        ParentTypeOK, BootsFit, BootAhead
  <2> QED
    BY <2>1, <2>2
<1>19. CASE ShutdownGrace
  <2>1. Parent'
    BY <1>19 DEF ProcTypeOK, ParentTypeOK, ParentStates, Statuses, Codes, Died,
        BootsFit, BootAhead, BootUnderWay, BootCounted, InShutdown, NoPid, Pids,
        Cmds, NotRun, ShutdownGrace
  <2>2. ProcTypeOK'
    BY <1>19 DEF ProcTypeOK, ShutdownGrace
  <2> QED
    BY <2>1, <2>2
<1>20. CASE Close
  <2>1. Parent'
    BY <1>20 DEF ProcTypeOK, ParentTypeOK, ParentStates, Statuses, Codes, Died,
        BootsFit, BootAhead, BootUnderWay, BootCounted, InShutdown, NoPid, Pids,
        Cmds, NotRun, Close
  <2>2. ProcTypeOK'
    BY <1>20 DEF ProcTypeOK, Close
  <2> QED
    BY <2>1, <2>2
<1>21. CASE Alarm
  <2>1. Parent'
    BY <1>21 DEF ProcTypeOK, ParentTypeOK, ParentStates, Statuses, Codes, Died,
        BootsFit, BootAhead, BootUnderWay, BootCounted, InShutdown, NoPid, Pids,
        Cmds, NotRun, Alarm
  <2>2. ProcTypeOK'
    BY <1>21 DEF ProcTypeOK, Alarm
  <2> QED
    BY <2>1, <2>2
<1>22. ASSUME NEW g \in Boots, MgmtReapKvm(g) PROVE TypeInv'
  <2>1. Parent'
    BY <1>22 DEF ParentTypeOK, BootsFit, BootAhead, BootUnderWay, BootCounted,
        InShutdown, MgmtReapKvm
  <2>2. ProcTypeOK'
    BY <1>22 DEF ProcTypeOK, Boots, Pids, KvmStates, MgmtStates, Paths, Absent,
        NoPid, MgmtReapKvm
  <2> QED
    BY <2>1, <2>2
<1>23. ASSUME NEW g \in Boots, MgmtEof(g) PROVE TypeInv'
  <2>1. Parent'
    BY <1>23 DEF ParentTypeOK, BootsFit, BootAhead, BootUnderWay, BootCounted,
        InShutdown, MgmtEof
  <2>2. ProcTypeOK'
    BY <1>23 DEF ProcTypeOK, Boots, Pids, KvmStates, MgmtStates, Paths, Absent,
        NoPid, MgmtEof
  <2> QED
    BY <2>1, <2>2
<1>24. ASSUME NEW g \in Boots, MgmtSsh(g) PROVE TypeInv'
  <2>1. Parent'
    BY <1>24 DEF ParentTypeOK, BootsFit, BootAhead, BootUnderWay, BootCounted,
        InShutdown, MgmtSsh, SshShutdown
  <2>2. ProcTypeOK'
    BY <1>24 DEF ProcTypeOK, Boots, Pids, KvmStates, MgmtStates, Paths, Absent,
        NoPid, MgmtSsh, SshShutdown
  <2> QED
    BY <2>1, <2>2
<1>25. ASSUME NEW g \in Boots, MgmtCopyBack(g) PROVE TypeInv'
  <2>1. Parent'
    BY <1>25 DEF ParentTypeOK, BootsFit, BootAhead, BootUnderWay, BootCounted,
        InShutdown, MgmtCopyBack
  <2>2. ProcTypeOK'
    BY <1>25 DEF ProcTypeOK, Boots, Pids, KvmStates, MgmtStates, Paths, Absent,
        NoPid, MgmtCopyBack
  <2> QED
    BY <2>1, <2>2
<1>26. ASSUME NEW g \in Boots, KvmStart(g) PROVE TypeInv'
  <2>1. Parent'
    BY <1>26 DEF ParentTypeOK, BootsFit, BootAhead, BootUnderWay, BootCounted,
        InShutdown, KvmStart
  <2>2. ProcTypeOK'
    BY <1>26 DEF ProcTypeOK, Boots, Pids, KvmStates, Paths, VmPath, KvmStart
  <2> QED
    BY <2>1, <2>2
<1>27. ASSUME NEW g \in Boots, KvmFail(g) PROVE TypeInv'
  <2>1. Parent'
    BY <1>27 DEF ParentTypeOK, BootsFit, BootAhead, BootUnderWay, BootCounted,
        InShutdown, KvmFail
  <2>2. ProcTypeOK'
    BY <1>27 DEF ProcTypeOK, Boots, Pids, KvmStates, MgmtStates, Paths, Absent,
        NoPid, KvmFail
  <2> QED
    BY <2>1, <2>2
<1>28. ASSUME NEW g \in Boots, KvmKilled(g) PROVE TypeInv'
  <2>1. Parent'
    BY <1>28 DEF ParentTypeOK, BootsFit, BootAhead, BootUnderWay, BootCounted,
        InShutdown, KvmKilled
  <2>2. ProcTypeOK'
    BY <1>28 DEF ProcTypeOK, Boots, Pids, KvmStates, MgmtStates, Paths, Absent,
        NoPid, KvmKilled
  <2> QED
    BY <2>1, <2>2
<1>29. ASSUME NEW g \in Boots, InitReaps(g) PROVE TypeInv'
  <2>1. Parent'
    BY <1>29 DEF ParentTypeOK, BootsFit, BootAhead, BootUnderWay, BootCounted,
        InShutdown, InitReaps
  <2>2. ProcTypeOK'
    BY <1>29 DEF ProcTypeOK, Boots, Pids, KvmStates, MgmtStates, Paths, Absent,
        NoPid, InitReaps
  <2> QED
    BY <2>1, <2>2
<1>30. ASSUME NEW g \in Boots, GuestBooted(g) PROVE TypeInv'
  <2>1. Parent'
    BY <1>30 DEF ParentTypeOK, BootsFit, BootAhead, BootUnderWay, BootCounted,
        InShutdown, GuestBooted
  <2>2. ProcTypeOK'
    BY <1>30 DEF ProcTypeOK, Boots, Pids, KvmStates, MgmtStates, Paths, Absent,
        NoPid, GuestBooted
  <2> QED
    BY <2>1, <2>2
<1>31. ASSUME NEW g \in Boots, KvmExit(g) PROVE TypeInv'
  <2>1. Parent'
    BY <1>31 DEF ParentTypeOK, BootsFit, BootAhead, BootUnderWay, BootCounted,
        InShutdown, KvmExit
  <2>2. ProcTypeOK'
    BY <1>31 DEF ProcTypeOK, Boots, Pids, KvmStates, MgmtStates, Paths, Absent,
        NoPid, KvmExit
  <2> QED
    BY <2>1, <2>2
<1>32. CASE UNCHANGED vars
  BY <1>32 DEF vars, ParentTypeOK, ProcTypeOK, BootsFit, BootAhead,
      BootUnderWay, BootCounted, InShutdown
<1> QED
  BY <1>1, <1>2, <1>3, <1>4, <1>5, <1>6, <1>7, <1>8, <1>9, <1>10, <1>11, <1>12,
      <1>13, <1>14, <1>15, <1>16, <1>17, <1>18, <1>19, <1>20, <1>21, <1>22,
      <1>23, <1>24, <1>25, <1>26, <1>27, <1>28, <1>29, <1>30, <1>31, <1>32 DEF
      Next, ParentStep, MgmtStep, HostStep, GuestStep

\* Type correctness.
THEOREM TypeCorrect == Spec => []TypeOK
<1>1. Init => TypeInv
  BY TypeInvInit
<1>2. TypeInv /\ [Next]_vars => TypeInv'
  BY TypeInvStep
<1>3. TypeInv => TypeOK
  BY DEF TypeInv
<1> QED
  BY <1>1, <1>2, <1>3, PTL DEF Spec

-----------------------------------------------------------------------------
LEMMA BootsFitStep ==
  ASSUME NEW limit \in Int, TypeInv, BootsFit(limit), [Next]_vars, inv' = inv
  PROVE  BootsFit(limit)'
<1> USE DEF BootsFit, BootAhead, BootUnderWay, BootCounted, InShutdown, parentVars,
            procVars
<1>0. /\ retries \in Nat /\ boots \in Nat /\ MaxRetries \in Nat /\ inv \in Nat
      /\ sdRet \in {"recheck", "retry", "closing"}
  BY ConstantsAssumption DEF TypeInv, TypeOK, ParentTypeOK, ProcTypeOK
<1>1. ~StartInvocation
  BY <1>0 DEF StartInvocation
<1>2. CASE KillParent
  BY <1>0, <1>2 DEF KillParent, Ended
<1>3. CASE CreateImage
  BY <1>0, <1>3 DEF CreateImage, Exit
<1>4. CASE Probe
  BY <1>0, <1>4 DEF Probe
<1>5. CASE ProbePort
  BY <1>0, <1>5 DEF ProbePort, CallShutdown
<1>6. CASE Recheck
  BY <1>0, <1>6 DEF Recheck, Exit
<1>7. CASE Fork
  BY <1>0, <1>7 DEF Fork
<1>8. CASE WakeUp
  BY <1>0, <1>8 DEF WakeUp
<1>9. CASE SshTrue
  BY <1>0, <1>9 DEF SshTrue
<1>10. CASE CheckKvm
  BY <1>0, <1>10 DEF CheckKvm, Exit
<1>11. CASE GiveUp
  BY <1>0, <1>11 DEF GiveUp
<1>12. CASE BootFailed
  BY <1>0, <1>12 DEF BootFailed, CallShutdown
<1>13. CASE Retry
  BY <1>0, <1>13 DEF Retry, Exit, MayRetry
<1>14. CASE RunCommand
  BY <1>0, <1>14 DEF RunCommand
<1>15. CASE CommandsDone
  BY <1>0, <1>15 DEF CommandsDone, CallShutdown
<1>16. CASE ShutdownAttempt
  BY <1>0, <1>16 DEF ShutdownAttempt
<1>17. CASE ShutdownPoll
  BY <1>0, <1>17 DEF ShutdownPoll
<1>18. CASE ShutdownKill
  BY <1>0, <1>18 DEF ShutdownKill, Exit, Running
<1>19. CASE ShutdownGrace
  BY <1>0, <1>19 DEF ShutdownGrace
<1>20. CASE Close
  BY <1>0, <1>20 DEF Close
<1>21. CASE Alarm
  BY <1>0, <1>21 DEF Alarm
<1>22. ASSUME NEW g \in Boots, MgmtStep(g) \/ HostStep(g) \/ GuestStep(g)
      PROVE  BootsFit(limit)'
  BY <1>22 DEF MgmtStep, HostStep, GuestStep, MgmtReapKvm, MgmtEof, MgmtSsh,
      MgmtCopyBack, KvmStart, KvmFail, KvmKilled, InitReaps, GuestBooted,
      KvmExit
<1>23. CASE UNCHANGED vars
  BY <1>23 DEF vars
<1> QED
  BY <1>1, <1>2, <1>3, <1>4, <1>5, <1>6, <1>7, <1>8, <1>9, <1>10, <1>11, <1>12,
      <1>13, <1>14, <1>15, <1>16, <1>17, <1>18, <1>19, <1>20, <1>21, <1>22,
      <1>23 DEF Next, ParentStep

\* Every invocation forks KVM at most MaxRetries times, even if parents are
\* killed and whatever KVM, its guest and the management processes do.
THEOREM BootBudgetHolds == Spec => []BootBudget
<1> DEFINE Inv == TypeInv /\ BootsFit(inv * MaxRetries)
<1>1. Init => Inv
  <2> SUFFICES ASSUME Init PROVE BootsFit(inv * MaxRetries)
    BY TypeInvInit
  <2>1. inv * MaxRetries = 0
    BY ConstantsAssumption DEF Init
  <2> QED
    BY <2>1 DEF Init, BootsFit, BootAhead, BootUnderWay, BootCounted, InShutdown
<1>2. Inv /\ [Next]_vars => Inv'
  <2> SUFFICES ASSUME Inv, [Next]_vars PROVE BootsFit(inv * MaxRetries)'
    BY TypeInvStep
  <2>1. inv \in Nat /\ boots \in Nat /\ MaxRetries \in Nat \ {0}
    BY ConstantsAssumption DEF TypeInv, TypeOK, ParentTypeOK, ProcTypeOK
  <2>2. CASE StartInvocation
    <3>1. (inv * MaxRetries)' = inv * MaxRetries + MaxRetries
      BY <2>1, <2>2 DEF StartInvocation
    <3>2. inv * MaxRetries \in Nat
      BY <2>1
    <3> HIDE DEF Inv
    <3> DEFINE limit == inv * MaxRetries
    <3>3. boots <= limit
      BY DEF Inv, BootsFit
    <3>4. boots' = boots /\ ppc' = "create" /\ retries' = 0
      BY <2>2 DEF StartInvocation, procVars
    <3>5. boots' + MaxRetries - retries' <= limit + MaxRetries
      BY <2>1, <3>2, <3>3, <3>4
    <3>6. limit' = limit + MaxRetries
      BY <3>1
    <3> HIDE DEF limit
    <3>7. BootsFit(limit)'
      BY <2>1, <3>2, <3>3, <3>4, <3>5, <3>6
      DEF BootsFit, BootAhead, BootUnderWay, BootCounted, InShutdown, limit
    <3> QED
      BY <3>7 DEF limit
  <2>3. CASE inv' = inv
    <3>1. inv * MaxRetries \in Int
      BY <2>1
    <3>2. ASSUME NEW limit \in Int, limit = inv * MaxRetries
          PROVE  BootsFit(inv * MaxRetries)'
      BY <2>3, <3>2, BootsFitStep
    <3> QED
      BY <3>1, <3>2
  <2>4. inv' = inv \/ StartInvocation
    BY DEF Next, vars, envVars, ParentStep, MgmtStep, HostStep, GuestStep,
        KillParent, CreateImage, Probe, ProbePort, Recheck, Fork, WakeUp,
        SshTrue, CheckKvm, GiveUp, BootFailed, Retry, RunCommand, CommandsDone,
        ShutdownAttempt, ShutdownPoll, ShutdownKill, ShutdownGrace, Close,
        Alarm, MgmtReapKvm, MgmtEof, MgmtSsh, MgmtCopyBack, KvmStart, KvmFail,
        KvmKilled, InitReaps, GuestBooted, KvmExit
  <2> QED
    BY <2>2, <2>3, <2>4
<1>3. Inv => BootBudget
  BY DEF BootsFit, BootBudget
<1> QED
  BY <1>1, <1>2, <1>3, PTL DEF Spec

-----------------------------------------------------------------------------
(***************************************************************************)
(* When no parent is killed and no handler mistakes ssh for KVM, only the  *)
(* boot whose pipe the parent holds can have a process left.               *)
(***************************************************************************)
ProcessInv ==
  /\ ppc # "killed"
  /\ ppc \in Ended => pipe = 0
  /\ pipe # 0 => pipe = boots
  /\ \A g \in Boots :
       /\ mpc[g] = "none" => kvm[g] = "none"
       /\ mpc[g] \in {"mv", "gone"} => kvm[g] = "gone"
       /\ g # pipe => mpc[g] \in {"none", "gone"}

QuietInv == TypeInv /\ ProcessInv

Quiet == MaxKills = 0 /\ "earlyReap" \notin Faults

LEMMA QuietInvInit == Init => QuietInv
  BY TypeInvInit DEF QuietInv, ProcessInv, Init, Ended, Boots, Pids

LEMMA QuietInvStep == Quiet /\ QuietInv /\ [Next]_vars => QuietInv'
<1> SUFFICES ASSUME Quiet, QuietInv, [Next]_vars PROVE ProcessInv'
  BY TypeInvStep DEF QuietInv
<1> USE ConstantsAssumption DEF QuietInv, ProcessInv, Ended, parentVars, procVars
<1>0. /\ mpc \in [Boots -> MgmtStates] /\ kvm \in [Pids -> KvmStates]
      /\ Boots \subseteq Pids /\ boots \in Nat /\ pipe \in 0..boots /\ kills \in 0..MaxKills
      /\ sdRet \in {"recheck", "retry", "closing"}
  BY DEF TypeInv, TypeOK, ParentTypeOK, ProcTypeOK, Boots, Pids
<1>1. CASE StartInvocation
  BY <1>0, <1>1 DEF StartInvocation, Ended
<1>2. ~KillParent
  BY <1>0 DEF KillParent, Quiet
<1>3. CASE CreateImage
  BY <1>0, <1>3 DEF CreateImage, Exit
<1>4. CASE Probe
  BY <1>0, <1>4 DEF Probe
<1>5. CASE ProbePort
  BY <1>0, <1>5 DEF ProbePort, CallShutdown
<1>6. CASE Recheck
  BY <1>0, <1>6 DEF Recheck, Exit
<1>7. CASE Fork
  BY <1>0, <1>7 DEF Fork, MgmtDone
<1>8. CASE WakeUp
  BY <1>0, <1>8 DEF WakeUp
<1>9. CASE SshTrue
  BY <1>0, <1>9 DEF SshTrue
<1>10. CASE CheckKvm
  BY <1>0, <1>10 DEF CheckKvm, Exit
<1>11. CASE GiveUp
  BY <1>0, <1>11 DEF GiveUp
<1>12. CASE BootFailed
  BY <1>0, <1>12 DEF BootFailed, CallShutdown
<1>13. CASE Retry
  BY <1>0, <1>13 DEF Retry, Exit, MayRetry
<1>14. CASE RunCommand
  BY <1>0, <1>14 DEF RunCommand
<1>15. CASE CommandsDone
  BY <1>0, <1>15 DEF CommandsDone, CallShutdown
<1>16. CASE ShutdownAttempt
  BY <1>0, <1>16 DEF ShutdownAttempt, SshShutdown
<1>17. CASE ShutdownPoll
  BY <1>0, <1>17 DEF ShutdownPoll
<1>18. CASE ShutdownKill
  BY <1>0, <1>18 DEF ShutdownKill, Exit, Running
<1>19. CASE ShutdownGrace
  BY <1>0, <1>19 DEF ShutdownGrace
<1>20. CASE Close
  BY <1>0, <1>20 DEF Close, MgmtDone
<1>21. CASE Alarm
  BY <1>0, <1>21 DEF Alarm
<1>22. ASSUME NEW g \in Boots, MgmtReapKvm(g) PROVE ProcessInv'
  BY <1>0, <1>22 DEF MgmtReapKvm
<1>23. ASSUME NEW g \in Boots, MgmtEof(g) PROVE ProcessInv'
  BY <1>0, <1>23 DEF MgmtEof
<1>24. ASSUME NEW g \in Boots, MgmtSsh(g) PROVE ProcessInv'
  BY <1>0, <1>24 DEF MgmtSsh, SshShutdown, Quiet
<1>25. ASSUME NEW g \in Boots, MgmtCopyBack(g) PROVE ProcessInv'
  BY <1>0, <1>25 DEF MgmtCopyBack
<1>26. ASSUME NEW g \in Boots, KvmStart(g) PROVE ProcessInv'
  BY <1>0, <1>26 DEF KvmStart
<1>27. ASSUME NEW g \in Boots, KvmFail(g) PROVE ProcessInv'
  BY <1>0, <1>27 DEF KvmFail
<1>28. ASSUME NEW g \in Boots, KvmKilled(g) PROVE ProcessInv'
  BY <1>0, <1>28 DEF KvmKilled
<1>29. ASSUME NEW g \in Boots, InitReaps(g) PROVE ProcessInv'
  BY <1>0, <1>29 DEF InitReaps
<1>30. ASSUME NEW g \in Boots, GuestBooted(g) PROVE ProcessInv'
  BY <1>0, <1>30 DEF GuestBooted
<1>31. ASSUME NEW g \in Boots, KvmExit(g) PROVE ProcessInv'
  BY <1>0, <1>31 DEF KvmExit
<1>32. CASE UNCHANGED vars
  BY <1>32 DEF vars
<1> QED
  BY <1>1, <1>2, <1>3, <1>4, <1>5, <1>6, <1>7, <1>8, <1>9, <1>10, <1>11, <1>12,
      <1>13, <1>14, <1>15, <1>16, <1>17, <1>18, <1>19, <1>20, <1>21, <1>22,
      <1>23, <1>24, <1>25, <1>26, <1>27, <1>28, <1>29, <1>30, <1>31, <1>32 DEF
      Next, ParentStep, MgmtStep, HostStep, GuestStep

LEMMA QuietNobodyElse ==
  QuietInv => \A g \in Boots : Running(g) => g = boots
  BY DEF QuietInv, ProcessInv, Running, Boots

\* An invocation that is not killed leaves no process behind, however it ends.
THEOREM NothingLeftRunningHolds ==
  ASSUME Quiet PROVE Spec => []NothingLeftRunning
<1>1. Init => QuietInv
  BY QuietInvInit
<1>2. QuietInv /\ [Next]_vars => QuietInv'
  BY QuietInvStep
<1>3. QuietInv => NothingLeftRunning
  BY DEF QuietInv, ProcessInv, NothingLeftRunning, Ended, Boots
<1> QED
  BY <1>1, <1>2, <1>3, PTL DEF Spec

\* As long as nobody is killed, the work image is moved when KVM is down.
THEOREM MovedOnlyWhenDownHolds ==
  ASSUME Quiet PROVE Spec => MovedOnlyWhenDown
<1> DEFINE Moved == file["work"] # Absent /\ file'["work"] = Absent
<1>1. QuietInv /\ [Next]_vars => (Moved => ~InUse(file["work"]))
  <2> SUFFICES ASSUME QuietInv, Next, Moved PROVE ~InUse(file["work"])
    BY DEF vars, fileVars
  <2>1. created \in Nat /\ file \in [Paths -> Nat \cup {Torn}]
    BY DEF QuietInv, TypeInv, TypeOK, ProcTypeOK
  <2>2. ~CreateImage
    BY <2>1 DEF CreateImage, fileVars, Absent, Torn, Paths, VmPath
  <2>3. PICK g \in Boots : MgmtCopyBack(g)
    BY <2>2 DEF Next, ParentStep, MgmtStep, HostStep, GuestStep, fileVars,
        StartInvocation, KillParent, Probe, ProbePort, Recheck, Fork, WakeUp, SshTrue, CheckKvm, GiveUp, BootFailed, Retry, RunCommand, CommandsDone, ShutdownAttempt, ShutdownPoll, ShutdownKill, ShutdownGrace, Close, Alarm, MgmtReapKvm, MgmtEof, MgmtSsh, KvmStart, KvmFail, KvmKilled, InitReaps, GuestBooted, KvmExit
  <2>4. kvm[g] = "gone" /\ g = pipe /\ pipe # 0
    BY <2>3 DEF MgmtCopyBack, QuietInv, ProcessInv, Boots
  <2>5. \A h \in Boots : ~Running(h)
    BY <2>4 DEF QuietInv, ProcessInv, Running
  <2> QED
    BY <2>5 DEF InUse
<1>2. Init => QuietInv
  BY QuietInvInit
<1>3. QuietInv /\ [Next]_vars => QuietInv'
  BY QuietInvStep
<1> QED
  BY <1>1, <1>2, <1>3, PTL DEF Spec, MovedOnlyWhenDown

-----------------------------------------------------------------------------
(***************************************************************************)
(* The command list.                                                       *)
(***************************************************************************)
CommandInv ==
  /\ \A c \in Cmds : c >= cmd => log[c] = NotRun
  /\ \A c \in Cmds : c < cmd => (log[c] = NotRun <=> RightlySkipped(c))
  /\ ppc \in Ended \/ ppc = "closing" \/ FirstFailure(ret)
  /\ sdRet = "closing" => /\ cmd = NumCmds + 1 /\ (ret = Died \/ FirstFailure(ret))
                          /\ InShutdown("closing") \/ ppc = "closing" \/ ppc \in Ended

LEMMA CommandInvInit == Init => CommandInv
  BY ConstantsAssumption DEF Init, CommandInv, FirstFailure, NotRun, Codes, Cmds

\* What a command leaves alone: every action but these two.
LEMMA CommandVarsStep ==
  [Next]_vars => StartInvocation \/ RunCommand \/ UNCHANGED <<cmd, log>>
  BY DEF Next, vars, parentVars, ParentStep, MgmtStep, HostStep, GuestStep,
      KillParent, CreateImage, Probe, ProbePort, Recheck, Fork, WakeUp, SshTrue,
      CheckKvm, GiveUp, BootFailed, Retry, CommandsDone, ShutdownAttempt,
      ShutdownPoll, ShutdownKill, ShutdownGrace, Close, Alarm, MgmtReapKvm,
      MgmtEof, MgmtSsh, MgmtCopyBack, KvmStart, KvmFail, KvmKilled, InitReaps,
      GuestBooted, KvmExit

LEMMA RunCommandStep ==
  ASSUME TypeInv, CommandInv, RunCommand PROVE CommandInv'
<1>0. /\ cmd \in Cmds /\ cmd' = cmd + 1 /\ NumCmds \in Nat /\ Cmds \subseteq Nat
      /\ ppc = "cmds" /\ ppc' = "cmds" /\ sdRet' = sdRet
      /\ log \in [Cmds -> {NotRun, 0} \cup Codes] /\ ret \in Statuses
      /\ FirstFailure(ret) /\ sdRet # "closing"
  BY ConstantsAssumption
  DEF RunCommand, TypeInv, TypeOK, ParentTypeOK, CommandInv, Ended, Cmds
<1> DEFINE failed == {c \in Cmds : log[c] \in Codes}
<1>1. log[cmd] = NotRun /\ \A c \in failed : c < cmd
  BY <1>0 DEF CommandInv, NotRun, Codes
<1>2. ret = 0 <=> failed = {}
  BY <1>0 DEF FirstFailure, Codes
<1>3. Skipped(cmd) <=> RightlySkipped(cmd)
  BY <1>0, <1>1, <1>2 DEF Skipped, RightlySkipped, Cmds
<1>4. CASE Skipped(cmd)
  <2>1. UNCHANGED <<log, ret>>
    BY <1>4 DEF RunCommand
  <2> QED
    BY <1>0, <1>1, <1>3, <1>4, <2>1
    DEF CommandInv, RightlySkipped, FirstFailure, Cmds
<1>5. ASSUME NEW status \in {0} \cup Codes, ~Skipped(cmd),
             log' = [log EXCEPT ![cmd] = status],
             ret' = IF ret = 0 THEN status ELSE ret
      PROVE  CommandInv'
  <2>1. \A c \in Cmds : c # cmd => log'[c] = log[c]
    BY <1>0, <1>5
  <2>2. log'[cmd] = status /\ status # NotRun
    BY <1>0, <1>5 DEF NotRun, Codes
  <2>3. \A c \in Cmds : c <= cmd => RightlySkipped(c)' = RightlySkipped(c)
    BY <1>0, <2>1 DEF RightlySkipped, Cmds
  <2>4. \A c \in Cmds : c < cmd' => (log'[c] = NotRun <=> RightlySkipped(c)')
    BY <1>0, <1>3, <1>5, <2>1, <2>2, <2>3 DEF CommandInv, Cmds
  <2>5. \A c \in Cmds : c >= cmd' => log'[c] = NotRun
    BY <1>0, <2>1 DEF CommandInv, Cmds
  <2>6. FirstFailure(ret)'
    <3>1. CASE failed = {}
      BY <1>0, <1>2, <1>5, <2>1, <2>2, <3>1 DEF FirstFailure, Codes
    <3>2. CASE failed # {}
      <4>1. PICK first \in failed : ret = log[first] /\ \A c \in failed : first <= c
        BY <1>0, <3>2 DEF FirstFailure
      <4>2. ret' = log'[first] /\ log'[first] \in Codes /\ first < cmd
        BY <1>0, <1>1, <1>2, <1>5, <2>1, <3>2, <4>1
      <4>3. \A c \in Cmds : log'[c] \in Codes => c \in failed \/ c = cmd
        BY <2>1
      <4> QED
        BY <1>0, <4>1, <4>2, <4>3 DEF FirstFailure
    <3> QED
      BY <3>1, <3>2
  <2> QED
    BY <1>0, <2>4, <2>5, <2>6 DEF CommandInv
<1> QED
  BY <1>4, <1>5 DEF RunCommand

LEMMA CommandInvStep == TypeInv /\ CommandInv /\ [Next]_vars => CommandInv'
<1> SUFFICES ASSUME TypeInv, CommandInv, [Next]_vars PROVE CommandInv'
  OBVIOUS
<1>1. CASE StartInvocation
  BY <1>1, ConstantsAssumption
  DEF StartInvocation, CommandInv, FirstFailure, NotRun, Codes, Cmds
<1>2. CASE RunCommand
  BY <1>2, RunCommandStep
<1>3. CASE UNCHANGED <<cmd, log>> /\ ~StartInvocation
  <2>1. \A c : RightlySkipped(c)' = RightlySkipped(c)
    BY <1>3 DEF RightlySkipped
  <2>2. \/ ppc' \in Ended \/ ppc' = "closing"
        \/ ppc \notin Ended /\ ppc # "closing" /\ ret' = ret
    BY <1>3 DEF Next, vars, parentVars, ParentStep, MgmtStep, HostStep,
        GuestStep, KillParent, CreateImage, Probe, ProbePort, Recheck, Fork,
        WakeUp, SshTrue, CheckKvm, GiveUp, BootFailed, Retry, RunCommand,
        CommandsDone, ShutdownAttempt, ShutdownPoll, ShutdownKill,
        ShutdownGrace, Close, Alarm, MgmtReapKvm, MgmtEof, MgmtSsh,
        MgmtCopyBack, KvmStart, KvmFail, KvmKilled, InitReaps, GuestBooted,
        KvmExit, Exit, CallShutdown, Ended, TypeInv, TypeOK, ParentTypeOK
  <2>3. sdRet' = "closing" =>
          \/ sdRet = "closing" /\ (ret' = ret \/ ret' = Died)
          \/ cmd \notin Cmds /\ ppc = "cmds" /\ ret' = ret
    BY <1>3 DEF Next, vars, parentVars, ParentStep, MgmtStep, HostStep,
        GuestStep, KillParent, CreateImage, Probe, ProbePort, Recheck, Fork,
        WakeUp, SshTrue, CheckKvm, GiveUp, BootFailed, Retry, RunCommand,
        CommandsDone, ShutdownAttempt, ShutdownPoll, ShutdownKill,
        ShutdownGrace, Close, Alarm, MgmtReapKvm, MgmtEof, MgmtSsh,
        MgmtCopyBack, KvmStart, KvmFail, KvmKilled, InitReaps, GuestBooted,
        KvmExit, Exit, CallShutdown, Ended, TypeInv, TypeOK, ParentTypeOK, CommandInv,
        InShutdown
  <2>4. sdRet' = "closing" =>
          (InShutdown("closing") \/ ppc = "closing" \/ ppc \in Ended)'
    BY <1>3 DEF Next, vars, parentVars, ParentStep, MgmtStep, HostStep,
        GuestStep, KillParent, CreateImage, Probe, ProbePort, Recheck, Fork,
        WakeUp, SshTrue, CheckKvm, GiveUp, BootFailed, Retry, RunCommand,
        CommandsDone, ShutdownAttempt, ShutdownPoll, ShutdownKill,
        ShutdownGrace, Close, Alarm, MgmtReapKvm, MgmtEof, MgmtSsh,
        MgmtCopyBack, KvmStart, KvmFail, KvmKilled, InitReaps, GuestBooted,
        KvmExit, Exit, CallShutdown, Ended, TypeInv, TypeOK, ParentTypeOK, CommandInv,
        InShutdown
  <2>5. cmd \in 1..(NumCmds + 1)
    BY DEF TypeInv, TypeOK, ParentTypeOK
  <2>6. sdRet' = "closing" => cmd = NumCmds + 1 /\ (ret' = Died \/ FirstFailure(ret'))
    <3>1. cmd \notin Cmds => cmd = NumCmds + 1
      BY <2>5, ConstantsAssumption DEF Cmds
    <3>2. ppc = "cmds" => FirstFailure(ret)
      BY DEF CommandInv, Ended
    <3>3. sdRet = "closing" => cmd = NumCmds + 1 /\ (ret = Died \/ FirstFailure(ret))
      BY DEF CommandInv
    <3> QED
      BY <2>3, <3>1, <3>2, <3>3
  <2>7. FirstFailure(ret)' <=> FirstFailure(ret')
    BY <1>3 DEF FirstFailure
  <2> QED
    BY <1>3, <2>1, <2>2, <2>4, <2>6, <2>7 DEF CommandInv
<1> QED
  BY <1>1, <1>2, <1>3, CommandVarsStep

\* The commands that run are those the usage text promises, and the exit status
\* is that of the first one that failed.
THEOREM CommandDisciplineHolds == Spec => []CommandDiscipline
<1> DEFINE Inv == TypeInv /\ CommandInv
<1>1. Init => Inv
  BY TypeInvInit, CommandInvInit
<1>2. Inv /\ [Next]_vars => Inv'
  BY TypeInvStep, CommandInvStep
<1>3. Inv => CommandDiscipline
  <2> SUFFICES ASSUME Inv, sdRet = "closing", ret # Died
               PROVE  /\ \A c \in Cmds : log[c] = NotRun <=> RightlySkipped(c)
                      /\ FirstFailure(ret)
    BY DEF CommandDiscipline
  <2>1. cmd = NumCmds + 1 /\ FirstFailure(ret)
    BY DEF CommandInv
  <2>2. \A c \in Cmds : c < cmd
    BY <2>1, ConstantsAssumption DEF Cmds
  <2> QED
    BY <2>1, <2>2 DEF CommandInv
<1> QED
  BY <1>1, <1>2, <1>3, PTL DEF Spec
=============================================================================
