----------------------------- MODULE VmSession -----------------------------
(***************************************************************************)
(* What a build is promised by runvm: its commands are run in their order, *)
(* all of them in one machine, one that was booted for this build and has  *)
(* answered before the first of them.  Machines come up once and go down   *)
(* once, as they please.  How runvm sees to that, with pipes, pid files    *)
(* and timeouts, is RunVM's business.                                      *)
(***************************************************************************)
EXTENDS Integers

CONSTANTS
  Machines,      \* 1..n, in the order they are booted
  NumCmds,       \* the commands are 1..NumCmds
  AlwaysRun,     \* those that run after a failure as well
  HostCmds,      \* those that do not need a machine
  Codes,         \* exit statuses of commands that fail
  Died,          \* exit status of a session that breaks off
  NotRun         \* in `log': no status

VARIABLES
  phase,    \* of the session: "idle", "prepare", "boot", "serve" or "ended"
  machine,  \* the machine booted last, 0 before the first
  guest,    \* what has become of each machine
  cmd,      \* the next command
  log,      \* the status of each command of this session
  ret       \* the exit status

vars == <<phase, machine, guest, cmd, log, ret>>

Init ==
  /\ phase = "idle" /\ machine = 0
  /\ guest = [g \in Machines |-> "none"]
  /\ cmd = 1 /\ ret = 0 /\ log = [c \in 1..NumCmds |-> NotRun]

\* Another build.  Machines of earlier ones may still be up.
Start ==
  /\ phase \in {"idle", "ended"}
  /\ phase' = "prepare"
  /\ cmd' = 1 /\ ret' = 0 /\ log' = [c \in 1..NumCmds |-> NotRun]
  /\ UNCHANGED <<machine, guest>>

\* A machine that no build has used before.
Boot ==
  /\ phase = "prepare" /\ machine + 1 \in Machines
  /\ phase' = "boot"
  /\ machine' = machine + 1
  /\ guest' = [guest EXCEPT ![machine + 1] = "coming"]
  /\ UNCHANGED <<cmd, log, ret>>

\* It did not come up: another one.
Again ==
  /\ phase = "boot" /\ phase' = "prepare"
  /\ UNCHANGED <<machine, guest, cmd, log, ret>>

\* It has answered, and the commands begin.
Serve ==
  /\ phase = "boot" /\ guest[machine] = "up"
  /\ phase' = "serve"
  /\ UNCHANGED <<machine, guest, cmd, log, ret>>

Skip ==
  /\ ret # 0 /\ cmd \notin AlwaysRun
  /\ UNCHANGED <<log, ret>>

Run(status) ==
  /\ ret = 0 \/ cmd \in AlwaysRun
  /\ status = 0 => cmd \in HostCmds \/ guest[machine] = "up"
  /\ log' = [log EXCEPT ![cmd] = status]
  /\ ret' = IF ret = 0 THEN status ELSE ret

\* No step of a command changes the machine.
Command ==
  /\ phase = "serve" /\ cmd \in 1..NumCmds
  /\ cmd' = cmd + 1
  /\ Skip \/ \E status \in {0} \cup Codes : Run(status)
  /\ UNCHANGED <<phase, machine, guest>>

\* The end: nothing was run, all commands are through, or a signal.
End ==
  /\ phase \notin {"idle", "ended"} /\ phase' = "ended"
  /\ \/ phase \in {"prepare", "boot"} /\ ret' \in Codes \cup {Died}
     \/ phase = "serve" /\ cmd > NumCmds /\ ret' \in {ret, Died}
     \/ UNCHANGED ret                                   \* killed
  /\ UNCHANGED <<machine, guest, cmd, log>>

\* Of a machine: it comes up or goes down.
Guest(g) ==
  /\ \/ guest[g] = "coming" /\ guest' = [guest EXCEPT ![g] = "up"]
     \/ guest[g] \in {"coming", "up"} /\ guest' = [guest EXCEPT ![g] = "down"]
  /\ UNCHANGED <<phase, machine, cmd, log, ret>>

Next ==
  \/ Start \/ Boot \/ Again \/ Serve \/ Command \/ End
  \/ \E g \in Machines : Guest(g)

Spec == Init /\ [][Next]_vars
=============================================================================
