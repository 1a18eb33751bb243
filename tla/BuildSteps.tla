----------------------------- MODULE BuildSteps -----------------------------
(***************************************************************************)
(* Builds of several builders on the slaves they share, step by step.      *)
(*                                                                         *)
(* The factories are constants: sequences of steps in the vocabulary of    *)
(* module Steps.  The master starts a queued build on a slave of its       *)
(* builder, at most one build per builder and slave and at most MaxBuilds  *)
(* per slave, runs its steps in order, and queues the build again when the *)
(* slave is lost.  What is followed is where the contents of the files     *)
(* come from: what a build uploads and tests must be made from its own     *)
(* revision, although the directories are reused by build after build,     *)
(* those named after a revision by the builds of that revision, the host's *)
(* by builder after builder, and any step can fail.                        *)
(***************************************************************************)
EXTENDS Steps, FiniteSets

CONSTANTS
  Builder,    \* names of builders
  Factory,    \* their factories
  Slave,      \* names of slaves
  Slaves,     \* the slaves a builder may build on
  MaxBuilds,  \* max_builds of a slave
  Offered,    \* the branches the scheduler of a builder watches
  Crew,       \* sets of builders: the builds of a behaviour are of one of them
  Request,    \* the builds
  Asked,      \* the revisions the builds may be of; several may be of the same
  TestsFirst, \* builders that test before they upload
  MaxFaults,  \* bound on failed commands, stops and lost slaves, where a builder takes part
  OwnAt       \* OwnAt[b][br][s][i]: files that step i of b finds its own

\* The head of the branch when it is not the requested revision.
Head0 == 0
Origin == Request \cup {Head0}

ConstantsAssumption ==
  /\ Factory \in [Builder -> Seq(Step)]
  /\ Slaves \in [Builder -> SUBSET Slave]
  /\ MaxBuilds \in [Slave -> Nat \ {0}]
  /\ Offered \in [Builder -> SUBSET Branch]
  /\ Crew \subseteq SUBSET Builder
  /\ Request \subseteq Nat \ {0}
  /\ Asked \subseteq [Request -> Nat \ {0}]
  /\ TestsFirst \subseteq Builder
  /\ MaxFaults \in [Builder -> Nat]
  /\ "none" \notin Builder
ASSUME BuildConstants == ConstantsAssumption

-----------------------------------------------------------------------------
(***************************************************************************)
(* What a factory must be like for its builds to be right when nothing     *)
(* fails.  A file is the build's own at a step if nothing in it can come   *)
(* from another build.                                                     *)
(***************************************************************************)
Outputs(st) == st.writes \cup st.adds \cup st.fills \cup st.moves \cup st.clears

Enabled(st, br, s) == br \in st.when /\ s \notin st.off

\* A file of the host that another builder touches on a slave they share.
Shared(b, x) ==
  /\ x \in HostFiles
  /\ \E c \in Builder \ {b} :
       Slaves[b] \cap Slaves[c] # {} /\ \E i \in DOMAIN Factory[c] : x \in Outputs(Factory[c][i])

\* A build starts with no properties, and with whatever is in the directories.
AtStart == Properties

\* The products of a step are the build's own.
Sound(st, own) == st.makes # "copy" \/ st.reads \subseteq own

\* Output x is the build's own after the step; and all files that are.
OwnOutput(st, x, own) ==
  IF x \in st.writes THEN Sound(st, own)
  ELSE IF x \in st.adds \cup st.fills THEN Sound(st, own) /\ x \in own
  ELSE IF x \in st.moves THEN x \in own
  ELSE TRUE
Kept(st, br, s, own) ==
  IF Enabled(st, br, s)
  THEN {x \in own \cup Outputs(st) : x \in Outputs(st) => OwnOutput(st, x, own)}
  ELSE own

\* The step makes something new, or copies what it finds in `these' files.
MadeOf(st, these) ==
  \/ st.makes = "own"
  \/ st.makes = "copy" /\ st.reads # {} /\ st.reads \subseteq these

\* What is tested is the build's own.  What is uploaded, and what is left in the
\* directories of the revision for the next build of it to find, is made of that and of
\* what those directories hold.  An upload changes nothing on the slave.
Disciplined(st, own) ==
  /\ st.effect = "test" => MadeOf(st, own)
  /\ st.effect = "ship" \/ (st.writes \cup st.adds \cup st.fills) \cap RevisionFiles # {}
       => MadeOf(st, own \cup RevisionFiles)
  /\ st.effect = "ship" => Outputs(st) = {}

Discipline ==
  \A b \in Builder : \A br \in Offered[b], s \in Slaves[b] :
    LET own == OwnAt[b][br][s] IN
    \A i \in DOMAIN Factory[b] :
      /\ i = 1 => own[i] \subseteq AtStart
      /\ \A x \in own[i] : ~Shared(b, x)
      /\ Enabled(Factory[b][i], br, s) => Disciplined(Factory[b][i], own[i])
      /\ i < Len(Factory[b]) => own[i + 1] \subseteq Kept(Factory[b][i], br, s, own[i])
ASSUME FactoriesDisciplined == Discipline

\* A builder in virtual machines, which begins by cleaning its build directory, uses
\* no directory of the host outside it, and no clone there.
InMachines(b) == Factory[b] # << >> /\ Factory[b][1] = CleanBuildDir
Secluded ==
  \A b \in Builder : InMachines(b) => \A i \in DOMAIN Factory[b] :
    LET st == Factory[b][i] IN
    /\ st.makes # "clone"
    /\ (st.reads \cup Outputs(st)) \cap (HostFiles \cup RevisionFiles) \subseteq {"revdir"}
ASSUME MachinesSecluded == Secluded

\* A builder of TestsFirst works in virtual machines.  The step that makes something
\* new also tests it, and halts the build when it fails; uploads are copies and are
\* not made after a halt.
TestGate ==
  \A b \in TestsFirst : InMachines(b) /\ \A i \in DOMAIN Factory[b] :
    LET st == Factory[b][i]
        made == st.writes \cup st.adds \cup st.fills IN
    /\ st.makes # "copy" /\ made # {} => st.effect = "test" /\ st.halt /\ ~st.quiet
    /\ st.effect = "ship" => st.makes = "copy" /\ ~st.always
ASSUME TestsGateUploads == TestGate

VARIABLES
  job, branch, revision,   \* the builder, the branch and the revision of a build
  status,        \* "queued", "running" or "done"
  host,          \* the slave it runs on, or ran on last
  pc,            \* its next step
  failed,        \* names of the steps that failed in this attempt
  stopped,       \* a halting step failed, or the build was stopped
  spotless,      \* no command of it failed in this attempt or before
  files,         \* contents: records of a place and a build that wrote there
  log,           \* what was tested and uploaded
  faults         \* faults so far

vars == << job, branch, revision, status, host, pc, failed, stopped, spotless,
           files, log, faults >>

-----------------------------------------------------------------------------
(* Places and contents.                                                    *)

\* Mutant: all builders have the same builddir.
At_SharedBuilddir(r, x) == << host[r], "any",
                              IF x \in BranchFiles THEN branch[r] ELSE "any",
                              IF x \in RevisionFiles THEN revision[r] ELSE 0, x >>

\* Where build r finds a file: once per slave, and per builder unless it is the host's,
\* per branch and per revision where the name says so.
At(r, x) == << host[r], IF x \in HostFiles THEN "any" ELSE job[r],
               IF x \in BranchFiles THEN branch[r] ELSE "any",
               IF x \in RevisionFiles THEN revision[r] ELSE 0, x >>

Origins(p) == {f.of : f \in {g \in files : g.at = p}}
Found(r, x) == Origins(At(r, x))

\* What a step makes of what it reads.
Read(r, st) == UNION {Found(r, x) : x \in st.reads}
Products(r, st) ==
  IF st.makes # "copy" THEN {{r}}
  ELSE IF st.pick THEN {{t} : t \in Read(r, st)}
  ELSE {Read(r, st)}

Ready(r, st) == IF st.pick THEN Read(r, st) # {}
                ELSE \A x \in st.reads : Found(r, x) # {}

\* What is in output x after a step that made `product'.
After(r, st, x, product) ==
  IF x \in st.writes THEN product
  ELSE IF x \in st.adds THEN Found(r, x) \cup product
  ELSE IF x \in st.fills THEN IF Found(r, x) = {} THEN product ELSE Found(r, x)
  ELSE IF x \in st.moves THEN Found(r, x) \ product
  ELSE {}

\* The step has dealt with the outputs in `done', and with no other.
Deal(r, st, done, product) ==
  files' = {f \in files : \A x \in done : f.at # At(r, x)}
           \cup UNION {[at : {At(r, x)}, of : After(r, st, x, product)] : x \in done}

\* The builds of the same revision by the same builder, r among them.
Kin(r) == {q \in Request : job[q] = job[r] /\ revision[q] = revision[r]}

\* What has been done with a product of build r, and what had failed by then.
Record(r, st, product) ==
  log' = log \cup {[what |-> st.effect, by |-> r, from |-> product,
                    after |-> failed[r], spotless |-> spotless[r],
                    kin |-> \A q \in Kin(r) : spotless[q]]}

-----------------------------------------------------------------------------
Init ==
  /\ \E c \in Crew : job \in [Request -> c]
  /\ branch \in [Request -> Branch]
  /\ \A r \in Request : branch[r] \in Offered[job[r]]
  /\ revision \in Asked
  /\ status = [r \in Request |-> "queued"]
  /\ host = [r \in Request |-> "none"]
  /\ pc = [r \in Request |-> 1]
  /\ failed = [r \in Request |-> {}]
  /\ stopped = [r \in Request |-> FALSE]
  /\ spotless = [r \in Request |-> TRUE]
  /\ files = {} /\ log = {}
  /\ faults = 0

Busy(s) == {q \in Request : status[q] = "running" /\ host[q] = s}

\* Mutant: a builder may have two builds on one slave, in the same directory.
HasRoom_BusyBuilder(r, s) ==
  s \in Slaves[job[r]] /\ Cardinality(Busy(s)) < MaxBuilds[s]

\* Mutant: any slave that is there will do.
HasRoom_AnySlave(r, s) ==
  Cardinality(Busy(s)) < MaxBuilds[s] /\ \A q \in Busy(s) : job[q] # job[r]

\* A slave of the builder, with fewer than max_builds builds and none of this builder.
HasRoom(r, s) ==
  /\ s \in Slaves[job[r]]
  /\ Cardinality(Busy(s)) < MaxBuilds[s]
  /\ \A q \in Busy(s) : job[q] # job[r]

\* The master starts a build.  Properties are set anew.
StartBuild(r, s) ==
  /\ status[r] = "queued" /\ HasRoom(r, s)
  /\ status' = [status EXCEPT ![r] = "running"]
  /\ host' = [host EXCEPT ![r] = s]
  /\ pc' = [pc EXCEPT ![r] = 1]
  /\ failed' = [failed EXCEPT ![r] = {}]
  /\ stopped' = [stopped EXCEPT ![r] = FALSE]
  /\ files' = {f \in files : \A x \in Properties : f.at # << s, job[r], "any", 0, x >>}
  /\ UNCHANGED << job, branch, revision, spotless, log, faults >>

AtStep(r) == status[r] = "running" /\ pc[r] <= Len(Factory[job[r]])
StepOf(r) == Factory[job[r]][pc[r]]

\* Mutant: every step has alwaysRun.
Runs_AfterHalt(r) == Enabled(StepOf(r), branch[r], host[r])

\* doStepIf, and what is left of a build that has been halted.
Runs(r) == /\ Enabled(StepOf(r), branch[r], host[r])
           /\ stopped[r] => StepOf(r).always

Advance(r) == pc' = [pc EXCEPT ![r] = @ + 1]

Skip(r) ==
  /\ AtStep(r) /\ ~Runs(r)
  /\ Advance(r)
  /\ UNCHANGED << job, branch, revision, status, host, failed, stopped, spotless,
                  files, log, faults >>

\* The command of the step succeeds: all it needs is there.
Succeed(r) ==
  /\ AtStep(r) /\ Runs(r)
  /\ LET st == StepOf(r) IN
     /\ Ready(r, st)
     /\ \E product \in Products(r, st) :
          /\ Deal(r, st, Outputs(st), product)
          /\ IF st.effect = "none" THEN UNCHANGED log ELSE Record(r, st, product)
  /\ Advance(r)
  /\ UNCHANGED << job, branch, revision, status, host, failed, stopped, spotless, faults >>

\* An upload of a directory that is there but empty, as a step before has made it anew
\* and then failed: it succeeds, and nothing is uploaded.
UploadNothing(r) ==
  /\ AtStep(r) /\ Runs(r)
  /\ StepOf(r).effect = "ship" /\ ~Ready(r, StepOf(r))
  /\ Advance(r)
  /\ UNCHANGED << job, branch, revision, status, host, failed, stopped, spotless,
                  files, log, faults >>

\* The command is cut short: some of its outputs are dealt with, or removed and not
\* made again; a clone may be left at another revision, and some of an upload may
\* have arrived.
CutShort(r) ==
  LET st == StepOf(r) IN
  /\ Ready(r, st)
  /\ \E product \in Products(r, st) \cup {{}}
                      \cup (IF st.makes = "clone" THEN {{Head0}} ELSE {}),
        done \in SUBSET {x \in Outputs(st) : x \in st.clears => Found(r, x) # {}} :
       /\ Deal(r, st, done, product)
       /\ \/ st.effect = "ship" /\ product # {} /\ Record(r, st, product)
          \/ UNCHANGED log

\* What the master makes of a failure.
Failing(r, seen, halts) ==
  /\ failed' = [failed EXCEPT ![r] = IF seen THEN @ \cup {StepOf(r).name} ELSE @]
  /\ stopped' = [stopped EXCEPT ![r] = @ \/ halts]
  /\ spotless' = [spotless EXCEPT ![r] = FALSE]
  /\ LET next == pc[r] + 1 IN
     pc' = [pc EXCEPT ![r] = IF next <= Len(Factory[job[r]]) /\ Factory[job[r]][next].part
                             THEN next + 1 ELSE next]
  /\ UNCHANGED << job, branch, revision, status, host >>

\* Something the step needs is not there: its command fails, and may have removed
\* what it was to replace.
Miss(r) ==
  /\ AtStep(r) /\ Runs(r)
  /\ ~Ready(r, StepOf(r))
  /\ \E gone \in SUBSET StepOf(r).writes : Deal(r, StepOf(r), gone, {})
  /\ Failing(r, ~StepOf(r).quiet, StepOf(r).halt /\ ~StepOf(r).quiet)
  /\ UNCHANGED << log, faults >>

\* The command fails, or the build is stopped by hand (interrupt), in which
\* case only the steps that always run are left.
Fail(r, interrupt) ==
  /\ AtStep(r) /\ Runs(r)
  /\ faults < MaxFaults[job[r]] /\ faults' = faults + 1
  /\ CutShort(r)
  /\ Failing(r, interrupt \/ ~StepOf(r).quiet,
             interrupt \/ (StepOf(r).halt /\ ~StepOf(r).quiet))

\* The slave goes away, in the middle of a command or not, and the master
\* queues the build again.
LoseSlave(r) ==
  /\ status[r] = "running"
  /\ faults < MaxFaults[job[r]] /\ faults' = faults + 1
  /\ status' = [status EXCEPT ![r] = "queued"]
  /\ \/ AtStep(r) /\ Runs(r) /\ CutShort(r)
     \/ UNCHANGED << files, log >>
  /\ UNCHANGED << job, branch, revision, host, pc, failed, stopped, spotless >>

Finish(r) ==
  /\ status[r] = "running" /\ pc[r] > Len(Factory[job[r]])
  /\ status' = [status EXCEPT ![r] = "done"]
  /\ UNCHANGED << job, branch, revision, host, pc, failed, stopped, spotless,
                  files, log, faults >>

TakeStep(r) == Skip(r) \/ Succeed(r) \/ UploadNothing(r) \/ Miss(r) \/ (\E i \in BOOLEAN : Fail(r, i))

Next == \E r \in Request :
          \/ \E s \in Slave : StartBuild(r, s)
          \/ TakeStep(r) \/ LoseSlave(r) \/ Finish(r)

Spec == Init /\ [][Next]_vars

-----------------------------------------------------------------------------
(* Properties.                                                             *)

\* Type invariant: also, a build that is not queued has a slave of its builder, and a
\* branch that its scheduler watches.
TypeOK ==
  /\ job \in [Request -> Builder] /\ branch \in [Request -> Branch]
  /\ \A r \in Request : branch[r] \in Offered[job[r]]
  /\ revision \in [Request -> Nat \ {0}]
  /\ status \in [Request -> {"queued", "running", "done"}]
  /\ host \in [Request -> Slave \cup {"none"}]
  /\ \A r \in Request : status[r] # "queued" => host[r] \in Slaves[job[r]]
  /\ pc \in [Request -> Nat \ {0}]
  /\ failed \in [Request -> SUBSET STRING]
  /\ stopped \in [Request -> BOOLEAN] /\ spotless \in [Request -> BOOLEAN]
  /\ \A f \in files : f.of \in Origin
  /\ \A e \in log : e.by \in Request /\ e.from \subseteq Origin
  /\ faults \in Nat

\* While no command of a build has failed, nor of an earlier or later build of its
\* revision by the same builder, what it uploads was made from that revision by these
\* builds: by itself alone if it is the only one.  What other builds have left on the
\* slave does not get in.  (After a failed build of the revision it need not be so:
\* the next one finds its files in the directories named after the revision, and keeps
\* them.)
OwnShipped == \A e \in log : e.what = "ship" /\ e.kin => e.from \subseteq Kin(e.by)

\* What a build tests, while no command of it has failed, was made by itself, whatever
\* earlier builds, those of the same revision among them, have left in the directories:
\* also when it is installed in a directory of the host for the test.
OwnTested == \A e \in log : e.what = "test" /\ e.spotless => e.from = {e.by}

\* A builder that works in virtual machines tests and uploads only what it has made
\* itself, whatever fails, unless it could not clean the build directory.
CleanSlateOwn ==
  \A e \in log :
    InMachines(job[e.by]) /\ "cleaning" \notin e.after => e.from = {e.by}

\* What a builder of TestsFirst uploads has passed the tests before: it is part of
\* what the same build has tested, whatever has failed and whatever was left over
\* from other builds, unless the build directory could not be cleaned.
ShipsTested ==
  \A e \in log : (e.what = "ship" /\ job[e.by] \in TestsFirst /\ "cleaning" \notin e.after)
    => \E t \in log : t.what = "test" /\ t.by = e.by /\ e.from \subseteq t.from
=============================================================================
