------------------------- MODULE TestsFirst_proofs -------------------------
(***************************************************************************)
(* Proofs about BuildSteps: for all factories that also satisfy TestGate,  *)
(* a builder of TestsFirst uploads nothing that the same build has not     *)
(* tested before, whatever fails after the build directory was cleaned.    *)
(***************************************************************************)
EXTENDS CleanSlate_proofs

\* Build r has tested something it made.
Tested(r) == \E t \in log : t.what = "test" /\ t.by = r /\ r \in t.from

\* A build that has tested nothing so far and may still upload.
Untested(r) == Clean(r) /\ job[r] \in TestsFirst /\ ~stopped[r] /\ ~Tested(r)

\* It has nothing to upload.
Empty == \A r \in Request : Untested(r) => \A x \in Cleaned(r) : Found(r, x) = {}

GateInv == Empty /\ ShipsTested

-----------------------------------------------------------------------------
(* What a builder of TestsFirst does in a step.                            *)

\* What TestGate says of the step a build is at.
LEMMA GateHere ==
  ASSUME TypeOK, NEW r \in Request, AtStep(r), job[r] \in TestsFirst, NEW st, st = StepOf(r)
  PROVE  /\ InMachines(job[r])
         /\ st.makes # "copy" /\ st.writes \cup st.adds \cup st.fills # {}
              => st.effect = "test" /\ st.halt /\ ~st.quiet
         /\ st.effect = "ship" => st.makes = "copy" /\ ~st.always
<1>1. pc[r] \in DOMAIN Factory[job[r]]
  BY StepIsStep
<1> QED BY <1>1, TestsGateUploads DEF TestGate, StepOf

\* The log only grows, so what has been tested remains so.
LEMMA TestedKept ==
  ASSUME NEW r \in Request, log \subseteq log', Tested(r)
  PROVE  Tested(r)'
BY DEF Tested

\* Where there was nothing, only a step that makes something new leaves something.
LEMMA OnlyMade ==
  ASSUME Inv, SlateInv, GateInv, NEW r \in Request, AtStep(r), Untested(r), pc[r] # 1,
         NEW st, st = StepOf(r), NEW done \in SUBSET Outputs(st),
         NEW product \in Leftover(r, st), Deal(r, st, done, product),
         UNCHANGED << job, branch, revision, host >>,
         NEW x \in Usable, Found(r, x)' # {}
  PROVE  st.makes # "copy" /\ x \in st.writes \cup st.adds \cup st.fills /\ product # {}
<1>1. \A y \in Usable : Found(r, y) = {}
  BY DEF GateInv, Empty, Cleaned
<1>2. PICK f \in files' : f.at = At(r, x)
  BY DEF Found, Origins, At
<1>3. f \notin files
  BY <1>1, <1>2, InFound
<1>4. x \in done /\ f.of \in After(r, st, x, product)
  BY <1>2, <1>3, Dealt, PlacesApart
<1>5. x \in st.writes \cup st.adds \cup st.fills /\ product # {}
  BY <1>1, <1>4 DEF After
<1>6. st.reads \subseteq Usable /\ st.makes # "clone"
  BY SecludedHere DEF Inv, Untested, Clean
<1>7. Read(r, st) = {}
  BY <1>1, <1>6 DEF Read
<1>8. st.makes = "copy" => product = {}
  BY <1>6, <1>7 DEF Leftover, Products
<1> QED BY <1>5, <1>8

\* Nor is there anything after the cleaning.
LEMMA CleaningEmpties ==
  ASSUME Inv, SlateInv, GateInv, NEW r \in Request, AtStep(r), Untested(r), pc[r] = 1,
         NEW st, st = StepOf(r), NEW product, Deal(r, st, Outputs(st), product),
         UNCHANGED << job, branch, revision, host >>, NEW x \in Usable
  PROVE  Found(r, x)' = {}
<1>1. SUFFICES ASSUME NEW f \in files', f.at = At(r, x) PROVE FALSE
  BY DEF Found, Origins, At
<1>2. /\ st.writes = {} /\ st.adds = {} /\ st.fills = {} /\ st.moves = {}
      /\ Outputs(st) = BuildDirFiles \cup {"revdir"}
  BY FirstStep DEF Outputs, Inv, Untested, Clean
<1>3. f \in files /\ \A y \in Outputs(st) : f.at # At(r, y)
  <2>1. \A y : After(r, st, y, product) = {}
    BY <1>2 DEF After
  <2> QED BY <2>1, Dealt
<1>4. x \notin BuildDirFiles \cup {"revdir"}
  BY <1>1, <1>2, <1>3
<1>5. x \in Cleaned(r)
  BY <1>4 DEF Cleaned, Usable
<1> QED BY <1>1, <1>3, <1>5, InFound DEF GateInv, Empty

\* What is uploaded was found by a build that goes on, so it has tested.
LEMMA ShipLogged ==
  ASSUME Inv, SlateInv, GateInv, NEW r \in Request, AtStep(r), Runs(r), NEW st,
         st = StepOf(r), Ready(r, st), st.effect # "none", NEW product \in Leftover(r, st),
         product # {} \/ product \in Products(r, st),
         Record(r, st, product), job' = job
  PROVE  ShipsTested'
<1>1. SUFFICES ASSUME st.effect = "ship", job[r] \in TestsFirst, "cleaning" \notin failed[r]
               PROVE  Tested(r) /\ product \subseteq {r}
  BY DEF Record, GateInv, ShipsTested, Tested
<1>2. InMachines(job[r]) /\ st.makes = "copy" /\ ~st.always
  BY <1>1, GateHere DEF Inv
<1>3. Clean(r) /\ pc[r] # 1 /\ ~stopped[r] /\ Enabled(st, branch[r], host[r])
  BY <1>1, <1>2, FirstStep DEF Clean, Running, AtStep, Inv, Runs
<1>4. product \subseteq {r} /\ product # {}
  BY <1>3, CleanProduct, SomeProduct DEF Inv
<1>5. Read(r, st) # {} /\ st.reads \subseteq Usable
  <2>1. Read(r, st) # {}
    BY <1>2, <1>4 DEF Leftover, Products
  <2> QED BY <1>2, <2>1, SecludedHere DEF Inv
<1>6. PICK y \in Usable : Found(r, y) # {}
  BY <1>5 DEF Read
<1>7. Tested(r)
  BY <1>1, <1>3, <1>6 DEF GateInv, Empty, Untested, Cleaned
<1> QED BY <1>4, <1>7

-----------------------------------------------------------------------------
(* The invariant is inductive.                                             *)

\* At the start nothing is there.
LEMMA GateInit == Init => GateInv
BY DEF Init, GateInv, Empty, ShipsTested, Untested, Clean, Running

\* Without new files, a build that does not move has nothing, as before.
LEMMA GateFewer ==
  ASSUME GateInv, files' \subseteq files, UNCHANGED << job, revision >>,
         NEW q \in Request, Untested(q),
         branch'[q] = branch[q], host'[q] = host[q], NEW x \in Cleaned(q)
  PROVE  Found(q, x)' = {}
<1>1. Found(q, x)' \subseteq Found(q, x)
  BY DEF Found, Origins, At
<1> QED BY <1>1 DEF GateInv, Empty

\* StartBuild: only the properties matter before the cleaning.
LEMMA StartBuildGate ==
  ASSUME Inv, GateInv, NEW r \in Request, NEW s \in Slave, StartBuild(r, s)
  PROVE  GateInv'
<1> USE DEF StartBuild
<1>1. ShipsTested'
  BY DEF GateInv, ShipsTested
<1>2. ASSUME NEW q \in Request, Untested(q)', NEW x \in Cleaned(q)'
      PROVE  Found(q, x)' = {}
  <2>1. CASE q # r
    <3>1. /\ Untested(q) /\ x \in Cleaned(q) /\ files' \subseteq files
          /\ branch'[q] = branch[q] /\ host'[q] = host[q]
      BY <1>2, <2>1 DEF Untested, Tested, Clean, Cleaned, Running, Inv, TypeOK
    <3> QED BY <1>2, <3>1, GateFewer
  <2>2. CASE q = r
    <3>1. pc'[r] = 1 /\ host'[r] = s /\ job[r] \in TestsFirst
      BY <1>2, <2>2 DEF Untested, Inv, TypeOK
    <3>2. SUFFICES ASSUME NEW f \in files', f.at = At(r, x)' PROVE FALSE
      BY <2>2 DEF Found, Origins
    <3>3. x \in Properties
      BY <1>2, <2>2, <3>1 DEF Cleaned
    <3>4. x \notin HostFiles /\ x \notin RevisionFiles /\ x \notin BranchFiles
      BY <3>3 DEF Properties, RevisionFiles, HostFiles, BranchFiles
    <3>5. At(r, x)' = << s, job[r], "any", 0, x >>
      BY <3>1, <3>4 DEF At
    <3> QED BY <3>2, <3>3, <3>5
  <2> QED BY <2>1, <2>2
<1> QED BY <1>1, <1>2 DEF GateInv, Empty

\* Nothing but the position, or the end, of a build changes.
LEMMA GoOnGate ==
  ASSUME Inv, SlateInv, GateInv, NEW r \in Request, Skip(r) \/ UploadNothing(r) \/ Finish(r)
  PROVE  GateInv'
<1>1. UNCHANGED << job, branch, revision, host, failed, stopped, files, log >>
  BY DEF Skip, UploadNothing, Finish
<1>2. \A q \in Request : Untested(q)' => Untested(q)
  BY <1>1 DEF Skip, UploadNothing, Finish, Untested, Tested, Clean, Running, Inv, TypeOK
<1>3. ShipsTested'
  BY <1>1 DEF GateInv, ShipsTested
<1>4. ASSUME NEW q \in Request, Untested(q)', NEW x \in Cleaned(q)'
      PROVE  Found(q, x)' = {}
  <2>1. CASE pc'[q] = pc[q]
    BY <1>1, <1>2, <1>4, <2>1, GateFewer DEF Cleaned
  <2>2. CASE pc'[q] # pc[q]
    <3>1. q = r /\ pc'[r] # 1 /\ AtStep(r) /\ Untested(r)
          /\ (Skip(r) \/ UploadNothing(r))
      BY <1>2, <1>4, <2>2 DEF Skip, UploadNothing, Finish, Advance, Untested, Clean, Running, Inv, TypeOK
    <3>2. pc[r] # 1
      BY <3>1, FirstStep DEF Skip, UploadNothing, Runs, Untested, Clean, Inv
    <3> QED BY <1>1, <1>2, <1>4, <3>1, <3>2, GateFewer DEF Cleaned
  <2> QED BY <2>1, <2>2
<1> QED BY <1>3, <1>4 DEF GateInv, Empty

\* What is common to the steps that deal with files: of the build that takes the step
\* only what it finds itself is left to show.
LEMMA DealGate ==
  ASSUME Inv, SlateInv, GateInv, NEW r \in Request, AtStep(r), NEW st, st = StepOf(r),
         NEW done, NEW product, Deal(r, st, done, product),
         UNCHANGED << job, branch, revision, host >>, log \subseteq log',
         \A q \in Request : Untested(q)' => Untested(q),
         \A q \in Request : q # r => pc'[q] = pc[q],
         \A x \in Usable : Untested(r)' => Found(r, x)' = {}
  PROVE  Empty'
<1>2. ASSUME NEW q \in Request, Untested(q)', NEW x \in Cleaned(q)'
      PROVE  Found(q, x)' = {}
  <2>1. x \in Usable /\ x \notin HostFiles
    BY DEF Cleaned, Usable, BuildDirFiles, Properties, HostFiles
  <2>2. CASE q # r
    <3>1. x \in Cleaned(q) /\ Untested(q) /\ Running(q)
      BY <1>2, <2>2 DEF Cleaned, Untested, Clean
    <3>2. Found(q, x)' \subseteq Found(q, x)
      BY <2>1, <2>2, <3>1, OthersUntouched
    <3> QED BY <3>1, <3>2 DEF GateInv, Empty
  <2>3. CASE q = r
    BY <1>2, <2>1, <2>3
  <2> QED BY <2>2, <2>3
<1> QED BY <1>2 DEF Empty

\* Succeed: what makes something new also tests it.
LEMMA SucceedGate ==
  ASSUME Inv, SlateInv, GateInv, NEW r \in Request, Succeed(r)
  PROVE  GateInv'
<1>1. PICK st : st = StepOf(r)
  OBVIOUS
<1>2. PICK product \in Products(r, st) :
        /\ Deal(r, st, Outputs(st), product)
        /\ IF st.effect = "none" THEN UNCHANGED log ELSE Record(r, st, product)
  BY <1>1 DEF Succeed
<1>3. /\ AtStep(r) /\ Runs(r) /\ Ready(r, st)
      /\ UNCHANGED << job, branch, revision, status, host, failed, stopped >>
      /\ pc' = [pc EXCEPT ![r] = @ + 1]
      /\ product \in Leftover(r, st) /\ log \subseteq log'
  BY <1>1, <1>2 DEF Succeed, Advance, Leftover, Record
<1>4. \A q \in Request : Untested(q)' => Untested(q)
  BY <1>3, TestedKept DEF Untested, Clean, Running
<1>5. ASSUME Untested(r)', NEW x \in Usable PROVE Found(r, x)' = {}
  <2>1. Untested(r)
    BY <1>4, <1>5
  <2>2. CASE pc[r] = 1
    BY <1>1, <1>2, <1>3, <2>1, <2>2, CleaningEmpties
  <2>3. CASE pc[r] # 1
    <3>1. SUFFICES ASSUME Found(r, x)' # {} PROVE FALSE
      OBVIOUS
    <3>2. st.makes # "copy" /\ st.writes \cup st.adds \cup st.fills # {}
      BY <1>1, <1>2, <1>3, <2>1, <2>3, <3>1, OnlyMade
    <3>3. st.effect = "test" /\ product = {r}
      BY <1>1, <1>2, <1>3, <2>1, <3>2, GateHere DEF Untested, Products, Inv
    <3>4. \E t \in log' : t.what = "test" /\ t.by = r /\ t.from = {r}
      <4> DEFINE new == [what |-> st.effect, by |-> r, from |-> product,
                         after |-> failed[r], spotless |-> spotless[r],
                         kin |-> \A q \in Kin(r) : spotless[q]]
      <4>1. new \in log'
        BY <1>2, <3>3 DEF Record
      <4>2. new.what = "test" /\ new.by = r /\ new.from = {r}
        BY <3>3
      <4> QED BY <4>1, <4>2
    <3>5. Tested(r)'
      BY <3>4 DEF Tested
    <3> QED BY <1>5, <3>5 DEF Untested
  <2> QED BY <2>2, <2>3
<1>6. Empty'
  BY <1>1, <1>2, <1>3, <1>4, <1>5, DealGate DEF Inv, TypeOK
<1>7. ShipsTested'
  <2>1. CASE st.effect = "none"
    BY <1>2, <1>3, <2>1 DEF GateInv, ShipsTested
  <2>2. CASE st.effect # "none"
    BY <1>1, <1>2, <1>3, <2>2, ShipLogged
  <2> QED BY <2>1, <2>2
<1> QED BY <1>6, <1>7 DEF GateInv

\* A command that is cut short: what makes something new is to halt the build.
LEMMA CutShortGate ==
  ASSUME Inv, SlateInv, GateInv, NEW r \in Request, AtStep(r), Runs(r), CutShort(r),
         UNCHANGED << job, branch, revision, host >>,
         \A q \in Request : Clean(q)' => Clean(q),
         \A q \in Request : stopped[q] => stopped'[q] \/ ~Clean(q)',
         \A q \in Request : q # r => pc'[q] = pc[q],
         Clean(r)' => pc[r] # 1,
         Clean(r)' /\ StepOf(r).halt /\ ~StepOf(r).quiet => stopped'[r]
  PROVE  GateInv'
<1>1. PICK st : st = StepOf(r)
  OBVIOUS
<1>2. /\ Ready(r, st)
      /\ \E product \in Leftover(r, st), done \in SUBSET Outputs(st) :
           /\ Deal(r, st, done, product)
           /\ \/ st.effect = "ship" /\ product # {} /\ Record(r, st, product)
              \/ UNCHANGED log
  BY <1>1 DEF CutShort, Leftover
<1>3. PICK product \in Leftover(r, st), done \in SUBSET Outputs(st) :
           /\ Deal(r, st, done, product)
           /\ \/ st.effect = "ship" /\ product # {} /\ Record(r, st, product)
              \/ UNCHANGED log
  BY <1>2
<1>4. log \subseteq log'
  BY <1>3 DEF Record
<1>5. \A q \in Request : Untested(q)' => Untested(q)
  BY <1>4, TestedKept DEF Untested
<1>6. ASSUME Untested(r)', NEW x \in Usable PROVE Found(r, x)' = {}
  <2>1. Untested(r) /\ pc[r] # 1
    BY <1>5, <1>6 DEF Untested
  <2>2. SUFFICES ASSUME Found(r, x)' # {} PROVE FALSE
    OBVIOUS
  <2>3. st.makes # "copy" /\ st.writes \cup st.adds \cup st.fills # {}
    BY <1>1, <1>3, <2>1, <2>2, OnlyMade
  <2>4. st.halt /\ ~st.quiet
    BY <1>1, <2>1, <2>3, GateHere DEF Untested, Inv
  <2> QED BY <1>1, <1>6, <2>4 DEF Untested
<1>7. Empty'
  BY <1>1, <1>3, <1>4, <1>5, <1>6, DealGate
<1>8. ShipsTested'
  <2>1. CASE UNCHANGED log
    BY <2>1 DEF GateInv, ShipsTested
  <2>2. CASE st.effect = "ship" /\ product # {} /\ Record(r, st, product)
    BY <1>1, <1>2, <1>3, <2>2, ShipLogged
  <2> QED BY <1>3, <2>1, <2>2
<1> QED BY <1>7, <1>8 DEF GateInv

\* Miss: nothing new is there, and nothing is recorded.
LEMMA MissGate ==
  ASSUME Inv, SlateInv, GateInv, NEW r \in Request, Miss(r)
  PROVE  GateInv'
<1> DEFINE seen == ~StepOf(r).quiet
           halts == StepOf(r).halt /\ ~StepOf(r).quiet
<1>1. AtStep(r) /\ Failing(r, seen, halts) /\ files' \subseteq files /\ UNCHANGED log
  BY MissRemoves DEF Miss
<1>2. seen \in BOOLEAN /\ halts \in BOOLEAN
  BY <1>1, StepIsStep DEF Step, Inv
<1>3. /\ UNCHANGED << job, branch, revision, status, host >>
      /\ \A q \in Request : Clean(q)' => Clean(q)
      /\ \A q \in Request : q # r => pc'[q] = pc[q]
      /\ Clean(r)' => pc[r] # 1 /\ pc'[r] # 1
  BY <1>1, <1>2, FailingClean
<1>4. \A q \in Request : stopped[q] => stopped'[q]
  BY <1>1 DEF Failing, Inv, TypeOK
<1>5. \A q \in Request : Untested(q)' => Untested(q)
  BY <1>1, <1>3, <1>4 DEF Untested, Tested
<1>6. ShipsTested'
  BY <1>1, <1>3 DEF GateInv, ShipsTested, Failing
<1>7. ASSUME NEW q \in Request, Untested(q)', NEW x \in Cleaned(q)'
      PROVE  Found(q, x)' = {}
  <2>1. x \in Cleaned(q)
    BY <1>3, <1>7 DEF Cleaned, Untested
  <2> QED BY <1>1, <1>3, <1>5, <1>7, <2>1, GateFewer
<1> QED BY <1>6, <1>7 DEF GateInv, Empty

\* Fail: a failed test halts the build.
LEMMA FailGate ==
  ASSUME Inv, SlateInv, GateInv, NEW r \in Request, NEW i \in BOOLEAN, Fail(r, i)
  PROVE  GateInv'
<1> DEFINE seen == i \/ ~StepOf(r).quiet
           halts == i \/ (StepOf(r).halt /\ ~StepOf(r).quiet)
<1>1. AtStep(r) /\ Runs(r) /\ CutShort(r) /\ Failing(r, seen, halts)
  BY DEF Fail
<1>2. seen \in BOOLEAN /\ halts \in BOOLEAN
  BY <1>1, StepIsStep DEF Step, Inv
<1>3. /\ UNCHANGED << job, branch, revision, status, host >>
      /\ \A q \in Request : Clean(q)' => Clean(q)
      /\ \A q \in Request : q # r => pc'[q] = pc[q]
      /\ Clean(r)' => pc[r] # 1
  BY <1>1, <1>2, FailingClean
<1>4. /\ \A q \in Request : stopped[q] => stopped'[q]
      /\ halts => stopped'[r]
  BY <1>1 DEF Failing, Inv, TypeOK
<1> QED BY <1>1, <1>3, <1>4, CutShortGate

\* LoseSlave: the next attempt starts from nothing.
LEMMA LoseSlaveGate ==
  ASSUME Inv, SlateInv, GateInv, NEW r \in Request, LoseSlave(r)
  PROVE  GateInv'
<1>1. /\ UNCHANGED << job, branch, revision, host, pc, failed, stopped >>
      /\ status' = [status EXCEPT ![r] = "queued"]
      /\ \/ AtStep(r) /\ Runs(r) /\ CutShort(r)
         \/ UNCHANGED << files, log >>
  BY DEF LoseSlave
<1>2. ~Clean(r)' /\ \A q \in Request : Clean(q)' => Clean(q)
  BY <1>1 DEF Clean, Running, Inv, TypeOK
<1>3. CASE AtStep(r) /\ Runs(r) /\ CutShort(r)
  BY <1>1, <1>2, <1>3, CutShortGate
<1>4. CASE UNCHANGED << files, log >>
  <2>1. ShipsTested'
    BY <1>1, <1>4 DEF GateInv, ShipsTested
  <2>2. Empty'
    BY <1>1, <1>2, <1>4, GateFewer DEF Empty, Untested, Tested, Cleaned
  <2> QED BY <2>1, <2>2 DEF GateInv
<1> QED BY <1>1, <1>3, <1>4

\* Every step keeps the invariant.
LEMMA GateNext == Inv /\ SlateInv /\ GateInv /\ [Next]_vars => GateInv'
<1> SUFFICES ASSUME Inv, SlateInv, GateInv, [Next]_vars PROVE GateInv'
  OBVIOUS
<1>1. ASSUME NEW r \in Request, NEW s \in Slave, StartBuild(r, s) PROVE GateInv'
  BY <1>1, StartBuildGate
<1>2. ASSUME NEW r \in Request, TakeStep(r) PROVE GateInv'
  BY <1>2, GoOnGate, SucceedGate, MissGate, FailGate DEF TakeStep
<1>3. ASSUME NEW r \in Request, LoseSlave(r) \/ Finish(r) PROVE GateInv'
  BY <1>3, LoseSlaveGate, GoOnGate
<1>4. CASE UNCHANGED vars
  <2>1. UNCHANGED << job, branch, revision, status, host, pc, failed, stopped, files, log >>
    BY <1>4 DEF vars
  <2>2. ShipsTested'
    BY <2>1 DEF GateInv, ShipsTested
  <2>3. Empty'
    BY <2>1, GateFewer DEF Empty, Untested, Tested, Clean, Cleaned, Running
  <2> QED BY <2>2, <2>3 DEF GateInv
<1> QED BY <1>1, <1>2, <1>3, <1>4 DEF Next

\* A builder whose script ends with the tests uploads only what it has tested before,
\* whatever fails, however often slaves are lost and whatever earlier builds have left,
\* unless it could not clean its build directory.
THEOREM UploadsAreTested == Spec => []ShipsTested
<1>1. GateInv => ShipsTested
  BY DEF GateInv
<1>2. Init /\ [][Next]_vars => []SlateInv
  BY SlateInit, SlateNext, Invariant, PTL DEF Spec
<1> QED BY <1>1, <1>2, GateInit, GateNext, Invariant, PTL DEF Spec
=============================================================================
