------------------------- MODULE CleanSlate_proofs -------------------------
(***************************************************************************)
(* Proofs about BuildSteps: for all factories that satisfy Discipline and  *)
(* Secluded, a builder in virtual machines tests and uploads only what it  *)
(* has made itself, whatever fails after the build directory was cleaned.  *)
(***************************************************************************)
EXTENDS BuildSteps_proofs

\* A build in virtual machines whose directory could be cleaned, or is about to be.
Clean(r) == Running(r) /\ InMachines(job[r]) /\ "cleaning" \notin failed[r]

\* All that it may use, and what is its own of it: before the cleaning, only what
\* outlives no build.
Usable == Properties \cup BuildDirFiles \cup {"revdir"}
Cleaned(r) == IF pc[r] = 1 THEN Properties ELSE Usable
Slate == \A r \in Request : Clean(r) => \A x \in Cleaned(r) : Found(r, x) \subseteq {r}

\* No step of a build is left out before the cleaning.
Fresh == \A r \in Request : Running(r) /\ pc[r] = 1 => ~stopped[r]

SlateInv == Slate /\ Fresh /\ CleanSlateOwn

-----------------------------------------------------------------------------
(* What a builder in virtual machines does in a step.                      *)

\* What Secluded says of the step a build is at.
LEMMA SecludedHere ==
  ASSUME TypeOK, NEW r \in Request, AtStep(r), InMachines(job[r]), NEW st, st = StepOf(r)
  PROVE  /\ st.makes # "clone"
         /\ st.reads \subseteq Usable /\ Outputs(st) \subseteq Usable
<1>1. st \in Step /\ pc[r] \in DOMAIN Factory[job[r]] /\ job[r] \in Builder
  BY StepIsStep
<1>2. /\ st.makes # "clone"
      /\ (st.reads \cup Outputs(st)) \cap (HostFiles \cup RevisionFiles) \subseteq {"revdir"}
  BY <1>1, MachinesSecluded DEF Secluded, StepOf
<1>3. st.reads \subseteq Name /\ Outputs(st) \subseteq Name
  BY <1>1 DEF Step, Outputs
<1> QED BY <1>2, <1>3 DEF Name, Usable

\* The first step is the cleaning.
LEMMA FirstStep ==
  ASSUME TypeOK, NEW r \in Request, AtStep(r), InMachines(job[r]), pc[r] = 1
  PROVE  /\ StepOf(r).name = "cleaning" /\ ~StepOf(r).quiet /\ StepOf(r).effect = "none"
         /\ Enabled(StepOf(r), branch[r], host[r])
         /\ StepOf(r).writes = {} /\ StepOf(r).adds = {} /\ StepOf(r).fills = {}
         /\ StepOf(r).moves = {} /\ StepOf(r).clears = BuildDirFiles \cup {"revdir"}
<1>1. StepOf(r) = CleanBuildDir
  BY DEF InMachines, StepOf
<1>2. branch[r] \in Branch
  BY DEF TypeOK
<1>3. /\ CleanBuildDir.name = "cleaning" /\ CleanBuildDir.quiet = FALSE
      /\ CleanBuildDir.effect = "none"
      /\ CleanBuildDir.when = Branch /\ CleanBuildDir.off = {}
      /\ CleanBuildDir.writes = {} /\ CleanBuildDir.adds = {} /\ CleanBuildDir.fills = {}
      /\ CleanBuildDir.moves = {} /\ CleanBuildDir.clears = BuildDirFiles \cup {"revdir"}
  BY DEF CleanBuildDir, Do, Plain
<1> QED BY <1>1, <1>2, <1>3 DEF Enabled

\* After the cleaning a step makes its products of what is the build's own.
LEMMA CleanProduct ==
  ASSUME TypeOK, SlateInv, NEW r \in Request, AtStep(r), Clean(r), pc[r] # 1,
         NEW st, st = StepOf(r), NEW product \in Leftover(r, st)
  PROVE  product \subseteq {r}
<1>1. st.makes # "clone" /\ st.reads \subseteq Usable
  BY SecludedHere DEF Clean
<1>2. \A x \in st.reads : Found(r, x) \subseteq {r}
  BY <1>1 DEF SlateInv, Slate, Cleaned
<1>3. Read(r, st) \subseteq {r}
  BY <1>2 DEF Read
<1> QED BY <1>1, <1>3 DEF Leftover, Products

\* What is uploaded or tested is not nothing.
LEMMA SomeProduct ==
  ASSUME Inv, NEW r \in Request, AtStep(r), NEW st, st = StepOf(r),
         Enabled(st, branch[r], host[r]), Ready(r, st), st.effect # "none",
         NEW product \in Products(r, st)
  PROVE  product # {}
<1>1. st.effect \in {"ship", "test"}
  BY StepIsStep DEF Step, Inv
<1>2. PICK own : Disciplined(st, own)
  BY DisciplineHere DEF Inv
<1>3. PICK these : MadeOf(st, these)
  BY <1>1, <1>2 DEF Disciplined
<1>4. CASE st.makes = "own"
  BY <1>4 DEF Products
<1>5. CASE st.makes = "copy" /\ st.reads # {}
  <2>1. ~st.pick => Read(r, st) # {}
    BY <1>5 DEF Ready, Read
  <2> QED BY <1>5, <2>1 DEF Products
<1> QED BY <1>3, <1>4, <1>5 DEF MadeOf

-----------------------------------------------------------------------------
(* The parts of the invariant under a step that deals with files.          *)

\* The log: what is recorded by a clean build.
LEMMA CleanLog ==
  ASSUME Inv, SlateInv, NEW r \in Request, AtStep(r), NEW st, st = StepOf(r),
         Enabled(st, branch[r], host[r]), Ready(r, st), st.effect # "none",
         NEW product \in Leftover(r, st), product # {} \/ product \in Products(r, st),
         Record(r, st, product), job' = job
  PROVE  CleanSlateOwn'
<1>1. SUFFICES ASSUME InMachines(job[r]), "cleaning" \notin failed[r] PROVE product = {r}
  BY DEF Record, SlateInv, CleanSlateOwn
<1>2. Clean(r) /\ pc[r] # 1
  BY <1>1, FirstStep DEF Clean, Running, AtStep, Inv
<1>3. product \subseteq {r}
  BY <1>2, CleanProduct DEF Inv
<1>4. product # {}
  BY SomeProduct
<1> QED BY <1>3, <1>4

\* A step leaves what another build finds outside the directories of the host as it is.
LEMMA OthersUntouched ==
  ASSUME Inv, NEW r \in Request, AtStep(r), NEW st, NEW done, NEW product,
         Deal(r, st, done, product), UNCHANGED << job, branch, revision, host >>,
         NEW q \in Request, q # r, Running(q), NEW x, x \notin HostFiles
  PROVE  Found(q, x)' \subseteq Found(q, x)
<1>1. SUFFICES ASSUME NEW f \in files', f.at = At(q, x) PROVE f \in files
  BY DEF Found, Origins, At
<1>2. \A y \in done : f.at # At(r, y)
  <2> SUFFICES ASSUME NEW y \in done, At(q, x) = At(r, y) PROVE FALSE
    BY <1>1
  <2>1. host[q] = host[r] /\ job[q] = job[r]
    BY PlacesApart
  <2> QED BY <2>1 DEF Inv, Exclusive, Running, AtStep
<1> QED BY <1>2, Dealt

\* So another build in virtual machines finds its own.
LEMMA OthersClean ==
  ASSUME Inv, SlateInv, NEW r \in Request, AtStep(r), NEW st, NEW done, NEW product,
         Deal(r, st, done, product), UNCHANGED << job, branch, revision, host >>,
         NEW q \in Request, q # r, Clean(q), NEW x \in Cleaned(q)
  PROVE  Found(q, x)' \subseteq {q}
<1>1. x \notin HostFiles
  BY DEF Cleaned, Usable, BuildDirFiles, Properties, HostFiles
<1>2. Found(q, x)' \subseteq Found(q, x)
  BY <1>1, OthersUntouched DEF Clean
<1> QED BY <1>2 DEF SlateInv, Slate

\* The build's own files, after the cleaning or by it.
LEMMA SelfClean ==
  ASSUME Inv, SlateInv, NEW r \in Request, AtStep(r), Clean(r), NEW st, st = StepOf(r),
         NEW done \in SUBSET Outputs(st), NEW product \in Leftover(r, st),
         pc[r] = 1 => done = Outputs(st),
         Deal(r, st, done, product), UNCHANGED << job, branch, revision, host >>,
         NEW x \in Usable
  PROVE  Found(r, x)' \subseteq {r}
<1>1. SUFFICES ASSUME NEW f \in files', f.at = At(r, x) PROVE f.of = r
  BY DEF Found, Origins, At
<1>2. CASE f \in files /\ \A y \in done : f.at # At(r, y)
  <2>1. x \in Cleaned(r)
    <3>1. CASE pc[r] # 1
      BY <3>1 DEF Cleaned
    <3>2. CASE pc[r] = 1
      <4>1. BuildDirFiles \cup {"revdir"} \subseteq done
        BY <3>2, FirstStep DEF Outputs, Inv, Clean
      <4>2. x \notin done
        BY <1>1, <1>2
      <4> QED BY <3>2, <4>1, <4>2 DEF Cleaned, Usable
    <3> QED BY <3>1, <3>2
  <2> QED BY <1>1, <1>2, <2>1, InFound DEF SlateInv, Slate
<1>3. CASE \E y \in done : f.at = At(r, y) /\ f.of \in After(r, st, y, product)
  <2>1. x \in done /\ f.of \in After(r, st, x, product)
    BY <1>1, <1>3, PlacesApart
  <2>2. CASE pc[r] # 1
    <3>1. product \subseteq {r}
      BY <2>2, CleanProduct DEF Inv
    <3>2. Found(r, x) \subseteq {r}
      BY <2>2 DEF SlateInv, Slate, Cleaned
    <3> QED BY <2>1, <3>1, <3>2 DEF After
  <2>3. CASE pc[r] = 1
    BY <2>1, <2>3, FirstStep DEF After, Inv, Clean
  <2> QED BY <2>2, <2>3
<1> QED BY <1>1, <1>2, <1>3, Dealt

-----------------------------------------------------------------------------
(* The invariant is inductive.                                             *)

\* At the start nothing is there.
LEMMA SlateInit == Init => SlateInv
BY DEF Init, SlateInv, Slate, Fresh, CleanSlateOwn, Clean, Running

\* Without new files, a build that does not move keeps what it has.
LEMMA CleanUnchanged ==
  ASSUME SlateInv, NEW q \in Request, Clean(q), files' \subseteq files,
         job'[q] = job[q], branch'[q] = branch[q], revision'[q] = revision[q],
         host'[q] = host[q], pc'[q] = pc[q],
         NEW x \in Cleaned(q)
  PROVE  Found(q, x)' \subseteq {q}
<1>1. Found(q, x)' \subseteq Found(q, x)
  BY DEF Found, Origins, At
<1> QED BY <1>1 DEF SlateInv, Slate

\* StartBuild: of what a build finds before the cleaning, only properties are used.
LEMMA StartBuildClean ==
  ASSUME Inv, SlateInv, NEW r \in Request, NEW s \in Slave, StartBuild(r, s)
  PROVE  SlateInv'
<1> USE DEF StartBuild
<1>1. CleanSlateOwn'
  BY DEF SlateInv, CleanSlateOwn
<1>2. Fresh'
  BY DEF SlateInv, Fresh, Running, Inv, TypeOK
<1>3. ASSUME NEW q \in Request, Clean(q)', NEW x \in Cleaned(q)'
      PROVE  Found(q, x)' \subseteq {q}
  <2>1. CASE q # r
    <3>1. /\ Clean(q) /\ x \in Cleaned(q) /\ files' \subseteq files
          /\ job'[q] = job[q] /\ branch'[q] = branch[q] /\ revision'[q] = revision[q]
          /\ host'[q] = host[q] /\ pc'[q] = pc[q]
      BY <1>3, <2>1 DEF Clean, Cleaned, Running, Inv, TypeOK
    <3> QED BY <3>1, CleanUnchanged
  <2>2. CASE q = r
    <3>1. pc'[r] = 1 /\ host'[r] = s /\ job' = job /\ InMachines(job[r])
      BY <1>3, <2>2 DEF Clean, Inv, TypeOK
    <3>2. SUFFICES ASSUME NEW f \in files', f.at = At(r, x)' PROVE f.of = r
      BY <2>2 DEF Found, Origins
    <3>3. x \in Properties
      BY <1>3, <2>2, <3>1 DEF Cleaned
    <3>4. x \notin HostFiles /\ x \notin RevisionFiles /\ x \notin BranchFiles
      BY <3>3 DEF Properties, RevisionFiles, HostFiles, BranchFiles
    <3>5. At(r, x)' = << s, job[r], "any", 0, x >>
      BY <3>1, <3>4 DEF At
    <3> QED BY <3>2, <3>3, <3>5
  <2> QED BY <2>1, <2>2
<1> QED BY <1>1, <1>2, <1>3 DEF SlateInv, Slate

\* Nothing but the position, or the end, of a build changes.
LEMMA GoOnClean ==
  ASSUME Inv, SlateInv, NEW r \in Request, Skip(r) \/ UploadNothing(r) \/ Finish(r)
  PROVE  SlateInv'
<1>1. UNCHANGED << job, branch, revision, host, failed, stopped, files, log >>
  BY DEF Skip, UploadNothing, Finish
<1>2. /\ \A q \in Request : Running(q)' => Running(q)
      /\ \A q \in Request : Clean(q)' => Clean(q)
  BY <1>1 DEF Skip, UploadNothing, Finish, Clean, Running, Inv, TypeOK
<1>3. ASSUME NEW q \in Request, Running(q), pc'[q] # pc[q]
      PROVE  q = r /\ pc'[r] # 1 /\ AtStep(r) /\ (Skip(r) \/ UploadNothing(r))
  BY <1>3 DEF Skip, UploadNothing, Finish, Advance, Inv, TypeOK
<1>4. CleanSlateOwn'
  BY <1>1 DEF SlateInv, CleanSlateOwn
<1>5. Fresh'
  BY <1>1, <1>2, <1>3 DEF SlateInv, Fresh
<1>6. ASSUME NEW q \in Request, Clean(q)', NEW x \in Cleaned(q)'
      PROVE  Found(q, x)' \subseteq {q}
  <2>1. CASE pc'[q] = pc[q]
    BY <1>1, <1>2, <1>6, <2>1, CleanUnchanged DEF Cleaned
  <2>2. CASE pc'[q] # pc[q]
    <3>1. q = r /\ pc'[r] # 1 /\ AtStep(r) /\ (Skip(r) \/ UploadNothing(r)) /\ Clean(r)
      BY <1>2, <1>3, <1>6, <2>2 DEF Clean
    <3>2. pc[r] # 1
      BY <3>1, FirstStep DEF Skip, UploadNothing, Runs, Clean, SlateInv, Fresh, Inv
    <3>3. x \in Cleaned(r)
      BY <1>6, <3>1, <3>2 DEF Cleaned
    <3>4. Found(r, x)' = Found(r, x)
      BY <1>1 DEF Found, Origins, At
    <3> QED BY <3>1, <3>3, <3>4 DEF SlateInv, Slate
  <2> QED BY <2>1, <2>2
<1> QED BY <1>4, <1>5, <1>6 DEF SlateInv, Slate

\* What is common to the steps that deal with files.
LEMMA DealClean ==
  ASSUME Inv, SlateInv, NEW r \in Request, AtStep(r), NEW st, st = StepOf(r),
         NEW done \in SUBSET Outputs(st), NEW product \in Leftover(r, st),
         pc[r] = 1 => done = Outputs(st) \/ ~Clean(r)',
         Deal(r, st, done, product), UNCHANGED << job, branch, revision, host >>,
         \A q \in Request : Clean(q)' => Clean(q),
         \A q \in Request : q # r => pc'[q] = pc[q],
         Clean(r)' => pc'[r] # 1 \/ pc'[r] = pc[r]
  PROVE  Slate'
<1>2. ASSUME NEW q \in Request, q # r, Clean(q)', NEW x \in Cleaned(q)'
      PROVE  Found(q, x)' \subseteq {q}
  <2>1. Clean(q) /\ pc'[q] = pc[q] /\ x \in Cleaned(q)
    BY <1>2 DEF Cleaned
  <2> QED BY <1>2, <2>1, OthersClean
<1>3. ASSUME Clean(r)', NEW x \in Cleaned(r)'
      PROVE  Found(r, x)' \subseteq {r}
  <2>1. x \in Usable
    BY <1>3 DEF Cleaned, Usable
  <2> QED BY <1>3, <2>1, SelfClean
<1> QED BY <1>2, <1>3 DEF Slate

\* Succeed: the cleaning leaves nothing, later steps only what is made of their own.
LEMMA SucceedClean ==
  ASSUME Inv, SlateInv, NEW r \in Request, Succeed(r)
  PROVE  SlateInv'
<1>1. PICK st : st = StepOf(r)
  OBVIOUS
<1>2. PICK product \in Products(r, st) :
        /\ Deal(r, st, Outputs(st), product)
        /\ IF st.effect = "none" THEN UNCHANGED log ELSE Record(r, st, product)
  BY <1>1 DEF Succeed
<1>3. /\ AtStep(r) /\ Enabled(st, branch[r], host[r]) /\ Ready(r, st)
      /\ UNCHANGED << job, branch, revision, status, host, failed, stopped, spotless, faults >>
      /\ pc' = [pc EXCEPT ![r] = @ + 1]
      /\ product \in Leftover(r, st)
  BY <1>1, <1>2 DEF Succeed, Runs, Advance, Leftover
<1>4. pc'[r] # 1 /\ \A q \in Request : q # r => pc'[q] = pc[q]
  BY <1>3 DEF Inv, TypeOK
<1>5. \A q \in Request : Clean(q)' = Clean(q)
  BY <1>3 DEF Clean, Running
<1>6. Slate'
  BY <1>1, <1>2, <1>3, <1>4, <1>5, DealClean
<1>7. CleanSlateOwn'
  <2>1. CASE st.effect = "none"
    BY <1>2, <1>3, <2>1 DEF SlateInv, CleanSlateOwn
  <2>2. CASE st.effect # "none"
    BY <1>1, <1>2, <1>3, <2>2, CleanLog
  <2> QED BY <2>1, <2>2
<1>8. Fresh'
  BY <1>3, <1>4 DEF SlateInv, Fresh, Running
<1> QED BY <1>6, <1>7, <1>8 DEF SlateInv

\* A command that is cut short; the cleaning does not count as done.
LEMMA CutShortClean ==
  ASSUME Inv, SlateInv, NEW r \in Request, AtStep(r), Runs(r), CutShort(r),
         UNCHANGED << job, branch, revision, host >>,
         \A q \in Request : Clean(q)' => Clean(q),
         \A q \in Request : q # r => pc'[q] = pc[q],
         Clean(r)' => pc[r] # 1 /\ pc'[r] # 1
  PROVE  Slate' /\ CleanSlateOwn'
<1>1. PICK st : st = StepOf(r)
  OBVIOUS
<1>2. /\ Enabled(st, branch[r], host[r]) /\ Ready(r, st)
      /\ \E product \in Leftover(r, st), done \in SUBSET Outputs(st) :
           /\ Deal(r, st, done, product)
           /\ \/ st.effect = "ship" /\ product # {} /\ Record(r, st, product)
              \/ UNCHANGED log
  BY <1>1 DEF CutShort, Runs, Leftover
<1>3. PICK product \in Leftover(r, st), done \in SUBSET Outputs(st) :
           /\ Deal(r, st, done, product)
           /\ \/ st.effect = "ship" /\ product # {} /\ Record(r, st, product)
              \/ UNCHANGED log
  BY <1>2
<1>4. Slate'
  BY <1>1, <1>3, DealClean
<1>5. CleanSlateOwn'
  <2>1. CASE UNCHANGED log
    BY <2>1 DEF SlateInv, CleanSlateOwn
  <2>2. CASE st.effect = "ship" /\ product # {} /\ Record(r, st, product)
    BY <1>1, <1>2, <1>3, <2>2, CleanLog
  <2> QED BY <1>3, <2>1, <2>2
<1> QED BY <1>4, <1>5

\* A failure that is seen dirties a build that fails to clean.
LEMMA FailingClean ==
  ASSUME Inv, SlateInv, NEW r \in Request, AtStep(r),
         NEW seen \in BOOLEAN, NEW halts \in BOOLEAN, Failing(r, seen, halts),
         ~StepOf(r).quiet => seen
  PROVE  /\ UNCHANGED << job, branch, revision, status, host >> /\ Fresh'
         /\ \A q \in Request : Clean(q)' => Clean(q)
         /\ \A q \in Request : q # r => pc'[q] = pc[q]
         /\ Clean(r)' => pc[r] # 1 /\ pc'[r] # 1
<1> USE DEF Failing
<1>1. UNCHANGED << job, branch, revision, status, host >>
  OBVIOUS
<1>2. pc'[r] # 1 /\ \A q \in Request : q # r => pc'[q] = pc[q]
  BY DEF Inv, TypeOK
<1>3. /\ \A q \in Request : q # r => failed'[q] = failed[q] /\ stopped'[q] = stopped[q]
      /\ failed'[r] = IF seen THEN failed[r] \cup {StepOf(r).name} ELSE failed[r]
  BY DEF Inv, TypeOK
<1>4. \A q \in Request : Clean(q)' => Clean(q)
  BY <1>1, <1>3 DEF Clean, Running
<1>5. Clean(r)' => pc[r] # 1
  <2>1. SUFFICES ASSUME Clean(r)', pc[r] = 1 PROVE FALSE
    OBVIOUS
  <2>2. InMachines(job[r])
    BY <1>1, <2>1 DEF Clean
  <2>3. seen /\ StepOf(r).name = "cleaning"
    BY <2>1, <2>2, FirstStep DEF Inv
  <2> QED BY <1>3, <2>1, <2>3 DEF Clean
<1>6. Fresh'
  BY <1>1, <1>2, <1>3 DEF SlateInv, Fresh, Running
<1> QED BY <1>1, <1>2, <1>4, <1>5, <1>6

\* Miss and Fail: a failed cleaning is seen; after it, what is left is the build's own.
LEMMA MissFailClean ==
  ASSUME Inv, SlateInv, NEW r \in Request,
         Miss(r) \/ \E interrupt \in BOOLEAN : Fail(r, interrupt)
  PROVE  SlateInv'
<1>1. PICK seen \in BOOLEAN, halts \in BOOLEAN :
        Failing(r, seen, halts) /\ (~StepOf(r).quiet => seen)
  <2>1. AtStep(r)
    BY DEF Miss, Fail
  <2>2. StepOf(r).quiet \in BOOLEAN /\ StepOf(r).halt \in BOOLEAN
    BY <2>1, StepIsStep DEF Step, Inv
  <2> QED BY <2>2 DEF Miss, Fail
<1>2. /\ AtStep(r)
      /\ UNCHANGED << job, branch, revision, status, host >> /\ Fresh'
      /\ \A q \in Request : Clean(q)' => Clean(q)
      /\ \A q \in Request : q # r => pc'[q] = pc[q]
      /\ Clean(r)' => pc[r] # 1 /\ pc'[r] # 1
  <2>1. AtStep(r)
    BY DEF Miss, Fail
  <2> QED BY <1>1, <2>1, FailingClean
<1>3. CASE Miss(r)
  <2>1. files' \subseteq files /\ UNCHANGED log
    BY <1>3, MissRemoves DEF Miss
  <2>2. CleanSlateOwn'
    BY <1>2, <2>1 DEF SlateInv, CleanSlateOwn
  <2>3. ASSUME NEW q \in Request, Clean(q)', NEW x \in Cleaned(q)'
        PROVE  Found(q, x)' \subseteq {q}
    <3>1. Clean(q) /\ x \in Cleaned(q)
      BY <1>2, <2>3 DEF Cleaned
    <3>2. Found(q, x)' \subseteq Found(q, x)
      BY <1>2, <2>1 DEF Found, Origins, At
    <3> QED BY <3>1, <3>2 DEF SlateInv, Slate
  <2> QED BY <1>2, <2>2, <2>3 DEF SlateInv, Slate
<1>4. CASE \E interrupt \in BOOLEAN : Fail(r, interrupt)
  <2>1. Runs(r) /\ CutShort(r)
    BY <1>4 DEF Fail
  <2> QED BY <1>2, <2>1, CutShortClean DEF SlateInv
<1> QED BY <1>3, <1>4

\* LoseSlave: the next attempt cleans again.
LEMMA LoseSlaveClean ==
  ASSUME Inv, SlateInv, NEW r \in Request, LoseSlave(r)
  PROVE  SlateInv'
<1>1. /\ UNCHANGED << job, branch, revision, host, pc, failed, stopped, spotless >>
      /\ status' = [status EXCEPT ![r] = "queued"]
      /\ \/ AtStep(r) /\ Runs(r) /\ CutShort(r)
         \/ UNCHANGED << files, log >>
  BY DEF LoseSlave
<1>2. /\ ~Clean(r)' /\ Fresh'
      /\ \A q \in Request : Clean(q)' => Clean(q)
  BY <1>1 DEF Clean, Running, SlateInv, Fresh, Inv, TypeOK
<1>3. CASE AtStep(r) /\ Runs(r) /\ CutShort(r)
  BY <1>1, <1>2, <1>3, CutShortClean DEF SlateInv
<1>4. CASE UNCHANGED << files, log >>
  <2>1. CleanSlateOwn'
    BY <1>1, <1>4 DEF SlateInv, CleanSlateOwn
  <2>2. Slate'
    BY <1>1, <1>2, <1>4, CleanUnchanged DEF Slate, Cleaned
  <2> QED BY <1>2, <2>1, <2>2 DEF SlateInv
<1> QED BY <1>1, <1>3, <1>4

\* Every step keeps the invariant.
LEMMA SlateNext == Inv /\ SlateInv /\ [Next]_vars => SlateInv'
<1> SUFFICES ASSUME Inv, SlateInv, [Next]_vars PROVE SlateInv'
  OBVIOUS
<1>1. ASSUME NEW r \in Request, NEW s \in Slave, StartBuild(r, s) PROVE SlateInv'
  BY <1>1, StartBuildClean
<1>2. ASSUME NEW r \in Request, TakeStep(r) PROVE SlateInv'
  BY <1>2, GoOnClean, SucceedClean, MissFailClean DEF TakeStep
<1>3. ASSUME NEW r \in Request, LoseSlave(r) \/ Finish(r) PROVE SlateInv'
  BY <1>3, LoseSlaveClean, GoOnClean
<1>4. CASE UNCHANGED vars
  <2>1. UNCHANGED << job, branch, revision, status, host, pc, failed, stopped, files, log >>
    BY <1>4 DEF vars
  <2>2. CleanSlateOwn' /\ Fresh'
    BY <2>1 DEF SlateInv, CleanSlateOwn, Fresh, Running
  <2>3. Slate'
    BY <2>1, CleanUnchanged DEF Slate, Clean, Cleaned, Running
  <2> QED BY <2>2, <2>3 DEF SlateInv
<1> QED BY <1>1, <1>2, <1>3, <1>4 DEF Next

\* A builder in virtual machines tests and uploads only what it has made itself,
\* whatever fails, however often slaves are lost and whatever earlier builds have left,
\* unless it could not clean its build directory.
THEOREM CleanBuildsShipOwn == Spec => []CleanSlateOwn
<1>1. SlateInv => CleanSlateOwn
  BY DEF SlateInv
<1> QED BY <1>1, SlateInit, SlateNext, Invariant, PTL DEF Spec
=============================================================================
