-------------------------- MODULE BuildSteps_proofs --------------------------
(***************************************************************************)
(* Proofs about BuildSteps: for all factories that satisfy Discipline, all *)
(* slaves, branches and revisions, and any number of builds and faults, what  *)
(* a build tests while nothing of it has failed is its own, and what it    *)
(* uploads while no build of its revision has failed is of that revision.  *)
(***************************************************************************)
EXTENDS BuildSteps, TLAPS

Running(r) == status[r] = "running"

\* A slave runs one build of a builder at a time.
Exclusive ==
  \A q, r \in Request :
    q # r /\ Running(q) /\ Running(r) /\ host[q] = host[r] => job[q] # job[r]

\* A build that is halted has had a failure.
HaltedFailed == \A r \in Request : stopped[r] => ~spotless[r]

\* The builds of r's revision by its builder have had no failure.
KinSpotless(r) == \A q \in Kin(r) : spotless[q]

\* In the directories of a revision is only what its own builds have made, as long
\* as none of them has had a failure.
RevisionsOwn ==
  \A r \in Request, f \in files :
    f.at[2] = job[r] /\ f.at[4] = revision[r] /\ KinSpotless(r) => f.of \in Kin(r)

\* What OwnAt promises of the step a running build is at.
OwnHere(r) ==
  \A x \in OwnAt[job[r]][branch[r]][host[r]][pc[r]] : Found(r, x) \subseteq {r}
WorkOwn == \A r \in Request : AtStep(r) /\ spotless[r] => OwnHere(r)

\* What has been tested is the build's own, and what has been uploaded its revision's.
LogOwn == OwnTested /\ OwnShipped

Inv == /\ TypeOK /\ Exclusive /\ HaltedFailed
       /\ RevisionsOwn /\ WorkOwn /\ LogOwn

-----------------------------------------------------------------------------
(* The constants.                                                          *)

\* A build at a step has a step of its factory, a branch and a slave of its builder.
LEMMA StepIsStep ==
  ASSUME TypeOK, NEW r \in Request, AtStep(r)
  PROVE  /\ StepOf(r) \in Step
         /\ pc[r] \in DOMAIN Factory[job[r]]
         /\ job[r] \in Builder /\ branch[r] \in Offered[job[r]] /\ host[r] \in Slaves[job[r]]
<1>1. /\ job[r] \in Builder /\ branch[r] \in Offered[job[r]] /\ host[r] \in Slaves[job[r]]
      /\ pc[r] \in Nat \ {0} /\ pc[r] <= Len(Factory[job[r]])
  BY DEF TypeOK, AtStep
<1>2. Factory[job[r]] \in Seq(Step)
  BY <1>1, BuildConstants DEF ConstantsAssumption
<1>3. pc[r] \in 1..Len(Factory[job[r]]) /\ Len(Factory[job[r]]) \in Nat
  BY <1>1, <1>2
<1>4. Factory[job[r]][pc[r]] \in Step /\ pc[r] \in DOMAIN Factory[job[r]]
  BY <1>2, <1>3
<1> QED BY <1>1, <1>4 DEF StepOf

\* What Discipline says of the step a build is at.
LEMMA DisciplineHere ==
  ASSUME TypeOK, NEW r \in Request, AtStep(r), NEW own,
         own = OwnAt[job[r]][branch[r]][host[r]]
  PROVE  /\ pc[r] = 1 => own[pc[r]] \subseteq AtStart
         /\ \A x \in own[pc[r]] : ~Shared(job[r], x)
         /\ Enabled(StepOf(r), branch[r], host[r]) => Disciplined(StepOf(r), own[pc[r]])
         /\ pc[r] < Len(Factory[job[r]]) =>
              own[pc[r] + 1] \subseteq Kept(StepOf(r), branch[r], host[r], own[pc[r]])
BY StepIsStep, FactoriesDisciplined DEF Discipline, StepOf

\* A build is a kin of itself, and its kin have the same kin.
LEMMA KinOfKin ==
  /\ \A r \in Request : r \in Kin(r)
  /\ \A q, r \in Request :
       job[q] = job[r] /\ revision[q] = revision[r] => Kin(q) = Kin(r)
BY DEF Kin

-----------------------------------------------------------------------------
(* Places and files.                                                       *)

\* A place of one build is a place of another only if it is of the host, or if the
\* builds are of the same builder.
LEMMA PlacesApart ==
  ASSUME NEW q \in Request, NEW r \in Request, NEW x, NEW y, At(q, x) = At(r, y)
  PROVE  /\ x = y /\ host[q] = host[r]
         /\ x \notin HostFiles => job[q] = job[r]
BY DEF At

\* A place with the number of a revision is that revision's.
LEMMA RevisionPlace ==
  ASSUME TypeOK, NEW q \in Request, NEW r \in Request, NEW x,
         At(r, x)[2] = job[q], At(r, x)[4] = revision[q]
  PROVE  x \in RevisionFiles /\ Kin(q) = Kin(r)
<1>1. revision[q] # 0
  BY DEF TypeOK
<1>2. x \in RevisionFiles /\ revision[r] = revision[q]
  BY <1>1 DEF At
<1>3. job[r] = job[q]
  BY <1>2 DEF At, RevisionFiles, HostFiles
<1> QED BY <1>2, <1>3, KinOfKin

\* Found in terms of the records of files.
LEMMA InFound ==
  \A r, x, t : t \in Found(r, x) <=> \E f \in files : f.at = At(r, x) /\ f.of = t
BY DEF Found, Origins

\* A file after a step was there before, or is an output of the step.
LEMMA Dealt ==
  ASSUME NEW r, NEW st, NEW done, NEW product, Deal(r, st, done, product),
         NEW f \in files'
  PROVE  \/ f \in files /\ \A x \in done : f.at # At(r, x)
         \/ \E x \in done : f.at = At(r, x) /\ f.of \in After(r, st, x, product)
BY DEF Deal

-----------------------------------------------------------------------------
(* What a step makes.                                                      *)

\* A sound step makes its products of what is the build's own.
LEMMA SoundProducts ==
  ASSUME NEW r \in Request, NEW st, NEW own, NEW product \in Products(r, st),
         \A x \in own : Found(r, x) \subseteq {r},
         Sound(st, own)
  PROVE  product \subseteq {r}
<1>1. CASE st.makes # "copy"
  BY <1>1 DEF Products
<1>2. CASE st.makes = "copy"
  <2>1. st.reads \subseteq own
    BY <1>2 DEF Sound
  <2>2. Read(r, st) \subseteq {r}
    BY <2>1 DEF Read
  <2> QED BY <1>2, <2>2 DEF Products
<1> QED BY <1>1, <1>2

\* What it leaves in an output that Kept calls the build's own.
LEMMA OwnAfter ==
  ASSUME NEW r \in Request, NEW st, NEW own, NEW x, NEW product,
         \A y \in own : Found(r, y) \subseteq {r},
         Sound(st, own) => product \subseteq {r},
         x \in Outputs(st), OwnOutput(st, x, own)
  PROVE  After(r, st, x, product) \subseteq {r}
BY DEF OwnOutput, After, Outputs

\* What is made of some files comes from where these come from, and from somewhere.
LEMMA MadeProduct ==
  ASSUME NEW r \in Request, NEW st, NEW these, NEW from, NEW product \in Products(r, st),
         \A x \in these : Found(r, x) \subseteq from, r \in from,
         MadeOf(st, these), Ready(r, st)
  PROVE  product \subseteq from /\ product # {}
<1>1. CASE st.makes = "own"
  BY <1>1 DEF Products
<1>2. CASE st.makes = "copy" /\ st.reads # {} /\ st.reads \subseteq these
  <2>1. Read(r, st) \subseteq from
    BY <1>2 DEF Read
  <2>2. ~st.pick => Read(r, st) # {}
    <3>1. SUFFICES ASSUME ~st.pick PROVE Read(r, st) # {}
      OBVIOUS
    <3>2. PICK x \in st.reads : Found(r, x) # {}
      BY <1>2, <3>1 DEF Ready
    <3> QED BY <3>2 DEF Read
  <2> QED BY <1>2, <2>1, <2>2 DEF Products
<1> QED BY <1>1, <1>2 DEF MadeOf
-----------------------------------------------------------------------------
(* What the step of one build does to the files of the others, to those of *)
(* its own revision, and to the log.                                       *)

\* All that a step may leave: its products, nothing, or the head of the branch.
Leftover(r, st) ==
  Products(r, st) \cup {{}} \cup (IF st.makes = "clone" THEN {{Head0}} ELSE {})

\* A step of another build does not touch what OwnAt promises.
LEMMA NotTouched ==
  ASSUME Inv, NEW q \in Request, NEW r \in Request, q # r, AtStep(q), AtStep(r),
         NEW x \in OwnAt[job[q]][branch[q]][host[q]][pc[q]],
         NEW y \in Outputs(StepOf(r))
  PROVE  At(q, x) # At(r, y)
<1> SUFFICES ASSUME At(q, x) = At(r, y) PROVE FALSE
  OBVIOUS
<1>1. x = y /\ host[q] = host[r] /\ (x \notin HostFiles => job[q] = job[r])
  BY PlacesApart
<1>2. job[q] # job[r]
  BY <1>1 DEF Inv, Exclusive, Running, AtStep
<1>3. /\ x \in HostFiles
      /\ host[q] \in Slaves[job[q]] \cap Slaves[job[r]]
      /\ job[r] \in Builder \ {job[q]}
      /\ pc[r] \in DOMAIN Factory[job[r]] /\ x \in Outputs(Factory[job[r]][pc[r]])
  BY <1>1, <1>2, StepIsStep DEF Inv, StepOf
<1>4. Shared(job[q], x)
  BY <1>3 DEF Shared
<1>5. ~Shared(job[q], x)
  BY DisciplineHere DEF Inv
<1> QED BY <1>4, <1>5

\* So the other build finds its own files as before.
LEMMA OthersKept ==
  ASSUME Inv, NEW r \in Request, AtStep(r), NEW st, st = StepOf(r),
         NEW done \in SUBSET Outputs(st), NEW product, Deal(r, st, done, product),
         UNCHANGED << job, branch, revision, host >>,
         NEW q \in Request, q # r, AtStep(q), spotless[q], pc'[q] = pc[q]
  PROVE  OwnHere(q)'
<1> DEFINE own == OwnAt[job[q]][branch[q]][host[q]][pc[q]]
<1>1. SUFFICES ASSUME NEW x \in own, NEW f \in files', f.at = At(q, x)
               PROVE  f.of = q
  BY DEF OwnHere, Found, Origins, At
<1>2. \A y \in done : f.at # At(r, y)
  BY <1>1, NotTouched
<1>3. f \in files
  BY <1>2, Dealt
<1>4. Found(q, x) \subseteq {q}
  BY DEF Inv, WorkOwn, OwnHere
<1> QED BY <1>1, <1>3, <1>4, InFound

\* As long as no build of the revision has had a failure, a build finds in its own
\* files, and in the revision's, what these builds have made.
LEMMA KinFound ==
  ASSUME Inv, NEW r \in Request, AtStep(r), KinSpotless(r),
         NEW x \in OwnAt[job[r]][branch[r]][host[r]][pc[r]] \cup RevisionFiles
  PROVE  Found(r, x) \subseteq Kin(r)
<1>1. r \in Kin(r) /\ spotless[r]
  BY KinOfKin DEF KinSpotless
<1>2. CASE x \in OwnAt[job[r]][branch[r]][host[r]][pc[r]]
  <2>1. Found(r, x) \subseteq {r}
    BY <1>1, <1>2 DEF Inv, WorkOwn, OwnHere
  <2> QED BY <1>1, <2>1
<1>3. CASE x \in RevisionFiles
  <2>1. At(r, x)[2] = job[r] /\ At(r, x)[4] = revision[r]
    BY <1>3 DEF At, RevisionFiles, HostFiles
  <2> QED BY <2>1, InFound DEF Inv, RevisionsOwn
<1> QED BY <1>2, <1>3

\* A step leaves only work of its revision in the directories of the revision.
LEMMA RevisionsKept ==
  ASSUME Inv, NEW r \in Request, AtStep(r), NEW st, st = StepOf(r),
         Enabled(st, branch[r], host[r]), Ready(r, st),
         NEW done \in SUBSET Outputs(st), NEW product \in Leftover(r, st),
         Deal(r, st, done, product), UNCHANGED << job, revision >>,
         \A q \in Request : spotless'[q] => spotless[q]
  PROVE  RevisionsOwn'
<1>1. SUFFICES ASSUME NEW q \in Request, NEW f \in files',
                      f.at[2] = job[q], f.at[4] = revision[q], KinSpotless(q)
               PROVE  f.of \in Kin(q)
  BY DEF RevisionsOwn, KinSpotless, Kin
<1>2. CASE f \in files
  BY <1>1, <1>2 DEF Inv, RevisionsOwn
<1>3. CASE f \notin files
  <2>1. PICK y \in done : f.at = At(r, y) /\ f.of \in After(r, st, y, product)
    BY <1>3, Dealt
  <2>2. y \in RevisionFiles /\ Kin(q) = Kin(r) /\ y \in Outputs(st)
    BY <1>1, <2>1, RevisionPlace DEF Inv
  <2>3. KinSpotless(r)
    BY <1>1, <2>2 DEF KinSpotless
  <2> DEFINE own == OwnAt[job[r]][branch[r]][host[r]][pc[r]]
  <2>4. \A x \in own \cup RevisionFiles : Found(r, x) \subseteq Kin(r)
    BY <2>3, KinFound
  <2>5. y \in st.writes \cup st.adds \cup st.fills => product \subseteq Kin(r)
    <3>1. SUFFICES ASSUME y \in st.writes \cup st.adds \cup st.fills
                   PROVE  product \subseteq Kin(r)
      OBVIOUS
    <3>2. MadeOf(st, own \cup RevisionFiles)
      BY <2>2, <3>1, DisciplineHere DEF Inv, Disciplined
    <3>3. product \in Products(r, st) \/ product = {}
      BY <3>2 DEF MadeOf, Leftover
    <3> HIDE DEF own
    <3> QED BY <2>4, <3>2, <3>3, KinOfKin, MadeProduct
  <2>6. After(r, st, y, product) \subseteq Kin(r)
    BY <2>2, <2>4, <2>5 DEF After
  <2> QED BY <2>1, <2>2, <2>6
<1> QED BY <1>2, <1>3

\* What a spotless build tests is its own, and what it uploads is of its revision, if
\* all builds of that are spotless.
LEMMA LogKept ==
  ASSUME Inv, NEW r \in Request, AtStep(r), NEW st, st = StepOf(r),
         Enabled(st, branch[r], host[r]), Ready(r, st),
         NEW product \in Leftover(r, st), product = {} => product \in Products(r, st),
         Record(r, st, product), UNCHANGED << job, revision >>
  PROVE  LogOwn'
<1> DEFINE own == OwnAt[job[r]][branch[r]][host[r]][pc[r]]
           new == [what |-> st.effect, by |-> r, from |-> product,
                   after |-> failed[r], spotless |-> spotless[r],
                   kin |-> KinSpotless(r)]
<1>1. log' = log \cup {new}
  BY DEF Record, KinSpotless
<1>2. \A e \in log : /\ e.what = "test" /\ e.spotless => e.from = {e.by}
                     /\ e.what = "ship" /\ e.kin => e.from \subseteq Kin(e.by)
  BY DEF Inv, LogOwn, OwnTested, OwnShipped
<1>3. Disciplined(st, own)
  BY DisciplineHere DEF Inv
<1>4. ASSUME st.effect = "test", spotless[r]
      PROVE  product = {r}
  <2>1. \A x \in own : Found(r, x) \subseteq {r}
    BY <1>4 DEF Inv, WorkOwn, OwnHere
  <2>2. MadeOf(st, own) /\ product \in Products(r, st)
    BY <1>3, <1>4 DEF Disciplined, MadeOf, Leftover
  <2> HIDE DEF own
  <2>3. product \subseteq {r} /\ product # {}
    BY <2>1, <2>2, MadeProduct
  <2> QED BY <2>3
<1>5. ASSUME st.effect = "ship", KinSpotless(r)
      PROVE  product \subseteq Kin(r)
  <2>1. \A x \in own \cup RevisionFiles : Found(r, x) \subseteq Kin(r)
    BY <1>5, KinFound
  <2>2. MadeOf(st, own \cup RevisionFiles) /\ product \in Products(r, st)
    BY <1>3, <1>5 DEF Disciplined, MadeOf, Leftover
  <2> HIDE DEF own
  <2> QED BY <2>1, <2>2, KinOfKin, MadeProduct
<1>6. OwnTested'
  BY <1>1, <1>2, <1>4 DEF OwnTested
<1>7. OwnShipped'
  <2>1. \A q : Kin(q)' = Kin(q)
    BY DEF Kin
  <2> QED BY <1>1, <1>2, <1>5, <2>1 DEF OwnShipped
<1> QED BY <1>6, <1>7 DEF LogOwn

\* Without a new entry the log is as before.
LEMMA SameLog == LogOwn /\ UNCHANGED << job, revision, log >> => LogOwn'
BY DEF LogOwn, OwnTested, OwnShipped, Kin

\* A step that only removes files and tests and uploads nothing keeps both.
LEMMA RemovalKeeps ==
  ASSUME Inv, UNCHANGED << job, revision, log >>, files' \subseteq files,
         \A q \in Request : spotless'[q] => spotless[q]
  PROVE  RevisionsOwn' /\ LogOwn'
<1>1. \A q : Kin(q)' = Kin(q)
  BY DEF Kin
<1>2. \A q \in Request : KinSpotless(q)' => KinSpotless(q)
  BY <1>1 DEF KinSpotless, Kin
<1>3. RevisionsOwn'
  BY <1>1, <1>2 DEF Inv, RevisionsOwn
<1>4. LogOwn'
  BY <1>1 DEF Inv, LogOwn, OwnTested, OwnShipped
<1> QED BY <1>3, <1>4

\* Whatever a step leaves comes from builds, or from the head of the branch.
LEMMA LeftoverTyped ==
  ASSUME TypeOK, NEW r \in Request, NEW st, NEW product \in Leftover(r, st)
  PROVE  product \subseteq Origin
<1>1. \A x : Found(r, x) \subseteq Origin
  BY InFound DEF TypeOK
<1>2. Read(r, st) \subseteq Origin
  BY <1>1 DEF Read
<1>3. r \in Origin /\ Head0 \in Origin
  BY DEF Origin
<1> QED BY <1>2, <1>3 DEF Leftover, Products

\* So do the contents of files.
LEMMA FilesTyped ==
  ASSUME TypeOK, NEW r \in Request, NEW st, NEW done,
         NEW product \in Leftover(r, st), Deal(r, st, done, product)
  PROVE  \A f \in files' : f.of \in Origin
<1>1. product \subseteq Origin
  BY LeftoverTyped
<1>2. \A x : Found(r, x) \subseteq Origin
  BY InFound DEF TypeOK
<1>3. \A x : After(r, st, x, product) \subseteq Origin
  BY <1>1, <1>2 DEF After
<1> QED BY <1>3, Dealt DEF TypeOK
-----------------------------------------------------------------------------
(* The invariant is inductive.                                             *)

\* At the start nothing is there.
LEMMA InvInit == Init => Inv
<1> SUFFICES ASSUME Init PROVE Inv
  OBVIOUS
<1>1. TypeOK
  <2>1. job \in [Request -> Builder]
    BY BuildConstants DEF Init, ConstantsAssumption
  <2> QED BY <2>1, BuildConstants DEF Init, TypeOK, ConstantsAssumption
<1>2. Exclusive /\ WorkOwn
  BY DEF Init, Exclusive, Running, WorkOwn, AtStep
<1>3. HaltedFailed /\ RevisionsOwn /\ LogOwn
  BY DEF Init, HaltedFailed, RevisionsOwn, LogOwn, OwnTested, OwnShipped
<1> QED BY <1>1, <1>2, <1>3 DEF Inv

\* Without a change of its files, a build that does not move keeps what it has.
LEMMA FilesUnchanged ==
  ASSUME Inv, NEW q \in Request, AtStep(q), spotless[q],
         job'[q] = job[q], branch'[q] = branch[q], revision'[q] = revision[q],
         host'[q] = host[q], pc'[q] = pc[q],
         files' \subseteq files
  PROVE  OwnHere(q)'
<1>1. \A x : Found(q, x)' \subseteq Found(q, x)
  BY DEF Found, Origins, At
<1> QED BY <1>1 DEF Inv, WorkOwn, OwnHere

\* StartBuild: the builder is idle on the slave, and properties are set anew.
LEMMA StartBuildInv ==
  ASSUME Inv, NEW r \in Request, NEW s \in Slave, StartBuild(r, s)
  PROVE  Inv'
<1> USE DEF StartBuild, HasRoom, Busy
<1>1. TypeOK'
  BY DEF Inv, TypeOK
<1>2. Exclusive'
  BY DEF Inv, Exclusive, Running, TypeOK
<1>3. HaltedFailed'
  BY DEF Inv, HaltedFailed, TypeOK
<1>4. RevisionsOwn' /\ LogOwn'
  BY RemovalKeeps
<1>5. WorkOwn'
  <2> SUFFICES ASSUME NEW q \in Request, AtStep(q)', spotless'[q]
               PROVE  OwnHere(q)'
    BY DEF WorkOwn
  <2>1. CASE q # r
    <3>1. /\ AtStep(q) /\ spotless[q] /\ files' \subseteq files
          /\ job'[q] = job[q] /\ branch'[q] = branch[q] /\ revision'[q] = revision[q]
          /\ host'[q] = host[q] /\ pc'[q] = pc[q]
      BY <2>1 DEF AtStep, Inv, TypeOK
    <3> QED BY <3>1, FilesUnchanged
  <2>2. CASE q = r
    <3>1. /\ pc'[r] = 1 /\ host'[r] = s /\ job' = job /\ branch' = branch
          /\ spotless[r] /\ 1 \in DOMAIN Factory[job[r]]
      <4>1. pc'[r] = 1 /\ host'[r] = s /\ job' = job /\ branch' = branch /\ spotless[r]
        BY <2>2 DEF Inv, TypeOK
      <4>2. Factory[job[r]] \in Seq(Step) /\ 1 <= Len(Factory[job[r]])
        BY <2>2, <4>1, BuildConstants DEF AtStep, Inv, TypeOK, ConstantsAssumption
      <4> QED BY <4>1, <4>2
    <3>2. OwnAt[job[r]][branch[r]][s][1] \subseteq AtStart
      BY <3>1, FactoriesDisciplined DEF Discipline, Inv, TypeOK
    <3>3. ASSUME NEW x \in AtStart, NEW f \in files', f.at = At(r, x)'
          PROVE  f.of = r
      <4>1. x \notin HostFiles /\ x \notin RevisionFiles /\ x \notin BranchFiles
        BY DEF AtStart, Properties, RevisionFiles, HostFiles, BranchFiles
      <4>2. At(r, x)' = << s, job[r], "any", 0, x >>
        BY <3>1, <4>1 DEF At
      <4> QED BY <3>3, <4>2 DEF AtStart
    <3>4. \A x \in AtStart : Found(r, x)' \subseteq {r}
      BY <3>3 DEF Found, Origins
    <3> QED BY <2>2, <3>1, <3>2, <3>4 DEF OwnHere
  <2> QED BY <2>1, <2>2
<1> QED BY <1>1, <1>2, <1>3, <1>4, <1>5 DEF Inv

\* Finish: nothing but the status changes.
LEMMA FinishInv ==
  ASSUME Inv, NEW r \in Request, Finish(r)
  PROVE  Inv'
<1> USE DEF Finish
<1>1. TypeOK'
  BY DEF Inv, TypeOK
<1>2. Exclusive' /\ HaltedFailed' /\ RevisionsOwn' /\ LogOwn'
  BY RemovalKeeps DEF Inv, TypeOK, Exclusive, Running, HaltedFailed
<1>3. \A q \in Request : AtStep(q)' => AtStep(q)
  BY DEF AtStep, Inv, TypeOK
<1>4. WorkOwn'
  BY <1>3, FilesUnchanged DEF WorkOwn
<1> QED BY <1>1, <1>2, <1>4 DEF Inv

\* A build that goes on and leaves everything as it is, because the step is not enabled
\* or has no outputs, or because the build has had a failure.
LEMMA GoOnInv ==
  ASSUME Inv, NEW r \in Request, AtStep(r), Advance(r),
         UNCHANGED << job, branch, revision, status, host, failed, stopped, spotless,
                      files, log, faults >>,
         spotless[r] => \/ ~Enabled(StepOf(r), branch[r], host[r])
                        \/ Outputs(StepOf(r)) = {}
  PROVE  Inv'
<1> USE DEF Advance
<1>1. TypeOK'
  BY DEF Inv, TypeOK
<1>2. Exclusive' /\ HaltedFailed' /\ RevisionsOwn' /\ LogOwn'
  BY RemovalKeeps DEF Inv, TypeOK, Exclusive, Running, HaltedFailed
<1>3. ASSUME NEW q \in Request, AtStep(q)', spotless[q]
      PROVE  OwnHere(q)'
  <2>1. CASE q # r
    <3>1. AtStep(q) /\ pc'[q] = pc[q]
      BY <1>3, <2>1 DEF AtStep, Inv, TypeOK
    <3> QED BY <1>3, <3>1, FilesUnchanged
  <2>2. CASE q = r
    <3> DEFINE own == OwnAt[job[r]][branch[r]][host[r]]
    <3>1. pc'[r] = pc[r] + 1 /\ pc[r] < Len(Factory[job[r]])
      <4>1. pc'[r] = pc[r] + 1
        BY DEF Inv, TypeOK
      <4>2. pc[r] + 1 <= Len(Factory[job[r]]) /\ pc[r] \in DOMAIN Factory[job[r]]
        BY <1>3, <2>2, <4>1, StepIsStep DEF AtStep, Inv
      <4>3. pc[r] \in Nat /\ Len(Factory[job[r]]) \in Nat
        BY StepIsStep, BuildConstants DEF Inv, TypeOK, ConstantsAssumption
      <4> QED BY <4>1, <4>2, <4>3
    <3>2. own[pc[r] + 1] \subseteq Kept(StepOf(r), branch[r], host[r], own[pc[r]])
      BY <3>1, DisciplineHere DEF Inv
    <3>3. own[pc[r] + 1] \subseteq own[pc[r]]
      BY <1>3, <2>2, <3>2 DEF Kept
    <3>4. OwnHere(r)
      BY <1>3, <2>2 DEF Inv, WorkOwn
    <3>5. \A x : Found(r, x)' = Found(r, x)
      BY DEF Found, Origins, At
    <3> QED BY <2>2, <3>1, <3>3, <3>4, <3>5 DEF OwnHere
  <2> QED BY <2>1, <2>2
<1>4. WorkOwn'
  BY <1>3 DEF WorkOwn
<1> QED BY <1>1, <1>2, <1>4 DEF Inv

\* Skip: only a step that is not enabled is left out of a spotless build.
LEMMA SkipInv ==
  ASSUME Inv, NEW r \in Request, Skip(r)
  PROVE  Inv'
<1>1. spotless[r] => ~Enabled(StepOf(r), branch[r], host[r])
  BY DEF Skip, Runs, Inv, HaltedFailed
<1> QED BY <1>1, GoOnInv DEF Skip

\* UploadNothing: an upload changes nothing on the slave.
LEMMA UploadNothingInv ==
  ASSUME Inv, NEW r \in Request, UploadNothing(r)
  PROVE  Inv'
<1>1. Outputs(StepOf(r)) = {}
  BY DisciplineHere DEF UploadNothing, Runs, Inv, Disciplined
<1> QED BY <1>1, GoOnInv DEF UploadNothing

\* Succeed: by Discipline the step leaves what OwnAt promises to the next.
LEMMA SucceedInv ==
  ASSUME Inv, NEW r \in Request, Succeed(r)
  PROVE  Inv'
<1>1. PICK st : st = StepOf(r)
  OBVIOUS
<1>2. PICK product \in Products(r, st) :
        /\ Deal(r, st, Outputs(st), product)
        /\ IF st.effect = "none" THEN UNCHANGED log ELSE Record(r, st, product)
  BY <1>1 DEF Succeed
<1>3. /\ AtStep(r) /\ Enabled(st, branch[r], host[r]) /\ Ready(r, st)
      /\ UNCHANGED << job, branch, revision, status, host, failed, stopped, spotless, faults >>
      /\ pc' = [pc EXCEPT ![r] = @ + 1]
      /\ product \in Leftover(r, st)
  BY <1>1, <1>2 DEF Succeed, Runs, Advance, Leftover
<1>4. TypeOK'
  <2>1. \A f \in files' : f.of \in Origin
    BY <1>2, <1>3, FilesTyped DEF Inv
  <2>2. \A e \in log' : e.by \in Request /\ e.from \subseteq Origin
    BY <1>2, <1>3, LeftoverTyped DEF Inv, TypeOK, Record
  <2> QED BY <1>3, <2>1, <2>2 DEF Inv, TypeOK
<1>5. Exclusive' /\ HaltedFailed'
  BY <1>3 DEF Inv, TypeOK, Exclusive, Running, HaltedFailed
<1>6. RevisionsOwn'
  BY <1>1, <1>2, <1>3, RevisionsKept
<1>7. LogOwn'
  BY <1>1, <1>2, <1>3, LogKept, SameLog DEF Inv
<1>8. ASSUME NEW q \in Request, AtStep(q)', spotless[q]
      PROVE  OwnHere(q)'
  <2>1. CASE q # r
    <3>1. AtStep(q) /\ pc'[q] = pc[q]
      BY <1>3, <1>8, <2>1 DEF AtStep, Inv, TypeOK
    <3> QED BY <1>1, <1>2, <1>3, <1>8, <2>1, <3>1, OthersKept
  <2>2. CASE q = r
    <3> DEFINE all == OwnAt[job[r]][branch[r]][host[r]]
               own == all[pc[r]]
    <3>1. pc'[r] = pc[r] + 1 /\ pc[r] < Len(Factory[job[r]])
      <4>1. pc'[r] = pc[r] + 1
        BY <1>3 DEF Inv, TypeOK
      <4>2. pc[r] + 1 <= Len(Factory[job[r]]) /\ pc[r] \in DOMAIN Factory[job[r]]
        BY <1>3, <1>8, <2>2, <4>1, StepIsStep DEF AtStep, Inv
      <4>3. pc[r] \in Nat /\ Len(Factory[job[r]]) \in Nat
        BY <1>3, StepIsStep, BuildConstants DEF Inv, TypeOK, ConstantsAssumption
      <4> QED BY <4>1, <4>2, <4>3
    <3>2. all[pc[r] + 1] \subseteq
            {x \in own \cup Outputs(st) : x \in Outputs(st) => OwnOutput(st, x, own)}
      BY <1>1, <1>3, <3>1, DisciplineHere DEF Kept, Inv
    <3>3. \A x \in own : Found(r, x) \subseteq {r}
      BY <1>3, <1>8, <2>2 DEF Inv, WorkOwn, OwnHere
    <3> HIDE DEF own
    <3>4. Sound(st, own) => product \subseteq {r}
      BY <1>2, <3>3, SoundProducts
    <3>5. ASSUME NEW x \in all[pc[r] + 1], NEW f \in files', f.at = At(r, x)
          PROVE  f.of = r
      <4>1. CASE x \in Outputs(st)
        <5>1. After(r, st, x, product) \subseteq {r}
          BY <3>2, <3>3, <3>4, <3>5, <4>1, OwnAfter
        <5>2. PICK y \in Outputs(st) : f.at = At(r, y) /\ f.of \in After(r, st, y, product)
          BY <1>2, <3>5, <4>1, Dealt
        <5>3. x = y
          BY <3>5, <5>2 DEF At
        <5> QED BY <5>1, <5>2, <5>3
      <4>2. CASE x \notin Outputs(st)
        <5>1. x \in own
          BY <3>2, <3>5, <4>2
        <5>2. \A y \in Outputs(st) : f.at # At(r, y)
          BY <3>5, <4>2, PlacesApart
        <5>3. f \in files
          BY <1>2, <5>2, Dealt
        <5> QED BY <3>3, <3>5, <5>1, <5>3, InFound
      <4> QED BY <4>1, <4>2
    <3>6. \A x \in all[pc[r] + 1] : Found(r, x)' \subseteq {r}
      BY <1>3, <3>5 DEF Found, Origins, At
    <3> QED BY <1>3, <2>2, <3>1, <3>6 DEF OwnHere
  <2> QED BY <2>1, <2>2
<1>9. WorkOwn'
  BY <1>3, <1>8 DEF WorkOwn
<1> QED BY <1>4, <1>5, <1>6, <1>7, <1>9 DEF Inv

\* A step that fails: what is common to the three ways.
LEMMA FailingInv ==
  ASSUME Inv, NEW r \in Request, AtStep(r), NEW seen \in BOOLEAN, NEW halts \in BOOLEAN,
         Failing(r, seen, halts)
  PROVE  /\ job' \in [Request -> Builder] /\ branch' \in [Request -> Branch]
         /\ revision' \in [Request -> Nat \ {0}]
         /\ pc' \in [Request -> Nat \ {0}] /\ failed' \in [Request -> SUBSET STRING]
         /\ stopped' \in [Request -> BOOLEAN] /\ spotless' \in [Request -> BOOLEAN]
         /\ UNCHANGED << job, branch, revision, status, host >>
         /\ ~spotless'[r] /\ HaltedFailed'
         /\ \A q \in Request : spotless'[q] =>
              spotless[q] /\ q # r /\ pc'[q] = pc[q] /\ stopped'[q] = stopped[q]
<1> USE DEF Failing, Inv, TypeOK
<1>1. StepOf(r).name \in STRING
  BY StepIsStep DEF Step
<1>2. pc' \in [Request -> Nat \ {0}] /\ \A q \in Request : q # r => pc'[q] = pc[q]
  BY DEF Failing
<1>3. failed' \in [Request -> SUBSET STRING]
  BY <1>1
<1>4. /\ stopped' \in [Request -> BOOLEAN] /\ spotless' \in [Request -> BOOLEAN]
      /\ ~spotless'[r]
      /\ \A q \in Request : spotless'[q] => spotless[q] /\ q # r /\ stopped'[q] = stopped[q]
  OBVIOUS
<1>5. HaltedFailed'
  BY <1>4 DEF HaltedFailed
<1> QED BY <1>2, <1>3, <1>4, <1>5

\* What a command that is cut short does to files and log.
LEMMA CutShortInv ==
  ASSUME Inv, NEW r \in Request, AtStep(r), Runs(r), CutShort(r),
         UNCHANGED << job, branch, revision, host >>,
         \A q \in Request : spotless'[q] => spotless[q]
  PROVE  /\ \A f \in files' : f.of \in Origin
         /\ \A e \in log' : e.by \in Request /\ e.from \subseteq Origin
         /\ RevisionsOwn' /\ LogOwn'
         /\ \A q \in Request : q # r /\ AtStep(q) /\ spotless[q] /\ pc'[q] = pc[q]
              => OwnHere(q)'
<1>1. PICK st : st = StepOf(r)
  OBVIOUS
<1>2. /\ Enabled(st, branch[r], host[r]) /\ Ready(r, st)
      /\ \E product \in Leftover(r, st), done \in SUBSET Outputs(st) :
           /\ Deal(r, st, done, product)
           /\ \/ product # {} /\ Record(r, st, product)
              \/ UNCHANGED log
  BY <1>1 DEF CutShort, Runs, Leftover
<1>3. PICK product \in Leftover(r, st), done \in SUBSET Outputs(st) :
           /\ Deal(r, st, done, product)
           /\ \/ product # {} /\ Record(r, st, product)
              \/ UNCHANGED log
  BY <1>2
<1>4. \A f \in files' : f.of \in Origin
  BY <1>3, FilesTyped DEF Inv
<1>5. \A e \in log' : e.by \in Request /\ e.from \subseteq Origin
  BY <1>3, LeftoverTyped DEF Inv, TypeOK, Record
<1>6. RevisionsOwn'
  BY <1>1, <1>2, <1>3, RevisionsKept
<1>7. LogOwn'
  BY <1>1, <1>2, <1>3, LogKept, SameLog DEF Inv
<1>8. ASSUME NEW q \in Request, q # r, AtStep(q), spotless[q], pc'[q] = pc[q]
      PROVE  OwnHere(q)'
  BY <1>1, <1>3, <1>8, OthersKept
<1> QED BY <1>4, <1>5, <1>6, <1>7, <1>8

\* A step that misses something only removes files.
LEMMA MissRemoves ==
  ASSUME NEW r \in Request, Miss(r)
  PROVE  files' \subseteq files
<1>1. PICK st : st = StepOf(r)
  OBVIOUS
<1>2. PICK gone \in SUBSET st.writes : Deal(r, st, gone, {})
  BY <1>1 DEF Miss
<1>3. \A x \in gone : After(r, st, x, {}) = {}
  BY <1>2 DEF After
<1> QED BY <1>2, <1>3, Dealt

\* Miss: nothing new is written, and the build is no longer spotless.
LEMMA MissInv ==
  ASSUME Inv, NEW r \in Request, Miss(r)
  PROVE  Inv'
<1> DEFINE seen == ~StepOf(r).quiet
           halts == StepOf(r).halt /\ ~StepOf(r).quiet
<1>1. AtStep(r) /\ Failing(r, seen, halts) /\ files' \subseteq files
      /\ UNCHANGED << log, faults >>
  BY MissRemoves DEF Miss
<1>2. seen \in BOOLEAN /\ halts \in BOOLEAN
  BY <1>1, StepIsStep DEF Step, Inv
<1> HIDE DEF seen, halts
<1>3. /\ job' \in [Request -> Builder] /\ branch' \in [Request -> Branch]
      /\ revision' \in [Request -> Nat \ {0}]
      /\ pc' \in [Request -> Nat \ {0}] /\ failed' \in [Request -> SUBSET STRING]
      /\ stopped' \in [Request -> BOOLEAN] /\ spotless' \in [Request -> BOOLEAN]
      /\ UNCHANGED << job, branch, revision, status, host >> /\ HaltedFailed'
      /\ \A q \in Request : spotless'[q] => spotless[q] /\ q # r /\ pc'[q] = pc[q]
  BY <1>1, <1>2, FailingInv
<1>4. TypeOK'
  BY <1>1, <1>3 DEF Inv, TypeOK
<1>5. Exclusive' /\ RevisionsOwn' /\ LogOwn'
  BY <1>1, <1>3, RemovalKeeps DEF Inv, Exclusive, Running
<1>6. WorkOwn'
  BY <1>1, <1>3, FilesUnchanged DEF WorkOwn, AtStep
<1> QED BY <1>3, <1>4, <1>5, <1>6 DEF Inv

\* Fail: the build is no longer spotless, and the others do not notice.
LEMMA FailInv ==
  ASSUME Inv, NEW r \in Request, NEW interrupt \in BOOLEAN, Fail(r, interrupt)
  PROVE  Inv'
<1> DEFINE seen == interrupt \/ ~StepOf(r).quiet
           halts == interrupt \/ (StepOf(r).halt /\ ~StepOf(r).quiet)
<1>1. /\ AtStep(r) /\ Runs(r) /\ CutShort(r)
      /\ Failing(r, seen, halts) /\ faults' = faults + 1
  BY DEF Fail
<1>2. seen \in BOOLEAN /\ halts \in BOOLEAN
  BY <1>1, StepIsStep DEF Step, Inv
<1> HIDE DEF seen, halts
<1>3. /\ job' \in [Request -> Builder] /\ branch' \in [Request -> Branch]
      /\ revision' \in [Request -> Nat \ {0}]
      /\ pc' \in [Request -> Nat \ {0}] /\ failed' \in [Request -> SUBSET STRING]
      /\ stopped' \in [Request -> BOOLEAN] /\ spotless' \in [Request -> BOOLEAN]
      /\ UNCHANGED << job, branch, revision, status, host >> /\ HaltedFailed'
      /\ \A q \in Request : spotless'[q] => spotless[q] /\ q # r /\ pc'[q] = pc[q]
  BY <1>1, <1>2, FailingInv
<1>4. /\ \A f \in files' : f.of \in Origin
      /\ \A e \in log' : e.by \in Request /\ e.from \subseteq Origin
      /\ RevisionsOwn' /\ LogOwn'
      /\ \A q \in Request : q # r /\ AtStep(q) /\ spotless[q] /\ pc'[q] = pc[q]
              => OwnHere(q)'
  BY <1>1, <1>3, CutShortInv
<1>5. TypeOK'
  BY <1>1, <1>3, <1>4 DEF Inv, TypeOK
<1>6. Exclusive'
  BY <1>3 DEF Inv, Exclusive, Running
<1>7. WorkOwn'
  BY <1>3, <1>4 DEF WorkOwn, AtStep
<1> QED BY <1>3, <1>4, <1>5, <1>6, <1>7 DEF Inv

\* LoseSlave: the build waits again; the others do not notice.
LEMMA LoseSlaveInv ==
  ASSUME Inv, NEW r \in Request, LoseSlave(r)
  PROVE  Inv'
<1>1. /\ UNCHANGED << job, branch, revision, host, pc, failed, stopped, spotless >>
      /\ faults' = faults + 1 /\ status' = [status EXCEPT ![r] = "queued"]
      /\ \/ AtStep(r) /\ Runs(r) /\ CutShort(r)
         \/ UNCHANGED << files, log >>
  BY DEF LoseSlave
<1>2. \A q \in Request : AtStep(q)' => AtStep(q) /\ q # r
  BY <1>1 DEF AtStep, Inv, TypeOK
<1>3. /\ \A f \in files' : f.of \in Origin
      /\ \A e \in log' : e.by \in Request /\ e.from \subseteq Origin
      /\ RevisionsOwn' /\ LogOwn'
      /\ \A q \in Request : q # r /\ AtStep(q) /\ spotless[q] => OwnHere(q)'
  <2>1. CASE AtStep(r) /\ Runs(r) /\ CutShort(r)
    BY <1>1, <2>1, CutShortInv
  <2>2. CASE UNCHANGED << files, log >>
    <3>1. \A q \in Request : AtStep(q) /\ spotless[q] => OwnHere(q)'
      BY <1>1, <2>2, FilesUnchanged
    <3>2. RevisionsOwn' /\ LogOwn'
      BY <1>1, <2>2, RemovalKeeps
    <3> QED BY <2>2, <3>1, <3>2 DEF Inv, TypeOK
  <2> QED BY <1>1, <2>1, <2>2
<1>4. TypeOK'
  BY <1>1, <1>3 DEF Inv, TypeOK
<1>5. Exclusive' /\ HaltedFailed'
  BY <1>1 DEF Inv, TypeOK, Exclusive, Running, HaltedFailed
<1>6. WorkOwn'
  BY <1>1, <1>2, <1>3 DEF WorkOwn
<1> QED BY <1>3, <1>4, <1>5, <1>6 DEF Inv

\* Every step keeps the invariant.
LEMMA InvNext == Inv /\ [Next]_vars => Inv'
<1> SUFFICES ASSUME Inv, [Next]_vars PROVE Inv'
  OBVIOUS
<1>1. ASSUME NEW r \in Request, NEW s \in Slave, StartBuild(r, s) PROVE Inv'
  BY <1>1, StartBuildInv
<1>2. ASSUME NEW r \in Request, TakeStep(r) PROVE Inv'
  BY <1>2, SkipInv, SucceedInv, UploadNothingInv, MissInv, FailInv DEF TakeStep
<1>3. ASSUME NEW r \in Request, LoseSlave(r) \/ Finish(r) PROVE Inv'
  BY <1>3, LoseSlaveInv, FinishInv
<1>4. CASE UNCHANGED vars
  <2>1. /\ UNCHANGED << job, branch, revision, status, host, pc, failed, stopped, spotless >>
        /\ UNCHANGED << files, log, faults >>
    BY <1>4 DEF vars
  <2>2. TypeOK' /\ Exclusive' /\ HaltedFailed' /\ RevisionsOwn' /\ LogOwn'
    BY <2>1, RemovalKeeps DEF Inv, TypeOK, Exclusive, Running, HaltedFailed
  <2>3. WorkOwn'
    BY <2>1, FilesUnchanged DEF WorkOwn, AtStep
  <2> QED BY <2>2, <2>3 DEF Inv
<1> QED BY <1>1, <1>2, <1>3, <1>4 DEF Next

\* The invariant holds in every behaviour.
LEMMA Invariant == Spec => []Inv
BY InvInit, InvNext, PTL DEF Spec

-----------------------------------------------------------------------------
(* The theorems.                                                           *)

\* The types of the state; and a build that is not queued has a slave of its builder
\* and a branch its scheduler watches.
THEOREM TypeCorrect == Spec => []TypeOK
<1>1. Inv => TypeOK
  BY DEF Inv
<1> QED BY <1>1, Invariant, PTL

\* What a build uploads, as long as no build of its revision by its builder has had a
\* failure, was made by these builds: also when several builds are of one revision and
\* use the directories named after it one after the other, and whatever builds of other
\* revisions, their failures, and other builders of the slave have left.
THEOREM UploadsAreOwn == Spec => []OwnShipped
<1>1. Inv => OwnShipped
  BY DEF Inv, LogOwn, OwnShipped
<1> QED BY <1>1, Invariant, PTL

\* What a build tests while no command of it has failed is its own.
THEOREM TestsAreOfOwn == Spec => []OwnTested
<1>1. Inv => OwnTested
  BY DEF Inv, LogOwn, OwnTested
<1> QED BY <1>1, Invariant, PTL
=============================================================================
