------------------------------- MODULE Steps -------------------------------
(***************************************************************************)
(* The vocabulary in which the build factories of the master's             *)
(* configuration are written down: what one step of a build does to the    *)
(* files of the slave, when it runs, and what its failure does to the      *)
(* rest of the build; and the steps that every package builder shares.     *)
(*                                                                         *)
(* A factory is a sequence of steps.  A file is named by its role, e.g.    *)
(* "package" for mariadb*tar.gz.  What is in a file is abstracted to the   *)
(* set of builds its contents come from.                                   *)
(***************************************************************************)
EXTENDS Naturals, Sequences, TLC

-----------------------------------------------------------------------------
(* Branches, in the form the schedulers and doStepIf functions see them.   *)

\* The branches the connector schedulers watch, and those of the server that
\* the QA builders tell apart.
ConnectorBranch == {"master", "develop", "maintenance/3.1", "odbc-3.1", "odbc-3.2",
                    "cpp-1.0", "cpp-1.1"}
ServerBranch == {"5.5", "10.0", "10.1", "10.2", "10.3"}
Branch == ConnectorBranch \cup ServerBranch

\* in_savedPackageBranches, for the branches above.
Saved == {"master", "develop", "odbc-3.1"}

-----------------------------------------------------------------------------
(* Files of a slave.                                                       *)

\* Directories outside the builder's own, used by every builder of the host.
HostFiles == {"driver32", "driver64", "benchdir"}

\* What is named after the revision: the upload directory in the build directory, and
\* directories of the host below one of the builder's.  Every build of the revision by
\* that builder finds them again.
RevisionFiles == {"revdir", "archive", "upload"}

\* What is named after the branch: the directories of the ODBC driver, and the archive.
BranchFiles == {"driver32", "driver64", "archive"}

\* Build properties: they do not outlive the build.
Properties == {"bindistname", "pkgname"}

\* What is in the build directory under a fixed name.
BuildDirFiles == {"src", "build", "win32", "win64", "win64d", "package", "package2",
                  "rpms", "srpms", "revdirs", "work", "install"}

Name == HostFiles \cup RevisionFiles \cup Properties \cup BuildDirFiles

-----------------------------------------------------------------------------
(***************************************************************************)
(* A step:                                                                 *)
(*   halt, always, when, off   haltOnFailure, alwaysRun, the branches and  *)
(*                  the slaves doStepIf lets through or keeps out          *)
(*   quiet          its command ends in "|| true": failure is not seen     *)
(*   part           it carries on the command of the step before, and is   *)
(*                  not reached when that one fails                        *)
(*   reads          files it needs; without one of them it fails (a step   *)
(*                  that picks: without any)                               *)
(*   makes          "copy": its output is made of what it reads; "own": of *)
(*                  the requested revision, got inside the step; "clone":  *)
(*                  likewise, but left at the head of the branch when the  *)
(*                  step fails after the clone                             *)
(*   pick           its output is one of the files read, not all of them   *)
(*   writes, adds, fills, moves, clears   files it replaces, adds to,      *)
(*                  writes only when they are not there, moves away, and   *)
(*                  removes                                                *)
(*   effect         "test": what it reads or makes is tested; "ship": what *)
(*                  it reads goes to the master's archive                  *)
(***************************************************************************)
Step == [name: STRING, halt: BOOLEAN, always: BOOLEAN, quiet: BOOLEAN, part: BOOLEAN,
         when: SUBSET Branch, off: SUBSET STRING,
         reads: SUBSET Name, makes: {"copy", "own", "clone"}, pick: BOOLEAN,
         writes: SUBSET Name, adds: SUBSET Name, fills: SUBSET Name,
         moves: SUBSET Name, clears: SUBSET Name,
         effect: {"none", "test", "ship"}]

\* ShellCommand and its kin without arguments: flunkOnFailure, and nothing else.
Plain == [name |-> "", halt |-> FALSE, always |-> FALSE, quiet |-> FALSE, part |-> FALSE,
          when |-> Branch, off |-> {}, reads |-> {}, makes |-> "copy", pick |-> FALSE,
          writes |-> {}, adds |-> {}, fills |-> {}, moves |-> {}, clears |-> {}, effect |-> "none"]

\* A step of the given name that differs from Plain as said.
Do(name, how) ==
  [[f \in DOMAIN Plain |-> IF f \in DOMAIN how THEN how[f] ELSE Plain[f]]
   EXCEPT !["name"] = name]

-----------------------------------------------------------------------------
(* Steps that many factories have.                                         *)

\* Mutant: rm -Rf ... || true, which hides that something could not be removed.
CleanBuildDir_Unseen == Do("cleaning", [clears |-> BuildDirFiles \cup {"revdir"}, quiet |-> TRUE])

CleanBuildDir == Do("cleaning", [clears |-> BuildDirFiles \cup {"revdir"}])

\* The images are fetched from bb01, and halt the build when they are not.
SyncVMs == Do("rsyncing", [halt |-> TRUE, off |-> {"bb01"}])

\* The script of the guest: a checkout of the requested revision, which ends the
\* script (set -e) when the reset fails; the build; the tests.  A build without a
\* revision, for which the reset is skipped, is not modelled.
step0_checkout == [makes |-> "own"]
step1_build(packages) == [adds |-> packages]
step4_testsrun == [effect |-> "test"]

\* Compile halts.  runvm copies the results out only after every command in the
\* guest has succeeded, so a failed script leaves none of them.
Compile(script) == Do("building", [halt |-> TRUE] @@ script)

\* basename `ls ...`: with two packages in the directory, one of them.
PackageName(file, property) ==
  Do("setproperty", [reads |-> {file}, pick |-> TRUE, writes |-> {property}])

\* Archiving moves the named package into the directory of the revision, made
\* anew; DirectoryUpload, a transfer step, halts when it fails, which it does when
\* there is no directory, but not when the directory is empty.
Archiving(from, what, branches) ==
  Do("archiving", [reads |-> {what}, writes |-> {"revdir"}, adds |-> {"revdirs"},
                   moves |-> {from}, when |-> branches])
addPackageUploadStepWin(branches) ==
  << Do("uploading", [halt |-> TRUE, reads |-> {"revdir"}, effect |-> "ship",
                      when |-> branches]) >>
addPackageUploadStep(from, what, branches) ==
  << Archiving(from, what, branches) >> \o addPackageUploadStepWin(branches)
=============================================================================
