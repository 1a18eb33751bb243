----------------------------- MODULE QaBuilders -----------------------------
(***************************************************************************)
(* The factories of the QA builders and of the Valgrind builder of the     *)
(* server, named after their variables in the configuration.  They build   *)
(* the sources that an earlier build has packed, and upload nothing.       *)
(***************************************************************************)
EXTENDS Steps

-----------------------------------------------------------------------------
(* Branches.                                                               *)

qaTargetTrees_10x == {"10.0", "10.1", "10.2", "10.3"}
qaTargetTrees == {"5.5"} \cup qaTargetTrees_10x
qaTargetInnoDB == {"10.0", "10.1", "10.2", "10.3"}

branch_is_10_x == ServerBranch \ {"5.5"}
branch_is_10_1_or_later == branch_is_10_x \ {"10.0"}
branch_is_10_2_or_later == branch_is_10_1_or_later \ {"10.1"}
branch_is_10_3_or_later == {"10.3"}

-----------------------------------------------------------------------------
(* Linux: the server is compiled in a virtual machine whose overlay is     *)
(* kept; every test starts another overlay on top of it.                   *)

\* The tarball of the build that triggered this one, fetched into the cache of the
\* host.  It is no product of a build here: it is named after the build that packed it,
\* and rsync -c makes it equal to the original, whoever has fetched it before.
DownloadSourceTarball == Do("rsync_src", [halt |-> TRUE])

\* "exit 0": the file of warning suppressions is best-effort.
GetSupp(branches) ==
  Do("getting .supp", [quiet |-> TRUE, when |-> branches])
CompileKept == Compile([makes |-> "own", writes |-> {"work"}])
TestKept(name, branches) ==
  Do(name, [when |-> branches, reads |-> {"work"}, effect |-> "test"])

f_qa_linux ==
  << CleanBuildDir, SyncVMs, DownloadSourceTarball,
     GetSupp(branch_is_10_x \ branch_is_10_3_or_later), CompileKept,
     TestKept("stable_tests", {}) >>

\* The upgrade tests need images with the old server, which are fetched in between
\* and halt the build when they are not.
getQAInnoDBUpgradeStep(test_name, branches) == TestKept(test_name, branches)
SyncOld(name, branches) == Do(name, [halt |-> TRUE, when |-> branches, off |-> {"bb01"}])

f_qa_innodb ==
  << CleanBuildDir, SyncVMs, DownloadSourceTarball,
     GetSupp(branch_is_10_x \ branch_is_10_3_or_later), CompileKept,
     getQAInnoDBUpgradeStep("recovery", branch_is_10_x),
     SyncOld("rsync_10_0", branch_is_10_x),
     getQAInnoDBUpgradeStep("upgr_10.0", branch_is_10_x),
     getQAInnoDBUpgradeStep("upgr_old-10.0", branch_is_10_x),
     SyncOld("rsync_10_1", branch_is_10_1_or_later),
     getQAInnoDBUpgradeStep("upgr_10.1", branch_is_10_1_or_later),
     getQAInnoDBUpgradeStep("upgr_old-10.1", branch_is_10_1_or_later),
     SyncOld("rsync_10_2", branch_is_10_2_or_later),
     getQAInnoDBUpgradeStep("upgr_10.2", branch_is_10_2_or_later),
     getQAInnoDBUpgradeStep("upgr_old-10.2", branch_is_10_2_or_later),
     SyncOld("rsync_10_3", branch_is_10_3_or_later),
     getQAInnoDBUpgradeStep("upgr_10.3", branch_is_10_3_or_later),
     SyncOld("rsync_5_6", branch_is_10_x),
     getQAInnoDBUpgradeStep("upgr_5.6", branch_is_10_x),
     SyncOld("rsync_5_7", branch_is_10_2_or_later),
     getQAInnoDBUpgradeStep("upgr_5.7", branch_is_10_2_or_later) >>

f_valgrind ==
  << CleanBuildDir, SyncVMs, Do("checking", << >>), DownloadSourceTarball,
     GetSupp(Branch), CompileKept, TestKept("default", Branch) >>

\* Of the experiments only the first step is not switched off.
f_bb_exp == << Do("echo", << >>), Do("rsyncing", [halt |-> TRUE, when |-> {}]),
               TestKept("experiment", {}) >>

-----------------------------------------------------------------------------
(***************************************************************************)
(* Windows: D:\<builder> is removed, and the sources are cloned, built,    *)
(* installed and tested below it.  The steps that set the names of the     *)
(* directories count as halting: a step that uses a property that is not   *)
(* set ends the build with an exception.                                   *)
(***************************************************************************)
rqg_win_factory(config) ==
  LET do_debug_steps == IF config = "Debug" THEN Branch ELSE {}
      do_release_steps == Branch \ do_debug_steps
      RqgTest(name, branches) ==
        Do(name, [when |-> branches, reads |-> {"install"}, effect |-> "test"])
  IN
  << Do("disable_app_verifier", [when |-> do_release_steps]),
     Do("set_dirs", [halt |-> TRUE]),
     Do("close_open_handles", [always |-> TRUE]),
     Do("kill_stale_mysqld", << >>),
     Do("remove_old_builds", [halt |-> TRUE, clears |-> BuildDirFiles]),
     Do("remove_old_logs", [halt |-> TRUE]),
     Do("create_dirs", << >>),
     Do("pull_server", [makes |-> "clone", writes |-> {"src"}]),
     Do("pull_rqg_and_tools", << >>),
     Do("get_generator", [halt |-> TRUE]),
     Do("version_info", [reads |-> {"src"}]),
     Do("build", [halt |-> TRUE, reads |-> {"src"}, adds |-> {"build"}]),
     Do("install", [halt |-> TRUE, reads |-> {"build"}, adds |-> {"install"}]),
     RqgTest("storage_engine", do_release_steps),
     RqgTest("combo-10.2", do_release_steps \cap {"10.2"}),
     RqgTest("combo-10.3", do_release_steps \cap {"10.3"}),
     Do("result_summary", << >>),
     RqgTest("crash_tests", do_debug_steps),
     Do("get_previous_release", [when |-> {}]),
     Do("build_previous_release", [halt |-> TRUE, when |-> {}]),
     Do("comparison", [when |-> {}]) >>
=============================================================================
