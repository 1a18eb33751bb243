---------------------------- MODULE MCBuildSteps ----------------------------
(***************************************************************************)
(* The connector and QA builders of the master's configuration, for TLC:   *)
(* at least one builder of each function that makes one, on its slaves.    *)
(***************************************************************************)
EXTENDS BuildSteps, Connectors, QaBuilders

\* Builders in virtual machines, with the factory each has.
MCLinux ==
  [x \in {"ccpp-linux-amd64-ubsan", "ccpp-jammy-aarch64"} |-> bld_linux_connector_cpp]
  @@ "ccpp-sles15-amd64" :> bld_sles_connector_cpp
  @@ "ccpp-linux-amd64-asan" :> bld_linux_connector_cpp_no_packagetest
  @@ "ccpp-centos7-amd64" :> bld_linux_connector_cpp_with_hack
  @@ "ccpp-sles12-amd64" :> bld_linux_connector_cpp_with_gcc5
  @@ "codbc-jammy-amd64" :> build_linux_connector_odbc
  @@ "codbc-linux-amd64-asan" :> build_linux_connector_odbc_no_upload
  @@ "codbc-sles12-amd64" :> build_linux_connector_odbc_no_test
  @@ "codbc-sles15-amd64" :> build_sles_connector_odbc
  @@ "codbc-noble-amd64-memcheck" :> connector_odbc_valgrind_memcheck
  @@ "ccpp-rhel9-amd64-rpm" :> bld_connector_cpp_rpm
  @@ "codbc-rhel9-amd64-rpm" :> build_connector_odbc_rpm
  @@ "ccpp-jammy-amd64-deb" :> bld_connector_cpp_deb
  @@ "codbc-jammy-amd64-deb" :> build_connector_odbc_deb
  @@ "ccpp-source-package" :> build_src_connector_cpp
  @@ "codbc-source-package" :> build_src_connector_odbc
MCMac == "ccpp-macos" :> build_macos_connector_cpp
         @@ "codbc-macos" :> build_macos_connector_odbc
MCWindows == "codbc-windows" :> bld_windows_connector_odbc(FALSE)
             @@ "codbc-windows-gnutls" :> bld_windows_connector_odbc(TRUE)
             @@ "codbc-benchmark" :> bld_win_connector_odbc_benchmark
             @@ "ccpp-windows" :> bld_windows_connector_cpp(TRUE)
             @@ "ccpp-benchmark" :> bld_win_connector_cpp_benchmark

\* Those of the server; qa_builders.py and the list of builders do not activate them.
MCQaLinux == "qa-kvm-linux" :> f_qa_linux @@ "qa-innodb-upgrade" :> f_qa_innodb
MCQaWindows == "qa-win-rel" :> rqg_win_factory("RelWithDebInfo")
               @@ "qa-win-debug" :> rqg_win_factory("Debug")
MCServer == MCQaLinux @@ MCQaWindows @@ "vm-amd64-valgrind" :> f_valgrind
            @@ "qa-buildbot-experiments" :> f_bb_exp

TheFactory == MCLinux @@ MCMac @@ MCWindows @@ MCServer
TheBuilder == DOMAIN TheFactory
TheSlave == {"bb02", "bb03", "bbm5", "bbm6", "rasmus-4", "rasmus-5", "conn-macincloud",
             "bbwin3", "win-connectors"}
TheSlaves == [b \in TheBuilder |->
  CASE b \in DOMAIN MCMac -> {"conn-macincloud"}
    [] b \in DOMAIN MCWindows -> {"win-connectors"}
    [] b \in DOMAIN MCQaLinux -> {"bbm6"}
    [] b \in DOMAIN MCQaWindows -> {"bbwin3"}
    [] b = "vm-amd64-valgrind" -> {"bbm5"}
    [] b = "qa-buildbot-experiments" -> {"bb02", "bb03"}
    [] b = "ccpp-jammy-aarch64" -> {"rasmus-4", "rasmus-5"}
    [] OTHER -> {"bb02"}]
TheMaxBuilds == "bb02" :> 4 @@ "bb03" :> 1 @@ "bbm5" :> 1 @@ "bbm6" :> 2 @@ "rasmus-4" :> 40 @@ "rasmus-5" :> 40
               @@ "conn-macincloud" :> 2 @@ "bbwin3" :> 3 @@ "win-connectors" :> 4

\* A saved branch and one that is not, where the factory tells them apart; of those
\* of the Windows QA builders, one for each set of tests.
TheOffered == [b \in TheBuilder |->
  IF b = "qa-innodb-upgrade" THEN qaTargetInnoDB
  ELSE IF b = "qa-kvm-linux" THEN qaTargetTrees_10x
  ELSE IF b \in DOMAIN MCQaWindows THEN {"10.1", "10.2", "10.3"}
  ELSE IF b \in DOMAIN MCServer THEN qaTargetTrees
  ELSE IF b \in DOMAIN MCWindows \/ \A i \in DOMAIN TheFactory[b] : TheFactory[b][i].when = Branch
  THEN {"master"} ELSE {"master", "odbc-3.2"}]

TheTestsFirst == {"ccpp-linux-amd64-ubsan", "ccpp-jammy-aarch64", "ccpp-sles15-amd64",
  "ccpp-linux-amd64-asan", "ccpp-centos7-amd64", "ccpp-sles12-amd64",
  "codbc-jammy-amd64", "codbc-sles15-amd64"}

\* In virtual machines the builders share no file: one of them at a time, and one
\* of those that have the same steps on the same slaves.
MCVirtual == DOMAIN MCLinux \cup DOMAIN MCQaLinux
             \cup {"vm-amd64-valgrind", "qa-buildbot-experiments"}
Alike(b) == {c \in MCVirtual : TheFactory[c] = TheFactory[b] /\ TheSlaves[c] = TheSlaves[b]}
TheCrew == {{CHOOSE c \in Alike(b) : TRUE} : b \in MCVirtual}
           \cup {DOMAIN MCMac, DOMAIN MCWindows, DOMAIN MCQaWindows}
TheMaxFaults == [b \in TheBuilder |-> IF b \in DOMAIN MCLinux THEN 2 ELSE 1]
TheRequest == 1..2

\* The second build is of the revision of the first, or of another one.
TheAsked == {<< 1, 1 >>, << 1, 2 >>}

-----------------------------------------------------------------------------
(* Which files a step finds its own when no command has failed, computed   *)
(* from the factory: what a step makes of its own files is its own, and a  *)
(* file of the host is nobody's own when another builder of the slave      *)
(* touches it.                                                             *)

OwnIn(steps, br, s) ==
  LET own[i \in DOMAIN steps] ==
        IF i = 1 THEN AtStart
        ELSE UNION {Kept(st, br, s, before) \ {"driver64", "benchdir"} :
                      st \in {steps[i - 1]}, before \in {own[i - 1]}}
  IN own

TheOwnAt == [b \in TheBuilder |-> [br \in TheOffered[b] |-> [s \in TheSlaves[b] |->
  CHOOSE own \in {OwnIn(steps, br, s) : steps \in {TheFactory[b]}} : TRUE]]]

-----------------------------------------------------------------------------
(* The values of the constants.  They are names of the definitions above,  *)
(* which TLC then evaluates once.                                          *)
MCFactory == TheFactory
MCBuilder == TheBuilder
MCSlave == TheSlave
MCSlaves == TheSlaves
MCMaxBuilds == TheMaxBuilds
MCOffered == TheOffered
MCTestsFirst == TheTestsFirst
MCCrew == TheCrew
MCMaxFaults == TheMaxFaults
MCRequest == TheRequest
MCAsked == TheAsked
MCOwnAt == TheOwnAt
=============================================================================
