----------------------------- MODULE Connectors -----------------------------
(***************************************************************************)
(* The factories of the connector builders: one definition for each        *)
(* function of the configuration that returns a builder, named after it.   *)
(* Compiler flags, images and ports are left out: they do not change which *)
(* files a step reads and writes.                                          *)
(***************************************************************************)
EXTENDS Steps

-----------------------------------------------------------------------------
(* Linux: everything happens in a virtual machine that is thrown away.     *)

\* What all of them begin with, and the two ways most of them end.
InVm(script) == << CleanBuildDir, SyncVMs, Compile(script) >>
Packaged(branches) ==
  << PackageName("package", "bindistname") >>
  \o addPackageUploadStep("package", "bindistname", branches)

bld_linux_connector_cpp ==
  InVm(step0_checkout @@ step1_build({"package"}) @@ step4_testsrun) \o Packaged(Branch)
bld_sles_connector_cpp ==
  InVm(step0_checkout @@ step1_build({"package"}) @@ step4_testsrun) \o Packaged(Branch)
bld_linux_connector_cpp_no_packagetest ==
  InVm(step0_checkout @@ step1_build({"package"}) @@ step4_testsrun) \o Packaged(Branch)
bld_linux_connector_cpp_with_hack ==
  InVm(step0_checkout @@ step1_build({"package"}) @@ step4_testsrun) \o Packaged(Branch)
bld_linux_connector_cpp_with_gcc5 ==
  InVm(step0_checkout @@ step1_build({"package"}) @@ step4_testsrun) \o Packaged(Branch)

\* The ODBC builders upload from the saved branches only.
build_linux_connector_odbc ==
  InVm(step0_checkout @@ step1_build({"package"}) @@ step4_testsrun) \o Packaged(Saved)
build_linux_connector_odbc_no_upload ==
  InVm(step0_checkout @@ step1_build({"package"}) @@ step4_testsrun)
build_linux_connector_odbc_no_test ==
  InVm(step0_checkout @@ step1_build({"package"})) \o Packaged(Saved)
build_sles_connector_odbc ==
  InVm(step0_checkout @@ step1_build({"package"}) @@ step4_testsrun) \o Packaged(Saved)
connector_odbc_valgrind_memcheck == InVm(step0_checkout @@ step4_testsrun)

\* Rpms: rpms/ and srpms/ are made anew and filled; their packages are copied to
\* the build directory and moved from there to the directory of the revision.  The
\* name of the second package has a property of its own here: in the code it takes
\* the place of the first name, which then finds no file any more.
CopiedName(from, to, property) ==
  Do("setproperty", [reads |-> {from, to}, pick |-> TRUE, writes |-> {property},
                     adds |-> {to}])
InstallTest(what) == Do("testing install", [reads |-> what, effect |-> "test"])
RpmSteps(branches) ==
  InVm(step0_checkout @@ [writes |-> {"rpms", "srpms"}])
  \o << CopiedName("rpms", "package", "bindistname") >>
  \o addPackageUploadStep("package", "bindistname", branches)
  \o << InstallTest({"rpms", "bindistname"}), CopiedName("srpms", "package2", "pkgname") >>
  \o addPackageUploadStep("package2", "pkgname", branches)
  \o << InstallTest({"rpms", "srpms", "pkgname"}) >>

bld_connector_cpp_rpm == RpmSteps(Branch)
build_connector_odbc_rpm == RpmSteps(Saved)

\* Debs: the test takes them from whatever directory they have been archived in.
DebSteps(branches) ==
  InVm(step0_checkout @@ step1_build({"package"})) \o Packaged(branches)
  \o << InstallTest({"revdirs", "bindistname"}) >>

bld_connector_cpp_deb == DebSteps(Branch)
build_connector_odbc_deb == DebSteps(Saved)

\* Source packages; ODBC has a tarball and a zip file, uploaded in turn.
build_src_connector_cpp ==
  InVm(step0_checkout @@ step1_build({"package"})) \o Packaged(Branch)
build_src_connector_odbc ==
  InVm(step0_checkout @@ step1_build({"package", "package2"})) \o Packaged(Saved)
  \o << PackageName("package2", "pkgname") >>
  \o addPackageUploadStep("package2", "pkgname", Saved)

-----------------------------------------------------------------------------
(* macOS and Windows: everything happens on the host.                      *)

\* The first step of ccpp-windows empties the build directory.  That of the others
\* removes nothing: rm gets no argument (sh -c takes the directory for $0), or a
\* directory that is not the builder's.  Checkouts do not halt.
RemoveNothing == Do("remove_old_build", [halt |-> TRUE])
HostCheckout(remove) ==
  << remove, Do("buildrootdir", << >>),
     Do("git_checkout", [makes |-> "clone", writes |-> {"src"}]),
     Do("git_conc_checkout", [reads |-> {"src"}]) >>
Build(dir) == Do("build_package", [halt |-> TRUE, reads |-> {"src"}, writes |-> {dir}])
Publish(from) == Do("publish", [reads |-> {from}, adds |-> {"archive"}])

\* The package of macOS goes through two directories of the host; archiving
\* empties the second.
MacSteps(name, package) ==
  HostCheckout(RemoveNothing)
  \o << Build("build"),
        Do("tests_run", [halt |-> TRUE, reads |-> {"build"}, effect |-> "test"]) >>
  \o name
  \o << Do("try_install_package", << >>), Do("uninstall_package", << >>),
        Do("create_publish_dir", [quiet |-> TRUE]), Publish(package),
        Do("create_upload_dir", [reads |-> {"archive"}, adds |-> {"upload"}]) >>
  \o addPackageUploadStep("upload", "upload", Saved)
  \o << Do("rm_upload_dir", << >>) >>

build_macos_connector_cpp ==
  MacSteps(<< PackageName("build", "bindistname") >>, "bindistname")
build_macos_connector_odbc == MacSteps(<< >>, "build")

\* The 32 bit driver is installed for the test in a directory of the host, and
\* removed only when the test succeeds.
DriverTest32 ==
  << Build("win32"),
     Do("test_install_package_32", [quiet |-> TRUE, reads |-> {"win32"},
                                    writes |-> {"driver32"}]),
     Do("test_run_32", [halt |-> TRUE, reads |-> {"driver32"}, effect |-> "test"]),
     Do("test_uninstall_package_32", [quiet |-> TRUE, clears |-> {"driver32"}]) >>

\* The upload directory is filled only if it is not there yet.
StageUpload(branches) ==
  << Do("create_upload_dir", [reads |-> {"archive"}, fills |-> {"upload"}]),
     Do("create_tmp_upload_dir", [reads |-> {"archive"}, fills |-> {"revdir"}]) >>
  \o addPackageUploadStepWin(branches)

\* The libraries are copied to a directory of the host, and run from there.
Benchmark(dir) ==
  << Do("benchmark", [quiet |-> TRUE, reads |-> {"win64"}, writes |-> {dir}]),
     Do("benchmark", [quiet |-> TRUE, part |-> TRUE, reads |-> {dir}]) >>
CleanAfterBenchmark == << Do("clean_after_benchmark", [quiet |-> TRUE, clears |-> {"driver64"}]) >>

bld_windows_connector_odbc(skip32bit) ==
  HostCheckout(RemoveNothing)
  \o (IF skip32bit THEN << >> ELSE DriverTest32)
  \o << Build("win64"), Do("create_publish_dir", [quiet |-> TRUE]) >>
  \o (IF skip32bit THEN << >> ELSE << Publish("win32") >>)
  \o << Publish("win64") >>
  \o StageUpload(Saved)
  \o << Do("rm_tmp__upload_dir", [clears |-> {"revdir"}]) >>
  \o Benchmark("driver64") \o CleanAfterBenchmark

\* It installs as `master', whatever the branch: the two directories are one when
\* the branch is master.
bld_win_connector_odbc_benchmark ==
  HostCheckout(RemoveNothing)
  \o << Build("win64") >> \o Benchmark("driver64") \o CleanAfterBenchmark

\* Its rm_tmp__upload_dir removes a directory below C:\bb, and the tests run after
\* the upload.
bld_windows_connector_cpp(skip32bit) ==
  HostCheckout(Do("remove_old_build", [clears |-> BuildDirFiles \cup {"revdir"}]))
  \o (IF skip32bit THEN << >> ELSE << Build("win32") >>)
  \o << Build("win64"), Do("create_publish_dir", [quiet |-> TRUE]) >>
  \o (IF skip32bit THEN << >> ELSE << Publish("win32") >>)
  \o << Publish("win64") >>
  \o StageUpload(Branch)
  \o << Build("win64d"),
        Do("test_with_built_release", [halt |-> TRUE, reads |-> {"win64", "win64d"},
                                       effect |-> "test"]),
        Do("rm_tmp__upload_dir", << >>) >>
  \o Benchmark("benchdir")

bld_win_connector_cpp_benchmark ==
  HostCheckout(RemoveNothing)
  \o << Build("win64") >> \o Benchmark("benchdir")
=============================================================================
