------------------------------- MODULE Handlers -------------------------------
(***************************************************************************)
(* The handlers of the distros: the routes they are registered for, and the *)
(* stages each of them goes through, in order.                              *)
(***************************************************************************)
EXTENDS Sequences

(* The routes that the distros register with the mux.                       *)
Routes(distro) ==
    CASE distro = "rpm" -> {"package", "container", "depsonly", "worker", "sysext", "buildroot",
                            "sources", "spec"}
      [] distro = "deb" -> {"package", "container", "dsc", "worker", "sysext"}
      [] distro = "windows" -> {"zip", "container", "worker"}

(* The build of each distro, from the dependencies to the signed package.   *)
RpmBuildPkg == <<"builddeps", "srcpkg", "gocache", "build", "sign">>

DebBuildPkg == <<"versionid", "builddeps", "gocache", "srcpkg", "build", "sign">>

WinBuildBinaries == <<"builddeps", "srcpkg", "gocache", "build", "sign">>

BuildPkg(distro) ==
    CASE distro = "rpm" -> RpmBuildPkg [] distro = "deb" -> DebBuildPkg
      [] distro = "windows" -> WinBuildBinaries

HandlePackage(d) == <<"validate", "worker">> \o BuildPkg(d)
                    \o <<"evaluate", "container", "tests", "deliver">>

HandleContainer(d) == <<"worker", "prebuilt">> \o BuildPkg(d)
                      \o <<"imgconfig", "container", "tests", "deliver">>

HandleSysext(d) == <<"worker", "prebuilt">> \o BuildPkg(d)
                   \o <<"extract", "evaluate", "container", "tests", "deliver">>

HandleDepsOnly == <<"rtdeps", "worker", "downloads", "container", "imgconfig", "deliver">>

HandleBuildroot == <<"validate", "worker", "builddeps", "srcpkg", "deliver">>

HandleSources == <<"worker", "toolcheck", "builddeps", "sources", "deliver">>

HandleSpec == <<"validate", "deliver">>

HandleSourcePkg == <<"worker", "readversion", "builddeps", "gocache", "srcpkg", "deliver">>

HandleWorker == <<"worker", "workerconfig", "deliver">>

HandleZip == <<"worker">> \o WinBuildBinaries \o <<"deliver">>

HandleWinContainer == <<"winbases", "winvalidate", "worker">> \o WinBuildBinaries
                      \o <<"winimage", "deliver">>

Handler(distro, route) ==
    CASE route = "package"   -> HandlePackage(distro)
      [] route = "container" -> IF distro = "windows" THEN HandleWinContainer
                                ELSE HandleContainer(distro)
      [] route = "sysext"    -> HandleSysext(distro)
      [] route = "depsonly"  -> HandleDepsOnly
      [] route = "buildroot" -> HandleBuildroot
      [] route = "sources"   -> HandleSources
      [] route = "spec"      -> HandleSpec
      [] route = "dsc"       -> HandleSourcePkg
      [] route = "worker"    -> HandleWorker
      [] route = "zip"       -> HandleZip

=============================================================================
