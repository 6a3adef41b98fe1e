-------------------------- MODULE DistroBuildProofs --------------------------
(***************************************************************************)
(* For all requests: an upgrade of a package leaves the units as the         *)
(* administrator has set them, and the persistent caches of builds are kept  *)
(* apart.                                                                   *)
(***************************************************************************)
EXTENDS PackagePromises, HostProofs, CacheProofs

(* The requests there are.                                                  *)
Requests == {Cases[r] : r \in DOMAIN Cases}

(* The fields of a package.                                                 *)
PkgFields == {"origin", "signer", "arts", "build", "ext"}

(* p has them, and artifacts with lists in it.                              *)
IsPackage(p) == DOMAIN p = PkgFields /\ IsArts(p.arts)

(* What is needed of the host: it is touched only when the request has been *)
(* answered; while a deb is installed, deb-systemd-helper has seen all units*)
(* that its postinst enables.                                               *)
HostInv ==
    /\ req \in Requests
    /\ IsPackage(pkg)
    /\ life # "none" => result = "ok"
    /\ life \in {"none", "installed"} => IsHost(host)
    /\ life = "installed" /\ req.distro # "rpm" => EnabledSeen(host, pkg.arts)

(* The artifacts of a request are well formed.                              *)
LEMMA RequestArts ==
    ASSUME NEW q \in Requests
    PROVE  IsArts(GetArtifacts(q.spec, q.target))
  BY ArtifactsAssumption DEF Requests, IsArts

(* So are those of the package before the build.                            *)
LEMMA NoPkgIsPackage == IsPackage(NoPkg)
  <1>1. <<>> \in Seq({})
    OBVIOUS
  <1>2. NoArtifacts.users = <<>> /\ NoArtifacts.groups = <<>> /\ NoArtifacts.links = <<>>
    BY DEF NoArtifacts
  <1>3. IsArts(NoArtifacts)
    BY <1>1, <1>2 DEF IsArts
  <1>. QED  BY <1>3 DEF IsPackage, NoPkg, PkgFields

(* The host before the package.                                             *)
LEMMA BaseHostIsHost == IsHost(BaseHost)
  BY DEF BaseHost, IsHost

(* No stage of a handler touches the host.                                  *)
LEMMA StageKeepsHost ==
    ASSUME HostInv, Stage
    PROVE  HostInv' /\ life' = life
  <1>1. result = "running" /\ UNCHANGED <<req, host, life>>
    BY DEF Stage, At, Validate, Worker, Prebuilt, VersionID, InstallBuildDeps, SrcPkg, GoCache,
           Build, Sign, Evaluate, Extract, ImgConfig, BuildContainer, RunTests, Deliver, RtDeps,
           Downloads, ToolCheck, Sources, WorkerConfig, WinBases, WinValidate, WinImage, hostVars
  <1>2. life = "none"
    BY <1>1 DEF HostInv
  <1>3. IsPackage(pkg')
    <2>1. CASE UNCHANGED pkg
      BY <2>1 DEF HostInv
    <2>2. ASSUME NEW p, IsPackage(p), NEW o, NEW a, IsArts(a), NEW b, NEW s, NEW e
          PROVE  /\ IsPackage([p EXCEPT !.origin = o, !.arts = a, !.build = b])
                 /\ IsPackage([p EXCEPT !.origin = o, !.build.ok = b, !.build.srcs = s])
                 /\ IsPackage([p EXCEPT !.origin = o, !.build.ok = b, !.build.deps = s])
                 /\ IsPackage([p EXCEPT !.signer = s])
                 /\ IsPackage([p EXCEPT !.ext = e])
      BY <2>2 DEF IsPackage, PkgFields
    <2>3. IsArts(RqArtifacts)
      BY RequestArts DEF HostInv, RqArtifacts, RqSpec
    <2>4. CASE Prebuilt
      <3>1. \/ UNCHANGED pkg
            \/ pkg' = [NoPkg EXCEPT !.origin = GetPrebuiltPackage, !.arts = RqArtifacts,
                                    !.build = req.prebuilt[GetPrebuiltPackage]]
        BY <2>4 DEF Prebuilt
      <3>2. CASE UNCHANGED pkg
        BY <2>1, <3>2
      <3>3. CASE pkg' = [NoPkg EXCEPT !.origin = GetPrebuiltPackage, !.arts = RqArtifacts,
                                      !.build = req.prebuilt[GetPrebuiltPackage]]
        BY <2>2, <2>3, <3>3, NoPkgIsPackage, Zenon
      <3>. QED  BY <3>1, <3>2, <3>3
    <2>5. CASE SrcPkg
      BY <2>2, <2>3, <2>5, NoPkgIsPackage DEF SrcPkg
    <2>6. CASE Build
      BY <2>2, <2>3, <2>6, NoPkgIsPackage DEF Build
    <2>7. CASE Sign
      <3>1. UNCHANGED pkg \/ \E s : pkg' = [pkg EXCEPT !.signer = s]
        BY <2>7 DEF Sign
      <3>2. CASE UNCHANGED pkg
        BY <2>1, <3>2
      <3>3. ASSUME NEW s, pkg' = [pkg EXCEPT !.signer = s] PROVE IsPackage(pkg')
        BY <2>2, <2>3, <3>3, Zenon DEF HostInv
      <3>. QED  BY <3>1, <3>2, <3>3
    <2>8. CASE Extract
      BY <2>2, <2>3, <2>8 DEF Extract, HostInv
    <2>9. CASE Downloads
      BY <2>2, <2>3, <2>9, NoPkgIsPackage, Zenon DEF Downloads
    <2>12. CASE Sources
      BY <2>2, <2>3, <2>12, NoPkgIsPackage, Zenon DEF Sources
    <2>10. CASE \/ Validate \/ Worker \/ VersionID \/ InstallBuildDeps \/ GoCache \/ Evaluate
                \/ ImgConfig \/ BuildContainer
      BY <2>1, <2>10 DEF Validate, Worker, VersionID, InstallBuildDeps, GoCache, Evaluate,
                         ImgConfig, BuildContainer, reqVars
    <2>11. CASE \/ RunTests \/ Deliver \/ RtDeps \/ ToolCheck \/ WorkerConfig \/ WinBases
                \/ WinValidate \/ WinImage
      BY <2>1, <2>11 DEF RunTests, Deliver, RtDeps, ToolCheck, WorkerConfig, WinBases,
                         WinValidate, WinImage, reqVars
    <2>. QED  BY <2>4, <2>5, <2>6, <2>7, <2>8, <2>9, <2>10, <2>11,
              <2>12 DEF Stage
  <1>. QED  BY <1>1, <1>2, <1>3 DEF HostInv

(* Every step keeps HostInv, and an upgrade the enabled units.              *)
LEMMA HostStep ==
    ASSUME HostInv, [Next]_vars
    PROVE  HostInv' /\ (life = "installed" /\ life' = "upgraded" => host'.enabled = host.enabled)
  <1>1. CASE Stage
    BY <1>1, StageKeepsHost
  <1>2. CASE HostInstall
    <2>1. /\ host' = InstallOn(req.distro, host, pkg.arts, pkg.build)
          /\ life = "none" /\ result' = "ok"
          /\ life' = (IF host'.failed THEN "broken" ELSE "installed") /\ UNCHANGED <<req, pkg>>
      BY <1>2 DEF HostInstall, CanInstall, reqVars
    <2>2. IsHost(host) /\ IsArts(pkg.arts)
      BY <2>1 DEF HostInv, IsPackage
    <2>3. CASE req.distro # "rpm"
      <3>1. IsHost(host') /\ (~host'.failed => EnabledSeen(host', pkg.arts))
        BY <2>1, <2>2, <2>3, DebInstallSees, Zenon DEF InstallOn
      <3>. QED  BY <2>1, <3>1 DEF HostInv, IsPackage
    <2>4. CASE req.distro = "rpm"
      <3>1. IsHost(host')
        BY <2>1, <2>2, <2>4, RpmInstallHost DEF InstallOn
      <3>. QED  BY <2>1, <2>4, <3>1 DEF HostInv, IsPackage
    <2>. QED  BY <2>3, <2>4
  <1>3. ASSUME NEW u, AdminToggle(u) PROVE HostInv' /\ life' # "upgraded"
    <2>1. IsHost(host') /\ host'.seen = host.seen
      BY <1>3 DEF AdminToggle, HostInv, IsHost
    <2>2. life = "installed" /\ UNCHANGED <<req, pkg, result, life>>
      BY <1>3 DEF AdminToggle, reqVars
    <2>. QED  BY <2>1, <2>2 DEF HostInv, IsPackage, EnabledSeen
  <1>4. CASE HostUpgrade
    <2>1. host' = UpgradeOn(req.distro, host, pkg.arts, pkg.build) /\ life = "installed"
          /\ life' = "upgraded" /\ UNCHANGED <<req, pkg, result>>
      BY <1>4 DEF HostUpgrade, reqVars
    <2>2. IsHost(host) /\ IsArts(pkg.arts) /\ (req.distro # "rpm" => EnabledSeen(host, pkg.arts))
      BY <2>1 DEF HostInv, IsPackage
    <2>3. host'.enabled = host.enabled
      BY <2>1, <2>2, DebInstallSees, RpmUpgradeQuiet DEF UpgradeOn
    <2>. QED  BY <2>1, <2>3 DEF HostInv, IsPackage
  <1>5. CASE HostRemove
    <2>1. life' \in {"stuck", "removed"} /\ life # "none" /\ UNCHANGED <<req, pkg, result>>
      BY <1>5 DEF HostRemove, reqVars
    <2>. QED  BY <2>1 DEF HostInv, IsPackage
  <1>6. ASSUME NEW r \in Followers, NextRequest(r) PROVE HostInv' /\ life' = "none"
    <2>1. req' \in Requests
      BY <1>6, CasesAssumption DEF NextRequest, Requests
    <2>2. pkg' = NoPkg /\ life' = "none" /\ host' = host /\ life = "none"
      BY <1>6 DEF NextRequest
    <2>. QED  BY <2>1, <2>2, NoPkgIsPackage DEF HostInv
  <1>7. CASE UNCHANGED vars
    BY <1>7 DEF vars, HostInv, IsPackage, EnabledSeen
  <1>. QED  BY <1>1, <1>2, <1>3, <1>4, <1>5, <1>6, <1>7 DEF Next

(* An upgrade (the new package's postinst or %post, the old one's %preun and*)
(* %postun) leaves every unit enabled or disabled as it was, for every spec *)
(* and whatever the administrator has changed since the installation.       *)
THEOREM AdminChoiceStands == Spec => AdminChoiceKept
  <1>1. Init => HostInv
    <2>. SUFFICES ASSUME Init PROVE HostInv
      OBVIOUS
    <2>1. req \in Requests /\ pkg = NoPkg /\ host = BaseHost /\ life = "none"
      BY DEF Init, Requests
    <2>. QED  BY <2>1, NoPkgIsPackage, BaseHostIsHost DEF HostInv
  <1>. QED  BY <1>1, HostStep, PTL DEF Spec, AdminChoiceKept

-----------------------------------------------------------------------------
(* The persistent caches of two builds are kept apart.                      *)

(* The caches that go into a mount come from the request and AddGoCache.    *)
CachesInv == req \in Requests /\ caches \in Seq(CacheConfigs) /\ \A m \in mounts : Marked(Platforms, Distros, m)

(* A request is for one of the distros and one of the platforms.            *)
LEMMA RequestNames ==
    ASSUME NEW q \in Requests
    PROVE  /\ Distro(q) \in Distros
           /\ PlatformOf(BuildPlatform(q)) \in Platforms /\ PlatformOf("") \in Platforms
  BY DEF Requests, Distros, Platforms, PlatformOf

(* What a build mounts for its spec.                                        *)
LEMMA SpecMountsMarked ==
    ASSUME req \in Requests, caches \in Seq(CacheConfigs), NEW m \in SpecMounts
    PROVE  Marked(Platforms, Distros, m)
  <1>1. PICK i \in DOMAIN caches :
            m = Mount("spec", CacheKey(caches[i], DistroKey(req), BuildPlatform(req)),
                      CacheSharing(caches[i]), IF OptsOut(caches[i]) THEN "open" ELSE "platform", TRUE)
    BY DEF SpecMounts
  <1>2. PICK c \in CacheConfigs : c = caches[i]
    BY <1>1
  <1>3. PICK d \in Distros : d = Distro(req)
    BY RequestNames
  <1>4. d.key = DistroKey(req)
    BY <1>3 DEF Distro
  <1>5. PICK p : p = BuildPlatform(req)
    OBVIOUS
  <1>6. m.release = d.release /\ m.use = "spec" /\ m.key = CacheKey(c, d.key, p)
        /\ m.platform = PlatformOf(p) /\ m.scope = (IF OptsOut(c) THEN "open" ELSE "platform")
    BY <1>1, <1>2, <1>3, <1>4, <1>5 DEF Mount
  <1>7. c.kind \in CacheKinds
    BY CasesAssumption, SMTT(30) DEF CacheKinds
  <1>8. PlatformOf(p) \in Platforms
    BY <1>5, RequestNames
  <1>. QED  BY <1>6, <1>7, <1>8, SpecMountMarked, CacheNamesAssumption, Zenon

(* What a package manager mounts, told its platform or not.                 *)
LEMMA PackageMountsMarked ==
    ASSUME req \in Requests, NEW p, PlatformOf(p) \in Platforms, NEW placed,
           placed => p = BuildPlatform(req), NEW m \in PackageMounts(p, placed)
    PROVE  Marked(Platforms, Distros, m)
  <1>1. PICK d \in Distros : d = Distro(req)
    BY RequestNames
  <1>2. PICK n \in d.packages :
            m = Mount("packages", PackageCacheKey(n, req.cacheAddPlatform, p), "locked",
                      IF req.cacheAddPlatform THEN "platform" ELSE "distro", placed)
    BY <1>1 DEF PackageMounts, Distro
  <1>3. m.release = d.release /\ m.use = "packages" /\ m.sharing = "locked"
        /\ m.key = PackageCacheKey(n, req.cacheAddPlatform, p)
        /\ m.scope = (IF req.cacheAddPlatform THEN "platform" ELSE "distro")
        /\ m.platform = PlatformOf(BuildPlatform(req)) /\ m.placed = placed
    BY <1>1, <1>2 DEF Mount
  <1>4. m.placed => m.platform = PlatformOf(p)
    BY <1>3
  <1>. QED  BY <1>3, <1>4, PackageMountMarked, CacheNamesAssumption, Zenon

(* What the download of Go modules mounts.                                  *)
LEMMA GomodMountsMarked ==
    ASSUME req \in Requests, NEW m \in GomodMounts
    PROVE  Marked(Platforms, Distros, m)
  <1>1. PICK d \in Distros : d = Distro(req)
    BY RequestNames
  <1>2. m = Mount("gomod", Parts(GomodCache), "shared", "all", TRUE)
    BY DEF GomodMounts
  <1>. QED  BY <1>1, <1>2 DEF Mount, Marked, OfGomod

(* What the other stages mount.                                             *)
LEMMA StageMountsMarked ==
    ASSUME req \in Requests, NEW m \in InstallMounts \cup GomodMounts \cup PackageMounts("", FALSE)
    PROVE  Marked(Platforms, Distros, m)
  <1>1. CASE m \in InstallMounts
    BY <1>1, PackageMountsMarked, RequestNames DEF InstallMounts
  <1>2. CASE m \in PackageMounts("", FALSE)
    BY <1>2, PackageMountsMarked, RequestNames
  <1>. QED  BY <1>1, <1>2, GomodMountsMarked

(* addGoCache only adds the cache that every Go build gets.                 *)
LEMMA AddGoCacheKeepsConfigs ==
    ASSUME req \in Requests
    PROVE  AddGoCache(RqSpec, req.target) \in Seq(CacheConfigs)
  <1>1. AutoGocache \in CacheConfigs
    BY DEF CacheConfigs
  <1>2. req.spec.caches \in Seq(CacheConfigs)
    BY CasesAssumption DEF Requests
  <1>. QED  BY <1>1, <1>2 DEF AddGoCache, RqSpec

(* Every step of a request keeps the mounts marked.                         *)
LEMMA CachesStep == CachesInv /\ [Next]_vars => CachesInv'
  <1>. SUFFICES ASSUME CachesInv, [Next]_vars PROVE CachesInv'
    OBVIOUS
  <1>1. CASE GoCache
    <2>1. caches' \in Seq(CacheConfigs)
      BY <1>1, AddGoCacheKeepsConfigs DEF GoCache, CachesInv
    <2>. QED  BY <1>1, <2>1 DEF GoCache, CachesInv
  <1>2. CASE Build
    <2>1. mounts' = mounts \cup SpecMounts /\ UNCHANGED <<req, caches>>
      BY <1>2 DEF Build, MountsAlso
    <2>2. \A m \in mounts' : Marked(Platforms, Distros, m)
      BY <2>1, SpecMountsMarked DEF CachesInv
    <2>. QED  BY <2>1, <2>2 DEF CachesInv
  <1>3. ASSUME NEW r \in Followers, NextRequest(r) PROVE CachesInv'
    <2>1. req' \in Requests /\ req'.spec.caches \in Seq(CacheConfigs)
      BY <1>3, CasesAssumption DEF NextRequest, Requests
    <2>. QED  BY <1>3, <2>1 DEF NextRequest, CachesInv
  <1>4. CASE /\ UNCHANGED <<req, caches>>
             /\ mounts' \subseteq mounts \cup InstallMounts \cup GomodMounts \cup PackageMounts("", FALSE)
    <2>1. \A m \in mounts' : Marked(Platforms, Distros, m)
      BY <1>4, StageMountsMarked DEF CachesInv
    <2>. QED  BY <1>4, <2>1 DEF CachesInv
  <1>5. CASE Validate \/ Prebuilt \/ VersionID
    BY <1>4, <1>5 DEF Validate, Prebuilt, VersionID, reqVars
  <1>12. CASE Worker \/ InstallBuildDeps
    BY <1>4, <1>12 DEF Worker, InstallBuildDeps, MountsAlso, reqVars
  <1>13. CASE SrcPkg \/ Sources
    BY <1>4, <1>13 DEF SrcPkg, Sources, MountsAlso
  <1>14. CASE Extract \/ BuildContainer \/ RunTests \/ Downloads
    BY <1>4, <1>14 DEF Extract, BuildContainer, RunTests, Downloads, MountsAlso
  <1>6. CASE Sign \/ Evaluate \/ ImgConfig \/ Deliver
    BY <1>4, <1>6 DEF Sign, Evaluate, ImgConfig, Deliver, reqVars
  <1>7. CASE RtDeps \/ ToolCheck \/ WorkerConfig
    BY <1>4, <1>7 DEF RtDeps, ToolCheck, WorkerConfig, reqVars
  <1>8. CASE WinBases \/ WinValidate \/ WinImage
    BY <1>4, <1>8 DEF WinBases, WinValidate, WinImage, reqVars
  <1>9. CASE HostInstall \/ HostUpgrade \/ HostRemove
    BY <1>4, <1>9 DEF HostInstall, HostUpgrade, HostRemove, reqVars
  <1>10. ASSUME NEW u \in OwnUnits, AdminToggle(u) PROVE CachesInv'
    BY <1>4, <1>10 DEF AdminToggle, reqVars
  <1>11. CASE UNCHANGED vars
    BY <1>4, <1>11 DEF vars
  <1>. QED
    BY <1>1, <1>2, <1>3, <1>5, <1>6, <1>7, <1>8, <1>9, <1>10, <1>11, <1>12, <1>13, <1>14
       DEF Next, Stage

(* Mounts of the same key are of the same use, distro and platform, as far  *)
(* as their caches are meant for one, and a package manager's are locked,    *)
(* whatever specs, targets and platforms the requests name and in whatever  *)
(* order they come, although the key is one string joined from the names.   *)
THEOREM CachesKeptApart == Spec => []CachesApart
  <1>1. Init => CachesInv
    BY CasesAssumption DEF Init, CachesInv, Requests
  <1>2. CachesInv => CachesApart
    BY MarkedApart, CacheNamesAssumption DEF CachesInv, CachesApart
  <1>. QED  BY <1>1, <1>2, CachesStep, PTL DEF Spec

=============================================================================
