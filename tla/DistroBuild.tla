----------------------------- MODULE DistroBuild -----------------------------
(***************************************************************************)
(* The distro handlers: how a request for a package, a container, a system   *)
(* extension or one of the debugging targets goes from a loaded spec to the  *)
(* reference that is handed to the client, on rpm distros, deb distros and   *)
(* Windows; and what becomes of the package on a host afterwards.           *)
(*                                                                         *)
(* A request runs the stages of its handler in order.  LLB is lazy: what     *)
(* fails inside a state is remembered (ok = FALSE) until something solves    *)
(* the state.  A request, req, is a record of the distro and route, the      *)
(* spec and target, what the client's build contexts and build args hold,    *)
(* and the one call to a service that fails, if any (fault).                *)
(***************************************************************************)
EXTENDS WindowsBuild, Handlers

CONSTANTS Cases,       \* the requests, by id
          Followers,   \* requests that may come second
          MaxToggles   \* how often the administrator changes a unit

(* The caches that specs declare, and the one that AddGoCache adds.         *)
CacheConfigs == {AutoGocache} \cup UNION {ToSet(Cases[r].spec.caches) : r \in DOMAIN Cases}

(* A cache of a spec is of one kind, which CacheConfig.validate sees to.    *)
ASSUME CasesAssumption ==
    /\ Followers \subseteq DOMAIN Cases
    /\ \A r \in DOMAIN Cases : Cases[r].spec.caches \in Seq(CacheConfigs)
    /\ \A c \in CacheConfigs : c.kind \in {"dir", "gobuild", "sccache", "bazel"}

(* A request reaches a handler through a route of its distro; its contexts  *)
(* can hold a package for the target and a generic one.                     *)
ASSUME RequestsAssumption ==
    /\ MaxToggles \in Nat
    /\ \A r \in DOMAIN Cases :
           /\ Cases[r].distro \in {"rpm", "deb", "windows"}
           /\ Cases[r].route \in Routes(Cases[r].distro)
           /\ Cases[r].ctxPkgs \subseteq {"target", "generic"}
           /\ \A i \in DOMAIN Cases[r].spec.steps :
                  Cases[r].spec.steps[i] \in [env : BOOLEAN, names : BOOLEAN, cmds : Seq(BOOLEAN)]

(* What names the distro in the key of a cache of the spec.                 *)
DistroKey(q) ==
    CASE q.distro = "rpm" -> q.target
      [] q.distro = "deb" -> Prefer(q.versionID, q.osRelease)
      [] OTHER           -> "ubuntu22.04/" \o q.target

(* The caches of the package manager that the distro's config names.        *)
PackageCaches(q) == IF q.distro = "rpm" THEN {q.cacheName} ELSE AptCacheNames(q.cacheName)

(* Windows binaries are built on the platform of the builder.               *)
BuildPlatform(q) == IF q.distro = "windows" THEN "" ELSE q.platform

Platforms == {DefaultPlatform} \cup {PlatformOf(BuildPlatform(Cases[r])) : r \in DOMAIN Cases}

(* A distro, and what its caches are named after.                           *)
Distro(q) == [release |-> <<q.distro, q.target>>, key |-> DistroKey(q), packages |-> PackageCaches(q)]

Distros == {Distro(Cases[r]) : r \in DOMAIN Cases}

(* The names that the distros' configs give to their caches.                *)
ASSUME CacheNamesAssumption == NamesApart(Platforms, Distros)

Link == [dest : Seq(STRING), user : STRING, group : STRING]

(* The users, groups and links of a spec are lists.                         *)
ASSUME ArtifactsAssumption ==
    \A r \in DOMAIN Cases :
        LET a == GetArtifacts(Cases[r].spec, Cases[r].target)
        IN  a.users \in Seq(STRING) /\ a.groups \in Seq(STRING) /\ a.links \in Seq(Link)

VARIABLES req,      \* the request being handled
          todo,     \* the stages of its handler that are left
          worker,   \* the build container: the constraints of what it installed
          caches,   \* the caches of the build; prepareGo and addGoCache extend them
          pkg,      \* the package, and where it comes from
          ctr,      \* the container the package is installed in
          img,      \* the image configuration
          tested,   \* the package that was in the container the tests ran on
          result,   \* "running", "ok" or "error"
          mounts,   \* the persistent caches of the states made so far, over all requests
          host,     \* a user's machine
          life,     \* what happened to the package there
          toggles,  \* how often the administrator changed a unit
          served    \* how many requests came before

reqVars == <<worker, caches, pkg, ctr, img, tested>>
hostVars == <<host, life, toggles, served>>
vars == <<req, todo, worker, caches, pkg, ctr, img, tested, result, mounts, host, life, toggles,
          served>>

RqSpec == req.spec
RqArtifacts == GetArtifacts(RqSpec, req.target)
RqDeps == GetPackageDeps(RqSpec, req.target)

NoBuild == [ok |-> TRUE, complete |-> TRUE, files |-> {}, deps |-> {}, srcs |-> {}, patched |-> <<>>]

NoArtifacts ==
    [part \in FileKinds \cup {"configDirs", "stateDirs", "units", "dropins", "links", "users",
                             "groups", "disableAutoRequires"} |->
        IF part = "disableAutoRequires" THEN FALSE ELSE <<>>]

(* arts are the artifacts the package was built from; ext is what a system  *)
(* extension adds to it.                                                    *)
NoPkg == [origin |-> "none", signer |-> "", arts |-> NoArtifacts, build |-> NoBuild, ext |-> {}]

NoCtr == [ok |-> TRUE, bases |-> {}, basePkgs |-> FALSE, host |-> BaseHost, links |-> {}]

NoWorker == [ok |-> TRUE, deps |-> {}, repos |-> {}]

Constraints(list) ==
    IF req.distro = "rpm" THEN WriteDeps("Requires", list) ELSE AppendConstraints("Depends", list)

ReposFor(env) == {r.name : r \in ToSet(GetExtraRepos(RqDeps, env))}

-----------------------------------------------------------------------------
(* Mounts of persistent caches.  The scope is who is to find what in a      *)
(* cache: the builds of a "platform" of one distro, of a "distro", "all"     *)
(* builds, or, where a spec opts out of the names, whoever uses the key.     *)
(* placed is FALSE for a command that is told its platform only after the    *)
(* key is made.                                                             *)

Mount(use, key, sharing, scope, placed) ==
    [use |-> use, key |-> key, sharing |-> sharing, scope |-> scope, placed |-> placed,
     release |-> Distro(req).release, platform |-> PlatformOf(BuildPlatform(req))]

(* CacheConfig.ToRunOption for every cache of the build.                    *)
SpecMounts ==
    {Mount("spec", CacheKey(c, DistroKey(req), BuildPlatform(req)), CacheSharing(c),
           IF OptsOut(c) THEN "open" ELSE "platform", TRUE) :
        c \in {caches[i] : i \in {j \in DOMAIN caches : Mounts(caches[j])}}}

(* What a package manager mounts when it is run for platform p.             *)
PackageMounts(p, placed) ==
    {Mount("packages", PackageCacheKey(n, req.cacheAddPlatform, p), "locked",
           IF req.cacheAddPlatform THEN "platform" ELSE "distro", placed) : n \in PackageCaches(req)}

InstallMounts == PackageMounts(BuildPlatform(req), TRUE)

(* Modules are downloaded through one proxy cache.                          *)
GomodMounts == IF HasGenerator(RqSpec, "gomod")
               THEN {Mount("gomod", Parts(GomodCache), "shared", "all", TRUE)} ELSE {}

MountsAlso(set) == mounts' = mounts \cup set

-----------------------------------------------------------------------------
(* Steps of a handler.                                                      *)

At(stage) == result = "running" /\ todo # <<>> /\ Head(todo) = stage

Advance == todo' = Tail(todo) /\ UNCHANGED result

Return(res) == todo' = <<>> /\ result' = res

(* The handler goes on when the stage succeeds and returns its error if not. *)
Check(ok) == IF ok /\ req.fault # Head(todo) THEN Advance ELSE Return("error")

(* Validate: the fields rpm needs.  A deb distro checks nothing here.       *)
Validate ==
    /\ At("validate")
    /\ Check(req.distro = "rpm" => ValidateRpmSpec(RqSpec))
    /\ UNCHANGED <<req, reqVars, mounts, hostVars>>

(* Worker: the named context when there is one, the image otherwise.  The   *)
(* context is the client's own worker, with none of the packages installed. *)
Worker ==
    /\ At("worker")
    /\ Check("worker" \notin req.ctxErr)
    /\ MountsAlso(IF req.ctxWorker THEN {} ELSE InstallMounts)
    /\ UNCHANGED <<req, reqVars, hostVars>>

(* Mutant: the generic package goes before the target's.                    *)
GenericFirst ==
    IF "generic" \in req.ctxPkgs THEN "generic" ELSE IF "target" \in req.ctxPkgs THEN "target" ELSE "none"

(* getPrebuiltPackage: the package of this target first, then the generic   *)
(* one; an error of a lookup counts as not found.                           *)
GetPrebuiltPackage ==
    IF "target" \in req.ctxErr THEN "none"
    ELSE IF "target" \in req.ctxPkgs THEN "target"
    ELSE IF "generic" \in req.ctxPkgs \ req.ctxErr THEN "generic" ELSE "none"

(* A package that is found takes the place of the build.                    *)
AfterSign == SelectInSeq(todo, LAMBDA s : s = "sign")

Prebuilt ==
    /\ At("prebuilt")
    /\ IF GetPrebuiltPackage = "none" THEN Advance /\ UNCHANGED pkg
       ELSE /\ pkg' = [NoPkg EXCEPT !.origin = GetPrebuiltPackage, !.arts = RqArtifacts,
                                    !.build = req.prebuilt[GetPrebuiltPackage]]
            /\ todo' = SubSeq(todo, AfterSign + 1, Len(todo))
            /\ UNCHANGED result
    /\ UNCHANGED <<req, worker, caches, ctr, img, tested, mounts, hostVars>>

(* A deb build is for a distro version; the config names it or the worker's *)
(* os-release is read.  HandleSourcePkg always reads it.                    *)
VersionID ==
    /\ At("versionid") \/ At("readversion")
    /\ IF At("versionid") /\ req.versionID # "" THEN Advance ELSE Check(TRUE)
    /\ UNCHANGED <<req, reqVars, mounts, hostVars>>

(* InstallBuildDeps: a virtual package with the build dependencies as its   *)
(* runtime dependencies is built and installed, with the build repos.       *)
InstallBuildDeps ==
    /\ At("builddeps")
    /\ worker' = IF DOMAIN RqDeps.build = {} THEN worker
                 ELSE [ok    |-> worker.ok /\ req.fault # "builddeps",
                       deps  |-> worker.deps \cup Constraints(RqDeps.build),
                       repos |-> worker.repos \cup ReposFor("build")]
    /\ MountsAlso(IF DOMAIN RqDeps.build = {} THEN {} ELSE InstallMounts)
    /\ Advance
    /\ UNCHANGED <<req, caches, pkg, ctr, img, tested, hostVars>>

(* The deb and rpm source package, or the sources of a Windows build.  rpm  *)
(* checks the spec once more, deb only here.                                *)
SrcPkg ==
    /\ At("srcpkg")
    /\ LET ok == CASE req.distro = "rpm" -> ValidateRpmSpec(RqSpec)
                   [] req.distro = "deb" -> ValidateDebSpec(RqSpec)
                   [] OTHER             -> TRUE
       IN  IF ok THEN Advance ELSE Return("error")
    /\ LET src == CASE req.distro = "rpm" -> [ok |-> TRUE, srcs |-> ToSourcesLLB(RqSpec)]
                    [] req.distro = "deb" -> SourcePackage(RqSpec)
                    [] OTHER             -> [ok |-> TRUE, srcs |-> SpecToSources(RqSpec)]
       IN  pkg' = [NoPkg EXCEPT !.origin = "source",
                                !.build.ok = src.ok /\ worker.ok /\ req.fault # "srcpkg",
                                !.build.srcs = src.srcs]
    /\ MountsAlso(IF result' = "error" THEN {} ELSE GomodMounts)
    /\ UNCHANGED <<req, worker, caches, ctr, img, tested, hostVars>>

(* A deb build that needs go from a versioned package looks for it in the   *)
(* worker, which solves the worker.                                         *)
SearchForAltGolang ==
    /\ req.distro = "deb" /\ HasGenerator(RqSpec, "gomod")
    /\ "golang" \notin DOMAIN RqDeps.build /\ "golang-1.22" \in DOMAIN RqDeps.build

GoCache ==
    /\ At("gocache")
    /\ caches' = AddGoCache(RqSpec, req.target)
    /\ Check(SearchForAltGolang => worker.ok)
    /\ UNCHANGED <<req, worker, pkg, ctr, img, tested, mounts, hostVars>>

Build ==
    /\ At("build")
    /\ LET b == CASE req.distro = "rpm" -> RpmBuild(RqSpec, req.target)
                  [] req.distro = "deb" -> BuildDeb(RqSpec, req.target, pkg.build)
                  [] OTHER             -> BuildBinaries(RqSpec, req.target)
       IN  pkg' = [NoPkg EXCEPT !.origin = "build", !.arts = RqArtifacts,
                       !.build = [b EXCEPT !.ok = /\ @ /\ pkg.build.ok /\ worker.ok
                                                  /\ NetworkMode(RqSpec) # "error"
                                                  /\ req.fault # "build"]]
    /\ MountsAlso(SpecMounts)
    /\ Advance
    /\ UNCHANGED <<req, worker, caches, ctr, img, tested, hostVars>>

(* A value that is not a boolean does not disable signing.                  *)
SigningDisabled == req.skipSign = "true"

(* The signer, "" for none.  A config in the client's context overrides the *)
(* spec's; one that is missing, or has no signer, ends the request.         *)
MaybeSign(signer) ==
    IF SigningDisabled THEN ""
    ELSE IF req.signCfg = "" THEN signer
    ELSE IF req.signCfg \in {"missing", "empty"} THEN "error" ELSE req.signCfg

(* The signer is a frontend that solves the package.                        *)
Sign ==
    /\ At("sign")
    /\ LET signer == MaybeSign(GetSigner(RqSpec, req.target))
       IN  IF signer = "" THEN Advance /\ UNCHANGED pkg
           ELSE /\ Check(signer # "error" /\ pkg.build.ok)
                /\ pkg' = [pkg EXCEPT !.signer = signer]
    /\ UNCHANGED <<req, worker, caches, ctr, img, tested, mounts, hostVars>>

(* The package, or the system extension made of it, is solved.              *)
Evaluate ==
    /\ At("evaluate")
    /\ Check(pkg.build.ok)
    /\ UNCHANGED <<req, reqVars, mounts, hostVars>>

(* The packages a system extension adds; rpm does not look at architectures. *)
DownloadDeps(list) ==
    IF req.distro = "rpm" THEN WriteDeps("Sysext", [n \in DOMAIN list |-> [list[n] EXCEPT !.arch = {}]])
    ELSE AppendConstraints("Sysext", list)

Extract ==
    /\ At("extract")
    /\ pkg' = [pkg EXCEPT !.ext = DownloadDeps(RqDeps.sysext)]
    /\ MountsAlso(InstallMounts)
    /\ Advance
    /\ UNCHANGED <<req, worker, caches, ctr, img, tested, hostVars>>

(* The configuration of the base image, or dalec's own without one.         *)
ResolveConfig == IF GetSingleBase(RqSpec, req.target) = "" THEN BaseImageConfig ELSE req.baseCfg

ImgConfig ==
    /\ At("imgconfig")
    /\ Check(GetSingleBase(RqSpec, req.target) # "error")
    /\ img' = BuildImageConfig(RqSpec, req.target, ResolveConfig)
    /\ UNCHANGED <<req, worker, caches, pkg, ctr, tested, mounts, hostVars>>

(* The distro's base packages: rpm leaves them out of a base of the spec's.  *)
(* They are built, and so signed, like the package.                         *)
WithBasePkgs == req.basePkgs /\ (req.distro = "rpm" => GetSingleBase(RqSpec, req.target) = "")

CanBuildContainer ==
    /\ GetSingleBase(RqSpec, req.target) # "error"
    /\ req.distro = "deb" => GetSingleBase(RqSpec, req.target) # "" \/ req.outputImage # ""
    /\ WithBasePkgs => MaybeSign("") # "error"

(* Ubuntu's images leave documentation out, unless the file that says so is *)
(* mounted over; then licenses, which are documentation there, go too.      *)
Unfiltered(build) ==
    IF req.distro = "rpm" \/ HasDocs(RqArtifacts) \/ req.outputImage # "ubuntu" THEN build
    ELSE [build EXCEPT !.files = {f \in @ : Head(f.path) # "doc"}]

BuildContainer ==
    /\ At("container")
    /\ LET h    == InstallOn(req.distro, BaseHost, pkg.arts, Unfiltered(pkg.build))
           post == GetImagePost(RqSpec, req.target)
       IN  ctr' = [ok       |-> /\ pkg.build.ok /\ ~h.failed /\ InstallPostSymlinks(h, post)
                                /\ req.fault # "container",
                   bases    |-> {Prefer(GetSingleBase(RqSpec, req.target), req.outputImage)},
                   basePkgs |-> WithBasePkgs, host |-> h, links |-> PostLinks(post)]
    /\ IF CanBuildContainer THEN Advance ELSE Return("error")
    /\ MountsAlso(IF CanBuildContainer THEN InstallMounts ELSE {})
    /\ UNCHANGED <<req, worker, caches, pkg, img, tested, hostVars>>

(* Without a test the container is not solved.  What the tests depend on is *)
(* installed once it is.                                                    *)
RunTests ==
    /\ At("tests")
    /\ IF req.tests = "none" THEN Advance /\ UNCHANGED tested
       ELSE Check(ctr.ok /\ req.tests = "pass") /\ tested' = pkg
    /\ MountsAlso(IF req.tests # "none" /\ ctr.ok /\ DOMAIN RqDeps.test # {} THEN InstallMounts ELSE {})
    /\ UNCHANGED <<req, worker, caches, pkg, ctr, img, hostVars>>

(* zip is called with the names of the binaries and fails without one.      *)
GetZip == pkg.build.ok /\ pkg.build.files # {}

(* The client exports the reference the handler returns, which solves it.   *)
Delivered ==
    CASE req.route \in {"container", "depsonly"} -> ctr.ok
      [] req.route = "worker"                    -> worker.ok
      [] req.route = "zip"                       -> GetZip
      [] OTHER                                  -> pkg.build.ok

(* Mutant: what is delivered is left among the stages to run.               *)
DeliverAndStay ==
    /\ At("deliver")
    /\ result' = (IF Delivered THEN "ok" ELSE "error")
    /\ UNCHANGED <<req, todo, reqVars, mounts, hostVars>>

Deliver ==
    /\ At("deliver")
    /\ Return(IF Delivered THEN "ok" ELSE "error")
    /\ UNCHANGED <<req, reqVars, mounts, hostVars>>

-----------------------------------------------------------------------------
(* The other routes' own stages.                                            *)

RtDeps ==
    /\ At("rtdeps")
    /\ Check(DOMAIN RqDeps.runtime # {})
    /\ UNCHANGED <<req, reqVars, mounts, hostVars>>

(* The runtime dependencies by their names; no constraint is passed on, and *)
(* neither is the platform: it comes from the worker's state.               *)
Downloads ==
    /\ At("downloads")
    /\ pkg' = [NoPkg EXCEPT !.origin = "deps", !.build.ok = worker.ok /\ req.fault # "downloads",
                            !.build.deps = {AnyVersion("Requires", n) : n \in DOMAIN RqDeps.runtime}]
    /\ MountsAlso(PackageMounts("", FALSE))
    /\ Advance
    /\ UNCHANGED <<req, worker, caches, ctr, img, tested, hostVars>>

(* DebugWorker: a generator needs its tool among the build dependencies.    *)
ToolCheck ==
    /\ At("toolcheck")
    /\ Check(/\ HasGenerator(RqSpec, "gomod") => HasGolang(RqSpec, req.target)
             /\ HasGenerator(RqSpec, "cargohome") => "rust" \in DOMAIN RqDeps.build
             /\ HasGenerator(RqSpec, "nodemod") => HasNpm(RqSpec, req.target))
    /\ UNCHANGED <<req, reqVars, mounts, hostVars>>

Sources ==
    /\ At("sources")
    /\ pkg' = [NoPkg EXCEPT !.origin = "source", !.build.ok = worker.ok /\ req.fault # "sources",
                            !.build.srcs = ToSourcesLLB(RqSpec)]
    /\ MountsAlso(GomodMounts)
    /\ Advance
    /\ UNCHANGED <<req, worker, caches, ctr, img, tested, hostVars>>

(* The configuration of the worker's image is resolved.                     *)
WorkerConfig ==
    /\ At("workerconfig")
    /\ Check(TRUE)
    /\ UNCHANGED <<req, reqVars, mounts, hostVars>>

(* The base images of a Windows container: one platform is asked for, and   *)
(* no two bases are for the same one.                                       *)
WinBases ==
    /\ At("winbases")
    /\ Check(req.platforms <= 1 /\ IsInjective(req.basePlatforms))
    /\ UNCHANGED <<req, reqVars, mounts, hostVars>>

WinValidate ==
    /\ At("winvalidate")
    /\ Check(ValidateRuntimeDeps(RqSpec, req.target))
    /\ UNCHANGED <<req, reqVars, mounts, hostVars>>

WinImage ==
    /\ At("winimage")
    /\ LET post == GetImagePost(RqSpec, req.target)
       IN  ctr' = [ok       |-> pkg.build.ok /\ CopySymlinks(pkg.build, post),
                   bases    |-> IF GetImageBases(RqSpec, req.target) = <<>> THEN {"nanoserver"}
                                ELSE ToSet(GetImageBases(RqSpec, req.target)),
                   basePkgs |-> FALSE,
                   host     |-> Unpack(BaseHost, [p \in PathsOf(pkg.build) |-> RootOwned]),
                   links    |-> PostLinks(post)]
    /\ img' = BuildImageConfig(RqSpec, req.target, req.baseCfg)
    /\ Check(TRUE)
    /\ UNCHANGED <<req, worker, caches, pkg, tested, mounts, hostVars>>

-----------------------------------------------------------------------------
(* A user's machine, on which a delivered package is installed, upgraded to *)
(* its next build and removed, while the administrator changes the units.   *)

CanInstall == result = "ok" /\ req.route = "package"

HostInstall ==
    /\ CanInstall /\ life = "none"
    /\ host' = InstallOn(req.distro, host, pkg.arts, pkg.build)
    /\ life' = IF host'.failed THEN "broken" ELSE "installed"
    /\ UNCHANGED <<req, todo, reqVars, result, mounts, toggles, served>>

OwnUnits == {UnitName(k, pkg.arts.units[k]) : k \in DOMAIN pkg.arts.units}

AdminToggle(u) ==
    /\ life = "installed" /\ toggles < MaxToggles
    /\ host' = [host EXCEPT !.enabled = IF u \in @ THEN @ \ {u} ELSE @ \cup {u}]
    /\ toggles' = toggles + 1
    /\ UNCHANGED <<req, todo, reqVars, result, mounts, life, served>>

HostUpgrade ==
    /\ life = "installed"
    /\ host' = UpgradeOn(req.distro, host, pkg.arts, pkg.build)
    /\ life' = "upgraded"
    /\ UNCHANGED <<req, todo, reqVars, result, mounts, toggles, served>>

HostRemove ==
    /\ life \in {"installed", "upgraded"}
    /\ host' = RemoveFrom(req.distro, host, pkg.arts, pkg.build)
    /\ life' = IF host'.failed THEN "stuck" ELSE "removed"
    /\ UNCHANGED <<req, todo, reqVars, result, mounts, toggles, served>>

-----------------------------------------------------------------------------

Init ==
    /\ \E r \in DOMAIN Cases : req = Cases[r]
    /\ todo = Handler(req.distro, req.route) /\ caches = req.spec.caches
    /\ worker = NoWorker /\ pkg = NoPkg /\ ctr = NoCtr /\ img = NoImage /\ tested = NoPkg
    /\ result = "running" /\ mounts = {}
    /\ host = BaseHost /\ life = "none" /\ toggles = 0 /\ served = 0

(* The persistent caches are all that a later request finds.                *)
NextRequest(r) ==
    /\ result # "running" /\ life = "none" /\ served = 0
    /\ req' = Cases[r] /\ todo' = Handler(req'.distro, req'.route) /\ caches' = req'.spec.caches
    /\ worker' = NoWorker /\ pkg' = NoPkg /\ ctr' = NoCtr /\ img' = NoImage /\ tested' = NoPkg
    /\ result' = "running" /\ served' = 1
    /\ UNCHANGED <<mounts, host, life, toggles>>

Stage ==
    \/ Validate \/ Worker \/ Prebuilt \/ VersionID \/ InstallBuildDeps \/ SrcPkg \/ GoCache
    \/ Build \/ Sign \/ Evaluate \/ Extract \/ ImgConfig \/ BuildContainer \/ RunTests \/ Deliver
    \/ RtDeps \/ Downloads \/ ToolCheck \/ Sources \/ WorkerConfig
    \/ WinBases \/ WinValidate \/ WinImage

Next ==
    \/ Stage
    \/ HostInstall \/ HostUpgrade \/ HostRemove
    \/ \E u \in OwnUnits : AdminToggle(u)
    \/ \E r \in Followers : NextRequest(r)

Spec == Init /\ [][Next]_vars

-----------------------------------------------------------------------------
(* Properties.                                                              *)

(* Every variable has the shape the handlers give it: the stages left are a *)
(* suffix of the handler of the request, and only a delivered package has    *)
(* reached a machine.                                                       *)
TypeOK ==
    /\ LET all == Handler(req.distro, req.route)
       IN  \E n \in 1..(Len(all) + 1) : todo = SubSeq(all, n, Len(all))
    /\ result \in {"running", "ok", "error"} /\ (result # "running" => todo = <<>>)
    /\ pkg.origin \in {"none", "source", "build", "target", "generic", "deps"}
    /\ worker.ok \in BOOLEAN /\ ctr.ok \in BOOLEAN
    /\ life \in {"none", "installed", "upgraded", "removed", "stuck", "broken"}
    /\ life # "none" => CanInstall
    /\ toggles \in 0..MaxToggles /\ served \in 0..1

=============================================================================
