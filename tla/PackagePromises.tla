--------------------------- MODULE PackagePromises ---------------------------
(***************************************************************************)
(* What a spec promises its user, stated without the packagers' rules, and   *)
(* the properties that hold a delivered package, container or machine to it. *)
(* The places where the code is known to do something else are operators of *)
(* their own, named for what happens there.                                 *)
(***************************************************************************)
EXTENDS DistroBuild

Deb == req.distro = "deb"
Rpm == req.distro = "rpm"
Linux == Deb \/ Rpm

(* A package that was built here and that can be solved.                    *)
Built == pkg.origin = "build" /\ pkg.build.ok

-----------------------------------------------------------------------------
(* Files.                                                                   *)

Declared == UNION {{[kind |-> k, key |-> key, cfg |-> RqArtifacts[k][key]] :
                       key \in DOMAIN RqArtifacts[k]} : k \in FileKinds}

Wild(r) == Base[r.key] = "*"

Home(k) == IF k = "licenses" /\ Deb THEN "doc" ELSE RpmRoot[k]

Section(r) == IF r.kind = "manpages" THEN Prefer(r.cfg.sub, Parent[r.key]) ELSE r.cfg.sub

Place(r, f) == Join(<<Home(r.kind), Section(r), Prefer(r.cfg.name, f)>>)

Places(r) == {Place(r, f) : f \in Glob[r.key]}

StatedPerm(r) == IF r.cfg.perm # 0 THEN r.cfg.perm ELSE InlinePerm(RqSpec, r.key)

(* A manual page that debhelper installs in its section.                    *)
SectionPage(r) == r.kind = "manpages" /\ ByDebhelper(r.kind, r.key, r.cfg)

(* A deb puts a wildcard that names one file, a manual page that is renamed *)
(* or moved, and a file with the path of a declared directory in another    *)
(* place.                                                                   *)
PlacedElsewhere(r) ==
    /\ Deb
    /\ \/ Places(r) \cap DhInstalldirs(RqArtifacts) # {}
       \/ Wild(r) /\ (Cardinality(Glob[r.key]) = 1 \/ r.cfg.name # "")
       \/ r.kind = "manpages" /\ ~SectionPage(r)

(* A wildcard's permission is not that of its files, and a deb reads the    *)
(* permission of a source only when some artifact has one of its own.       *)
PermUnset(r) == Wild(r) \/ (Deb /\ ~OverridePerms(RqArtifacts))

OtherPlaces ==
    {<<"etc", n>> : n \in DOMAIN RqArtifacts.configDirs}
    \cup {<<"state", n>> : n \in DOMAIN RqArtifacts.stateDirs}
    \cup {<<"unit", UnitName(k, RqArtifacts.units[k])>> : k \in DOMAIN RqArtifacts.units}
    \cup {Join(<<"unit", RqArtifacts.dropins[k].unit, Prefer(RqArtifacts.dropins[k].name, Base[k])>>) :
             k \in DOMAIN RqArtifacts.dropins}
    \cup {RqArtifacts.links[i].dest : i \in DOMAIN RqArtifacts.links}

FilesAsDeclared ==
    LET placed == {r \in Declared : ~PlacedElsewhere(r)}
        paths  == PathsOf(pkg.build)
    IN  /\ OtherPlaces \cup UNION {Places(r) : r \in placed} \subseteq paths
        /\ placed = Declared => paths = OtherPlaces \cup UNION {Places(r) : r \in Declared}
        /\ \A r \in placed : ~PermUnset(r) =>
               \A p \in Places(r) : [path |-> p, perm |-> StatedPerm(r)] \in pkg.build.files

-----------------------------------------------------------------------------
(* Dependencies: what a version constraint means in a spec, and how rpm and *)
(* dpkg read the one the package carries.                                   *)

Means(op) == CASE op \in {"", "=", "=="} -> "eq" [] op \in {"<", "<<"} -> "lt"
               [] op \in {">", ">>"} -> "gt" [] OTHER -> op

RpmReads(op) == CASE op = "" -> "any" [] op \in {"=", "=="} -> "eq" [] op = "<" -> "lt"
                  [] op = ">" -> "gt" [] op \in {"<=", ">="} -> op [] OTHER -> "malformed"

(* A single < or > is an old way to write <= or >=.                         *)
DpkgReads(op) == CASE op = "" -> "any" [] op = "=" -> "eq" [] op = "<<" -> "lt" [] op = ">>" -> "gt"
                   [] op \in {"<", "<="} -> "<=" [] op \in {">", ">="} -> ">=" [] OTHER -> "malformed"

Stated(list) ==
    UnionOfMap(list, LAMBDA n, c :
        {[name |-> n, op |-> IF v.op = "any" THEN "any" ELSE Means(v.op), v |-> v.v, arch |-> arch] :
            v \in IF c.version = <<>> THEN {[op |-> "any", v |-> 0]} ELSE ToSet(c.version),
            arch \in IF c.arch = {} THEN {""} ELSE c.arch})

Carried(deps, tag) ==
    {[name |-> d.name, op |-> IF Rpm THEN RpmReads(d.op) ELSE DpkgReads(d.op), v |-> d.v,
      arch |-> d.arch] :
        d \in {e \in deps : e.tag = tag /\
                   e.name \notin {"${shlibs:Depends}", "${misc:Depends}", "debhelper-compat"}}}

(* A list of the target's, when it has one, goes before the spec's.         *)
Wanted(part) ==
    LET own == OrElse(TargetOf(RqSpec, req.target).deps, NoDeps)[part]
    IN  IF DOMAIN own # {} THEN own ELSE OrElse(RqSpec.deps, NoDeps)[part]

DepsAsDeclared ==
    LET carries(rpmTag, debTag, list) ==
            Carried(pkg.build.deps, IF Rpm THEN rpmTag ELSE debTag) = Stated(list)
    IN  /\ carries("Requires", "Depends", Wanted("runtime"))
        /\ carries("BuildRequires", "Build-Depends", Wanted("build"))
        /\ carries("Recommends", "Recommends", Wanted("recommends"))
        /\ carries("Obsoletes", "Replaces", GetReplaces(RqSpec, req.target))
        /\ carries("Provides", "Provides", GetProvides(RqSpec, req.target))
        /\ carries("Conflicts", "Conflicts", GetConflicts(RqSpec, req.target))

(* The source package has every source and archive that the build reads;    *)
(* rpm's has no pip archive.                                                *)
SourcesComplete ==
    DOMAIN RqSpec.sources \cup DepArchives(RqSpec) \subseteq
        {s.name : s \in pkg.build.srcs} \cup (IF Rpm THEN {"pip"} ELSE {})

(* Of entries with several dates a deb takes the oldest, where              *)
(* template_changelog.go says "the most recent changelog entry only".       *)
OldestTaken == \E e, o \in RqSpec.changelog : e.date # o.date

(* A deb's changelog has the most recent entry of the spec's.               *)
ChangeAsDeclared ==
    RqSpec.changelog # {} /\ ~OldestTaken =>
        /\ pkg.build.change \in RqSpec.changelog
        /\ \A e \in RqSpec.changelog : e.date <= pkg.build.change.date

(* The merge of a target's dependencies with the spec's forgets what a      *)
(* system extension adds.                                                   *)
SysextForgotten == RqSpec.deps # Nil /\ TargetOf(RqSpec, req.target).deps # Nil

(* rpm downloads the packages of every architecture.                        *)
SysextAsDeclared ==
    LET bare(deps) == IF Deb THEN deps ELSE {[d EXCEPT !.arch = ""] : d \in deps}
    IN  bare(Carried(pkg.ext, "Sysext")) = bare(Stated(Wanted("sysext")))

(* An Ubuntu image is made without documentation, licenses included, when   *)
(* the package has neither documents nor manual pages.                      *)
LeftOutOfImage(p) == Deb /\ Head(p) = "doc" /\ ~HasDocs(RqArtifacts)

(* A package that builds holds each declared artifact in its place and with *)
(* its stated permission, nothing else, dependencies that rpm and dpkg read  *)
(* as the spec means them, in its source package every source and, on a      *)
(* deb, the newest entry of the changelog; the container holds its files, and *)
(* a system extension what it adds to it.                                   *)
PackageCarriesDeclared ==
    Linux /\ Built =>
        /\ FilesAsDeclared /\ DepsAsDeclared /\ SourcesComplete /\ (Deb => ChangeAsDeclared)
        /\ ctr.ok /\ ctr # NoCtr =>
               \A p \in PathsOf(pkg.build) : p \in DOMAIN ctr.host.files \/ LeftOutOfImage(p)
        /\ result = "ok" /\ req.route = "sysext" => SysextAsDeclared \/ SysextForgotten

(* The patches of a source are applied as the spec lists them: every patch  *)
(* file once, in order, several files of one source included.               *)
DocumentedPatchesApplied ==
    pkg.origin = "build" =>
        \A n \in DOMAIN RqSpec.patches :
            pkg.build.patched[n] = [i \in DOMAIN RqSpec.patches[n] |-> PatchFile(RqSpec.patches[n][i])]

-----------------------------------------------------------------------------
(* Success and failure of a request.                                        *)

(* Whether some patch is applied twice: to a source whose node modules were *)
(* resolved, or on a deb because of another one from the same source.       *)
PatchedTwice ==
    \E n \in DOMAIN RqSpec.patches :
        \/ "nodemod" \in RqSpec.sources[n].gens
        \/ Deb /\ \E i, j \in DOMAIN RqSpec.patches[n] :
                      i # j /\ RqSpec.patches[n][i].source = RqSpec.patches[n][j].source

(* Specs that pass validation and that a packager cannot build.             *)
PackagerLimit ==
    \/ Rpm /\ \E r \in Declared :
          \/ r.kind = "manpages" /\ r.cfg.sub = ""
          \/ Cardinality(Glob[r.key]) > 1 /\ r.cfg.name # ""
    \/ Deb /\ \E r \in Declared :
          /\ r.cfg.perm # 0 \/ (OverridePerms(RqArtifacts) /\ StatedPerm(r) # 0)
          /\ Wild(r) \/ SectionPage(r)
    \/ req.distro = "windows" /\ \E key \in DOMAIN RqArtifacts.binaries :
          Base[key] = "*" \/ (RqArtifacts.binaries[key].perm # 0 /\ Parent[key] # "")
    \/ req.distro = "windows" /\ \E i \in DOMAIN RqSpec.steps :
          RqSpec.steps[i].env /\ ~RqSpec.steps[i].names

(* Packages that build and whose postinst fails: dpkg stops there.          *)
PostinstLimit ==
    Deb /\ \E r \in Declared : /\ r.cfg.user # "" \/ r.cfg.group # ""
                               /\ Wild(r) \/ SectionPage(r)

InvalidSpec ==
    \/ Rpm /\ "" \in {RqSpec.name, RqSpec.version, RqSpec.revision, RqSpec.description, RqSpec.license}
    \/ Deb /\ RqSpec.packager = ""
    \/ RqSpec.net \notin {"", "none", "sandbox"}
    \/ Linux /\ Len(GetImageBases(RqSpec, req.target)) > 1
    \/ \E l, o \in PostLinks(GetImagePost(RqSpec, req.target)) :
           \/ l.path \in DOMAIN BaseHost.files \/ (l.path = o.path /\ l # o)
           \/ l.user \notin {"", "root"} \cup ToSet(RqArtifacts.users)
           \/ l.group \notin {"", "root"} \cup ToSet(RqArtifacts.groups)

(* What the client asked for that cannot be had.                            *)
InvalidRequest ==
    \/ req.skipSign # "true" /\ req.signCfg \in {"missing", "empty"}
    \/ Deb /\ req.outputImage = "" /\ GetImageBases(RqSpec, req.target) = <<>>
    \/ req.route = "depsonly" /\ DOMAIN RqDeps.runtime = {}
    \/ req.route = "sources" /\ \E n \in DOMAIN RqSpec.sources : RqSpec.sources[n].gens # {}
    \/ req.distro = "windows" /\ (req.platforms > 1 \/ ~IsInjective(req.basePlatforms)
                                 \/ DOMAIN RqDeps.runtime # {})
    \/ req.route = "zip" /\ DOMAIN RqArtifacts.binaries = {}

(* A request that fails was given a reason to: a service failed, the spec   *)
(* or the request is invalid, a build command or a test failed, or the spec *)
(* is one of those the packagers are known not to build.                    *)
ErrorsAreJustified ==
    result = "error" =>
        \/ req.fault # "" \/ req.ctxErr # {} \/ InvalidSpec \/ InvalidRequest
        \/ ~ScriptSucceeds(RqSpec) \/ req.tests = "fail"
        \/ PatchedTwice \/ PackagerLimit \/ PostinstLimit

-----------------------------------------------------------------------------
(* The signer that the request and the spec ask for.                        *)
WantedSigner ==
    IF req.skipSign = "true" THEN ""
    ELSE Prefer(req.signCfg, Prefer(TargetOf(RqSpec, req.target).signer, RqSpec.signer))

(* The Windows build script goes on after a line that fails, and the line   *)
(* after a step's variables is not run.                                     *)
HidesFailure == req.distro = "windows" /\ \E i \in DOMAIN RqSpec.steps :
                    RqSpec.steps[i].env \/ FALSE \in ToSet(Front(RqSpec.steps[i].cmds))

(* A lookup in the client's contexts that failed.  The code builds the      *)
(* package instead, where distro_handler.go says twice "surface the error up *)
(* when the state gets marshalled".                                         *)
LookupFailed ==
    \/ "target" \in req.ctxErr
    \/ "target" \notin req.ctxPkgs /\ "generic" \in req.ctxErr

WantedOrigin == IF "target" \in req.ctxPkgs THEN "target"
                ELSE IF "generic" \in req.ctxPkgs THEN "generic" ELSE "build"

(* A request that succeeds has done what it was asked for.  A container or  *)
(* system extension is made of the client's own package for the target, or  *)
(* else of its generic one, or else of a build, unless a lookup failed.  A   *)
(* build ran every command with success, unless a Windows script hid it, and *)
(* is signed by the signer asked for.  What was tested is the very package   *)
(* that is delivered.                                                       *)
SuccessIsReal ==
    result = "ok" /\ req.route \in {"package", "container", "sysext", "zip"} =>
        /\ req.route \in {"container", "sysext"} /\ Linux /\ ~LookupFailed => pkg.origin = WantedOrigin
        /\ pkg.origin = "build" =>
               pkg.signer = WantedSigner /\ (pkg.build.complete \/ HidesFailure)
        /\ pkg.origin \in {"target", "generic", "build"} /\ pkg.build.ok
        /\ Linux /\ req.tests # "none" => req.tests = "pass" /\ tested = pkg

-----------------------------------------------------------------------------
(* Owners.  A machine with the package is the container, or a host.         *)

Machines == (IF ctr.ok /\ ctr.host # BaseHost /\ Linux THEN {ctr.host} ELSE {})
            \cup (IF life \in {"installed", "upgraded"} THEN {host} ELSE {})

Owner(cfg) == [user |-> Prefer(cfg.user, "root"), group |-> Prefer(cfg.group, "root")]

OwnedDirs == {[path |-> <<"etc", n>>, own |-> Owner(RqArtifacts.configDirs[n])] :
                 n \in DOMAIN RqArtifacts.configDirs}
             \cup {[path |-> <<"state", n>>, own |-> Owner(RqArtifacts.stateDirs[n])] :
                 n \in DOMAIN RqArtifacts.stateDirs}

(* rpm gives the owner of a wildcard to the whole directory it is copied to. *)
TakesDirectory(r) == Rpm /\ Wild(r) /\ Owner(r.cfg) # RootOwned

(* rpm sets the owner of four kinds only.  An owned directory is changed    *)
(* last, with all that is in it.                                            *)
OwnerUnset(r) ==
    \/ Rpm /\ r.kind \notin {"configFiles", "dataDirs", "libs", "binaries"}
    \/ \E d \in OwnedDirs : \E p \in Places(r) : d.own # RootOwned /\ IsPrefix(d.path, p)
    \/ \E q \in Declared : TakesDirectory(q) /\ q.kind = r.kind
    \/ PlacedElsewhere(r)

(* On every machine a package is installed on, each file and directory has  *)
(* the owner the spec states, root where it states none, links included; no *)
(* file of another package changes hands.                                   *)
OwnersAsDeclared ==
    pkg.origin = "build" => \A h \in Machines :
        /\ \A r \in Declared : ~OwnerUnset(r) =>
               \A p \in Places(r) \cap DOMAIN h.files : h.files[p] = Owner(r.cfg)
        /\ \A d \in OwnedDirs : h.files[d.path] = d.own
        /\ \A i \in DOMAIN RqArtifacts.links :
               h.files[RqArtifacts.links[i].dest] = Owner(RqArtifacts.links[i])
        /\ (\A r \in Declared : ~TakesDirectory(r)) =>
               \A p \in DOMAIN BaseHost.files : h.files[p] = RootOwned

-----------------------------------------------------------------------------
(* systemd units.                                                           *)

UnitKeys == DOMAIN RqArtifacts.units

NameOf(k) == UnitName(k, RqArtifacts.units[k])

(* A postinst of dalec's own takes the place of debhelper's, and with it of *)
(* the snippets that enable units.                                          *)
SnippetLost(k) ==
    /\ Deb /\ HasPostInst(RqArtifacts)
    /\ \A j \in UnitKeys : Stem[NameOf(j)] = Stem[NameOf(k)] =>
           RqArtifacts.units[j].enable = RqArtifacts.units[k].enable

(* After a first installation exactly the units the spec enables are        *)
(* enabled, also where units of one name differ.                            *)
UnitsAsDeclared ==
    pkg.origin = "build" =>
        \A h \in (IF toggles = 0 /\ life = "installed" THEN {host} ELSE {})
                 \cup (IF ctr.ok /\ ctr.host # BaseHost /\ Linux THEN {ctr.host} ELSE {}) :
            \A k \in UnitKeys : ~SnippetLost(k) =>
                (NameOf(k) \in h.enabled) = RqArtifacts.units[k].enable

(* An upgrade leaves every unit as the administrator has set it.            *)
AdminChoiceKept == [][life = "installed" /\ life' = "upgraded" => host'.enabled = host.enabled]_vars

(* rpm's %preun names a renamed unit by its old name.                       *)
RenamedUnit == Rpm /\ \E k \in UnitKeys : RqArtifacts.units[k].enable /\ NameOf(k) # Base[k]

(* rpm's %preun passes over the units the spec does not enable.             *)
PassedOver == {NameOf(k) : k \in {j \in UnitKeys : Rpm /\ ~RqArtifacts.units[j].enable}}

(* A delivered package can be installed and removed, and its removal leaves *)
(* neither a file nor an enabled unit behind, whatever the administrator did *)
(* in between.                                                              *)
LifecycleIsClean ==
    /\ life = "broken" => PostinstLimit
    /\ life = "stuck" => RenamedUnit
    /\ life = "removed" => /\ DOMAIN host.files = DOMAIN BaseHost.files
                           /\ host.enabled \subseteq PassedOver \/ RenamedUnit

-----------------------------------------------------------------------------

(* The caches that a build mounts keep it apart from the builds it has       *)
(* nothing to do with, although BuildKit joins the names of a key to one      *)
(* string.  Two mounts with one key are of the same use; except for the one  *)
(* cache of Go modules, they are of the same distro; and when the cache is    *)
(* meant for one platform, of the same platform.  No two package managers    *)
(* write to a cache at once.  A cache whose spec opts out of the names, and  *)
(* the downloads of a dependencies-only container, which are not told their *)
(* platform, are left out.                                                  *)
CachesApart ==
    \A m, n \in mounts : m.key = n.key /\ m.scope # "open" /\ n.scope # "open" =>
        /\ m.use = n.use
        /\ m.use # "gomod" => m.release = n.release
        /\ m.scope = "platform" /\ m.placed /\ n.placed => m.platform = n.platform
        /\ m.use = "packages" => n.sharing = "locked"

-----------------------------------------------------------------------------
(* The image configuration.  Of several values of a variable the last holds. *)

ValueOf(env, k) == env[SelectLastInSeq(env, LAMBDA e : e.k = k)].v

Keys(env) == {e.k : e \in ToSet(env)}

WantedEnv == OrElse(RqSpec.image, NoImage).env \o OrElse(TargetOf(RqSpec, req.target).image, NoImage).env

(* A value the base image has, set back after another one, stays where the  *)
(* base image has it, although image.go says "If the env var already exists, *)
(* replace it".                                                             *)
Reverted(k) ==
    /\ \E e \in ToSet(ResolveConfig.env) : e.k = k /\ e.v = ValueOf(WantedEnv, k)
    /\ \E e \in ToSet(ResolveConfig.env) \cup ToSet(WantedEnv) : e.k = k /\ e.v # ValueOf(WantedEnv, k)

(* A target's user is not merged, although virtual-packages.md lets it      *)
(* "Override image settings for specific targets".                          *)
TargetUserIgnored == OrElse(TargetOf(RqSpec, req.target).image, NoImage).user # ""

(* The image starts what the spec and its target ask for, the target first: *)
(* each variable has its last value and those of the base image that nobody *)
(* sets are kept; a new entrypoint does not get the old command; working     *)
(* directory, stop signal, user and every label fall back from target to     *)
(* spec to base, and the volumes of all three are there.                    *)
ImageConfigAsDeclared ==
    result = "ok" /\ req.route = "container" =>
        LET s    == OrElse(RqSpec.image, NoImage)
            t    == OrElse(TargetOf(RqSpec, req.target).image, NoImage)
            base == IF Linux THEN ResolveConfig ELSE req.baseCfg
            entry == Prefer(t.entrypoint, s.entrypoint)
            cmd   == Prefer(t.cmd, s.cmd)
        IN  /\ \A k \in Keys(WantedEnv) : ~Reverted(k) => ValueOf(img.env, k) = ValueOf(WantedEnv, k)
            /\ \A k \in Keys(base.env) \ Keys(WantedEnv) : ValueOf(img.env, k) = ValueOf(base.env, k)
            /\ img.entrypoint = Prefer(entry, base.entrypoint)
            /\ img.cmd = (IF entry # "" THEN cmd ELSE Prefer(cmd, base.cmd))
            /\ img.dir = Prefer(t.dir, Prefer(s.dir, base.dir))
            /\ img.signal = Prefer(t.signal, Prefer(s.signal, base.signal))
            /\ img.user = Prefer(t.user, Prefer(s.user, base.user)) \/ TargetUserIgnored
            /\ img.labels = t.labels @@ s.labels @@ base.labels
            /\ img.volumes = s.volumes \cup t.volumes \cup base.volumes

=============================================================================
