---------------------------- MODULE MCDistroBuild ----------------------------
(***************************************************************************)
(* Requests for the model checker.  Each one starts from a plain request of  *)
(* its distro and changes what it is about.                                 *)
(***************************************************************************)
EXTENDS PackagePromises

Table(rows) == [k \in {r[1] : r \in rows} |-> (CHOOSE r \in rows : r[1] = k)]

(* Artifact keys: key, base, parent, first element, files.                  *)
Rows == {<<"bin/app", "app", "bin", "bin", {"app"}>>, <<"conf", "conf", "", "conf", {"conf"}>>,
         <<"data/*", "*", "data", "data", {"d1", "d2"}>>, <<"one/*", "*", "one", "one", {"o1"}>>,
         <<"man1/app.1", "app.1", "man1", "man1", {"app.1"}>>, <<"README", "README", "", "README", {"README"}>>,
         <<"LICENSE", "LICENSE", "", "LICENSE", {"LICENSE"}>>, <<"lib/x.so", "x.so", "lib", "lib", {"x.so"}>>,
         <<"inc/x.h", "x.h", "inc", "inc", {"x.h"}>>, <<"u/10.conf", "10.conf", "u", "u", {"10.conf"}>>,
         <<"u/app.service", "app.service", "u", "u", {"app.service"}>>,
         <<"u/app.socket", "app.socket", "u", "u", {"app.socket"}>>,
         <<"u/old.service", "old.service", "u", "u", {"old.service"}>>}

MCBase == [k \in DOMAIN Table(Rows) |-> Table(Rows)[k][2]]
MCParent == [k \in DOMAIN Table(Rows) |-> Table(Rows)[k][3]]
MCSrcOf == [k \in DOMAIN Table(Rows) |-> Table(Rows)[k][4]]
MCGlob == [k \in DOMAIN Table(Rows) |-> Table(Rows)[k][5]]
MCStem == ("app.service" :> "app") @@ ("app.socket" :> "app") @@ ("old.service" :> "old")
          @@ ("new.service" :> "new")

MCKeyOrder == <<"LICENSE", "README", "app.d", "bin/app", "conf", "data/*", "inc/x.h", "lib/x.so",
                "man1/app.1", "one/*", "run.d", "u/10.conf", "u/app.service", "u/app.socket",
                "u/old.service">>

(* Strings with a "-" in them.                                              *)
MCDashed ==
    ("azlinux3-tdnf-cache" :> <<"azlinux3", "tdnf", "cache">>)
    @@ ("almalinux8-dnf-cache" :> <<"almalinux8", "dnf", "cache">>)
    @@ ("jammydalec-var-cache-apt" :> <<"jammydalec", "var", "cache", "apt">>)
    @@ ("jammydalec-var-lib-apt" :> <<"jammydalec", "var", "lib", "apt">>)
    @@ ("bookwormdalec-var-cache-apt" :> <<"bookwormdalec", "var", "cache", "apt">>)
    @@ ("bookwormdalec-var-lib-apt" :> <<"bookwormdalec", "var", "lib", "apt">>)
    @@ ("jammy-windowscrossdalec-var-cache-apt" :> <<"jammy", "windowscrossdalec", "var", "cache", "apt">>)
    @@ ("jammy-windowscrossdalec-var-lib-apt" :> <<"jammy", "windowscrossdalec", "var", "lib", "apt">>)
    @@ ("dalec-gomod-proxy-cache" :> <<"dalec", "gomod", "proxy", "cache">>)
    @@ ("dalec-gobuildcache" :> <<"dalec", "gobuildcache">>) @@ ("dalec-rustsccache" :> <<"dalec", "rustsccache">>)
    @@ ("dalec-bazelcache" :> <<"dalec", "bazelcache">>) @@ ("linux/arm64-k" :> <<"linux/arm64", "k">>)
    @@ ("azl3-linux/arm64-k" :> <<"azl3", "linux/arm64", "k">>)

-----------------------------------------------------------------------------
(* Artifacts.                                                               *)

Plain == [name |-> "", sub |-> "", perm |-> 0, user |-> "", group |-> ""]
DirCfg == [mode |-> 0, user |-> "", group |-> ""]
Unit(name, enable, start) == [name |-> name, enable |-> enable, start |-> start]

App == [NoArtifacts EXCEPT !.binaries = "bin/app" :> Plain]

Everything ==
    [App EXCEPT !.manpages = "man1/app.1" :> [Plain EXCEPT !.sub = "man1"],
                !.dataDirs = "data/*" :> [Plain EXCEPT !.sub = "app"],
                !.configFiles = "conf" :> [Plain EXCEPT !.perm = 600, !.user = "svc"],
                !.docs = "README" :> Plain, !.licenses = "LICENSE" :> Plain,
                !.libs = "lib/x.so" :> [Plain EXCEPT !.name = "y.so", !.group = "grp"],
                !.headers = "inc/x.h" :> [Plain EXCEPT !.sub = "app"],
                !.configDirs = "app.d" :> [DirCfg EXCEPT !.mode = 750],
                !.stateDirs = "run.d" :> [DirCfg EXCEPT !.user = "svc", !.group = "grp"],
                !.dropins = "u/10.conf" :> [name |-> "", unit |-> "app.service"],
                !.links = <<[dest |-> <<"bin", "alias">>, user |-> "svc", group |-> ""]>>,
                !.users = <<"svc">>, !.groups = <<"grp">>]

Units == [App EXCEPT !.units = ("u/app.service" :> Unit("", TRUE, TRUE))
                               @@ ("u/app.socket" :> Unit("", FALSE, FALSE))]
OneUnit(name) == [App EXCEPT !.units = "u/old.service" :> Unit(name, TRUE, FALSE)]
UserUnit == [OneUnit("") EXCEPT !.users = <<"svc">>]
LinkUnit == [OneUnit("") EXCEPT !.links = <<[dest |-> <<"bin", "alias">>, user |-> "", group |-> ""]>>]
OffUnit == [App EXCEPT !.units = "u/old.service" :> Unit("", FALSE, FALSE)]

(* What the packagers treat in a way of their own.                          *)
Inline == [App EXCEPT !.configFiles = "conf" :> Plain]
ManNoSub == [App EXCEPT !.manpages = "man1/app.1" :> Plain]
ManRenamed == [App EXCEPT !.manpages = "man1/app.1" :> [Plain EXCEPT !.name = "b.1", !.sub = "man1"]]
ManPerm == [App EXCEPT !.manpages = "man1/app.1" :> [Plain EXCEPT !.sub = "man1", !.perm = 600]]
WildOne == [App EXCEPT !.dataDirs = "one/*" :> [Plain EXCEPT !.sub = "app"]]
WildRenamed == [App EXCEPT !.dataDirs = "data/*" :> [Plain EXCEPT !.name = "d"]]
WildPerm == [App EXCEPT !.dataDirs = "data/*" :> [Plain EXCEPT !.sub = "app", !.perm = 600]]
WildOwner == [App EXCEPT !.configFiles = "data/*" :> [Plain EXCEPT !.user = "svc"], !.users = <<"svc">>]
Nested == [App EXCEPT !.configFiles = "conf" :> [Plain EXCEPT !.sub = "app.d"],
                      !.configDirs = "app.d" :> [DirCfg EXCEPT !.user = "svc"], !.users = <<"svc">>]
HeaderOwner == [App EXCEPT !.headers = "inc/x.h" :> [Plain EXCEPT !.user = "svc"], !.users = <<"svc">>]
OverDir == [App EXCEPT !.configFiles = "conf" :> [Plain EXCEPT !.name = "app.d"], !.configDirs = "app.d" :> DirCfg]
Docless == [App EXCEPT !.licenses = "LICENSE" :> Plain]

-----------------------------------------------------------------------------
(* Specs.                                                                   *)

Src(dir, gens, perm) == [dir |-> dir, gens |-> gens, perm |-> perm]
Con(version, arch) == [version |-> version, arch |-> arch]
Ver(op, v) == [op |-> op, v |-> v]
Step(env, names, cmds) == [env |-> env, names |-> names, cmds |-> cmds]

Deps0 == [NoDeps EXCEPT !.build = "golang" :> Con(<<>>, {}),
                        !.runtime = ("libc" :> Con(<<Ver(">=", 2), Ver("<<", 3)>>, {"amd64", "arm64"}))
                                    @@ ("ssl" :> Con(<<Ver("", 1)>>, {})),
                        !.recommends = "doc" :> Con(<<Ver(">", 1)>>, {}),
                        !.sysext = "ext" :> Con(<<Ver("==", 1)>>, {"arm64"}),
                        !.repos = <<[name |-> "r1", envs |-> {"build"}],
                                    [name |-> "r2", envs |-> {"install", "test"}]>>]

Spec0 == [name |-> "app", version |-> "1", revision |-> "1", description |-> "d", license |-> "l",
          packager |-> "p", changelog |-> {},
          sources |-> ("src" :> Src(TRUE, {}, 0)) @@ ("conf" :> Src(FALSE, {}, 640)),
          patches |-> <<>>, steps |-> <<Step(FALSE, TRUE, <<TRUE, TRUE>>)>>, net |-> "",
          caches |-> <<>>, artifacts |-> App, deps |-> Nil, image |-> Nil, signer |-> "",
          provides |-> <<>>, replaces |-> <<>>, conflicts |-> <<>>, targets |-> <<>>]

With(arts) == [Spec0 EXCEPT !.artifacts = arts]

Entry(date) == [date |-> date, id |-> "e"]

FullSpec == [With(Everything) EXCEPT !.deps = Deps0, !.changelog = {Entry(1), Entry(2)},
                 !.provides = "app-bin" :> Con(<<Ver("=", 1)>>, {}),
                 !.replaces = "app-old" :> Con(<<Ver("<", 1)>>, {}),
                 !.conflicts = "app-ng" :> Con(<<Ver(">>", 1)>>, {})]

Patch(s, p) == [source |-> s, path |-> p]
OnePatch == [Spec0 EXCEPT !.changelog = {Entry(1)}, !.patches = "src" :> <<Patch("conf", "")>>]
DirPatches == [Spec0 EXCEPT !.patches = "src" :> <<Patch("pd", "a.patch"), Patch("pd", "b.patch")>>,
                            !.sources = @ @@ ("pd" :> Src(TRUE, {}, 0))]
NodePatch == [OnePatch EXCEPT !.sources = [@ EXCEPT !["src"].gens = {"nodemod"}]]
Gens(gens) == [Spec0 EXCEPT !.sources = [@ EXCEPT !["src"].gens = gens]]

Steps(steps) == [Spec0 EXCEPT !.steps = steps]

Targeted(t, part) == [Spec0 EXCEPT !.targets = t :> (part @@ NoTarget)]

-----------------------------------------------------------------------------
(* Requests.                                                                *)

Image(bases, env) == [NoImage EXCEPT !.bases = bases, !.env = env]
Var(k, v) == [k |-> k, v |-> v]

BaseCfg == [NoImage EXCEPT !.entrypoint = "/base", !.cmd = "base-cmd", !.dir = "/base",
                           !.env = <<Var("PATH", "base"), Var("A", "1")>>, !.volumes = {"/v"},
                           !.labels = "l" :> "base"]

Ask(distro, route, s) ==
    [distro |-> distro, route |-> route,
     target |-> CASE distro = "rpm" -> "azl3" [] distro = "deb" -> "jammy" [] OTHER -> "windowscross",
     spec |-> s, platform |-> "", ctxPkgs |-> {}, ctxErr |-> {},
     skipSign |-> "", signCfg |-> "", outputImage |-> "ubuntu", basePkgs |-> TRUE,
     versionID |-> "ubuntu22.04", osRelease |-> "ubuntu22.04", fault |-> "", tests |-> "pass",
     baseCfg |-> BaseCfg, platforms |-> 1, basePlatforms |-> <<"amd64">>, ctxWorker |-> FALSE,
     cacheName |-> CASE distro = "rpm" -> "azlinux3-tdnf-cache" [] distro = "deb" -> "jammy"
                     [] OTHER -> "jammy-windowscross",
     cacheAddPlatform |-> FALSE]

Cases2(name, s, route) == ("rpm-" \o name :> Ask("rpm", route, s)) @@ ("deb-" \o name :> Ask("deb", route, s))

Pkg(name, s) == Cases2(name, s, "package")

(* Every kind of artifact and dependency, and what is treated specially.    *)
PackageCases ==
    Pkg("full", FullSpec) @@ Pkg("units", With(Units)) @@ Pkg("renamed-unit", With(OneUnit("new.service")))
    @@ Pkg("link-unit", With(LinkUnit)) @@ Pkg("one-unit", With(OneUnit(""))) @@ Pkg("user-unit", With(UserUnit)) @@ Pkg("off-unit", With(OffUnit))
    @@ Pkg("inline", With(Inline)) @@ Pkg("man-nosub", With(ManNoSub)) @@ Pkg("man-renamed", With(ManRenamed))
    @@ Pkg("man-perm", With(ManPerm)) @@ Pkg("wild-one", With(WildOne)) @@ Pkg("wild-renamed", With(WildRenamed))
    @@ Pkg("wild-perm", With(WildPerm)) @@ Pkg("wild-owner", With(WildOwner)) @@ Pkg("nested", With(Nested))
    @@ Pkg("header-owner", With(HeaderOwner)) @@ ("deb-over-dir" :> Ask("deb", "package", With(OverDir)))
    @@ Pkg("patch", OnePatch) @@ Pkg("dir-patches", DirPatches) @@ Pkg("node-patch", NodePatch)
    @@ Pkg("pip", Gens({"pip", "gomod"}))
    @@ Pkg("fails", Steps(<<Step(TRUE, TRUE, <<TRUE>>), Step(FALSE, TRUE, <<FALSE, TRUE>>)>>))
    @@ Pkg("net", [Spec0 EXCEPT !.net = "host"])
    @@ Pkg("noname", [Spec0 EXCEPT !.license = "", !.packager = ""])
    @@ Pkg("target", Targeted("azl3", [artifacts |-> Units, deps |-> Deps0, provides |-> "x" :> Con(<<>>, {})]))
    @@ Pkg("merged", [Targeted("azl3", [deps |-> [NoDeps EXCEPT !.runtime = "z" :> Con(<<>>, {})]])
                         EXCEPT !.deps = Deps0])

(* Requests that differ in what the client or a service does.               *)
Cts(name, change) ==
    LET on(d) == change @@ Ask(d, "container", [With(Docless) EXCEPT !.signer = "s1"])
    IN  ("rpm-" \o name :> on("rpm")) @@ ("deb-" \o name :> on("deb"))

ContainerCases ==
    Cts("ctr", [tests |-> "pass"]) @@ Cts("ctr-untested", [tests |-> "none"]) @@ Cts("ctr-fails", [tests |-> "fail"])
    @@ Cts("ctr-target", [ctxPkgs |-> {"target", "generic"}])
    @@ Cts("ctr-generic", [ctxPkgs |-> {"generic"}, signCfg |-> "missing"])
    @@ Cts("ctr-lookup", [ctxPkgs |-> {"target", "generic"}, ctxErr |-> {"target"}])
    @@ Cts("ctr-lookup2", [ctxPkgs |-> {"generic"}, ctxErr |-> {"generic"}])
    @@ Cts("ctr-worker", [ctxErr |-> {"worker"}]) @@ Cts("ctr-nosign", [skipSign |-> "true", signCfg |-> "missing"])
    @@ Cts("ctr-sign", [skipSign |-> "junk", signCfg |-> "s2"]) @@ Cts("ctr-empty", [signCfg |-> "empty"])
    @@ Cts("ctr-noimage", [outputImage |-> "", basePkgs |-> FALSE])
    @@ Cts("ctr-badworker", [fault |-> "builddeps", spec |-> [FullSpec EXCEPT !.signer = "s1"]])
    @@ Cts("ctr-badbuild", [fault |-> "build", tests |-> "none"]) @@ Cts("ctr-badsign", [fault |-> "sign"])
    @@ Cts("ctr-badctr", [fault |-> "container"]) @@ Cts("ctr-full", [spec |-> FullSpec])
    @@ Cts("ctr-units", [spec |-> With(Units)])

To(path, user, group) == [paths |-> {path}, user |-> user, group |-> group]
Posts(post) == [Spec0 EXCEPT !.image = [NoImage EXCEPT !.post = post]]
Linked(path, user) == Posts("app" :> To(path, user, ""))
Img(name, i, t) ==
    Cts(name, [spec |-> [Spec0 EXCEPT !.image = i, !.targets = [k \in {"azl3", "jammy"} |->
                                                         [NoTarget EXCEPT !.image = t]]]])

ImageCases ==
    Img("img-plain", Image(NilBases, <<Var("A", "2")>>), Nil)
    @@ Img("img-env", Image(<<"b1">>, <<Var("A", "2"), Var("B", "1")>>), Image(NilBases, <<Var("B", "2")>>))
    @@ Img("img-revert", Image(<<"b1">>, <<Var("A", "2")>>), Image(NilBases, <<Var("A", "1")>>))
    @@ Img("img-entry", [Image(<<"b1">>, <<>>) EXCEPT !.entrypoint = "/e", !.user = "u", !.dir = "/w"],
           [Image(<<"b2">>, <<>>) EXCEPT !.signal = "9", !.labels = "l" :> "t", !.volumes = {"/w"}])
    @@ Img("img-cmd", [Image(<<"b1">>, <<>>) EXCEPT !.cmd = "c"], [Image(NilBases, <<>>) EXCEPT !.entrypoint = "/t"])
    @@ Img("img-bases", Image(<<"b1", "b2">>, <<>>), Nil)
    @@ Cts("link", [spec |-> Linked(<<"bin", "app2">>, "")]) @@ Cts("link-taken", [spec |-> Linked(<<"bin", "sh">>, "")])
    @@ Cts("link-owner", [spec |-> Linked(<<"bin", "app2">>, "svc")])
    @@ Cts("link-group", [spec |-> Posts("app" :> To(<<"bin", "app2">>, "root", "grp"))])
    @@ Cts("link-twice", [spec |-> Posts([old \in {"app", "sh"} |-> To(<<"bin", "app2">>, "", "")])])
    @@ Img("img-user", [Image(NilBases, <<>>) EXCEPT !.user = "u", !.labels = ("l" :> "s") @@ ("m" :> "s")],
           [Image(NilBases, <<>>) EXCEPT !.user = "t", !.labels = "m" :> "t"])
    @@ Img("img-labels", [Image(<<"b1">>, <<>>) EXCEPT !.labels = "n" :> "s"], Nil)

(* Caches, for two platforms and several distros.  One key has the name of  *)
(* a platform in it, and one that opts out has the whole name of another.   *)
Cache(kind) == [AutoGocache EXCEPT !.kind = kind, !.key = "k"]
Cached == [Gens({"gomod"}) EXCEPT !.deps = [NoDeps EXCEPT !.test = "curl" :> Con(<<>>, {})],
               !.caches = <<Cache("dir"), [Cache("dir") EXCEPT !.key = "", !.dest = "linux/arm64-k"],
                            [Cache("dir") EXCEPT !.noNamespace = TRUE, !.key = "azl3-linux/arm64-k", !.sharing = "locked"],
                            [Cache("gobuild") EXCEPT !.scope = "x"], Cache("sccache"), Cache("bazel")>>]
CachedGo(v) == [Gens({"gomod"}) EXCEPT !.deps = [NoDeps EXCEPT !.build = v :> Con(<<>>, {})],
                   !.caches = <<Cache("dir"), [Cache("gobuild") EXCEPT !.disabled = TRUE]>>]
Alma(route, s) == [Ask("rpm", route, s) EXCEPT !.target = "almalinux8", !.cacheName = "almalinux8-dnf-cache",
                                              !.cacheAddPlatform = TRUE]
CacheCases ==
    ("rpm-cache" :> Ask("rpm", "package", Cached))
    @@ ("rpm-cache-arm" :> [Ask("rpm", "package", Cached) EXCEPT !.platform = "linux/arm64"])
    @@ ("alma" :> Alma("package", Cached))
    @@ ("alma-arm" :> [Alma("package", Cached) EXCEPT !.platform = "linux/arm64", !.ctxWorker = TRUE])
    @@ ("alma-deps" :> [Alma("depsonly", FullSpec) EXCEPT !.platform = "linux/arm64"])
    @@ ("deb-cache" :> Ask("deb", "package", CachedGo("golang-1.22")))
    @@ ("deb-cache-arm" :> [Ask("deb", "package", Cached) EXCEPT !.platform = "linux/arm64", !.versionID = ""])
    @@ ("bookworm" :> [Ask("deb", "package", Cached) EXCEPT !.target = "bookworm", !.versionID = "debian12",
                                                           !.cacheName = "bookworm"])
    @@ ("win-cache" :> Ask("windows", "zip", CachedGo("golang")))

MCFollowers == DOMAIN CacheCases

OtherRoutes ==
    ("deb-untested" :> [Ask("deb", "package", With(WildOwner)) EXCEPT !.tests = "none"]) @@
    ("rpm-sysext-merged" :> Ask("rpm", "sysext", [Targeted("azl3", [deps |-> Deps0]) EXCEPT !.deps = Deps0])) @@
    Cases2("sysext", FullSpec, "sysext") @@ Cases2("worker", Spec0, "worker")
    @@ ("rpm-deps" :> Ask("rpm", "depsonly", FullSpec)) @@ ("rpm-nodeps" :> Ask("rpm", "depsonly", Spec0))
    @@ ("rpm-root" :> Ask("rpm", "buildroot", FullSpec)) @@ ("rpm-spec" :> Ask("rpm", "spec", FullSpec))
    @@ ("rpm-sources" :> Ask("rpm", "sources", FullSpec))
    @@ ("rpm-notool" :> Ask("rpm", "sources", Gens({"cargohome"})))
    @@ ("rpm-badsrc" :> [Ask("rpm", "sources", FullSpec) EXCEPT !.fault = "sources"])
    @@ ("deb-dsc" :> Ask("deb", "dsc", FullSpec))
    @@ ("deb-baddsc" :> [Ask("deb", "dsc", FullSpec) EXCEPT !.fault = "readversion"])
    @@ ("deb-altgo" :> [Ask("deb", "package", [Gens({"gomod"}) EXCEPT
                           !.deps = [NoDeps EXCEPT !.build = "golang-1.22" :> Con(<<>>, {})]])
                            EXCEPT !.fault = "builddeps"])

Win(name, route, s) == "win-" \o name :> Ask("windows", route, s)

WindowsCases ==
    Win("zip", "zip", Spec0) @@ Win("worker", "worker", Spec0) @@ Win("fails", "zip", Steps(<<Step(FALSE, TRUE, <<TRUE, FALSE>>)>>))
    @@ Win("goes-on", "zip", Steps(<<Step(FALSE, TRUE, <<FALSE, TRUE>>)>>))
    @@ Win("nothing", "zip", With(NoArtifacts))
    @@ Win("env", "zip", Steps(<<Step(TRUE, TRUE, <<TRUE, TRUE>>)>>))
    @@ Win("env-flags", "zip", Steps(<<Step(TRUE, FALSE, <<TRUE, TRUE>>)>>))
    @@ Win("perm", "zip", With([App EXCEPT !.binaries = "bin/app" :> [Plain EXCEPT !.perm = 755]]))
    @@ Win("ctr", "container", Linked(<<"app2">>, "")) @@ Win("deps", "container", FullSpec)
    @@ ("win-bases" :> [Ask("windows", "container", [Spec0 EXCEPT !.image = Image(<<"w1", "w2">>, <<Var("A", "2")>>)])
                           EXCEPT !.basePlatforms = <<"w2019", "w2022">>])
    @@ ("win-same" :> [Ask("windows", "container", Spec0) EXCEPT !.basePlatforms = <<"w2019", "w2019">>])
    @@ ("win-multi" :> [Ask("windows", "container", Spec0) EXCEPT !.platforms = 2])

(* The packages in the client's contexts are earlier builds of the spec.    *)
WithPrebuilt(cases) ==
    [id \in DOMAIN cases |-> cases[id] @@
        [prebuilt |-> [origin \in {"target", "generic"} |->
            [RpmBuild(cases[id].spec, "azl3") EXCEPT !.deps = {AnyVersion("Requires", origin)}]]]]

AllCases == PackageCases @@ ContainerCases @@ ImageCases @@ CacheCases @@ OtherRoutes @@ WindowsCases

MCCases == WithPrebuilt(AllCases)

(* A source is patched with two files of one directory.                     *)
MCPatchCases == WithPrebuilt(Pkg("dir-patches", DirPatches))
MCNone == {}

=============================================================================
