------------------------------ MODULE MCSpecLoad ------------------------------
(***************************************************************************)
(* Documents for SpecLoad: one good document, and families that vary one    *)
(* part of it at a time (a source, a mount, a patch, an image, a build      *)
(* section), each varied over the shapes its code tells apart.              *)
(***************************************************************************)
EXTENDS SpecLoad

MCBaseTree == {<<"Dockerfile">>, <<"x">>, <<"d", "x">>, <<"d", "y">>}

Context == [EmptySource EXCEPT !.variants = {"context"}]
Git(h)  == [EmptySource EXCEPT !.variants = {"git"}, !.id = h, !.commit = Ref("COMMIT")]
Http    == [EmptySource EXCEPT !.variants = {"http"}, !.id = Ref("HOST")]
Image   == [EmptySource EXCEPT !.variants = {"image"}, !.id = Lit("img"), !.path = Lit("/")]
File    == [EmptySource EXCEPT !.variants = {"inline"}, !.inline = {"file"}]
Dir     == [EmptySource EXCEPT !.variants = {"inline"}, !.inline = {"dir"},
                               !.files = [n \in {"x", "z"} |-> File.file]]
Build(s) == [EmptySource EXCEPT !.variants = {"build"}, !.inner = <<s>>]

Mount(s, at) == [dest |-> at, spec |-> s]
Step(mounts) == [command |-> "make", env |-> <<Ref("COMMIT")>>, mounts |-> mounts]
Cmd(mounts, steps) == [mounts |-> mounts, env |-> <<Ref("COMMIT")>>, steps |-> steps]
WithCmd(mounts, steps) == [Image EXCEPT !.cmd = <<Cmd(mounts, steps)>>]
Auth(h) == [k \in {h} |-> [kind |-> "token", from |-> "spec"]]
Gomod(a) == [kinds |-> {"gomod"}, auth |-> a]

NoImage == [base |-> Blank, bases |-> <<>>, symlinks |-> <<>>, labels |-> <<Ref("COMMIT")>>]
NoDeps  == [build |-> <<Ref("COMMIT")>>, runtime |-> <<>>, recommends |-> <<Ref("COMMIT")>>,
            sysext |-> <<>>, test |-> <<>>, repos |-> <<>>]
Target  == [tests |-> <<>>, deps |-> NoDeps, image |-> NoImage, signer |-> <<Ref("COMMIT")>>,
            provides |-> <<Ref("COMMIT")>>]

Patch(from, path) == [source |-> from, path |-> path, strip |-> StripUnset]

Good ==
    [args     |-> [k \in {"COMMIT", "HOST", "HOST2", "EMPTY", "TARGETARCH"} |->
                      CASE k = "COMMIT" -> "c0" [] k = "EMPTY" -> "" [] k = "TARGETARCH" -> ""
                        [] OTHER -> "github.com"],
     sources  |-> [n \in {"a", "p"} |-> IF n = "a" THEN Git(Lit("github.com")) ELSE File],
     patches  |-> <<>>,
     versions |-> <<Ref("TARGETARCH"), Ref("COMMIT")>>,
     build    |-> [env |-> [k \in {"V"} |-> Ref("COMMIT")], steps |-> <<Step(<<>>)>>,
                   network |-> Blank, caches |-> <<>>],
     base     |-> Target,
     targets  |-> <<>>]

Yaml(s) == [spec |-> s, keys |-> {"x-ext"}, depform |-> "map"]

(* Sources: every variant with and without a path and patterns, the errors  *)
(* of each, wrappers with a good and a bad inner source.                    *)
Shapes == {EmptySource, Context, Git(Lit("github.com")), Git(Ref("HOST")), Http, Image, File, Dir,
           [Git(Lit("h")) EXCEPT !.variants = {"git", "http"}], [Git(Blank) EXCEPT !.commit = Blank],
           [Image EXCEPT !.id = Blank], [EmptySource EXCEPT !.variants = {"inline"}],
           [Http EXCEPT !.digest = "bad"], [Dir EXCEPT !.inline = {"file", "dir"}],
           [File EXCEPT !.file.owner = -1],
           [Context EXCEPT !.id = Lit("missing")], [Context EXCEPT !.id = Ref("UNDECLARED")],
           [Context EXCEPT !.id = Ref("ALLOWED")], [Context EXCEPT !.id = Ref("BUILDARCH")],
           [Context EXCEPT !.id = Ref("DALEC_TARGET")]}
Paths == {Blank, Lit("d"), Lit("x"), Lit("none"), Ref("EMPTY")}
Patterns == {<<>>, <<Lit("x")>>}
Wrapped == {[s EXCEPT !.path = w, !.includes = i, !.excludes = e] :
               s \in {Context, Git(Lit("h")), Image, Dir, Http, File}, w \in Paths,
               i \in Patterns, e \in {<<>>, <<Lit("y")>>}}
Inner == Shapes \cup {Build(Context)}
Nested ==
    UNION {{Build(s) : s \in Inner},
           {[Build(File) EXCEPT !.dockerfile = Lit("other")], [Build(Context) EXCEPT !.dockerfile = Lit("other")]},
           {WithCmd(<<Mount(s, at)>>, <<Step(<<>>)>>) : s \in Inner, at \in {"/", "d"}},
           {[WithCmd(<<Mount(Context, "d")>>, <<Step(<<Mount(s, "e")>>)>>) EXCEPT !.path = w] :
               s \in {EmptySource, Context, File, Http}, w \in {Lit("/"), Lit("d"), Lit("e"), Lit("f")}},
           {WithCmd(m, st) : m \in {<<>>, <<Mount(File, "d"), Mount(File, "d")>>},
                             st \in {<<>>, <<[Step(<<>>) EXCEPT !.command = ""]>>}},
           {[WithCmd(<<>>, <<Step(<<>>)>>) EXCEPT !.path = w, !.includes = i] :
               w \in {Lit("d"), Lit("/")}, i \in Patterns}}
SourceDocs ==
    {Yaml([Good EXCEPT !.sources["p"] = s]) : s \in Shapes \cup Wrapped \cup Nested}

(* Generators: explicit and inherited authentication, literal and by        *)
(* argument.                                                                *)
GenSource(h, a, gens) == [Git(h) EXCEPT !.auth = a, !.gens = gens]
LiteralAuths == {<<>>, Auth(Lit("github.com")), Auth(Lit("other"))}
RefAuths == LiteralAuths \cup {Auth(Ref("HOST")), Auth(Ref("HOST")) @@ Auth(Lit("github.com")),
                               Auth(Ref("HOST")) @@ [k \in {Ref("HOST2")} |-> [kind |-> "ssh", from |-> "spec"]]}
GenDoc(h, a, g) == Yaml([Good EXCEPT !.sources["a"] = GenSource(h, a, <<g>>)])
GenDocs ==
    {GenDoc(h, a, g) :
        h \in {Lit("github.com"), Ref("HOST")}, a \in {{}, {"header", "ssh"}},
        g \in {Gomod(k) : k \in RefAuths} \cup {[kinds |-> {"pip"}, auth |-> <<>>], [kinds |-> {}, auth |-> <<>>]}}

(* Patches of "a" from a file, a directory, a source that is itself         *)
(* patched, and from nothing.                                               *)
PatchDocs ==
    {Yaml([Good EXCEPT !.sources = [n \in {"a", "b", "p"} |->
                                      IF n = "b" THEN s ELSE IF n = "p" THEN File
                                      ELSE GenSource(Lit("github.com"), {}, g)],
                       !.patches = [n \in {"a"} |-> <<Patch(f, w)>>] @@ more]) :
        s \in {EmptySource, Git(Lit("h")), File, Http, [Git(Lit("h")) EXCEPT !.path = Lit("d")]},
        g \in {<<>>, <<Gomod(<<>>)>>},
        f \in {"b", "p", "missing"}, w \in {Blank, Lit("x"), Ref("EMPTY")},
        more \in {<<>>, [n \in {"b"} |-> <<[Patch("p", Blank) EXCEPT !.strip = 2]>>]}}

(* Images, dependencies and tests, in the spec or in a target.              *)
Images ==
    {[NoImage EXCEPT !.base = b, !.bases = bs, !.symlinks = l] :
        b \in {Blank, Lit("img")},
        bs \in {<<>>, <<[Image EXCEPT !.path = Blank]>>, <<Context>>,
                <<[WithCmd(<<Mount(EmptySource, "m")>>, <<Step(<<>>)>>) EXCEPT !.path = Blank]>>,
                <<WithCmd(<<Mount(EmptySource, "m")>>, <<Step(<<>>)>>)>>},
        l \in {<<>>, [o \in {"/o"} |-> [path |-> "/n", paths |-> <<>>]],
               [o \in {"/o"} |-> [path |-> "/n", paths |-> <<"/n">>]],
               [o \in {"/o", "/o2"} |-> [path |-> "", paths |-> <<"/n">>]],
               [o \in {"/o", "/o2"} |-> [path |-> IF o = "/o" THEN "/n" ELSE "", paths |-> IF o = "/o" THEN <<>> ELSE <<"/k", "/m">>]]}}
Repo(k, c, d, e) == [keys |-> <<k>>, config |-> <<c>>, data |-> <<Mount(d, "d")>>, envs |-> e]
Deps == {[NoDeps EXCEPT !.repos = <<Repo(k, c, d, e)>>] :
            k \in {Http, EmptySource}, c \in {Context, EmptySource}, d \in {Git(Ref("HOST")), EmptySource},
            e \in {<<>>, <<"build">>}}
Test(s) == [mounts |-> <<Mount(s, "d")>>, env |-> <<Ref("COMMIT")>>,
            steps |-> <<[env |-> <<Ref("COMMIT")>>, stdin |-> Ref("COMMIT"), out |-> <<Ref("COMMIT")>>]>>,
            files |-> <<<<Ref("COMMIT"), Lit("x")>>>>]
Targets ==
    UNION {{[Target EXCEPT !.image = i] : i \in Images}, {[Target EXCEPT !.deps = d] : d \in Deps},
           {[Target EXCEPT !.tests = <<Test(s)>>] : s \in {Context, EmptySource, Http}}}
TargetDocs ==
    {Yaml([Good EXCEPT !.base = t]) : t \in Targets}
    \cup {Yaml([Good EXCEPT !.targets = [n \in {"t"} |-> t]]) : t \in Targets}

(* Build sections, and documents that do not decode.                        *)
Cache(k, d, s) == [kinds |-> k, dest |-> d, sharing |-> s]
BuildDocs ==
    {Yaml([Good EXCEPT !.build = [env |-> e, steps |-> st, network |-> w, caches |-> c]]) :
        e \in {<<>>, [k \in {"V"} |-> Ref("COMMIT")], [k \in {Epoch} |-> Lit("1")]},
        st \in {<<>>, <<Step(<<>>)>>}, w \in {Blank, Lit("none"), Ref("HOST")},
        c \in {<<>>, <<Cache({"gobuild"}, "", ""), Cache({"gobuild"}, "", "")>>, <<Cache({}, "", "")>>,
               <<Cache({"dir"}, "rel", "shared")>>, <<Cache({"dir"}, "/c", "odd")>>, <<Cache({"dir"}, "/c", "")>>}}
    \cup {[spec |-> Good, keys |-> k, depform |-> f] :
             k \in {{}, {"unknown"}}, f \in {"map", "list", "scalar"}}
    \cup {Yaml([Good EXCEPT !.sources = [n \in {"a/b"} |-> File]])}

MCKnown == {"DALEC_TARGET", "TARGETARCH", "BUILDARCH"}
MCArch  == [p \in Platforms |-> IF p = "amd64" THEN "x86_64" ELSE "aarch64"]
MCNames == <<"a", "a/b", "b", "p">>

(* One platform for the families; two, which interleave, for the good       *)
(* document, one that fails on one argument and one that panics.            *)
Request(ps, ks, allow, h) ==
    [platforms |-> ps, allow |-> allow, last |-> Ref(h),
     args |-> [k \in ks |-> IF k = "COMMIT" THEN "c1" ELSE "1"]]
One(ds, rs)  == {[doc |-> d, req |-> r] : d \in ds, r \in rs}
Plain        == Request({"amd64"}, {}, {}, "HOST")
Full         == Request({"arm64"}, {"COMMIT", Epoch}, {"ALLOWED"}, "HOST2")
Interleaved  == {Yaml(Good), Yaml([Good EXCEPT !.args = [k \in {"COMMIT"} |-> "c0"]]),
                 Yaml([Good EXCEPT !.versions = <<Ref("BUILDARCH")>>]),
                 Yaml([Good EXCEPT !.sources["p"] = EmptySource,
                                   !.patches = [n \in {"a"} |-> <<Patch("p", Blank)>>]])}
MCCases ==
    UNION {One(SourceDocs \cup GenDocs, {Plain, Full}), One(PatchDocs \cup TargetDocs, {Full}),
           One(BuildDocs, {Plain, Full}),
           One(Interleaved, {Request(Platforms, ks, {"ALLOWED"}, "HOST") :
                               ks \in {{}, {"COMMIT", Epoch}, {"UNDECLARED"}, {"ALLOWED"}}})}
MCAuthCases  == One({GenDoc(h, {"header", "ssh"}, Gomod(k)) :
                        h \in {Lit("github.com"), Ref("HOST")}, k \in LiteralAuths}, {Plain})
MCMountCases == One(SourceDocs, {Plain})

=============================================================================
