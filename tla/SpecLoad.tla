------------------------------- MODULE SpecLoad -------------------------------
(***************************************************************************)
(* Loading a spec for every platform of a build request: decode, Validate,  *)
(* FillDefaults, the platform arguments, SubstituteArgs, then the sources   *)
(* of the build and, when a target or a signer is another frontend, the     *)
(* same spec loaded again on the other side.                                *)
(*                                                                         *)
(* The parts a spec shares with each of its targets (tests, dependencies,   *)
(* image, signer, provides) are one record, a target; a missing part is an  *)
(* empty one.  Provides, replaces and conflicts are one list of versions.   *)
(***************************************************************************)
EXTENDS SourceState

CONSTANTS Platforms,    \* platforms a request may ask for
          Arch,         \* the architecture of each platform
          SourceNames,  \* all source names, in the order SortMapKeys gives
          Cases         \* documents, each with a request that loads it: its platforms and
                        \* build arguments, those a handler allows undeclared
                        \* (WithAllowArgs), and the host reference that the iteration
                        \* over a map visits last

Epoch == "SOURCE_DATE_EPOCH"

-----------------------------------------------------------------------------
(* Validation.                                                              *)

ValidateTest(t) == UnionOver(ValidateMount, t.mounts)

ValidateRepo(r) ==
    UNION {UnionOver(ValidateSource, r.keys), UnionOver(ValidateSource, r.config),
           UnionOver(ValidateMount, r.data)}

ValidateDeps(d) == UnionOver(ValidateRepo, d.repos)

(* A symlink has a path or paths, none empty, and no two symlinks share a   *)
(* new path.                                                                *)
NewPaths(l) == IF l.path = "" THEN l.paths ELSE Append(l.paths, l.path)

ValidateSymlinks(links) ==
    UNION {When("" \in DOMAIN links, "empty symlink source"),
           When(\E o \in DOMAIN links : (links[o].path = "") <=> (links[o].paths = <<>>),
                "path and paths"),
           When(\E o \in DOMAIN links : "" \in ToSet(links[o].paths), "empty newpath"),
           When(\E o1, o2 \in DOMAIN links :
                    \E i \in DOMAIN NewPaths(links[o1]), j \in DOMAIN NewPaths(links[o2]) :
                        /\ <<o1, i>> # <<o2, j>>
                        /\ NewPaths(links[o1])[i] = NewPaths(links[o2])[j],
                "duplicate newpath")}

(* errorIsOnly sees one wrapped error, so it is errors.Is: any error set    *)
(* that holds the target passes.                                            *)
ErrorIsOnly(errs, target) == target \in errs

ValidateBase(b) ==
    IF "image" \notin b.variants THEN {"base is not an image"} ELSE ValidateSource(b)

ValidateImageConfig(img) ==
    UNION {When(img.base # Blank /\ img.bases # <<>>, "base and bases"),
           UnionOver(LAMBDA b : IF ErrorIsOnly(ValidateBase(b), "image without path") THEN {}
                                ELSE ValidateBase(b), img.bases),
           ValidateSymlinks(img.symlinks)}

ValidateTarget(t) ==
    UNION {ValidateDeps(t.deps), ValidateImageConfig(t.image), UnionOver(ValidateTest, t.tests)}

ValidateCacheDir(c) ==
    UNION {When(c.dest = "", "cache without dest"), When(c.dest = "rel", "relative cache dest"),
           When(c.sharing \notin {"shared", "locked", "private", ""}, "bad sharing mode")}

ValidateCache(c) ==
    CASE Cardinality(c.kinds) # 1 -> {"not exactly one cache kind"}
      [] "dir" \in c.kinds        -> ValidateCacheDir(c)
      [] OTHER                    -> {}

ValidateBuildSteps(b) ==
    UNION {When(b.steps = <<>> /\ (b.caches # <<>> \/ DOMAIN b.env # {} \/ b.network # Blank),
                "build without steps"),
           UnionOver(ValidateStep, b.steps),
           When(b.network \notin {Blank, Lit("none"), Lit("sandbox")}, "bad network mode"),
           When(Cardinality({i \in DOMAIN b.caches : "gobuild" \in b.caches[i].kinds}) > 1,
                "several gobuild caches"),
           UnionOver(ValidateCache, b.caches)}

ValidatePatch(p, sources) ==
    CASE p.source \notin DOMAIN sources -> {"missing patch source"}
      [] IsDir(sources[p.source]) /\ IsRoot(p.path)   -> {"patch without subpath"}
      [] ~IsDir(sources[p.source]) /\ ~IsRoot(p.path) -> {"subpath of a file"}
      [] OTHER -> {}

(* validatePatch asks IsDir of the patch source whatever its validation     *)
(* said, and toInterface panics.                                            *)
ValidatePanics(s) ==
    \E n \in DOMAIN s.patches : \E i \in DOMAIN s.patches[n] :
        LET from == s.patches[n][i].source
        IN  from \in DOMAIN s.sources /\ s.sources[from].variants = {}

Validate(s) ==
    UNION {When("a/b" \in DOMAIN s.sources, "separator in source name"),
           UNION {ValidateSource(s.sources[n]) : n \in DOMAIN s.sources},
           UNION {UnionOver(LAMBDA p : ValidatePatch(p, s.sources), s.patches[n]) :
                     n \in DOMAIN s.patches},
           ValidateTarget(s.base), ValidateBuildSteps(s.build),
           UNION {ValidateTarget(s.targets[n]) : n \in DOMAIN s.targets}}

-----------------------------------------------------------------------------
(* Decoding.  The old list form of a dependency list is read and upgraded   *)
(* but the result is not stored; extension keys are kept, others refused.   *)

DecodeErrors(d) ==
    When("unknown" \in d.keys, "unknown field") \cup When(d.depform = "scalar", "bad dependencies")

Decode(d) ==
    IF d.depform = "list" THEN [d.spec EXCEPT !.base.deps.build = <<>>] ELSE d.spec

(* A forwarded spec is marshalled with its extension keys, in map form.     *)
Marshal(s, keys) == [spec |-> s, keys |-> keys, depform |-> "map"]

-----------------------------------------------------------------------------
(* Defaults.                                                                *)

DefaultPatchStrip == 1
StripUnset == -1

FillKey(s) ==
    LET filled == FillSource(s)
    IN  IF "http" \in s.variants THEN [filled EXCEPT !.perms = "644"] ELSE filled

FillRepo(r) ==
    [r EXCEPT !.envs   = IF @ = <<>> THEN <<"build", "install", "test">> ELSE @,
              !.config = [i \in DOMAIN @ |-> FillSource(@[i])],
              !.keys   = [i \in DOMAIN @ |-> FillKey(@[i])],
              !.data   = [i \in DOMAIN @ |-> FillMount(@[i])]]

FillDeps(d) == [d EXCEPT !.repos = [i \in DOMAIN @ |-> FillRepo(@[i])]]

\* Mutant: the single path stays next to the list it was moved to.
NormalizeSymlinksKeep(links) ==
    [o \in DOMAIN links |-> [links[o] EXCEPT !.paths = NewPaths(links[o])]]

NormalizeSymlinks(links) ==
    [o \in DOMAIN links |-> [path |-> "", paths |-> NewPaths(links[o])]]

(* image.base becomes the last of image.bases.                              *)
FillImageConfig(img) ==
    LET moved == IF img.base = Blank THEN img.bases
                 ELSE Append(img.bases, [EmptySource EXCEPT !.variants = {"image"}, !.id = img.base])
    IN  [img EXCEPT !.base = Blank,
                    !.bases = [i \in DOMAIN moved |-> FillSource(moved[i])],
                    !.symlinks = NormalizeSymlinks(@)]

FillTarget(t) ==
    [t EXCEPT !.deps = FillDeps(@), !.image = FillImageConfig(@)]

FillDefaults(s) ==
    [s EXCEPT !.sources = [n \in DOMAIN @ |-> FillSource(@[n])],
              !.patches = [n \in DOMAIN @ |-> [i \in DOMAIN @[n] |->
                  IF @[n][i].strip = StripUnset
                  THEN [@[n][i] EXCEPT !.strip = DefaultPatchStrip] ELSE @[n][i]]],
              !.base    = FillTarget(@),
              !.targets = [n \in DOMAIN @ |-> FillTarget(@[n])]]

(* Every source FillDefaults calls toInterface on.                          *)
FilledSources(s) ==
    LET inTarget(t) == UNION {ToSet(t.image.bases),
                              UnionOver(LAMBDA r : ToSet(r.config) \cup ToSet(r.keys)
                                          \cup {r.data[i].spec : i \in DOMAIN r.data}, t.deps.repos)}
    IN  UNION {Range(s.sources), inTarget(s.base), UNION {inTarget(s.targets[n]) : n \in DOMAIN s.targets}}

FillPanics(s) == \E x \in FilledSources(s) : Panics(x)

-----------------------------------------------------------------------------
(* Build arguments.  Versions of recommended, sysext and test dependencies, *)
(* the references of base images and the mounts of build steps are not      *)
(* walked.                                                                  *)

(* Declared arguments, overridden by the request; the epoch needs no        *)
(* declaration.                                                             *)
SubArgs(s, env) ==
    [k \in DOMAIN s.args \cup (DOMAIN env \cap {Epoch}) |->
        IF k \in DOMAIN env THEN env[k] ELSE s.args[k]]

UnknownArgs(s, env, allow) ==
    DOMAIN env \ UNION {DOMAIN s.args, {Epoch}, KnownArgs, allow}

TestStepArgs(st, sub) ==
    [st EXCEPT !.env = ExpandAll(@, sub), !.stdin = Expand(@, sub), !.out = ExpandAll(@, sub)]

TestArgs(t, sub) ==
    [t EXCEPT !.mounts = [i \in DOMAIN @ |-> MountArgs(@[i], sub)],
              !.env    = ExpandAll(@, sub),
              !.steps  = [i \in DOMAIN @ |-> TestStepArgs(@[i], sub)],
              !.files  = [i \in DOMAIN @ |-> ExpandAll(@[i], sub)]]

TestWords(t) ==
    UNION {UnionOver(LAMBDA m : SourceWords(m.spec), t.mounts), ToSet(t.env),
           UnionOver(LAMBDA st : ToSet(st.env) \cup {st.stdin} \cup ToSet(st.out), t.steps),
           UnionOver(ToSet, t.files)}

RepoArgs(r, sub) ==
    [r EXCEPT !.config = [i \in DOMAIN @ |-> SourceArgs(@[i], sub)],
              !.keys   = [i \in DOMAIN @ |-> SourceArgs(@[i], sub)],
              !.data   = [i \in DOMAIN @ |-> MountArgs(@[i], sub)]]

RepoWords(r) ==
    UNION {UnionOver(SourceWords, r.config), UnionOver(SourceWords, r.keys),
           UnionOver(LAMBDA m : SourceWords(m.spec), r.data)}

DepsArgs(d, sub) ==
    [d EXCEPT !.build   = ExpandAll(@, sub),
              !.runtime = ExpandAll(@, sub),
              !.repos   = [i \in DOMAIN @ |-> RepoArgs(@[i], sub)]]

TargetArgs(t, sub) ==
    [t EXCEPT !.tests    = [i \in DOMAIN @ |-> TestArgs(@[i], sub)],
              !.signer   = ExpandAll(@, sub),
              !.image    = [@ EXCEPT !.labels = ExpandAll(@, sub)],
              !.deps     = DepsArgs(@, sub),
              !.provides = ExpandAll(@, sub)]

TargetWords(t) ==
    UNION {UnionOver(TestWords, t.tests), ToSet(t.signer), ToSet(t.image.labels),
           ToSet(t.deps.build), ToSet(t.deps.runtime), UnionOver(RepoWords, t.deps.repos),
           ToSet(t.provides)}

BuildArgs(b, sub) ==
    LET epoch == {Epoch} \cap DOMAIN sub.args
    IN  [b EXCEPT !.env = [k \in DOMAIN @ \cup epoch |->
                     IF k \in DOMAIN @ THEN Expand(@[k], sub) ELSE Lit(sub.args[k])],
                  !.network = Expand(@, sub),
                  !.steps = [i \in DOMAIN @ |-> BuildStepArgs(@[i], sub)]]

SubstituteArgs(s, sub) ==
    [s EXCEPT !.sources = [n \in DOMAIN @ |-> SourceArgs(@[n], sub)],
              !.patches = [n \in DOMAIN @ |-> [i \in DOMAIN @[n] |->
                             [@[n][i] EXCEPT !.path = Expand(@, sub)]]],
              !.versions = ExpandAll(@, sub),
              !.build   = BuildArgs(@, sub),
              !.base    = TargetArgs(@, sub),
              !.targets = [n \in DOMAIN @ |-> TargetArgs(@[n], sub)]]

SpecWords(s) ==
    UNION {UNION {SourceWords(s.sources[n]) : n \in DOMAIN s.sources},
           UNION {{s.patches[n][i].path : i \in DOMAIN s.patches[n]} : n \in DOMAIN s.patches},
           ToSet(s.versions), Range(s.build.env), {s.build.network},
           UnionOver(LAMBDA st : ToSet(st.env), s.build.steps),
           TargetWords(s.base), UNION {TargetWords(s.targets[n]) : n \in DOMAIN s.targets}}

SubstituteErrors(s, env, sub) ==
    UnknownArgs(s, env, sub.allow) \cup {w.text : w \in {v \in SpecWords(s) : Unresolved(v, sub)}}

-----------------------------------------------------------------------------
(* The request.  Each platform loads the document on its own; the build     *)
(* arguments of the client are one map they share, which every platform     *)
(* duplicates before it writes to it.                                       *)

VARIABLES doc,       \* the document of the request
          req,       \* the request
          heap,      \* argument maps: the client's and the platforms' own
          argMap,    \* the map each platform uses
          stage,     \* how far each platform is
          spec,      \* the spec each platform works on
          built,     \* source states each platform's build uses
          again,     \* outcome of loading the forwarded spec again
          result     \* outcome of the request

vars == <<doc, req, heap, argMap, stage, spec, built, again, result>>

None == [status |-> "none"]

Stages == {"read", "decoded", "valid", "filled", "args", "loaded", "forwarded", "built",
           "error", "panic"}
Final  == {"built", "error", "panic"}

Init ==
    /\ \E c \in Cases : doc = c.doc /\ req = c.req
    /\ heap = [m \in {"client"} \cup req.platforms |-> IF m = "client" THEN req.args ELSE <<>>]
    /\ argMap = [p \in req.platforms |-> "client"]
    /\ stage = [p \in req.platforms |-> "read"]
    /\ spec = [p \in req.platforms |-> None]
    /\ built = [p \in req.platforms |-> None]
    /\ again = [p \in req.platforms |-> None]
    /\ result = "none"

To(p, next) == stage' = [stage EXCEPT ![p] = next]
Set(p, s)   == spec' = [spec EXCEPT ![p] = s]

DecodeSpec(p) ==
    /\ stage[p] = "read"
    /\ IF DecodeErrors(doc) # {} THEN To(p, "error") /\ UNCHANGED spec
       ELSE To(p, "decoded") /\ Set(p, Decode(doc))
    /\ UNCHANGED <<doc, req, heap, argMap, built, again, result>>

ValidateSpec(p) ==
    /\ stage[p] = "decoded"
    /\ To(p, CASE ValidatePanics(spec[p])    -> "panic"
               [] Validate(spec[p]) # {}     -> "error"
               [] OTHER                      -> "valid")
    /\ UNCHANGED <<doc, req, heap, argMap, spec, built, again, result>>

FillSpec(p) ==
    /\ stage[p] = "valid"
    /\ IF FillPanics(spec[p]) THEN To(p, "panic") /\ UNCHANGED spec
       ELSE To(p, "filled") /\ Set(p, FillDefaults(spec[p]))
    /\ UNCHANGED <<doc, req, heap, argMap, built, again, result>>

\* Mutant: the platform arguments are written to the client's map.
SharedMap(p) == "client"

(* DuplicateMap: a map of the platform's own, with the client's entries.    *)
OwnMap(p) == p

WithPlatform(args, p) ==
    [k \in DOMAIN args \cup {"TARGETARCH", "BUILDARCH"} |->
        CASE k = "TARGETARCH" -> Arch[p]
          [] k = "BUILDARCH"  -> "builder"
          [] OTHER            -> args[k]]

FillPlatformArgs(p) ==
    /\ stage[p] = "filled"
    /\ argMap' = [argMap EXCEPT ![p] = OwnMap(p)]
    /\ heap' = [heap EXCEPT ![OwnMap(p)] = WithPlatform(heap["client"], p)]
    /\ To(p, "args")
    /\ UNCHANGED <<doc, req, spec, built, again, result>>

Sub(s, env) == [args |-> SubArgs(s, env), allow |-> req.allow, last |-> req.last]

SubstituteSpec(p) ==
    /\ stage[p] = "args"
    /\ LET env == heap[argMap[p]]
           sub == Sub(spec[p], env)
       IN  IF SubstituteErrors(spec[p], env, sub) # {} THEN To(p, "error") /\ UNCHANGED spec
           ELSE To(p, "loaded") /\ Set(p, SubstituteArgs(spec[p], sub))
    /\ UNCHANGED <<doc, req, heap, argMap, built, again, result>>

(* The whole of LoadSpec on the side a spec is forwarded to, with the same  *)
(* arguments.                                                               *)
Reload(d, env) ==
    LET filled == FillDefaults(Decode(d))
        sub    == Sub(filled, env)
    IN  CASE DecodeErrors(d) # {} \/ Validate(Decode(d)) # {}  -> [status |-> "invalid"]
          [] SubstituteErrors(filled, env, sub) # {} -> [status |-> "unresolved"]
          [] OTHER -> [status |-> "ok", spec |-> SubstituteArgs(filled, sub)]

ForwardSpec(p) ==
    /\ stage[p] = "loaded"
    /\ again' = [again EXCEPT ![p] = Reload(Marshal(spec[p], doc.keys), heap[argMap[p]])]
    /\ To(p, "forwarded")
    /\ UNCHANGED <<doc, req, heap, argMap, spec, built, result>>

\* Mutant: the states are dropped.
BuildSourcesLost(p) ==
    /\ stage[p] \in {"loaded", "forwarded"}
    /\ To(p, "built")
    /\ UNCHANGED <<doc, req, heap, argMap, spec, built, again, result>>

(* The sources a build uses: all of them patched, those its generators ask  *)
(* for, and the state of each as it is mounted.                             *)
BuildSources(p) ==
    /\ stage[p] \in {"loaded", "forwarded"}
    /\ built' = [built EXCEPT ![p] =
           [status  |-> "ok",
            all     |-> PatchSources(spec[p].sources, spec[p].patches, SourceNames),
            wanted  |-> LET gen == {n \in DOMAIN spec[p].sources : spec[p].sources[n].gens # <<>>}
                        IN  GetPatchedSources(spec[p].sources, spec[p].patches, gen, SourceNames),
            mounted |-> [n \in DOMAIN spec[p].sources |-> ToMount(spec[p].sources[n])]]]
    /\ To(p, "built")
    /\ UNCHANGED <<doc, req, heap, argMap, spec, again, result>>

\* Mutant: a platform that panicked never reports back.
FinalizeNoRecover ==
    /\ result = "none"
    /\ \A p \in req.platforms : stage[p] \in Final \ {"panic"}
    /\ result' = IF \A p \in req.platforms : stage[p] = "built" THEN "ok" ELSE "error"
    /\ UNCHANGED <<doc, req, heap, argMap, stage, spec, built, again>>

(* dc.Build waits for every platform; a recovered panic is an error.        *)
Finalize ==
    /\ result = "none"
    /\ \A p \in req.platforms : stage[p] \in Final
    /\ result' = IF \A p \in req.platforms : stage[p] = "built" THEN "ok" ELSE "error"
    /\ UNCHANGED <<doc, req, heap, argMap, stage, spec, built, again>>

Load(p) ==
    /\ p \in req.platforms
    /\ \/ DecodeSpec(p) \/ ValidateSpec(p) \/ FillSpec(p) \/ FillPlatformArgs(p)
       \/ SubstituteSpec(p) \/ ForwardSpec(p) \/ BuildSources(p)

Next == (\E p \in Platforms : Load(p)) \/ Finalize

(* Every goroutine of the build keeps running until it returns.             *)
Spec == Init /\ [][Next]_vars /\ (\A p \in Platforms : WF_vars(Load(p))) /\ WF_vars(Finalize)

-----------------------------------------------------------------------------
(* Properties.                                                              *)

Loaded(p) == stage[p] \in {"loaded", "forwarded", "built"}

(* The variables keep their shapes: a platform has a spec once it decoded   *)
(* the document, and source states once its build function ran.             *)
TypeOK ==
    /\ stage \in [req.platforms -> Stages]
    /\ argMap \in [req.platforms -> {"client"} \cup req.platforms]
    /\ result \in {"none", "ok", "error"}
    /\ \A p \in req.platforms : /\ stage[p] = "built" <=> built[p].status = "ok"
                                /\ Loaded(p) => "sources" \in DOMAIN spec[p]

(* Validate keeps FillDefaults and SubstituteArgs from calling toInterface  *)
(* on a source without a variant.  The loader panics in two cases only: a   *)
(* patch names such a source, or a base image has further errors that were  *)
(* forgiven together with its missing path.                                 *)
PanicOnlyWhereUnchecked ==
    \A p \in req.platforms : stage[p] = "panic" =>
        \/ ValidatePanics(spec[p])
        \/ \E t \in {spec[p].base} \cup Range(spec[p].targets) : \E i \in DOMAIN t.image.bases :
               /\ "image without path" \in ValidateBase(t.image.bases[i])
               /\ ValidateBase(t.image.bases[i]) # {"image without path"}

(* An authentication entry a spec gives a gomod generator for a host is the *)
(* one the generator uses, whatever the git source fills in, unless another *)
(* entry, or the URL of the source, names a host by a build argument.       *)
AuthKept ==
    \A p \in req.platforms : Loaded(p) =>
        \A n \in DOMAIN doc.spec.sources : \A i \in DOMAIN doc.spec.sources[n].gens :
            LET given == doc.spec.sources[n].gens[i].auth
                used  == spec[p].sources[n].gens[i].auth
            IN  (~\E h \in DOMAIN given \cup {doc.spec.sources[n].id} : h.ref) =>
                    \A h \in DOMAIN given : h \in DOMAIN used /\ used[h] = given[h]

(* The same for every literal host: "Don't overwrite explicitly-specified   *)
(* auth" is what GeneratorGomod.fillDefaults says.                          *)
ExplicitAuthKept ==
    \A p \in req.platforms : Loaded(p) =>
        \A n \in DOMAIN doc.spec.sources : \A i \in DOMAIN doc.spec.sources[n].gens :
            LET given == doc.spec.sources[n].gens[i].auth
                used  == spec[p].sources[n].gens[i].auth
            IN  \A h \in {k \in DOMAIN given : ~k.ref} : h \in DOMAIN used /\ used[h] = given[h]

(* Once a spec is loaded, no field that SubstituteArgs walks still refers   *)
(* to an argument the spec declares, at any depth of mounts and sources.    *)
SubstitutionComplete ==
    \A p \in req.platforms : Loaded(p) =>
        ~\E w \in SpecWords(spec[p]) : w.ref /\ w.text \in DOMAIN doc.spec.args

(* A platform's spec is built with that platform's arguments, however the   *)
(* loads of the platforms interleave, and with declared arguments only.     *)
PlatformArgsOwn ==
    \A p \in req.platforms : Loaded(p) =>
        LET env == WithPlatform(heap["client"], p)
        IN  spec[p].versions = ExpandAll(doc.spec.versions, Sub(doc.spec, env))

(* A loaded spec that is sent to another frontend loads there, to the same  *)
(* spec.  Two things stop it: the epoch that SubstituteArgs put into the    *)
(* environment of a build without steps, and a required field that an       *)
(* argument made empty.                                                     *)
ForwardedReloads ==
    \A p \in req.platforms : again[p].status # "none" =>
        \/ again[p].status = "ok" /\ again[p].spec = spec[p]
        \/ Epoch \in DOMAIN spec[p].build.env /\ spec[p].build.steps = <<>>
        \/ \E w \in SpecWords(doc.spec) : w.ref /\ Expand(w, Sub(doc.spec, heap[argMap[p]])) = Blank

(* The files a source stands for: those below its path, as its patterns     *)
(* select them.                                                             *)
Contents(s) ==
    CASE s.cmd # <<>>               -> (IF IsRoot(s.path) THEN BaseTree ELSE {}) \cup {<<"made">>}
      [] "inline" \in s.variants    -> {<<n>> : n \in DOMAIN s.files}
      [] PathOf(s.path) \in BaseTree -> {PathOf(s.path)}
      [] OTHER                      -> Under(BaseTree, PathOf(s.path))

Selection(s) == {q \in Contents(s) : Selected(q, s)}

(* Sources whose delivery depends on nothing but the tree.                  *)
Fetchable(s) ==
    /\ s.variants \subseteq {"git", "image"}
    /\ \A i \in DOMAIN s.cmd : s.cmd[i].mounts = <<>>
                               /\ \A j \in DOMAIN s.cmd[i].steps : s.cmd[i].steps[j].mounts = <<>>
    /\ Contents(s) # {}

View(m) ==
    IF m.select \in m.st.paths THEN {<<Last(m.select)>>} ELSE Under(m.st.paths, m.select)

(* In the build, a directory source is the selected files under the name of *)
(* the source, and a file source is one file of that name, for every        *)
(* variant but inline directories with a path or patterns.  Mounted, it     *)
(* shows the same files when it has no path or no patterns.                 *)
SourceContents ==
    \A p \in req.platforms : built[p].status = "ok" =>
        \A n \in DOMAIN spec[p].sources :
            LET s  == spec[p].sources[n]
                st == built[p].all[n]
                plain == "inline" \notin s.variants \/ (IsRoot(s.path) /\ Unfiltered(s))
            IN  /\ Fetchable(s) /\ st.patches = <<>> => st.ok
                /\ st.ok /\ IsDir(s) /\ plain => st.paths = {<<n>> \o q : q \in Selection(s)}
                /\ st.ok /\ ~IsDir(s) => st.paths = {<<n>>}
                /\ Fetchable(s) /\ (Unfiltered(s) \/ IsRoot(s.path)) =>
                       View(built[p].mounted[n]) = Selection(s)

(* A mounted source shows the files its path and patterns select.           *)
MountShowsSelection ==
    \A p \in req.platforms : built[p].status = "ok" =>
        \A n \in DOMAIN spec[p].sources :
            Fetchable(spec[p].sources[n]) =>
                View(built[p].mounted[n]) = Selection(spec[p].sources[n])

(* What validatePatch accepts applies: a patch that is in its source, as a  *)
(* file or below the name of a directory, is found and applied to a         *)
(* directory.  A generator gets its sources patched as the package does,    *)
(* unless the source of a patch is itself patched.                          *)
PatchesApply ==
    \A p \in req.platforms : built[p].status = "ok" =>
        LET patches == spec[p].patches
            sources == spec[p].sources
            exists(q) == IF IsDir(sources[q.source])
                         THEN /\ Fetchable(sources[q.source])
                              /\ PathOf(q.path) \in Selection(sources[q.source])
                         ELSE q.source \notin DOMAIN patches
            plain(n) == \A i \in DOMAIN patches[n] : patches[n][i].source \notin DOMAIN patches
        IN  \A n \in DOMAIN patches \cap DOMAIN sources :
                /\ Fetchable(sources[n]) /\ (\A i \in DOMAIN patches[n] : exists(patches[n][i]))
                      => built[p].all[n].ok
                /\ sources[n].gens # <<>> /\ plain(n)
                      => built[p].wanted[n] = built[p].all[n]

(* Every request ends, with a result or an error, also after a panic.       *)
RequestAnswered == <>(result # "none")

=============================================================================
