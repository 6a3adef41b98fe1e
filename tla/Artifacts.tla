------------------------------ MODULE Artifacts ------------------------------
(***************************************************************************)
(* What a loaded spec declares for one target: the getters that every       *)
(* packager and every distro handler reads the spec through, and the merge   *)
(* of the image configuration.  A missing (nil) part is Nil; an empty one is *)
(* an empty function, set or sequence.                                      *)
(*                                                                         *)
(* A path is the sequence of its names, the first one the root of its kind   *)
(* of artifact.  An artifact configuration is [name, sub, perm, user, group]; *)
(* a permission of 0 is one that is not set.                                *)
(***************************************************************************)
EXTENDS Integers, FiniteSets, SequencesExt, Caches

CONSTANTS KeyOrder,   \* every map key, in lexicographic order
          Base,       \* filepath.Base of each artifact key
          Parent,     \* filepath.Base of filepath.Dir of each artifact key
          SrcOf,      \* the first element of each artifact key
          Glob,       \* the files each artifact key names in the build tree
          Stem        \* the part of each unit name before its first "."

(* A key without a wildcard names one file; a wildcard, one or more.        *)
ASSUME GlobAssumption ==
    \A k \in DOMAIN Base : IF Base[k] = "*" THEN Glob[k] # {} ELSE Glob[k] = {Base[k]}

(* The keys of every map are strings.                                       *)
ASSUME KeyOrderAssumption == KeyOrder \in Seq(STRING)

Nil == [nil |-> TRUE]

(* The concatenation of op over the keys of a map, which SortMapKeys sorts. *)
OverKeys(f, op(_, _)) == FlattenSeq([i \in DOMAIN KeyOrder |->
                                        IF KeyOrder[i] \in DOMAIN f
                                        THEN op(KeyOrder[i], f[KeyOrder[i]]) ELSE <<>>])

UnionOfMap(f, op(_, _)) == UNION {op(k, f[k]) : k \in DOMAIN f}

-----------------------------------------------------------------------------
(* Artifacts and systemd units.                                             *)

FileKinds == {"binaries", "manpages", "dataDirs", "libexec", "configFiles", "docs", "licenses",
              "libs", "headers"}

(* filepath.Join drops the empty elements.                                  *)
Join(elems) == SelectSeq(elems, LAMBDA e : e # "")

ResolveName(key, cfg) == IF cfg.name # "" THEN cfg.name ELSE Base[key]

HasStar(name) == name = "*"

(* The permission of an inline source that is the artifact's file.          *)
InlinePerm(spec, key) == IF SrcOf[key] \in DOMAIN spec.sources THEN spec.sources[SrcOf[key]].perm
                         ELSE 0

UnitArtifact(u) == [name |-> u.name, sub |-> "", perm |-> 0, user |-> "", group |-> ""]

(* A drop-in goes to <unit>.d; the unit stands for that directory's name.   *)
DropinArtifact(d) == [name |-> d.name, sub |-> d.unit, perm |-> 0, user |-> "", group |-> ""]

UnitName(key, u) == ResolveName(key, UnitArtifact(u))

SplitName(key, u) == Stem[UnitName(key, u)]

EnabledUnits(a) == {k \in DOMAIN a.units : a.units[k].enable}

HasDocs(a) == DOMAIN a.docs # {} \/ DOMAIN a.manpages # {}

(* Libexec is not looked at.                                                *)
IsEmpty(a) ==
    /\ \A k \in FileKinds \ {"libexec"} : DOMAIN a[k] = {}
    /\ DOMAIN a.configDirs = {} /\ DOMAIN a.stateDirs = {}
    /\ DOMAIN a.units = {} /\ DOMAIN a.dropins = {}
    /\ a.links = <<>>

-----------------------------------------------------------------------------
(* The spec's getters.  spec.targets maps a target key to the target's parts.*)

NoTarget == [artifacts |-> Nil, deps |-> Nil, image |-> Nil, signer |-> "", provides |-> Nil,
             replaces |-> Nil, conflicts |-> Nil]

TargetOf(spec, t) == IF t \in DOMAIN spec.targets THEN spec.targets[t] ELSE NoTarget

OrElse(x, default) == IF x = Nil THEN default ELSE x

GetArtifacts(spec, t) == OrElse(TargetOf(spec, t).artifacts, spec.artifacts)

GetProvides(spec, t) == OrElse(TargetOf(spec, t).provides, spec.provides)

GetReplaces(spec, t) == OrElse(TargetOf(spec, t).replaces, spec.replaces)

GetConflicts(spec, t) == OrElse(TargetOf(spec, t).conflicts, spec.conflicts)

NoDeps == [build |-> <<>>, runtime |-> <<>>, recommends |-> <<>>, test |-> <<>>, sysext |-> <<>>,
           repos |-> <<>>]

(* Mutant: a target with dependencies hides all of the spec's.              *)
TargetHidesAll(base, target) == IF target = Nil THEN base ELSE target

(* Each list of the target replaces the spec's when it is not empty; the    *)
(* sysext list of neither is kept.                                          *)
MergeDependencies(base, target) ==
    IF base = Nil THEN target
    ELSE IF target = Nil THEN base
    ELSE [part \in DOMAIN NoDeps |->
             IF part = "sysext" THEN <<>>
             ELSE IF DOMAIN target[part] # {} THEN target[part] ELSE base[part]]

(* A nil result reads as one with no dependency at all.                     *)
GetPackageDeps(spec, t) ==
    OrElse(IF t \in DOMAIN spec.targets THEN MergeDependencies(spec.deps, spec.targets[t].deps)
           ELSE spec.deps, NoDeps)

GetExtraRepos(deps, env) == SelectSeq(deps.repos, LAMBDA r : env \in r.envs)

HasGolang(spec, t) ==
    DOMAIN GetPackageDeps(spec, t).build \cap {"golang", "msft-golang", "golang-1.22"} # {}

HasNpm(spec, t) == "npm" \in DOMAIN GetPackageDeps(spec, t).build

(* Only a signer with an image is one.                                      *)
HasValidSigner(signer) == signer # ""

GetSigner(spec, t) ==
    IF HasValidSigner(TargetOf(spec, t).signer) THEN TargetOf(spec, t).signer
    ELSE IF HasValidSigner(spec.signer) THEN spec.signer ELSE ""

-----------------------------------------------------------------------------
(* Source generators.                                                       *)

HasGenerator(spec, g) == \E n \in DOMAIN spec.sources : g \in spec.sources[n].gens

(* The archives of generated dependencies the packagers ship: node modules  *)
(* go into the source that declares them instead.                           *)
DepArchives(spec) == {g \in {"gomod", "cargohome", "pip"} : HasGenerator(spec, g)}

-----------------------------------------------------------------------------
(* Images.                                                                  *)

GetImagePost(spec, t) ==
    LET img == TargetOf(spec, t).image
    IN  IF img # Nil /\ img.post # Nil THEN img.post
        ELSE IF spec.image # Nil THEN spec.image.post ELSE Nil

NilBases == <<"nil">>

(* A target's empty list of bases hides the spec's; a nil one does not.     *)
GetImageBases(spec, t) ==
    LET img == TargetOf(spec, t).image
    IN  IF img # Nil /\ img.bases # NilBases THEN img.bases
        ELSE IF spec.image = Nil \/ spec.image.bases = NilBases THEN <<>> ELSE spec.image.bases

(* The base image, "" for none, or "error" when there are several.          *)
GetSingleBase(spec, t) ==
    LET bases == GetImageBases(spec, t)
    IN  IF Len(bases) > 1 THEN "error" ELSE IF bases = <<>> THEN "" ELSE bases[1]

NoImage == [entrypoint |-> "", cmd |-> "", env |-> <<>>, dir |-> "", signal |-> "", user |-> "",
            labels |-> <<>>, volumes |-> {}, bases |-> NilBases, post |-> Nil]

Prefer(x, y) == IF x # "" THEN x ELSE y

(* The target's fields over the spec's; its user is not taken, nor its post. *)
MergeSpecImage(spec, t) ==
    LET cfg == OrElse(spec.image, NoImage)
        i   == TargetOf(spec, t).image
    IN  IF i = Nil THEN cfg
        ELSE [cfg EXCEPT !.entrypoint = Prefer(i.entrypoint, @), !.cmd = Prefer(i.cmd, @),
                         !.env = @ \o i.env, !.volumes = @ \cup i.volumes,
                         !.labels = i.labels @@ @, !.dir = Prefer(i.dir, @),
                         !.signal = Prefer(i.signal, @)]

(* An entry the destination holds word for word stays where it is; any other *)
(* is appended, also when the destination sets the same variable.           *)
MergeEnv(dst, src) == dst \o SelectSeq(src, LAMBDA e : e \notin ToSet(dst))

(* Mutant: the command of the base image outlives its entrypoint.           *)
KeepBaseCmd(dst, src) ==
    [dst EXCEPT !.entrypoint = Prefer(src.entrypoint, @), !.cmd = Prefer(src.cmd, @),
                !.env = MergeEnv(@, src.env), !.dir = Prefer(src.dir, @),
                !.signal = Prefer(src.signal, @), !.user = Prefer(src.user, @),
                !.volumes = @ \cup src.volumes, !.labels = src.labels @@ @]

MergeImageConfig(dst, src) ==
    [dst EXCEPT !.entrypoint = Prefer(src.entrypoint, @),
                !.cmd = IF src.cmd # "" THEN src.cmd ELSE IF src.entrypoint # "" THEN "" ELSE @,
                !.env = MergeEnv(@, src.env), !.dir = Prefer(src.dir, @),
                !.signal = Prefer(src.signal, @), !.user = Prefer(src.user, @),
                !.volumes = @ \cup src.volumes, !.labels = src.labels @@ @]

BuildImageConfig(spec, t, img) == MergeImageConfig(img, MergeSpecImage(spec, t))

BaseImageConfig == [NoImage EXCEPT !.dir = "/", !.env = <<[k |-> "PATH", v |-> "default"]>>]

-----------------------------------------------------------------------------
(* needsAutoGocache: no go build cache is configured, and go is used.       *)
AddGoCache(spec, t) ==
    IF /\ \A i \in DOMAIN spec.caches : spec.caches[i].kind # "gobuild"
       /\ HasGenerator(spec, "gomod") \/ HasGolang(spec, t)
    THEN Append(spec.caches, AutoGocache)
    ELSE spec.caches

-----------------------------------------------------------------------------
(* An invalid network mode is an error that the state carries until it is   *)
(* marshalled.                                                              *)
NetworkMode(spec) ==
    IF spec.net \in {"", "none"} THEN "none" ELSE IF spec.net = "sandbox" THEN "sandbox"
    ELSE "error"

=============================================================================
