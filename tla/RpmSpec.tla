------------------------------- MODULE RpmSpec -------------------------------
(***************************************************************************)
(* The rpm packager: the SOURCES directory, and the spec file that rpmbuild *)
(* reads (dependencies, %prep, %install, %files and the scriptlets).        *)
(*                                                                         *)
(* A scriptlet is a sequence of commands [op, name, path]; its argument is   *)
(* the number of instances of the package left when it is done.             *)
(***************************************************************************)
EXTENDS Artifacts

Cmd(op, name, path) == [op |-> op, name |-> name, path |-> path]

NoPath == <<>>

(* The directory macro of each kind of file, in the order of %install.      *)
RpmRoot == [binaries |-> "bin", manpages |-> "man", dataDirs |-> "data", libexec |-> "libexec",
            configFiles |-> "etc", docs |-> "doc", licenses |-> "license", libs |-> "lib",
            headers |-> "include"]

-----------------------------------------------------------------------------
(* Dependencies.  A version constraint is [op, v]; a bare version has op "". *)

(* rpm reads <, > and == where Debian writes <<, >> and =.                  *)
FormatVersionConstraint(c) ==
    [c EXCEPT !.op = CASE @ = ""   -> "=="
                       [] @ = "<<" -> "<"
                       [] @ = ">>" -> ">"
                       [] @ = "="  -> "=="
                       [] OTHER    -> @]

(* One line per version, or one without a version, in an %ifarch for each   *)
(* architecture the constraint names.                                       *)
WriteDep(tag, name, c) ==
    LET lines(arch) ==
            IF c.version = <<>> THEN {[tag |-> tag, name |-> name, op |-> "", v |-> 0, arch |-> arch]}
            ELSE {LET w == FormatVersionConstraint(v)
                  IN  [tag |-> tag, name |-> name, op |-> w.op, v |-> w.v, arch |-> arch] :
                      v \in ToSet(c.version)}
    IN  IF c.arch = {} THEN lines("") ELSE UNION {lines(arch) : arch \in c.arch}

WriteDeps(tag, list) == UnionOfMap(list, LAMBDA n, c : WriteDep(tag, n, c))

(* The tools that each scriptlet requires.                                  *)
GetSystemdRequires(a) ==
    IF DOMAIN a.units = {} THEN {}
    ELSE (IF EnabledUnits(a) # {} THEN {<<"post", "systemctl">>} ELSE {})
         \cup {<<"preun", "systemctl">>, <<"postun", "systemctl">>}

GetUserPostRequires(a) ==
    (IF a.users # <<>> THEN {<<"post", "adduser">>, <<"post", "getent">>} ELSE {})
    \cup (IF a.groups # <<>> THEN {<<"post", "groupadd">>, <<"post", "getent">>} ELSE {})

RpmRequires(spec, t) ==
    WriteDeps("BuildRequires", GetPackageDeps(spec, t).build)
    \cup WriteDeps("Requires", GetPackageDeps(spec, t).runtime)

RpmRecommends(spec, t) == WriteDeps("Recommends", GetPackageDeps(spec, t).recommends)

RpmRelations(spec, t) ==
    WriteDeps("Provides", GetProvides(spec, t)) \cup WriteDeps("Obsoletes", GetReplaces(spec, t))
    \cup WriteDeps("Conflicts", GetConflicts(spec, t))

-----------------------------------------------------------------------------
(* Sources, %prep and %build.                                               *)

SourceFile(spec, n) == [name |-> n, tar |-> spec.sources[n].dir]

Archive(n) == [name |-> n, tar |-> TRUE]

BuildScript == [name |-> "build.sh", tar |-> FALSE]

(* The Source lines of the spec file: there is none for the pip archive.    *)
SpecSources(spec) ==
    {SourceFile(spec, n) : n \in DOMAIN spec.sources}
    \cup {Archive(g) : g \in DepArchives(spec) \ {"pip"}}
    \cup (IF spec.steps # <<>> THEN {BuildScript} ELSE {})

ToSourcesLLB(spec) ==
    {SourceFile(spec, n) : n \in DOMAIN spec.sources} \cup {Archive(g) : g \in DepArchives(spec)}
    \cup (IF spec.steps # <<>> THEN {BuildScript} ELSE {})

(* What %prep and %build read from the source directory.                    *)
SourcesRead(spec) ==
    (IF DOMAIN spec.sources = {} THEN {}
     ELSE {SourceFile(spec, n) : n \in DOMAIN spec.sources} \cup {Archive(g) : g \in DepArchives(spec)})
    \cup (IF spec.steps # <<>> THEN {BuildScript} ELSE {})

(* A patch file is known by the source and the path it is read from.        *)
PatchFile(p) == <<p.source, p.path>>

(* NodeModDeps hands the packager sources that are already patched; their   *)
(* patches are listed a second time all the same.                           *)
PatchedBefore(spec, n) ==
    IF "nodemod" \in spec.sources[n].gens /\ n \in DOMAIN spec.patches
    THEN [i \in DOMAIN spec.patches[n] |-> PatchFile(spec.patches[n][i])] ELSE <<>>

PrepPatches(spec, n) == [i \in DOMAIN spec.patches[n] |-> PatchFile(spec.patches[n][i])]

(* Every command of every step, in a script that stops at the first error.  *)
ScriptSucceeds(spec) == \A i \in DOMAIN spec.steps : \A j \in DOMAIN spec.steps[i].cmds :
                            spec.steps[i].cmds[j]

-----------------------------------------------------------------------------
(* %install and %files.                                                     *)

(* cp -r to the resolved name, or into the directory when that name holds a *)
(* wildcard; a wildcard's permissions are given to the directory.           *)
CopyArtifact(spec, root, key, cfg) ==
    LET wild == HasStar(ResolveName(key, cfg))
    IN  {[path |-> Join(<<root, cfg.sub, f>>),
          perm |-> IF cfg.perm # 0 /\ ~wild THEN cfg.perm ELSE InlinePerm(spec, key)] :
            f \in IF wild THEN Glob[key] ELSE {ResolveName(key, cfg)}}

(* Several files cannot be copied to the name of one.                       *)
CopySucceeds(key, cfg) == HasStar(ResolveName(key, cfg)) \/ Cardinality(Glob[key]) = 1

CreateArtifactDir(root, name, cfg) == {[path |-> <<root, name>>, perm |-> cfg.mode]}

Install(spec, a) ==
    LET copy(root, key, cfg) == CopyArtifact(spec, root, key, cfg)
    IN  UNION {UnionOfMap(a[k], LAMBDA key, cfg : copy(RpmRoot[k], key, cfg)) : k \in FileKinds}
        \cup UnionOfMap(a.configDirs, LAMBDA n, cfg : CreateArtifactDir("etc", n, cfg))
        \cup UnionOfMap(a.stateDirs, LAMBDA n, cfg : CreateArtifactDir("state", n, cfg))
        \cup UnionOfMap(a.units, LAMBDA key, u : copy("unit", key, UnitArtifact(u)))
        \cup UnionOfMap(a.dropins, LAMBDA key, d : copy("unit", key, DropinArtifact(d)))
        \cup {[path |-> a.links[i].dest, perm |-> 0] : i \in DOMAIN a.links}

InstallSucceeds(a) == \A k \in FileKinds : \A key \in DOMAIN a[k] : CopySucceeds(key, a[k][key])

(* An entry is a pattern, and a %dir entry (dir) does not bring the content. *)
FileEntry(path, dir, user, group) == [path |-> path, dir |-> dir, user |-> Prefer(user, "root"),
                                      group |-> Prefer(group, "root")]

(* Mutant: %files does not follow a subpath.                                *)
EntryWithoutSubPath(root, key, cfg) ==
    {FileEntry(Join(<<root, ResolveName(key, cfg)>>), FALSE, "", "")}

ArtifactEntry(root, key, cfg) ==
    {FileEntry(Join(<<root, cfg.sub, ResolveName(key, cfg)>>), FALSE, "", "")}

(* All manual pages are one pattern, with a section directory in it; only a *)
(* symlink has an owner of its own.  The directory of a drop-in, which       *)
(* %install always makes, has an entry too and is left out.                 *)
Files(a) ==
    UNION {UnionOfMap(a[k], LAMBDA key, cfg : ArtifactEntry(RpmRoot[k], key, cfg)) :
              k \in FileKinds \ {"manpages"}}
    \cup (IF DOMAIN a.manpages = {} THEN {} ELSE {FileEntry(<<"man", "*", "*">>, FALSE, "", "")})
    \cup {FileEntry(<<"etc", n>>, TRUE, "", "") : n \in DOMAIN a.configDirs}
    \cup {FileEntry(<<"state", n>>, TRUE, "", "") : n \in DOMAIN a.stateDirs}
    \cup UnionOfMap(a.units, LAMBDA key, u : ArtifactEntry("unit", key, UnitArtifact(u)))
    \cup UnionOfMap(a.dropins, LAMBDA key, d : ArtifactEntry("unit", key, DropinArtifact(d)))
    \cup {FileEntry(a.links[i].dest, FALSE, a.links[i].user, a.links[i].group) :
              i \in DOMAIN a.links}

-----------------------------------------------------------------------------
(* Scriptlets.                                                              *)

Once(cond, cmds) == IF cond THEN cmds ELSE <<>>

Chown(cfg, path) == Once(cfg.user # "", <<Cmd("chown", cfg.user, path)>>)
                    \o Once(cfg.group # "", <<Cmd("chgrp", cfg.group, path)>>)

(* The owner of a wildcard is set on the whole directory it was copied to.  *)
SetArtifactOwnership(root, key, cfg) ==
    Chown(cfg, Join(<<root, cfg.sub, IF HasStar(ResolveName(key, cfg)) THEN ""
                                     ELSE ResolveName(key, cfg)>>))

GetArtifactOwnership(a) ==
    FlattenSeq([i \in 1..4 |->
        LET k == <<"configFiles", "dataDirs", "libs", "binaries">>[i]
        IN  OverKeys(a[k], LAMBDA key, cfg : SetArtifactOwnership(RpmRoot[k], key, cfg))])

(* Mutant: the state directories are forgotten.                             *)
ConfigDirsOnly(a) == OverKeys(a.configDirs, LAMBDA n, cfg : Chown(cfg, <<"etc", n>>))

GetDirectoryOwnership(a) ==
    OverKeys(a.configDirs, LAMBDA n, cfg : Chown(cfg, <<"etc", n>>))
    \o OverKeys(a.stateDirs, LAMBDA n, cfg : Chown(cfg, <<"state", n>>))

(* Only for users and groups the package itself creates.                    *)
GetSymlinkOwnership(a) ==
    FlattenSeq([i \in DOMAIN a.links |->
        Once(a.links[i].user \in ToSet(a.users), <<Cmd("chown-h", a.links[i].user, a.links[i].dest)>>)
        \o Once(a.links[i].group \in ToSet(a.groups),
                <<Cmd("chgrp-h", a.links[i].group, a.links[i].dest)>>)])

(* Mutant: a unit is enabled anew by every upgrade.                         *)
EnableAlways(name, u, count) ==
    Once(u.enable, <<Cmd(IF u.start THEN "enable-now" ELSE "enable", name, NoPath)>>)

SystemdPostScript(name, u, count) ==
    Once(u.enable /\ count = 1, <<Cmd(IF u.start THEN "enable-now" ELSE "enable", name, NoPath)>>)

PostSystemd(a, count) ==
    OverKeys(a.units, LAMBDA key, u : SystemdPostScript(UnitName(key, u), u, count))

PostUsers(a) == [i \in DOMAIN a.users |-> Cmd("adduser", a.users[i], NoPath)]

PostGroups(a) == [i \in DOMAIN a.groups |-> Cmd("groupadd", a.groups[i], NoPath)]

Post(a, count) == PostSystemd(a, count) \o PostUsers(a) \o PostGroups(a)
                  \o GetSymlinkOwnership(a) \o GetArtifactOwnership(a) \o GetDirectoryOwnership(a)

(* Mutant: a removal leaves the units enabled.                              *)
PreUnNothing(a, count) == <<>>

(* The unit is named after its file, whatever name it is installed under.   *)
PreUn(a, count) ==
    OverKeys(a.units, LAMBDA key, u : Once(u.enable /\ count = 0,
                                           <<Cmd("disable-now", Base[key], NoPath)>>))

PostUn(a) == OverKeys(a.units, LAMBDA key, u : <<Cmd("reload", UnitName(key, u), NoPath)>>)

-----------------------------------------------------------------------------
(* Validation, and what rpmbuild makes of the build root.                   *)

ValidateRpmSpec(spec) ==
    /\ spec.name # "" /\ spec.version # "" /\ spec.revision # ""
    /\ spec.description # "" /\ spec.license # ""

(* rpm's globs do not cross a "/"; a directory brings all that is in it.    *)
Matches(e, p) ==
    /\ IF e.dir THEN Len(p) = Len(e.path) ELSE Len(p) >= Len(e.path)
    /\ \A i \in DOMAIN e.path : e.path[i] \in {"*", p[i]}

(* rpmbuild stops at a file that no entry lists, and at an entry that names *)
(* no file.                                                                 *)
FilesAgree(spec, a) ==
    /\ \A f \in Install(spec, a) : \E e \in Files(a) : Matches(e, f.path)
    /\ \A e \in Files(a) : \E f \in Install(spec, a) : Matches(e, f.path)

(* Applying a patch a second time fails.                                    *)
PatchesTake(before, patches) == ToSet(before) \cap ToSet(patches) = {}

RpmBuild(spec, t) ==
    LET a == GetArtifacts(spec, t)
    IN  [ok      |-> /\ SpecSources(spec) \cup SourcesRead(spec) \subseteq ToSourcesLLB(spec)
                     /\ \A n \in DOMAIN spec.patches :
                            PatchesTake(PatchedBefore(spec, n), PrepPatches(spec, n))
                     /\ ScriptSucceeds(spec) /\ InstallSucceeds(a) /\ FilesAgree(spec, a),
         complete |-> ScriptSucceeds(spec),
         files   |-> Install(spec, a),
         deps    |-> RpmRequires(spec, t) \cup RpmRecommends(spec, t) \cup RpmRelations(spec, t),
         srcs    |-> SpecSources(spec),
         patched |-> [n \in DOMAIN spec.patches |-> PrepPatches(spec, n)]]

=============================================================================
