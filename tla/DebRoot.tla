------------------------------- MODULE DebRoot -------------------------------
(***************************************************************************)
(* The deb packager: the debian directory (control, rules, install lists,    *)
(* postinst and the helper scripts), the source package, and what           *)
(* dpkg-buildpackage and debhelper make of them.                            *)
(***************************************************************************)
EXTENDS RpmSpec

(* The directory of each kind of file.  Docs and licenses share theirs, and *)
(* manual pages that debhelper does not install go below doc/manpages.      *)
DebDir == [binaries |-> "bin", manpages |-> "docman", dataDirs |-> "data", libexec |-> "libexec",
           configFiles |-> "etc", docs |-> "doc", licenses |-> "doc", libs |-> "lib",
           headers |-> "include"]

ValidateDebSpec(spec) == spec.packager # ""

-----------------------------------------------------------------------------
(* debian/control.                                                          *)

(* Debian reads <<, >> and = where rpm writes <, > and ==.                  *)
FormatVersionConstraintDeb(c) ==
    [c EXCEPT !.op = CASE @ = ""   -> "="
                       [] @ = "<"  -> "<<"
                       [] @ = ">"  -> ">>"
                       [] @ = "==" -> "="
                       [] OTHER    -> @]

AppendConstraints(tag, list) ==
    UnionOfMap(list, LAMBDA n, c :
        LET arches == IF c.arch = {} THEN {""} ELSE c.arch
            vs     == IF c.version = <<>> THEN {[op |-> "", v |-> 0]}
                      ELSE {FormatVersionConstraintDeb(v) : v \in ToSet(c.version)}
        IN  {[tag |-> tag, name |-> n, op |-> v.op, v |-> v.v, arch |-> arch] :
                v \in vs, arch \in arches})

AnyVersion(tag, name) == [tag |-> tag, name |-> name, op |-> "", v |-> 0, arch |-> ""]

Depends(spec, t) ==
    AppendConstraints("Depends", GetPackageDeps(spec, t).runtime)
    \cup (IF GetArtifacts(spec, t).disableAutoRequires THEN {}
          ELSE {AnyVersion("Depends", "${shlibs:Depends}")})
    \cup {AnyVersion("Depends", "${misc:Depends}")}

BuildDeps(spec, t) ==
    AppendConstraints("Build-Depends", GetPackageDeps(spec, t).build)
    \cup {AnyVersion("Build-Depends", "debhelper-compat")}

Control(spec, t) ==
    BuildDeps(spec, t) \cup Depends(spec, t)
    \cup AppendConstraints("Recommends", GetPackageDeps(spec, t).recommends)
    \cup AppendConstraints("Replaces", GetReplaces(spec, t))
    \cup AppendConstraints("Conflicts", GetConflicts(spec, t))
    \cup AppendConstraints("Provides", GetProvides(spec, t))

(* The entries are sorted by date, and the first one, the oldest, is taken. *)
Change(spec) ==
    IF spec.changelog = {} THEN [date |-> 0, id |-> "dummy"]
    ELSE CHOOSE e \in spec.changelog : \A o \in spec.changelog : e.date <= o.date

-----------------------------------------------------------------------------
(* Patches.  Each patch file is copied to a place named after its source    *)
(* alone, so of two patches that come from one source the last stays.       *)

SourcePatchesDir(spec, n) ==
    [s \in {p.source : p \in ToSet(spec.patches[n])} |->
        PatchFile(spec.patches[n][SelectLastInSeq(spec.patches[n], LAMBDA p : p.source = s)])]

(* patch.sh reads the place of each patch in turn.                          *)
CreatePatchScript(spec, n) ==
    [i \in DOMAIN spec.patches[n] |-> SourcePatchesDir(spec, n)[spec.patches[n][i].source]]

(* It stops at the first patch that does not apply.                         *)
CreatePatches(spec) ==
    \A n \in DOMAIN spec.patches :
        /\ PatchesTake(PatchedBefore(spec, n), CreatePatchScript(spec, n))
        /\ IsInjective(CreatePatchScript(spec, n))

-----------------------------------------------------------------------------
(* Install lists.                                                           *)

(* A line of the install script; a wildcard is trimmed from the name.       *)
WriteInstall(dir, key, cfg) ==
    <<[key |-> key, dest |-> Join(<<dir, cfg.sub, IF HasStar(ResolveName(key, cfg)) THEN ""
                                                  ELSE ResolveName(key, cfg)>>)]>>

(* Several files go into a directory of that name, which is made; one file  *)
(* gets the name itself, unless a directory of that name is already there,  *)
(* one of dirs that dh_installdirs made or the directory of another file.   *)
DoInstall(dirs, tree, line) ==
    LET intoDir == \/ Cardinality(Glob[line.key]) > 1
                   \/ line.dest \in dirs
                   \/ \E p \in tree : IsPrefix(line.dest, p) /\ p # line.dest
    IN  tree \cup {IF intoDir THEN Append(line.dest, f) ELSE line.dest : f \in Glob[line.key]}

(* debhelper installs a manual page that is neither renamed nor moved, and  *)
(* documentation that lies at the top and keeps its name.                   *)
ByDebhelper(k, key, cfg) ==
    /\ cfg.name = ""
    /\ \/ k = "manpages" /\ cfg.sub \in {"", Parent[key]}
       \/ k \in {"docs", "licenses"} /\ cfg.sub = "" /\ Parent[key] = ""

(* The order of the install script.                                         *)
InstallOrder == <<"binaries", "configFiles", "manpages", "docs", "licenses", "headers", "dropins",
                  "dataDirs", "libexec", "libs">>

InstallLines(a) ==
    FlattenSeq([i \in DOMAIN InstallOrder |->
        LET k == InstallOrder[i]
        IN  IF k = "dropins"
            THEN OverKeys(a.dropins, LAMBDA key, d : WriteInstall("unit", key, DropinArtifact(d)))
            ELSE OverKeys(a[k], LAMBDA key, cfg : IF ByDebhelper(k, key, cfg) THEN <<>>
                                                  ELSE WriteInstall(DebDir[k], key, cfg))])

(* What debhelper installs; each manual page goes to its section.           *)
DhInstall(a) ==
    UNION {UnionOfMap(a[k], LAMBDA key, cfg :
               IF ~ByDebhelper(k, key, cfg) THEN {}
               ELSE IF k = "manpages" THEN {<<"man", Parent[key], f>> : f \in Glob[key]}
               ELSE {<<"doc", f>> : f \in Glob[key]}) : k \in {"manpages", "docs", "licenses"}}

DhInstallsystemd(a) == UnionOfMap(a.units, LAMBDA key, u : {<<"unit", UnitName(key, u)>>})

DhInstalldirs(a) == {<<"etc", n>> : n \in DOMAIN a.configDirs}
                    \cup {<<"state", n>> : n \in DOMAIN a.stateDirs}

DhLink(a) == {a.links[i].dest : i \in DOMAIN a.links}

(* The install script runs after the directories are made.                  *)
CreateInstallScripts(a) ==
    FoldLeft(LAMBDA tree, line : DoInstall(DhInstalldirs(a), tree, line), DhInstalldirs(a),
             InstallLines(a))
    \cup DhInstall(a) \cup DhInstallsystemd(a) \cup DhLink(a)

-----------------------------------------------------------------------------
(* Permissions.  dh_fixperms gives every file the usual ones (0); the       *)
(* script that sets others runs only when some artifact states its own.     *)

OverridePerms(a) ==
    \/ \E k \in FileKinds : \E key \in DOMAIN a[k] : a[k][key].perm # 0
    \/ \E n \in DOMAIN a.configDirs : a.configDirs[n].mode # 0
    \/ \E n \in DOMAIN a.stateDirs : a.stateDirs[n].mode # 0

(* The chmod commands: the artifact's permission, or else its source's.     *)
FixupArtifactPerms(spec, a) ==
    {c \in UNION {UnionOfMap(a[k], LAMBDA key, cfg :
                {[path |-> Join(<<DebDir[k], cfg.sub, ResolveName(key, cfg)>>),
                  perm |-> IF cfg.perm # 0 THEN cfg.perm ELSE InlinePerm(spec, key)]}) :
                      k \in FileKinds}
           \cup UnionOfMap(a.configDirs, LAMBDA n, d : {[path |-> <<"etc", n>>, perm |-> d.mode]})
           \cup UnionOfMap(a.stateDirs, LAMBDA n, d : {[path |-> <<"state", n>>, perm |-> d.mode]}) :
        c.perm # 0}

(* chmod takes the path as it stands, a wildcard included.                  *)
FixPermsSucceeds(spec, a) ==
    OverridePerms(a) =>
        \A c \in FixupArtifactPerms(spec, a) : \E p \in CreateInstallScripts(a) : IsPrefix(c.path, p)

InstalledPerm(spec, a, p) ==
    LET own == {c \in FixupArtifactPerms(spec, a) : c.path = p}
    IN  IF OverridePerms(a) /\ own # {} THEN (CHOOSE c \in own : TRUE).perm ELSE 0

-----------------------------------------------------------------------------
(* systemd units, grouped by base name.                                     *)

GroupUnitsByBaseName(a) ==
    [b \in {SplitName(k, a.units[k]) : k \in DOMAIN a.units} |->
        {k \in DOMAIN a.units : SplitName(k, a.units[k]) = b}]

(* Mutant: a mix of enabled and other units is not noticed.                 *)
NeverCustomEnable(a, group) == FALSE

RequiresCustomEnable(a, group) == group \cap EnabledUnits(a) \notin {{}, group}

(* One call of dh_installsystemd for each group, which asks some unit of it *)
(* whether to enable them.  The call adds to the postinst, for each unit of *)
(* the group, an enable snippet unless told not to, and a start snippet.    *)
OverrideSystemd(a) ==
    OverKeys(a.units, LAMBDA key, u :
        LET group    == GroupUnitsByBaseName(a)[SplitName(key, u)]
            firstKey == CHOOSE k \in group : TRUE
        IN  <<Cmd(IF a.units[firstKey].enable /\ ~RequiresCustomEnable(a, group) THEN "dsh-enable"
                  ELSE "dsh-noenable", UnitName(key, u), NoPath),
              Cmd("dsh-start", UnitName(key, u), NoPath)>>)

(* dalec's own snippets, for the groups that mix enabled and other units.   *)
CustomDHInstallSystemdPostinst(a) ==
    OverKeys(a.units, LAMBDA key, u :
        Once(RequiresCustomEnable(a, GroupUnitsByBaseName(a)[SplitName(key, u)]),
             <<Cmd(IF u.enable THEN "dsh-enable" ELSE "dsh-noenable", UnitName(key, u), NoPath),
               Cmd("dsh-start", UnitName(key, u), NoPath)>>))

-----------------------------------------------------------------------------
(* postinst: users, groups, owners; then the custom snippets.               *)

WriteUsersPostInst(a) == [i \in DOMAIN a.users |-> Cmd("adduser", a.users[i], NoPath)]

WriteGroupsPostInst(a) == [i \in DOMAIN a.groups |-> Cmd("groupadd", a.groups[i], NoPath)]

OwnedKinds == <<"binaries", "configFiles", "manpages", "headers", "licenses", "docs", "libs",
                "libexec", "dataDirs">>

(* The paths are quoted: a wildcard names no file.                          *)
SetArtifactOwnershipPostInst(a) ==
    FlattenSeq([i \in DOMAIN OwnedKinds |->
        OverKeys(a[OwnedKinds[i]], LAMBDA key, cfg :
            Chown(cfg, Join(<<DebDir[OwnedKinds[i]], cfg.sub, ResolveName(key, cfg)>>)))])
    \o GetDirectoryOwnership(a)
    \o FlattenSeq([i \in DOMAIN a.links |->
           Once(a.links[i].user # "", <<Cmd("chown-h", a.links[i].user, a.links[i].dest)>>)
           \o Once(a.links[i].group # "", <<Cmd("chgrp-h", a.links[i].group, a.links[i].dest)>>)])

OwnPostInst(a) ==
    WriteUsersPostInst(a) \o WriteGroupsPostInst(a) \o SetArtifactOwnershipPostInst(a)
    \o CustomDHInstallSystemdPostinst(a)

(* Links write a heading into the postinst even when none has an owner.     *)
HasPostInst(a) == OwnPostInst(a) # <<>> \/ a.links # <<>>

(* debhelper puts its snippets in place of a token in the package's own     *)
(* postinst; dalec's has none, so the snippets are in a postinst only when  *)
(* the package has none of its own.                                         *)
PostInst(a) == IF HasPostInst(a) THEN OwnPostInst(a) ELSE OverrideSystemd(a)

-----------------------------------------------------------------------------
(* The source package and the binary package.                               *)

DebSources(spec) == {SourceFile(spec, n) : n \in DOMAIN spec.sources}
                    \cup {Archive(g) : g \in DepArchives(spec)}

SourcePackage(spec) == [ok |-> CreatePatches(spec), srcs |-> DebSources(spec)]

BuildDeb(spec, t, srcPkg) ==
    LET a == GetArtifacts(spec, t)
    IN  [ok      |-> /\ srcPkg.ok /\ ScriptSucceeds(spec) /\ FixPermsSucceeds(spec, a)
                     /\ DepArchives(spec) \subseteq {s.name : s \in srcPkg.srcs},
         complete |-> ScriptSucceeds(spec),
         files   |-> {[path |-> p, perm |-> InstalledPerm(spec, a, p)] : p \in CreateInstallScripts(a)},
         deps    |-> Control(spec, t),
         change  |-> Change(spec),
         srcs    |-> srcPkg.srcs,
         patched |-> [n \in DOMAIN spec.patches |-> CreatePatchScript(spec, n)]]

=============================================================================
