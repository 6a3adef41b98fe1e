----------------------------- MODULE WindowsBuild -----------------------------
(***************************************************************************)
(* The Windows cross build: the build script, the script that calls it and   *)
(* collects the binaries, and the symlinks of an image, which are copies.    *)
(* A build step is [env, names, cmds]: whether it sets variables of its own, *)
(* whether the words of its first line could be names of variables, and for  *)
(* each of its lines whether it succeeds.                                   *)
(***************************************************************************)
EXTENDS PkgHost

ValidateRuntimeDeps(spec, t) == DOMAIN GetPackageDeps(spec, t).runtime = {}

(* The variables of a step are written without a line end, so the step's    *)
(* first line becomes arguments of the export, which fails, and ends the     *)
(* shell, on a word that is not a name.                                     *)
StepLines(step) == IF step.env THEN <<step.names>> \o Tail(step.cmds) ELSE step.cmds

(* Without set -e a step succeeds when its last line does, unless the shell *)
(* ends before; the steps are chained with &&.                              *)
CreateBuildScript(spec) ==
    \A i \in DOMAIN spec.steps :
        LET lines == StepLines(spec.steps[i])
        IN  /\ lines = <<>> \/ Last(lines)
            /\ spec.steps[i].env => spec.steps[i].names

(* mv and chmod name the binary by its key, in quotes.                      *)
GenerateInvocationScript(a) ==
    \A key \in DOMAIN a.binaries :
        Base[key] # "*" /\ (a.binaries[key].perm # 0 => Parent[key] = "")

SpecToSources(spec) == {SourceFile(spec, n) : n \in DOMAIN spec.sources}
                       \cup {Archive(g) : g \in DepArchives(spec)}

BuildBinaries(spec, t) ==
    LET a == GetArtifacts(spec, t)
    IN  [ok       |-> /\ \A n \in DOMAIN spec.patches :
                             PatchesTake(PatchedBefore(spec, n), PrepPatches(spec, n))
                      /\ CreateBuildScript(spec) /\ GenerateInvocationScript(a),
         complete |-> ScriptSucceeds(spec) /\ \A i \in DOMAIN spec.steps : ~spec.steps[i].env,
         files    |-> {[path |-> <<Base[key]>>, perm |-> a.binaries[key].perm] :
                          key \in DOMAIN a.binaries},
         deps     |-> {},
         srcs     |-> SpecToSources(spec),
         patched  |-> [n \in DOMAIN spec.patches |-> PrepPatches(spec, n)]]

(* The links of an image, by the file they point to.                        *)
PostLinks(post) ==
    IF post = Nil THEN {}
    ELSE UnionOfMap(post, LAMBDA old, l : {[old |-> old, path |-> p, user |-> l.user, group |-> l.group] :
                                              p \in l.paths})

(* In a linux image ln -s replaces neither a file nor another link, and the *)
(* owner and the group of a link must be ones the image knows.              *)
InstallPostSymlinks(h, post) ==
    /\ \A l \in PostLinks(post) : /\ l.path \notin DOMAIN h.files
                                  /\ l.user \in h.users \cup {""} /\ l.group \in h.groups \cup {""}
    /\ \A l, o \in PostLinks(post) : l.path = o.path => l = o

(* A link is a copy of a binary; there must be one to copy.                 *)
CopySymlinks(build, post) ==
    post # Nil => \A old \in DOMAIN post : <<old>> \in PathsOf(build)

=============================================================================
