------------------------------ MODULE SourceState ------------------------------
(***************************************************************************)
(* From a loaded source to the file tree the build sees: ToState (a source  *)
(* under its own name), ToMount (a source mounted at a path), and the       *)
(* patched sources of a spec.                                               *)
(*                                                                         *)
(* A state is the set of files in it, each a sequence of path elements;     *)
(* "ok" is FALSE when solving the state fails.  What git, an image, a       *)
(* context or a Dockerfile build delivers is the same tree, BaseTree.       *)
(***************************************************************************)
EXTENDS SpecSource

CONSTANTS BaseTree,  \* files of a fetched tree, as sequences of path elements
          Contexts   \* build contexts the client provides

Dockerfile == "Dockerfile"   \* dockerui.DefaultDockerfileName
MountName  == "mount"       \* internalMountSourceName

PathOf(w)    == IF IsRoot(w) THEN <<>> ELSE <<w.text>>
NamePath(n)  == IF n = "" THEN <<>> ELSE <<n>>
Failed       == [ok |-> FALSE, paths |-> {}]
Tree(paths)  == [ok |-> TRUE, paths |-> paths]

Under(paths, dir) ==
    {SubSeq(q, Len(dir) + 1, Len(q)) :
        q \in {r \in paths : IsPrefix(dir, r) /\ r # dir}}

(* Include and exclude patterns name a first path element.                  *)
Selected(q, o) ==
    /\ o.includes = <<>> \/ \E i \in DOMAIN o.includes : o.includes[i] = Lit(q[1])
    /\ ~\E i \in DOMAIN o.excludes : o.excludes[i] = Lit(q[1])

Unfiltered(o) == o.includes = <<>> /\ o.excludes = <<>>

(* llb.Copy of the contents of a directory, or of one file, into dest; the  *)
(* patterns are matched below the path that is copied.                      *)
Copy(in, path, dest, o) ==
    CASE ~in.ok             -> Failed
      [] path \in in.paths  -> Tree({dest \o <<Last(path)>>})
      [] path # <<>> /\ Under(in.paths, path) = {} -> Failed
      [] OTHER -> Tree({dest \o q : q \in {r \in Under(in.paths, path) : Selected(r, o)}})

FetchOptions(s, rename) ==
    [path |-> s.path, includes |-> s.includes, excludes |-> s.excludes, rename |-> rename]

SourceFilters(in, o) ==
    IF o.rename = "" /\ Unfiltered(o) /\ IsRoot(o.path) THEN in
    ELSE Copy(in, PathOf(o.path), NamePath(o.rename), o)

(* The mount selects the path itself, so only the patterns are applied.     *)
MountFilters(in, o) ==
    IF Unfiltered(o) THEN in ELSE Copy(in, <<>>, <<>>, o)

(* What the client sends for a local context: everything outside the path   *)
(* is excluded and the patterns are moved below it.                         *)
LocalTree(o) ==
    LET base == PathOf(o.path)
    IN  {q \in BaseTree : /\ IsPrefix(base, q)
                          /\ q = base \/ Selected(SubSeq(q, Len(base) + 1, Len(q)), o)}

ContextBase(s, o) == IF s.id.text \in Contexts THEN Tree(LocalTree(o)) ELSE Failed

RECURSIVE ToState(_, _), ToMount(_)

(* A mount fails when its state does, or has nothing at the selected path.  *)
Mounts(s) ==
    LET m == ToMount(s)
    IN  /\ m.st.ok
        /\ m.select = <<>> \/ m.select \in m.st.paths \/ Under(m.st.paths, m.select) # {}

(* A step of a command leaves a file in the path that is kept.  With a root *)
(* path the whole image is kept; otherwise the path starts out empty and    *)
(* hides what the image has there.                                          *)
CommandBase(c, o) ==
    LET mounts == c.mounts \o FlattenSeq([i \in DOMAIN c.steps |-> c.steps[i].mounts])
        made   == IF c.steps = <<>> THEN {} ELSE {<<"made">>}
    IN  CASE \E i \in DOMAIN mounts : \/ ValidateMountInRoot(mounts[i], o.path) # {}
                                      \/ ~Mounts(mounts[i].spec) -> Failed
          [] IsRoot(o.path) /\ c.steps # <<>> -> Tree(BaseTree \cup made)
          [] OTHER -> Tree(made)

ImageBase(s, o) == IF s.cmd = <<>> THEN Tree(BaseTree) ELSE CommandBase(s.cmd[1], o)

\* Mutant: the path is selected again after the command selected it.
ImageOptionsAgain(s, o) == o

(* After a command the tree is already the one of the path.                 *)
ImageOptions(s, o) == IF s.cmd = <<>> THEN o ELSE [o EXCEPT !.path = Lit("/")]

(* Mkdir of the directory and Mkfile of each file in it; a path keeps only  *)
(* the file it names.                                                       *)
InlineDirBase(s, o) ==
    Tree({NamePath(o.rename) \o <<n>> :
            n \in {f \in DOMAIN s.files : IsRoot(o.path) \/ o.path = Lit(f)}})

InlineDirState(s, o) == SourceFilters(InlineDirBase(s, o), [o EXCEPT !.rename = ""])

FileState(o) == Tree({<<o.rename>>})

(* The Dockerfile a build source names, or the default name.                *)
DockerfileOf(s) == IF s.dockerfile = Blank THEN Dockerfile ELSE s.dockerfile.text

(* The inner source is the build context.  A file becomes the Dockerfile;   *)
(* the forwarded build fails when it finds no Dockerfile.                   *)
BuildBase(s) ==
    LET context == ToState(s.inner[1], IF IsDir(s.inner[1]) THEN "" ELSE DockerfileOf(s))
    IN  IF context.ok /\ <<DockerfileOf(s)>> \in context.paths THEN Tree(BaseTree) ELSE Failed

ToState(s, name) ==
    LET o == FetchOptions(s, name)
        v == ToInterface(s)
    IN  CASE v = "git"     -> SourceFilters(Tree(BaseTree), o)
          [] v = "context" -> SourceFilters(ContextBase(s, o), o)
          [] v = "build"   -> SourceFilters(BuildBase(s), o)
          [] v = "image"   -> SourceFilters(ImageBase(s, o), ImageOptions(s, o))
          [] v = "inline" /\ "dir" \in s.inline /\ "file" \notin s.inline -> InlineDirState(s, o)
          [] OTHER         -> FileState(o)

(* A mount is a state and the path of it that is mounted.                   *)
ToMount(s) ==
    LET o      == FetchOptions(s, "")
        v      == ToInterface(s)
        at(st) == [st |-> st, select |-> PathOf(s.path)]
    IN  CASE v = "git"     -> at(MountFilters(Tree(BaseTree), o))
          [] v = "context" -> at(MountFilters(ContextBase(s, o), o))
          [] v = "build"   -> at(MountFilters(BuildBase(s), o))
          [] v = "image"   ->
                [st |-> MountFilters(ImageBase(s, o), ImageOptions(s, o)),
                 select |-> IF s.cmd = <<>> THEN PathOf(s.path) ELSE <<>>]
          [] v = "inline" /\ "dir" \in s.inline /\ "file" \notin s.inline ->
                at(MountFilters(InlineDirState(s, o), o))
          [] OTHER -> [st |-> FileState([o EXCEPT !.rename = MountName]), select |-> <<MountName>>]

-----------------------------------------------------------------------------
(* Patches.  A patched state carries the patches that were applied to it.   *)

Unpatched(st) == st @@ [patches |-> <<>>]

(* Each patch is read from the state of its source, at the path of the      *)
(* patch below the name of the source, and applied in the directory of the  *)
(* patched source.                                                          *)
PatchSource(st, states, patches, name) ==
    LET applies(p) == /\ p.source \in DOMAIN states /\ states[p.source].ok
                      /\ <<p.source>> \o PathOf(p.path) \in states[p.source].paths
                      /\ <<name>> \notin st.paths
    IN  [st EXCEPT !.ok = @ /\ \A i \in DOMAIN patches : applies(patches[i]),
                   !.patches = [i \in DOMAIN patches |->
                       [patch |-> patches[i],
                        version |-> IF patches[i].source \in DOMAIN states
                                    THEN Len(states[patches[i].source].patches) ELSE 0]]]

(* PatchSources walks the names in order and reads the map it updates.      *)
RECURSIVE PatchInOrder(_, _, _)
PatchInOrder(names, states, patches) ==
    IF names = <<>> THEN states
    ELSE LET n == Head(names)
             next == IF n \in DOMAIN states /\ n \in DOMAIN patches
                     THEN [states EXCEPT ![n] = PatchSource(@, states, patches[n], n)]
                     ELSE states
         IN  PatchInOrder(Tail(names), next, patches)

(* The states of all sources, and those of the ones a generator asks for    *)
(* with the sources of their patches.                                       *)
SourceStates(sources) == [n \in DOMAIN sources |-> Unpatched(ToState(sources[n], n))]

PatchSources(sources, patches, names) == PatchInOrder(names, SourceStates(sources), patches)

\* Mutant: the sources of the patches are not fetched.
GetPatchedSourcesOnly(sources, patches, wanted, names) ==
    PatchInOrder(names, [n \in wanted |-> Unpatched(ToState(sources[n], n))], patches)

GetPatchedSources(sources, patches, wanted, names) ==
    LET used(n) == IF n \in DOMAIN patches
                   THEN {patches[n][i].source : i \in DOMAIN patches[n]} ELSE {}
        some    == wanted \cup UNION {used(n) : n \in wanted}
    IN  PatchInOrder(names, [n \in some |-> Unpatched(ToState(sources[n], n))], patches)

=============================================================================
