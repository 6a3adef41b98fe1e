------------------------------ MODULE SpecSource ------------------------------
(***************************************************************************)
(* The sources of a Dalec spec: what load.go and the source_*.go files do   *)
(* with a Source between the YAML document and the build graph.  A Source   *)
(* is validated, filled with defaults and has its build arguments           *)
(* substituted, in that order; build sources and command mounts hold        *)
(* further sources, so each of the three is a recursive walk.               *)
(*                                                                         *)
(* A string that may hold a build argument is a word: a literal, or a       *)
(* reference to one argument.  For the URL of a git source the word stands  *)
(* for the host of the URL.                                                 *)
(***************************************************************************)
EXTENDS Integers, Sequences, FiniteSets, SequencesExt

CONSTANTS KnownArgs,    \* arguments that need no declaration
          PlatformArgs  \* the TARGET* and BUILD* arguments, opt-in only

ASSUME PlatformArgsAreKnown == PlatformArgs \subseteq KnownArgs

Lit(t) == [ref |-> FALSE, text |-> t]
Ref(k) == [ref |-> TRUE, text |-> k]
Blank  == Lit("")

(* A source with no field set.                                              *)
EmptySource ==
    [variants |-> {}, path |-> Blank, includes |-> <<>>, excludes |-> <<>>,
     id |-> Blank, commit |-> Blank, auth |-> {}, digest |-> "", perms |-> "unset",
     inline |-> {}, file |-> [perms |-> "unset", owner |-> 0], files |-> <<>>,
     cmd |-> <<>>, inner |-> <<>>, dockerfile |-> Blank, target |-> Blank, gens |-> <<>>]

Variants == {"build", "context", "image", "git", "http", "inline"}

(* What a substitution pass is given: the arguments it may use, those that  *)
(* are allowed although undeclared, and the reference the iteration over a  *)
(* map of authentication hosts happens to visit last.                       *)
(* sub == [args |-> name -> value, allow |-> set of names, last |-> word]   *)

(* The word after expandArgs: SkipUnsetEnv leaves an unset argument as it   *)
(* is written.                                                              *)
Expand(w, sub) ==
    IF w.ref /\ w.text \in DOMAIN sub.args THEN Lit(sub.args[w.text]) ELSE w

(* expandArgs also fails: on an argument that is neither set, known nor     *)
(* allowed, and on a platform argument the spec did not opt in to.          *)
Unresolved(w, sub) ==
    /\ w.ref
    /\ w.text \notin DOMAIN sub.args
    /\ w.text \notin KnownArgs \cup sub.allow \/ w.text \in PlatformArgs

ExpandAll(ws, sub) == [i \in DOMAIN ws |-> Expand(ws[i], sub)]

IsRoot(w) == ~w.ref /\ w.text \in {"", "/", "."}

(* The variant toInterface dispatches on: the first that is set, in the     *)
(* order of its switch.  With none it panics.                               *)
VariantOrder == <<"build", "context", "image", "git", "http", "inline">>

ToInterface(s) ==
    SelectSeq(VariantOrder, LAMBDA v : v \in s.variants)[1]

IsDir(s) ==
    LET v == ToInterface(s)
    IN  IF v = "inline" THEN "dir" \in s.inline ELSE v # "http"

-----------------------------------------------------------------------------
(* Validation: the set of errors each validate method joins.                *)

When(cond, e) == IF cond THEN {e} ELSE {}

UnionOver(Op(_), seq) == UNION {Op(seq[i]) : i \in DOMAIN seq}

ValidateStep(st) == When(st.command = "", "step without a command")

ValidateGenerator(g) == When(g.kinds = {}, "generator without a type")

ValidateVariants(s) ==
    CASE Cardinality(s.variants) = 0 -> {"no variant"}
      [] Cardinality(s.variants) = 1 -> {}
      [] OTHER                       -> {"several variants"}

ValidateGit(s) ==
    When(s.id = Blank, "git without URL") \cup When(s.commit = Blank, "git without commit")

ValidateHTTP(s) ==
    UNION {When(s.id = Blank, "http without URL"),
           When(s.digest = "bad", "bad digest"),
           When(s.excludes # <<>>, "http with excludes"),
           When(s.includes # <<>>, "http with includes"),
           When(s.path # Blank, "http with path")}

ValidateInlineFile(f) == When(f.owner < 0, "negative owner")

ValidateInlineDir(s) ==
    UNION {When(s.file.owner < 0, "negative owner"),
           When(\E n \in DOMAIN s.files : n = "a/b", "separator in file name"),
           UNION {ValidateInlineFile(s.files[n]) : n \in DOMAIN s.files}}

ValidateInline(s) ==
    UNION {When(s.inline = {}, "inline without contents"),
           When(s.inline = {"file", "dir"}, "inline file and dir"),
           IF "dir" \in s.inline THEN ValidateInlineDir(s) ELSE {},
           IF "file" \in s.inline
           THEN UNION {When(s.path # Blank, "inline file with path"),
                       When(s.includes # <<>>, "inline file with includes"),
                       When(s.excludes # <<>>, "inline file with excludes"),
                       ValidateInlineFile(s.file)}
           ELSE {}}

RECURSIVE ValidateSource(_)

ValidateMount(m) ==
    When(m.dest = "/", "mount at root") \cup ValidateSource(m.spec)

(* A mount below the path that is kept after each step would be shadowed;   *)
(* the check is made when the command's state is built, for the mounts of   *)
(* the command and of its steps.                                            *)
ValidateMountInRoot(m, root) ==
    LET errs == ValidateMount(m)
    IN  IF errs # {} THEN errs
        ELSE When(~IsRoot(root) /\ m.dest = root.text, "mount below source path")

ValidateCommand(c) ==
    UNION {When(c.steps = <<>>, "command without steps"),
           UnionOver(ValidateStep, c.steps),
           When(~IsInjective([i \in DOMAIN c.mounts |-> c.mounts[i].dest]),
                "duplicate mount"),
           UnionOver(ValidateMount, c.mounts)}

ValidateImage(s) ==
    UNION {When(s.id = Blank, "image without ref"),
           UnionOver(ValidateCommand, s.cmd),
           When(s.path = Blank, "image without path")}

\* Mutant: the inner source of a build is not validated.
ValidateBuildShallow(s) == When("build" \in s.inner[1].variants, "recursive build")

ValidateBuild(s) ==
    When("build" \in s.inner[1].variants, "recursive build") \cup ValidateSource(s.inner[1])

ValidateSource(s) ==
    UNION {UnionOver(ValidateGenerator, s.gens),
           ValidateVariants(s),
           IF ValidateVariants(s) # {} THEN {}
           ELSE CASE ToInterface(s) = "build"   -> ValidateBuild(s)
                  [] ToInterface(s) = "context" -> {}
                  [] ToInterface(s) = "image"   -> ValidateImage(s)
                  [] ToInterface(s) = "git"     -> ValidateGit(s)
                  [] ToInterface(s) = "http"    -> ValidateHTTP(s)
                  [] OTHER                      -> ValidateInline(s)}

-----------------------------------------------------------------------------
(* Defaults.                                                                *)

(* The sources the fill and substitution walks reach: toInterface panics on *)
(* one of them that has no variant.                                         *)
RECURSIVE Walk(_)
Walk(s) ==
    UNION {{s}, UnionOver(Walk, s.inner),
           UnionOver(LAMBDA c : UnionOver(LAMBDA m : Walk(m.spec), c.mounts), s.cmd)}

Panics(s) == \E x \in Walk(s) : x.variants = {}

\* Mutant: the authentication of the git source replaces the given one.
FillGomodAlways(g, host, auth) ==
    IF "gomod" \notin g.kinds \/ auth = {} THEN g
    ELSE [g EXCEPT !.auth = [h \in DOMAIN g.auth \cup {host} |->
             IF h = host THEN [kind |-> "token", from |-> "source"] ELSE g.auth[h]]]

(* The authentication a git source hands to its gomod generators: token     *)
(* before header before ssh, and never over an entry the spec has.          *)
FillGomod(g, host, auth) ==
    LET first == SelectSeq(<<"token", "header", "ssh">>, LAMBDA k : k \in auth)
    IN  IF "gomod" \notin g.kinds \/ host \in DOMAIN g.auth \/ first = <<>> THEN g
        ELSE [g EXCEPT !.auth = [h \in DOMAIN g.auth \cup {host} |->
                 IF h = host THEN [kind |-> first[1], from |-> "source"] ELSE g.auth[h]]]

FillGit(s) ==
    [s EXCEPT !.gens = [i \in DOMAIN @ |-> FillGomod(@[i], s.id, s.auth)]]

FillContext(s) == IF s.id = Blank THEN [s EXCEPT !.id = Lit("context")] ELSE s

FillInlineFile(f) == IF f.perms = "unset" THEN [f EXCEPT !.perms = "644"] ELSE f

FillInlineDir(s) ==
    [s EXCEPT !.file.perms = IF @ = "unset" THEN "755" ELSE @,
              !.files = [n \in DOMAIN @ |-> FillInlineFile(@[n])]]

FillInline(s) ==
    LET filled == IF "file" \in s.inline
                  THEN [s EXCEPT !.file = FillInlineFile(@)] ELSE s
    IN  IF "dir" \in s.inline THEN FillInlineDir(filled) ELSE filled

RECURSIVE FillSource(_)

FillMount(m) == [m EXCEPT !.spec = FillSource(@)]

(* Only the mounts of the command: those of its steps are not walked.       *)
FillCommand(c) ==
    [c EXCEPT !.mounts = [i \in DOMAIN @ |-> FillMount(@[i])]]

FillImage(s) == [s EXCEPT !.cmd = [i \in DOMAIN @ |-> FillCommand(@[i])]]

FillBuild(s) == [s EXCEPT !.inner = <<FillSource(@[1])>>]

FillSource(s) ==
    CASE ToInterface(s) = "build"     -> FillBuild(s)
      [] ToInterface(s) = "context"   -> FillContext(s)
      [] ToInterface(s) = "image"     -> FillImage(s)
      [] ToInterface(s) = "git"       -> FillGit(s)
      [] ToInterface(s) = "http"      -> s
      [] OTHER                        -> FillInline(s)

-----------------------------------------------------------------------------
(* Build arguments: the source after processBuildArgs, and the words the    *)
(* walk expands, of which any may fail.                                     *)

(* The hosts of the gomod authentication are map keys: the entry moves to   *)
(* the expanded host.  The loop replaces an entry that is already there,    *)
(* and of two references to one host the one visited last stays.            *)
GomodArgs(g, sub) ==
    LET refs(h)  == {k \in DOMAIN g.auth : k # h /\ Expand(k, sub) = h}
        moved(h) == CASE refs(h) = {}         -> g.auth[h]
                      [] sub.last \in refs(h) -> g.auth[sub.last]
                      [] OTHER                -> g.auth[CHOOSE k \in refs(h) : TRUE]
    IN  [g EXCEPT !.auth = [h \in {Expand(k, sub) : k \in DOMAIN g.auth} |-> moved(h)]]

BuildStepArgs(st, sub) == [st EXCEPT !.env = ExpandAll(@, sub)]

RECURSIVE SourceArgs(_, _)

\* Mutant: the source is substituted in a copy of the mount.
MountArgsOnCopy(m, sub) == m

MountArgs(m, sub) == [m EXCEPT !.spec = SourceArgs(@, sub)]

CommandArgs(c, sub) ==
    [c EXCEPT !.mounts = [i \in DOMAIN @ |-> MountArgs(@[i], sub)],
              !.env    = ExpandAll(@, sub),
              !.steps  = [i \in DOMAIN @ |-> BuildStepArgs(@[i], sub)]]

ImageArgs(s, sub) ==
    [s EXCEPT !.id = Expand(@, sub),
              !.cmd = [i \in DOMAIN @ |-> CommandArgs(@[i], sub)]]

GitArgs(s, sub) == [s EXCEPT !.id = Expand(@, sub), !.commit = Expand(@, sub)]

BuildSourceArgs(s, sub) ==
    [s EXCEPT !.inner      = <<SourceArgs(@[1], sub)>>,
              !.dockerfile = Expand(@, sub),
              !.target     = Expand(@, sub)]

(* HTTP URL and context name.                                               *)
IdArgs(s, sub) == [s EXCEPT !.id = Expand(@, sub)]

SourceArgs(s, sub) ==
    LET own == [s EXCEPT !.path     = Expand(@, sub),
                         !.includes = ExpandAll(@, sub),
                         !.excludes = ExpandAll(@, sub),
                         !.gens     = [i \in DOMAIN @ |-> GomodArgs(@[i], sub)]]
    IN  CASE ToInterface(s) = "build"   -> BuildSourceArgs(own, sub)
          [] ToInterface(s) = "image"   -> ImageArgs(own, sub)
          [] ToInterface(s) = "git"     -> GitArgs(own, sub)
          [] ToInterface(s) = "inline"  -> own
          [] OTHER                      -> IdArgs(own, sub)

RECURSIVE SourceWords(_)

CommandWords(c) ==
    UNION {UnionOver(LAMBDA m : SourceWords(m.spec), c.mounts),
           ToSet(c.env), UnionOver(LAMBDA st : ToSet(st.env), c.steps)}

VariantWords(s) ==
    CASE ToInterface(s) = "inline" -> {}
      [] ToInterface(s) = "build" -> {s.dockerfile, s.target} \cup SourceWords(s.inner[1])
      [] ToInterface(s) = "image" -> {s.id} \cup UnionOver(CommandWords, s.cmd)
      [] ToInterface(s) = "git"   -> {s.id, s.commit}
      [] OTHER                    -> {s.id}

SourceWords(s) ==
    UNION {{s.path}, ToSet(s.includes), ToSet(s.excludes), VariantWords(s),
           UnionOver(LAMBDA g : DOMAIN g.auth, s.gens)}

=============================================================================
