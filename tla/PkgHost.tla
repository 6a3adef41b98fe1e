------------------------------- MODULE PkgHost -------------------------------
(***************************************************************************)
(* A system that packages are installed on, upgraded on and removed from: a  *)
(* container image while it is built, or a machine of a user.  rpm, dpkg,    *)
(* systemctl and deb-systemd-helper are modelled as far as the scripts that  *)
(* dalec generates use them.                                                *)
(*                                                                         *)
(* A host is [files: path -> [user, group], users, groups, tools, enabled,   *)
(* seen, failed]; seen are the units deb-systemd-helper keeps a state of, and *)
(* failed tells whether the last command of a script failed.                *)
(***************************************************************************)
EXTENDS DebRoot

RootOwned == [user |-> "root", group |-> "root"]

(* Files, users and groups that are there before the package.               *)
BaseHost == [files   |-> (<<"bin", "sh">> :> RootOwned) @@ (<<"etc", "passwd">> :> RootOwned),
             users   |-> {"root"}, groups |-> {"root"}, tools |-> {}, enabled |-> {},
             seen    |-> {}, failed |-> FALSE]

UnitInstalled(h, name) == <<"unit", name>> \in DOMAIN h.files

(* chown -R and chgrp -R follow a path down; with -h only the link is       *)
(* changed.                                                                 *)
SetOwner(h, c) ==
    LET deep == c.op \in {"chown", "chgrp"}
        who  == IF c.op \in {"chown", "chown-h"} THEN "user" ELSE "group"
        hit  == {p \in DOMAIN h.files : p = c.path \/ (deep /\ IsPrefix(c.path, p))}
    IN  [h EXCEPT !.files = [p \in DOMAIN @ |-> IF p \in hit THEN [@[p] EXCEPT ![who] = c.name]
                                                ELSE @[p]]]

(* Whether a command can do its work.                                       *)
CanRun(h, c) ==
    CASE c.op = "adduser"  -> IF c.name \in h.users THEN "getent" \in h.tools
                              ELSE "adduser" \in h.tools
      [] c.op = "groupadd" -> IF c.name \in h.groups THEN "getent" \in h.tools
                              ELSE "groupadd" \in h.tools
      [] c.op \in {"enable", "enable-now", "disable-now"} ->
            "systemctl" \in h.tools /\ UnitInstalled(h, c.name)
      [] c.op \in {"chown", "chown-h"} ->
            c.name \in h.users /\ \E p \in DOMAIN h.files : IsPrefix(c.path, p)
      [] c.op \in {"chgrp", "chgrp-h"} ->
            c.name \in h.groups /\ \E p \in DOMAIN h.files : IsPrefix(c.path, p)
      [] OTHER -> TRUE

(* deb-systemd-helper was-enabled: also true of a unit it has not seen.     *)
WasEnabled(h, name) == name \notin h.seen \/ name \in h.enabled

DoCmd(h, c) ==
    CASE c.op = "adduser"  -> [h EXCEPT !.users = @ \cup {c.name}, !.groups = @ \cup {c.name}]
      [] c.op = "groupadd" -> [h EXCEPT !.groups = @ \cup {c.name}]
      [] c.op \in {"chown", "chown-h", "chgrp", "chgrp-h"} -> SetOwner(h, c)
      [] c.op \in {"enable", "enable-now"} -> [h EXCEPT !.enabled = @ \cup {c.name}]
      [] c.op = "disable-now" -> [h EXCEPT !.enabled = @ \ {c.name}]
      [] c.op = "dsh-enable" ->
            [h EXCEPT !.enabled = IF WasEnabled(h, c.name) THEN @ \cup {c.name} ELSE @,
                      !.seen = @ \cup {c.name}]
      [] c.op = "dsh-noenable" -> [h EXCEPT !.seen = @ \cup {c.name}]
      [] OTHER -> h

RunCmd(h, c) == IF CanRun(h, c) THEN [DoCmd(h, c) EXCEPT !.failed = FALSE]
                ELSE [h EXCEPT !.failed = TRUE]

(* A script under set -e stops at its first failure; any other runs on and  *)
(* fails when its last command does.                                        *)
RunScript(h, cmds, stopOnError) ==
    LET run[i \in 0..Len(cmds)] ==
            IF i = 0 THEN [h EXCEPT !.failed = FALSE]
            ELSE IF stopOnError /\ run[i - 1].failed THEN run[i - 1]
            ELSE RunCmd(run[i - 1], cmds[i])
    IN  run[Len(cmds)]

-----------------------------------------------------------------------------
(* A package manager unpacks the files, then runs the scripts.              *)

Unpack(h, owned) == [h EXCEPT !.files = owned @@ @]

PathsOf(build) == {f.path : f \in build.files}

(* rpm takes the owner of each path from %files, and root for a user or a   *)
(* group the host does not know (yet).                                      *)
RpmOwned(h, a, build) ==
    [p \in PathsOf(build) |->
        LET own == {e \in Files(a) : e.path = p}
            e   == IF own = {} THEN RootOwned ELSE CHOOSE e \in own : TRUE
        IN  [user  |-> IF e.user \in h.users THEN e.user ELSE "root",
             group |-> IF e.group \in h.groups THEN e.group ELSE "root"]]

ScriptletTools(a) == {r[2] : r \in GetSystemdRequires(a) \cup GetUserPostRequires(a)}

(* What the scriptlets require is installed first; a scriptlet that fails   *)
(* is only a warning.                                                       *)
RpmInstall(h, a, build, count) ==
    [RunScript(Unpack([h EXCEPT !.tools = @ \cup ScriptletTools(a)], RpmOwned(h, a, build)),
               Post(a, count), FALSE) EXCEPT !.failed = FALSE]

(* The old package's scriptlets follow the new one's.                       *)
RpmUpgrade(h, a, build) ==
    RunScript(RunScript(RpmInstall(h, a, build, 2), PreUn(a, 1), FALSE), PostUn(a), FALSE)

(* A %preun that fails keeps the package on the system.                     *)
RpmRemove(h, a, build) ==
    LET g == RunScript(h, PreUn(a, 0), FALSE)
    IN  IF g.failed THEN g
        ELSE RunScript([g EXCEPT !.files = Restrict(@, DOMAIN @ \ PathsOf(build))], PostUn(a), FALSE)

DebTools == {"adduser", "groupadd", "getent", "systemctl"}

(* dpkg stops at a postinst that fails.                                     *)
DebInstall(h, a, build) ==
    RunScript(Unpack([h EXCEPT !.tools = DebTools], [p \in PathsOf(build) |-> RootOwned]),
              PostInst(a), TRUE)

(* Purging the package disables and forgets the units debhelper knows of.   *)
DebRemove(h, a, build) ==
    LET units == {UnitName(k, a.units[k]) : k \in DOMAIN a.units}
    IN  [h EXCEPT !.files = Restrict(@, DOMAIN @ \ PathsOf(build)), !.enabled = @ \ units,
                  !.seen = @ \ units, !.failed = FALSE]

InstallOn(format, h, a, build) ==
    IF format = "rpm" THEN RpmInstall(h, a, build, 1) ELSE DebInstall(h, a, build)

UpgradeOn(format, h, a, build) ==
    IF format = "rpm" THEN RpmUpgrade(h, a, build) ELSE DebInstall(h, a, build)

RemoveFrom(format, h, a, build) ==
    IF format = "rpm" THEN RpmRemove(h, a, build) ELSE DebRemove(h, a, build)

=============================================================================
