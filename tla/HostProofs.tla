----------------------------- MODULE HostProofs -----------------------------
(***************************************************************************)
(* What the scripts of a package do to a host: which commands the rpm        *)
(* scriptlets and the deb postinst consist of, for every spec, and which     *)
(* units are enabled when they have run.  DistroBuildProofs applies it to    *)
(* the variables of DistroBuild.                                            *)
(*                                                                         *)
(* RunScript and FlattenSeq are recursive functions; IsRun and IsFlat are    *)
(* their recursion equations, which have a solution for every length.       *)
(***************************************************************************)
EXTENDS PkgHost, SequenceTheorems, WellFoundedInduction, TLAPS

(* A set with 0 in it that is closed under successors has every natural.    *)
LEMMA NatSet ==
    ASSUME NEW T, 0 \in T, \A n \in Nat : n \in T => n + 1 \in T
    PROVE  \A n \in Nat : n \in T
  <1>. DEFINE B == Nat \ T
  <1>. SUFFICES ASSUME B # {} PROVE FALSE
    OBVIOUS
  <1>1. PICK x \in B : \A y \in B : <<y, x>> \notin OpToRel(<, Nat)
    BY NatLessThanWellFounded, WFMin, Zenon
  <1>a. x \in Nat /\ x \notin T
    OBVIOUS
  <1>2. x \in Nat /\ x # 0 /\ x - 1 \in Nat /\ x - 1 < x
    BY <1>a
  <1>3. <<x - 1, x>> \in OpToRel(<, Nat)
    <2>1. <<x - 1, x>> \in Nat \X Nat
      BY <1>2
    <2>. QED  BY <1>2, <2>1, Zenon DEF OpToRel
  <1>4. x - 1 \in T
    BY <1>1, <1>2, <1>3
  <1>. QED  BY <1>a, <1>2, <1>4

-----------------------------------------------------------------------------
(* Running a script command by command.                                     *)
(* What RunScript does with one command.                                    *)
StepOn(g, c, stop) == IF stop /\ g.failed THEN g ELSE RunCmd(g, c)

(* r has the hosts after each of the first n commands.                      *)
IsRun(r, n, h, cmds, stop) ==
    r = [i \in 0..n |-> IF i = 0 THEN [h EXCEPT !.failed = FALSE]
                        ELSE IF stop /\ r[i - 1].failed THEN r[i - 1]
                        ELSE RunCmd(r[i - 1], cmds[i])]

(* A script has a run, however many of its commands are run.                *)
LEMMA RunExists ==
    ASSUME NEW h, NEW cmds, NEW stop
    PROVE  \A n \in Nat : \E r : IsRun(r, n, h, cmds, stop)
  <1>. DEFINE T == {n \in Nat : \E r : IsRun(r, n, h, cmds, stop)}
  <1>1. 0 \in T
    <2>. DEFINE r == [i \in 0..0 |-> [h EXCEPT !.failed = FALSE]]
    <2>1. IsRun(r, 0, h, cmds, stop)
      BY DEF IsRun
    <2>. QED  BY <2>1
  <1>2. ASSUME NEW n \in Nat, n \in T PROVE n + 1 \in T
    <2>1. PICK r : IsRun(r, n, h, cmds, stop)
      BY <1>2
    <2>. DEFINE q == [i \in 0..(n + 1) |->
                         IF i = n + 1
                         THEN IF stop /\ r[n].failed THEN r[n] ELSE RunCmd(r[n], cmds[n + 1])
                         ELSE r[i]]
    <2>a. \A i \in 0..n : q[i] = r[i]
      OBVIOUS
    <2>b. ASSUME NEW i \in 0..(n + 1)
          PROVE  q[i] = IF i = 0 THEN [h EXCEPT !.failed = FALSE]
                        ELSE IF stop /\ q[i - 1].failed THEN q[i - 1] ELSE RunCmd(q[i - 1], cmds[i])
      <3>1. CASE i = n + 1
        <4>1. i # 0 /\ i - 1 = n /\ n \in 0..n /\ i \in 0..(n + 1)
          BY <3>1
        <4>2. q[n] = r[n]
          BY <4>1, <2>a
        <4>. HIDE DEF q
        <4>3. q[i] = IF stop /\ r[n].failed THEN r[n] ELSE RunCmd(r[n], cmds[n + 1])
          BY <3>1, <4>1 DEF q
        <4>. QED  BY <4>1, <4>2, <4>3, <3>1
      <3>2. CASE i = 0
        <4>1. 0 \in 0..n
          OBVIOUS
        <4>2. q[0] = r[0]
          BY <4>1, <2>a
        <4>. HIDE DEF q
        <4>3. r[0] = [h EXCEPT !.failed = FALSE]
          BY <4>1, <2>1 DEF IsRun
        <4>. QED  BY <3>2, <4>2, <4>3
      <3>3. CASE i # 0 /\ i # n + 1
        <4>1. i \in 0..n /\ i - 1 \in 0..n
          BY <3>3
        <4>2. r[i] = IF stop /\ r[i - 1].failed THEN r[i - 1] ELSE RunCmd(r[i - 1], cmds[i])
          BY <4>1, <3>3, <2>1 DEF IsRun
        <4>. QED  BY <4>1, <4>2, <2>a, <3>3
      <3>. QED  BY <3>1, <3>2, <3>3
    <2>2. IsRun(q, n + 1, h, cmds, stop)
      <3>. HIDE DEF q
      <3>1. q = [i \in 0..(n + 1) |-> q[i]]
        BY DEF q
      <3>. QED  BY <2>b, <3>1 DEF IsRun
    <2>3. \E p : IsRun(p, n + 1, h, cmds, stop)
      BY <2>2
    <2>4. n + 1 \in Nat
      OBVIOUS
    <2>. QED  BY <2>3, <2>4
  <1>3. \A n \in Nat : n \in T
    <2>. HIDE DEF T
    <2>. QED  BY <1>1, <1>2, NatSet, Zenon
  <1>. QED  BY <1>3, Zenon

(* Each host of a run comes from the one before by one command.             *)
LEMMA NextOfRun ==
    ASSUME NEW r, NEW m \in Nat, NEW h, NEW cmds, NEW stop, IsRun(r, m, h, cmds, stop),
           NEW n \in Nat, n + 1 <= m
    PROVE  r[n + 1] = StepOn(r[n], cmds[n + 1], stop)
  <1>1. n + 1 \in 0..m /\ n + 1 # 0 /\ (n + 1) - 1 = n
    OBVIOUS
  <1>2. r[n + 1] = IF n + 1 = 0 THEN [h EXCEPT !.failed = FALSE]
                   ELSE IF stop /\ r[(n + 1) - 1].failed THEN r[(n + 1) - 1]
                   ELSE RunCmd(r[(n + 1) - 1], cmds[n + 1])
    BY <1>1 DEF IsRun
  <1>. QED  BY <1>1, <1>2 DEF StepOn

(* RunScript gives the last host of a run.                                  *)
LEMMA RunIs ==
    ASSUME NEW h, NEW cmds, NEW stop, Len(cmds) \in Nat
    PROVE  \E r : IsRun(r, Len(cmds), h, cmds, stop) /\ RunScript(h, cmds, stop) = r[Len(cmds)]
  <1>1. \E r : IsRun(r, Len(cmds), h, cmds, stop)
    BY RunExists
  <1>. QED  BY <1>1 DEF RunScript, IsRun

(* h has the fields of a host, and no more is said of them.                 *)
IsHost(h) == DOMAIN h = {"files", "users", "groups", "tools", "enabled", "seen", "failed"}

(* The commands of systemctl that enable or disable a unit.                 *)
LoudOps == {"enable", "enable-now", "disable-now"}

(* Command c leaves the enabled units of h as they are: deb-systemd-helper  *)
(* enables only what it has not seen.                                       *)
Quiet(h, c) == c.op \notin LoudOps /\ (c.op = "dsh-enable" => c.name \in h.seen)

(* One command: deb-systemd-helper remembers what it has seen, and a quiet  *)
(* command changes no unit.                                                 *)
LEMMA CmdStep ==
    ASSUME NEW h, NEW c, IsHost(h)
    PROVE  /\ IsHost(RunCmd(h, c))
           /\ h.seen \subseteq RunCmd(h, c).seen
           /\ c.op = "dsh-enable" => c.name \in RunCmd(h, c).seen
           /\ Quiet(h, c) => RunCmd(h, c).enabled = h.enabled
  <1>. DEFINE d == DoCmd(h, c)
  <1>1. CASE c.op \in {"adduser", "groupadd"}
    <2>1. IsHost(d) /\ d.seen = h.seen /\ d.enabled = h.enabled
      BY <1>1 DEF DoCmd, IsHost
    <2>. QED  BY <1>1, <2>1 DEF RunCmd, IsHost
  <1>2. CASE c.op \in {"chown", "chown-h", "chgrp", "chgrp-h"}
    <2>1. IsHost(d) /\ d.seen = h.seen /\ d.enabled = h.enabled
      BY <1>2 DEF DoCmd, IsHost, SetOwner
    <2>. QED  BY <1>2, <2>1 DEF RunCmd, IsHost
  <1>3. CASE c.op \in LoudOps
    <2>1. IsHost(d) /\ d.seen = h.seen
      BY <1>3 DEF DoCmd, IsHost, LoudOps
    <2>. QED  BY <1>3, <2>1 DEF RunCmd, IsHost, Quiet, LoudOps
  <1>4. CASE c.op = "dsh-enable"
    <2>1. CanRun(h, c)
      BY <1>4 DEF CanRun
    <2>2. IsHost(d) /\ d.seen = h.seen \cup {c.name}
          /\ d.enabled = IF WasEnabled(h, c.name) THEN h.enabled \cup {c.name} ELSE h.enabled
      BY <1>4 DEF DoCmd, IsHost
    <2>3. Quiet(h, c) => d.enabled = h.enabled
      BY <1>4, <2>2 DEF Quiet, WasEnabled
    <2>. QED  BY <1>4, <2>1, <2>2, <2>3 DEF RunCmd, IsHost
  <1>5. CASE c.op = "dsh-noenable"
    <2>1. IsHost(d) /\ d.seen = h.seen \cup {c.name} /\ d.enabled = h.enabled
      BY <1>5 DEF DoCmd, IsHost
    <2>. QED  BY <1>5, <2>1 DEF RunCmd, IsHost
  <1>6. CASE c.op \notin {"adduser", "groupadd", "chown", "chown-h", "chgrp", "chgrp-h",
                          "dsh-enable", "dsh-noenable"} \cup LoudOps
    <2>1. d = h
      BY <1>6 DEF DoCmd, LoudOps
    <2>. QED  BY <1>6, <2>1 DEF RunCmd, IsHost
  <1>. QED  BY <1>1, <1>2, <1>3, <1>4, <1>5, <1>6

(* A script of quiet commands changes no unit.                              *)
LEMMA QuietRun ==
    ASSUME NEW h, NEW cmds, NEW stop, IsHost(h), Len(cmds) \in Nat
    PROVE  LET g == RunScript(h, cmds, stop)
           IN  /\ IsHost(g) /\ h.seen \subseteq g.seen
               /\ (\A i \in 1..Len(cmds) : Quiet(h, cmds[i])) => g.enabled = h.enabled
  <1>1. PICK r : IsRun(r, Len(cmds), h, cmds, stop) /\ RunScript(h, cmds, stop) = r[Len(cmds)]
    BY RunIs
  <1>. DEFINE AllQuiet == \A i \in 1..Len(cmds) : Quiet(h, cmds[i])
              T == {n \in Nat : n <= Len(cmds) => /\ IsHost(r[n]) /\ h.seen \subseteq r[n].seen
                                                  /\ AllQuiet => r[n].enabled = h.enabled}
  <1>2. 0 \in T
    <2>1. r[0] = [h EXCEPT !.failed = FALSE]
      BY <1>1 DEF IsRun
    <2>. QED  BY <2>1 DEF IsHost
  <1>3. ASSUME NEW n \in Nat, n \in T PROVE n + 1 \in T
    <2>. SUFFICES ASSUME n + 1 <= Len(cmds)
                  PROVE  /\ IsHost(r[n + 1]) /\ h.seen \subseteq r[n + 1].seen
                         /\ AllQuiet => r[n + 1].enabled = h.enabled
      OBVIOUS
    <2>1. /\ IsHost(r[n]) /\ h.seen \subseteq r[n].seen
          /\ AllQuiet => r[n].enabled = h.enabled
      BY <1>3
    <2>2. r[n + 1] = r[n] \/ r[n + 1] = RunCmd(r[n], cmds[n + 1])
      BY <1>1, NextOfRun DEF StepOn
    <2>3. AllQuiet => Quiet(r[n], cmds[n + 1])
      <3>1. n + 1 \in 1..Len(cmds)
        OBVIOUS
      <3>. QED  BY <3>1, <2>1 DEF Quiet
    <2>. HIDE DEF AllQuiet
    <2>. QED  BY <2>1, <2>2, <2>3, CmdStep
  <1>4. \A n \in Nat : n \in T
    <2>. HIDE DEF T
    <2>. QED  BY <1>2, <1>3, NatSet, Zenon
  <1>. HIDE DEF AllQuiet
  <1>5. /\ IsHost(r[Len(cmds)]) /\ h.seen \subseteq r[Len(cmds)].seen
        /\ AllQuiet => r[Len(cmds)].enabled = h.enabled
    BY <1>4
  <1>. QED  BY <1>1, <1>5, Zenon DEF AllQuiet

(* After a postinst that did not fail, every unit it enables has been seen  *)
(* by deb-systemd-helper.                                                   *)
LEMMA SeenRun ==
    ASSUME NEW h, NEW cmds, NEW stop, IsHost(h), Len(cmds) \in Nat,
           NEW j \in 1..Len(cmds), cmds[j].op = "dsh-enable"
    PROVE  LET g == RunScript(h, cmds, stop)
           IN  IsHost(g) /\ (stop => g.failed \/ cmds[j].name \in g.seen)
  <1>1. PICK r : IsRun(r, Len(cmds), h, cmds, stop) /\ RunScript(h, cmds, stop) = r[Len(cmds)]
    BY RunIs
  <1>. DEFINE T == {n \in Nat : n <= Len(cmds) =>
                        /\ IsHost(r[n])
                        /\ j <= n => (stop => r[n].failed \/ cmds[j].name \in r[n].seen)}
  <1>2. 0 \in T
    <2>1. r[0] = [h EXCEPT !.failed = FALSE]
      BY <1>1 DEF IsRun
    <2>. QED  BY <2>1 DEF IsHost
  <1>3. ASSUME NEW n \in Nat, n \in T PROVE n + 1 \in T
    <2>. SUFFICES ASSUME n + 1 <= Len(cmds)
                  PROVE  /\ IsHost(r[n + 1])
                         /\ j <= n + 1 =>
                               (stop => r[n + 1].failed \/ cmds[j].name \in r[n + 1].seen)
      OBVIOUS
    <2>1. IsHost(r[n]) /\ (j <= n => (stop => r[n].failed \/ cmds[j].name \in r[n].seen))
      BY <1>3
    <2>2. r[n + 1] = StepOn(r[n], cmds[n + 1], stop)
      BY <1>1, NextOfRun
    <2>3. CASE stop /\ r[n].failed
      <3>1. r[n + 1] = r[n]
        BY <2>2, <2>3, Zenon DEF StepOn
      <3>. QED  BY <2>1, <2>3, <3>1, Zenon
    <2>4. CASE ~(stop /\ r[n].failed)
      <3>1. r[n + 1] = RunCmd(r[n], cmds[n + 1])
        BY <2>2, <2>4, Zenon DEF StepOn
      <3>2. /\ IsHost(r[n + 1]) /\ r[n].seen \subseteq r[n + 1].seen
            /\ cmds[n + 1].op = "dsh-enable" => cmds[n + 1].name \in r[n + 1].seen
        BY <2>1, <3>1, CmdStep
      <3>3. j <= n + 1 => j <= n \/ j = n + 1
        OBVIOUS
      <3>. QED  BY <2>1, <2>4, <3>2, <3>3, Zenon
    <2>. QED  BY <2>3, <2>4, Zenon
  <1>4. \A n \in Nat : n \in T
    <2>. HIDE DEF T
    <2>. QED  BY <1>2, <1>3, NatSet, Zenon
  <1>5. j <= Len(cmds) /\ Len(cmds) <= Len(cmds)
    OBVIOUS
  <1>6. /\ IsHost(r[Len(cmds)])
        /\ stop => r[Len(cmds)].failed \/ cmds[j].name \in r[Len(cmds)].seen
    BY <1>4, <1>5, Zenon
  <1>. QED  BY <1>1, <1>6, Zenon

-----------------------------------------------------------------------------
(* Putting scripts together.                                                *)
(* r[i] is the concatenation of the first i sequences of ss.                *)
IsFlat(r, n, ss) == r = [i \in 1..n |-> IF i = 1 THEN ss[i] ELSE r[i - 1] \o ss[i]]

(* These concatenations exist for every length.                             *)
LEMMA FlatExists ==
    ASSUME NEW ss
    PROVE  \A n \in Nat : \E r : IsFlat(r, n, ss)
  <1>. DEFINE T == {n \in Nat : \E r : IsFlat(r, n, ss)}
  <1>1. 0 \in T
    <2>. DEFINE r == [i \in 1..0 |-> ss[i]]
    <2>1. IsFlat(r, 0, ss)
      BY DEF IsFlat
    <2>. QED  BY <2>1
  <1>2. ASSUME NEW n \in Nat, n \in T PROVE n + 1 \in T
    <2>1. PICK r : IsFlat(r, n, ss)
      BY <1>2
    <2>. DEFINE q == [i \in 1..(n + 1) |->
                         IF i = n + 1 THEN IF n = 0 THEN ss[1] ELSE r[n] \o ss[n + 1]
                         ELSE r[i]]
    <2>a. \A i \in 1..n : q[i] = r[i]
      OBVIOUS
    <2>b. ASSUME NEW i \in 1..(n + 1)
          PROVE  q[i] = IF i = 1 THEN ss[i] ELSE q[i - 1] \o ss[i]
      <3>1. CASE i = n + 1 /\ n # 0
        <4>1. i # 1 /\ i - 1 = n /\ n \in 1..n /\ i \in 1..(n + 1)
          BY <3>1
        <4>2. q[n] = r[n]
          BY <4>1, <2>a
        <4>. HIDE DEF q
        <4>3. q[i] = r[n] \o ss[n + 1]
          BY <3>1, <4>1 DEF q
        <4>. QED  BY <4>1, <4>2, <4>3, <3>1
      <3>2. CASE i = 1 /\ n = 0
        BY <3>2
      <3>3. CASE i # n + 1
        <4>1. i \in 1..n /\ (i # 1 => i - 1 \in 1..n)
          BY <3>3
        <4>2. r[i] = IF i = 1 THEN ss[i] ELSE r[i - 1] \o ss[i]
          BY <4>1, <2>1 DEF IsFlat
        <4>. HIDE DEF q
        <4>. QED  BY <4>1, <4>2, <2>a
      <3>4. i = n + 1 /\ n = 0 => i = 1
        OBVIOUS
      <3>. QED  BY <3>1, <3>2, <3>3, <3>4
    <2>2. IsFlat(q, n + 1, ss)
      <3>. HIDE DEF q
      <3>1. q = [i \in 1..(n + 1) |-> q[i]]
        BY DEF q
      <3>. QED  BY <2>b, <3>1 DEF IsFlat
    <2>3. \E p : IsFlat(p, n + 1, ss)
      BY <2>2
    <2>4. n + 1 \in Nat
      OBVIOUS
    <2>. QED  BY <2>3, <2>4
  <1>3. \A n \in Nat : n \in T
    <2>. HIDE DEF T
    <2>. QED  BY <1>1, <1>2, NatSet, Zenon
  <1>. QED  BY <1>3, Zenon

(* FlattenSeq gives the last of them.                                       *)
LEMMA FlatIs ==
    ASSUME NEW ss, Len(ss) \in Nat, Len(ss) # 0
    PROVE  \E r : IsFlat(r, Len(ss), ss) /\ FlattenSeq(ss) = r[Len(ss)]
  <1>1. \E r : IsFlat(r, Len(ss), ss)
    BY FlatExists
  <1>. QED  BY <1>1 DEF FlattenSeq, IsFlat

(* The elements of a concatenation are those of its parts.                  *)
LEMMA FlatType ==
    ASSUME NEW G, NEW X, NEW ss \in Seq(X), \A i \in 1..Len(ss) : ss[i] \in Seq(G)
    PROVE  FlattenSeq(ss) \in Seq(G)
  <1>0. Len(ss) \in Nat
    OBVIOUS
  <1>a. CASE Len(ss) = 0
    <2>1. ss = <<>>
      BY <1>a
    <2>. QED  BY <1>a, <2>1 DEF FlattenSeq
  <1>b. CASE Len(ss) # 0
    <2>1. PICK r : IsFlat(r, Len(ss), ss) /\ FlattenSeq(ss) = r[Len(ss)]
      BY <1>0, <1>b, FlatIs
    <2>. DEFINE T == {n \in Nat : n + 1 <= Len(ss) => r[n + 1] \in Seq(G)}
    <2>2. 0 \in T
      <3>1. 1 \in 1..Len(ss)
        BY <1>0, <1>b
      <3>2. r[1] = ss[1]
        BY <2>1, <3>1 DEF IsFlat
      <3>. QED  BY <3>1, <3>2
    <2>3. ASSUME NEW n \in Nat, n \in T PROVE n + 1 \in T
      <3>. SUFFICES ASSUME (n + 1) + 1 <= Len(ss) PROVE r[(n + 1) + 1] \in Seq(G)
        OBVIOUS
      <3>1. /\ (n + 1) + 1 \in 1..Len(ss) /\ (n + 1) + 1 # 1
            /\ ((n + 1) + 1) - 1 = n + 1 /\ n + 1 <= Len(ss)
        BY <1>0
      <3>2. r[(n + 1) + 1] = IF (n + 1) + 1 = 1 THEN ss[(n + 1) + 1]
                             ELSE r[((n + 1) + 1) - 1] \o ss[(n + 1) + 1]
        BY <2>1, <3>1 DEF IsFlat
      <3>3. r[(n + 1) + 1] = r[n + 1] \o ss[(n + 1) + 1]
        BY <3>1, <3>2
      <3>4. r[n + 1] \in Seq(G) /\ ss[(n + 1) + 1] \in Seq(G)
        BY <2>3, <3>1
      <3>. QED  BY <3>3, <3>4, ConcatProperties
    <2>4. \A n \in Nat : n \in T
      <3>. HIDE DEF T
      <3>. QED  BY <2>2, <2>3, NatSet, Zenon
    <2>5. Len(ss) - 1 \in Nat /\ (Len(ss) - 1) + 1 = Len(ss) /\ (Len(ss) - 1) + 1 <= Len(ss)
      BY <1>0, <1>b
    <2>6. r[(Len(ss) - 1) + 1] \in Seq(G)
      BY <2>4, <2>5
    <2>. QED  BY <2>1, <2>5, <2>6
  <1>. QED  BY <1>a, <1>b

(* s is a script, all of whose commands have an op in ops.                  *)
IsScript(s, ops) == \E S : s \in Seq(S) /\ \A c \in S : c.op \in ops

(* The commands that touch no unit.                                         *)
Harmless == {"adduser", "groupadd", "chown", "chown-h", "chgrp", "chgrp-h", "reload", "dsh-start",
             "dsh-noenable"}

(* A list of commands is a script.                                          *)
LEMMA ListScript ==
    ASSUME NEW ops, NEW n \in Nat, NEW s, s = [i \in 1..n |-> s[i]], \A i \in 1..n : s[i].op \in ops
    PROVE  IsScript(s, ops)
  <1>1. s \in Seq({s[i] : i \in 1..n})
    OBVIOUS
  <1>2. \A c \in {s[i] : i \in 1..n} : c.op \in ops
    OBVIOUS
  <1>. QED  BY <1>1, <1>2, Zenon DEF IsScript

(* So are no commands at all.                                               *)
LEMMA NoCmds == \A ops : IsScript(<<>>, ops)
  <1>. DEFINE s == <<>>
  <1>1. s = [i \in 1..0 |-> s[i]] /\ 0 \in Nat
    OBVIOUS
  <1>2. \A ops : \A i \in 1..0 : s[i].op \in ops
    OBVIOUS
  <1>. HIDE DEF s
  <1>3. \A ops : IsScript(s, ops)
    BY <1>1, <1>2, ListScript
  <1>. QED  BY <1>3 DEF s

(* So is one command.                                                       *)
LEMMA OneCmd ==
    ASSUME NEW ops, NEW op \in ops, NEW n, NEW p
    PROVE  IsScript(<<Cmd(op, n, p)>>, ops)
  <1>. DEFINE s == <<Cmd(op, n, p)>>
  <1>1. s = [i \in 1..1 |-> s[i]] /\ 1 \in Nat
    OBVIOUS
  <1>2. \A i \in 1..1 : s[i].op \in ops
    BY DEF Cmd
  <1>. HIDE DEF s
  <1>3. IsScript(s, ops)
    BY <1>1, <1>2, ListScript
  <1>. QED  BY <1>3 DEF s

(* A script under a condition.                                              *)
LEMMA OnceCmds ==
    ASSUME NEW ops, NEW cond, NEW s, IsScript(s, ops)
    PROVE  IsScript(Once(cond, s), ops)
  BY NoCmds DEF Once

(* One script after another.                                                *)
LEMMA TwoScripts ==
    ASSUME NEW ops, NEW s, NEW t, IsScript(s, ops), IsScript(t, ops)
    PROVE  IsScript(s \o t, ops)
  <1>1. PICK S : s \in Seq(S) /\ \A c \in S : c.op \in ops
    BY DEF IsScript
  <1>2. PICK T : t \in Seq(T) /\ \A c \in T : c.op \in ops
    BY DEF IsScript
  <1>3. s \in Seq(S \cup T) /\ t \in Seq(S \cup T)
    BY <1>1, <1>2
  <1>4. s \o t \in Seq(S \cup T)
    BY <1>3, ConcatProperties
  <1>. QED  BY <1>1, <1>2, <1>4 DEF IsScript

(* The commands of a script.                                                *)
LEMMA ScriptElems ==
    ASSUME NEW ops, NEW s, IsScript(s, ops)
    PROVE  /\ Len(s) \in Nat /\ DOMAIN s = 1..Len(s)
           /\ \A i \in 1..Len(s) : s[i].op \in ops
           /\ s \in Seq({s[i] : i \in 1..Len(s)})
  <1>1. PICK S : s \in Seq(S) /\ \A c \in S : c.op \in ops
    BY DEF IsScript
  <1>2. Len(s) \in Nat /\ DOMAIN s = 1..Len(s) /\ \A i \in 1..Len(s) : s[i] \in S
    BY <1>1
  <1>3. s \in Seq({s[i] : i \in 1..Len(s)})
    BY <1>1, <1>2
  <1>. QED  BY <1>1, <1>2, <1>3

(* A sequence of scripts, one after another.                                *)
LEMMA FlatScript ==
    ASSUME NEW ops, NEW X, NEW ss \in Seq(X), \A i \in 1..Len(ss) : IsScript(ss[i], ops)
    PROVE  IsScript(FlattenSeq(ss), ops)
  <1>. DEFINE G == UNION {{ss[i][j] : j \in 1..Len(ss[i])} : i \in 1..Len(ss)}
  <1>1. ASSUME NEW i \in 1..Len(ss) PROVE ss[i] \in Seq(G)
    <2>1. ss[i] \in Seq({ss[i][j] : j \in 1..Len(ss[i])})
      BY ScriptElems
    <2>2. {ss[i][j] : j \in 1..Len(ss[i])} \subseteq G
      OBVIOUS
    <2>. HIDE DEF G
    <2>. QED  BY <2>1, <2>2
  <1>2. \A c \in G : c.op \in ops
    <2>. SUFFICES ASSUME NEW i \in 1..Len(ss), NEW j \in 1..Len(ss[i]) PROVE ss[i][j].op \in ops
      OBVIOUS
    <2>. QED  BY ScriptElems
  <1>3. FlattenSeq(ss) \in Seq(G)
    <2>. HIDE DEF G
    <2>. QED  BY <1>1, FlatType
  <1>. QED  BY <1>2, <1>3 DEF IsScript

(* A script for each of n things.                                           *)
LEMMA EachScript ==
    ASSUME NEW ops, NEW n \in Nat, NEW ss, ss = [i \in 1..n |-> ss[i]],
           \A i \in 1..n : IsScript(ss[i], ops)
    PROVE  IsScript(FlattenSeq(ss), ops)
  <1>1. ss \in Seq({ss[i] : i \in 1..n}) /\ Len(ss) = n
    OBVIOUS
  <1>. QED  BY <1>1, FlatScript

-----------------------------------------------------------------------------
(* The scriptlets and the postinst.                                         *)
(* How many keys there are.                                                 *)
KeyCount == Len(KeyOrder)

(* The keys are numbered from 1.                                            *)
LEMMA Keys1 == DOMAIN KeyOrder = 1..KeyCount /\ KeyCount \in Nat
  BY KeyOrderAssumption DEF KeyCount

(* The commands that set an owner.                                          *)
LEMMA ChownScript ==
    ASSUME NEW cfg, NEW path, NEW ops, Harmless \subseteq ops
    PROVE  IsScript(Chown(cfg, path), ops)
  <1>1. "chown" \in ops /\ "chgrp" \in ops
    BY DEF Harmless
  <1>2. /\ IsScript(<<Cmd("chown", cfg.user, path)>>, ops)
        /\ IsScript(<<Cmd("chgrp", cfg.group, path)>>, ops)
    BY <1>1, OneCmd, Zenon
  <1>3. \A c1, c2 : IsScript(Once(c1, <<Cmd("chown", cfg.user, path)>>), ops)
                    /\ IsScript(Once(c2, <<Cmd("chgrp", cfg.group, path)>>), ops)
    BY <1>2, OnceCmds, Zenon
  <1>. QED  BY <1>3, TwoScripts, Zenon DEF Chown

(* getDirectoryOwnership touches no unit.                                   *)
LEMMA GetDirectoryOwnershipScript ==
    ASSUME NEW a, NEW ops, Harmless \subseteq ops
    PROVE  IsScript(GetDirectoryOwnership(a), ops)
  <1>. DEFINE s(f, d) == [i \in DOMAIN KeyOrder |->
                             IF KeyOrder[i] \in DOMAIN f
                             THEN Chown(f[KeyOrder[i]], <<d, KeyOrder[i]>>) ELSE <<>>]
  <1>1. ASSUME NEW f, NEW d PROVE IsScript(FlattenSeq(s(f, d)), ops)
    <2>1. \A i \in 1..KeyCount : IsScript(s(f, d)[i], ops)
      BY Keys1, ChownScript, NoCmds
    <2>2. s(f, d) = [i \in 1..KeyCount |-> s(f, d)[i]]
      BY Keys1
    <2>. HIDE DEF s
    <2>. QED  BY <2>1, <2>2, Keys1, EachScript
  <1>2. GetDirectoryOwnership(a) =
            FlattenSeq(s(a.configDirs, "etc")) \o FlattenSeq(s(a.stateDirs, "state"))
    BY DEF GetDirectoryOwnership, OverKeys
  <1>. HIDE DEF s
  <1>. QED  BY <1>1, <1>2, TwoScripts

(* Neither does getArtifactOwnership.                                       *)
LEMMA GetArtifactOwnershipScript ==
    ASSUME NEW a, NEW ops, Harmless \subseteq ops
    PROVE  IsScript(GetArtifactOwnership(a), ops)
  <1>. DEFINE s(k) == [i \in DOMAIN KeyOrder |->
                          IF KeyOrder[i] \in DOMAIN a[k]
                          THEN SetArtifactOwnership(RpmRoot[k], KeyOrder[i], a[k][KeyOrder[i]])
                          ELSE <<>>]
              t == [i \in 1..4 |->
                       FlattenSeq(s(<<"configFiles", "dataDirs", "libs", "binaries">>[i]))]
  <1>1. ASSUME NEW k PROVE IsScript(FlattenSeq(s(k)), ops)
    <2>1. \A i \in 1..KeyCount : IsScript(s(k)[i], ops)
      BY Keys1, ChownScript, NoCmds DEF SetArtifactOwnership
    <2>2. s(k) = [i \in 1..KeyCount |-> s(k)[i]]
      BY Keys1
    <2>. HIDE DEF s
    <2>. QED  BY <2>1, <2>2, Keys1, EachScript
  <1>2. GetArtifactOwnership(a) = FlattenSeq(t)
    BY DEF GetArtifactOwnership, OverKeys
  <1>3. \A i \in 1..4 : IsScript(t[i], ops)
    <2>. HIDE DEF s
    <2>. QED  BY <1>1
  <1>4. t = [i \in 1..4 |-> t[i]]
    OBVIOUS
  <1>. HIDE DEF t
  <1>. QED  BY <1>2, <1>3, <1>4, EachScript

(* The users, groups and links are lists.                                   *)
IsArts(a) == \E U, G, L : a.users \in Seq(U) /\ a.groups \in Seq(G) /\ a.links \in Seq(L)

(* When a version of the package stays, %post enables no unit and %preun    *)
(* disables none.                                                           *)
LEMMA SystemdScripts ==
    ASSUME NEW a
    PROVE  /\ IsScript(PostSystemd(a, 2), Harmless) /\ IsScript(PreUn(a, 1), Harmless)
           /\ IsScript(PostUn(a), Harmless)
  <1>. DEFINE u(k) == a.units[k]
              post(k) == SystemdPostScript(UnitName(k, u(k)), u(k), 2)
              preun(k) == Once(u(k).enable /\ 1 = 0, <<Cmd("disable-now", Base[k], NoPath)>>)
              postun(k) == <<Cmd("reload", UnitName(k, u(k)), NoPath)>>
              s == [i \in DOMAIN KeyOrder |->
                       IF KeyOrder[i] \in DOMAIN a.units THEN post(KeyOrder[i]) ELSE <<>>]
              p == [i \in DOMAIN KeyOrder |->
                       IF KeyOrder[i] \in DOMAIN a.units THEN preun(KeyOrder[i]) ELSE <<>>]
              r == [i \in DOMAIN KeyOrder |->
                       IF KeyOrder[i] \in DOMAIN a.units THEN postun(KeyOrder[i]) ELSE <<>>]
  <1>1. PostSystemd(a, 2) = FlattenSeq(s)
    BY DEF PostSystemd, OverKeys
  <1>2. PreUn(a, 1) = FlattenSeq(p)
    BY DEF PreUn, OverKeys
  <1>3. PostUn(a) = FlattenSeq(r)
    BY DEF PostUn, OverKeys
  <1>4. \A i \in 1..KeyCount : IsScript(s[i], Harmless)
    <2>1. \A i \in 1..KeyCount : s[i] = <<>>
      BY Keys1 DEF SystemdPostScript, Once
    <2>. QED  BY <2>1, NoCmds
  <1>5. \A i \in 1..KeyCount : IsScript(p[i], Harmless)
    <2>1. \A i \in 1..KeyCount : p[i] = <<>>
      BY Keys1 DEF Once
    <2>. QED  BY <2>1, NoCmds
  <1>6. \A i \in 1..KeyCount : IsScript(r[i], Harmless)
    <2>1. "reload" \in Harmless
      BY DEF Harmless
    <2>. QED  BY <2>1, Keys1, NoCmds, OneCmd
  <1>7. /\ s = [i \in 1..KeyCount |-> s[i]] /\ p = [i \in 1..KeyCount |-> p[i]]
        /\ r = [i \in 1..KeyCount |-> r[i]]
    BY Keys1
  <1>. HIDE DEF s, p, r
  <1>. QED  BY <1>1, <1>2, <1>3, <1>4, <1>5, <1>6, <1>7, Keys1, EachScript

(* One command for each of a list of names.                                 *)
LEMMA NamesScript ==
    ASSUME NEW X, NEW l \in Seq(X), NEW ops, NEW op \in ops
    PROVE  IsScript([i \in DOMAIN l |-> Cmd(op, l[i], NoPath)], ops)
  <1>. DEFINE s == [i \in DOMAIN l |-> Cmd(op, l[i], NoPath)]
  <1>1. Len(l) \in Nat /\ s = [i \in 1..Len(l) |-> s[i]]
    OBVIOUS
  <1>2. \A i \in 1..Len(l) : s[i].op \in ops
    BY DEF Cmd
  <1>3. IsScript(s, ops)
    <2>. HIDE DEF s
    <2>. QED  BY <1>1, <1>2, ListScript
  <1>. QED  BY <1>3

(* getSymlinkOwnership touches no unit.                                     *)
LEMMA GetSymlinkOwnershipScript ==
    ASSUME NEW a, IsArts(a), NEW ops, Harmless \subseteq ops
    PROVE  IsScript(GetSymlinkOwnership(a), ops)
  <1>1. PICK L : a.links \in Seq(L)
    BY DEF IsArts
  <1>. DEFINE own(l) == Once(l.user \in ToSet(a.users), <<Cmd("chown-h", l.user, l.dest)>>)
                        \o Once(l.group \in ToSet(a.groups), <<Cmd("chgrp-h", l.group, l.dest)>>)
              s == [i \in DOMAIN a.links |-> own(a.links[i])]
  <1>a. Len(a.links) \in Nat /\ DOMAIN a.links = 1..Len(a.links)
    BY <1>1
  <1>2. s = [i \in 1..Len(a.links) |-> s[i]]
    BY <1>a, Zenon
  <1>3. ASSUME NEW i \in 1..Len(a.links) PROVE IsScript(s[i], ops)
    <2>1. "chown-h" \in ops /\ "chgrp-h" \in ops
      BY DEF Harmless
    <2>2. \A c, n, p : IsScript(Once(c, <<Cmd("chown-h", n, p)>>), ops)
                       /\ IsScript(Once(c, <<Cmd("chgrp-h", n, p)>>), ops)
      BY <2>1, OneCmd, OnceCmds, Zenon
    <2>3. i \in DOMAIN a.links
      BY <1>1
    <2>. QED  BY <2>2, <2>3, TwoScripts, Zenon
  <1>4. GetSymlinkOwnership(a) = FlattenSeq(s)
    BY DEF GetSymlinkOwnership
  <1>. HIDE DEF s
  <1>. QED  BY <1>a, <1>2, <1>3, <1>4, EachScript

(* %post does to the units what its systemd part does.                      *)
LEMMA PostScript ==
    ASSUME NEW a, IsArts(a), NEW n, NEW ops, Harmless \subseteq ops,
           IsScript(PostSystemd(a, n), ops)
    PROVE  IsScript(Post(a, n), ops)
  <1>1. IsScript(PostUsers(a), ops) /\ IsScript(PostGroups(a), ops)
    <2>1. "adduser" \in ops /\ "groupadd" \in ops
      BY DEF Harmless
    <2>2. PICK U, G : a.users \in Seq(U) /\ a.groups \in Seq(G)
      BY DEF IsArts
    <2>. QED  BY <2>1, <2>2, NamesScript DEF PostUsers, PostGroups
  <1>2. IsScript(PostSystemd(a, n) \o PostUsers(a), ops)
    BY <1>1, TwoScripts
  <1>3. IsScript(PostSystemd(a, n) \o PostUsers(a) \o PostGroups(a), ops)
    BY <1>1, <1>2, TwoScripts
  <1>4. IsScript(PostSystemd(a, n) \o PostUsers(a) \o PostGroups(a) \o GetSymlinkOwnership(a),
                 ops)
    BY <1>3, GetSymlinkOwnershipScript, TwoScripts
  <1>5. IsScript(PostSystemd(a, n) \o PostUsers(a) \o PostGroups(a) \o GetSymlinkOwnership(a)
                   \o GetArtifactOwnership(a), ops)
    BY <1>4, GetArtifactOwnershipScript, TwoScripts
  <1>. QED  BY <1>5, GetDirectoryOwnershipScript, TwoScripts DEF Post

(* %post of the first installation.                                         *)
LEMMA FirstInstallScript ==
    ASSUME NEW a, IsArts(a)
    PROVE  IsScript(Post(a, 1), Harmless \cup LoudOps)
  <1>. DEFINE ops == Harmless \cup LoudOps
              post(k) == SystemdPostScript(UnitName(k, a.units[k]), a.units[k], 1)
              s == [i \in DOMAIN KeyOrder |->
                       IF KeyOrder[i] \in DOMAIN a.units THEN post(KeyOrder[i]) ELSE <<>>]
  <1>1. PostSystemd(a, 1) = FlattenSeq(s)
    BY DEF PostSystemd, OverKeys
  <1>2. ASSUME NEW name, NEW u PROVE IsScript(SystemdPostScript(name, u, 1), ops)
    <2>1. (IF u.start THEN "enable-now" ELSE "enable") \in ops
      BY DEF LoudOps
    <2>. HIDE DEF ops
    <2>. QED  BY <2>1, OneCmd, OnceCmds, Zenon DEF SystemdPostScript
  <1>. HIDE DEF ops
  <1>3. \A i \in 1..KeyCount : IsScript(s[i], ops)
    BY <1>2, Keys1, NoCmds
  <1>4. s = [i \in 1..KeyCount |-> s[i]]
    BY Keys1
  <1>. HIDE DEF s
  <1>5. IsScript(PostSystemd(a, 1), ops)
    BY <1>1, <1>3, <1>4, Keys1, EachScript
  <1>6. Harmless \subseteq ops
    BY DEF ops
  <1>. QED  BY <1>5, <1>6, PostScript DEF ops

(* The commands of a postinst.                                              *)
DebOps == Harmless \cup {"dsh-enable"}

(* The snippets of debhelper and of customDHInstallSystemdPostinst leave it *)
(* to deb-systemd-helper to enable a unit.                                  *)
LEMMA SnippetScripts ==
    ASSUME NEW a
    PROVE  /\ IsScript(OverrideSystemd(a), DebOps)
           /\ IsScript(CustomDHInstallSystemdPostinst(a), DebOps)
  <1>. DEFINE grp(k) == GroupUnitsByBaseName(a)[SplitName(k, a.units[k])]
              op1(k) == IF /\ a.units[CHOOSE j \in grp(k) : TRUE].enable
                           /\ ~RequiresCustomEnable(a, grp(k)) THEN "dsh-enable"
                        ELSE "dsh-noenable"
              op2(k) == IF a.units[k].enable THEN "dsh-enable" ELSE "dsh-noenable"
              two(op, k) == <<Cmd(op, UnitName(k, a.units[k]), NoPath),
                              Cmd("dsh-start", UnitName(k, a.units[k]), NoPath)>>
              own(k) == Once(RequiresCustomEnable(a, grp(k)), two(op2(k), k))
              s == [i \in DOMAIN KeyOrder |->
                       IF KeyOrder[i] \in DOMAIN a.units THEN two(op1(KeyOrder[i]), KeyOrder[i])
                       ELSE <<>>]
              p == [i \in DOMAIN KeyOrder |->
                       IF KeyOrder[i] \in DOMAIN a.units THEN own(KeyOrder[i]) ELSE <<>>]
  <1>1. OverrideSystemd(a) = FlattenSeq(s)
    BY DEF OverrideSystemd, OverKeys
  <1>2. CustomDHInstallSystemdPostinst(a) = FlattenSeq(p)
    BY DEF CustomDHInstallSystemdPostinst, OverKeys
  <1>3. \A k : op1(k) \in DebOps /\ op2(k) \in DebOps
    BY DEF DebOps, Harmless
  <1>4. ASSUME NEW k, NEW op \in DebOps PROVE IsScript(two(op, k), DebOps)
    <2>1. "dsh-start" \in DebOps
      BY DEF DebOps, Harmless
    <2>2. two(op, k) = [i \in 1..2 |-> two(op, k)[i]] /\ 2 \in Nat
      OBVIOUS
    <2>3. \A i \in 1..2 : two(op, k)[i].op \in DebOps
      BY <2>1 DEF Cmd
    <2>. HIDE DEF two
    <2>. QED  BY <2>2, <2>3, ListScript
  <1>. HIDE DEF two, op1, op2, grp
  <1>5. \A i \in 1..KeyCount : IsScript(s[i], DebOps)
    BY <1>3, <1>4, Keys1, NoCmds
  <1>6. \A i \in 1..KeyCount : IsScript(p[i], DebOps)
    BY <1>3, <1>4, Keys1, NoCmds, OnceCmds
  <1>7. s = [i \in 1..KeyCount |-> s[i]] /\ p = [i \in 1..KeyCount |-> p[i]]
    BY Keys1
  <1>. HIDE DEF s, p
  <1>. QED  BY <1>1, <1>2, <1>5, <1>6, <1>7, Keys1, EachScript

(* A postinst may have every command that touches no unit.                  *)
LEMMA DebOpsAre ==
    /\ Harmless \subseteq DebOps
    /\ {"adduser", "groupadd", "chown", "chown-h", "chgrp", "chgrp-h"} \subseteq DebOps
  BY DEF DebOps, Harmless

(* setArtifactOwnershipPostInst touches no unit.                            *)
LEMMA OwnershipPostInst ==
    ASSUME NEW a, IsArts(a)
    PROVE  IsScript(SetArtifactOwnershipPostInst(a), DebOps)
  <1>. DEFINE path(k, key) == Join(<<DebDir[k], a[k][key].sub, ResolveName(key, a[k][key])>>)
              s(k) == [i \in DOMAIN KeyOrder |->
                          IF KeyOrder[i] \in DOMAIN a[k]
                          THEN Chown(a[k][KeyOrder[i]], path(k, KeyOrder[i])) ELSE <<>>]
              t == [i \in DOMAIN OwnedKinds |-> FlattenSeq(s(OwnedKinds[i]))]
              own(l) == Once(l.user # "", <<Cmd("chown-h", l.user, l.dest)>>)
                        \o Once(l.group # "", <<Cmd("chgrp-h", l.group, l.dest)>>)
              r == [i \in DOMAIN a.links |-> own(a.links[i])]
  <1>1. ASSUME NEW k PROVE IsScript(FlattenSeq(s(k)), DebOps)
    <2>1. \A i \in 1..KeyCount : IsScript(s(k)[i], DebOps)
      BY Keys1, ChownScript, NoCmds, DebOpsAre
    <2>2. s(k) = [i \in 1..KeyCount |-> s(k)[i]]
      BY Keys1
    <2>. HIDE DEF s
    <2>. QED  BY <2>1, <2>2, Keys1, EachScript
  <1>2. SetArtifactOwnershipPostInst(a) =
            FlattenSeq(t) \o GetDirectoryOwnership(a) \o FlattenSeq(r)
    BY DEF SetArtifactOwnershipPostInst, OverKeys
  <1>3. IsScript(FlattenSeq(t), DebOps)
    <2>. HIDE DEF s
    <2>1. DOMAIN OwnedKinds = 1..9
      BY DEF OwnedKinds
    <2>2. t = [i \in 1..9 |-> t[i]]
      BY <2>1
    <2>3. \A i \in 1..9 : IsScript(t[i], DebOps)
      BY <1>1, <2>1
    <2>. HIDE DEF t
    <2>. QED  BY <2>2, <2>3, EachScript
  <1>4. IsScript(FlattenSeq(r), DebOps)
    <2>1. PICK L : a.links \in Seq(L)
      BY DEF IsArts
    <2>2. Len(a.links) \in Nat /\ DOMAIN a.links = 1..Len(a.links)
      BY <2>1
    <2>3. r = [i \in 1..Len(a.links) |-> r[i]]
      BY <2>2, Zenon
    <2>4. \A c, n, p : IsScript(Once(c, <<Cmd("chown-h", n, p)>>), DebOps)
                       /\ IsScript(Once(c, <<Cmd("chgrp-h", n, p)>>), DebOps)
      BY DebOpsAre, OneCmd, OnceCmds
    <2>5. ASSUME NEW l PROVE IsScript(own(l), DebOps)
      BY <2>4, TwoScripts, Zenon
    <2>. HIDE DEF own
    <2>6. \A i \in 1..Len(a.links) : IsScript(r[i], DebOps)
      BY <2>2, <2>5
    <2>. HIDE DEF r
    <2>. QED  BY <2>2, <2>3, <2>6, EachScript
  <1>5. IsScript(GetDirectoryOwnership(a), DebOps)
    BY GetDirectoryOwnershipScript, DebOpsAre
  <1>. HIDE DEF t, r
  <1>6. IsScript(FlattenSeq(t) \o GetDirectoryOwnership(a), DebOps)
    BY <1>3, <1>5, TwoScripts
  <1>. QED  BY <1>2, <1>4, <1>6, TwoScripts

(* The whole postinst has only such commands.                               *)
LEMMA PostInstScript ==
    ASSUME NEW a, IsArts(a)
    PROVE  IsScript(PostInst(a), DebOps)
  <1>1. IsScript(WriteUsersPostInst(a), DebOps) /\ IsScript(WriteGroupsPostInst(a), DebOps)
    <2>1. PICK U, G : a.users \in Seq(U) /\ a.groups \in Seq(G)
      BY DEF IsArts
    <2>. QED  BY DebOpsAre, <2>1, NamesScript DEF WriteUsersPostInst, WriteGroupsPostInst
  <1>2. IsScript(WriteUsersPostInst(a) \o WriteGroupsPostInst(a), DebOps)
    BY <1>1, TwoScripts
  <1>3. IsScript(WriteUsersPostInst(a) \o WriteGroupsPostInst(a)
                   \o SetArtifactOwnershipPostInst(a), DebOps)
    BY <1>2, OwnershipPostInst, TwoScripts
  <1>4. IsScript(OwnPostInst(a), DebOps)
    BY <1>3, SnippetScripts, TwoScripts DEF OwnPostInst
  <1>. QED  BY <1>4, SnippetScripts DEF PostInst

-----------------------------------------------------------------------------
(* Installing and upgrading.                                                *)
(* deb-systemd-helper has seen every unit that the package's postinst       *)
(* enables.                                                                 *)
EnabledSeen(h, a) ==
    \A i \in 1..Len(PostInst(a)) :
        PostInst(a)[i].op = "dsh-enable" => PostInst(a)[i].name \in h.seen

(* A command that touches no unit changes none.                             *)
LEMMA HarmlessIsQuiet ==
    ASSUME NEW h, NEW c, c.op \in Harmless
    PROVE  Quiet(h, c)
  BY DEF Quiet, Harmless, LoudOps

(* Nor does a script of them.                                               *)
LEMMA HarmlessRun ==
    ASSUME NEW h, NEW s, NEW stop, IsHost(h), IsScript(s, Harmless)
    PROVE  IsHost(RunScript(h, s, stop)) /\ RunScript(h, s, stop).enabled = h.enabled
  <1>1. Len(s) \in Nat /\ \A i \in 1..Len(s) : s[i].op \in Harmless
    BY ScriptElems
  <1>2. \A i \in 1..Len(s) : Quiet(h, s[i])
    BY <1>1, HarmlessIsQuiet
  <1>. QED  BY <1>1, <1>2, QuietRun

(* Unpacking the files changes no unit.                                     *)
LEMMA UnpackKeeps ==
    ASSUME NEW h, NEW o, NEW t, IsHost(h)
    PROVE  LET g == Unpack([h EXCEPT !.tools = t], o)
           IN  IsHost(g) /\ g.enabled = h.enabled /\ g.seen = h.seen
  BY DEF Unpack, IsHost

(* Upgrading an rpm changes no unit: neither %post of the new package nor   *)
(* %preun and %postun of the old one.                                       *)
LEMMA RpmUpgradeQuiet ==
    ASSUME NEW h, NEW a, NEW b, IsHost(h), IsArts(a)
    PROVE  RpmUpgrade(h, a, b).enabled = h.enabled
  <1>. DEFINE g1 == Unpack([h EXCEPT !.tools = h.tools \cup ScriptletTools(a)], RpmOwned(h, a, b))
              g2 == RunScript(g1, Post(a, 2), FALSE)
              g3 == [g2 EXCEPT !.failed = FALSE]
              g4 == RunScript(g3, PreUn(a, 1), FALSE)
  <1>1. RpmUpgrade(h, a, b) = RunScript(g4, PostUn(a), FALSE)
    BY DEF RpmUpgrade, RpmInstall
  <1>2. IsHost(g1) /\ g1.enabled = h.enabled
    BY UnpackKeeps
  <1>. HIDE DEF g1
  <1>3. IsHost(g2) /\ g2.enabled = h.enabled
    BY <1>2, SystemdScripts, PostScript, HarmlessRun
  <1>. HIDE DEF g2
  <1>4. IsHost(g3) /\ g3.enabled = h.enabled
    BY <1>3 DEF IsHost
  <1>. HIDE DEF g3
  <1>5. IsHost(g4) /\ g4.enabled = h.enabled
    BY <1>4, SystemdScripts, HarmlessRun
  <1>. HIDE DEF g4
  <1>. QED  BY <1>1, <1>5, SystemdScripts, HarmlessRun

(* A deb that is installed has all its units seen, and installing it once   *)
(* they are seen changes none.                                              *)
LEMMA DebInstallSees ==
    ASSUME NEW h, NEW a, NEW b, IsHost(h), IsArts(a)
    PROVE  LET g == DebInstall(h, a, b)
           IN  /\ IsHost(g) /\ (~g.failed => EnabledSeen(g, a))
               /\ EnabledSeen(h, a) => g.enabled = h.enabled
  <1>. DEFINE g1 == Unpack([h EXCEPT !.tools = DebTools], [p \in PathsOf(b) |-> RootOwned])
  <1>1. DebInstall(h, a, b) = RunScript(g1, PostInst(a), TRUE)
    BY DEF DebInstall
  <1>2. IsHost(g1) /\ g1.enabled = h.enabled /\ g1.seen = h.seen
    BY UnpackKeeps
  <1>. HIDE DEF g1
  <1>3. Len(PostInst(a)) \in Nat /\ \A i \in 1..Len(PostInst(a)) : PostInst(a)[i].op \in DebOps
    BY PostInstScript, ScriptElems
  <1>4. \A g : \A i \in 1..Len(PostInst(a)) : EnabledSeen(g, a) => Quiet(g, PostInst(a)[i])
    BY <1>3 DEF Quiet, DebOps, Harmless, LoudOps, EnabledSeen
  <1>5. EnabledSeen(h, a) => EnabledSeen(g1, a)
    BY <1>2 DEF EnabledSeen
  <1>6. ASSUME EnabledSeen(h, a)
        PROVE  RunScript(g1, PostInst(a), TRUE).enabled = h.enabled
    BY <1>2, <1>3, <1>4, <1>5, <1>6, QuietRun
  <1>7. ASSUME NEW j \in 1..Len(PostInst(a)), PostInst(a)[j].op = "dsh-enable",
               NEW stop, stop = TRUE
        PROVE  LET g == RunScript(g1, PostInst(a), stop)
               IN  g.failed \/ PostInst(a)[j].name \in g.seen
    BY <1>2, <1>3, <1>7, SeenRun, Zenon
  <1>8. IsHost(RunScript(g1, PostInst(a), TRUE))
    BY <1>2, <1>3, QuietRun
  <1>. QED  BY <1>1, <1>6, <1>7, <1>8, Zenon DEF EnabledSeen

(* Installing an rpm makes a host of a host.                                *)
LEMMA RpmInstallHost ==
    ASSUME NEW h, NEW a, NEW b, IsHost(h), IsArts(a)
    PROVE  IsHost(RpmInstall(h, a, b, 1))
  <1>. DEFINE g1 == Unpack([h EXCEPT !.tools = h.tools \cup ScriptletTools(a)], RpmOwned(h, a, b))
              g2 == RunScript(g1, Post(a, 1), FALSE)
  <1>1. RpmInstall(h, a, b, 1) = [g2 EXCEPT !.failed = FALSE]
    BY DEF RpmInstall
  <1>2. IsHost(g1)
    BY UnpackKeeps
  <1>3. Len(Post(a, 1)) \in Nat
    BY FirstInstallScript, ScriptElems
  <1>. HIDE DEF g1
  <1>4. IsHost(g2)
    BY <1>2, <1>3, QuietRun
  <1>. HIDE DEF g2
  <1>. QED  BY <1>1, <1>4 DEF IsHost

=============================================================================
