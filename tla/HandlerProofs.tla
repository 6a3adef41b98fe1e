--------------------------- MODULE HandlerProofs ----------------------------
(***************************************************************************)
(* The order of the stages of a handler, and what it means for what the     *)
(* handler delivers.  Rank puts the stages into phases, every handler goes  *)
(* through the phases in order, and WhatsDone says what is known of the     *)
(* package once a phase is over.  All of it is about constant operators:    *)
(* DeliveryProofs applies it to the variables of DistroBuild.               *)
(***************************************************************************)
EXTENDS Handlers, SequenceTheorems, TLAPS

-----------------------------------------------------------------------------
(* Phases of a handler.                                                     *)
Stages == {"validate", "worker", "prebuilt", "versionid", "readversion", "builddeps", "srcpkg",
             "gocache", "build", "sign", "evaluate", "extract", "imgconfig", "container", "tests",
             "deliver", "rtdeps", "downloads", "toolcheck", "sources", "workerconfig", "winbases",
             "winvalidate", "winimage"}

(* The phase of a stage; prebuilt, build, sign, tests and deliver are alone *)
(* in theirs.                                                               *)
Rank(s) ==
      CASE s = "deliver" -> 8 [] s = "tests" -> 7
        [] s \in {"imgconfig", "container", "winimage"} -> 6
        [] s \in {"extract", "evaluate"} -> 5 [] s = "sign" -> 4 [] s = "build" -> 3
        [] s \in {"versionid", "builddeps", "srcpkg", "gocache", "sources", "downloads",
                  "readversion",
                  "workerconfig"} -> 2
        [] s = "prebuilt" -> 1 [] OTHER -> 0

(* x may come before y; of a phase of one stage only one can be there.      *)
Precedes(x, y) == Rank(x) < Rank(y) \/ (Rank(x) = Rank(y) /\ Rank(x) \in {0, 2, 5, 6})

(* A handler in order.                                                      *)
Ordered(s) == \A i, j \in DOMAIN s : i < j => Precedes(s[i], s[j])

(* The stage st is still to come.                                           *)
Left(s, st) == \E i \in DOMAIN s : s[i] = st

(* Once st is not left any more, the stages left are of its phase or later. *)
Phase(s, st) == Left(s, st) \/ \A i \in DOMAIN s : Rank(s[i]) >= Rank(st)

(* Every stage is in a phase before the n-th, or from it on.                *)
Below(s, n) == \A i \in DOMAIN s : Rank(s[i]) < n
From(s, n) == \A i \in DOMAIN s : Rank(s[i]) >= n

(* A phase is a number.                                                     *)
LEMMA RankType == \A s : Rank(s) \in 0..8
  BY DEF Rank

(* The phases by number.                                                    *)
LEMMA RankTable ==
    /\ Rank("validate") = 0 /\ Rank("worker") = 0 /\ Rank("winbases") = 0
    /\ Rank("winvalidate") = 0 /\ Rank("rtdeps") = 0 /\ Rank("toolcheck") = 0
    /\ Rank("prebuilt") = 1 /\ Rank("versionid") = 2 /\ Rank("builddeps") = 2
    /\ Rank("srcpkg") = 2 /\ Rank("gocache") = 2 /\ Rank("sources") = 2
    /\ Rank("downloads") = 2 /\ Rank("readversion") = 2 /\ Rank("workerconfig") = 2
    /\ Rank("build") = 3 /\ Rank("sign") = 4 /\ Rank("extract") = 5 /\ Rank("evaluate") = 5
    /\ Rank("imgconfig") = 6 /\ Rank("container") = 6 /\ Rank("winimage") = 6
    /\ Rank("tests") = 7 /\ Rank("deliver") = 8
  BY DEF Rank

(* Stages on two sides of a phase are in order.                             *)
LEMMA Apart ==
    ASSUME NEW x, NEW y, NEW n \in 0..8, Rank(x) < n, Rank(y) >= n
    PROVE  Precedes(x, y)
  BY RankType DEF Precedes

(* Stages in order are in the order of their phases.                        *)
LEMMA PrecedesRank ==
    ASSUME NEW x, NEW y, Precedes(x, y)
    PROVE  Rank(x) <= Rank(y)
  BY RankType DEF Precedes

(* Two parts of a handler, one phase after the other, make one in order.    *)
LEMMA Joined ==
    ASSUME NEW s \in Seq(Stages), NEW t \in Seq(Stages), NEW n \in 0..8, Ordered(s), Ordered(t),
           Below(s, n), From(t, n)
    PROVE  /\ s \o t \in Seq(Stages) /\ Ordered(s \o t)
           /\ \A st : Left(s \o t, st) <=> Left(s, st) \/ Left(t, st)
           /\ \A m : Below(s, m) /\ Below(t, m) => Below(s \o t, m)
  <1>1. /\ s \o t \in Seq(Stages) /\ Len(s \o t) = Len(s) + Len(t)
        /\ \A i \in 1..(Len(s) + Len(t)) :
             (s \o t)[i] = IF i <= Len(s) THEN s[i] ELSE t[i - Len(s)]
    BY ConcatProperties, Zenon
  <1> PICK u \in Seq(Stages) : u = s \o t
    BY <1>1
  <1>2. Len(s) \in Nat /\ Len(t) \in Nat /\ DOMAIN s = 1..Len(s) /\ DOMAIN t = 1..Len(t)
        /\ DOMAIN u = 1..(Len(s) + Len(t))
    BY <1>1
  <1>3. \A i \in DOMAIN u : \/ i \in DOMAIN s /\ u[i] = s[i]
                            \/ i > Len(s) /\ i - Len(s) \in DOMAIN t /\ u[i] = t[i - Len(s)]
    BY <1>1, <1>2
  <1>4. Ordered(u)
    <2> SUFFICES ASSUME NEW i \in DOMAIN u, NEW j \in DOMAIN u, i < j
                 PROVE  Precedes(u[i], u[j])
      BY DEF Ordered
    <2>1. CASE i \in DOMAIN s /\ u[i] = s[i] /\ j \in DOMAIN s /\ u[j] = s[j]
      BY <2>1 DEF Ordered
    <2>2. CASE i \in DOMAIN s /\ u[i] = s[i] /\ j - Len(s) \in DOMAIN t /\ u[j] = t[j - Len(s)]
      <3>1. Rank(s[i]) < n /\ Rank(t[j - Len(s)]) >= n
        BY <2>2 DEF Below, From
      <3> QED BY <2>2, <3>1, Apart
    <2>3. CASE /\ i - Len(s) \in DOMAIN t /\ u[i] = t[i - Len(s)]
               /\ j - Len(s) \in DOMAIN t /\ u[j] = t[j - Len(s)]
      <3>1. i - Len(s) < j - Len(s)
        BY <1>2
      <3> QED BY <2>3, <3>1 DEF Ordered
    <2>4. ~(i > Len(s) /\ j \in DOMAIN s)
      BY <1>2
    <2> QED
      BY <1>3, <2>1, <2>2, <2>3, <2>4
  <1>5. ASSUME NEW st PROVE Left(u, st) <=> Left(s, st) \/ Left(t, st)
    <2>1. ASSUME NEW i \in DOMAIN s PROVE i \in DOMAIN u /\ u[i] = s[i]
      BY <1>1, <1>2
    <2>2. ASSUME NEW j \in DOMAIN t PROVE Len(s) + j \in DOMAIN u /\ u[Len(s) + j] = t[j]
      BY <1>1, <1>2
    <2>3. Left(s, st) => Left(u, st)
      BY <2>1 DEF Left
    <2>4. Left(t, st) => Left(u, st)
      <3> SUFFICES ASSUME NEW j \in DOMAIN t, t[j] = st PROVE Left(u, st)
        BY DEF Left
      <3> QED BY <2>2 DEF Left
    <2>5. Left(u, st) => Left(s, st) \/ Left(t, st)
      BY <1>3 DEF Left
    <2> QED
      BY <2>3, <2>4, <2>5
  <1>6. ASSUME NEW m, Below(s, m), Below(t, m) PROVE Below(u, m)
    BY <1>3, <1>6 DEF Below
  <1> QED
    BY <1>1, <1>4, <1>5, <1>6

(* r is what is left of s from its k-th stage on.                           *)
RestOf(s, k, r) ==
    /\ r \in Seq(Stages) /\ Ordered(r)
    /\ \A st : Left(r, st) <=> \E j \in DOMAIN s : j >= k /\ s[j] = st
    /\ \A st : Phase(s, st) => Phase(r, st)

(* The rest of an ordered handler is in order, and skips no phase that is to*)
(* come.                                                                    *)
LEMMA Rest ==
    ASSUME NEW s \in Seq(Stages), NEW k \in 1..(Len(s) + 1), Ordered(s), NEW r,
           r = SubSeq(s, k, Len(s))
    PROVE  RestOf(s, k, r)
  <1>1. /\ r \in Seq(Stages) /\ Len(r) = Len(s) - k + 1
        /\ \A i \in 1..(Len(s) - k + 1) : r[i] = s[k + i - 1]
    BY SubSeqProperties
  <1>2. Len(s) \in Nat /\ DOMAIN s = 1..Len(s) /\ DOMAIN r = 1..(Len(s) - k + 1)
    BY <1>1
  <1>3. \A i \in DOMAIN r : i + k - 1 \in DOMAIN s /\ i + k - 1 >= k /\ r[i] = s[i + k - 1]
    BY <1>1, <1>2
  <1>4. \A j \in DOMAIN s : j >= k => j - k + 1 \in DOMAIN r /\ r[j - k + 1] = s[j]
    BY <1>1, <1>2
  <1>5. Ordered(r)
    <2> SUFFICES ASSUME NEW i \in DOMAIN r, NEW j \in DOMAIN r, i < j
                 PROVE  Precedes(r[i], r[j])
      BY DEF Ordered
    <2>1. i + k - 1 < j + k - 1
      BY <1>2
    <2> QED
      BY <1>3, <2>1 DEF Ordered
  <1>6. \A st : Left(r, st) <=> \E j \in DOMAIN s : j >= k /\ s[j] = st
    BY <1>3, <1>4, SMTT(30) DEF Left
  <1>8. ASSUME NEW st, Phase(s, st) PROVE Phase(r, st)
    <2>1. CASE Left(s, st)
      <3>1. PICK j \in DOMAIN s : s[j] = st
        BY <2>1 DEF Left
      <3>2. CASE j >= k
        BY <1>6, <3>1, <3>2 DEF Phase
      <3>3. CASE j < k
        <4>1. \A i \in DOMAIN s : i >= k => Rank(s[i]) >= Rank(st)
          BY <1>2, <3>1, <3>3, PrecedesRank DEF Ordered
        <4> QED
          BY <1>3, <4>1 DEF Phase
      <3> QED BY <1>2, <3>2, <3>3
    <2>2. CASE \A i \in DOMAIN s : Rank(s[i]) >= Rank(st)
      BY <1>3, <2>2 DEF Phase
    <2> QED
      BY <1>8, <2>1, <2>2 DEF Phase
  <1> QED
    BY <1>1, <1>5, <1>6, <1>8 DEF RestOf

(* The first stage left tells which phases are over and which are to come.  *)
LEMMA Heads ==
    ASSUME NEW s \in Seq(Stages), Ordered(s), s # <<>>
    PROVE  /\ Left(s, Head(s)) /\ Head(s) \in Stages
           /\ \A st : Rank(st) < Rank(Head(s)) => ~Left(s, st)
           /\ \A st : Phase(s, st) /\ Rank(Head(s)) < Rank(st) => Left(s, st)
  <1>1. 1 \in DOMAIN s /\ s[1] = Head(s) /\ DOMAIN s = 1..Len(s) /\ Len(s) \in Nat
    OBVIOUS
  <1>2. \A i \in DOMAIN s : i # 1 => 1 < i
    BY <1>1
  <1>3. \A i \in DOMAIN s : Rank(Head(s)) <= Rank(s[i])
    <2> SUFFICES ASSUME NEW i \in DOMAIN s PROVE Rank(Head(s)) <= Rank(s[i])
      OBVIOUS
    <2>1. CASE i = 1
      BY <1>1, <2>1, RankType
    <2>2. CASE i # 1
      BY <1>1, <1>2, <2>2, PrecedesRank DEF Ordered
    <2> QED
      BY <2>1, <2>2
  <1>4. ASSUME NEW st, Rank(st) < Rank(Head(s)) PROVE ~Left(s, st)
    BY <1>3, <1>4, RankType DEF Left
  <1>5. ASSUME NEW st, Phase(s, st), Rank(Head(s)) < Rank(st) PROVE Left(s, st)
    BY <1>1, <1>5, RankType DEF Phase
  <1> QED
    BY <1>1, <1>4, <1>5 DEF Left

(* What is left after the first stage.                                      *)
LEMMA Popped ==
    ASSUME NEW s \in Seq(Stages), Ordered(s), s # <<>>, NEW r, r = Tail(s)
    PROVE  /\ r \in Seq(Stages) /\ Ordered(r)
           /\ \A st : Phase(s, st) => Phase(r, st)
           /\ \A st : st # Head(s) => (Left(r, st) <=> Left(s, st))
           /\ \A st : Left(r, st) => Left(s, st)
           /\ Rank(Head(s)) \in {1, 3, 4, 7, 8} => ~Left(r, Head(s))
  <1>1. 2 \in 1..(Len(s) + 1) /\ r = SubSeq(s, 2, Len(s)) /\ DOMAIN s = 1..Len(s)
        /\ Len(s) \in Nat /\ Head(s) = s[1]
        /\ 1 \in DOMAIN s
    OBVIOUS
  <1>r. RestOf(s, 2, r)
    BY <1>1, Rest, Zenon
  <1>2. /\ r \in Seq(Stages) /\ Ordered(r)
        /\ \A st : Left(r, st) <=> \E j \in DOMAIN s : j >= 2 /\ s[j] = st
        /\ \A st : Phase(s, st) => Phase(r, st)
    BY <1>r DEF RestOf
  <1>3. \A st : st # Head(s) => (Left(r, st) <=> Left(s, st))
    <2>1. \A j \in DOMAIN s : j >= 2 \/ j = 1
      BY <1>1
    <2> QED
      BY <1>1, <1>2, <2>1 DEF Left
  <1>4. ASSUME Rank(Head(s)) \in {1, 3, 4, 7, 8}, Left(r, Head(s)) PROVE FALSE
    <2>1. PICK j \in DOMAIN s : j >= 2 /\ s[j] = Head(s)
      BY <1>2, <1>4
    <2>2. 1 < j
      BY <1>1, <2>1
    <2>3. Precedes(s[1], s[j])
      BY <1>1, <2>2 DEF Ordered
    <2> QED
      BY <1>1, <1>4, <2>1, <2>3, RankType DEF Precedes
  <1> QED
    BY <1>2, <1>3, <1>4 DEF Left

-----------------------------------------------------------------------------
(* Suffixes.                                                                *)
(* What is left of a handler is a suffix of it.                             *)
Suffix(all, s) == \E n \in 1..(Len(all) + 1) : s = SubSeq(all, n, Len(all))

(* r has the elements of s from the k-th on.                                *)
Cut(s, k, r) ==
    /\ r \in Seq(Stages) /\ Len(r) = Len(s) - k + 1
    /\ \A i \in 1..(Len(s) - k + 1) : r[i] = s[k + i - 1]

(* SubSeq to the end cuts a sequence.                                       *)
LEMMA SubSeqCuts ==
    ASSUME NEW s \in Seq(Stages), NEW k \in 1..(Len(s) + 1)
    PROVE  Cut(s, k, SubSeq(s, k, Len(s)))
  BY SubSeqProperties DEF Cut

(* A sequence can be cut at a place in one way.                             *)
LEMMA CutsEqual ==
    ASSUME NEW s \in Seq(Stages), NEW k \in 1..(Len(s) + 1), NEW r, NEW t, Cut(s, k, r),
           Cut(s, k, t)
    PROVE  r = t
  BY SeqEqual DEF Cut

(* A cut of a cut is a cut.                                                 *)
LEMMA CutOfCut ==
    ASSUME NEW s \in Seq(Stages), NEW k \in 1..(Len(s) + 1), NEW r, Cut(s, k, r),
           NEW n \in 1..(Len(r) + 1), NEW t, Cut(r, n, t)
    PROVE  k + n - 1 \in 1..(Len(s) + 1) /\ Cut(s, k + n - 1, t)
  <1>1. Len(s) \in Nat /\ Len(r) = Len(s) - k + 1 /\ k \in Nat /\ n \in Nat
    BY DEF Cut
  <1>2. k + n - 1 \in 1..(Len(s) + 1)
    BY <1>1
  <1>3. Len(r) - n + 1 = Len(s) - (k + n - 1) + 1
    BY <1>1
  <1>4. ASSUME NEW i \in 1..(Len(r) - n + 1) PROVE t[i] = s[(k + n - 1) + i - 1]
    <2>1. n + i - 1 \in 1..(Len(s) - k + 1) /\ k + (n + i - 1) - 1 = (k + n - 1) + i - 1
      BY <1>1
    <2>2. t[i] = r[n + i - 1]
      BY DEF Cut
    <2>3. r[n + i - 1] = s[k + (n + i - 1) - 1]
      BY <2>1 DEF Cut
    <2> QED
      BY <2>1, <2>2, <2>3
  <1> QED
    BY <1>2, <1>3, <1>4 DEF Cut

(* The rest of a suffix is a suffix.                                        *)
LEMMA RestOfRest ==
    ASSUME NEW all \in Seq(Stages), NEW s, Suffix(all, s), NEW k \in 1..(Len(s) + 1), NEW t,
           t = SubSeq(s, k, Len(s))
    PROVE  Suffix(all, t)
  <1>0. PICK n \in 1..(Len(all) + 1) : s = SubSeq(all, n, Len(all))
    BY DEF Suffix
  <1>1. Cut(all, n, s)
    BY <1>0, SubSeqCuts
  <1>2. s \in Seq(Stages)
    BY <1>1 DEF Cut
  <1>3. Cut(s, k, t)
    BY <1>2, SubSeqCuts
  <1>4. n + k - 1 \in 1..(Len(all) + 1) /\ Cut(all, n + k - 1, t)
    BY <1>1, <1>3, CutOfCut
  <1>5. ASSUME NEW m \in 1..(Len(all) + 1), Cut(all, m, t)
        PROVE  t = SubSeq(all, m, Len(all))
    BY <1>5, SubSeqCuts, CutsEqual
  <1> QED
    BY <1>4, <1>5 DEF Suffix

-----------------------------------------------------------------------------
(* The handlers.                                                            *)
(* The routes that deliver a package, alone or in an image.                 *)
PackageRoutes == {"package", "container", "sysext", "zip"}

(* What the handler of route r on distro d must do: build, sign and test    *)
(* what it delivers; look for the client's package before that, and only on *)
(* the Linux distros.                                                       *)
Planned(d, r, s) ==
    /\ s \in Seq(Stages) /\ Ordered(s)
    /\ r \in PackageRoutes => Left(s, "build") /\ Left(s, "sign")
    /\ Left(s, "prebuilt") <=> r \in {"container", "sysext"} /\ d # "windows"
    /\ r \in PackageRoutes /\ d # "windows" => Left(s, "tests")
    /\ r = "container" => Left(s, IF d = "windows" THEN "winimage" ELSE "container")

(* The build of each distro is in order, and signs what it built.           *)
LEMMA BuildPkgStages ==
    ASSUME NEW d \in {"rpm", "deb", "windows"}
    PROVE  /\ BuildPkg(d) \in Seq(Stages) /\ Ordered(BuildPkg(d))
           /\ From(BuildPkg(d), 2) /\ Below(BuildPkg(d), 5)
           /\ Left(BuildPkg(d), "build") /\ Left(BuildPkg(d), "sign")
  <1>1. CASE d \in {"rpm", "windows"}
    <2>1. BuildPkg(d) = <<"builddeps", "srcpkg", "gocache", "build", "sign">>
      BY <1>1 DEF BuildPkg, RpmBuildPkg, WinBuildBinaries
    <2> DEFINE s == <<"builddeps", "srcpkg", "gocache", "build", "sign">>
    <2>2. s \in Seq(Stages) /\ Left(s, "build") /\ Left(s, "sign")
      BY DEF Stages, Left
    <2>3. Ordered(s)
      BY RankTable DEF Ordered, Precedes
    <2>4. From(s, 2) /\ Below(s, 5)
      BY RankTable DEF From, Below
    <2> QED
      BY <2>1, <2>2, <2>3, <2>4
  <1>2. CASE d = "deb"
    <2>1. BuildPkg(d) = <<"versionid", "builddeps", "gocache", "srcpkg", "build", "sign">>
      BY <1>2 DEF BuildPkg, DebBuildPkg
    <2> DEFINE s == <<"versionid", "builddeps", "gocache", "srcpkg", "build", "sign">>
    <2>2. s \in Seq(Stages) /\ Left(s, "build") /\ Left(s, "sign")
      BY DEF Stages, Left
    <2>3. Ordered(s)
      BY RankTable DEF Ordered, Precedes
    <2>4. From(s, 2) /\ Below(s, 5)
      BY RankTable DEF From, Below
    <2> QED
      BY <2>1, <2>2, <2>3, <2>4
  <1> QED
    BY <1>1, <1>2

(* A handler made of stages before the build, the build, and stages after   *)
(* it.                                                                      *)
LEMMA AroundBuild ==
    ASSUME NEW d \in {"rpm", "deb", "windows"}, NEW s \in Seq(Stages), NEW t \in Seq(Stages),
           Ordered(s), Ordered(t), Below(s, 2), From(t, 5)
    PROVE  /\ s \o BuildPkg(d) \o t \in Seq(Stages) /\ Ordered(s \o BuildPkg(d) \o t)
           /\ Left(s \o BuildPkg(d) \o t, "build") /\ Left(s \o BuildPkg(d) \o t, "sign")
           /\ \A st : Rank(st) >= 5 \/ Rank(st) < 2 =>
                (Left(s \o BuildPkg(d) \o t, st) <=> Left(s, st) \/ Left(t, st))
  <1> PICK b \in Seq(Stages) : b = BuildPkg(d)
    BY BuildPkgStages
  <1>1. Ordered(b) /\ From(b, 2) /\ Below(b, 5) /\ Left(b, "build") /\ Left(b, "sign")
    BY BuildPkgStages
  <1>2. /\ s \o b \in Seq(Stages) /\ Ordered(s \o b)
        /\ \A st : Left(s \o b, st) <=> Left(s, st) \/ Left(b, st)
        /\ \A m : Below(s, m) /\ Below(b, m) => Below(s \o b, m)
    BY <1>1, Joined
  <1>3. Below(s, 5)
    BY RankType, SMTT(30) DEF Below
  <1>4. Below(s \o b, 5)
    BY <1>1, <1>2, <1>3
  <1>5. ASSUME NEW x \in Seq(Stages), Ordered(x), Below(x, 5)
        PROVE  /\ x \o t \in Seq(Stages) /\ Ordered(x \o t)
               /\ \A st : Left(x \o t, st) <=> Left(x, st) \/ Left(t, st)
    BY <1>5, Joined
  <1> PICK c \in Seq(Stages) : c = s \o b
    BY <1>2
  <1>6. /\ c \o t \in Seq(Stages) /\ Ordered(c \o t)
        /\ \A st : Left(c \o t, st) <=> Left(c, st) \/ Left(t, st)
    BY <1>2, <1>4, <1>5
  <1>7. ASSUME NEW st, Rank(st) >= 5 \/ Rank(st) < 2 PROVE ~Left(b, st)
    <2> SUFFICES ASSUME NEW i \in DOMAIN b, b[i] = st PROVE FALSE
      BY DEF Left
    <2>1. Rank(b[i]) >= 2 /\ Rank(b[i]) < 5
      BY <1>1 DEF From, Below
    <2>2. Rank(b[i]) \in 0..8
      BY RankType
    <2>3. Rank(b[i]) >= 5 \/ Rank(b[i]) < 2
      BY <1>7
    <2> QED
      BY <2>1, <2>2, <2>3
  <1>8. s \o BuildPkg(d) \o t = c \o t
    OBVIOUS
  <1>9. ASSUME NEW st PROVE Left(c \o t, st) <=> Left(s, st) \/ Left(b, st) \/ Left(t, st)
    BY <1>2, <1>6
  <1> HIDE DEF Left
  <1> QED
    BY <1>1, <1>6, <1>7, <1>8, <1>9

(* Every handler that a distro registers (HandlePackage, HandleContainer and*)
(* so on) goes through the phases in order.                                 *)
LEMMA HandlersPlanned ==
    ASSUME NEW d \in {"rpm", "deb", "windows"}, NEW r \in Routes(d)
    PROVE  Planned(d, r, Handler(d, r))
  <1> DEFINE H == Handler(d, r)
  <1>b. ASSUME NEW s \in Seq(Stages), NEW t \in Seq(Stages), Ordered(s), Ordered(t), Below(s, 2),
               From(t, 5),
               H = s \o BuildPkg(d) \o t, r \in PackageRoutes, ~Left(t, "prebuilt"),
               Left(s, "prebuilt") <=> r \in {"container", "sysext"} /\ d # "windows",
               d # "windows" => Left(t, "tests"),
               r = "container" => Left(t, IF d = "windows" THEN "winimage" ELSE "container")
        PROVE  Planned(d, r, H)
    <2>1. Rank("prebuilt") < 2 /\ Rank("tests") >= 5 /\ Rank("container") >= 5
          /\ Rank("winimage") >= 5
      BY DEF Rank
    <2>2. /\ H \in Seq(Stages) /\ Ordered(H) /\ Left(H, "build") /\ Left(H, "sign")
          /\ \A st : Rank(st) >= 5 \/ Rank(st) < 2 => (Left(H, st) <=> Left(s, st) \/ Left(t, st))
      BY <1>b, AroundBuild
    <2> HIDE DEF H
    <2>3. (Left(H, "prebuilt") <=> Left(s, "prebuilt")) /\ (Left(t, "tests") => Left(H, "tests"))
      BY <1>b, <2>1, <2>2
    <2>4. Left(t, "container") => Left(H, "container")
      BY <2>1, <2>2
    <2>5. Left(t, "winimage") => Left(H, "winimage")
      BY <2>1, <2>2
    <2> QED
      BY <1>b, <2>2, <2>3, <2>4, <2>5 DEF Planned
  <1>2. CASE r = "package"
    <2> DEFINE s == <<"validate", "worker">>
               t == <<"evaluate", "container", "tests", "deliver">>
    <2>1. H = s \o BuildPkg(d) \o t
      BY <1>2 DEF Handler, HandlePackage
    <2>2. s \in Seq(Stages) /\ t \in Seq(Stages) /\ Left(t, "tests") /\ ~Left(s, "prebuilt")
          /\ ~Left(t, "prebuilt")
      BY DEF Stages, Left
    <2>3. Ordered(s) /\ Ordered(t)
      BY RankTable DEF Ordered, Precedes
    <2>4. Below(s, 2) /\ From(t, 5)
      BY RankTable DEF Below, From
    <2> HIDE DEF s, t
    <2> QED
      BY <1>b, <1>2, <2>1, <2>2, <2>3, <2>4 DEF PackageRoutes
  <1>3. CASE r = "container" /\ d # "windows"
    <2> DEFINE s == <<"worker", "prebuilt">>
               t == <<"imgconfig", "container", "tests", "deliver">>
    <2>1. H = s \o BuildPkg(d) \o t
      BY <1>3 DEF Handler, HandleContainer
    <2>2. s \in Seq(Stages) /\ t \in Seq(Stages) /\ Left(t, "tests") /\ Left(s, "prebuilt")
          /\ Left(t, "container")
          /\ ~Left(t, "prebuilt")
      BY DEF Stages, Left
    <2>3. Ordered(s) /\ Ordered(t)
      BY RankTable DEF Ordered, Precedes
    <2>4. Below(s, 2) /\ From(t, 5)
      BY RankTable DEF Below, From
    <2> HIDE DEF s, t
    <2> QED
      BY <1>b, <1>3, <2>1, <2>2, <2>3, <2>4 DEF PackageRoutes
  <1>4. CASE r = "container" /\ d = "windows"
    <2> DEFINE s == <<"winbases", "winvalidate", "worker">>
               t == <<"winimage", "deliver">>
    <2>1. H = s \o BuildPkg(d) \o t
      BY <1>4 DEF Handler, HandleWinContainer, BuildPkg
    <2>2. s \in Seq(Stages) /\ t \in Seq(Stages) /\ Left(t, "winimage")
          /\ ~Left(s, "prebuilt") /\ ~Left(t, "prebuilt")
      BY DEF Stages, Left
    <2>3. Ordered(s) /\ Ordered(t)
      BY RankTable DEF Ordered, Precedes
    <2>4. Below(s, 2) /\ From(t, 5)
      BY RankTable DEF Below, From
    <2> HIDE DEF s, t
    <2> QED
      BY <1>b, <1>4, <2>1, <2>2, <2>3, <2>4 DEF PackageRoutes
  <1>5. CASE r = "sysext"
    <2> DEFINE s == <<"worker", "prebuilt">>
               t == <<"extract", "evaluate", "container", "tests", "deliver">>
    <2>1. H = s \o BuildPkg(d) \o t
      BY <1>5 DEF Handler, HandleSysext
    <2>2. s \in Seq(Stages) /\ t \in Seq(Stages) /\ Left(t, "tests") /\ Left(s, "prebuilt")
          /\ Left(t, "container")
          /\ ~Left(t, "prebuilt")
      BY DEF Stages, Left
    <2>3. Ordered(s) /\ Ordered(t)
      BY RankTable DEF Ordered, Precedes
    <2>4. Below(s, 2) /\ From(t, 5)
      BY RankTable DEF Below, From
    <2>5. d # "windows"
      BY <1>5 DEF Routes
    <2> HIDE DEF s, t
    <2> QED
      BY <1>b, <1>5, <2>1, <2>2, <2>3, <2>4, <2>5 DEF PackageRoutes
  <1>6. CASE r = "zip"
    <2> DEFINE s == <<"worker">>
               t == <<"deliver">>
    <2>0. d = "windows"
      BY <1>6 DEF Routes
    <2>1. H = s \o BuildPkg(d) \o t
      BY <1>6, <2>0 DEF Handler, HandleZip, BuildPkg
    <2>2. s \in Seq(Stages) /\ t \in Seq(Stages) /\ ~Left(s, "prebuilt") /\ ~Left(t, "prebuilt")
      BY DEF Stages, Left
    <2>3. Ordered(s) /\ Ordered(t)
      BY RankTable DEF Ordered, Precedes
    <2>4. Below(s, 2) /\ From(t, 5)
      BY RankTable DEF Below, From
    <2> HIDE DEF s, t
    <2> QED
      BY <1>b, <1>6, <2>0, <2>1, <2>2, <2>3, <2>4 DEF PackageRoutes
  <1>7. ASSUME NEW x, H = x, x \in Seq(Stages), Ordered(x), ~Left(x, "prebuilt"),
               r \notin PackageRoutes
        PROVE  Planned(d, r, H)
    BY <1>7 DEF Planned, PackageRoutes
  <1>8. CASE r = "depsonly"
    <2> DEFINE x == <<"rtdeps", "worker", "downloads", "container", "imgconfig", "deliver">>
    <2>1. H = x
      BY <1>8 DEF Handler, HandleDepsOnly
    <2>2. x \in Seq(Stages) /\ ~Left(x, "prebuilt")
      BY DEF Stages, Left
    <2>3. Ordered(x)
      BY RankTable DEF Ordered, Precedes
    <2> HIDE DEF x
    <2> QED
      BY <1>7, <1>8, <2>1, <2>2, <2>3 DEF PackageRoutes
  <1>9. CASE r = "buildroot"
    <2> DEFINE x == <<"validate", "worker", "builddeps", "srcpkg", "deliver">>
    <2>1. H = x
      BY <1>9 DEF Handler, HandleBuildroot
    <2>2. x \in Seq(Stages) /\ ~Left(x, "prebuilt")
      BY DEF Stages, Left
    <2>3. Ordered(x)
      BY RankTable DEF Ordered, Precedes
    <2> HIDE DEF x
    <2> QED
      BY <1>7, <1>9, <2>1, <2>2, <2>3 DEF PackageRoutes
  <1>10. CASE r = "sources"
    <2> DEFINE x == <<"worker", "toolcheck", "builddeps", "sources", "deliver">>
    <2>1. H = x
      BY <1>10 DEF Handler, HandleSources
    <2>2. x \in Seq(Stages) /\ ~Left(x, "prebuilt")
      BY DEF Stages, Left
    <2>3. Ordered(x)
      BY RankTable DEF Ordered, Precedes
    <2> HIDE DEF x
    <2> QED
      BY <1>7, <1>10, <2>1, <2>2, <2>3 DEF PackageRoutes
  <1>11. CASE r = "spec"
    <2> DEFINE x == <<"validate", "deliver">>
    <2>1. H = x
      BY <1>11 DEF Handler, HandleSpec
    <2>2. x \in Seq(Stages) /\ ~Left(x, "prebuilt")
      BY DEF Stages, Left
    <2>3. Ordered(x)
      BY RankTable DEF Ordered, Precedes
    <2> HIDE DEF x
    <2> QED
      BY <1>7, <1>11, <2>1, <2>2, <2>3 DEF PackageRoutes
  <1>12. CASE r = "dsc"
    <2> DEFINE x == <<"worker", "readversion", "builddeps", "gocache", "srcpkg", "deliver">>
    <2>1. H = x
      BY <1>12 DEF Handler, HandleSourcePkg
    <2>2. x \in Seq(Stages) /\ ~Left(x, "prebuilt")
      BY DEF Stages, Left
    <2>3. Ordered(x)
      BY RankTable DEF Ordered, Precedes
    <2> HIDE DEF x
    <2> QED
      BY <1>7, <1>12, <2>1, <2>2, <2>3 DEF PackageRoutes
  <1>13. CASE r = "worker"
    <2> DEFINE x == <<"worker", "workerconfig", "deliver">>
    <2>1. H = x
      BY <1>13 DEF Handler, HandleWorker
    <2>2. x \in Seq(Stages) /\ ~Left(x, "prebuilt")
      BY DEF Stages, Left
    <2>3. Ordered(x)
      BY RankTable DEF Ordered, Precedes
    <2> HIDE DEF x
    <2> QED
      BY <1>7, <1>13, <2>1, <2>2, <2>3 DEF PackageRoutes
  <1> QED
    BY <1>2, <1>3, <1>4, <1>5, <1>6, <1>8, <1>9, <1>10, <1>11, <1>12, <1>13 DEF Routes

-----------------------------------------------------------------------------
(* What is done and what is left of a request q with the stages s, the      *)
(* package p, the container c and the package t that was tested; w is the   *)
(* signer it asked for, and h says that its script hides failures.          *)
Packaged(q) == q.route \in PackageRoutes
UsesContext(q) == q.route \in {"container", "sysext"} /\ q.distro # "windows"
CtrStage(q) == IF q.distro # "windows" THEN "container" ELSE "winimage"

(* The signer of a package that is not signed.                              *)
Unsigned == ""

(* p has the fields of a package, and no more is said of them.              *)
IsPkg(p) == p \in [origin : {p.origin}, signer : {p.signer}, arts : {p.arts},
                     build : {p.build}, ext : {p.ext}]

(* The stages left of the request, as far as the promise is concerned.      *)
WhatsLeft(q, s) ==
    /\ s \in Seq(Stages) /\ Ordered(s)
    /\ Packaged(q) => Phase(s, "build") /\ Phase(s, "sign")
    /\ UsesContext(q) => Phase(s, "prebuilt")
    /\ Left(s, "prebuilt") => UsesContext(q)
    /\ Packaged(q) /\ q.distro # "windows" => Phase(s, "tests")
    /\ q.route = "container" => Phase(s, CtrStage(q))

(* getPrebuiltPackage: the package of the target goes before the generic    *)
(* one, which is not looked for when the first lookup finds one or fails.   *)
Failed(q) == "target" \in q.ctxErr \/ ("target" \notin q.ctxPkgs /\ "generic" \in q.ctxErr)
Sought(q) == IF "target" \in q.ctxPkgs THEN "target"
             ELSE IF "generic" \in q.ctxPkgs THEN "generic" ELSE "build"

(* What is known of the package when a phase is over.                       *)
WhatsDone(q, s, p, c, t, w, h) ==
    /\ IsPkg(p)
    /\ p.origin = "build" /\ p.build.ok => p.build.complete \/ h
    /\ Packaged(q) /\ ~Left(s, "build") =>
         /\ p.origin \in {"build", "target", "generic"}
         /\ Left(s, "sign") => p.origin = "build" /\ p.signer = Unsigned
         /\ ~Left(s, "sign") /\ p.origin = "build" => p.signer = w
    /\ UsesContext(q) /\ ~Failed(q) =>
         IF Sought(q) = "build" THEN p.origin \notin {"target", "generic"}
         ELSE Left(s, "prebuilt") \/ (~Left(s, "build") /\ ~Left(s, "sign") /\ p.origin = Sought(q))
    /\ Packaged(q) /\ q.distro # "windows" /\ q.tests # "none" /\ ~Left(s, "tests") =>
         q.tests = "pass" /\ t = p
    /\ q.route = "container" /\ ~Left(s, CtrStage(q)) /\ c.ok => p.build.ok

(* The inductive part of the invariant of a request that runs.              *)
Running(q, s, p, c, t, w, h) == WhatsLeft(q, s) /\ WhatsDone(q, s, p, c, t, w, h)

(* It holds of a request that has all of its handler before it.             *)
LEMMA Begin ==
    ASSUME NEW q, NEW s, NEW p, NEW c, NEW t, NEW w, NEW h, Planned(q.distro, q.route, s),
           IsPkg(p), p.origin \notin {"build", "target", "generic"}
    PROVE  Running(q, s, p, c, t, w, h)
  <1>1. WhatsLeft(q, s)
    BY DEF Planned, WhatsLeft, Phase, Packaged, UsesContext, CtrStage
  <1>2. WhatsDone(q, s, p, c, t, w, h)
    BY DEF Planned, WhatsDone, Packaged, UsesContext, CtrStage
  <1> QED
    BY <1>1, <1>2 DEF Running

(* Going on with a later stage of the handler keeps WhatsLeft.              *)
LEMMA LeftKept ==
    ASSUME NEW q, NEW s, WhatsLeft(q, s), NEW k \in 1..(Len(s) + 1), NEW r,
           r = SubSeq(s, k, Len(s))
    PROVE  WhatsLeft(q, r)
  <1>1. RestOf(s, k, r)
    BY Rest, Zenon DEF WhatsLeft
  <1>2. /\ r \in Seq(Stages) /\ Ordered(r)
        /\ \A st : Left(r, st) <=> \E j \in DOMAIN s : j >= k /\ s[j] = st
        /\ \A st : Phase(s, st) => Phase(r, st)
    BY <1>1 DEF RestOf
  <1>3. \A st : Left(r, st) => Left(s, st)
    BY <1>2 DEF Left
  <1> QED
    BY <1>2, <1>3 DEF WhatsLeft

(* At the first stage left: what is over, what is to come, and what the next*)
(* stage finds.                                                             *)
Turned(q, s) ==
    /\ Left(s, Head(s)) /\ Head(s) \in Stages
    /\ \A st : Rank(st) < Rank(Head(s)) => ~Left(s, st)
    /\ \A st : Phase(s, st) /\ Rank(Head(s)) < Rank(st) => Left(s, st)
    /\ WhatsLeft(q, Tail(s))
    /\ \A st : st # Head(s) => (Left(Tail(s), st) <=> Left(s, st))
    /\ Rank(Head(s)) \in {1, 3, 4, 7, 8} => ~Left(Tail(s), Head(s))

(* That is so of every request that has a stage left.                       *)
LEMMA Turn ==
    ASSUME NEW q, NEW s, WhatsLeft(q, s), s # <<>>
    PROVE  Turned(q, s)
  <1>t. s \in Seq(Stages) /\ Ordered(s)
    BY DEF WhatsLeft
  <1>1. /\ Left(s, Head(s)) /\ Head(s) \in Stages
        /\ \A st : Rank(st) < Rank(Head(s)) => ~Left(s, st)
        /\ \A st : Phase(s, st) /\ Rank(Head(s)) < Rank(st) => Left(s, st)
    BY <1>t, Heads, Zenon
  <1>2. /\ \A st : st # Head(s) => (Left(Tail(s), st) <=> Left(s, st))
        /\ Rank(Head(s)) \in {1, 3, 4, 7, 8} => ~Left(Tail(s), Head(s))
    BY <1>t, Popped, Zenon
  <1>3. 2 \in 1..(Len(s) + 1) /\ Tail(s) = SubSeq(s, 2, Len(s))
    BY <1>t
  <1>4. WhatsLeft(q, Tail(s))
    BY <1>3, LeftKept, Zenon
  <1> QED
    BY <1>1, <1>2, <1>4 DEF Turned

(* The phases that matter to what is delivered.                             *)
LEMMA Ranks ==
    ASSUME NEW q
    PROVE  /\ Rank("prebuilt") = 1 /\ Rank("build") = 3 /\ Rank("sign") = 4 /\ Rank("tests") = 7
           /\ Rank("deliver") = 8 /\ Rank("extract") = 5 /\ Rank(CtrStage(q)) = 6
           /\ Rank("srcpkg") = 2 /\ Rank("downloads") = 2 /\ Rank("sources") = 2
           /\ CtrStage(q) \in {"container", "winimage"}
  BY DEF Rank, CtrStage

-----------------------------------------------------------------------------
(* One lemma per kind of stage: what it keeps of Running.                   *)
(* A stage that makes nothing of what is delivered.                         *)
LEMMA QuietStage ==
    ASSUME NEW q, NEW s, NEW p, NEW c, NEW t, NEW w, NEW h, Running(q, s, p, c, t, w, h),
           s # <<>>,
           Head(s) \notin {"prebuilt", "build", "sign", "container", "winimage", "tests"}
    PROVE  Running(q, Tail(s), p, c, t, w, h)
  BY Turn, Ranks, ZenonT(40) DEF Running, Turned, WhatsDone

(* A stage before the build that makes sources or downloads.                *)
LEMMA EarlyStage ==
    ASSUME NEW q, NEW s, NEW p, NEW c, NEW t, NEW w, NEW h, Running(q, s, p, c, t, w, h),
           s # <<>>,
           Head(s) \in {"srcpkg", "downloads", "sources"},
           NEW p2, IsPkg(p2), p2.origin \notin {"build", "target", "generic"}
    PROVE  Running(q, Tail(s), p2, c, t, w, h)
  <1>1. Turned(q, s) /\ WhatsLeft(q, s) /\ WhatsDone(q, s, p, c, t, w, h)
    BY Turn DEF Running
  <1>2. Packaged(q) => Left(s, "build") /\ Left(s, "sign") /\ Left(Tail(s), "build")
        /\ Left(Tail(s), "sign")
    BY <1>1, Ranks DEF Turned, WhatsLeft
  <1>3. Packaged(q) /\ q.distro # "windows" => Left(Tail(s), "tests")
    BY <1>1, Ranks DEF Turned, WhatsLeft
  <1>4. q.route = "container" => Left(Tail(s), CtrStage(q))
    BY <1>1, Ranks DEF Turned, WhatsLeft
  <1>5. Left(Tail(s), "prebuilt") <=> Left(s, "prebuilt")
    BY <1>1 DEF Turned
  <1>6. UsesContext(q) => Packaged(q)
    BY DEF UsesContext, Packaged, PackageRoutes
  <1> QED
    BY <1>1, <1>2, <1>3, <1>4, <1>5, <1>6 DEF Running, WhatsDone, Turned

(* The build makes an unsigned package, complete if it can be solved.       *)
LEMMA BuildStage ==
    ASSUME NEW q, NEW s, NEW p, NEW c, NEW t, NEW w, NEW h, Running(q, s, p, c, t, w, h),
           s # <<>>,
           Head(s) = "build", NEW p2, IsPkg(p2), p2.origin = "build", p2.signer = Unsigned,
           p2.build.ok => p2.build.complete \/ h
    PROVE  Running(q, Tail(s), p2, c, t, w, h)
  <1>1. Turned(q, s) /\ WhatsLeft(q, s) /\ WhatsDone(q, s, p, c, t, w, h)
    BY Turn DEF Running
  <1>r. Left(s, "build") /\ \A st : Rank(st) < 3 => ~Left(s, st)
    BY <1>1, Ranks DEF Turned
  <1>a. \A st : Phase(s, st) /\ 3 < Rank(st) => Left(s, st)
    BY <1>1, Ranks DEF Turned
  <1>b. /\ \A st : st # "build" => (Left(Tail(s), st) <=> Left(s, st))
        /\ ~Left(Tail(s), "build")
    BY <1>1, Ranks DEF Turned
  <1>k. Rank("build") = 3 /\ Rank("sign") = 4 /\ Rank("tests") = 7 /\ Rank(CtrStage(q)) = 6
        /\ CtrStage(q) # "build"
    BY Ranks
  <1>2. Packaged(q) => Left(Tail(s), "sign")
    BY <1>1, <1>r, <1>a, <1>b, <1>k DEF WhatsLeft
  <1>3. Packaged(q) /\ q.distro # "windows" => Left(Tail(s), "tests")
    BY <1>1, <1>a, <1>b, <1>k DEF WhatsLeft
  <1>4. q.route = "container" => Left(Tail(s), CtrStage(q))
    BY <1>1, <1>a, <1>b, <1>k DEF WhatsLeft
  <1>5. Left(Tail(s), "prebuilt") <=> Left(s, "prebuilt")
    BY <1>1 DEF Turned
  <1> QED
    BY <1>1, <1>r, <1>b, <1>2, <1>3, <1>4, <1>5 DEF Running, WhatsDone, Turned

(* Sign gives the package the signer that the request and the spec ask for  *)
(* (MaybeSign, GetSigner), or ends the request.                             *)
LEMMA SignStage ==
    ASSUME NEW q, NEW s, NEW p, NEW c, NEW t, NEW w, NEW h, Running(q, s, p, c, t, w, h),
           s # <<>>,
           Head(s) = "sign", NEW p2, IsPkg(p2), p2.origin = p.origin, p2.build = p.build,
           p.signer = Unsigned => p2.signer = w
    PROVE  Running(q, Tail(s), p2, c, t, w, h)
  <1>1. Turned(q, s) /\ WhatsLeft(q, s) /\ WhatsDone(q, s, p, c, t, w, h)
    BY Turn DEF Running
  <1>r. Left(s, "sign") /\ \A st : Rank(st) < 4 => ~Left(s, st)
    BY <1>1, Ranks DEF Turned
  <1>a. \A st : Phase(s, st) /\ 4 < Rank(st) => Left(s, st)
    BY <1>1, Ranks DEF Turned
  <1>b. /\ \A st : st # "sign" => (Left(Tail(s), st) <=> Left(s, st))
        /\ ~Left(Tail(s), "sign")
    BY <1>1, Ranks DEF Turned
  <1>k. Rank("build") = 3 /\ Rank("sign") = 4 /\ Rank("tests") = 7 /\ Rank(CtrStage(q)) = 6
        /\ CtrStage(q) # "sign"
    BY Ranks
  <1>2. ~Left(s, "build") /\ ~Left(Tail(s), "build")
    BY <1>1, <1>r, <1>a, <1>b, <1>k DEF WhatsLeft
  <1>3. Packaged(q) /\ q.distro # "windows" => Left(Tail(s), "tests")
    BY <1>1, <1>a, <1>b, <1>k DEF WhatsLeft
  <1>4. q.route = "container" => Left(Tail(s), CtrStage(q))
    BY <1>1, <1>a, <1>b, <1>k DEF WhatsLeft
  <1>5. Left(Tail(s), "prebuilt") <=> Left(s, "prebuilt")
    BY <1>1 DEF Turned
  <1> QED
    BY <1>1, <1>r, <1>b, <1>2, <1>3, <1>4, <1>5 DEF Running, WhatsDone, Turned

(* A system extension is made of the package as it is.                      *)
LEMMA ExtractStage ==
    ASSUME NEW q, NEW s, NEW p, NEW c, NEW t, NEW w, NEW h, Running(q, s, p, c, t, w, h),
           s # <<>>,
           Head(s) = "extract", NEW p2, IsPkg(p2), p2.origin = p.origin, p2.build = p.build,
           p2.signer = p.signer
    PROVE  Running(q, Tail(s), p2, c, t, w, h)
  <1>1. Turned(q, s) /\ WhatsLeft(q, s) /\ WhatsDone(q, s, p, c, t, w, h)
    BY Turn DEF Running
  <1>2. /\ Left(Tail(s), "prebuilt") <=> Left(s, "prebuilt")
        /\ Left(Tail(s), "build") <=> Left(s, "build")
        /\ Left(Tail(s), "sign") <=> Left(s, "sign")
        /\ Left(Tail(s), CtrStage(q)) <=> Left(s, CtrStage(q))
    BY <1>1, Ranks DEF Turned
  <1>3. Packaged(q) /\ q.distro # "windows" => Left(Tail(s), "tests")
    BY <1>1, Ranks DEF Turned, WhatsLeft
  <1> QED
    BY <1>1, <1>2, <1>3 DEF Running, WhatsDone, Turned

(* A container that can be solved has a package that can.                   *)
LEMMA ContainerStage ==
    ASSUME NEW q, NEW s, NEW p, NEW c, NEW t, NEW w, NEW h, Running(q, s, p, c, t, w, h),
           s # <<>>,
           Head(s) \in {"container", "winimage"}, NEW c2, c2.ok => p.build.ok
    PROVE  Running(q, Tail(s), p, c2, t, w, h)
  BY Turn DEF Running, Turned, WhatsDone

(* RunTests goes on only with the package that passed.                      *)
LEMMA TestStage ==
    ASSUME NEW q, NEW s, NEW p, NEW c, NEW t, NEW w, NEW h, Running(q, s, p, c, t, w, h),
           s # <<>>,
           Head(s) = "tests", NEW t2, q.tests # "none" => q.tests = "pass" /\ t2 = p
    PROVE  Running(q, Tail(s), p, c, t2, w, h)
  BY Turn, Ranks, ZenonT(40) DEF Running, Turned, WhatsDone

(* Where the sign stage is, and that the build is before it and the tests   *)
(* behind.                                                                  *)
LEMMA SignIsNext ==
    ASSUME NEW q, NEW s, WhatsLeft(q, s), Left(s, "sign")
    PROVE  \E k \in DOMAIN s :
             /\ {i \in 1..Len(s) : s[i] = "sign"} = {k}
             /\ \A j \in DOMAIN s : j >= k + 1 <=> Rank(s[j]) > 4
  <1>1. PICK k \in DOMAIN s : s[k] = "sign"
    BY DEF Left
  <1>2. s \in Seq(Stages) /\ Ordered(s) /\ DOMAIN s = 1..Len(s) /\ Len(s) \in Nat
    BY DEF WhatsLeft
  <1>3. Rank("sign") = 4
    BY DEF Rank
  <1>4. \A j \in DOMAIN s : k < j => Rank(s[j]) > 4
    BY <1>1, <1>2, <1>3, RankType DEF Ordered, Precedes
  <1>5. \A j \in DOMAIN s : j < k => Rank(s[j]) < 4
    BY <1>1, <1>2, <1>3, RankType DEF Ordered, Precedes
  <1>6. {i \in 1..Len(s) : s[i] = "sign"} = {k}
    BY <1>1, <1>2, <1>3, <1>4, <1>5
  <1>7. \A j \in DOMAIN s : j >= k + 1 <=> k < j
    BY <1>2
  <1>8. \A j \in DOMAIN s : ~(k < j) => Rank(s[j]) <= 4
    BY <1>1, <1>2, <1>3, <1>5, RankType
  <1>9. \A j \in DOMAIN s : j >= k + 1 <=> Rank(s[j]) > 4
    BY <1>4, <1>7, <1>8, RankType
  <1> QED
    BY <1>6, <1>9

(* getPrebuiltPackage finds nothing, so the handler goes on to the build.   *)
LEMMA NotFound ==
    ASSUME NEW q, NEW s, NEW p, NEW c, NEW t, NEW w, NEW h, Running(q, s, p, c, t, w, h),
           s # <<>>,
           Head(s) = "prebuilt", Failed(q) \/ Sought(q) = "build"
    PROVE  Running(q, Tail(s), p, c, t, w, h)
  BY Turn, Ranks DEF Running, Turned, WhatsDone

(* A package of the client's contexts takes the place of build and sign: the*)
(* handler goes on behind its only sign stage.                              *)
LEMMA Found ==
    ASSUME NEW q, NEW s, NEW p, NEW c, NEW t, NEW w, NEW h, Running(q, s, p, c, t, w, h),
           s # <<>>,
           Head(s) = "prebuilt"
    PROVE  \E k \in 1..Len(s) :
             /\ {i \in 1..Len(s) : s[i] = "sign"} = {k}
             /\ \A p2 : /\ IsPkg(p2) /\ p2.origin \in {"target", "generic"}
                        /\ ~Failed(q) => p2.origin = Sought(q)
                        => Running(q, SubSeq(s, k + 1, Len(s)), p2, c, t, w, h)
  <1>1. Turned(q, s) /\ WhatsLeft(q, s) /\ WhatsDone(q, s, p, c, t, w, h)
    BY Turn DEF Running
  <1>2. UsesContext(q) /\ Packaged(q) /\ q.distro # "windows"
    BY <1>1 DEF Turned, WhatsLeft, UsesContext, Packaged, PackageRoutes
  <1>3. Left(s, "sign") /\ Left(s, "tests") /\ (q.route = "container" => Left(s, CtrStage(q)))
    BY <1>1, <1>2, Ranks DEF Turned, WhatsLeft
  <1>4. PICK k \in DOMAIN s : /\ {i \in 1..Len(s) : s[i] = "sign"} = {k}
                              /\ \A j \in DOMAIN s : j >= k + 1 <=> Rank(s[j]) > 4
    BY <1>1, <1>3, SignIsNext
  <1>5. s \in Seq(Stages) /\ Ordered(s) /\ k \in 1..Len(s) /\ k + 1 \in 1..(Len(s) + 1)
    BY <1>1, <1>4 DEF WhatsLeft
  <1> DEFINE r == SubSeq(s, k + 1, Len(s))
  <1>6. RestOf(s, k + 1, r)
    BY <1>5, Rest, Zenon
  <1>7. WhatsLeft(q, r)
    BY <1>1, <1>5, LeftKept, Zenon
  <1> HIDE DEF r
  <1>8. \A st : Left(r, st) <=> \E j \in DOMAIN s : j >= k + 1 /\ s[j] = st
    BY <1>6 DEF RestOf
  <1>9. \A st : Left(r, st) <=> Rank(st) > 4 /\ Left(s, st)
    BY <1>4, <1>8 DEF Left
  <1>10. /\ ~Left(r, "build") /\ ~Left(r, "sign") /\ Left(r, "tests")
         /\ q.route = "container" => Left(r, CtrStage(q))
    BY <1>3, <1>9, Ranks
  <1>11. ASSUME NEW p2, IsPkg(p2), p2.origin \in {"target", "generic"}, ~Failed(q)
                => p2.origin = Sought(q)
         PROVE  Running(q, r, p2, c, t, w, h)
    BY <1>7, <1>10, <1>11 DEF Running, WhatsDone
  <1> QED
    BY <1>4, <1>5, <1>11 DEF r

(* What SuccessIsReal promises of the package of a request.                 *)
Promised(q, p, t, w, h) ==
    /\ UsesContext(q) /\ ~Failed(q) => p.origin = Sought(q)
    /\ p.origin = "build" => p.signer = w /\ (p.build.complete \/ h)
    /\ p.origin \in {"target", "generic", "build"} /\ p.build.ok
    /\ q.distro # "windows" /\ q.tests # "none" => q.tests = "pass" /\ t = p

(* Nothing is left when the handler delivers, so that all of WhatsDone      *)
(* holds.                                                                   *)
LEMMA DeliverStage ==
    ASSUME NEW q, NEW s, NEW p, NEW c, NEW t, NEW w, NEW h, Running(q, s, p, c, t, w, h),
           s # <<>>,
           Head(s) = "deliver", Packaged(q), IF q.route = "container" THEN c.ok ELSE p.build.ok
    PROVE  Promised(q, p, t, w, h)
  <1>1. Turned(q, s) /\ WhatsDone(q, s, p, c, t, w, h)
    BY Turn DEF Running
  <1>2. /\ ~Left(s, "prebuilt") /\ ~Left(s, "build") /\ ~Left(s, "sign") /\ ~Left(s, "tests")
        /\ ~Left(s, CtrStage(q))
    BY <1>1, Ranks DEF Turned
  <1> QED
    BY <1>1, <1>2 DEF WhatsDone, Promised

(* A script that ends well, none of whose other lines failed, succeeded.    *)
LEMMA AllLines ==
    ASSUME NEW s \in Seq(BOOLEAN), s = <<>> \/ s[Len(s)],
           FALSE \notin {SubSeq(s, 1, Len(s) - 1)[i] : i \in DOMAIN SubSeq(s, 1, Len(s) - 1)}
    PROVE  \A j \in DOMAIN s : s[j]
  <1> SUFFICES ASSUME NEW j \in DOMAIN s, ~s[j] PROVE FALSE
    OBVIOUS
  <1>1. s # <<>> /\ Len(s) \in Nat /\ j \in 1..Len(s) /\ s[j] = FALSE
    OBVIOUS
  <1>2. j # Len(s)
    BY <1>1
  <1>3. j \in 1..(Len(s) - 1) /\ Len(s) - 1 \in Nat
    BY <1>1, <1>2
  <1>4. j \in DOMAIN SubSeq(s, 1, Len(s) - 1) /\ SubSeq(s, 1, Len(s) - 1)[j] = s[j]
    BY <1>1, <1>3
  <1> QED
    BY <1>1, <1>4

(* What is left after a stage is a suffix of the handler, whether the stage *)
(* returns, goes on, or skips others.                                       *)
LEMMA RestMoves ==
    ASSUME NEW all \in Seq(Stages), NEW s, NEW t, Suffix(all, s),
           \/ t = s \/ t = <<>> \/ (s # <<>> /\ t = Tail(s))
           \/ \E k \in 1..(Len(s) + 1) : t = SubSeq(s, k, Len(s))
    PROVE  Suffix(all, t)
  <1>1. s \in Seq(Stages)
    BY SubSeqProperties DEF Suffix
  <1>2. CASE t = <<>>
    <2>1. Len(s) + 1 \in 1..(Len(s) + 1) /\ t = SubSeq(s, Len(s) + 1, Len(s))
      BY <1>1, <1>2
    <2> QED
      BY <2>1, RestOfRest
  <1>3. CASE s # <<>> /\ t = Tail(s)
    <2>1. 2 \in 1..(Len(s) + 1) /\ t = SubSeq(s, 2, Len(s))
      BY <1>1, <1>3
    <2> QED
      BY <2>1, RestOfRest
  <1> QED
    BY <1>2, <1>3, RestOfRest

(* So are all of its stages.                                                *)
LEMMA WholeIsSuffix ==
    ASSUME NEW all \in Seq(Stages)
    PROVE  Suffix(all, all)
  <1>1. 1 \in 1..(Len(all) + 1)
    BY LenProperties
  <1>2. Len(all) - 1 + 1 = Len(all) /\ \A i \in 1..Len(all) : 1 + i - 1 = i
    BY LenProperties
  <1>3. Cut(all, 1, all)
    BY <1>2 DEF Cut
  <1> QED
    BY <1>1, <1>3, SubSeqCuts, CutsEqual DEF Suffix

(* The stages behind the k-th.                                              *)
LEMMA RunLength ==
    ASSUME NEW q, NEW s, NEW p, NEW c, NEW t, NEW w, NEW h, Running(q, s, p, c, t, w, h),
           NEW k \in 1..Len(s)
    PROVE  k + 1 \in 1..(Len(s) + 1)
  <1>1. Len(s) \in Nat
    BY DEF Running, WhatsLeft
  <1> QED
    BY <1>1

=============================================================================
