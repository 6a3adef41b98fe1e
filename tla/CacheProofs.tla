----------------------------- MODULE CacheProofs -----------------------------
(***************************************************************************)
(* The keys of persistent caches: what the joined string tells of the       *)
(* distro, the platform and the use it was made for.  All of it is about     *)
(* constant operators: DistroBuildProofs applies it to the mounts of         *)
(* DistroBuild.                                                             *)
(***************************************************************************)
EXTENDS Caches, Integers, SequenceTheorems, TLAPS

-----------------------------------------------------------------------------
(* Keys.  A key that is joined from several names can be taken apart again, *)
(* because the first of its parts that is a platform is the platform.       *)

(* A sequence, of whatever.                                                 *)
IsList(s) == \E S : s \in Seq(S)

NoPlatform(ps, s) == \A i \in DOMAIN s : s[i] \notin ps

(* The key begins with the parts of name, and the platform p follows.       *)
StartsWith(ps, key, name, p) ==
    /\ IsList(key) /\ IsList(name) /\ NoPlatform(ps, name) /\ p \in ps
    /\ Len(name) < Len(key)
    /\ \A i \in 1..Len(name) : key[i] = name[i]
    /\ key[Len(name) + 1] = p

(* What concatenation does to sequences of different things.                *)
LEMMA ListsJoined ==
    ASSUME NEW a, IsList(a), NEW b, IsList(b)
    PROVE  /\ IsList(a \o b) /\ Len(a) \in Nat /\ Len(b) \in Nat /\ Len(a \o b) = Len(a) + Len(b)
           /\ DOMAIN a = 1..Len(a)
           /\ \A i \in 1..Len(a) : (a \o b)[i] = a[i]
           /\ \A i \in 1..Len(b) : (a \o b)[Len(a) + i] = b[i]
  <1>1. PICK S : a \in Seq(S)
    BY DEF IsList
  <1>2. PICK T : b \in Seq(T)
    BY DEF IsList
  <1>3. a \in Seq(S \cup T) /\ b \in Seq(S \cup T)
    BY <1>1, <1>2
  <1>4. a \o b \in Seq(S \cup T)
    BY <1>3
  <1>5. IsList(a \o b)
    BY <1>4 DEF IsList
  <1>. QED  BY <1>3, <1>5

(* Every string has parts.                                                  *)
LEMMA PartsAreLists == ASSUME NEW s PROVE IsList(Parts(s)) /\ Len(Parts(s)) \in Nat \ {0}
  <1>1. CASE s \in DOMAIN Dashed
    <2>1. Parts(s) \in Seq(STRING) /\ Parts(s) # <<>>
      BY <1>1, DashedAssumption DEF Parts
    <2>2. Len(Parts(s)) \in Nat \ {0}
      BY <2>1
    <2>. QED  BY <2>1, <2>2 DEF IsList
  <1>2. CASE s \notin DOMAIN Dashed
    <2>1. Parts(s) = <<s>>
      BY <1>2 DEF Parts
    <2>2. PICK l : l = <<s>>
      OBVIOUS
    <2>3. l \in Seq({s}) /\ Len(l) = 1
      BY <2>2
    <2>4. IsList(l)
      BY <2>3 DEF IsList
    <2>5. Len(l) \in Nat \ {0}
      BY <2>3
    <2>. QED  BY <2>1, <2>2, <2>4, <2>5, Zenon
  <1>. QED  BY <1>1, <1>2

(* A key begins in one way only.                                            *)
LEMMA BeginsOnce ==
    ASSUME NEW ps, NEW k, NEW a, NEW p, StartsWith(ps, k, a, p), NEW b, NEW q, StartsWith(ps, k, b, q)
    PROVE  a = b /\ p = q
  <1>1. PICK S : a \in Seq(S)
    BY DEF StartsWith, IsList
  <1>2. PICK T : b \in Seq(T)
    BY DEF StartsWith, IsList
  <1>3. Len(a) \in Nat /\ Len(b) \in Nat /\ DOMAIN a = 1..Len(a) /\ DOMAIN b = 1..Len(b)
    BY <1>1, <1>2
  <1>4. ~(Len(a) < Len(b))
    <2>. SUFFICES ASSUME Len(a) < Len(b) PROVE FALSE
      OBVIOUS
    <2>1. Len(a) + 1 \in 1..Len(b)
      BY <1>3
    <2>2. b[Len(a) + 1] = p /\ p \in ps
      BY <2>1 DEF StartsWith
    <2>. QED  BY <1>3, <2>1, <2>2 DEF StartsWith, NoPlatform
  <1>5. ~(Len(b) < Len(a))
    <2>. SUFFICES ASSUME Len(b) < Len(a) PROVE FALSE
      OBVIOUS
    <2>1. Len(b) + 1 \in 1..Len(a)
      BY <1>3
    <2>2. a[Len(b) + 1] = q /\ q \in ps
      BY <2>1 DEF StartsWith
    <2>. QED  BY <1>3, <2>1, <2>2 DEF StartsWith, NoPlatform
  <1>6. Len(a) = Len(b)
    <2>1. \A x, y \in Nat : ~(x < y) /\ ~(y < x) => x = y
      OBVIOUS
    <2>. QED  BY <1>3, <1>4, <1>5, <2>1, Zenon
  <1>7. \A i \in 1..Len(a) : a[i] = b[i]
    BY <1>6 DEF StartsWith
  <1>8. a \in Seq(S \cup T) /\ b \in Seq(S \cup T)
    BY <1>1, <1>2
  <1>9. a = b
    BY <1>6, <1>7, <1>8
  <1>. QED  BY <1>9 DEF StartsWith

(* Nor is it one with no platform in it.                                    *)
LEMMA BeginsHasPlatform ==
    ASSUME NEW ps, NEW k, NEW a, NEW p, StartsWith(ps, k, a, p)
    PROVE  ~NoPlatform(ps, k)
  <1>1. PICK S : k \in Seq(S)
    BY DEF StartsWith, IsList
  <1>2. PICK T : a \in Seq(T)
    BY DEF StartsWith, IsList
  <1>3. Len(a) + 1 \in DOMAIN k
    BY <1>1, <1>2 DEF StartsWith
  <1>. QED  BY <1>3 DEF StartsWith, NoPlatform

(* A name, a platform, and what may follow them.                            *)
LEMMA JoinedBegins ==
    ASSUME NEW ps, NEW a, IsList(a), NoPlatform(ps, a), NEW p \in ps
    PROVE  /\ StartsWith(ps, a \o <<p>>, a, p) /\ Len(a \o <<p>>) = Len(a) + 1
           /\ \A b : IsList(b) /\ Len(b) # 0 =>
                  StartsWith(ps, (a \o <<p>>) \o b, a, p) /\ Len((a \o <<p>>) \o b) > Len(a) + 1
  <1>1. IsList(<<p>>) /\ Len(<<p>>) = 1 /\ <<p>>[1] = p
    <2>1. <<p>> \in Seq({p})
      OBVIOUS
    <2>. QED  BY <2>1 DEF IsList
  <1>. DEFINE k == a \o <<p>>
  <1>2. /\ IsList(k) /\ Len(a) \in Nat /\ Len(k) = Len(a) + 1
        /\ \A i \in 1..Len(a) : k[i] = a[i]
        /\ k[Len(a) + 1] = p
    BY <1>1, ListsJoined
  <1>. HIDE DEF k
  <1>3. StartsWith(ps, k, a, p)
    BY <1>2 DEF StartsWith
  <1>4. ASSUME NEW b, IsList(b), Len(b) # 0
        PROVE  StartsWith(ps, k \o b, a, p) /\ Len(k \o b) > Len(a) + 1
    <2>1. /\ IsList(k \o b) /\ Len(b) \in Nat /\ Len(k \o b) = Len(k) + Len(b)
          /\ \A i \in 1..Len(k) : (k \o b)[i] = k[i]
      BY <1>2, <1>4, ListsJoined, Zenon
    <2>2. PICK l : l = k \o b
      OBVIOUS
    <2>3. Len(l) > Len(a) + 1 /\ Len(a) < Len(l) /\ l[Len(a) + 1] = p
          /\ \A i \in 1..Len(a) : l[i] = a[i]
      BY <1>2, <1>4, <2>1, <2>2
    <2>. QED  BY <2>1, <2>2, <2>3 DEF StartsWith
  <1>. QED  BY <1>2, <1>3, <1>4 DEF k

(* More at the end of a key does not change how it begins.                  *)
LEMMA BeginsStill ==
    ASSUME NEW ps, NEW k, NEW a, NEW p, StartsWith(ps, k, a, p), NEW b, IsList(b)
    PROVE  StartsWith(ps, k \o b, a, p) /\ Len(k \o b) >= Len(k)
  <1>1. /\ IsList(k \o b) /\ Len(k) \in Nat /\ Len(b) \in Nat /\ Len(k \o b) = Len(k) + Len(b)
        /\ \A i \in 1..Len(k) : (k \o b)[i] = k[i]
    BY ListsJoined DEF StartsWith
  <1>2. IsList(a) /\ Len(a) < Len(k)
    BY DEF StartsWith
  <1>3. Len(a) \in Nat
    BY <1>2, ListsJoined
  <1>4. PICK l : l = k \o b
    OBVIOUS
  <1>5. Len(a) < Len(l) /\ l[Len(a) + 1] = k[Len(a) + 1] /\ \A i \in 1..Len(a) : l[i] = k[i]
    BY <1>1, <1>2, <1>3, <1>4
  <1>. QED  BY <1>1, <1>4, <1>5 DEF StartsWith

-----------------------------------------------------------------------------
(* Mounts.                                                                  *)

(* The key of a mount tells what it was made for, but for the caches that   *)
(* opt out: a cache of a spec goes on after the platform, that of a package *)
(* manager ends with it or has none, and so has the one of Go modules.      *)
OfSpec(ps, m, d) ==
    /\ m.use = "spec" /\ m.scope = "platform"
    /\ StartsWith(ps, m.key, Parts(d.key), m.platform) /\ Len(m.key) > Len(Parts(d.key)) + 1

OfPackages(ps, m, d) ==
    /\ m.use = "packages" /\ m.sharing = "locked"
    /\ \E n \in d.packages :
          \/ m.scope = "distro" /\ m.key = Parts(n)
          \/ /\ m.scope = "platform" /\ Len(m.key) = Len(Parts(n)) + 1
             /\ \E p \in ps : StartsWith(ps, m.key, Parts(n), p) /\ (m.placed => p = m.platform)

OfGomod(m) == m.use = "gomod" /\ m.scope = "all" /\ m.key = Parts(GomodCache)

Marked(ps, ds, m) ==
    \E d \in ds : /\ m.release = d.release
                  /\ m.scope = "open" \/ OfSpec(ps, m, d) \/ OfPackages(ps, m, d) \/ OfGomod(m)

(* No name that a key begins with has a platform in it.                     *)
LEMMA NamesHaveNoPlatform ==
    ASSUME NEW ps, NEW ds, NamesApart(ps, ds)
    PROVE  /\ NoPlatform(ps, Parts(GomodCache))
           /\ \A d \in ds : NoPlatform(ps, Parts(d.key)) /\ \A n \in d.packages : NoPlatform(ps, Parts(n))
  BY DEF NamesApart, NoPlatform

(* The kinds of cache a spec can have (CacheConfig).                        *)
CacheKinds == {"dir", "gobuild", "sccache", "bazel"}

(* Every way to name a cache of a spec puts distro and platform first,      *)
(* unless the cache opts out (CacheDir.ToRunOption and its siblings).       *)
LEMMA CacheKeyBegins ==
    ASSUME NEW ps, NEW ds, NamesApart(ps, ds), NEW d \in ds, NEW p, PlatformOf(p) \in ps,
           NEW c, c.kind \in CacheKinds, ~OptsOut(c)
    PROVE  /\ StartsWith(ps, CacheKey(c, d.key, p), Parts(d.key), PlatformOf(p))
           /\ Len(CacheKey(c, d.key, p)) > Len(Parts(d.key)) + 1
  <1>. DEFINE Good(k) == StartsWith(ps, k, Parts(d.key), PlatformOf(p)) /\ Len(k) > Len(Parts(d.key)) + 1
  <1>1. ASSUME NEW name PROVE Good(Namespaced(d.key, p, name))
    <2>1. Parts(PlatformOf(p)) = <<PlatformOf(p)>>
      BY DEF NamesApart
    <2>2. IsList(Parts(d.key)) /\ NoPlatform(ps, Parts(d.key))
      BY PartsAreLists, NamesHaveNoPlatform
    <2>3. IsList(Parts(name)) /\ Len(Parts(name)) # 0
      BY PartsAreLists
    <2>. QED  BY <2>1, <2>2, <2>3, JoinedBegins, Zenon DEF Namespaced
  <1>2. ASSUME NEW k, Good(k), NEW scope PROVE Good(Scoped(k, scope))
    <2>1. CASE scope = ""
      BY <1>2, <2>1 DEF Scoped
    <2>2. CASE scope # ""
      <3>1. PICK l : l = k \o Parts(scope)
        OBVIOUS
      <3>2. StartsWith(ps, l, Parts(d.key), PlatformOf(p)) /\ Len(l) >= Len(k)
        BY <1>2, <3>1, BeginsStill, PartsAreLists, Zenon
      <3>3. IsList(l) /\ IsList(k) /\ IsList(Parts(d.key))
        BY <1>2, <3>2 DEF StartsWith
      <3>4. Len(l) \in Nat /\ Len(k) \in Nat /\ Len(Parts(d.key)) \in Nat
        BY <3>3, ListsJoined
      <3>5. Len(l) > Len(Parts(d.key)) + 1
        BY <1>2, <3>2, <3>4
      <3>. QED  BY <2>2, <3>1, <3>2, <3>5 DEF Scoped
    <2>. QED  BY <2>1, <2>2
  <1>. HIDE DEF Good
  <1>4. ASSUME c.kind = "dir" PROVE Good(CacheKey(c, d.key, p))
    <2>1. PICK name : CacheKey(c, d.key, p) = Namespaced(d.key, p, name)
      BY <1>4 DEF CacheKey, CacheDirKey, OptsOut
    <2>2. Good(Namespaced(d.key, p, name))
      BY <1>1
    <2>. QED  BY <2>1, <2>2, Zenon
  <1>5. ASSUME c.kind # "dir" PROVE Good(CacheKey(c, d.key, p))
    <2>1. PICK name, scope : CacheKey(c, d.key, p) = Scoped(Namespaced(d.key, p, name), scope)
      BY <1>5 DEF CacheKinds, CacheKey, GoBuildKey, SCCacheKey, BazelKey
    <2>2. Good(Scoped(Namespaced(d.key, p, name), scope))
      BY <1>1, <1>2
    <2>. QED  BY <2>1, <2>2, Zenon
  <1>6. Good(CacheKey(c, d.key, p))
    BY <1>4, <1>5, Zenon
  <1>. QED  BY <1>6 DEF Good

(* A mount of a cache of a spec.                                            *)
LEMMA SpecMountMarked ==
    ASSUME NEW ps, NEW ds, NamesApart(ps, ds), NEW d \in ds, NEW p, PlatformOf(p) \in ps,
           NEW c, c.kind \in CacheKinds,
           NEW m, m.release = d.release, m.use = "spec", m.key = CacheKey(c, d.key, p),
           m.platform = PlatformOf(p), m.scope = (IF OptsOut(c) THEN "open" ELSE "platform")
    PROVE  Marked(ps, ds, m)
  <1>1. CASE OptsOut(c)
    BY <1>1 DEF Marked
  <1>2. CASE ~OptsOut(c)
    <2>1. /\ StartsWith(ps, CacheKey(c, d.key, p), Parts(d.key), PlatformOf(p))
          /\ Len(CacheKey(c, d.key, p)) > Len(Parts(d.key)) + 1
      BY <1>2, CacheKeyBegins, Zenon
    <2>2. OfSpec(ps, m, d)
      BY <1>2, <2>1 DEF OfSpec
    <2>. QED  BY <2>2 DEF Marked
  <1>. QED  BY <1>1, <1>2

(* A mount of a package manager's that is run for platform p, which it is   *)
(* told or not.                                                             *)
LEMMA PackageMountMarked ==
    ASSUME NEW ps, NEW ds, NamesApart(ps, ds), NEW d \in ds, NEW p, PlatformOf(p) \in ps,
           NEW n \in d.packages, NEW add,
           NEW m, m.release = d.release, m.use = "packages", m.sharing = "locked",
           m.key = PackageCacheKey(n, add, p), m.scope = (IF add THEN "platform" ELSE "distro"),
           m.placed => m.platform = PlatformOf(p)
    PROVE  Marked(ps, ds, m)
  <1>1. CASE ~add
    <2>1. OfPackages(ps, m, d)
      BY <1>1 DEF OfPackages, PackageCacheKey
    <2>. QED  BY <2>1 DEF Marked
  <1>2. CASE add
    <2>1. PICK f \in ps : f = PlatformOf(p)
      OBVIOUS
    <2>2. m.key = Parts(n) \o <<f>>
      BY <1>2, <2>1 DEF PackageCacheKey, NamesApart
    <2>3. IsList(Parts(n)) /\ NoPlatform(ps, Parts(n))
      BY PartsAreLists, NamesHaveNoPlatform
    <2>4. StartsWith(ps, m.key, Parts(n), f) /\ Len(m.key) = Len(Parts(n)) + 1
      BY <2>2, <2>3, JoinedBegins, Zenon
    <2>5. m.placed => f = m.platform
      BY <2>1
    <2>6. m.scope = "platform"
      BY <1>2
    <2>7. OfPackages(ps, m, d)
      BY <2>4, <2>5, <2>6 DEF OfPackages
    <2>. QED  BY <2>7 DEF Marked
  <1>. QED  BY <1>1, <1>2

(* The caches of a spec are apart from the others.                          *)
LEMMA SpecApart ==
    ASSUME NEW ps, NEW ds, NamesApart(ps, ds), NEW m, NEW d \in ds, OfSpec(ps, m, d),
           NEW n, NEW e \in ds, m.key = n.key
    PROVE  ~OfPackages(ps, n, e) /\ ~OfGomod(n)
  <1>1. ~NoPlatform(ps, n.key)
    BY BeginsHasPlatform, Zenon DEF OfSpec
  <1>2. ASSUME NEW k \in e.packages PROVE n.key # Parts(k)
    BY <1>1, NamesHaveNoPlatform
  <1>3. ASSUME NEW k \in e.packages, NEW p, StartsWith(ps, n.key, Parts(k), p), Len(n.key) = Len(Parts(k)) + 1
        PROVE  FALSE
    <2>1. Parts(d.key) = Parts(k)
      BY <1>3, BeginsOnce, Zenon DEF OfSpec
    <2>2. Len(Parts(k)) \in Nat
      BY PartsAreLists
    <2>3. \A x \in Nat : ~(x + 1 > x + 1)
      OBVIOUS
    <2>4. Len(Parts(k)) + 1 > Len(Parts(k)) + 1
      BY <1>3, <2>1 DEF OfSpec
    <2>. QED  BY <2>2, <2>3, <2>4
  <1>4. ~OfPackages(ps, n, e)
    BY <1>2, <1>3, Zenon DEF OfPackages
  <1>. QED  BY <1>1, <1>4, NamesHaveNoPlatform DEF OfGomod

(* So are those of package managers from the one of Go modules.             *)
LEMMA PackagesApart ==
    ASSUME NEW ps, NEW ds, NamesApart(ps, ds), NEW m, NEW d \in ds, OfPackages(ps, m, d),
           NEW n, m.key = n.key
    PROVE  ~OfGomod(n)
  <1>1. PICK k \in d.packages : m.key = Parts(k) \/ \E p : StartsWith(ps, m.key, Parts(k), p)
    BY DEF OfPackages
  <1>2. CASE m.key = Parts(k)
    BY <1>2, Zenon DEF OfGomod, NamesApart
  <1>3. ASSUME NEW p, StartsWith(ps, m.key, Parts(k), p) PROVE ~OfGomod(n)
    <2>1. ~NoPlatform(ps, m.key)
      BY <1>3, BeginsHasPlatform, Zenon
    <2>. QED  BY <2>1, NamesHaveNoPlatform DEF OfGomod
  <1>. QED  BY <1>1, <1>2, <1>3

(* Two of package managers with one key are of one distro and platform.     *)
LEMMA PackagesTogether ==
    ASSUME NEW ps, NEW ds, NamesApart(ps, ds), NEW m, NEW d \in ds, OfPackages(ps, m, d),
           NEW n, NEW e \in ds, OfPackages(ps, n, e),
           m.key = n.key
    PROVE  /\ d.release = e.release
           /\ m.scope = "platform" /\ m.placed /\ n.placed => m.platform = n.platform
  <1>. DEFINE Plain(x, k)   == x.scope = "distro" /\ x.key = Parts(k)
              Ended(x, k, p) == x.scope = "platform" /\ StartsWith(ps, x.key, Parts(k), p) /\ (x.placed => p = x.platform)
  <1>1. PICK k \in d.packages : Plain(m, k) \/ \E p : Ended(m, k, p)
    BY DEF OfPackages
  <1>2. PICK l \in e.packages : Plain(n, l) \/ \E p : Ended(n, l, p)
    BY DEF OfPackages
  <1>3. Parts(k) = Parts(l) => d.release = e.release
    BY DEF NamesApart
  <1>4. NoPlatform(ps, Parts(k)) /\ NoPlatform(ps, Parts(l))
    BY NamesHaveNoPlatform
  <1>5. CASE Plain(m, k)
    <2>1. ASSUME NEW p PROVE ~Ended(n, l, p)
      BY <1>4, <1>5, BeginsHasPlatform, Zenon
    <2>. QED  BY <1>2, <1>3, <1>5, <2>1
  <1>6. ASSUME NEW p, Ended(m, k, p) PROVE d.release = e.release /\ (m.placed /\ n.placed => m.platform = n.platform)
    <2>1. ~Plain(n, l)
      BY <1>4, <1>6, BeginsHasPlatform, Zenon
    <2>2. PICK q : Ended(n, l, q)
      BY <1>2, <2>1
    <2>3. Parts(k) = Parts(l) /\ p = q
      BY <1>6, <2>2, BeginsOnce, Zenon
    <2>. QED  BY <1>3, <1>6, <2>2, <2>3
  <1>. QED  BY <1>1, <1>5, <1>6

(* Two marked mounts with one key were made for the same.                   *)
LEMMA MarkedApart ==
    ASSUME NEW ps, NEW ds, NamesApart(ps, ds), NEW m, Marked(ps, ds, m), NEW n, Marked(ps, ds, n),
           m.key = n.key, m.scope # "open", n.scope # "open"
    PROVE  /\ m.use = n.use
           /\ m.use # "gomod" => m.release = n.release
           /\ m.scope = "platform" /\ m.placed /\ n.placed => m.platform = n.platform
           /\ m.use = "packages" => n.sharing = "locked"
  <1>1. PICK d \in ds : m.release = d.release /\ (OfSpec(ps, m, d) \/ OfPackages(ps, m, d) \/ OfGomod(m))
    BY DEF Marked
  <1>2. PICK e \in ds : n.release = e.release /\ (OfSpec(ps, n, e) \/ OfPackages(ps, n, e) \/ OfGomod(n))
    BY DEF Marked
  <1>3. CASE OfSpec(ps, m, d)
    <2>1. OfSpec(ps, n, e)
      BY <1>2, <1>3, SpecApart, Zenon
    <2>2. Parts(d.key) = Parts(e.key) /\ m.platform = n.platform
      <3>1. PICK k : k = m.key /\ k = n.key
        OBVIOUS
      <3>2. StartsWith(ps, k, Parts(d.key), m.platform) /\ StartsWith(ps, k, Parts(e.key), n.platform)
        BY <1>3, <2>1, <3>1 DEF OfSpec
      <3>. QED  BY <3>2, BeginsOnce, Zenon
    <2>3. d.release = e.release
      BY <2>2 DEF NamesApart
    <2>. QED  BY <1>1, <1>2, <1>3, <2>1, <2>2, <2>3 DEF OfSpec
  <1>4. CASE OfPackages(ps, m, d)
    <2>1. OfPackages(ps, n, e)
      BY <1>2, <1>4, SpecApart, PackagesApart, Zenon
    <2>2. d.release = e.release /\ (m.scope = "platform" /\ m.placed /\ n.placed => m.platform = n.platform)
      BY <1>4, <2>1, PackagesTogether
    <2>3. m.use = "packages" /\ n.use = "packages" /\ n.sharing = "locked"
      BY <1>4, <2>1 DEF OfPackages
    <2>. QED  BY <1>1, <1>2, <2>2, <2>3
  <1>5. CASE OfGomod(m)
    <2>1. OfGomod(n)
      BY <1>2, <1>5, SpecApart, PackagesApart, Zenon
    <2>. QED  BY <1>5, <2>1 DEF OfGomod
  <1>. QED  BY <1>1, <1>3, <1>4, <1>5

=============================================================================
