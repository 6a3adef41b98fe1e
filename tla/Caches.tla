------------------------------- MODULE Caches -------------------------------
(***************************************************************************)
(* The persistent caches that builds mount: their keys and sharing modes.    *)
(* BuildKit knows such a cache by its key alone.  A key is joined from       *)
(* strings with "-", and the strings may have a "-" in them; so a string is  *)
(* represented by its parts, the sequence of what lies between them, and     *)
(* joining is concatenation.                                                *)
(*                                                                         *)
(* A cache of a spec is [kind, key, dest, sharing, noNamespace, scope,       *)
(* disabled]; each kind uses some of these.                                 *)
(***************************************************************************)
EXTENDS Sequences

CONSTANT Dashed   \* the parts of each string that has a "-" in it

ASSUME DashedAssumption == \A s \in DOMAIN Dashed : Dashed[s] \in Seq(STRING) /\ Dashed[s] # <<>>

Parts(s) == IF s \in DOMAIN Dashed THEN Dashed[s] ELSE <<s>>

-----------------------------------------------------------------------------
(* The caches of a spec.                                                    *)

DefaultPlatform == "linux/amd64"

PlatformOf(p) == IF p = "" THEN DefaultPlatform ELSE p

(* Mutant: the platform is left out of the key.                             *)
WithoutPlatform(distroKey, p, name) == Parts(distroKey) \o Parts(name)

Namespaced(distroKey, p, name) == Parts(distroKey) \o Parts(PlatformOf(p)) \o Parts(name)

Scoped(key, scope) == IF scope = "" THEN key ELSE key \o Parts(scope)

(* Without a key of its own a directory is known by its destination.        *)
CacheDirKey(c, distroKey, p) ==
    LET key == IF c.key = "" THEN c.dest ELSE c.key
    IN  IF c.noNamespace THEN Parts(key) ELSE Namespaced(distroKey, p, key)

CacheDirSharing(c) == IF c.sharing = "" THEN "shared" ELSE c.sharing

GoBuildKey(c, distroKey, p) == Scoped(Namespaced(distroKey, p, "dalec-gobuildcache"), c.scope)

SCCacheKey(c, distroKey, p) == Scoped(Namespaced(distroKey, p, "dalec-rustsccache"), c.scope)

BazelKey(c, distroKey, p) == Scoped(Namespaced(distroKey, p, "dalec-bazelcache"), c.scope)

CacheKey(c, distroKey, p) ==
    CASE c.kind = "dir"     -> CacheDirKey(c, distroKey, p)
      [] c.kind = "gobuild" -> GoBuildKey(c, distroKey, p)
      [] c.kind = "sccache" -> SCCacheKey(c, distroKey, p)
      [] c.kind = "bazel"   -> BazelKey(c, distroKey, p)

CacheSharing(c) == IF c.kind = "dir" THEN CacheDirSharing(c) ELSE "shared"

(* Only a directory can opt out of the names that keep builds apart.        *)
OptsOut(c) == c.kind = "dir" /\ c.noNamespace

(* A go build cache can be switched off.                                    *)
Mounts(c) == c.kind = "gobuild" => ~c.disabled

AutoGocache == [kind |-> "gobuild", key |-> "", dest |-> "", sharing |-> "", noNamespace |-> FALSE,
                scope |-> "", disabled |-> FALSE]

-----------------------------------------------------------------------------
(* The caches of package managers and of the Go module proxy.               *)

(* tdnf's or dnf's, which a distro may want apart by platform.              *)
PackageCacheKey(name, addPlatform, p) ==
    IF addPlatform THEN Parts(name) \o Parts(PlatformOf(p)) ELSE Parts(name)

(* apt's two directories.                                                   *)
AptCacheNames(prefix) == {prefix \o "dalec-var-cache-apt", prefix \o "dalec-var-lib-apt"}

GomodCache == "dalec-gomod-proxy-cache"

-----------------------------------------------------------------------------
(* What the configs of the distros and BuildKit see to, for a set of        *)
(* platforms and a set of distros [release, key, packages]: a platform has  *)
(* no "-" and is no part of the name of a distro or of a cache, and no two   *)
(* distros, and no two uses, have a name in common.                         *)
NamesApart(platforms, distros) ==
    /\ \A p \in platforms : Parts(p) = <<p>>
    /\ \A n \in {GomodCache} \cup UNION {{d.key} \cup d.packages : d \in distros} :
           \A i \in DOMAIN Parts(n) : Parts(n)[i] \notin platforms
    /\ \A d, e \in distros :
           /\ Parts(d.key) = Parts(e.key) => d.release = e.release
           /\ \A n \in d.packages : \A k \in e.packages : Parts(n) = Parts(k) => d.release = e.release
    /\ \A d \in distros : \A n \in d.packages : Parts(n) # Parts(GomodCache)

=============================================================================
