--------------------------- MODULE BuildMuxProofs ---------------------------
(***************************************************************************)
(* Proofs about BuildMux for every tree of muxes, every set of routes,      *)
(* requests and custom frontends: which route lookupTarget picks, that the  *)
(* handlers see the route of the root as "dalec.target", and that an error  *)
(* names the requested target once.                                         *)
(***************************************************************************)
EXTENDS BuildMux, SequenceTheorems, WellFoundedInduction, TLAPS

-----------------------------------------------------------------------------
(* The operators of BuildMux: which route lookupTarget picks, what the      *)
(* frames of the stack are after a step, what is passed on and returned.    *)

(* A set of naturals has a least element: what sorting a list of keys       *)
(* rests on.                                                                *)
LEMMA LeastNatural ==
    ASSUME NEW T, T \subseteq Nat, T # {}
    PROVE  \E x \in T : \A y \in T : x <= y
  <1>1. PICK x \in T : \A y \in T : <<y, x>> \notin OpToRel(<, Nat)
    BY NatLessThanWellFounded, WFMin
  <1>2. \A y \in T : y < x => <<y, x>> \in OpToRel(<, Nat)
    <2>. SUFFICES ASSUME NEW y \in T, y < x PROVE <<y, x>> \in OpToRel(<, Nat)
      OBVIOUS
    <2>1. <<y, x>> \in Nat \X Nat
      OBVIOUS
    <2>. QED  BY <2>1 DEF OpToRel
  <1>3. ASSUME NEW y \in T PROVE x <= y
    <2>1. x \in Nat /\ y \in Nat /\ ~(y < x)
      BY <1>1, <1>2
    <2>. QED  BY <2>1
  <1>. QED  BY <1>3

(* Of a set of keys that are sorted, there is a first.                      *)
LEMMA FirstSortedIsKey ==
    ASSUME NEW keys, keys \subseteq DOMAIN Order, keys # {}
    PROVE  FirstSorted(keys) \in keys
  <1>. DEFINE T == {Order[k] : k \in keys}
  <1>1. T \subseteq Nat /\ T # {}
    BY OrderAssumption
  <1>2. PICK n \in T : \A y \in T : n <= y
    BY <1>1, LeastNatural
  <1>3. \E k \in keys : \A l \in keys : Order[k] <= Order[l]
    BY <1>2
  <1>. QED  BY <1>3 DEF FirstSorted

(* Of two prefixes of a target, the shorter is a prefix of the longer.      *)
LEMMA PrefixesNest ==
    ASSUME NEW t \in Seq(STRING), NEW k \in Seq(STRING), NEW l \in Seq(STRING),
           IsPrefix(k, t), IsPrefix(l, t), Len(k) <= Len(l)
    PROVE  IsPrefix(k, l)
  <1>1. SubSeq(k, 1, Len(k)) = SubSeq(t, 1, Len(k)) /\ SubSeq(l, 1, Len(l)) = SubSeq(t, 1, Len(l))
    BY DEF IsPrefix
  <1>2. \A i \in 1..Len(k) : k[i] = t[i]
    BY <1>1 DEF IsPrefix
  <1>3. \A i \in 1..Len(l) : l[i] = t[i]
    BY <1>1 DEF IsPrefix
  <1>4. \A i \in 1..Len(k) : k[i] = l[i]
    BY <1>2, <1>3
  <1>5. SubSeq(k, 1, Len(k)) = SubSeq(l, 1, Len(k))
    BY <1>4
  <1>. QED  BY <1>5 DEF IsPrefix

(* slices.Sort and the last of the candidates: the longest prefix.          *)
LEMMA LastSortedIsLongest ==
    ASSUME NEW t \in Seq(STRING), NEW keys, keys \subseteq DOMAIN Order, keys # {},
           \A k \in keys : IsPrefix(k, t)
    PROVE  /\ LastSorted(keys) \in keys
           /\ \A k \in keys : IsPrefix(k, LastSorted(keys))
  <1>. DEFINE T == {Len(t) - Len(k) : k \in keys}
  <1>1. \A k \in keys : k \in Seq(STRING) /\ Len(k) <= Len(t)
    BY OrderAssumption DEF IsPrefix
  <1>2. T \subseteq Nat /\ T # {}
    BY <1>1
  <1>3. PICK n \in T : \A y \in T : n <= y
    BY <1>2, LeastNatural
  <1>4. PICK k \in keys : n = Len(t) - Len(k)
    BY <1>3
  <1>5. ASSUME NEW l \in keys PROVE Len(l) <= Len(k)
    <2>1. Len(t) - Len(k) <= Len(t) - Len(l)
      BY <1>3, <1>4
    <2>2. Len(t) \in Nat /\ Len(k) \in Nat /\ Len(l) \in Nat
      BY <1>1
    <2>. QED  BY <2>1, <2>2
  <1>6. \A l \in keys : IsPrefix(l, k)
    BY <1>1, <1>5, PrefixesNest
  <1>7. \A l \in keys : l # k => Order[l] < Order[k]
    BY <1>6, OrderAssumption
  <1>8. ASSUME NEW l \in keys PROVE Order[l] <= Order[k]
    <2>1. Order[l] \in Nat /\ Order[k] \in Nat
      BY OrderAssumption
    <2>. QED  BY <1>7, <2>1
  <1>9. LastSorted(keys) \in keys /\ \A l \in keys : Order[l] <= Order[LastSorted(keys)]
    BY <1>8 DEF LastSorted
  <1>10. LastSorted(keys) = k
    BY <1>7, <1>9, OrderAssumption
  <1>. QED  BY <1>6, <1>10

-----------------------------------------------------------------------------
(* The shape of the state.                                                  *)

IsOpts(o) == o = [target |-> o.target, dalecTarget |-> o.dalecTarget] /\ o.target \in Seq(STRING)

IsResult(r) ==
  r \in [kind : {r.kind}, target : {r.target}, names : {r.names}, context : {r.context}]

Places == {"entered", "wait", "list", Builtin, Custom}

IsFrame(f) ==
  f \in [mux : Muxes, at : Places, t : Seq(STRING), top : BOOLEAN, matched : Seq(STRING),
         check : SUBSET Seq(STRING), ls : {f.ls}]

(* Frames that differ only in where the call is and what it has listed.     *)
Alike(f, g) == f.t = g.t /\ f.top = g.top /\ f.matched = g.matched

IsStack(s) == (\E S : s \in Seq(S)) /\ \A i \in 1..Len(s) : IsFrame(s[i])

Leads(hs) ==
  \A k \in DOMAIN hs : k \in DOMAIN Order /\ hs[k].to \in Muxes \cup {Builtin, Custom}

Shape ==
  /\ req.client \in Requests /\ req.custom \in SpecTargets
  /\ IsOpts(raw) /\ IsOpts(opts) /\ IsResult(ret) /\ IsStack(stack)
  /\ Leads(handlers) /\ DOMAIN Routes[Root] \subseteq DOMAIN handlers

(* A frame stays a frame when one of its fields is assigned.                *)
LEMMA SetAt ==
    ASSUME NEW f, IsFrame(f), NEW a \in Places
    PROVE  LET g == [f EXCEPT !.at = a] IN IsFrame(g) /\ Alike(g, f) /\ g.at = a /\ g.mux = f.mux
  BY DEF IsFrame, Alike

(* The routes that list still has to look up are assigned.                  *)
LEMMA SetCheck ==
    ASSUME NEW f, IsFrame(f), NEW keys \in SUBSET Seq(STRING)
    PROVE  LET g == [f EXCEPT !.check = keys]
           IN  IsFrame(g) /\ Alike(g, f) /\ g.at = f.at /\ g.mux = f.mux
  BY DEF IsFrame, Alike

(* The names that list has found are assigned.                              *)
LEMMA SetLs ==
    ASSUME NEW f, IsFrame(f), NEW names
    PROVE  LET g == [f EXCEPT !.ls = names] IN IsFrame(g) /\ Alike(g, f) /\ g.at = f.at
  BY DEF IsFrame, Alike

(* The matched route is assigned.                                           *)
LEMMA SetMatched ==
    ASSUME NEW f, IsFrame(f), NEW m \in Seq(STRING)
    PROVE  LET g == [f EXCEPT !.matched = m]
           IN  IsFrame(g) /\ g.t = f.t /\ g.top = f.top /\ g.matched = m
  BY DEF IsFrame

(* The stack with its last frame replaced, and with one more pushed.        *)
Replaced(s, f) == [s EXCEPT ![Len(s)] = f]

Pushed(s, f, g) == Append(Front(s), f) \o <<g>>

(* The frames of a stack whose last one is replaced.                        *)
LEMMA SetTopFrames ==
    ASSUME NEW s, IsStack(s), s # <<>>, NEW f, IsFrame(f)
    PROVE  /\ IsStack(Replaced(s, f)) /\ Len(Replaced(s, f)) = Len(s) /\ Replaced(s, f) # <<>>
           /\ Replaced(s, f)[Len(s)] = f
           /\ \A i \in 1..(Len(s) - 1) : Replaced(s, f)[i] = s[i]
  <1>. DEFINE u == [s EXCEPT ![Len(s)] = f]
  <1>1. PICK S : s \in Seq(S)
    BY DEF IsStack
  <1>2. Len(s) \in 1..Len(s)
    BY <1>1
  <1>3. u \in Seq(S \cup {f}) /\ Len(u) = Len(s)
    BY <1>1, <1>2
  <1>4. u[Len(s)] = f /\ \A i \in 1..(Len(s) - 1) : u[i] = s[i]
    BY <1>1, <1>2
  <1>5. \A i \in 1..Len(u) : IsFrame(u[i])
    <2>1. \A i \in 1..Len(s) : i = Len(s) \/ i \in 1..(Len(s) - 1)
      BY <1>2
    <2>2. \A i \in 1..Len(u) : u[i] = f \/ (i \in 1..Len(s) /\ u[i] = s[i])
      BY <1>3, <1>4, <2>1
    <2>. QED  BY <2>2 DEF IsStack
  <1>6. u # <<>>
    BY <1>1, <1>2, <1>3
  <1>. HIDE DEF u
  <1>7. IsStack(u)
    BY <1>3, <1>5 DEF IsStack
  <1>. QED  BY <1>3, <1>4, <1>6, <1>7 DEF Replaced, u

(* The frames of a stack whose last one returned.                           *)
LEMMA PopFrames ==
    ASSUME NEW s, IsStack(s), s # <<>>
    PROVE  /\ IsStack(Front(s)) /\ Len(s) \in Nat \ {0} /\ Len(Front(s)) = Len(s) - 1
           /\ \A i \in 1..(Len(s) - 1) : Front(s)[i] = s[i]
           /\ Len(s) = 1 <=> Front(s) = <<>>
  <1>1. PICK S : s \in Seq(S)
    BY DEF IsStack
  <1>2. Len(s) \in Nat \ {0}
    BY <1>1
  <1>3. Front(s) \in Seq(S) /\ Len(Front(s)) = Len(s) - 1
    <2>1. \A i \in 1..(Len(s) - 1) : s[i] \in S
      BY <1>1, <1>2
    <2>2. Len(s) - 1 \in Nat /\ Len(s) - 1 <= Len(s)
      BY <1>2
    <2>3. SubSeq(s, 1, Len(s) - 1) \in Seq(S)
          /\ Len(SubSeq(s, 1, Len(s) - 1)) = IF 1 <= Len(s) - 1 THEN (Len(s) - 1) - 1 + 1 ELSE 0
      BY <2>1, <2>2, SubSeqProperties
    <2>. DEFINE n == Len(s) - 1
                k == Len(SubSeq(s, 1, n))
    <2>4. n \in Nat /\ k = IF 1 <= n THEN n - 1 + 1 ELSE 0
      BY <2>2, <2>3
    <2>. HIDE DEF n, k
    <2>5. k = n
      BY <2>4
    <2>. QED  BY <2>3, <2>5 DEF Front, n, k
  <1>4. \A i \in 1..(Len(s) - 1) : Front(s)[i] = s[i]
    BY <1>1, <1>2 DEF Front
  <1>5. \A i \in 1..Len(Front(s)) : IsFrame(Front(s)[i])
    BY <1>2, <1>3, <1>4 DEF IsStack
  <1>6. IsStack(Front(s))
    BY <1>3, <1>5 DEF IsStack
  <1>7. Len(s) = 1 <=> Front(s) = <<>>
    <2>. DEFINE p == Front(s)
    <2>1. p \in Seq(S) /\ Len(p) = Len(s) - 1
      BY <1>3
    <2>. HIDE DEF p
    <2>2. p = <<>> <=> Len(p) = 0
      BY <2>1, EmptySeq
    <2>3. p = <<>> <=> Len(s) = 1
      BY <1>2, <2>1, <2>2
    <2>. QED  BY <2>3 DEF p
  <1>. QED  BY <1>2, <1>3, <1>4, <1>6, <1>7

(* The frames of a stack whose last one was replaced and then called        *)
(* another mux.                                                             *)
LEMMA PushFrames ==
    ASSUME NEW s, IsStack(s), s # <<>>, NEW f, IsFrame(f), NEW g, IsFrame(g)
    PROVE  /\ IsStack(Pushed(s, f, g)) /\ Len(Pushed(s, f, g)) = Len(s) + 1
           /\ Pushed(s, f, g) # <<>>
           /\ Pushed(s, f, g)[Len(s)] = f /\ Pushed(s, f, g)[Len(s) + 1] = g
           /\ \A i \in 1..(Len(s) - 1) : Pushed(s, f, g)[i] = s[i]
  <1>. DEFINE p == Front(s)
              w == <<g>>
              u == Pushed(s, f, g)
  <1>1. /\ IsStack(p) /\ Len(s) \in Nat \ {0} /\ Len(p) = Len(s) - 1
        /\ \A i \in 1..(Len(s) - 1) : p[i] = s[i]
    BY PopFrames
  <1>w. w \in Seq({g}) /\ Len(w) = 1 /\ w[1] = g /\ u = Append(p, f) \o w
    BY DEF Pushed
  <1>. HIDE DEF p, w, u
  <1>2. PICK S : p \in Seq(S)
    BY <1>1 DEF IsStack
  <1>3. p \in Seq(S \cup {f, g}) /\ w \in Seq(S \cup {f, g})
    BY <1>2, <1>w
  <1>4. Append(p, f) \in Seq(S \cup {f, g}) /\ Len(Append(p, f)) = Len(s)
        /\ Append(p, f)[Len(s)] = f /\ \A i \in 1..(Len(s) - 1) : Append(p, f)[i] = p[i]
    BY <1>1, <1>3
  <1>5. u \in Seq(S \cup {f, g}) /\ Len(u) = Len(s) + 1 /\ u[Len(s) + 1] = g
        /\ \A i \in 1..Len(s) : u[i] = Append(p, f)[i]
    <2>. DEFINE q == Append(p, f)
                T == S \cup {f, g}
    <2>1. q \in Seq(T) /\ w \in Seq(T) /\ Len(q) = Len(s) /\ Len(s) \in Nat /\ u = q \o w
      BY <1>1, <1>3, <1>4, <1>w
    <2>. HIDE DEF q, T
    <2>2. /\ q \o w \in Seq(T) /\ Len(q \o w) = Len(q) + Len(w)
          /\ \A i \in 1..(Len(q) + Len(w)) : (q \o w)[i] = IF i <= Len(q) THEN q[i] ELSE w[i - Len(q)]
      BY <2>1, ConcatProperties
    <2>3. /\ u \in Seq(T) /\ Len(u) = Len(s) + 1
          /\ \A i \in 1..(Len(s) + 1) : u[i] = IF i <= Len(s) THEN q[i] ELSE w[i - Len(s)]
      BY <1>w, <2>1, <2>2
    <2>4. Len(s) + 1 \in 1..(Len(s) + 1) /\ ~(Len(s) + 1 <= Len(s)) /\ Len(s) + 1 - Len(s) = 1
          /\ \A i \in 1..Len(s) : i \in 1..(Len(s) + 1) /\ i <= Len(s)
      BY <2>1
    <2>5. u[Len(s) + 1] = g /\ \A i \in 1..Len(s) : u[i] = q[i]
      BY <1>w, <2>3, <2>4
    <2>. QED  BY <2>3, <2>5 DEF q, T
  <1>6. u[Len(s)] = f /\ \A i \in 1..(Len(s) - 1) : u[i] = s[i]
    BY <1>1, <1>4, <1>5
  <1>7. \A i \in 1..Len(u) : IsFrame(u[i])
    <2>1. \A i \in 1..Len(u) : i \in 1..(Len(s) - 1) \/ i = Len(s) \/ i = Len(s) + 1
      BY <1>1, <1>5
    <2>. QED  BY <1>5, <1>6, <2>1, <1>1 DEF IsStack
  <1>8. IsStack(u)
    BY <1>5, <1>7 DEF IsStack
  <1>9. u # <<>>
    BY <1>1, <1>5
  <1>. QED  BY <1>5, <1>6, <1>8, <1>9 DEF u

-----------------------------------------------------------------------------
(* The lookup.                                                              *)

(* Every key of a mux is a sorted key and leads to a mux or to a handler.   *)
LEMMA HandlersLead ==
    ASSUME Leads(handlers), NEW m \in Muxes
    PROVE  Leads(HandlersOf(m))
  BY KeysAssumption DEF HandlersOf, Leads

(* lookupTarget matches a key of the mux, or the empty target.              *)
LEMMA MatchedIsTarget ==
    ASSUME Leads(handlers), DOMAIN Routes[Root] \subseteq DOMAIN handlers,
           NEW m \in Muxes, NEW t \in Seq(STRING), Found(m, t)
    PROVE  Matched(m, t) \in Seq(STRING) /\ HandlerFor(m, t).to \in Muxes \cup {Builtin, Custom}
  <1>. DEFINE hs == HandlersOf(m)
  <1>1. Leads(hs)
    BY HandlersLead
  <1>2. DOMAIN hs \subseteq DOMAIN Order
    BY <1>1 DEF Leads
  <1>. HIDE DEF hs
  <1>3. CASE t \in DOMAIN hs
    BY <1>1, <1>3 DEF Matched, HandlerFor, Leads, hs
  <1>4. CASE t \notin DOMAIN hs /\ t = <<>> /\ Defaults(m) # {}
    <2>1. PICK d \in Defaults(m) : HandlerFor(m, t) = hs[d]
      BY <1>4 DEF HandlerFor, hs
    <2>2. d \in DOMAIN hs
      BY DEF Defaults, HandlersOf, hs
    <2>. QED  BY <1>1, <1>4, <2>1, <2>2 DEF Matched, Leads, hs
  <1>5. CASE t \notin DOMAIN hs /\ ~(t = <<>> /\ Defaults(m) # {})
    <2>1. Candidates(m, t) # {} /\ Candidates(m, t) \subseteq DOMAIN hs
      BY <1>5 DEF Found, Candidates, hs
    <2>2. \A k \in Candidates(m, t) : IsPrefix(k, t)
      BY DEF Candidates, IsStrictPrefix
    <2>3. LastSorted(Candidates(m, t)) \in Candidates(m, t)
      BY <1>2, <2>1, <2>2, LastSortedIsLongest
    <2>4. Matched(m, t) \in DOMAIN hs
      BY <1>5, <2>1, <2>3 DEF Matched, hs
    <2>5. HandlerFor(m, t) = hs[Matched(m, t)]
      BY <1>5 DEF HandlerFor, hs
    <2>. QED  BY <1>1, <2>4, <2>5, OrderAssumption DEF Leads
  <1>. QED  BY <1>3, <1>4, <1>5

(* The first frame is the last one, or lies below it.                       *)
LEMMA OneOrMore == \A n \in Nat \ {0} : 1 = n \/ 1 \in 1..(n - 1)
  OBVIOUS

(* trimTargetOpt and maybeSetDalecTargetKey.                                *)
LEMMA PassOnOpts ==
    ASSUME NEW o, IsOpts(o), NEW matched \in Seq(STRING)
    PROVE  /\ IsOpts(PassOn(o, matched))
           /\ PassOn(o, matched).dalecTarget =
                IF o.dalecTarget \in {Unset, <<>>} THEN matched ELSE o.dalecTarget
  <1>. DEFINE t == o.target
              m == Len(matched) + 1
              n == Len(t)
  <1>1. t \in Seq(STRING) /\ m \in Int /\ n \in Int /\ \A i \in m..n : t[i] \in STRING
    BY DEF IsOpts
  <1>2. SubSeq(t, m, n) \in Seq(STRING)
    BY <1>1, SubSeqProperties
  <1>3. TrimTarget(t, matched) \in Seq(STRING)
    <2>1. TrimTarget(t, matched) \in {t, <<>>, SubSeq(t, m, n)}
      BY DEF TrimTarget
    <2>2. <<>> \in Seq(STRING)
      OBVIOUS
    <2>. HIDE DEF t, m, n
    <2>. QED  BY <1>1, <1>2, <2>1, <2>2
  <1>. DEFINE p == [o EXCEPT !.target = TrimTarget(@, matched)]
  <1>4. p = [target |-> TrimTarget(t, matched), dalecTarget |-> o.dalecTarget]
    BY DEF IsOpts
  <1>5. PassOn(o, matched) = TargetKey(p, matched)
    BY DEF PassOn
  <1>. HIDE DEF p, t
  <1>. QED  BY <1>3, <1>4, <1>5 DEF TargetKey, IsOpts

(* The first frame once the last one is replaced: what a call records as    *)
(* its root.                                                                *)
LEMMA FirstOfReplaced ==
    ASSUME NEW s, IsStack(s), s # <<>>, NEW f
    PROVE  Append(Front(s), f)[1] = IF Len(s) = 1 THEN f ELSE s[1]
  <1>. DEFINE p == Front(s)
  <1>1. /\ IsStack(p) /\ Len(s) \in Nat \ {0} /\ Len(p) = Len(s) - 1
        /\ \A i \in 1..(Len(s) - 1) : p[i] = s[i]
    BY PopFrames
  <1>. HIDE DEF p
  <1>2. PICK S : p \in Seq(S)
    BY <1>1 DEF IsStack
  <1>3. p \in Seq(S \cup {f})
    BY <1>2
  <1>4. CASE Len(s) = 1
    <2>1. Len(p) = 0
      BY <1>1, <1>4
    <2>2. Append(p, f)[1] = f
      BY <1>3, <2>1
    <2>. QED  BY <1>4, <2>2 DEF p
  <1>5. CASE Len(s) # 1
    <2>1. 1 \in 1..Len(p) /\ 1 \in 1..(Len(s) - 1)
      BY <1>1, <1>5
    <2>2. Append(p, f)[1] = p[1]
      BY <1>3, <2>1
    <2>. QED  BY <1>1, <1>5, <2>1, <2>2 DEF p
  <1>. QED  BY <1>4, <1>5

(* The frame of a call that has just begun.                                 *)
LEMMA NewFrame ==
    ASSUME NEW m \in Muxes, NEW o, IsOpts(o)
    PROVE  /\ IsFrame(Frame(m, o)) /\ Frame(m, o).t = o.target /\ Frame(m, o).at = "entered"
           /\ Frame(m, o).matched = <<>> /\ Frame(m, o).top = (o.dalecTarget = Unset)
  <1>1. o.target \in Seq(STRING) /\ <<>> \in Seq(STRING) /\ "entered" \in Places
    BY DEF IsOpts, Places
  <1>. QED  BY <1>1 DEF Frame, IsFrame

(* What Handle returns of its own has no context yet.                       *)
LEMMA ResultsOf ==
    /\ \A k : IsResult(Err(k)) /\ Err(k).kind = k /\ Err(k).context = <<>>
    /\ \A names : IsResult(Ok(names)) /\ Ok(names).kind = "ok" /\ Ok(names).context = <<>>
    /\ \A m, t : /\ IsResult(NotFound(m, t)) /\ NotFound(m, t).kind = "notFound"
                  /\ NotFound(m, t).context = <<>>
  <1>1. ASSUME NEW k
        PROVE  IsResult(Err(k)) /\ Err(k).kind = k /\ Err(k).context = <<>>
    BY DEF Err, NoResult, IsResult
  <1>2. ASSUME NEW names
        PROVE  IsResult(Ok(names)) /\ Ok(names).kind = "ok" /\ Ok(names).context = <<>>
    BY DEF Ok, NoResult, IsResult
  <1>3. ASSUME NEW m, NEW t
        PROVE  /\ IsResult(NotFound(m, t)) /\ NotFound(m, t).kind = "notFound"
               /\ NotFound(m, t).context = <<>>
    BY <1>1 DEF NotFound, IsResult
  <1>. QED  BY <1>1, <1>2, <1>3

(* injectPathsToNotFoundError changes neither the kind nor the context of   *)
(* an error.                                                                *)
LEMMA InjectedIsResult ==
    ASSUME NEW p, NEW r, IsResult(r)
    PROVE  /\ IsResult(InjectPaths(p, r)) /\ InjectPaths(p, r).kind = r.kind
           /\ InjectPaths(p, r).context = r.context
  BY DEF InjectPaths, IsResult

-----------------------------------------------------------------------------
(* The inductive invariant.                                                 *)

(* Only the first call was entered with the options of the client, and only *)
(* when it ends does an error get its context.                              *)
FirstCall ==
  stack # <<>> =>
    /\ stack[1].t = req.client.target
    /\ stack[1].top <=> req.client.dalecTarget = Unset
    /\ ret.context = <<>>

LaterCalls == \A i \in 2..Len(stack) : ~stack[i].top

NotCalled ==
  stack = <<>> /\ ret.kind = "none" =>
    /\ raw = [target |-> req.client.target, dalecTarget |-> req.client.dalecTarget]
    /\ spec = "none" /\ ret.context = <<>>

ContextInv == FirstCall /\ LaterCalls /\ NotCalled /\ ErrorNamesRequest

(* Until the first call of the root, and after it if the client gives every *)
(* call a copy of its map, "dalec.target" has no value; below the root it   *)
(* is what the root matched.                                                *)
KeyFree ==
  stack # <<>> /\ (stack[1].at = "entered" \/ ~req.shares) => raw.dalecTarget \in {Unset, <<>>}

KeySet ==
  (Building \/ ~req.shares) /\ Len(stack) > 1 /\ stack[1].matched # <<>> =>
    opts.dalecTarget = stack[1].matched

NoListInBuild == Building /\ stack # <<>> => stack[1].at # "list"

KeyInv == KeyFree /\ KeySet /\ NoListInBuild /\ TargetKeyIsTopRoute

MuxInv == Shape /\ ContextInv /\ KeyInv

(* The three kinds of steps of a running call: it returns, it goes on to    *)
(* another place, it calls a handler.                                       *)
LEMMA ReturnKeepsInv ==
    ASSUME MuxInv, stack # <<>>, NEW r, IsResult(r), r.context = <<>>, r.kind # "none",
           Return(r), UNCHANGED <<req, raw, opts, handlers, spec, calls>>
    PROVE  MuxInv'
  <1>1. /\ IsStack(stack') /\ Len(stack) \in Nat \ {0} /\ Len(stack') = Len(stack) - 1
        /\ \A i \in 1..(Len(stack) - 1) : stack'[i] = stack[i]
        /\ Len(stack) = 1 <=> stack' = <<>>
    BY PopFrames DEF Return, MuxInv, Shape
  <1>2. IsResult(ret') /\ ret'.kind = r.kind
        /\ ret'.context = IF IsErr(r) /\ top.top THEN <<top.t>> ELSE <<>>
    BY DEF Return, WithContext, IsResult
  <1>3. Shape'
    BY <1>1, <1>2 DEF MuxInv, Shape, IsOpts, Leads
  <1>4. CASE Len(stack) = 1
    <2>1. top = stack[1] /\ stack' = <<>> /\ Len(stack') = 0
      BY <1>1, <1>4 DEF top, Last
    <2>2. FirstCall' /\ NotCalled' /\ LaterCalls'
      BY <1>2, <2>1 DEF FirstCall, NotCalled, LaterCalls
    <2>3. /\ stack[1].t = req.client.target
          /\ stack[1].top <=> req.client.dalecTarget = Unset
      BY DEF MuxInv, ContextInv, FirstCall
    <2>4. ErrorNamesRequest'
      BY <1>2, <2>1, <2>3 DEF ErrorNamesRequest, IsErr
    <2>5. KeyFree' /\ KeySet' /\ NoListInBuild'
      BY <2>1 DEF KeyFree, KeySet, NoListInBuild
    <2>6. TargetKeyIsTopRoute'
      BY DEF MuxInv, KeyInv, TargetKeyIsTopRoute, Building
    <2>. QED  BY <1>3, <2>2, <2>4, <2>5, <2>6 DEF MuxInv, ContextInv, KeyInv
  <1>5. CASE Len(stack) # 1
    <2>0. Len(stack) \in 2..Len(stack) /\ 1 \in 1..(Len(stack) - 1)
      BY <1>1, <1>5
    <2>1. stack' # <<>> /\ stack'[1] = stack[1] /\ ~top.top
      BY <1>1, <1>5, <2>0 DEF MuxInv, ContextInv, LaterCalls, top, Last
    <2>2. \A i \in 2..Len(stack') : i \in 2..Len(stack) /\ stack'[i] = stack[i]
      BY <1>1
    <2>3. FirstCall' /\ LaterCalls' /\ NotCalled'
      BY <1>2, <2>1, <2>2 DEF MuxInv, ContextInv, FirstCall, LaterCalls, NotCalled
    <2>4. ErrorNamesRequest'
      BY <2>1 DEF ErrorNamesRequest, Done
    <2>5. Len(stack') > 1 => Len(stack) > 1
      BY <1>1
    <2>6. KeyFree' /\ KeySet' /\ NoListInBuild' /\ TargetKeyIsTopRoute'
      BY <2>1, <2>5 DEF MuxInv, KeyInv, KeyFree, KeySet, NoListInBuild, TargetKeyIsTopRoute, Building
    <2>. QED  BY <1>3, <2>3, <2>4, <2>6 DEF MuxInv, ContextInv, KeyInv
  <1>. QED  BY <1>4, <1>5

(* The last frame changes its place, and what it has listed, not its        *)
(* target or its match.                                                     *)
LEMMA GoOnKeepsInv ==
    ASSUME MuxInv, stack # <<>>, NEW f, IsFrame(f), SetTop(f),
           Alike(f, top),
           f.at # "entered", Building => f.at # "list" \/ f.at = top.at,
           IsResult(ret'), ret'.context = <<>>,
           UNCHANGED <<req, raw, opts, handlers, spec, calls>>
    PROVE  MuxInv'
  <1>1. /\ IsStack(stack') /\ Len(stack') = Len(stack) /\ stack' # <<>>
        /\ stack'[Len(stack)] = f
        /\ \A i \in 1..(Len(stack) - 1) : stack'[i] = stack[i]
    <2>1. stack' = Replaced(stack, f)
      BY DEF SetTop, Replaced
    <2>2. IsStack(stack)
      BY DEF MuxInv, Shape
    <2>. QED  BY <2>1, <2>2, SetTopFrames
  <1>2. Len(stack) \in Nat \ {0}
    BY PopFrames DEF MuxInv, Shape
  <1>3. Shape'
    BY <1>1 DEF MuxInv, Shape, IsOpts, Leads
  <1>4. \A i \in 1..Len(stack) : Alike(stack'[i], stack[i])
    <2>1. \A i \in 1..Len(stack) : i = Len(stack) \/ i \in 1..(Len(stack) - 1)
      BY <1>2
    <2>2. Alike(stack'[Len(stack)], stack[Len(stack)])
      BY <1>1 DEF top, Last
    <2>3. \A i \in 1..(Len(stack) - 1) : Alike(stack'[i], stack[i])
      BY <1>1 DEF Alike
    <2>. QED  BY <2>1, <2>2, <2>3
  <1>5. 1 \in 1..Len(stack) /\ \A i \in 2..Len(stack) : i \in 1..Len(stack)
    BY <1>2
  <1>f. /\ stack'[1].t = stack[1].t /\ stack'[1].top = stack[1].top
        /\ stack'[1].matched = stack[1].matched
        /\ stack'[1].at = stack[1].at \/ (stack'[1].at = f.at /\ stack[1] = top)
    <2>1. Alike(stack'[1], stack[1])
      BY <1>4, <1>5
    <2>2. 1 = Len(stack) \/ 1 \in 1..(Len(stack) - 1)
      BY <1>2, OneOrMore
    <2>3. (stack'[1] = f /\ stack[1] = top) \/ stack'[1] = stack[1]
      BY <1>1, <2>2 DEF top, Last
    <2>. QED  BY <2>1, <2>3 DEF Alike
  <1>6. FirstCall'
    BY <1>1, <1>f DEF MuxInv, ContextInv, FirstCall
  <1>7. LaterCalls'
    <2>1. ASSUME NEW i \in 2..Len(stack') PROVE ~stack'[i].top
      <3>1. i \in 2..Len(stack) /\ i \in 1..Len(stack)
        BY <1>1, <1>5
      <3>2. ~stack[i].top
        BY <3>1 DEF MuxInv, ContextInv, LaterCalls
      <3>3. Alike(stack'[i], stack[i])
        BY <1>4, <3>1
      <3>. QED  BY <3>2, <3>3 DEF Alike
    <2>. QED  BY <2>1 DEF LaterCalls
  <1>8. NotCalled' /\ ErrorNamesRequest'
    BY <1>1 DEF NotCalled, ErrorNamesRequest, Done
  <1>9. KeyFree' /\ KeySet'
    BY <1>1, <1>f DEF MuxInv, KeyInv, KeyFree, KeySet, Building
  <1>10. NoListInBuild' /\ TargetKeyIsTopRoute'
    BY <1>f DEF MuxInv, KeyInv, NoListInBuild, TargetKeyIsTopRoute, Building
  <1>. QED  BY <1>3, <1>6, <1>7, <1>8, <1>9, <1>10 DEF MuxInv, ContextInv, KeyInv

(* A call of a handler: trimTargetOpt and maybeSetDalecTargetKey, then      *)
(* the mux or the build.                                                    *)
LEMMA CallKeepsInv ==
    ASSUME MuxInv, stack # <<>>, top.at \in {"entered", "list"},
           NEW f, IsFrame(f), Alike(f, top), NEW matched \in Seq(STRING),
           NEW h, h.to \in Muxes \cup {Builtin, Custom},
           Call(f, matched, h), UNCHANGED <<req, handlers, spec, ret>>
    PROVE  MuxInv'
  <1>. DEFINE n == Len(stack)
              given == IF n = 1 THEN raw ELSE opts
              passed == PassOn(given, matched)
              caller == [f EXCEPT !.matched = matched,
                                  !.at = IF h.to \in Muxes THEN "wait" ELSE h.to]
  <1>1. n \in Nat \ {0} /\ IsStack(stack)
    BY PopFrames DEF MuxInv, Shape
  <1>2. IsOpts(given)
    BY DEF MuxInv, Shape
  <1>3. /\ IsOpts(passed)
        /\ passed.dalecTarget = IF given.dalecTarget \in {Unset, <<>>} THEN matched
                                ELSE given.dalecTarget
    <2>. HIDE DEF given
    <2>. QED  BY <1>2, PassOnOpts
  <1>4. passed.dalecTarget # Unset
    <2>. HIDE DEF given, passed
    <2>. QED  BY <1>3, KeysAssumption
  <1>5. /\ IsFrame(caller) /\ caller.t = f.t /\ caller.top = f.top /\ caller.matched = matched
        /\ caller.at \in {"wait", Builtin, Custom}
    <2>. DEFINE at == IF h.to \in Muxes THEN "wait" ELSE h.to
                g == [f EXCEPT !.matched = matched]
    <2>1. IsFrame(g) /\ g.t = f.t /\ g.top = f.top /\ g.matched = matched
      BY SetMatched
    <2>2. at \in {"wait", Builtin, Custom} /\ at \in Places
      BY DEF Places
    <2>3. caller = [g EXCEPT !.at = at]
      OBVIOUS
    <2>. HIDE DEF g, at, caller
    <2>. QED  BY <2>1, <2>2, <2>3, SetAt DEF Alike
  <1>6. /\ opts' = passed
        /\ raw' = IF n = 1 /\ req.shares THEN passed ELSE raw
        /\ \/ /\ h.to \in Muxes /\ stack' = Pushed(stack, caller, Frame(h.to, passed))
              /\ UNCHANGED calls
           \/ /\ stack' = Replaced(stack, caller)
              /\ \E c : /\ calls' = calls \cup {c} /\ c.dalecTarget = passed.dalecTarget
                       /\ c.root = Append(Front(stack), caller)[1].matched
    <2>1. opts' = passed /\ raw' = IF n = 1 /\ req.shares THEN passed ELSE raw
      BY DEF Call
    <2>2. CASE h.to \in Muxes
      BY <2>1, <2>2 DEF Call, Pushed
    <2>3. CASE h.to \notin Muxes
      <3>. DEFINE c == [to |-> h.to, root |-> Append(Front(stack), caller)[1].matched,
                        dalecTarget |-> passed.dalecTarget,
                        platform |-> IF h.to = Custom THEN spec ELSE req.platform]
      <3>1. stack' = Replaced(stack, caller) /\ calls' = calls \cup {c}
        BY <2>3 DEF Call, SetTop, Replaced
      <3>2. c.dalecTarget = passed.dalecTarget /\ c.root = Append(Front(stack), caller)[1].matched
        OBVIOUS
      <3>. HIDE DEF c, caller, passed
      <3>. QED  BY <2>1, <3>1, <3>2
    <2>. QED  BY <2>2, <2>3
  <1>. HIDE DEF given, passed, caller
  <1>7. h.to \in Muxes => IsFrame(Frame(h.to, passed)) /\ ~Frame(h.to, passed).top
    <2>. SUFFICES ASSUME h.to \in Muxes
                  PROVE  IsFrame(Frame(h.to, passed)) /\ ~Frame(h.to, passed).top
      OBVIOUS
    <2>. DEFINE g == Frame(h.to, passed)
    <2>1. g = [mux |-> h.to, at |-> "entered", t |-> passed.target, top |-> FALSE,
               matched |-> <<>>, check |-> {}, ls |-> {}]
      BY <1>4 DEF Frame
    <2>2. passed.target \in Seq(STRING) /\ <<>> \in Seq(STRING) /\ "entered" \in Places
      BY <1>3 DEF IsOpts, Places
    <2>. HIDE DEF g
    <2>3. IsFrame(g) /\ ~g.top
      BY <2>1, <2>2 DEF IsFrame
    <2>. QED  BY <2>3 DEF g
  <1>8. /\ IsStack(stack') /\ stack' # <<>> /\ stack'[n] = caller
        /\ \A i \in 1..(n - 1) : stack'[i] = stack[i]
        /\ Len(stack') = n \/ (Len(stack') = n + 1 /\ ~stack'[n + 1].top)
    <2>1. CASE h.to \in Muxes /\ stack' = Pushed(stack, caller, Frame(h.to, passed))
      <3>. DEFINE g == Frame(h.to, passed)
      <3>1. IsFrame(g) /\ ~g.top
        BY <1>7, <2>1
      <3>. HIDE DEF g
      <3>2. /\ IsStack(Pushed(stack, caller, g)) /\ Len(Pushed(stack, caller, g)) = Len(stack) + 1
            /\ Pushed(stack, caller, g) # <<>>
            /\ Pushed(stack, caller, g)[Len(stack)] = caller
            /\ Pushed(stack, caller, g)[Len(stack) + 1] = g
            /\ \A i \in 1..(Len(stack) - 1) : Pushed(stack, caller, g)[i] = stack[i]
        BY <1>1, <1>5, <3>1, PushFrames
      <3>3. stack' = Pushed(stack, caller, g)
        BY <2>1 DEF g
      <3>. QED  BY <3>1, <3>2, <3>3
    <2>2. CASE stack' = Replaced(stack, caller)
      BY <1>1, <1>5, <2>2, SetTopFrames
    <2>. QED  BY <1>6, <2>1, <2>2
  <1>9. Shape'
    <2>1. IsOpts(raw') /\ IsOpts(opts')
      BY <1>3, <1>6 DEF MuxInv, Shape
    <2>. QED  BY <1>8, <2>1 DEF MuxInv, Shape, IsResult, Leads
  <1>10. IF n = 1 THEN stack'[1] = caller /\ top = stack[1] ELSE stack'[1] = stack[1]
    <2>1. n # 1 => 1 \in 1..(n - 1)
      <3>. HIDE DEF n
      <3>. QED  BY <1>1
    <2>. QED  BY <1>8, <2>1 DEF top, Last
  <1>11. FirstCall'
    <2>1. stack'[1].t = stack[1].t /\ stack'[1].top = stack[1].top
      BY <1>5, <1>10 DEF Alike
    <2>. QED  BY <1>8, <2>1 DEF MuxInv, ContextInv, FirstCall
  <1>12. LaterCalls'
    <2>1. ASSUME NEW i \in 2..Len(stack') PROVE ~stack'[i].top
      <3>1. \/ i \in 2..n /\ i \in 1..(n - 1)
            \/ i = n /\ n \in 2..n
            \/ i = n + 1 /\ Len(stack') = n + 1
        <4>. HIDE DEF n
        <4>. QED  BY <1>1, <1>8
      <3>2. \A j \in 2..n : ~stack[j].top
        BY DEF MuxInv, ContextInv, LaterCalls
      <3>3. CASE i \in 2..n /\ i \in 1..(n - 1)
        BY <1>8, <3>2, <3>3
      <3>4. CASE i = n /\ n \in 2..n
        BY <1>5, <1>8, <3>2, <3>4 DEF Alike, top, Last
      <3>5. CASE i = n + 1 /\ Len(stack') = n + 1
        <4>1. n + 1 # n
          BY <1>1
        <4>. QED  BY <1>8, <3>5, <4>1
      <3>. QED  BY <3>1, <3>3, <3>4, <3>5
    <2>. QED  BY <2>1 DEF LaterCalls
  <1>13. NotCalled' /\ ErrorNamesRequest'
    BY <1>8 DEF NotCalled, ErrorNamesRequest, Done
  <1>14. KeyFree'
    <2>1. caller.at # "entered"
      BY <1>5 DEF Builtin, Custom
    <2>. QED  BY <1>6, <1>10, <2>1 DEF MuxInv, KeyInv, KeyFree
  <1>15. NoListInBuild'
    <2>1. caller.at # "list"
      BY <1>5 DEF Builtin, Custom
    <2>. QED  BY <1>10, <2>1 DEF MuxInv, KeyInv, NoListInBuild, Building
  <1>16. (Building \/ ~req.shares) /\ stack'[1].matched # <<>> =>
            passed.dalecTarget = stack'[1].matched
    <2>. SUFFICES ASSUME Building \/ ~req.shares, stack'[1].matched # <<>>
                  PROVE  passed.dalecTarget = stack'[1].matched
      OBVIOUS
    <2>1. CASE n = 1
      <3>1. top = stack[1] /\ given = raw /\ stack'[1].matched = matched
        BY <1>5, <1>10, <2>1 DEF given
      <3>2. raw.dalecTarget \in {Unset, <<>>}
        BY <3>1 DEF MuxInv, KeyInv, KeyFree, NoListInBuild
      <3>. QED  BY <1>3, <3>1, <3>2
    <2>2. CASE n # 1
      <3>1. stack'[1] = stack[1] /\ given = opts
        BY <1>10, <2>2 DEF given
      <3>2. n > 1 /\ 1 \in 1..n
        <4>. HIDE DEF n
        <4>. QED  BY <1>1, <2>2
      <3>3. opts.dalecTarget = stack[1].matched
        BY <3>1, <3>2 DEF MuxInv, KeyInv, KeySet
      <3>4. stack[1].matched \in Seq(STRING)
        BY <1>1, <3>2 DEF IsStack, IsFrame
      <3>5. opts.dalecTarget \notin {Unset, <<>>}
        BY <3>1, <3>3, <3>4, KeysAssumption
      <3>. QED  BY <1>3, <3>1, <3>3, <3>5
    <2>. QED  BY <2>1, <2>2
  <1>17. KeySet'
    BY <1>6, <1>16 DEF KeySet, Building
  <1>18. TargetKeyIsTopRoute'
    <2>1. ASSUME NEW c, c.dalecTarget = passed.dalecTarget,
                 c.root = Append(Front(stack), caller)[1].matched,
                 Building \/ ~req.shares, c.root # <<>>
          PROVE  c.dalecTarget = c.root
      <3>1. Append(Front(stack), caller)[1] = stack'[1]
        BY <1>1, <1>10, FirstOfReplaced
      <3>. QED  BY <1>16, <2>1, <3>1
    <2>2. CASE UNCHANGED calls
      BY <2>2 DEF MuxInv, KeyInv, TargetKeyIsTopRoute, Building
    <2>3. ASSUME NEW c, calls' = calls \cup {c}, c.dalecTarget = passed.dalecTarget,
                 c.root = Append(Front(stack), caller)[1].matched
          PROVE  TargetKeyIsTopRoute'
      BY <2>1, <2>3 DEF MuxInv, KeyInv, TargetKeyIsTopRoute, Building
    <2>. QED  BY <1>6, <2>2, <2>3
  <1>. QED  BY <1>9, <1>11, <1>12, <1>13, <1>14, <1>15, <1>17, <1>18 DEF MuxInv, ContextInv, KeyInv

-----------------------------------------------------------------------------
(* The steps of Next.                                                       *)

(* The running call is a frame.                                             *)
LEMMA TopIsFrame ==
    ASSUME MuxInv, stack # <<>>
    PROVE  IsFrame(top)
  <1>1. IsStack(stack) /\ Len(stack) \in Nat \ {0}
    BY PopFrames DEF MuxInv, Shape
  <1>2. Len(stack) \in 1..Len(stack)
    BY <1>1
  <1>. QED  BY <1>1, <1>2 DEF IsStack, top, Last

(* The invariant holds before the request is looked at.                     *)
LEMMA InitKeepsInv == Init => MuxInv
  <1>. SUFFICES ASSUME Init PROVE MuxInv
    OBVIOUS
  <1>1. req.client \in Requests /\ req.custom \in SpecTargets
    BY DEF Init
  <1>2. IsOpts(raw) /\ IsOpts(opts)
    BY <1>1, KeysAssumption DEF Init, IsOpts
  <1>3. IsResult(ret) /\ ret.kind = "none" /\ ret.context = <<>>
    BY DEF Init, IsResult, NoResult
  <1>4. stack = <<>> /\ Len(stack) = 0 /\ calls = {}
    BY DEF Init
  <1>5. IsStack(stack)
    <2>1. stack \in Seq({})
      BY <1>4
    <2>. QED  BY <1>4, <2>1 DEF IsStack
  <1>6. Leads(handlers) /\ DOMAIN Routes[Root] \subseteq DOMAIN handlers
    BY KeysAssumption, RootAssumption DEF Init, Leads
  <1>7. ContextInv
    BY <1>3, <1>4 DEF Init, ContextInv, FirstCall, LaterCalls, NotCalled, ErrorNamesRequest, Done
  <1>8. KeyInv
    BY <1>4 DEF KeyInv, KeyFree, KeySet, NoListInBuild, TargetKeyIsTopRoute
  <1>. QED  BY <1>1, <1>2, <1>3, <1>5, <1>6, <1>7, <1>8 DEF MuxInv, Shape

(* WithTargetForwardingHandler and the call of the root mux.                *)
LEMMA OptionsKeepsInv == MuxInv /\ Options => MuxInv'
  <1>. SUFFICES ASSUME MuxInv, Options PROVE MuxInv'
    OBVIOUS
  <1>1. /\ stack = <<>> /\ ret.kind = "none" /\ spec = "none" /\ calls' = calls
        /\ raw = [target |-> req.client.target, dalecTarget |-> req.client.dalecTarget]
        /\ UNCHANGED <<req, raw, opts>>
    BY DEF Options, MuxInv, ContextInv, NotCalled
  <1>2. TargetKeyIsTopRoute'
    BY <1>1 DEF MuxInv, KeyInv, TargetKeyIsTopRoute, Building
  <1>3. ASSUME NEW r, IsResult(r), r.kind # "none", ret' = r,
               UNCHANGED <<handlers, spec, stack>>
        PROVE  MuxInv'
    <2>1. stack' = <<>> /\ Len(stack') = 0
      BY <1>1, <1>3
    <2>2. Shape'
      BY <1>1, <1>3 DEF MuxInv, Shape, IsStack, Leads, IsOpts
    <2>3. ContextInv'
      BY <1>1, <1>3, <2>1
         DEF ContextInv, FirstCall, LaterCalls, NotCalled, ErrorNamesRequest
    <2>4. KeyInv'
      BY <1>2, <2>1 DEF KeyInv, KeyFree, KeySet, NoListInBuild
    <2>. QED  BY <2>2, <2>3, <2>4 DEF MuxInv
  <1>4. ASSUME raw.dalecTarget \in {Unset, <<>>}, handlers' = Registered(handlers, req.custom),
               spec' = DefaultPlatform, stack' = <<Frame(Root, raw)>>, UNCHANGED ret
        PROVE  MuxInv'
    <2>. DEFINE g == Frame(Root, raw)
    <2>1. /\ IsFrame(g) /\ g.t = req.client.target /\ g.at = "entered" /\ g.matched = <<>>
          /\ g.top <=> req.client.dalecTarget = Unset
      <3>1. IsOpts(raw) /\ raw.target = req.client.target /\ raw.dalecTarget = req.client.dalecTarget
        BY <1>1 DEF MuxInv, Shape
      <3>. QED  BY <3>1, RootAssumption, NewFrame
    <2>2. stack' = <<g>>
      BY <1>4
    <2>. HIDE DEF g
    <2>3. stack' \in Seq({g}) /\ Len(stack') = 1 /\ stack'[1] = g /\ stack' # <<>>
      BY <2>2
    <2>4. IsStack(stack')
      <3>1. \A i \in 1..Len(stack') : i = 1
        BY <2>3
      <3>. QED  BY <2>1, <2>3, <3>1 DEF IsStack
    <2>5. Leads(handlers') /\ DOMAIN Routes[Root] \subseteq DOMAIN handlers'
      BY <1>4, KeysAssumption DEF Registered, Leads, MuxInv, Shape
    <2>6. Shape'
      BY <1>1, <1>4, <2>4, <2>5 DEF MuxInv, Shape, IsOpts, IsResult
    <2>7. ret.context = <<>>
      BY <1>1 DEF MuxInv, ContextInv, NotCalled
    <2>8. FirstCall' /\ LaterCalls' /\ NotCalled' /\ ErrorNamesRequest'
      BY <1>1, <1>4, <2>1, <2>3, <2>7
         DEF FirstCall, LaterCalls, NotCalled, ErrorNamesRequest, Done
    <2>9. KeyInv'
      BY <1>1, <1>2, <1>4, <2>1, <2>3 DEF KeyInv, KeyFree, KeySet, NoListInBuild
    <2>. QED  BY <2>6, <2>8, <2>9 DEF MuxInv, ContextInv
  <1>5. IsResult(Err("forwardedTwice")) /\ Err("forwardedTwice").kind # "none"
        /\ IsResult(Err("spec")) /\ Err("spec").kind # "none"
    BY ResultsOf
  <1>. QED  BY <1>3, <1>4, <1>5 DEF Options

(* handleSubrequest, answered on the spot.                                  *)
LEMMA SubrequestKeepsInv == MuxInv /\ Subrequest => MuxInv'
  <1>. SUFFICES ASSUME MuxInv, Subrequest PROVE MuxInv'
    OBVIOUS
  <1>1. /\ stack # <<>> /\ UNCHANGED <<req, raw, opts, handlers, spec, calls>>
        /\ Return(Ok({})) \/ Return(Err("spec")) \/ Return(Err("unsupported"))
    BY DEF Subrequest, Running
  <1>2. \A r \in {Ok({}), Err("spec"), Err("unsupported")} :
           IsResult(r) /\ r.context = <<>> /\ r.kind # "none"
    BY ResultsOf
  <1>3. PICK r \in {Ok({}), Err("spec"), Err("unsupported")} : Return(r)
    BY <1>1
  <1>. QED  BY <1>1, <1>2, <1>3, ReturnKeepsInv

(* The lookup of Handle and what it calls.                                  *)
LEMMA RouteKeepsInv == MuxInv /\ Route => MuxInv'
  <1>. SUFFICES ASSUME MuxInv, Route PROVE MuxInv'
    OBVIOUS
  <1>1. stack # <<>> /\ top.at = "entered" /\ UNCHANGED <<req, handlers, spec>>
    BY DEF Route, Running
  <1>2. IsFrame(top) /\ top.mux \in Muxes /\ top.t \in Seq(STRING)
    BY <1>1, TopIsFrame DEF IsFrame
  <1>3. ASSUME Return(NotFound(top.mux, top.t)), UNCHANGED <<raw, opts, calls>>
        PROVE  MuxInv'
    <2>1. PICK r : r = NotFound(top.mux, top.t)
      OBVIOUS
    <2>2. IsResult(r) /\ r.context = <<>> /\ r.kind # "none"
      BY <2>1, ResultsOf
    <2>3. Return(r) /\ UNCHANGED <<req, raw, opts, handlers, spec, calls>>
      BY <1>1, <1>3, <2>1
    <2>. QED  BY <1>1, <2>2, <2>3, ReturnKeepsInv
  <1>4. ASSUME Found(top.mux, top.t), UNCHANGED ret,
               Call(top, Matched(top.mux, top.t), HandlerFor(top.mux, top.t))
        PROVE  MuxInv'
    <2>1. /\ Matched(top.mux, top.t) \in Seq(STRING)
          /\ HandlerFor(top.mux, top.t).to \in Muxes \cup {Builtin, Custom}
      BY <1>2, <1>4, MatchedIsTarget DEF MuxInv, Shape
    <2>2. Alike(top, top)
      BY DEF Alike
    <2>3. UNCHANGED <<req, handlers, spec, ret>>
      BY <1>1, <1>4
    <2>4. PICK f, matched, h :
            f = top /\ matched = Matched(top.mux, top.t) /\ h = HandlerFor(top.mux, top.t)
      OBVIOUS
    <2>. QED  BY <1>1, <1>2, <1>4, <2>1, <2>2, <2>3, <2>4, CallKeepsInv
  <1>. QED  BY <1>3, <1>4 DEF Route

(* list, before its loop.                                                   *)
LEMMA ListCallKeepsInv == MuxInv /\ ListCall => MuxInv'
  <1>. SUFFICES ASSUME MuxInv, ListCall PROVE MuxInv'
    OBVIOUS
  <1>. DEFINE keys == IF top.t = <<>> THEN DOMAIN HandlersOf(top.mux) ELSE {top.t}
              f == [top EXCEPT !.at = "list"]
              g == [f EXCEPT !.check = keys]
  <1>1. /\ stack # <<>> /\ ret.kind = "none" /\ ~Building
        /\ UNCHANGED <<req, raw, opts, handlers, spec, ret, calls>>
    BY DEF ListCall, Running, Building
  <1>2. IsFrame(top) /\ top.mux \in Muxes /\ top.t \in Seq(STRING)
    BY <1>1, TopIsFrame DEF IsFrame
  <1>3. keys \in SUBSET Seq(STRING)
    <2>1. DOMAIN HandlersOf(top.mux) \subseteq DOMAIN Order
      BY <1>2, HandlersLead DEF MuxInv, Shape, Leads
    <2>. QED  BY <1>2, <2>1, OrderAssumption
  <1>4. SetTop(g)
    <2>1. g = [top EXCEPT !.at = "list", !.check = keys]
      OBVIOUS
    <2>. QED  BY <2>1 DEF ListCall
  <1>. HIDE DEF keys
  <1>5. IsFrame(f) /\ Alike(f, top) /\ f.at = "list"
    BY <1>2, SetAt DEF Places
  <1>. HIDE DEF f
  <1>6. IsFrame(g) /\ Alike(g, f) /\ g.at = "list"
    BY <1>3, <1>5, SetCheck
  <1>. HIDE DEF g
  <1>7. Alike(g, top)
    BY <1>5, <1>6 DEF Alike
  <1>8. IsResult(ret') /\ ret'.context = <<>>
    BY <1>1 DEF MuxInv, Shape, ContextInv, FirstCall
  <1>. QED  BY <1>1, <1>4, <1>6, <1>7, <1>8, GoOnKeepsInv

(* The name that list looks up next is one of those it has to.              *)
LEMMA NextIsChecked ==
    ASSUME NEW f, IsFrame(f), f.check # {}
    PROVE  NextCheck(f) \in f.check
  <1>1. CASE f.check \subseteq DOMAIN Order
    BY <1>1, FirstSortedIsKey DEF NextCheck
  <1>2. CASE ~(f.check \subseteq DOMAIN Order)
    BY <1>2 DEF NextCheck
  <1>. QED  BY <1>1, <1>2

(* One turn of the loop of list.                                            *)
LEMMA ListNextKeepsInv == MuxInv /\ ListNext => MuxInv'
  <1>. SUFFICES ASSUME MuxInv, ListNext PROVE MuxInv'
    OBVIOUS
  <1>. DEFINE t == NextCheck(top)
              keys == top.check \ {t}
              f == [top EXCEPT !.check = keys]
  <1>1. /\ stack # <<>> /\ top.at = "list" /\ top.check # {}
        /\ UNCHANGED <<req, handlers, spec, ret>>
    BY DEF ListNext, Running
  <1>2. IsFrame(top) /\ top.mux \in Muxes /\ top.check \in SUBSET Seq(STRING)
    BY <1>1, TopIsFrame DEF IsFrame
  <1>3. t \in Seq(STRING)
    BY <1>1, <1>2, NextIsChecked
  <1>4. IsFrame(f) /\ Alike(f, top) /\ f.at = "list"
    <2>1. keys \in SUBSET Seq(STRING)
      BY <1>2
    <2>. HIDE DEF keys
    <2>. QED  BY <1>1, <1>2, <2>1, SetCheck
  <1>5. IsResult(ret') /\ ret'.context = <<>>
    BY <1>1 DEF MuxInv, Shape, ContextInv, FirstCall
  <1>6. ASSUME SetTop(f), UNCHANGED <<raw, opts, calls>> PROVE MuxInv'
    <2>. HIDE DEF f
    <2>. QED  BY <1>1, <1>4, <1>5, <1>6, GoOnKeepsInv
  <1>7. ASSUME NEW names, SetTop([f EXCEPT !.ls = names]), UNCHANGED <<raw, opts, calls>>
        PROVE  MuxInv'
    <2>. DEFINE g == [f EXCEPT !.ls = names]
    <2>. HIDE DEF f
    <2>1. IsFrame(g) /\ Alike(g, f) /\ g.at = "list"
      BY <1>4, SetLs
    <2>2. SetTop(g)
      BY <1>7
    <2>. HIDE DEF g
    <2>3. Alike(g, top)
      BY <1>4, <2>1 DEF Alike
    <2>. QED  BY <1>1, <1>5, <1>7, <2>1, <2>2, <2>3, GoOnKeepsInv
  <1>8. ASSUME Found(top.mux, t), Call(f, Matched(top.mux, t), HandlerFor(top.mux, t))
        PROVE  MuxInv'
    <2>. HIDE DEF f, t
    <2>1. Matched(top.mux, t) \in Seq(STRING) /\ HandlerFor(top.mux, t).to \in Muxes \cup {Builtin, Custom}
      BY <1>2, <1>3, <1>8, MatchedIsTarget DEF MuxInv, Shape
    <2>2. PICK matched, h : matched = Matched(top.mux, t) /\ h = HandlerFor(top.mux, t)
      OBVIOUS
    <2>. QED  BY <1>1, <1>4, <1>8, <2>1, <2>2, CallKeepsInv
  <1>9. \/ SetTop(f) /\ UNCHANGED <<raw, opts, calls>>
        \/ \E names : SetTop([f EXCEPT !.ls = names]) /\ UNCHANGED <<raw, opts, calls>>
        \/ Found(top.mux, t) /\ Call(f, Matched(top.mux, t), HandlerFor(top.mux, t))
    BY DEF ListNext
  <1>. HIDE DEF f, t
  <1>. QED  BY <1>6, <1>7, <1>8, <1>9

(* The end of list.                                                         *)
LEMMA ListReturnKeepsInv == MuxInv /\ ListReturn => MuxInv'
  <1>. SUFFICES ASSUME MuxInv, ListReturn PROVE MuxInv'
    OBVIOUS
  <1>1. /\ stack # <<>> /\ Return(Ok(top.ls))
        /\ UNCHANGED <<req, raw, opts, handlers, spec, calls>>
    BY DEF ListReturn, Running
  <1>2. IsResult(Ok(top.ls)) /\ Ok(top.ls).context = <<>> /\ Ok(top.ls).kind # "none"
    BY ResultsOf
  <1>3. PICK r : r = Ok(top.ls)
    OBVIOUS
  <1>. QED  BY <1>1, <1>2, <1>3, ReturnKeepsInv

(* A handler that is not a mux returns.                                     *)
LEMMA HandlerReturnsKeepsInv == MuxInv /\ HandlerReturns => MuxInv'
  <1>. SUFFICES ASSUME MuxInv, HandlerReturns PROVE MuxInv'
    OBVIOUS
  <1>. DEFINE f == [top EXCEPT !.at = "wait"]
  <1>1. /\ stack # <<>> /\ SetTop(f) /\ UNCHANGED <<req, raw, opts, handlers, spec, calls>>
        /\ ret' = Err("handler") \/ \E names : ret' = Ok(names)
    BY DEF HandlerReturns, Running
  <1>2. IsResult(ret') /\ ret'.context = <<>>
    BY <1>1, ResultsOf
  <1>3. IsFrame(f) /\ Alike(f, top) /\ f.at = "wait"
    BY <1>1, TopIsFrame, SetAt DEF Places
  <1>. HIDE DEF f
  <1>. QED  BY <1>1, <1>2, <1>3, GoOnKeepsInv

(* The caller goes on with what the handler returned.                       *)
LEMMA ResumeKeepsInv == MuxInv /\ Resume => MuxInv'
  <1>. SUFFICES ASSUME MuxInv, Resume PROVE MuxInv'
    OBVIOUS
  <1>1. stack # <<>> /\ ret.kind # "none" /\ UNCHANGED <<req, raw, opts, handlers, spec, calls>>
    BY DEF Resume
  <1>2. IsResult(ret) /\ ret.context = <<>>
    BY <1>1 DEF MuxInv, Shape, ContextInv, FirstCall
  <1>3. ASSUME Return(ret) PROVE MuxInv'
    BY <1>1, <1>2, <1>3, ReturnKeepsInv
  <1>4. ASSUME Return(InjectPaths(top.matched, ret)) PROVE MuxInv'
    <2>1. PICK r : r = InjectPaths(top.matched, ret)
      OBVIOUS
    <2>2. IsResult(r) /\ r.context = <<>> /\ r.kind # "none"
      BY <1>1, <1>2, <2>1, InjectedIsResult
    <2>. QED  BY <1>1, <1>4, <2>1, <2>2, ReturnKeepsInv
  <1>5. ASSUME NEW names, SetTop([top EXCEPT !.at = "list", !.ls = names]),
               ret' = NoResult, req.client.id = "list"
        PROVE  MuxInv'
    <2>. DEFINE f == [top EXCEPT !.at = "list"]
                g == [f EXCEPT !.ls = names]
    <2>1. g = [top EXCEPT !.at = "list", !.ls = names]
      OBVIOUS
    <2>2. SetTop(g)
      BY <1>5, <2>1
    <2>3. IsFrame(f) /\ Alike(f, top) /\ f.at = "list"
      BY <1>1, TopIsFrame, SetAt DEF Places
    <2>. HIDE DEF f
    <2>4. IsFrame(g) /\ Alike(g, f) /\ g.at = "list"
      BY <2>3, SetLs
    <2>. HIDE DEF g
    <2>5. Alike(g, top)
      BY <2>3, <2>4 DEF Alike
    <2>6. IsResult(ret') /\ ret'.context = <<>> /\ ~Building
      BY <1>5 DEF NoResult, IsResult, Building
    <2>. QED  BY <1>1, <2>2, <2>4, <2>5, <2>6, GoOnKeepsInv
  <1>6. \/ Return(ret) \/ Return(InjectPaths(top.matched, ret))
        \/ \E names : /\ SetTop([top EXCEPT !.at = "list", !.ls = names])
                       /\ ret' = NoResult /\ req.client.id = "list"
    BY DEF Resume
  <1>. QED  BY <1>3, <1>4, <1>5, <1>6

(* Every step keeps the invariant.                                          *)
LEMMA MuxStep == MuxInv /\ [Next]_vars => MuxInv'
  <1>1. ASSUME MuxInv, UNCHANGED vars PROVE MuxInv'
    BY <1>1
       DEF vars, MuxInv, Shape, IsOpts, IsResult, IsStack, Leads, ContextInv, FirstCall, LaterCalls,
           NotCalled, ErrorNamesRequest, Done, KeyInv, KeyFree, KeySet, NoListInBuild,
           TargetKeyIsTopRoute, Building
  <1>. QED  BY <1>1, OptionsKeepsInv, SubrequestKeepsInv, RouteKeepsInv, ListCallKeepsInv,
               ListNextKeepsInv, ListReturnKeepsInv, HandlerReturnsKeepsInv, ResumeKeepsInv
            DEF Next, Answered

(* Whatever the routes, the request and the custom frontends: the running   *)
(* calls are well formed, only the outermost one was entered without        *)
(* "dalec.target", and below it the key is the route it matched.            *)
THEOREM MuxCorrect == Spec => []MuxInv
  <1>. QED  BY InitKeepsInv, MuxStep, PTL DEF Spec

(* The deferred function of Handle runs for every nested call, and yet an   *)
(* error carries the requested target once, as the client wrote it,         *)
(* whatever trimming the calls below did to the shared options.             *)
THEOREM ErrorsNameTheRequest == Spec => []ErrorNamesRequest
  <1>1. MuxInv => ErrorNamesRequest
    BY DEF MuxInv, ContextInv
  <1>. QED  BY <1>1, MuxCorrect, PTL

(* maybeSetDalecTargetKey: however deep the muxes nest, every handler       *)
(* called in a build is given the route the root matched as                 *)
(* "dalec.target".                                                          *)
THEOREM TargetKeyKept == Spec => []TargetKeyIsTopRoute
  <1>1. MuxInv => TargetKeyIsTopRoute
    BY DEF MuxInv, KeyInv
  <1>. QED  BY <1>1, MuxCorrect, PTL

(* lookupTarget: "the longest prefix will be last".  Sorting the candidates  *)
(* as strings and taking the last one gives a key of the mux that leads to   *)
(* the target, and every other key that leads there leads to it as well.    *)
THEOREM LongestRouteWins ==
    ASSUME MuxInv, NEW m \in Muxes, NEW t \in Seq(STRING), t # <<>>, Found(m, t)
    PROVE  /\ Matched(m, t) \in DOMAIN HandlersOf(m) /\ IsPrefix(Matched(m, t), t)
           /\ \A k \in DOMAIN HandlersOf(m) : IsPrefix(k, t) => IsPrefix(k, Matched(m, t))
  <1>. DEFINE keys == Candidates(m, t)
  <1>1. DOMAIN HandlersOf(m) \subseteq DOMAIN Order
    BY HandlersLead DEF MuxInv, Shape, Leads
  <1>2. CASE t \in DOMAIN HandlersOf(m)
    <2>1. Matched(m, t) = t
      BY <1>2 DEF Matched
    <2>2. IsPrefix(t, t)
      BY DEF IsPrefix
    <2>. QED  BY <1>2, <2>1, <2>2
  <1>3. CASE t \notin DOMAIN HandlersOf(m)
    <2>1. keys # {} /\ Matched(m, t) = LastSorted(keys)
      BY <1>3 DEF Found, Matched
    <2>2. keys \subseteq DOMAIN Order /\ \A k \in keys : IsPrefix(k, t) /\ k \in DOMAIN HandlersOf(m)
      BY <1>1 DEF Candidates, IsStrictPrefix
    <2>3. \A k \in DOMAIN HandlersOf(m) : IsPrefix(k, t) => k \in keys
      BY <1>3 DEF Candidates, IsStrictPrefix
    <2>. HIDE DEF keys
    <2>. QED  BY <2>1, <2>2, <2>3, LastSortedIsLongest
  <1>. QED  BY <1>2, <1>3

=============================================================================
