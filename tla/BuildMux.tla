------------------------------ MODULE BuildMux ------------------------------
(***************************************************************************)
(* frontend/mux.go: how the frontend answers one request.  Handler runs    *)
(* WithTargetForwardingHandler, then the root mux calls the handler its    *)
(* routes select, which may itself be a mux (every distro and "debug" is), *)
(* and so on.  The calls are a stack of frames, one per running Handle.    *)
(*                                                                         *)
(* A target is the sequence of its "/"-separated components; <<>> is the   *)
(* empty target, and "a/" is <<"a", "">>.  The options of a request live   *)
(* in one map: trimTargetOpt and setClientOptOption write through the map  *)
(* that the client's BuildOpts returned.  Whether the client of the root   *)
(* returns its own map or a copy is up to the client (a grpc client shares *)
(* its map, the stub client of mux_test.go copies it): both are allowed.   *)
(***************************************************************************)
EXTENDS Naturals, Sequences, SequencesExt

CONSTANTS Muxes,        \* the muxes of the tree
          Root,         \* the mux of dalecMain
          Routes,       \* Routes[m][key] = [to, info, default], as added
          Order,        \* the byte order of the keys: [keys -> Nat]
          Requests,     \* the requests a client may send
          SpecTargets,  \* sets of spec.Targets keys with a custom frontend
          CustomNames,  \* target names a custom frontend may list
          Platforms,    \* platforms a client may ask for
          Unset         \* "dalec.target" has no value

ASSUME RootAssumption == Root \in Muxes

\* What a route leads to when it is not a mux.
Builtin == "builtin"
Custom == "custom"

\* Strings sort a prefix before what extends it.
ASSUME OrderAssumption ==
  /\ DOMAIN Order \subseteq Seq(STRING)
  /\ \A k, l \in DOMAIN Order :
       /\ Order[k] \in Nat
       /\ k # l => Order[k] # Order[l] /\ (IsPrefix(k, l) => Order[k] < Order[l])

\* Keys and targets are strings, no route is registered under the empty name, and
\* a route leads to a mux or to a handler.
ASSUME KeysAssumption ==
  /\ Unset \notin Seq(STRING)
  /\ <<>> \notin DOMAIN Order
  /\ \A m \in Muxes : \A k \in DOMAIN Routes[m] :
       k \in DOMAIN Order /\ Routes[m][k].to \in Muxes \cup {Builtin, Custom}
  /\ \A keys \in SpecTargets : keys \subseteq DOMAIN Order
  /\ \A r \in Requests : r.target \in Seq(STRING)

VARIABLES req,          \* the request, and what the client and spec are like
          raw,          \* the options map of the root's client
          opts,         \* the options map of the client last passed on
          handlers,     \* m.handlers of the root
          spec,         \* m.spec of the root: the platform it was loaded for
          stack,        \* the running calls of Handle
          ret,          \* what the call that just ended returned
          calls         \* the calls of handlers that are not muxes

vars == <<req, raw, opts, handlers, spec, stack, ret, calls>>

DefaultPlatform == "default"

NoResult == [kind |-> "none", target |-> <<>>, names |-> {}, context |-> <<>>]
Ok(names) == [NoResult EXCEPT !.kind = "ok", !.names = names]
Err(kind) == [NoResult EXCEPT !.kind = kind]
IsErr(r) == r.kind \notin {"none", "ok"}

-----------------------------------------------------------------------------
\* path.Join: the components that are not empty.
Join(p, q) == SelectSeq(p \o q, LAMBDA c : c # "")

\* Mutant of TrimTarget: the target is passed on whole.
TrimTargetNot(t, prefix) == t

\* Mutant of TrimTarget: a trailing "/" leaves a target that is not empty.
TrimTargetKeepsEmpty(t, prefix) ==
  IF IsPrefix(prefix, t) THEN SubSeq(t, Len(prefix) + 1, Len(t)) ELSE t

\* trimTargetOpt: the target without the prefix and the "/" after it.
TrimTarget(t, prefix) ==
  LET rest == SubSeq(t, Len(prefix) + 1, Len(t)) IN
  IF ~IsPrefix(prefix, t) THEN t ELSE
  IF rest = <<"">> THEN <<>> ELSE rest

\* Mutant of TargetKey: a nested mux sets it again.
TargetKeyAlways(o, key) == [o EXCEPT !.dalecTarget = key]

\* maybeSetDalecTargetKey: set unless it already has a value.
TargetKey(o, key) ==
  IF o.dalecTarget \in {Unset, <<>>} THEN [o EXCEPT !.dalecTarget = key] ELSE o

\* The options a handler is called with.
PassOn(o, matched) ==
  TargetKey([o EXCEPT !.target = TrimTarget(@, matched)], matched)

-----------------------------------------------------------------------------
HandlersOf(m) == IF m = Root THEN handlers ELSE Routes[m]

\* m.defaultH
Defaults(m) == {k \in DOMAIN Routes[m] : Routes[m][k].default}

\* The first of a set of keys once they are sorted.
FirstSorted(keys) == CHOOSE k \in keys : \A l \in keys : Order[k] <= Order[l]

\* candidates[len(candidates)-1] once they are sorted.
LastSorted(keys) == CHOOSE k \in keys : \A l \in keys : Order[l] <= Order[k]

\* The keys that k + "/" is a prefix of the target for.
Candidates(m, t) == {k \in DOMAIN HandlersOf(m) : IsStrictPrefix(k, t)}

\* lookupTarget: the pattern matched and the handler, if there is one.
Found(m, t) ==
  \/ t \in DOMAIN HandlersOf(m)
  \/ t = <<>> /\ Defaults(m) # {}
  \/ Candidates(m, t) # {}

Matched(m, t) ==
  IF t \in DOMAIN HandlersOf(m) \/ (t = <<>> /\ Defaults(m) # {})
  THEN t
  ELSE LastSorted(Candidates(m, t))

HandlerFor(m, t) ==
  LET k == IF t \notin DOMAIN HandlersOf(m) /\ t = <<>> /\ Defaults(m) # {}
           THEN CHOOSE d \in Defaults(m) : TRUE
           ELSE Matched(m, t)
  IN HandlersOf(m)[k]

\* handlerNotFound, for the keys of the mux.
NotFound(m, t) == [Err("notFound") EXCEPT !.target = t, !.names = DOMAIN HandlersOf(m)]

\* Mutant of InjectPaths: only the target gets the matched path.
InjectTargetOnly(matched, r) ==
  IF r.kind = "notFound" THEN [r EXCEPT !.target = Join(matched, @)] ELSE r

\* injectPathsToNotFoundError
InjectPaths(matched, r) ==
  IF r.kind = "notFound"
  THEN [r EXCEPT !.target = Join(matched, @), !.names = {Join(matched, n) : n \in @}]
  ELSE r

-----------------------------------------------------------------------------
\* A call of Handle: t is the variable t, top is whether origOpts had no
\* "dalec.target", at is where the call is.
Frame(m, o) ==
  [mux |-> m, at |-> "entered", t |-> o.target, top |-> o.dalecTarget = Unset,
   matched |-> <<>>, check |-> {}, ls |-> {}]

top == Last(stack)

Running == stack # <<>> /\ ret.kind = "none"

Done == stack = <<>> /\ ret.kind # "none"

SetTop(f) == stack' = [stack EXCEPT ![Len(stack)] = f]

\* Mutant of WithContext: the target is read from the options once more.
WithContextNow(f, r) ==
  IF IsErr(r) /\ f.top THEN [r EXCEPT !.context = Append(@, opts.target)] ELSE r

\* The deferred function of Handle: an error gets the requested target as its
\* context, from the call that set "dalec.target".
WithContext(f, r) ==
  IF IsErr(r) /\ f.top THEN [r EXCEPT !.context = Append(@, f.t)] ELSE r

\* The call on top of the stack returns r.
Return(r) ==
  /\ stack' = Front(stack)
  /\ ret' = WithContext(top, r)

\* The handler h is called with the options trimmed and "dalec.target" set, by
\* the frame f, which goes on with what the handler returns.  A built-in loads
\* the spec for the platform of the request, a custom frontend is given m.spec.
Call(f, matched, h) ==
  LET passed == PassOn(IF Len(stack) = 1 THEN raw ELSE opts, matched)
      caller == [f EXCEPT !.matched = matched, !.at = IF h.to \in Muxes THEN "wait" ELSE h.to]
  IN
  /\ opts' = passed
  /\ raw' = IF Len(stack) = 1 /\ req.shares THEN passed ELSE raw
  /\ \/ /\ h.to \in Muxes
        /\ stack' = Append(Front(stack), caller) \o <<Frame(h.to, passed)>>
        /\ UNCHANGED calls
     \/ /\ h.to \notin Muxes
        /\ SetTop(caller)
        /\ calls' = calls \cup {[to |-> h.to,
                                 root |-> Append(Front(stack), caller)[1].matched,
                                 dalecTarget |-> passed.dalecTarget,
                                 platform |-> IF h.to = Custom THEN spec ELSE req.platform]}

Init ==
  /\ req \in [client : Requests, custom : SpecTargets, specOk : BOOLEAN,
              shares : BOOLEAN, platform : Platforms]
  /\ raw = [target |-> req.client.target, dalecTarget |-> req.client.dalecTarget]
  /\ opts = raw
  /\ handlers = Routes[Root]
  /\ spec = "none"
  /\ stack = <<>>
  /\ ret = NoResult
  /\ calls = {}

\* Mutant of Registered: a custom frontend does not replace a built-in target.
RegisteredIfNew(hs, keys) ==
  [k \in DOMAIN hs \cup keys |->
     IF k \in DOMAIN hs THEN hs[k] ELSE [to |-> Custom, info |-> FALSE, default |-> FALSE]]

\* m.Add for every spec target with a custom frontend.
Registered(hs, keys) ==
  [k \in DOMAIN hs \cup keys |->
     IF k \in keys THEN [to |-> Custom, info |-> FALSE, default |-> FALSE] ELSE hs[k]]

\* Handler: WithTargetForwardingHandler, then the call of the root's Handle.
Options ==
  /\ stack = <<>> /\ ret.kind = "none"
  /\ \/ /\ raw.dalecTarget \notin {Unset, <<>>}
        /\ ret' = Err("forwardedTwice")
        /\ UNCHANGED <<handlers, spec, stack>>
     \/ /\ raw.dalecTarget \in {Unset, <<>>} /\ ~req.specOk
        /\ ret' = Err("spec")
        /\ UNCHANGED <<handlers, spec, stack>>
     \/ /\ raw.dalecTarget \in {Unset, <<>>} /\ req.specOk
        /\ spec' = DefaultPlatform
        /\ handlers' = Registered(handlers, req.custom)
        /\ stack' = <<Frame(Root, raw)>>
        /\ UNCHANGED ret
  /\ UNCHANGED <<req, raw, opts, calls>>

\* handleSubrequest, for the requests that are answered on the spot.
Subrequest ==
  /\ Running /\ top.at = "entered"
  /\ \/ /\ req.client.id \in {"describe", "defaultPlatform"}
        /\ Return(Ok({}))
     \/ /\ req.client.id = "resolve"
        /\ Return(Ok({})) \/ Return(Err("spec"))
     \/ /\ req.client.id = "other"
        /\ Return(Err("unsupported"))
  /\ UNCHANGED <<req, raw, opts, handlers, spec, calls>>

\* list, up to its loop: the routes to look up.
ListCall ==
  /\ Running /\ top.at = "entered"
  /\ req.client.id = "list"
  /\ SetTop([top EXCEPT !.at = "list",
               !.check = IF top.t = <<>> THEN DOMAIN HandlersOf(top.mux) ELSE {top.t}])
  /\ UNCHANGED <<req, raw, opts, handlers, spec, ret, calls>>

\* Handle: the lookup and the call of what it found.
Route ==
  /\ Running /\ top.at = "entered"
  /\ req.client.id \in {"", "dalec.target"}
  /\ \/ /\ ~Found(top.mux, top.t)
        /\ Return(NotFound(top.mux, top.t))
        /\ UNCHANGED <<raw, opts, calls>>
     \/ /\ Found(top.mux, top.t)
        /\ Call(top, Matched(top.mux, top.t), HandlerFor(top.mux, top.t))
        /\ UNCHANGED ret
  /\ UNCHANGED <<req, handlers, spec>>

\* The next of the sorted names in check; a single one need not be a key.
NextCheck(f) ==
  IF f.check \subseteq DOMAIN Order THEN FirstSorted(f.check) ELSE CHOOSE t \in f.check : TRUE

\* Mutant of ListNext: a name that is not asked stays in check.
ListNextForever ==
  /\ Running /\ top.at = "list" /\ top.check # {}
  /\ LET t == NextCheck(top) IN
     IF Found(top.mux, t) /\ ~HandlerFor(top.mux, t).info
     THEN Call([top EXCEPT !.check = @ \ {t}], Matched(top.mux, t), HandlerFor(top.mux, t))
     ELSE /\ SetTop([top EXCEPT !.ls = @ \cup (IF Found(top.mux, t) THEN {Matched(top.mux, t)} ELSE {})])
          /\ UNCHANGED <<raw, opts, calls>>
  /\ UNCHANGED <<req, handlers, spec, ret>>

\* One turn of the loop of list: a name without a route is skipped, a route with
\* info is listed, any other is asked.
ListNext ==
  /\ Running /\ top.at = "list" /\ top.check # {}
  /\ LET t == NextCheck(top)
         f == [top EXCEPT !.check = @ \ {t}]
     IN
     \/ /\ ~Found(top.mux, t)
        /\ SetTop(f)
        /\ UNCHANGED <<raw, opts, calls>>
     \/ /\ Found(top.mux, t) /\ HandlerFor(top.mux, t).info
        /\ SetTop([f EXCEPT !.ls = @ \cup {Matched(top.mux, t)}])
        /\ UNCHANGED <<raw, opts, calls>>
     \/ /\ Found(top.mux, t) /\ ~HandlerFor(top.mux, t).info
        /\ Call(f, Matched(top.mux, t), HandlerFor(top.mux, t))
  /\ UNCHANGED <<req, handlers, spec, ret>>

\* list: the end of the loop.
ListReturn ==
  /\ Running /\ top.at = "list" /\ top.check = {}
  /\ Return(Ok(top.ls))
  /\ UNCHANGED <<req, raw, opts, handlers, spec, calls>>

\* A built-in build, or the custom frontend that the request was forwarded to,
\* returns.  A custom frontend answers a list request with the names it serves.
HandlerReturns ==
  /\ Running /\ top.at \in {Builtin, Custom}
  /\ SetTop([top EXCEPT !.at = "wait"])
  /\ \/ ret' = Err("handler")
     \/ \E names \in SUBSET CustomNames :
          /\ req.client.id = "list" \/ names = {}
          /\ ret' = Ok(names)
  /\ UNCHANGED <<req, raw, opts, handlers, spec, calls>>

\* Mutant of Resume: list takes the names as the handler gave them.
ResumeBare ==
  /\ stack # <<>> /\ ret.kind # "none"
  /\ IF IsErr(ret)
     THEN Return(InjectPaths(top.matched, ret))
     ELSE IF req.client.id = "list"
     THEN SetTop([top EXCEPT !.at = "list", !.ls = @ \cup ret.names]) /\ ret' = NoResult
     ELSE Return(ret)
  /\ UNCHANGED <<req, raw, opts, handlers, spec, calls>>

\* The caller goes on with what the handler it called returned: Handle returns
\* it, list adds the names to its own.
Resume ==
  /\ stack # <<>> /\ ret.kind # "none"
  /\ \/ /\ IsErr(ret) /\ req.client.id = "list"
        /\ Return(ret)
     \/ /\ IsErr(ret) /\ req.client.id # "list"
        /\ Return(InjectPaths(top.matched, ret))
     \/ /\ ~IsErr(ret) /\ req.client.id = "list"
        /\ SetTop([top EXCEPT !.at = "list", !.ls = @ \cup {Join(top.matched, n) : n \in ret.names}])
        /\ ret' = NoResult
     \/ /\ ~IsErr(ret) /\ req.client.id # "list"
        /\ Return(ret)
  /\ UNCHANGED <<req, raw, opts, handlers, spec, calls>>

\* The request has been answered.
Answered == Done /\ UNCHANGED vars

Next ==
  \/ Options
  \/ Subrequest
  \/ Route
  \/ ListCall
  \/ ListNext
  \/ ListReturn
  \/ HandlerReturns
  \/ Resume
  \/ Answered

Spec == Init /\ [][Next]_vars

\* The frontend runs, and the handlers it calls return.
FairSpec == Spec /\ WF_vars(Next)

-----------------------------------------------------------------------------
\* Targets are sequences of names, never <<"">> (which is the empty target), a
\* frame has matched a route of its mux, and results are of the kinds above.
TypeOK ==
  LET IsTarget(t) == t \in Seq(STRING) /\ t # <<"">> IN
  /\ \A o \in {raw, opts} :
       IsTarget(o.target) /\ (o.dalecTarget = Unset \/ IsTarget(o.dalecTarget))
  /\ spec \in {"none", DefaultPlatform}
  /\ \A i \in 1..Len(stack) :
       /\ stack[i].mux \in Muxes
       /\ stack[i].at \in {"entered", "wait", "list", Builtin, Custom}
       /\ stack[i].matched \in DOMAIN HandlersOf(stack[i].mux) \cup {<<>>}
  /\ ret.kind \in {"none", "ok", "notFound", "handler", "spec", "unsupported", "forwardedTwice"}

Building == req.client.id \in {"", "dalec.target"}

\* The requested target, with the components that path.Join leaves.
Wanted == Join(req.client.target, <<>>)

\* "it modifies the client to chomp off the matched route prefix": whenever a mux
\* or a handler runs in a build, the routes matched so far, followed by the target
\* that is left, spell the requested target.  Nothing is lost, matched twice or left over,
\* although all the muxes write to one map.
RouteSpellsTarget ==
  Building /\ Running =>
    Join(FlattenSeq([i \in DOMAIN stack |-> stack[i].matched]), opts.target) = Wanted

\* "dalec.target is only modified once": every handler called in a build sees
\* the route that the root mux matched, whatever the muxes below it matched.  So
\* does every handler that a list request calls, if each call gets its own map.
TargetKeyIsTopRoute ==
  Building \/ ~req.shares =>
    \A c \in calls : c.root # <<>> => c.dalecTarget = c.root

\* A target that the spec gives a custom frontend, and whatever is below it, is
\* built by a custom frontend, also when a built-in target has the same name or
\* the key lies below a built-in target; nothing else is.
CustomFrontendWins ==
  Building =>
    \A c \in calls :
      c.to = Custom <=> \E k \in req.custom : IsPrefix(k, req.client.target)

\* The full paths of the built-in routes under the root's routes in keys.
BuiltinRoutes(keys) ==
  UNION {{k \o l : l \in DOMAIN Routes[handlers[k].to]} :
           k \in {j \in keys : handlers[j].to \in Muxes}}

CustomRoutes == {k \in DOMAIN handlers : handlers[k].to = Custom}

\* The routes from r on: their paths from the root, and what they lead to.
RoutesBelow(r) ==
  {[path |-> r.path \o k, to |-> HandlersOf(r.to)[k].to] : k \in DOMAIN HandlersOf(r.to)}

\* The routes of all muxes, as far down as the target can lead.
AllRoutes ==
  LET after[n \in 0..(Len(req.client.target) + 1)] ==
        IF n = 0 THEN {[path |-> <<>>, to |-> Root]}
        ELSE UNION {RoutesBelow(r) : r \in {s \in after[n - 1] : s.to \in Muxes}}
  IN  UNION {after[n] : n \in DOMAIN after}

\* "no such handler" is true and useful: no route to a handler is the target or
\* leads to it, unless a longer one leads to a mux; the target named is the requested
\* one, not what was left of it; every target it offers instead is the path of a route.
NotFoundIsTrue ==
  Done /\ ret.kind = "notFound" =>
    LET leading == {r \in AllRoutes : IsPrefix(r.path, req.client.target)} IN
    /\ \A r \in leading :
         r.to \in Muxes \/ \E s \in leading : s.to \in Muxes /\ IsStrictPrefix(r.path, s.path)
    /\ Join(ret.target, <<>>) = Wanted
    /\ ret.names # {}
    /\ ret.names \subseteq {r.path : r \in AllRoutes}

\* An error carries the requested target once, as the client wrote it: only the
\* outermost Handle adds it, from its copy of what the map held at the start.
ErrorNamesRequest ==
  Done /\ IsErr(ret) /\ spec # "none" =>
    ret.context = IF req.client.dalecTarget = Unset THEN <<req.client.target>> ELSE <<>>

\* Listing the targets of the root, or of one of its routes, gives every built-in
\* route by its full path, and otherwise only what custom frontends serve.
ListsEveryRoute ==
  Done /\ req.client.id = "list" /\ ret.kind = "ok" /\ req.client.target \in {<<>>} \cup DOMAIN handlers =>
    LET keys == IF req.client.target = <<>> THEN DOMAIN handlers ELSE {req.client.target} IN
    /\ BuiltinRoutes(keys) \subseteq ret.names
    /\ ret.names \subseteq BuiltinRoutes(keys) \cup {Join(k, n) : k \in keys \cap CustomRoutes, n \in CustomNames}

\* Every request is answered: the muxes below each other, and the loops of list,
\* come to an end.
RequestAnswered == <>Done

-----------------------------------------------------------------------------
\* "this is not suitable for passing to builds since it does not have platform
\* information": the spec a build is given was loaded for the platform asked for.
BuildGetsPlatformSpec ==
  \A c \in calls : Building => c.platform = req.platform
=============================================================================
