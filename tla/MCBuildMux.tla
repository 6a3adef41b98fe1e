----------------------------- MODULE MCBuildMux -----------------------------
(***************************************************************************)
(* The routes of two distros and of "debug", cut down to the shapes that   *)
(* matter: a default route, a route below another route, which is a         *)
(* handler or a mux, a mux without a default.  The spec may give a custom   *)
(* frontend to a built-in target, to a new one, or to a key below a         *)
(* built-in target.                                                        *)
(***************************************************************************)
EXTENDS BuildMux

MCMuxes == {"root", "azlinux3", "rpmdebug", "jammy", "debug"}

Nested(m) == [to |-> m, info |-> FALSE, default |-> FALSE]
Leaf(isDefault) == [to |-> Builtin, info |-> TRUE, default |-> isDefault]

MCRoutes ==
  [m \in MCMuxes |->
     CASE m = "root" -> [k \in {<<"azlinux3">>, <<"debug">>, <<"jammy">>} |-> Nested(k[1])]
       [] m = "azlinux3" -> [k \in {<<"container">>, <<"container", "depsonly">>, <<"rpm">>,
                                       <<"rpm", "debug">>} |->
                               IF k = <<"rpm", "debug">> THEN [Nested("rpmdebug") EXCEPT !.info = TRUE]
                               ELSE Leaf(k = <<"container">>)]
       [] m = "rpmdebug" -> [k \in {<<"spec">>} |-> Leaf(FALSE)]
       [] m = "jammy" -> [k \in {<<"deb">>, <<"testing", "container">>} |-> Leaf(k = <<"deb">>)]
       [] m = "debug" -> [k \in {<<"sources">>} |-> Leaf(FALSE)]]

Sorted == << <<"azlinux3">>, <<"azlinux3", "rpm">>, <<"container">>, <<"container", "depsonly">>,
             <<"deb">>, <<"debug">>, <<"ext">>, <<"jammy">>, <<"rpm">>,
             <<"rpm", "debug">>, <<"sources">>, <<"spec">>, <<"testing", "container">> >>

MCOrder == [k \in {Sorted[i] : i \in DOMAIN Sorted} |-> CHOOSE i \in DOMAIN Sorted : Sorted[i] = k]

MCSpecTargets == SUBSET {<<"azlinux3">>, <<"azlinux3", "rpm">>, <<"ext">>}

Words == {"azlinux3", "jammy", "debug", "ext", "container", "depsonly", "rpm", ""}

\* All targets of at most two components, and those of three that tell the
\* longest match, a trailing or doubled "/" and a rest below a leaf apart.
MCTargets ==
  (BoundedSeq(Words, 2) \ {<<"">>})
  \cup {<<"azlinux3", "container", w>> : w \in {"depsonly", "rpm", ""}}
  \cup {<<"azlinux3", w, "rpm">> : w \in {"", "rpm"}}
  \cup {<<"jammy", "testing", "container">>}
  \cup {<<"azlinux3", "rpm", "debug">> \o t : t \in {<<>>, <<"">>, <<"spec">>, <<"rpm">>}}

MCRequests ==
  [target : MCTargets, id : {"", "list"}, dalecTarget : {Unset}]
  \cup [target : {<<>>, <<"jammy">>}, dalecTarget : {Unset, <<>>, <<"jammy">>},
        id : {"dalec.target", "describe", "defaultPlatform", "resolve", "other"}]

MCCustomNames == {<<"x">>, <<"y">>}
=============================================================================
