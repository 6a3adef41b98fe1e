# A TLA+ model of Dalec

Dalec is a BuildKit frontend: it reads a YAML spec, and builds packages and
containers from it for several distributions. These modules model how a request
is routed, how a spec is loaded for several platforms at once, how a package is
built, signed, tested, installed, upgraded and removed, how tests run, and the
in-memory listener behind forwarded sockets. Paths below are relative to the
repository.

## The system and its parts

| Part | Source | Modules |
| --- | --- | --- |
| Request routing | `frontend/mux.go`, `cmd/frontend/main.go` | `BuildMux`, `BuildMuxProofs` |
| Spec loading, build args, forwarded specs | `load.go`, `spec.go`, `target.go`, `tests.go`, `frontend/build.go`, `frontend/request.go` | `SpecLoad` |
| Sources and patches | `source*.go`, parts of `generator_*.go` | `SpecSource`, `SourceState` |
| Merging a target over the spec, image configuration | `helpers.go`, `deps.go`, `image.go`, `imgconfig.go`, `artifacts.go` | `Artifacts` |
| Persistent caches | `cache.go`, parts of `helpers.go`, `generator_gomod.go`, `targets/linux/rpm/distro` | `Caches` |
| RPM packaging | `packaging/linux/rpm` | `RpmSpec` |
| DEB packaging | `packaging/linux/deb` | `DebRoot` |
| The machine a package is installed on | rpm, dpkg, systemd: external | `PkgHost` |
| Windows cross build | `targets/windows` | `WindowsBuild` |
| Distro handlers, signing | `targets/linux`, `targets/windows`, `frontend/gateway.go` | `Handlers`, `DistroBuild`, `PackagePromises`, `HandlerProofs`, `DeliveryProofs`, `HostProofs`, `CacheProofs`, `DistroBuildProofs` |
| Test runner | `frontend/test_runner.go`, `internal/testrunner/` | `TestRunner`, `TestRunnerProofs` |
| In-memory listener | `sessionutil/socketprovider/pipe.go` | `PipeListener`, `PipeListenerProofs`, abstract: `ConnListener` |

A client sends a request to `BuildMux`, which picks a handler by the target. The
handler loads the spec for every platform (`SpecLoad`, which extends
`SourceState` and `SpecSource`), and runs its stages (`DistroBuild`), which read
the spec through the getters of `Artifacts` and hand it to a packager (`RpmSpec`,
`DebRoot`, `WindowsBuild`). The package is installed in a container or on a host
(`PkgHost`) and tested there (`TestRunner`; in `DistroBuild` the tests are one
stage that passes or fails). `Caches` and `Artifacts` to `DistroBuild` are one chain of
EXTENDS, so a run of `DistroBuild` checks the packagers, the hosts and the
handlers together. The other parts share no state with it while they run.

## Modules

**BuildMux.** `Handle` calls handlers that are muxes again; `stack` holds one
frame per running call. Targets are sequences of their `/`-separated components,
so `a/` is `<<"a", "">>`. `raw` and `opts` are the options maps: `trimTargetOpt`
and `setClientOptOption` write through the map that `BuildOpts` returned, and
the client of the root may share its map or return copies (the stub client of
`frontend/mux_test.go` copies). `Options` is `Handler` with
`WithTargetForwardingHandler`, `Subrequest` the requests answered on the spot,
`Route` the lookup and call, `ListCall`, `ListNext` and `ListReturn` the loop of
`list`, `HandlerReturns` a built-in build or a custom frontend, `Resume` what the
caller does with the result. Sorting appears as the choice of the first or last
key in a byte order of which only one thing is assumed: a prefix sorts before
what extends it.

**SpecSource, SourceState, SpecLoad.** A string that may hold a build argument is
a word, a literal or a reference to one argument. A source is validated, filled
with defaults and substituted by three recursive walks, one operator for each
method of the code. `SourceState` turns a loaded source into what BuildKit would
deliver: a set of file paths, and whether solving it fails. Every variant is
there (git, http, image with commands, context, build, inline), with paths,
patterns and mounts, and the patches in the order of `SortMapKeys`. In `SpecLoad`
each platform of a request is a goroutine that goes through decode, `Validate`,
`FillDefaults`, the platform arguments, `SubstituteArgs` and the use of the spec.
`heap` holds the maps of build arguments, so that two goroutines that were given
the same map would be seen to write to it. A panic is a stage of its own; the
deferred recover makes it the request's error. `again` is the forwarded spec,
marshalled and loaded by another frontend.

**Artifacts.** The getters with their fall-backs from target to spec, and the merge of
image configurations. A missing map (`Nil`) and an empty one differ, as they do in
the code.

**Caches.** The keys and sharing modes of all persistent caches: the four kinds a spec
can have, tdnf's and dnf's, apt's two, and the Go module proxy's. The code joins a key
from strings with `-`, and the strings may contain a `-` themselves (`azlinux3-tdnf-cache`).
A string is therefore represented by its parts, the sequence of what lies between them
(`Dashed` gives those of the strings that have one), and joining is concatenation.

**RpmSpec, DebRoot.** A package is described by what its build reads and what ends
up in it: sources, patches applied, files with permissions, dependency fields,
units, and scripts as sequences of commands. `%install` and `%files`, or the
debhelper lists and the install script, are separate operators, as in the code;
the build fails when they disagree.

**PkgHost.** A host is its files with owners, users, groups, enabled units and
whether the last command failed. The scripts run on it command by command.

**WindowsBuild.** The build script, which is run without `-e`, the script that
collects binaries, and links that are copies.

**Handlers.** `Routes`, which a distro registers, and `Handler`, the list of the stages
of each route, in the order in which the handler calls them.

**DistroBuild.** One action per stage. `mounts` holds what every command of every build
so far has mounted as a persistent cache. LLB is lazy, so a failure inside a state is recorded (`ok`) and
comes out only in the stage that solves it. A request may have one failing
service (`fault`), named for the stage it hits, and named contexts that are
present, missing or in error. `HostInstall`, `AdminToggle`, `HostUpgrade` and
`HostRemove` are what happens to a delivered package. `NextRequest` is a second
request, which finds nothing of the first but the persistent caches.

**PackagePromises.** What a spec means, stated without the packagers' rules, and
the properties that compare it with what was built and installed.

**TestRunner.** One goroutine per test. A test is a plan: the outcome of each
step and of its file checks. `RunStep` and `RunFileChecks` are the commands in
the containers, which append to the errors file `output`; `ReadResults` decodes
it; `AddError`, `Finish` and `Wait` are `errGroup`. Which goroutine is started
first is left open; the code goes through a list, and no property depends on it.
The panic of `RunTests` for a client without a frontend image is left out.

**PipeListener.** One step per critical section of `pl.mu` and per channel
operation. The variables are the fields of the struct (`closed`, `chConn`,
`conns`), the position of each goroutine in `Accept` (`apc`, `held`) or `Dialer`
(`dpc`, `offer`), and the two ends of each pipe (`far`, `near`). The channel is
unbuffered: `HandOff` is a send and a receive in one step, `AcceptNil` the receive
from a closed channel, `DialPanics` the send to one. `closedCh` is never closed by
the code and is left out with the branch that waits for it. `ConnListener` is what
a caller may rely on: connections are handed over and served only while the
listener is open, and closing it closes them. The mapping hides pipes that have
not been handed over.

Modules contain `Mutant` operators: plausible faulty versions of a definition,
each of which breaks a property. No specification uses them.

## What is model-checked

| Run | Instance | Distinct states | Shows |
| --- | --- | --- | --- |
| `MCPipeListener.cfg` | 2 acceptors, 2 dialers, 3 pipes | 21,282 | types, ownership, no orphan, `Close` reclaims everything, refinement of `ConnListener`, `Close` drains and unblocks |
| `MCPipeListenerPanic.cfg` | same | violated | a `Dialer` can panic |
| `MCPipeListenerAcceptAfterClose.cfg` | same | violated | an `Accept` after `Close` can block for ever |
| `MCBuildMux.cfg` | 5 muxes, targets of up to 4 components, 8 sets of custom frontends | 28,638 | routing, target key, errors, lists, termination |
| `MCBuildMuxForwardedSpec.cfg` | same, 2 platforms | violated | a custom frontend gets the spec of the default platform |
| `MCTestRunner.cfg` | 2 tests, up to 2 steps each | 224,892 | no error lost, failures surface, `RunTests` returns |
| `MCTestRunnerOutput.cfg` | same | violated | a failed output check does not fail the test |
| `MCSpecLoad.cfg` | documents of every kind of source, 1 or 2 platforms | 7,707 | panics, auth, substitution, platform arguments, forwarding, source trees, patches, termination |
| `MCSpecLoadAuth.cfg` | same | violated | an explicit auth entry is replaced |
| `MCSpecLoadMount.cfg` | same | violated | a mounted source applies its patterns in the wrong place |
| `MCDistroBuild.cfg` | some 150 requests, one follow-up request, 2 changes by an administrator | 3,915 | packages, containers and machines are as the spec declares; success and errors are justified; caches |
| `MCDistroBuildPatches.cfg` | same | violated | two patch files of one source overwrite each other in a deb |

*What the properties say.* For `BuildMux`: the routes matched and the target left
over always spell the requested target; handlers see the root's route as
`dalec.target`; custom frontends win over built-in targets; "no such handler" is
true and offers real targets; an error names the request once; lists are complete.
For `SpecLoad`: a panic needs one of two known causes; `PlatformArgsOwn` says that
each platform's spec has that platform's arguments however the loads interleave;
`SubstitutionComplete` that no declared argument is left at any depth;
`ForwardedReloads` that the marshalled spec loads to the same spec elsewhere;
`SourceContents` and `PatchesApply` compare the trees the build sees with a
definition of what a source and a patch mean. For `DistroBuild`:
`PackageCarriesDeclared` (files, permissions, dependencies as rpm and dpkg read
them, sources, changelog), `OwnersAsDeclared`, `UnitsAsDeclared`,
`AdminChoiceKept`, `LifecycleIsClean`, `ImageConfigAsDeclared`, `CachesApart` (two
mounts with one key are for one use, one distro and, where the cache is meant to be
apart by platform, one platform; a package manager's are locked), and, for the handlers,
`SuccessIsReal` (what was tested and signed is what is delivered, it is the client's own
package where there is one, and every command of a build succeeded) and
`ErrorsAreJustified`.

*Bounds.* Two acceptors and two dialers give every race between two calls of a
kind and `Close`; with three pipes one dialer can dial again after a cancelled or
finished call. The routes include a default, a mux without a default, and a handler
and a mux below another route (`rpm` and `rpm/debug` of the rpm distros), and the targets
include trailing and doubled slashes and rests below a leaf. The muxes are nested three
deep, as in the frontend; the proofs cover any depth. Two tests suffice for every race between two goroutines, and two
steps for one step before or after any other. Two platforms give every
interleaving of two loads; the documents nest sources three deep (a source, the
mount of its command or build, and a source in that). The requests of
`DistroBuild` start from a plain one per distro and change what they are about:
each artifact kind and its rename, subpath, wildcard, permission and owner; each
dependency field and operator; each route; a service that fails in each of the main
stages; each way to supply a worker, a package, a signer or a base image. A handler
is sequential, so the states per request are few and the number of requests is what
counts.
`MaxToggles` is 2, so that a unit can be changed and changed back before an
upgrade. One follow-up request suffices for `CachesApart`, which is about pairs.

*Fairness.* A goroutine that can go on does: Go schedules every runnable
goroutine. In `PipeListener` only `Accept` and the hand-over are fair; nobody has
to call, cancel or hang up. In `BuildMux` the next step is always taken, which
assumes that handlers return. In `TestRunner` BuildKit finishes the commands it
runs; nothing makes an evaluation fail. In `SpecLoad` each platform's goroutine
and the one that waits for them are fair. `DistroBuild` states no liveness: its
stages are a finite list. `CHECK_DEADLOCK FALSE` is used where the system may
stop: when nobody calls the listener, after `RunTests` has returned, and once a
request has been answered.

## What the violations show

1. `sessionutil/socketprovider/pipe.go:79`: `Dialer` checks `pl.closed` under the
   mutex and sends outside it; `Close` in between closes the channel and the send
   panics.
2. `sessionutil/socketprovider/pipe.go:27`: `Accept` does not check `pl.closed`
   first. If the listener was closed before the channel was made, it makes a new
   one and waits for ever.
3. `frontend/mux.go:588`: the spec cached for routing, "not suitable for passing to
   builds since it does not have platform information" (line 207), is forwarded to
   custom frontends.
4. `frontend/test_runner.go:159`: a failed stdout or stderr check wraps a nil error
   and is dropped.
5. `generator_gomod.go:38`: for a git URL whose host is an argument, the auth of the
   source replaces an explicit entry of the generator, against "Don't overwrite
   explicitly-specified auth" (`source.go:331`).
6. `source.go:582`: a mounted source matches its patterns from the root of the tree
   and not below its path, as `website/docs/sources.md:29` has it.
7. `packaging/linux/deb/debroot.go:69`: two patch files of one directory source are
   copied to one path; `website/docs/sources.md:600` shows such a spec.

## Known gaps the passing properties leave out

The properties of the passing runs exclude what the code is known to do
differently, each time by a named operator or conjunct, so that they say
something about everything else. These are the places; most of them have no
document to contradict, which is why they are not violations.

- Deb files: a wildcard that names one file, a renamed manual page, and a file whose
  destination is a directory the spec declares land elsewhere (`PlacedElsewhere`); a wildcard's permission, and one that comes from a
  source, may not be set (`PermUnset`); documentation, licenses included, is left
  out of a container made from an Ubuntu image (`LeftOutOfImage`).
- Deb changelog: the package has the oldest entry of the spec (`OldestTaken`), where
  `packaging/linux/deb/template_changelog.go` says "Get the most recent changelog entry
  only" (line 76) and "Sort so newest entry (by change date) is on top" (line 82).
- Prebuilt packages: when the lookup of a context fails, the package is built instead
  (`LookupFailed`), where `targets/linux/distro_handler.go` says "surface the error up
  when the state gets marshalled" (lines 244 and 258). The state with the error is
  returned together with `false` and the caller drops it.
- System extensions: when spec and target both have dependencies, the merge drops
  the extension's packages (`SysextForgotten`).
- Patches: a source with a node modules generator is patched twice
  (`PatchedTwice`).
- Specs that load and do not build or install: `PackagerLimit`, `PostinstLimit`.
- Windows: lines of a step that fail, except the last, and the line after a step's
  variables are passed over (`HidesFailure`); where a word of that line is no name, the
  export fails and with it the build (`PackagerLimit`).
- Owners: rpm sets those of four kinds of artifacts only (`OwnerUnset`), and that of
  a wildcard on the whole directory (`TakesDirectory`).
- Units: a postinst of dalec's own loses debhelper's snippet (`SnippetLost`); rpm's
  `%preun` uses a renamed unit's old name (`RenamedUnit`) and ignores units the spec
  does not enable (`PassedOver`).
- Image environment: a value the base image has, set back by a later layer, stays
  where the base has it and the layer between wins (`Reverted`), where `image.go:105`
  says "If the env var already exists, replace it". A target's user is not merged
  (`TargetUserIgnored`), where `website/docs/virtual-packages.md:93` says "Override image
  settings for specific targets".
- Caches: one that opts out of the names (`no_auto_namespace`) is whoever's uses the key.
  The downloads of an rpm distro's deps-only target are run without a platform
  (`targets/linux/rpm/distro/container.go:104`), so their cache is named for the
  builder's platform, whatever was asked for (`placed`).
- Loading: the two panics of `PanicOnlyWhereUnchecked`; the two obstacles of
  `ForwardedReloads` (the epoch in a build without steps, a required field that an
  argument made empty); patches of sources that are patched themselves.
- Routing: `TargetKeyIsTopRoute` says nothing of a list request whose client shares
  its options map. There `list` (`frontend/mux.go:279`) calls every handler with the
  `dalec.target` set for the first one; it matters only to a custom frontend that
  looks at the key when it lists its targets.
- The liveness properties of the listener exclude a panicked `Dialer`.

## What is proved

`PipeListenerProofs`, for all sets of acceptors, dialers and pipes, from
`NoPipeAssumption` (the absent connection is not a pipe):

- `TypeCorrect` and `PipesOwned`: `TypeOK` and `Ownership` always hold. `CloseReclaims`
  is not inductive by itself: one has to know that whatever was served is in `conns`,
  that an `Accept` between its two sections holds a pipe nobody else holds, and
  that a waiting dialer's pipe has not been handed over. `Ownership` says that.
- `CloseReclaimsAll` and `NothingOrphaned` follow from it.
- `ListenerRefinement`: every step is a step of `ConnListener` or a stutter.

`TestRunnerProofs`, for every finite set of tests and all plans, from
`TestsAssumption` and `PlansAssumption`:

- `GroupCorrect`: the WaitGroup's count is the number of running goroutines and
  the collected errors are those of the goroutines that have added theirs. The
  finiteness of `Tests` is needed for the cardinality.
- `TypeCorrect` and `ErrorsAllReported`: `TypeOK` and `NoErrorLost`, for which `GroupInv`
  is the strengthening.
- `ExitEndsTest` and `FailuresReported`: `StopsAtExit` and `FailureSurfaces`. For these one
  has to know of each goroutine, at each of its positions, which of its plan's outcomes
  the errors file already holds.

`BuildMuxProofs`, for every tree of muxes and every set of routes, requests and custom
frontends, from `RootAssumption`, `OrderAssumption` (the order of the keys is total and
sorts a prefix before what extends it) and `KeysAssumption` (keys are strings and not
empty, and lead to a mux or a handler):

- `LongestRouteWins`: the last of the sorted candidates is the longest route that
  leads to the target. Prefixes of one target nest (`PrefixesNest`), so the longest
  extends all the others and sorts after them.
- `ErrorsNameTheRequest` and `TargetKeyKept`: `ErrorNamesRequest` and
  `TargetKeyIsTopRoute` always hold. The inductive invariant `MuxInv` adds the shape
  of the frames, that only the first call was entered without `dalec.target` and
  still has the target the client sent, that no error has a context before that call
  ends, and that below the root the key in the options map is what the root matched.
  Every action is one of three kinds of steps (a call returns, goes on, or calls),
  for which the invariant is shown once each.

`DeliveryProofs`, on the lemmas of `HandlerProofs`, for all requests, specs, distros and
orders of requests, from `RequestsAssumption` (a request is for a route its distro
registers, its contexts are of the two kinds, its steps are lists of commands) and
`CasesAssumption` (the follow-up requests are among the requests):

- `SuccessMeansDone` and `TypeCorrect`: `SuccessIsReal` and `TypeOK` always hold.
  `SuccessIsReal` says nothing of a request that runs. The inductive invariant `Run` does:
  `HandlerProofs` gives the stages ranks (prebuilt, build, sign, tests, container), shows
  of every handler that its ranks never go down, and states what is left (`WhatsLeft`) and
  what is known of the package once the phase of a rank is over (`WhatsDone`). Every action
  of `DistroBuild` is one of a few kinds of stages, with one lemma each.

`DistroBuildProofs`, on the lemmas of `HostProofs` and `CacheProofs`, for all specs,
distros and orders of events, from `CasesAssumption` (a cache is of one of the four
kinds), `KeyOrderAssumption` and `ArtifactsAssumption` (the users, groups and links of a
spec are lists, and keys are strings):

- `AdminChoiceStands`: `AdminChoiceKept` always holds. `HostProofs` shows of each script
  of a package, command by command, which units it can enable or disable on a host. On a
  deb distro the scripts enable a unit only when they have not done so before; the
  invariant (`HostInv`) has that an installation has seen every unit of the package
  (`EnabledSeen`), however often the administrator has changed them since.
- `CachesKeptApart`: `CachesApart` always holds, from `CacheNamesAssumption` and
  `DashedAssumption`: no name of a distro or of its caches has a platform among its parts,
  and no two distros share one. The invariant says of a single mount how its key
  begins (`Marked`): the first part that is a platform, if there is one, separates the
  name from what follows, so two equal keys have the same name before it and the same
  platform there, from which the statement about pairs follows. A key of a spec goes on
  behind the platform and one of a package manager ends there, which keeps the uses apart.

Only model-checked: all liveness properties, since fairness is beyond the prover;
the properties of `SpecLoad`, whose walks over nested sources are RECURSIVE
operators; the properties of `PackagePromises` other than `SuccessIsReal`, `CachesApart`
and `AdminChoiceKept`, which compare the results of computations over finite maps and
sequences for given specs; and the remaining properties of `BuildMux`, which are about
path joining and the whole tree of routes.

## Not modelled

- Socket forwarding other than the listener (`mux.go`, `proxy.go`, `io.go` of
  `sessionutil/socketprovider`), and `frontend/pkg/bkfs`: byte streams and
  positions in one file, and one comparison of prefixes.
- YAML syntax, the source map, JSON schema and error positions.
- The text of the templates, shell scripts, Dockerfiles and control files; the
  models have what the text makes rpm, dpkg, debhelper or the shell do.
- The commands that download dependencies in the generators, the git configuration
  script and the credential helper, the command lines of dnf and apt, repository
  keys, the download of sccache.
- The copying of options into a forwarded request, and `IgnoreCache`, whose list
  never matches.
- `fixupListResult` (never reached) and `LoadBuiltinTargets` (not called by
  `dalecMain`). The plugin registry and the routes it fills are a constant of
  `BuildMux`; the routes under `frontend/debug` call one function each.
- The tools outside the frontend: retagger, test event converter, code and document
  generators, linters, website.

BuildKit, gRPC, rpm, dpkg, debhelper, systemd and the container runtime are
represented by what the code uses them for; their definitions in `RpmSpec`,
`DebRoot` and `PkgHost` are assumptions of the model, not translations.
