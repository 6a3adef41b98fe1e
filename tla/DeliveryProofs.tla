--------------------------- MODULE DeliveryProofs ---------------------------
(***************************************************************************)
(* What a request delivers when it succeeds, for every request, spec and    *)
(* distro: every action of DistroBuild is one of the stages HandlerProofs   *)
(* has a lemma on.                                                          *)
(***************************************************************************)
EXTENDS PackagePromises, HandlerProofs

-----------------------------------------------------------------------------
(* The invariant.                                                           *)
Requests == {Cases[r] : r \in DOMAIN Cases}

(* What is done and what is left of the request that runs.                  *)
Run == Running(req, todo, pkg, ctr, tested, WantedSigner, HidesFailure)

(* Inductive: SuccessIsReal by itself says nothing of a request that runs.  *)
DeliveryInv ==
    /\ req \in Requests
    /\ result = "running" => Run
    /\ SuccessIsReal

(* Every request is for a route that its distro registers.                  *)
LEMMA RequestPlanned ==
    ASSUME NEW q \in Requests
    PROVE  /\ q.distro \in {"rpm", "deb", "windows"}
           /\ Planned(q.distro, q.route, Handler(q.distro, q.route))
  BY RequestsAssumption, HandlersPlanned DEF Requests

(* A stage that goes on keeps the invariant when it keeps Running.          *)
LEMMA GoesOn ==
    ASSUME req' = req, result' = "running", req \in Requests,
           Running(req, todo', pkg', ctr', tested', WantedSigner, HidesFailure)
    PROVE  DeliveryInv'
  <1>1. WantedSigner' = WantedSigner
    BY Zenon DEF WantedSigner, RqSpec
  <1>2. HidesFailure' = HidesFailure
    BY DEF HidesFailure, RqSpec
  <1> QED
    BY <1>1, <1>2 DEF DeliveryInv, Run, SuccessIsReal

(* A stage that returns an error keeps it in any case.                      *)
LEMMA Fails ==
    ASSUME req' = req, result' = "error", req \in Requests
    PROVE  DeliveryInv'
  BY DEF DeliveryInv, SuccessIsReal

(* A build that succeeds has run every command of the spec, except where the*)
(* Windows build script hides a failure.                                    *)
LEMMA BuildIsComplete ==
    ASSUME Build, req \in Requests
    PROVE  /\ IsPkg(pkg') /\ pkg'.origin = "build" /\ pkg'.signer = Unsigned
           /\ pkg'.build.ok => pkg'.build.complete \/ HidesFailure
  <1> DEFINE b == CASE req.distro = "rpm" -> RpmBuild(RqSpec, req.target)
                    [] req.distro = "deb" -> BuildDeb(RqSpec, req.target, pkg.build)
                    [] OTHER             -> BuildBinaries(RqSpec, req.target)
             ok == /\ b.ok /\ pkg.build.ok /\ worker.ok /\ NetworkMode(RqSpec) # "error"
                      /\ req.fault # "build"
             c == [b EXCEPT !.ok = ok]
  <1>1. pkg' = [NoPkg EXCEPT !.origin = "build", !.arts = RqArtifacts, !.build = c]
    BY DEF Build
  <1>2. "ok" \in DOMAIN b /\ "complete" \in DOMAIN b
    BY DEF RpmBuild, BuildDeb, BuildBinaries
  <1>3. b.ok => b.complete \/ HidesFailure
    <2>1. CASE req.distro = "rpm"
      BY <2>1 DEF RpmBuild
    <2>2. CASE req.distro = "deb"
      BY <2>2 DEF BuildDeb
    <2>3. CASE req.distro \notin {"rpm", "deb"}
      <3> SUFFICES ASSUME b.ok, ~HidesFailure PROVE b.complete
        OBVIOUS
      <3>1. req.distro = "windows" /\ b = BuildBinaries(RqSpec, req.target)
        BY <2>3, RequestPlanned
      <3>2. /\ b.complete <=> ScriptSucceeds(RqSpec)
               /\ \A i \in DOMAIN RqSpec.steps : ~RqSpec.steps[i].env
            /\ CreateBuildScript(RqSpec)
        BY <3>1, Zenon DEF BuildBinaries
      <3>3. SUFFICES ASSUME NEW i \in DOMAIN RqSpec.steps
                     PROVE  ~RqSpec.steps[i].env
                            /\ \A j \in DOMAIN RqSpec.steps[i].cmds : RqSpec.steps[i].cmds[j]
        BY <3>2 DEF ScriptSucceeds
      <3>4. RqSpec.steps[i].cmds \in Seq(BOOLEAN)
        BY RequestsAssumption DEF Requests, RqSpec
      <3>5. ~RqSpec.steps[i].env /\ FALSE \notin ToSet(Front(RqSpec.steps[i].cmds))
        BY <3>1, Zenon DEF HidesFailure
      <3>6. RqSpec.steps[i].cmds = <<>> \/ Last(RqSpec.steps[i].cmds)
        BY <3>2, <3>5 DEF CreateBuildScript, StepLines
      <3> QED
        BY <3>4, <3>5, <3>6, AllLines, Zenon DEF ToSet, Front, Last
    <2> QED
      BY <2>1, <2>2, <2>3
  <1>4. c.ok = ok /\ c.complete = b.complete
    BY <1>2
  <1> HIDE DEF c, b
  <1>5. pkg'.origin = "build" /\ pkg'.build = c /\ pkg'.signer = NoPkg.signer /\ IsPkg(pkg')
    BY <1>1, Zenon DEF NoPkg, IsPkg
  <1>6. NoPkg.signer = Unsigned
    BY DEF NoPkg, Unsigned
  <1> QED
    BY <1>3, <1>4, <1>5, <1>6, Zenon

-----------------------------------------------------------------------------
(* What each action does, as far as the promise and the types are concerned.*)
GoneOn == todo' = Tail(todo) /\ result' = "running"
GivenUp == todo' = <<>> /\ result' = "error"
StageFrame ==
    /\ req' = req /\ UNCHANGED <<life, toggles, served>>
    /\ worker' = worker \/ worker'.ok \in BOOLEAN

(* The stages that QuietStage is about.                                     *)
QuietStep ==
    \/ Validate \/ Worker \/ VersionID \/ InstallBuildDeps \/ GoCache \/ Evaluate \/ ImgConfig
    \/ RtDeps \/ ToolCheck \/ WorkerConfig \/ WinBases \/ WinValidate

(* They leave the package, the container and the tested package alone.      *)
LEMMA QuietSteps ==
    ASSUME QuietStep
    PROVE  /\ result = "running" /\ todo # <<>> /\ UNCHANGED <<req, pkg, ctr, tested>>
           /\ Head(todo) \notin {"prebuilt", "build", "sign", "container", "winimage", "tests"}
           /\ StageFrame /\ (GivenUp \/ GoneOn)
  <1>1. CASE InstallBuildDeps
    <2>1. worker' = worker \/ worker'.ok \in BOOLEAN
      BY <1>1, Zenon DEF InstallBuildDeps
    <2> QED
      BY <1>1, <2>1 DEF InstallBuildDeps, At, Advance, hostVars, StageFrame, GoneOn
  <1>2. CASE \/ Validate \/ Worker \/ VersionID \/ GoCache \/ Evaluate \/ ImgConfig
             \/ RtDeps \/ ToolCheck \/ WorkerConfig \/ WinBases \/ WinValidate
    <2>1. /\ result = "running" /\ todo # <<>> /\ UNCHANGED <<req, pkg, ctr, tested>>
          /\ Head(todo) \notin {"prebuilt", "build", "sign", "container", "winimage", "tests"}
          /\ UNCHANGED <<worker, life, toggles, served>>
          /\ \/ todo' = <<>> /\ result' = "error"
             \/ todo' = Tail(todo) /\ result' = "running"
      BY <1>2, Zenon DEF Validate, Worker, VersionID, GoCache, Evaluate, ImgConfig, RtDeps,
          ToolCheck,
                  WorkerConfig, WinBases, WinValidate, At, Check, Advance, Return, reqVars,
                  hostVars
    <2> QED
      BY <2>1 DEF StageFrame, GoneOn, GivenUp
  <1> QED
    BY <1>1, <1>2 DEF QuietStep

(* The stages that EarlyStage is about.                                     *)
SourceStep == SrcPkg \/ Downloads \/ Sources

(* They make sources or downloads, never a package.                         *)
LEMMA SourceSteps ==
    ASSUME SourceStep
    PROVE  /\ result = "running" /\ todo # <<>> /\ UNCHANGED <<req, ctr, tested>>
           /\ IsPkg(pkg') /\ pkg'.origin \in {"source", "deps"}
           /\ pkg'.origin \notin {"build", "target", "generic"}
           /\ Head(todo) \in {"srcpkg", "downloads", "sources"}
           /\ StageFrame /\ (GivenUp \/ GoneOn)
  <1>1. CASE SrcPkg
    <2>1. IsPkg(pkg') /\ pkg'.origin = "source"
      BY <1>1, Zenon DEF SrcPkg, NoPkg, IsPkg
    <2> QED
      BY <1>1, <2>1 DEF SrcPkg, At, Advance, Return, hostVars, reqVars, StageFrame, GoneOn,
          GivenUp
  <1>2. CASE Downloads
    <2>1. IsPkg(pkg') /\ pkg'.origin = "deps"
      BY <1>2, Zenon DEF Downloads, NoPkg, IsPkg
    <2> QED
      BY <1>2, <2>1 DEF Downloads, At, Advance, hostVars, reqVars, StageFrame, GoneOn, GivenUp
  <1>3. CASE Sources
    <2>1. IsPkg(pkg') /\ pkg'.origin = "source"
      BY <1>3, Zenon DEF Sources, NoPkg, IsPkg
    <2> QED
      BY <1>3, <2>1 DEF Sources, At, Advance, hostVars, reqVars, StageFrame, GoneOn, GivenUp
  <1> QED
    BY <1>1, <1>2, <1>3 DEF SourceStep

(* BuildContainer and WinImage: a container that can be solved has a package*)
(* that can.                                                                *)
LEMMA ContainerSteps ==
    ASSUME BuildContainer \/ WinImage
    PROVE  /\ result = "running" /\ todo # <<>> /\ UNCHANGED <<req, pkg, tested>>
           /\ ctr'.ok \in BOOLEAN /\ (ctr'.ok => pkg.build.ok)
           /\ Head(todo) \in {"container", "winimage"}
           /\ StageFrame /\ (GivenUp \/ GoneOn)
  <1>1. CASE BuildContainer
    BY <1>1 DEF BuildContainer, At, Advance, Return, hostVars, reqVars, StageFrame, GoneOn,
        GivenUp
  <1>2. CASE WinImage
    BY <1>2, Zenon DEF WinImage, At, Check, Advance, Return, hostVars, reqVars, StageFrame,
        GoneOn, GivenUp
  <1> QED
    BY <1>1, <1>2

(* Prebuilt: the package of the contexts, or the next stage.                *)
LEMMA PrebuiltSteps ==
    ASSUME Prebuilt, req \in Requests
    PROVE  /\ result = "running" /\ todo # <<>> /\ Head(todo) = "prebuilt" /\ result' = "running"
           /\ StageFrame /\ UNCHANGED <<ctr, tested>>
           /\ \/ todo' = Tail(todo) /\ pkg' = pkg /\ (Failed(req) \/ Sought(req) = "build")
              \/ /\ todo' = SubSeq(todo, AfterSign + 1, Len(todo))
                 /\ IsPkg(pkg') /\ pkg'.origin \in {"target", "generic"}
                 /\ ~Failed(req) => pkg'.origin = Sought(req)
  <1>1. /\ result = "running" /\ todo # <<>> /\ Head(todo) = "prebuilt" /\ result' = "running"
        /\ StageFrame /\ UNCHANGED <<ctr, tested>>
    BY DEF Prebuilt, At, Advance, hostVars, StageFrame
  <1>2. req.ctxPkgs \subseteq {"target", "generic"}
    BY RequestsAssumption DEF Requests
  <1>3. CASE GetPrebuiltPackage = "none"
    <2>1. Failed(req) \/ Sought(req) = "build"
      BY <1>2, <1>3 DEF GetPrebuiltPackage, Failed, Sought
    <2> QED
      BY <1>1, <1>3, <2>1 DEF Prebuilt, Advance
  <1>4. CASE GetPrebuiltPackage # "none"
    <2>1. /\ GetPrebuiltPackage \in {"target", "generic"}
          /\ ~Failed(req) => GetPrebuiltPackage = Sought(req)
      BY <1>4 DEF GetPrebuiltPackage, Failed, Sought
    <2>2. IsPkg(pkg') /\ pkg'.origin = GetPrebuiltPackage
      BY <1>4, Zenon DEF Prebuilt, NoPkg, IsPkg
    <2>3. todo' = SubSeq(todo, AfterSign + 1, Len(todo))
      BY <1>4 DEF Prebuilt
    <2> QED
      BY <1>1, <2>1, <2>2, <2>3
  <1> QED
    BY <1>3, <1>4

(* AfterSign is the only sign stage.                                        *)
LEMMA AfterSignIs ==
    ASSUME NEW k \in 1..Len(todo), {i \in 1..Len(todo) : todo[i] = "sign"} = {k}
    PROVE  AfterSign = k
  <1>1. AfterSign = Min({k})
    BY Zenon DEF AfterSign, SelectInSeq
  <1>2. Min({k}) = k
    BY DEF Min
  <1> QED
    BY <1>1, <1>2

(* Sign gives the package the signer that the request and the spec ask for  *)
(* (MaybeSign, GetSigner), or ends the request.                             *)
LEMMA SignSteps ==
    ASSUME Sign, IsPkg(pkg)
    PROVE  /\ result = "running" /\ todo # <<>> /\ Head(todo) = "sign"
           /\ UNCHANGED <<req, ctr, tested>>
           /\ IsPkg(pkg') /\ pkg'.origin = pkg.origin /\ pkg'.build = pkg.build
           /\ StageFrame
           /\ \/ GivenUp
              \/ /\ GoneOn
                 /\ pkg.signer = Unsigned => pkg'.signer = WantedSigner
  <1> DEFINE signer == MaybeSign(GetSigner(RqSpec, req.target))
  <1>0. pkg' = pkg \/ pkg' = [pkg EXCEPT !.signer = signer]
    BY Zenon DEF Sign
  <1>1. IsPkg(pkg') /\ pkg'.origin = pkg.origin /\ pkg'.build = pkg.build
    BY <1>0 DEF IsPkg
  <1>2. /\ result = "running" /\ todo # <<>> /\ Head(todo) = "sign"
        /\ UNCHANGED <<req, ctr, tested>>
        /\ StageFrame /\ (GivenUp \/ (GoneOn /\ signer # "error"))
    BY Zenon DEF Sign, At, Advance, Check, Return, hostVars, StageFrame, GoneOn, GivenUp
  <1>3. signer # "error" => signer = WantedSigner
    BY Zenon DEF MaybeSign, SigningDisabled, GetSigner, HasValidSigner, WantedSigner, Prefer
  <1>4. pkg' = [pkg EXCEPT !.signer = signer] \/ (pkg' = pkg /\ signer = Unsigned)
    BY Zenon DEF Sign, Unsigned
  <1> HIDE DEF signer
  <1>5. pkg.signer = Unsigned => pkg'.signer = signer
    BY <1>4 DEF IsPkg
  <1> QED
    BY <1>1, <1>2, <1>3, <1>5

(* A system extension is made of the package as it is.                      *)
LEMMA ExtractSteps ==
    ASSUME Extract, IsPkg(pkg)
    PROVE  /\ result = "running" /\ todo # <<>> /\ Head(todo) = "extract"
           /\ UNCHANGED <<req, ctr, tested>>
           /\ IsPkg(pkg') /\ pkg'.origin = pkg.origin /\ pkg'.build = pkg.build
              /\ pkg'.signer = pkg.signer
           /\ StageFrame /\ GoneOn
  <1>1. IsPkg(pkg') /\ pkg'.origin = pkg.origin /\ pkg'.build = pkg.build
        /\ pkg'.signer = pkg.signer
    BY DEF Extract, IsPkg
  <1> QED
    BY <1>1 DEF Extract, At, Advance, hostVars, StageFrame, GoneOn

(* RunTests goes on only with the package that passed.                      *)
LEMMA TestSteps ==
    ASSUME RunTests
    PROVE  /\ result = "running" /\ todo # <<>> /\ Head(todo) = "tests"
           /\ UNCHANGED <<req, pkg, ctr>>
           /\ StageFrame
           /\ \/ GivenUp
              \/ /\ GoneOn
                 /\ req.tests # "none" => req.tests = "pass" /\ tested' = pkg
  BY DEF RunTests, At, Advance, Check, Return, hostVars, reqVars, StageFrame, GoneOn, GivenUp

(* Deliver ends the request, with success only for what was promised.       *)
LEMMA DeliverSteps ==
    ASSUME Deliver, Run, req \in Requests
    PROVE  /\ result = "running" /\ StageFrame /\ todo' = <<>> /\ result' \in {"ok", "error"}
           /\ UNCHANGED <<pkg, ctr>> /\ SuccessIsReal'
  <1>0. /\ result = "running" /\ todo # <<>> /\ Head(todo) = "deliver"
        /\ UNCHANGED <<req, pkg, ctr, tested>>
        /\ todo' = <<>> /\ result' = IF Delivered THEN "ok" ELSE "error"
    BY DEF Deliver, At, Return, reqVars
  <1>f. StageFrame
    BY DEF Deliver, reqVars, hostVars, StageFrame
  <1>1. WantedSigner' = WantedSigner
    BY <1>0 DEF WantedSigner, RqSpec
  <1>2. HidesFailure' <=> HidesFailure
    BY <1>0 DEF HidesFailure, RqSpec
  <1>3. req.distro # "windows" <=> Linux
    BY RequestPlanned DEF Linux, Deb, Rpm
  <1>4. SUFFICES ASSUME Delivered, Packaged(req) PROVE SuccessIsReal'
    BY <1>0, <1>f DEF SuccessIsReal, Packaged, PackageRoutes
  <1>5. IF req.route = "container" THEN ctr.ok ELSE pkg.build.ok
    BY <1>4 DEF Delivered, GetZip, Packaged, PackageRoutes
  <1>6. Promised(req, pkg, tested, WantedSigner, HidesFailure)
    BY <1>0, <1>4, <1>5, DeliverStage DEF Run
  <1>7. Linux' <=> Linux
    BY <1>0 DEF Linux, Deb, Rpm
  <1> QED
    BY <1>0, <1>1, <1>2, <1>3, <1>6, <1>7 DEF Promised, SuccessIsReal, UsesContext, Failed,
        Sought, LookupFailed, WantedOrigin

(* Build goes on to the next stage whether or not the package can be solved.*)
LEMMA BuildSteps ==
    ASSUME Build
    PROVE  /\ result = "running" /\ todo # <<>> /\ Head(todo) = "build"
           /\ UNCHANGED <<ctr, tested>>
           /\ StageFrame /\ GoneOn
  BY DEF Build, At, Advance, hostVars, StageFrame, GoneOn

(* The kinds of stages.                                                     *)
StageKinds ==
    \/ QuietStep \/ SourceStep \/ (BuildContainer \/ WinImage) \/ Prebuilt \/ Build \/ Sign
    \/ Extract
    \/ RunTests \/ Deliver

(* Every stage is of one of them.                                           *)
LEMMA Kinds == Stage => StageKinds
  BY Zenon DEF Stage, StageKinds, QuietStep, SourceStep

(* A stage is a step of a request that runs.                                *)
LEMMA StageRuns ==
    ASSUME Stage, DeliveryInv
    PROVE  result = "running" /\ todo # <<>> /\ req \in Requests /\ Run /\ IsPkg(pkg)
  <1>1. result = "running" /\ todo # <<>>
    <2>1. CASE Deliver
      BY <2>1 DEF Deliver, At
    <2> QED
      BY <2>1, Kinds, QuietSteps, SourceSteps, ContainerSteps, BuildSteps, TestSteps,
          Zenon DEF StageKinds, Prebuilt, Sign, Extract, At
  <1> QED
    BY <1>1 DEF DeliveryInv, Run, Running, WhatsDone

(* What every stage leaves alone, and where it goes.                        *)
LEMMA StageKept ==
    ASSUME Stage, DeliveryInv
    PROVE  /\ StageFrame
           /\ \/ GoneOn
              \/ todo' = <<>> /\ result' \in {"ok", "error"}
              \/ /\ Prebuilt /\ result' = "running"
                 /\ todo' = SubSeq(todo, AfterSign + 1, Len(todo))
           /\ ctr' = ctr \/ ctr'.ok \in BOOLEAN
           /\ \/ pkg'.origin = pkg.origin
              \/ pkg'.origin \in {"source", "build", "target", "generic", "deps"}
  BY StageRuns, Kinds, QuietSteps, SourceSteps, ContainerSteps, PrebuiltSteps, BuildSteps,
     BuildIsComplete, SignSteps, ExtractSteps, TestSteps, DeliverSteps, Zenon DEF StageKinds,
     GivenUp, GoneOn

(* Every stage keeps the invariant.                                         *)
LEMMA StageDelivers ==
    ASSUME Stage, DeliveryInv
    PROVE  DeliveryInv'
  <1>1. req \in Requests /\ Run /\ IsPkg(pkg)
    BY StageRuns
  <1>2. CASE QuietStep
    BY <1>1, <1>2, QuietSteps, QuietStage, GoesOn, Fails, Zenon DEF Run, StageFrame, GoneOn,
        GivenUp
  <1>3. CASE SourceStep
    BY <1>1, <1>3, SourceSteps, EarlyStage, GoesOn, Fails, Zenon DEF Run, StageFrame, GoneOn,
        GivenUp
  <1>4. CASE BuildContainer \/ WinImage
    BY <1>1, <1>4, ContainerSteps, ContainerStage, GoesOn, Fails, Zenon DEF Run, StageFrame,
        GoneOn, GivenUp
  <1>5. CASE Prebuilt
    <2>1. CASE todo' = Tail(todo) /\ pkg' = pkg /\ (Failed(req) \/ Sought(req) = "build")
      BY <1>1, <1>5, <2>1, PrebuiltSteps, NotFound, GoesOn DEF Run, StageFrame
    <2>2. CASE /\ todo' = SubSeq(todo, AfterSign + 1, Len(todo))
               /\ IsPkg(pkg') /\ pkg'.origin \in {"target", "generic"}
               /\ ~Failed(req) => pkg'.origin = Sought(req)
      <3>1. todo # <<>> /\ Head(todo) = "prebuilt"
        BY <1>1, <1>5, PrebuiltSteps
      <3>2. PICK k \in 1..Len(todo) :
              /\ {i \in 1..Len(todo) : todo[i] = "sign"} = {k}
              /\ Running(req, SubSeq(todo, k + 1, Len(todo)), pkg', ctr, tested, WantedSigner,
                         HidesFailure)
        BY <1>1, <2>2, <3>1, Found DEF Run
      <3>3. AfterSign = k
        BY <3>2, AfterSignIs
      <3>4. Running(req, todo', pkg', ctr, tested, WantedSigner, HidesFailure)
        BY <2>2, <3>2, <3>3
      <3> QED
        BY <1>1, <1>5, <3>4, PrebuiltSteps, GoesOn DEF StageFrame
    <2> QED
      BY <1>1, <1>5, <2>1, <2>2, PrebuiltSteps
  <1>6. CASE Build
    BY <1>1, <1>6, BuildSteps, BuildIsComplete, BuildStage, GoesOn, Zenon DEF Run, StageFrame,
        GoneOn
  <1>7. CASE Sign
    BY <1>1, <1>7, SignSteps, SignStage, GoesOn, Fails, Zenon DEF Run, StageFrame, GoneOn, GivenUp
  <1>8. CASE Extract
    BY <1>1, <1>8, ExtractSteps, ExtractStage, GoesOn, Zenon DEF Run, StageFrame, GoneOn
  <1>9. CASE RunTests
    BY <1>1, <1>9, TestSteps, TestStage, GoesOn, Fails, Zenon DEF Run, StageFrame, GoneOn, GivenUp
  <1>10. CASE Deliver
    BY <1>1, <1>10, DeliverSteps DEF DeliveryInv, StageFrame
  <1> QED
    BY <1>2, <1>3, <1>4, <1>5, <1>6, <1>7, <1>8, <1>9, <1>10, Kinds DEF StageKinds

-----------------------------------------------------------------------------
(* The first theorem.                                                       *)
(* A request that was just accepted.                                        *)
Begins ==
    /\ req \in Requests /\ todo = Handler(req.distro, req.route) /\ result = "running"
    /\ worker = NoWorker /\ pkg = NoPkg /\ ctr = NoCtr /\ tested = NoPkg /\ life = "none"

(* The invariant holds when a request begins, the first or a later one.     *)
LEMMA RequestBegins == Begins => DeliveryInv
  <1> SUFFICES ASSUME Begins PROVE DeliveryInv
    OBVIOUS
  <1>1. Planned(req.distro, req.route, todo)
    BY RequestPlanned DEF Begins
  <1>2. IsPkg(pkg) /\ pkg.origin = "none"
    BY Zenon DEF Begins, NoPkg, IsPkg
  <1>3. Run
    BY <1>1, <1>2, Begin DEF Run
  <1> QED
    BY <1>3 DEF DeliveryInv, SuccessIsReal, Begins

(* The first request begins in the initial state.                           *)
LEMMA InitBegins == Init => Begins
  BY DEF Init, Begins, Requests

(* A later one begins when it is accepted, whatever came before.            *)
LEMMA NextBegins ==
    ASSUME NEW r \in Followers, NextRequest(r)
    PROVE  Begins'
  BY CasesAssumption DEF NextRequest, Begins, Requests

(* A step of the machine the package is installed on, or none.              *)
HostStep ==
    \/ HostInstall \/ HostUpgrade \/ HostRemove
    \/ \E u \in OwnUnits : AdminToggle(u)
    \/ UNCHANGED vars

(* It leaves the request alone.                                             *)
LEMMA HostSteps ==
    ASSUME HostStep
    PROVE  UNCHANGED <<req, todo, worker, pkg, ctr, tested, result, served>>
  BY DEF HostStep, HostInstall, HostUpgrade, HostRemove, AdminToggle, vars, reqVars

(* And with it the invariant.                                               *)
LEMMA HostDelivers ==
    ASSUME UNCHANGED <<req, todo, pkg, ctr, tested, result>>
    PROVE  DeliveryInv' <=> DeliveryInv
  <1>1. WantedSigner' = WantedSigner /\ (HidesFailure' <=> HidesFailure)
    BY DEF WantedSigner, HidesFailure, RqSpec
  <1>2. (Linux' <=> Linux) /\ (LookupFailed' <=> LookupFailed) /\ WantedOrigin' = WantedOrigin
    BY DEF Linux, Deb, Rpm, LookupFailed, WantedOrigin
  <1> QED
    BY <1>1, <1>2, Zenon DEF DeliveryInv, Run, SuccessIsReal

(* The invariant holds in every state.                                      *)
LEMMA Delivery == Spec => []DeliveryInv
  <1>1. Init => DeliveryInv
    BY InitBegins, RequestBegins
  <1>2. ASSUME DeliveryInv, [Next]_vars
        PROVE  DeliveryInv'
    <2>1. CASE Stage
      BY <1>2, <2>1, StageDelivers
    <2>2. CASE HostStep
      BY <1>2, <2>2, HostSteps, HostDelivers
    <2>3. ASSUME NEW r \in Followers, NextRequest(r)
          PROVE  DeliveryInv'
      <3>1. Begins'
        BY <2>3, NextBegins
      <3> QED
        BY <3>1, RequestBegins, PTL
    <2> QED
      BY <1>2, <2>1, <2>2, <2>3 DEF Next, HostStep
  <1> QED
    BY <1>1, <1>2, PTL DEF Spec

(* A request that succeeds has done what it was asked for: its package is   *)
(* the client's own or a build in which every command succeeded, signed by  *)
(* the signer asked for, and the package that was tested is the one         *)
(* delivered.                                                               *)
THEOREM SuccessMeansDone == Spec => []SuccessIsReal
  BY Delivery, PTL DEF DeliveryInv

-----------------------------------------------------------------------------
(* Types.                                                                   *)
StagesLeft == Suffix(Handler(req.distro, req.route), todo)

(* Every move through the handler leaves a suffix of it.                    *)
LEMMA StagesMove ==
    ASSUME StagesLeft, req \in Requests, req' = req,
           \/ todo' = todo \/ todo' = <<>> \/ (todo # <<>> /\ todo' = Tail(todo))
           \/ \E k \in 1..(Len(todo) + 1) : todo' = SubSeq(todo, k, Len(todo))
    PROVE  StagesLeft'
  <1>1. Handler(req.distro, req.route) \in Seq(Stages)
    BY RequestPlanned DEF Planned
  <1> QED
    BY <1>1, RestMoves DEF StagesLeft

(* Every stage keeps the types.                                             *)
LEMMA StageTypes ==
    ASSUME TypeOK, DeliveryInv, Stage
    PROVE  TypeOK'
  <1>1. result = "running" /\ todo # <<>> /\ req \in Requests /\ Run
    BY StageRuns
  <1>2. StagesLeft
    BY DEF TypeOK, StagesLeft, Suffix
  <1>3. ASSUME Prebuilt, todo' = SubSeq(todo, AfterSign + 1, Len(todo))
        PROVE  StagesLeft'
    <2>1. PICK k \in 1..Len(todo) : {i \in 1..Len(todo) : todo[i] = "sign"} = {k}
      BY <1>1, <1>3, PrebuiltSteps, Found DEF Run
    <2>2. AfterSign = k
      BY <2>1, AfterSignIs
    <2>3. k + 1 \in 1..(Len(todo) + 1)
      BY <2>1, RunLength DEF Run
    <2> QED
      BY <1>1, <1>2, <1>3, <2>2, <2>3, StagesMove, StageKept, Zenon DEF StageFrame
  <1>4. StagesLeft'
    BY <1>1, <1>2, <1>3, StagesMove, StageKept DEF StageFrame, GoneOn
  <1>5. life = "none"
    BY <1>1 DEF TypeOK, CanInstall
  <1> QED
    BY <1>1, <1>4, <1>5, StageKept, Zenon DEF TypeOK, StagesLeft, Suffix, StageFrame, GoneOn

(* A request that was just accepted, and the machine.                       *)
Fresh == Begins /\ toggles \in 0..MaxToggles /\ served \in 0..1

(* Its variables have their types.                                          *)
LEMMA FreshTypes == Fresh => TypeOK
  <1> SUFFICES ASSUME Fresh PROVE TypeOK
    OBVIOUS
  <1>1. StagesLeft
    BY RequestPlanned, WholeIsSuffix DEF Fresh, Begins, StagesLeft, Planned
  <1> QED
    BY <1>1, Zenon DEF TypeOK, StagesLeft, Suffix, Fresh, Begins, NoWorker, NoCtr, NoPkg

(* The machine keeps them too: only a delivered package reaches it.         *)
LEMMA HostTypes ==
    ASSUME TypeOK, HostStep
    PROVE  TypeOK'
  <1>1. UNCHANGED <<req, todo, worker, pkg, ctr, result, served>>
    BY HostSteps
  <1>2. /\ toggles' \in 0..MaxToggles
        /\ life' \in {"none", "installed", "upgraded", "removed", "stuck", "broken"}
        /\ life' # "none" => CanInstall
    BY RequestsAssumption DEF TypeOK, HostStep, HostInstall, HostUpgrade, HostRemove,
        AdminToggle, vars
  <1> QED
    BY <1>1, <1>2 DEF TypeOK, CanInstall

(* Every variable has the shape the handlers give it: the stages left are a *)
(* suffix of the handler of the request, and only a delivered package has   *)
(* reached a machine.                                                       *)
THEOREM TypeCorrect == Spec => []TypeOK
  <1>1. Init => TypeOK
    BY InitBegins, FreshTypes, RequestsAssumption DEF Init, Fresh
  <1>2. ASSUME TypeOK, DeliveryInv, [Next]_vars
        PROVE  TypeOK'
    <2>1. CASE Stage
      BY <1>2, <2>1, StageTypes
    <2>2. CASE HostStep
      BY <1>2, <2>2, HostTypes
    <2>3. ASSUME NEW r \in Followers, NextRequest(r)
          PROVE  TypeOK'
      <3>1. Fresh'
        BY <1>2, <2>3, NextBegins DEF Fresh, NextRequest, TypeOK
      <3> QED
        BY <3>1, FreshTypes, PTL
    <2> QED
      BY <1>2, <2>1, <2>2, <2>3 DEF Next, HostStep
  <1> QED
    BY <1>1, <1>2, Delivery, PTL DEF Spec

=============================================================================
