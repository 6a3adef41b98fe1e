SPECIFICATION Spec
CONSTANTS
  KnownArgs <- MCKnown
  PlatformArgs = {"TARGETARCH", "BUILDARCH"}
  BaseTree <- MCBaseTree
  Contexts = {"context"}
  Platforms = {"amd64", "arm64"}
  Arch <- MCArch
  SourceNames <- MCNames
  Cases <- MCCases
CHECK_DEADLOCK FALSE
INVARIANTS
  TypeOK
  PanicOnlyWhereUnchecked
  AuthKept
  SubstitutionComplete
  PlatformArgsOwn
  ForwardedReloads
  SourceContents
  PatchesApply
PROPERTIES
  RequestAnswered
