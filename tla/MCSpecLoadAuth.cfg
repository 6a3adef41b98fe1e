SPECIFICATION Spec
CONSTANTS
  KnownArgs <- MCKnown
  PlatformArgs = {"TARGETARCH", "BUILDARCH"}
  BaseTree <- MCBaseTree
  Contexts = {"context"}
  Platforms = {"amd64", "arm64"}
  Arch <- MCArch
  SourceNames <- MCNames
  Cases <- MCAuthCases
CHECK_DEADLOCK FALSE
INVARIANTS
  ExplicitAuthKept
