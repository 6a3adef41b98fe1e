SPECIFICATION Spec
CONSTANTS
  KnownArgs <- MCKnown
  PlatformArgs = {"TARGETARCH", "BUILDARCH"}
  BaseTree <- MCBaseTree
  Contexts = {"context"}
  Platforms = {"amd64", "arm64"}
  Arch <- MCArch
  SourceNames <- MCNames
  Cases <- MCMountCases
CHECK_DEADLOCK FALSE
INVARIANTS
  MountShowsSelection
