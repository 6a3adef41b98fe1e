CONSTANTS
  Unset = Unset
  Root = "root"
  Muxes <- MCMuxes
  Routes <- MCRoutes
  Order <- MCOrder
  Requests <- MCRequests
  SpecTargets <- MCSpecTargets
  CustomNames <- MCCustomNames
  Platforms = {"default", "arm"}
SPECIFICATION Spec
INVARIANT BuildGetsPlatformSpec
