CONSTANTS
  Unset = Unset
  Root = "root"
  Muxes <- MCMuxes
  Routes <- MCRoutes
  Order <- MCOrder
  Requests <- MCRequests
  SpecTargets <- MCSpecTargets
  CustomNames <- MCCustomNames
  Platforms = {"default"}
SPECIFICATION FairSpec
INVARIANTS
  TypeOK
  RouteSpellsTarget
  TargetKeyIsTopRoute
  CustomFrontendWins
  NotFoundIsTrue
  ErrorNamesRequest
  ListsEveryRoute
PROPERTY RequestAnswered
