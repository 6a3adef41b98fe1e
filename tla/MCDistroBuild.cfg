SPECIFICATION Spec
CONSTANTS
  Dashed <- MCDashed
  KeyOrder <- MCKeyOrder
  Base <- MCBase
  Parent <- MCParent
  SrcOf <- MCSrcOf
  Glob <- MCGlob
  Stem <- MCStem
  Cases <- MCCases
  Followers <- MCFollowers
  MaxToggles = 2
CHECK_DEADLOCK FALSE
INVARIANTS
  TypeOK
  PackageCarriesDeclared
  ErrorsAreJustified
  SuccessIsReal
  OwnersAsDeclared
  UnitsAsDeclared
  LifecycleIsClean
  
  ImageConfigAsDeclared
PROPERTIES
  AdminChoiceKept
