SPECIFICATION Spec
CONSTANTS
  Dashed <- MCDashed
  KeyOrder <- MCKeyOrder
  Base <- MCBase
  Parent <- MCParent
  SrcOf <- MCSrcOf
  Glob <- MCGlob
  Stem <- MCStem
  Cases <- MCPatchCases
  Followers <- MCNone
  MaxToggles = 2
CHECK_DEADLOCK FALSE
INVARIANT DocumentedPatchesApplied
