SPECIFICATION CallSpec
CONSTANTS
  None = None
  Hint <- MCHint
  Letter <- MCLetter
  Upstream <- MCUpstream
  Cases <- MCCases
  Values <- MCValues
  Depth <- MCDepth
  MaxDepth = 4
  Index <- MCIndex
  MaxRules = 3
  MaxGlob = 4
  MaxText = 3
INVARIANTS
  GovernedTypeOK
  FirstRuleDecides
  DocumentDecides
  SilenceNeverWidens
  RedactionIsExact
CHECK_DEADLOCK FALSE
