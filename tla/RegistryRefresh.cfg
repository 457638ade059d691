SPECIFICATION ServeSpec
CONSTANTS
  Upstreams <- MCUpstreams
  ToolName <- MCToolName
  Definition = {d1, d2}
  Client = {m, c1, c2}
  Main = m
  None = None
  MaxChanges = 3
SYMMETRY MCSymmetry
INVARIANTS
  ServeTypeOK
  ListedToolsHaveConnections
  FailuresAreIsolated
  MissesAreFiledUnderTheirUpstream
PROPERTIES
  BrokenUpstreamsBlankOnlyThemselves
  PublishedIsRecent
CHECK_DEADLOCK FALSE
