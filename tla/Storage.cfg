SPECIFICATION FairSpec
CONSTANTS
  t1 = t1
  t2 = t2
  i1 = i1
  Task <- MCTask
  Id <- MCId
  Verdict = {"approved"}
  None = None
  Timeout = 1
  Limit = 1
  Cap = 2
  MaxClock = 1
  MaxEvents = 2
  MaxFaults = 1
INVARIANTS
  TypeOK
PROPERTIES
  CallsAreAtomic
  OnlyAFailedWriteHidesDecisions
  LaterExportsExtendEarlier
  OlderPagesMissNothing
  EveryCallReturns
