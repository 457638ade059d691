SPECIFICATION Spec
CONSTANTS
  i1 = i1
  i2 = i2
  old = old
  t1 = t1
  t2 = t2
  t3 = t3
  alice = alice
  bob = bob
  TimeoutApprover = timeout
  ClientApprover = client
  None = None
  Id <- MCOneId
  Forgotten <- MCNone
  Task <- MCThreeTasks
  Human <- MCHuman
  Timeout = 1
  MaxClock = 2
  ApproveOnTimeout = FALSE
  UiInProcess = TRUE
SYMMETRY MCSymmetry
INVARIANTS
  ServiceTypeOK
  SilenceIsNotConsent
  AnswersAreFinal
  NoLostWakeup
PROPERTIES
  DecisionIsFinal
  NothingOverdueIsShownOpen
