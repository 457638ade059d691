SPECIFICATION FairSpec
CONSTANTS
  i1 = i1
  i2 = i2
  old = old
  t1 = t1
  t2 = t2
  t3 = t3
  alice = alice
  bob = bob
  TimeoutApprover = timeout
  ClientApprover = client
  None = None
  Id <- MCIdAndOld
  Forgotten <- MCForgotten
  Task <- MCTwoTasks
  Human <- MCOneHuman
  Timeout = 1
  MaxClock = 2
  ApproveOnTimeout = TRUE
  UiInProcess = FALSE
INVARIANTS
  IInv
PROPERTIES
  ImplementsQueue
  BlockedCallReturns
  DecisionIsNoticed
