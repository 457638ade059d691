SPECIFICATION Spec
CONSTANTS
  i1 = i1
  old = old
  c1 = c1
  c2 = c2
  c3 = c3
  desk = desk
  alice = alice
  read = read
  write = write
  Id <- MCId
  Forgotten <- MCForgotten
  Call <- MCThreeCalls
  Desk <- MCDesk
  Tool <- MCTool
  Human <- MCHuman
  TimeoutApprover = timeout
  ClientApprover = client
  None = None
  ApproveOnTimeout = FALSE
  Mode = "elicit"
SYMMETRY MCSymmetry
INVARIANTS
  WhatRunsWasApproved
