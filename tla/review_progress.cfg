SPECIFICATION Spec
CONSTANTS
  Run = {r1}
  Proposal = {p1, p2}
  Worker = {w1}
  Limit = 1
  MaxAborts = 1
  None = None
PROPERTIES
  LapsedIsNeverExecuted
  DriftedIsRefused
  ApprovedIsExecuted
