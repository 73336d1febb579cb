SPECIFICATION Spec
CONSTANTS
  Run = {r1}
  Proposal = {p1, p2}
  Worker = {w1, w2}
  Limit = 2
  MaxAborts = 1
  None = None
SYMMETRY Symmetric
INVARIANTS
  ExecutedIsApproved
PROPERTIES
  ExecutionIsFinal
