SPECIFICATION Spec
CONSTANTS
  Run = {r1, r2}
  Repo = {a, b}
  Mapping = {m1}
  Worker = {w1}
  Operator = {}
  Limit = 1
  MaxAborts = 1
  None = None
PROPERTIES
  QueuedIsMatched
  UnresolvedIsCurrent
  UnresolvedIsNotified
