SPECIFICATION Spec
CONSTANTS
  Item = {i1, i2}
  Worker = {w1}
  Script = {s1}
  Limit = 1
  MaxAborts = 1
  None = None
INVARIANTS
  ReviewedWasAnalysed
  RunIsApproved
PROPERTIES
  AnalysableIsReviewed
  ApprovedIsQueued
