SPECIFICATION Spec
CONSTANTS
  Publication = {p1}
  Worker = {w1, w2}
  Limit = 1
  MaxOthers = 1
  MaxAborts = 2
  None = None
INVARIANTS
  DeployedOnce
  SucceededIsDeployed
PROPERTIES
  OutcomeIsFinal
  MergedIsSettled
