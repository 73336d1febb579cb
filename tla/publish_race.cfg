SPECIFICATION Spec
CONSTANTS
  Worker = {w1, w2}
  Execution = {e1}
  Path = {f1}
  Modifies <- MCModifies
  Limit = 1
  MaxOthers = 1
  MaxMoves = 1
  MaxAborts = 1
  None = None
  Foreign = Foreign
INVARIANTS
  PublishedIsOnGitHub
  AtMostOnePullRequest
PROPERTIES
  DriftedIsNotOverwritten
  PublishableIsDecided
