SPECIFICATION Spec
CONSTANTS
  b1 = b1
  b2 = b2
  t1 = t1
  t2 = t2
  Body = {b1, b2}
  Ticket = {t1, t2}
  Class <- MCClass
  Trackers <- MCTrackers
  Request = {r1}
  Worker = {w1, w2}
  Limit = 1
  MaxAttempts = 2
  RetryMax = 1
  MaxAborts = 1
  None = None
INVARIANTS
  TypeOK
  EnrichedHasOneItem
  AbandonedAfterAllAttempts
PROPERTIES
  SettledIsFinal
  AcceptedIsSettled
