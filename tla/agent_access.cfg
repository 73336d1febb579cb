SPECIFICATION Spec
CONSTANTS
  Caller = {c1, c2}
  Installation = {i1, i2}
  Lifetime = 2
  Margin = 1
  Timeout = 1
  a = a
  b = b
  x = x
  Path = {a, b, k}
  Unsafe = {k}
  Uneditable = {k}
  Content = {none, x}
  Absent = none
  Start <- MCStart
  Asked <- MCAsked
  MaxPaths = 2
  MaxChanges = 1
  MaxUpsets = 1
  None = None
SYMMETRY Symmetric
INVARIANTS
  NoExpiredCredential
  ProposalIsAboutItsRequest
  AccessWasGranted
