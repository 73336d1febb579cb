SPECIFICATION Spec
CONSTANTS
  Caller = {c1, c2}
  Installation = {i1}
  Lifetime = 3
  Margin = 1
  Timeout = 1
  a = a
  b = b
  x = x
  Path = {a, b}
  Unsafe = {}
  Uneditable = {}
  Content = {none, x}
  Absent = none
  Start <- MCStart
  Asked <- MCOne
  MaxPaths = 2
  MaxChanges = 1
  MaxUpsets = 1
  None = None
PROPERTIES
  Answered
  Recovers
