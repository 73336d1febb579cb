SPECIFICATION Spec
CONSTANTS
  Run = {r1}
  Repo = {a, b}
  Mapping = {m1}
  Worker = {w1, w2}
  Operator = {o1, o2}
  Limit = 1
  MaxAborts = 1
  None = None
SYMMETRY Symmetric
INVARIANTS
  SelectedWasOffered
PROPERTY
  SelectedIsFinal
