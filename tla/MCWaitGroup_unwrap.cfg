\* try_into_inner after a wait.
SPECIFICATION Spec
CONSTANTS
  a = a  b = b  g1 = g1  g2 = g2
  Nil = Nil  Thread = Thread
  Guards = {g1, g2}
  Thresholds = {0}
  Tasks = {}
  OwnerOps = {"wait", "try_into_inner"}
  Kinds = {"owned"}
  Weights = {}
INVARIANTS FreedOnce
