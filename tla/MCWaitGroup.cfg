\* An allocated and an inline wait group, with the calls of the owner (until its
\* time is up, wait_timeout() is wait()).
SPECIFICATION FairSpec
CONSTANTS
  a = a  b = b  g1 = g1  g2 = g2
  Nil = Nil  Thread = Thread
  Guards = {g1, g2}
  Thresholds = {0, 1}
  Tasks = {a, b}
  OwnerOps = {"wait_timeout", "poll", "set_threshold", "try_into_inner"}
  Kinds = {"owned", "inline"}
  Weights = {2}
INVARIANTS FreedByDrop CountIsRefs CellExclusive NoLostWakeup
PROPERTIES WaitEnds
