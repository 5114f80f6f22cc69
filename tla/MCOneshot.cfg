SPECIFICATION FairSpec
CONSTANTS
  a = a  b = b  Nil = Nil
  Tasks = {a, b}
  Thread = Thread
  MixModes = FALSE
INVARIANTS FreedOnce ValueConserved NoUnexpectedState WakerExclusive WaiterNotified
PROPERTIES RecvAnswered AbstractSpec
