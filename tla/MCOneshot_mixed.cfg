SPECIFICATION Spec
CONSTANTS
  a = a  b = b  Nil = Nil
  Tasks = {a, b}
  Thread = Thread
  MixModes = TRUE
INVARIANTS ConsumeLocked
