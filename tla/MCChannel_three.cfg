SPECIFICATION Spec
CONSTANTS
  s1 = s1  s2 = s2  r1 = r1  r2 = r2  r3 = r3
  Nil = Nil
  Senders = {s1}
  Receivers = {r1, r2, r3}
  Cap = 2
  Ids = {1, 2}
  SendOps = {"send"}
  RecvOps = {"recv"}
  SendBudget = 3
  RecvBudget = 1
  MaxOps <- MCMaxOps
  Starts <- MCAll
  Uncertain = FALSE
SYMMETRY Symmetry
INVARIANTS NoLostWakeup
