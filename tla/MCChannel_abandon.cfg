SPECIFICATION Spec
CONSTANTS
  s1 = s1  s2 = s2  r1 = r1  r2 = r2  r3 = r3
  Nil = Nil
  Senders = {s1}
  Receivers = {r1, r2}
  Cap = 1
  Ids = {1, 2}
  SendOps = {"send"}
  RecvOps = {"recv_timeout", "recv"}
  SendBudget = 1
  RecvBudget = 1
  MaxOps <- MCMaxOps
  Starts <- MCAll
  Uncertain = FALSE
SYMMETRY Symmetry
INVARIANTS NoLostWakeup
