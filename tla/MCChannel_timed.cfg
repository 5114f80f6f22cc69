SPECIFICATION Spec
CONSTANTS
  s1 = s1  s2 = s2  r1 = r1  r2 = r2  r3 = r3
  Nil = Nil
  Senders = {s1, s2}
  Receivers = {r1, r2}
  Cap = 1
  Ids = {1, 2}
  SendOps = {"send_timeout", "try_send"}
  RecvOps = {"recv_timeout", "try_recv"}
  SendBudget = 1
  RecvBudget = 1
  MaxOps <- MCFillerOps
  Starts <- MCTwoToOne
  Uncertain = TRUE
SYMMETRY ReceiverSymmetry
INVARIANTS RegistryOrdered WaiterReachable WaitersReleased SendAtomic DisconnectedDrained
CHECK_DEADLOCK FALSE
