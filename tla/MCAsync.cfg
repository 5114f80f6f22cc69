SPECIFICATION FairAsyncSpec
CONSTANTS
  s1 = s1  s2 = s2  r1 = r1  r2 = r2
  Nil = Nil
  Senders = {s1, s2}
  Receivers = {r1, r2}
  Cap = 1
  Ids = {1, 2, 3}
  SendOps = {"send", "send_timeout"}
  RecvOps = {"recv", "recv_timeout", "try_recv"}
  MaxOps <- MCMaxOps
  Starts <- MCStarts
  Uncertain = TRUE
  Scenarios <- MCScenarios
  Contexts = {1, 2}
INVARIANTS PendingReachable SendAtomic DisconnectedDrained NoPendingLost
PROPERTY ClosedEnds
