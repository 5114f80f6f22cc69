\* The unbounded queue with blocks of two values.
SPECIFICATION Spec
CONSTANTS
  p1 = p1  p2 = p2  c1 = c1  c2 = c2
  Threads = {p1, p2, c1, c2}
  Calls <- MCCalls
  Starts <- MCStarts
  Menu <- MCMenu
  Lap = 3
  MaxBlocks = 6
  Iter = Iter
  Nil = Nil
INVARIANTS NoUseAfterFree DropExact LenHonest
PROPERTIES CallsEnd ImplementsFifo
