\* The six bounded queues, with wrapping positions.
SPECIFICATION Spec
CONSTANTS
  p1 = p1  p2 = p2  c1 = c1  c2 = c2
  Threads = {p1, p2, c1, c2}
  Producers = {p1, p2}
  Calls <- MCCalls
  Menu <- MCMenu
  RingCap = 2
  OneWrap = 4
  RingWrap = 16
  Starts = {12}
  Flavors = {"one", "one_mpsc", "one_spsc", "array", "array_mpsc", "array_spsc"}
  Nil = Nil
INVARIANTS SlotExclusive LenHonest
PROPERTIES CallsEnd ImplementsFifo
