SPECIFICATION FairSpec
CONSTANTS
  a = a  b = b  c = c
  Nil = Nil
  Chans = {a, b, c}
  Scenarios <- MCScenarios
INVARIANTS NoLostSelect SelectorsCurrent ClosedIsDrained  BiasOrder
PROPERTY SelectServed
