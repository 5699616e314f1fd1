CONSTANTS
  Elem = {1, 2, 3, 4, 5}
  Node = {1, 2, 3, 4}
  NULL = 0
  Key <- TwoKeys
  KeyOf <- LastTwoSame
  Builds <- TwoPrograms
  InitialBuckets = 1
  SelectionChanges = FALSE
SPECIFICATION ContainersSpec
INVARIANTS
  SingleFaithful
  DoubleFaithful
  CircularFaithful
  NeverOops
  HoldsItems
  ChainsBounded
PROPERTIES
  LoopVisitsAll
