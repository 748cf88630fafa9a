CONSTANTS
  MaxProtocols = 4
  MaxChain = 3
SPECIFICATION StackFairSpec
INVARIANTS NoDangling WholeStacksOnly NothingLeft
PROPERTIES WholeStackGoes
CHECK_DEADLOCK FALSE
