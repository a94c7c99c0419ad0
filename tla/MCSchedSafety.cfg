CONSTANTS
  Proc = {p1, p2, p3, p4}
  Null = Null
  MaxSleep = 1
  Queue <- MCQueue
SPECIFICATION Spec
SYMMETRY Symmetry
INVARIANTS TypeOK QueuesConsistent NoneLost AssertionsHold ScanOnZombies
