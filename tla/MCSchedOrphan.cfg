CONSTANTS
  Proc = {p1, p2, p3, p4}
  Null = Null
  MaxSleep = 0
  Queue <- MCQueue
SPECIFICATION Spec
SYMMETRY Symmetry
INVARIANT ErrChildMeansNoChild
