CONSTANTS
  Proc = {p1, p2, p3}
  Null = Null
  NVa = 2
  Frame = {f1, f2, f3, f4}
  Val = {a, b}
  MaxRef = 3
SPECIFICATION Spec
SYMMETRY Symmetry
INVARIANT OthersGoOn
CHECK_DEADLOCK FALSE
