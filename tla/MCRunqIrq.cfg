CONSTANTS
  Proc = {p1, p2}
  Null = Null
  Queue <- MCQueue
SPECIFICATION Spec
INVARIANT PopFindsRunnable
