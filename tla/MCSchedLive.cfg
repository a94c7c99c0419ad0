CONSTANTS
  Proc = {p1, p2, p3}
  Null = Null
  MaxSleep = 2
  Queue <- MCQueue
SPECIFICATION FairSpec
PROPERTIES RunnableRuns SleepReturns WaitReturns
