CONSTANTS
  Core = {c0, c1, c2, c3}
  SCore = {c1, c2, c3}
SPECIFICATION FairSpec
INVARIANTS TypeOK OnePrimary PublishedBeforeUse PrintExclusive
PROPERTY AllCoresBoot
CHECK_DEADLOCK FALSE
