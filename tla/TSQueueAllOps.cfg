SPECIFICATION FairSpec
CONSTANTS
  Producers = {p1, p2}
  Consumers = {c1, c2}
  NoThread = NoThread
  Quota = 1
  Ops <- AllOps
CHECK_DEADLOCK FALSE
PROPERTY PushReturns
