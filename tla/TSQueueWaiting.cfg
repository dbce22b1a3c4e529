SPECIFICATION FairSpec
CONSTANTS
  Producers = {p1, p2}
  Consumers = {c1}
  NoThread = NoThread
  Quota = 2
  Ops <- WaitingUser
INVARIANT TypeOK
INVARIANT NoUndefinedBehaviour
PROPERTY ImplementsFIFO
PROPERTY PushWakesSleeper
