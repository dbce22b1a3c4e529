SPECIFICATION FairSpec
CONSTANTS
  Producers = {p1}
  Consumers = {c1}
  NoThread = NoThread
  Quota = 2
  Ops <- BlockingUser
PROPERTY EveryElementTaken
