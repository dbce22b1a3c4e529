SPECIFICATION FairSpec
CONSTANTS
  n1 = n1
  n2 = n2
  Nonces = {n1, n2}
  Challenges = {n1, n2}
  Garbage = Garbage
  Scramble <- Swap
  Sizes = {0, 1}
  MaxSend <- One
  Faults = {"leave"}
  EarlySend = FALSE
  Broadcast = FALSE
  Echo = FALSE
CHECK_DEADLOCK FALSE
PROPERTY LeaveNoticed
