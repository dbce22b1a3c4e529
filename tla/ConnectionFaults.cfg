SPECIFICATION FairSpec
CONSTANTS
  n1 = n1
  n2 = n2
  Nonces = {n1, n2}
  Challenges = {n1}
  Garbage = Garbage
  Scramble <- Swap
  Sizes = {0, 1}
  MaxSend <- ClientTwo
  Faults = {"refuse", "deny", "reset", "leave"}
  EarlySend = TRUE
  Broadcast = TRUE
  Echo = FALSE
CHECK_DEADLOCK FALSE
INVARIANT TypeOK
INVARIANT OneMessageWrite
INVARIANT WriterArmed
INVARIANT ReaderArmed
INVARIANT OnlyValidatedHeard
PROPERTY ImplementsFIFO
PROPERTY ImplementsServed
PROPERTY ClosureNoticed
