SPECIFICATION Spec
CONSTANTS
  Base = 8
  Word = 2
  Content = {0, 2}
  Plain = {1, 2}
  Element = {1, 2}
  MaxBody = 6
  MaxLength = 1
  MaxConnects = 3
  MaxMessages = 2
  Retry = TRUE
  MaxPlayers = 3
  Squares <- SquaresFor
  MaxLeave = 1
  MaxWrong = 1
  MaxLate = 1
CHECK_DEADLOCK FALSE
INVARIANT TypeOK
INVARIANT NoInvalidMove
INVARIANT BoardsAgree
INVARIANT OneMover
INVARIANT RightWinner
PROPERTY LastInFirstOut
PROPERTY QuietAfterDisconnect
PROPERTY DisconnectReturns
PROPERTY GameEnds
