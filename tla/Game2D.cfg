SPECIFICATION Spec
CONSTANTS
  MaxGamers = 3
  MaxFrames <- Frames
  Leavers = {1, 2}
  Wrong = {1, 2, 3}
  Windows <- MenuWindows
  MaxX = 2
  MaxItems = 3
  ItemCounts = {1, 3}
  Visible = 2
  BufferSize = 3
  Chars = {1, 2}
  IntMax = 9
CHECK_DEADLOCK FALSE
INVARIANT TypeOK
INVARIANT RosterShared
INVARIANT DepartureRemembered
INVARIANT PlayerKnowsItself
INVARIANT TextFits
INVARIANT OneEditing
INVARIANT DragEnds
PROPERTY GetsToPlay
PROPERTY DragExclusive
PROPERTY TypingKeepsWhole
