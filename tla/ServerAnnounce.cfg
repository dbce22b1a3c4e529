SPECIFICATION Spec
CONSTANTS
  MaxClients = 2
  MaxMessages = 1
  MaxUpdate = 1
  MaxDepth = 4
  Announce = "always"
CHECK_DEADLOCK FALSE
INVARIANT AnnouncementEnds
