SPECIFICATION FairSpec
CONSTANTS
  MaxClients = 2
  MaxMessages = 2
  MaxUpdate = 1
  MaxDepth = 5
  Announce = "once"
CHECK_DEADLOCK FALSE
INVARIANT TypeOK
INVARIANT NoHandlerOutlivesConnection
INVARIANT AnnouncementEnds
PROPERTY AllReached
PROPERTY MessagesHandled
