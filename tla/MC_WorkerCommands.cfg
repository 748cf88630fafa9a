CONSTANTS
  Sockets <- MCSockets
  Conns <- MCConns
  SocketOf <- MCSocketOf
  Callbacks <- MCCallbacks
  MaxMsgs = 2
  Keys <- MCKeys
  Values <- MCValues
SPECIFICATION FairSpec
INVARIANTS TypeOK NamesExact TransitOnRecord
PROPERTIES CacheFollowsNVRam QueryEnds
CHECK_DEADLOCK FALSE
