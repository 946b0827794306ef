CONSTANTS
  main = main
  other = other
  worker = worker
  c1 = c1
  c2 = c2
  c3 = c3
  Owner = worker
  Poster <- MCPoster2
  Channel <- MCChannel3
  Fd <- MCFd3
  FdOf <- MCReusedFd3
  WakeFd = 0
  WakeChan = wake
  NULL = NULL
  Removable <- MCNone
  Updated <- MCNone
  Sending <- MCNone
  MapSizes <- MCMapSizes
  MaxEvents = 2
  SocketPairRoom = 1
  Failing <- MCNone
SPECIFICATION FairSpec
CHECK_DEADLOCK FALSE
INVARIANT TypeOK
INVARIANT ListIsProtected
INVARIANT NoLostWakeup
INVARIANT WatchedHasChannel
INVARIANT AddedIsWatchedOrHidden
PROPERTY ImplementsChannelQueue
PROPERTY CallsReturn
PROPERTY RequestsAreHandled
