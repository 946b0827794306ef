CONSTANTS
  main = main
  other = other
  worker = worker
  c1 = c1
  c2 = c2
  c3 = c3
  Owner = worker
  Poster <- MCPoster1
  Channel <- MCChannel3
  Fd <- MCFd3
  FdOf <- MCReusedFd3
  WakeFd = 0
  WakeChan = wake
  NULL = NULL
  Removable <- MCReused
  Updated <- MCLast
  Sending <- MCLast
  MapSizes <- MCMapSizes
  MaxEvents = 2
  SocketPairRoom = 1
  Failing <- MCFirst
SPECIFICATION Spec
CHECK_DEADLOCK FALSE
INVARIANT FullInv
INVARIANT FailsOnlyForCause
PROPERTY ImplementsChannelQueue
