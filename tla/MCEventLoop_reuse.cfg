CONSTANTS
  main = main
  other = other
  worker = worker
  c1 = c1
  c2 = c2
  c3 = c3
  Owner = worker
  Poster <- MCPoster1
  Channel <- MCChannel2
  Fd <- MCFd2
  FdOf <- MCReusedFd2
  WakeFd = 0
  WakeChan = wake
  NULL = NULL
  Removable <- MCNone
  Updated <- MCNone
  Sending <- MCNone
  MapSizes <- MCMapSizes
  MaxEvents = 1
  SocketPairRoom = 1
  Failing <- MCNone
SPECIFICATION Spec
CHECK_DEADLOCK FALSE
INVARIANT AddedIsWatched
