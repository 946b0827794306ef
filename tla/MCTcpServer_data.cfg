CONSTANTS
  Main = Main
  NULL = NULL
  Listener = Listener
  Wakeup = Wakeup
  c1 = c1
  c2 = c2
  c3 = c3
  f1 = f1
  f2 = f2
  f3 = f3
  listen_fd = listen_fd
  w0 = w0
  w1 = w1
  wm = wm
  MaxThreads = 2
  Conn <- MCConn
  Fd <- MCFd
  WakeFd <- MCWakeFd
  ThreadNumbers <- MCTwoThreads
  FdOf <- MCFdOfDistinct
  AllocMayFail = FALSE
SPECIFICATION Spec
INVARIANT DataBeforeMessages
CHECK_DEADLOCK FALSE
