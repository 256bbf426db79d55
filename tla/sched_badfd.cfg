SPECIFICATION Spec
CONSTANTS
  m = m
  a = a
  b = b
  f = f
  g = g
  p = p
  Main = m
  Threads <- Three
  Fds <- TwoFds
  Pids <- OnePid
  Programs <- OnlyClose
CHECK_DEADLOCK FALSE
PROPERTIES
  WokenForOwnReason
