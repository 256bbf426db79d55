SPECIFICATION FairSpec
CONSTANTS
  m = m
  a = a
  b = b
  f = f
  g = g
  p = p
  Main = m
  Threads <- Three
  Fds <- TwoFds
  Pids <- OnePid
  Programs <- MCPrograms
CHECK_DEADLOCK FALSE
INVARIANTS
  RingSound
PROPERTIES
  WokenForReason
  RunnableRuns
  ReadyResumes
