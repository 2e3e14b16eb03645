\* The darwin host when thread_count or get_threads fails on a live task.
CONSTANTS
  p1 = p1
  p2 = p2
  p3 = p3
  NIL = NIL
  Faults = TRUE
  Port <- MCPort
  InitPorts <- MCInitPorts
SPECIFICATION Spec
INVARIANT CurrentThreadPresent
\* The task may exit, after which the controller stops for good (or crashes).
CHECK_DEADLOCK FALSE
