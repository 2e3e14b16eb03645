\* The darwin host with reliable thread-list calls.
CONSTANTS
  p1 = p1
  p2 = p2
  p3 = p3
  NIL = NIL
  Faults = FALSE
  Port <- MCPort
  InitPorts <- MCInitPorts
SPECIFICATION Spec
INVARIANT NoPanicWhileAlive
PROPERTY ExceptionFound
\* The task may exit, after which the controller stops for good (or crashes).
CHECK_DEADLOCK FALSE
