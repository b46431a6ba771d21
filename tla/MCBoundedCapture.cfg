\* Limits 0..6 against a stream of 7 bytes read up to 4 at a time.
CONSTANTS
  Limits <- MCLimits
  ReadSize = 4
  StreamLen = 7
  NotRendered = NotRendered
SPECIFICATION Spec
INVARIANTS
  TypeOK
  WindowExact
  RenderHonest
\* The thread stops and the capture is rendered: the system ends.
CHECK_DEADLOCK FALSE
