\* Two threads; a buffer holds two lines.
CONSTANTS
  Producers = {p1, p2}
  LargeBuffer = 3
  MaxLines = 3
  RollSize = 2
SPECIFICATION Spec
INVARIANT BuffersRefilled
\* stop() or a null pointer ends it all.
CHECK_DEADLOCK FALSE
