\* Messages of two segments; those of three are refused, as long as the window.
CONSTANTS
  SndWnd = 2
  RcvWnd = 3
  Resent = 1
  FastLimit = 1
  Mtu = 3
  DataSize = 2
  Lengths = {2, 3}
  MaxSegments = 4
  MaxFaults = 1
  NetCapacity = 2
  MaxAcks = 1
SPECIFICATION FairSpec
INVARIANTS AckedIsHeld WindowsKept
PROPERTIES ImplementsStream Delivered
\* All messages have been delivered and acknowledged.
CHECK_DEADLOCK FALSE
