\* One client; two messages of it are two notifications of conversation 1.
CONSTANTS
  SndWnd = 2
  RcvWnd = 3
  Resent = 2
  FastLimit = 5
  Mtu = 6
  DataSize = 2
  Clients = {c1}
  NoBlock = NoBlock
  MaxMessages = 2
SPECIFICATION Spec
INVARIANT ControlBlockFound
\* A null pointer ends the program, and nothing happens after a lost datagram.
CHECK_DEADLOCK FALSE
