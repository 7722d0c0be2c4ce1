CONSTANTS
  Fds = {s1, s2, s3}
  MaxCalls = 4
SPECIFICATION FairSpec
INVARIANTS TypeOK SocketsOwned KeepsTrying AssertionsHold
PROPERTY Connects
\* The application stops calling, a failed assertion ends the program.
CHECK_DEADLOCK FALSE
