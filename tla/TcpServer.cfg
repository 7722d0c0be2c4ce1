CONSTANTS
  MaxThreads = 2
  Fds = {f1, f2}
  MaxConns = 4
SPECIFICATION FairSpec
INVARIANTS TypeOK AssertionsHold TakenDownFirst
PROPERTY ClientsServed
\* All clients have come and gone.
CHECK_DEADLOCK FALSE
