CONSTANTS
  Channels = {c1, c2, c3}
  Fds = {f1, f2}
  kInitEventListSize = 1
SPECIFICATION FairSpec
INVARIANTS TypeOK InterestAgrees NoDanglingPointer
PROPERTY Served
