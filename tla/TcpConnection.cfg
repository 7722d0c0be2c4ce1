\* Small buffers, so that bytes are moved to the front and the vector grows.
CONSTANTS
  kCheapPrepend = 1
  kInitialSize = 1
  ExtraBuf = 1
  MaxBytes = 4
  MaxInput = 2
SPECIFICATION FairSpec
INVARIANTS TypeOK BytesInOrder WatchesOutput FinAfterFlush LivesOnce
PROPERTIES ShutdownCompletes CloseIsReported
\* A connection ends.
CHECK_DEADLOCK FALSE
