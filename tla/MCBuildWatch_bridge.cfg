\* The socket goes through the gateway, and the tail breaks or gives up.
SPECIFICATION FairSpec
CONSTANTS
  Lines = 1
  Cap = 3
  Attempts = 1
  Files = 1
  Window = 2
  Misses = 1
  Routes = {"gateway"}
  Polls = 2
PROPERTIES
  WatchEnds
CHECK_DEADLOCK FALSE
