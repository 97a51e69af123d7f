\* Retries, a log that may outgrow its cap, a socket that may break at any time.
SPECIFICATION FairSpec
CONSTANTS
  Lines = 3
  Cap = 2
  Attempts = 2
  Files = 1
  Window = 2
  Misses = 1
  Routes = {"direct", "gateway"}
  Polls = 2
INVARIANTS
  TypeOK
  TerminalInOrder
  AllLinesShown
PROPERTIES
  WatchEndsDirect
  CompletionSeen
CHECK_DEADLOCK FALSE
