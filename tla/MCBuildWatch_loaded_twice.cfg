\* The socket closes while the files of the final snapshot are written.
SPECIFICATION Spec
CONSTANTS
  Lines = 1
  Cap = 3
  Attempts = 1
  Files = 1
  Window = 2
  Misses = 1
  Routes = {"direct"}
  Polls = 2
INVARIANTS
  LoadedOnce
CHECK_DEADLOCK FALSE
