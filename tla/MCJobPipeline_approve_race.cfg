\* An approve call reads before and writes after the pipeline's result.
SPECIFICATION JobSpec
CONSTANTS
  c1 = c1
  Callers = {c1}
  Calls = 1
  Retries = 2
  Misses = 1
PROPERTIES
  StoredVerdictStays
CHECK_DEADLOCK FALSE
