\* Builds whose executions follow one another, a retry waits out the staleness
\* window; and jobs with a model that may fail at every call, two approve calls
\* at any moment and a task that may vanish.
SPECIFICATION PipelinesSpec
CONSTANTS
  Pipelines = {"build", "job"}
  q1 = q1
  r1 = r1
  r2 = r2
  NoReq = NoReq
  Reqs = {q1}
  Runs = {r1, r2}
  Steps = 2
  Stale = 2
  Deadline = 3
  Backoff = 2
  Faults = {"crash", "failedRead", "buildError"}
  MaxFaults = 3
  c1 = c1
  c2 = c2
  Callers = {c1, c2}
  Calls = 2
  Retries = 2
  Misses = 1
INVARIANTS
  AckedIsComplete
  SingleWriterInFile
  JobTypeOK
  StreamIsTrue
PROPERTIES
  PromiseKept
  JobPromiseKept
  EventuallyComplete
  JobSettles
  StreamEnds
CHECK_DEADLOCK FALSE
