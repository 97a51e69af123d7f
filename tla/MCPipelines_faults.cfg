\* Two /start calls on one key, every fault but crashes and lost writes; the
\* dispatch deadline and the staleness window are equal, as in the code.
SPECIFICATION BuildsSpec
CONSTANTS
  Pipelines = {"build"}
  q1 = q1
  q2 = q2
  r1 = r1
  r2 = r2
  NoReq = NoReq
  Reqs = {q1, q2}
  Runs = {r1, r2}
  Steps = 1
  Stale = 1
  Deadline = 1
  Backoff = 1
  Faults = {"failedRead", "rejected", "lostReply", "duplicate", "slow", "buildError"}
  MaxFaults = 2
  c1 = c1
  Callers = {c1}
  Calls = 1
  Retries = 1
  Misses = 0
INVARIANTS
  TypeOK
  RunningHasWriter
PROPERTIES
  EventuallySettled
  TaskDrains
