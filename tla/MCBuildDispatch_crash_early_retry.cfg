\* A retry that does not wait out the staleness window (the deployed 0.1 s).
SPECIFICATION FairSpec
CONSTANTS
  q1 = q1
  r1 = r1
  r2 = r2
  NoReq = NoReq
  Reqs = {q1}
  Runs = {r1, r2}
  Steps = 2
  Stale = 2
  Deadline = 3
  Backoff = 0
  Faults = {"crash"}
  MaxFaults = 1
PROPERTIES
  EventuallyComplete
