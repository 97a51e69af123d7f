\* The enqueue reply is lost: fallback and delivery run together.
SPECIFICATION Spec
CONSTANTS
  q1 = q1
  r1 = r1
  r2 = r2
  NoReq = NoReq
  Reqs = {q1}
  Runs = {r1, r2}
  Steps = 2
  Stale = 2
  Deadline = 3
  Backoff = 0
  Faults = {"lostReply"}
  MaxFaults = 1
INVARIANTS
  SingleWriter
