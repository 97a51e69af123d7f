\* Three sockets come and go under two broadcasts; two builds of one project
\* name, with calls that fail and record writes that are lost; two checkouts, each
\* paid and then changed or ended, rows for both, and two webhooks in flight.
SPECIFICATION OverlapsSpec
CONSTANTS
  s1 = s1
  s2 = s2
  s3 = s3
  b1 = b1
  b2 = b2
  h1 = h1
  h2 = h2
  Sockets = {s1, s2, s3}
  Casts = {b1, b2}
  Lists = 2
  api = api
  web = web
  Builds = {b1, b2}
  Milestones = 2
  Paths = {api, web}
  Answers <- MCAnswers
  Scaffold <- MCScaffold
  MaxLost = 1
  Subs = {s1, s2, s3}
  Plans = {"pro"}
  Checkouts = {b1, b2}
  Hooks = {h1, h2}
  MaxEvents = 2
SYMMETRY Interchangeable
INVARIANTS
  OverlapsTyped
  AtMostOnce
  MissedAtMostRemoved
  SwarmDelivers
  ProgressHonest
  WorkspaceHoldsBuild
  MirrorsStripe
  PaidIsServed
CHECK_DEADLOCK FALSE
