\* Is the certificate of a submission always a reproducible one?
SPECIFICATION ServicesSpec
CONSTANTS
  i1 = i1
  i2 = i2
  u1 = u1
  u2 = u2
  k1 = k1
  k2 = k2
  e1 = e1
  e2 = e2
  e3 = e3
  o1 = o1
  flash = flash
  pro = pro
  other = other
  unlisted = unlisted
  f1 = f1
  Focus = {"designations"}
  Ideas = {i1, i2}
  Contested = {i1}
  Slugs = {"slug"}
  SlugOf <- MCSlugOf
  Users = {u1, u2}
  Writers = {u1, u2}
  PatchTo = {"pending", "completed"}
  IdeaCalls = {k1, k2}
  Bodies <- MCBodies
  Evaluators = {e1, e2, e3}
  Founder = e1
  Sheets <- MCSheets
  Decks <- MCDecks
  VoteCalls = {k1, k2}
  DesCalls = {k1, k2}
  RowIds = {1, 2}
  Parts = {k1, k2}
  MaxPairs = 3
  Members = {u1, u2}
  Orgs = {o1}
  Names <- MCNames
  Projects = {k1, k2}
  Creates = {k1, k2}
  Instances = {o1}
  Agents = {"architect", "codegen"}
  Builtins = {flash, pro}
  Others = {other}
  Flash = flash
  Pro = pro
  Unlisted = unlisted
  ModelJobs = {i1}
  Keys = {o1}
  Limit = 2
  Window = 4
  Second = 2
  MaxTime = 14
  Files = {f1}
  Words = {"a", "b", "xff", "mark"}
  Undecodable = {"xff"}
  Mark = "mark"
  Folder <- MCFolder
  Editors = {e1}
  Contents <- MCContents
  Outputs <- MCOutputs
  Replacements <- MCReplacements
  MaxLines = 3
  MaxText = 2
  KycInstances = {o1, f1}
  KycIds = {"s1", "s2", "s3"}
  Clicks = {k1, k2}
  Titles <- MCTitles
  RegionsOf <- MCRegions
  Countries = {"kenya", "ghana"}
  MinScores = {0, 65}
  TopKs = {1, 2}
  PageSize = 3
  Seeders = {k1, k2}
  OppRows = {1, 2, 3, 4}
INVARIANT GradeMatchesScore
SYMMETRY Interchangeable
CHECK_DEADLOCK FALSE
