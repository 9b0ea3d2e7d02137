SPECIFICATION FairSpec
CONSTANTS
  v1 = v1
  c1 = c1
  c2 = c2
  c3 = c3
  r1 = r1
  gate = gate
  lint = lint
  gem = gem
  notes = notes
  junk = junk
  Commits = {c1, c2, c3}
  Versions = {v1}
  Revs = {r1}
  VersionOf <- OneVersion
  Trailers <- OneTrailer
  Source <- MCSource
  Tree <- MCTree
  Copied <- MCCopied
  Excluded = {"notes"}
  FixedEdits = {}
  Tables <- MCTables
  TableFrom <- MapFrom
  TableAt = "map"
  Checks = {gate, lint}
  MustSucceed = {gate}
  Runs = {1}
  MaxAttempt = 2
  MaxFaults = 1
  Paths = {gem, notes}
  Data <- MCData
  Digest <- MCDigest
  Gem = gem
  Junk = junk
  None = none
CHECK_DEADLOCK FALSE
INVARIANTS
  TypeOK
  PublishedProvenance
  BuiltInAttempt
PROPERTY FullRunLands
