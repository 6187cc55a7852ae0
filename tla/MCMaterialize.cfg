SPECIFICATION MCSpec
CONSTANTS
  dir = dir  skp = skp  npm = npm  lock = lock
  ext = ext
  g1 = g1  g2 = g2  u1 = u1
  Path <- MCPath
  Rank <- MCRank
  Parent <- MCParent
  NoParent = NoParent
  Text <- MCText
  UserText <- MCUserText
  Npm = {npm}
  NpmText <- MCNpmText
  Merge <- MCMerge
  Reformat = {}
  Metadata = {}
  ReplayLock = {lock}
  Tree <- MCTree
  NoTree = NoTree
  Run = {r1, r2}
  Ledger = Ledger
  Absent = Absent  Torn = Torn  Dir = Dir  Link = Link
  MaxEdits = 2
  MaxStops = 2
INVARIANTS RerunAccepted CleanAfterDone
PROPERTIES LosesNoEdit SkippedPackageKept UndisturbedRunCompletes
CHECK_DEADLOCK FALSE
SYMMETRY Symmetry
