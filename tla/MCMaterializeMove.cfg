SPECIFICATION Spec
CONSTANTS
  client = client  mod = mod  g1 = g1
  Path <- MCPath
  Rank <- MCRank
  Parent <- MCParent
  NoParent = NoParent
  Text = {g1}
  UserText <- MCUserText
  Npm = {}
  NpmText = {}
  Merge <- MCMerge
  Reformat = {}
  Metadata = {}
  ReplayLock = {}
  Tree <- MCTree
  NoTree = NoTree
  Run = {r1}
  Ledger = Ledger
  Absent = Absent  Torn = Torn  Dir = Dir  Link = Link
  MaxEdits = 1
  MaxStops = 0
PROPERTY PreflightSuffices
CHECK_DEADLOCK FALSE
