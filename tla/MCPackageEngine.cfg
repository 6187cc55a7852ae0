SPECIFICATION FairSpec
CONSTANTS
  a = a  b = b  a2 = a2
  Contract = {a, b, a2}
  StableName <- MCName
  Instance = {1, 2, 3}
  Unselected = Unselected
  Package <- MCPackage
  Dir = {"x", "x/s", "y"}
  Overlap <- MCOverlap
  Rel = {"f", "s/f"}
  Join <- MCJoin
  Release <- MCRelease
  None = None
INVARIANTS ReadsServed CommittedWhole
PROPERTIES ValidationSuffices ImplementsPlanner GenerationEnds
CHECK_DEADLOCK FALSE
