SPECIFICATION MCSpec
CONSTANTS
  a = a  b = b
  Contract = {a, b}
  StableName = StableName
  Instance = {1, 2, 3}
  Unselected = Unselected
  Package <- MCPackage
  None = None
  Source = {"s1", "s2"}
  Broken = "broken"
  MaxEdits = 3
  MaxQueue = 2
INVARIANTS NeedsServed
PROPERTIES ImplementsPlanner GenerationEnds EventuallyCurrent
CHECK_DEADLOCK FALSE
