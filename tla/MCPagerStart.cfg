SPECIFICATION StartSpec
CONSTANTS
  Unset = Unset
  PageCap = 4
  MaxPage = 9
  PageSize = 2
  MaxTotal = 5
  MaxCalls = 5
INVARIANT TraversesFromTheStart
CHECK_DEADLOCK FALSE
