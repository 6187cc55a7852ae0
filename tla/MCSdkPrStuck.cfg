SPECIFICATION Spec
CONSTANTS
  s1 = s1  s2 = s2  u = u  v1 = v1  v2 = v2
  j1 = j1  j2 = j2  Job = {j1}
  Source <- MCSource
  NoFile = NoFile
  Version0 = v1
  Start <- MCStart
  Author = Author
  Closed = Closed
  Change <- MCChange
  MaxCommits = 4
  MaxAuthored = 2
  MaxCrashes = 1
INVARIANTS PushRejectsOnlyRaces
CHECK_DEADLOCK FALSE
