SPECIFICATION MCSpec
CONSTANTS
  s1 = s1  s2 = s2  u = u  v1 = v1  v2 = v2
  j1 = j1  j2 = j2  Job = {j1, j2}
  c1 = c1  c2 = c2  Conn = {c1, c2}
  Source <- MCSource
  SpecAt <- MCSpecAt
  Spec0 = {s1, s2, u}
  NoFile = NoFile
  Version0 = v1
  Start <- MCDestination
  Target <- MCTarget
  Author = Author
  Closed = Closed
  Change <- MCChanges
  MaxCommits = 4
  MaxAuthored = 3
  MaxCrashes = 1
  MaxTimeouts = 1
SYMMETRY JobSymmetry
INVARIANTS ReviewOffered ProvenanceTrue SpecOffered
PROPERTIES EditsSurvive ReleasedVersionKept SpecEditsSurvive ConnectionKept
CHECK_DEADLOCK FALSE
