SPECIFICATION MCSpec
CONSTANTS
  Section = {"dependencies", "peerDependencies"}
  Absent = Absent
  NoIdentity = "none"
  Nothing = Nothing
  Dep = {"zod", "query"}
  Version = {4, 5}
  Key = {"build", "dist"}
  Release <- MCRelease
  Job = {j1, j2}
  Distribution = {"sdist", "wheel"}
  Archive = "sdist"
  Build = {b1, b2}
  Missing = Missing
  Identity = {i1, i2, i3}
  Unclaimed = Unclaimed
  Exchange = {e1, e2}
  Claim <- MCClaim
  Lifetime = 1
  Skew = 1
  Grace = 2
  Interval = 0
  Limit = 1
  MaxTime = 3
  Object = {o1, o2}
  Value = {1, 2, 3}
  Null = Null
  Canonical <- MCCanonical
  Success <- MCSuccess
  Failure <- MCFailure
  MaxPolls = 2
  Entity = {1, 2, 3}
  Target = {"typescript"}
  Module = {"models", "Models"}
  Word = {"Order", "order"}
  Lower <- MCLower
  Preferred <- MCPreferred
  MaxOrdinal = 3
  MaxRequests = 3
  MaxForbidden = 1
INVARIANTS Managed RecordedIsReal RequirementsMet ReportedIsPublished DifferenceIsReal UsedOnce StoreBounded NamesDistinct NothingStolen SuffixesAreFirst
PROPERTIES UserChoiceSurvives
CHECK_DEADLOCK FALSE
