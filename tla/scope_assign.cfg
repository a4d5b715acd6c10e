CONSTANTS
  s1 = s1
  s2 = s2
  s3 = s3
  s4 = s4
  x = x
  pnr = pnr
  v1 = v1
  v2 = v2
  m1 = m1
  m2 = m2
  ScopeIds <- TwoScopes
  None = None
  Names <- OneName
  Pnr = pnr
  Values <- TwoValues
  GroupKey = GroupKey
  Matches <- OneMatch
  Absent = Absent
  MutableFlags = {TRUE, FALSE}
  MaxDepth = 3
SPECIFICATION Spec
SYMMETRY Symmetry
INVARIANTS PopsItsOwnFrame NoVisibleGlobalOverride
PROPERTIES BoundOnce CoveredFramesFrozen
