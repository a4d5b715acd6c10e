CONSTANTS
  s1 = s1
  s2 = s2
  s3 = s3
  s4 = s4
  x = x
  pnr = pnr
  v1 = v1
  v2 = v2
  m1 = m1
  m2 = m2
  ScopeIds <- FourScopes
  None = None
  Names <- OneName
  Pnr = pnr
  Values <- OneValue
  GroupKey = GroupKey
  Matches <- NoMatch
  Absent = Absent
  MutableFlags = {FALSE}
  MaxDepth = 2
SPECIFICATION Spec
SYMMETRY Symmetry
INVARIANTS TypeOK NoSharedMaps StateAgreesWithGet
PROPERTIES OneViewPerStep ImplementsEnvironment
