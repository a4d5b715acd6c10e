CONSTANTS
  current = current
  outer = outer
  outermost = outermost
  x = x
  y = y
  m1 = m1
  ScopeIds <- ThreeScopes
  Current = current
  Origins <- SomeOrigins
  None = None
  Names <- TwoNames
  Pnr = x
  Values <- SomeValues
  GroupKey = GroupKey
  Matches <- OneMatch
  Absent = Absent
  MutableFlags = {FALSE}
  MaxDepth = 5
  Atoms <- TwoAtoms
  Undef <- UndefAtom
  Lefts <- SomeLefts
  Rights <- SomeRights
  Assignments <- SomeAssignments
  Cases <- SomeCases
  Selectors <- SomeSelectors
  Callables <- SomeCallables
  Arguments <- SomeArguments
  MaxActive = 2
  MaxLength = 3
SPECIFICATION StatementsSpec
CHECK_DEADLOCK FALSE
INVARIANT ReturnTypeHolds
