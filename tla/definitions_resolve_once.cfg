CONSTANTS
  c1 = c1
  c2 = c2
  f1 = f1
  f2 = f2
  f3 = f3
  f4 = f4
  f5 = f5
  t1 = t1
  g1 = g1
  None = None
  Main = c1
  Contexts <- Two
  Functions <- OneFunction
  Types <- OneType
  FromFile <- Nothing
  Hosts <- Hasty
SPECIFICATION Spec
SYMMETRY Symmetry
INVARIANT ResolvedOnce
