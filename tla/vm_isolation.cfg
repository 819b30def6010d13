SPECIFICATION Spec
CONSTANTS
  PoolSize = 2
  Ids = {i1, i2}
  Slugs = {s1, s2}
  SlugOf <- SameApp
  Objs = {1, 2}
  Handlers = {h1, h2}
  Main = Main
  NoVm = NoVm
  NoRequest = NoRequest
  MaxRuns = 1
SYMMETRY Symmetry
INVARIANTS
  TypeOK
  ReleasedOnlyAfterCancel
  UniqueAddress
  NoStrays
  KeepsItsDevices
