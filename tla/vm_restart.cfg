SPECIFICATION FairSpec
CONSTANTS
  PoolSize = 2
  Ids = {i1}
  Slugs = {s1, s2}
  SlugOf <- SameApp
  Objs = {1, 2}
  Handlers = {h1}
  Main = Main
  NoVm = NoVm
  NoRequest = NoRequest
  MaxRuns = 2
INVARIANTS
  NoStrays
  ImageIsLeft
PROPERTIES
  LeaseSpec
  StoppingLeaves
  DeathIsNoticed
  DiscardedVmDies
