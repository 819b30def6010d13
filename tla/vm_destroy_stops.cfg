SPECIFICATION Spec
CONSTANTS
  PoolSize = 2
  Ids = {i1}
  Slugs = {s1, s2}
  SlugOf <- SameApp
  Objs = {1, 2}
  Handlers = {h1, h2}
  Main = Main
  NoVm = NoVm
  NoRequest = NoRequest
  MaxRuns = 1
PROPERTY DestroyStops
