CONSTANTS
  Root = root
  Subs = {sub}
  NoDir = nodir
  Filters = {all, errors}
  AnyFilter = all
  Queries = {none, text}
  NoQuery = none
  NoResult = noresult
  Keep = 2
  Fetched = 1
  NoSocket = nosocket
  Keys = {k, l}
  NoKey = nokey
  Values = {v, w}
  NoValue = novalue
  TeamKeys = {k}
  Forms = {"name","allowlist","workers","settings"}
  Texts = {a,b}
  Initial = a
  Hours = {0, 1, 7}
  Paths = {p}
  NoPath = nopath
  InVm = {p}
  Names = {m, n}
  NoName = noname
  MaxEntries = 2
  MaxRequests = 4
  MaxSearches = 3
  MaxPages = 2
  MaxSaves = 3
  MaxRenames = 1
  MaxStreams = 2
  MaxFetches = 1
  MaxConnects = 3
SPECIFICATION FairSpec
INVARIANTS
  TypeOK
  ViewIsTheEntry
  NamedRightly
  ListsAreCurrent
  NoStrayStream
  ConnectedMeansOpen
  TypesIntoOneShell
  ChangesAreAnnounced
  SendsItsOwnText
  BackupNeedsPersistent
  CleanMeansStored
  DismissedStays
  AtMostOneDefault
PROPERTIES
  DeletesWhatWasConfirmed
  NoLateStatus
  WaitingEnds
CHECK_DEADLOCK FALSE
