CONSTANTS
  Parts = {"dirstate", "hashes"}
  p1 = p1  p2 = p2  p3 = p3
  t1 = t1  t2 = t2  t3 = t3
  m1 = m1  m2 = m2  h1 = h1
  NoOne = NoOne
  Procs = {p1, p2, p3}
  Objs = {t1, t2, t3}
  Owners <- Both
  RevTrees = {t3}
  Mods = {m1, m2}
  Hashes = {h1}
  Limit = 1
  MaxOpen = 2
  Mortals = {p1}
  c1 = c1  c2 = c2
  None = None
  Contents = {c1, c2}
  Lag = 1
  Slow = {"update", "observe"}
  MaxRead = 2
  LateCutoff = FALSE
  MaxTime = 7
  SetBack = {0}
SPECIFICATION TreesSpec
SYMMETRY Symmetric
INVARIANTS MemoryIsCurrent ReadsAreWhole FileSound EntryIsRight HashIsRight
PROPERTIES NoLostUpdateApart WritersAreSaved
