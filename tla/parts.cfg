CONSTANTS
  Parts = {"branches", "autopack", "config", "smart", "graph", "revnos", "tokens"}
  trunk = trunk  work = work  side = side
  t1 = t1  t2 = t2
  p1 = p1  p2 = p2  p3 = p3
  Free = Free  Stale = Stale
  Branches = {trunk, work, side}
  Master = trunk
  Trees = {t1, t2}
  Layouts <- Apart
  MaxTips = 3
  MaxCalls = 4
  Failing = {t1}
  Pushes = {1, 9, 10, 30, 95}
  MaxRevs = 101
  MaxBlanks = 1
  o1 = o1  o2 = o2  u1 = u1  u2 = u2  v1 = v1  v2 = v2
  Users = {u1, u2}
  Options = {o1, o2}
  Values = {v1, v2}
  Unset = Unset
  Nobody = Nobody
  c1 = c1  c2 = c2
  Clients = {c1, c2}
  Servers = {2, 3}
  NoToken = NoToken
  Verbs = {"set", "lock", "unlock", "append", "insert"}
  MaxRequests = 3
  MaxResets = 2
  k1 = k1  k2 = k2  k3 = k3
  NullRevision = NullRevision
  Keys = {NullRevision, k1, k2, k3}
  ReadInOneGo = {NullRevision, k1, k2, k3}
  MaxCached = 1
  Lineages <- Graphs
  Tip = 5
SPECIFICATION PartsSpec
INVARIANTS TipsArePresent MasterFirst LocalWorkKeptApart PackCountBounded RepeatedSafely LockIsKept HeadsAreRight SortedRight RevnosAreRight TokensAreShared
PROPERTIES TipsAdvance OthersOptionsKept
