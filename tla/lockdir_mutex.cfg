CONSTANTS
  p1 = p1  p2 = p2  p3 = p3
  Procs = {p1, p2, p3}
  Machine <- Machines
  HostName <- NamedHosts
  LocalHost = "localhost"
  Stealers = {p1}
  Users = {p1}
  CarefulUsers = TRUE
  Mortals = {p1, p2}
  TornKinds = {"empty"}
  UseTokens = FALSE
  BuggyRename = TRUE
  MaxTries = 2
SPECIFICATION Spec
INVARIANTS MutualExclusion NoPendingLeftBehind
PROPERTIES HoldersKeepLock UnlockTakesOwnLock ImplementsMutex
