CONSTANTS
  p1 = p1  p2 = p2  p3 = p3
  Procs = {p1, p2, p3}
  Machine <- SharedMachine
  HostName <- SharedHost
  LocalHost = "localhost"
  Stealers = {p1, p2}
  Users = {}
  CarefulUsers = TRUE
  Mortals = {p3}
  TornKinds = {}
  UseTokens = FALSE
  BuggyRename = FALSE
  MaxTries = 1
SPECIFICATION Spec
PROPERTY HoldersKeepLock
