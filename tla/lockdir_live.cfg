CONSTANTS
  p1 = p1  p2 = p2  p3 = p3
  Procs = {p1, p2}
  Machine <- Machines
  HostName <- NamedHosts
  LocalHost = "localhost"
  Stealers = {p1, p2}
  Users = {p1, p2}
  CarefulUsers = FALSE
  Mortals = {p1}
  TornKinds = {"empty", "corrupt"}
  UseTokens = TRUE
  BuggyRename = FALSE
  MaxTries = 2
SPECIFICATION FairSpec
PROPERTIES StaleTokensAreRefused CallsEnd DeadLockIsStolen
