CONSTANTS
  Parts = {"chk", "transform"}
  k1 = k1 k2 = k2 k3 = k3 k4 = k4
  Keys = {k1, k2, k3, k4}
  SearchKey <- Hashes
  Serialised <- Written
  Sizes = {1, 2}
  MaxSize = 7
  NewSize = 3
  Shrinkage = 1
  MaxDelta = 1
  Orders <- BothWays
  Old = {1, 2, 3}
  Fresh = {4, 5, 6, 7}
  Layouts <- Small
  Names <- TwoNames
  MaxChanges = 2
  MaxFaults = 2
  None = None
SPECIFICATION ContentsSpec
INVARIANTS HoldsItsItems RegularFormIsCanonical ChangesAreRightApart AppliedAsPlanned NothingDeletedEarly RollbackRestores ResolutionSucceeds
