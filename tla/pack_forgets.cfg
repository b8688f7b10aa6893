CONSTANTS
  p1 = p1  p2 = p2  p3 = p3
  r1 = r1  r2 = r2  r3 = r3
  Free = Free
  Lost = Lost
  Procs = {p1, p2}
  Revs = {r1, r2}
  Tags = {0, 1, 2, 3, 4}
  MaxPacks = 4
  SameBytes = FALSE
  Packers = {p1}
  Suspenders = {}
  Mortals = {}
  Faulty = {p1}
SPECIFICATION PSpec
SYMMETRY Symmetric
INVARIANT NothingLost
