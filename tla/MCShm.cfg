CONSTANTS
  Procs = {p1, p2}
  Postmaster = p1
  Names = {a}
  Files = {f1, f2}
  NSegs = 2
  MaxBlocks = 2
  NPages = 3
  Base = 1
  PageSize = 2
  Word = 8
  Sizes = {1, 3}
SYMMETRY FileSymmetry
SPECIFICATION Spec
INVARIANTS FreedOnceUnused ShownIsAttached HeapIsPrivate
CHECK_DEADLOCK FALSE
