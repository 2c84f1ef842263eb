SPECIFICATION NarrowSpec
CONSTANTS
  Context = {c1, c2}
  Device = {d1, d2}
  Queue = {q1, q2}
  Program = {p1}
  Kernel = {k1}
  Mem = {m1}
  Event = {e1, e2}
  Path = {x, y}
  Readable = {x}
  MaxBinaries = 2
  MaxUntidy = 1
  NULL = NULL
SYMMETRY Symmetry
INVARIANTS ClObjTypeOK TidyEnds NullPointersTraced RunsOnItsDevice
PROPERTIES AllocatedAllPlaced
CHECK_DEADLOCK FALSE
