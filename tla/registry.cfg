SPECIFICATION Spec
CONSTANTS
  KernelId = {k1, k2}
  BufferId = {b1, b2}
  TaskEvents = 1
  MaxEvents = 5
  MaxEntries = 2
SYMMETRY Symmetry
INVARIANT RegTypeOK
INVARIANT HandlesResolve
INVARIANT OrderlyProgramsRun
PROPERTY AllocationPrepares
