CONSTANTS
  Kernel = {"k1", "k2"}
  Buffer = {"in", "mid", "out"}
  Event = {"end1", "end2", "in", "mid", "out"}
  KernelsIn <- MCKernelsIn
  KernelsOut <- MCKernelsOut
  EventKernels <- MCEventKernels
  Sizes = {65, 1700}
  EventPhys <- MCEventPhys
  BufferPhys <- MCBufferPhys
  KernelBase <- MCKernelBase
  ImageArea <- MCImageArea
  SynchBase <- MCSynchBase
  SynchSize = 256
  SharedBase <- MCSharedBase
  SharedEnd <- MCSharedEnd
  Scalars = {11, 40000, 70000}
  Word = 65536
  LongMax <- MCLongMax
  OwnEvents <- MCOwnEvents
  BufferEvent <- MCBufferEvent
  MaxArgs = 2
SPECIFICATION ArgSpec
INVARIANTS TypeOK TlbDisjoint BuffersResolve EventsResolve ArgTypeOK ArgumentsArrive AddressesKnown
