SPECIFICATION FairChannelSpec
CONSTANTS
  Accumulate = FALSE
  Thread = {t1, t2, t3}
  Main = main
  Barriers = 3
  Groups = 1
  WaitRestores = TRUE
  WithFifo = TRUE
  GlobalSize = 6
  BufferSize = 2
  Transfers = 1
  Orders = {"kernel", "buffer"}
INVARIANTS ChannelTypeOK BlockInPlace FifoOneOwner WaitMeansTransferred
PROPERTIES KernelFirstCompletes
