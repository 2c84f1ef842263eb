SPECIFICATION FairChannelSpec
CONSTANTS
  Accumulate = FALSE
  Thread = {t1, t2}
  Main = main
  Barriers = 2
  Groups = 1
  WaitRestores = TRUE
  WithFifo = TRUE
  GlobalSize = 4
  BufferSize = 2
  Transfers = 2
  Orders = {"kernel"}
PROPERTIES KernelFirstCompletes
CHECK_DEADLOCK FALSE
