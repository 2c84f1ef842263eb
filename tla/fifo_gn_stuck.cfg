SPECIFICATION FairChannelSpec
CONSTANTS
  Accumulate = FALSE
  Thread = {t1}
  Main = main
  Barriers = 2
  Groups = 1
  WaitRestores = FALSE
  WithFifo = TRUE
  GlobalSize = 4
  BufferSize = 2
  Transfers = 1
  Orders = {"kernel"}
PROPERTIES KernelFirstCompletes
CHECK_DEADLOCK FALSE
