SPECIFICATION FairSpec
CONSTANTS
  Accumulate = FALSE
  Thread = {t1, t2, t3}
  Main = main
  Barriers = 1
  Groups = 1
  WaitRestores = FALSE
  WithFifo = FALSE
PROPERTIES BarrierOpens
CHECK_DEADLOCK FALSE
