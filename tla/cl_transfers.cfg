CONSTANTS
  Accumulate = FALSE
  Kernel <- OneKernel
  Buffer <- OneBuffer
  Uses <- OneUses
  Outputs <- OneOutputs
  MayFail = FALSE
  MaxEvents = 2
  MaxTransfers = 2
  RestartUnwaited = FALSE
SPECIFICATION FairClSpec
PROPERTIES EveryCallReturns
CHECK_DEADLOCK FALSE
