CONSTANTS
  Accumulate = TRUE
  Kernel <- OneKernel
  Buffer <- OneBuffer
  Uses <- OneUses
  Outputs <- OneOutputs
  MayFail = FALSE
  MaxEvents = 2
  MaxTransfers = 1
  RestartUnwaited = TRUE
SPECIFICATION ClSpec
INVARIANTS CompleteMeansEnded
