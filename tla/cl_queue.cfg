CONSTANTS
  Accumulate = FALSE
  Kernel <- TwoKernels
  Buffer <- ThreeBuffers
  Uses <- PipelineUses
  Outputs <- PipelineOutputs
  MayFail = TRUE
  MaxEvents = 4
  MaxTransfers = 2
  RestartUnwaited = FALSE
SPECIFICATION FairClSpec
INVARIANTS ClTypeOK NoOverlap CompleteMeansEnded FinishMeansIdle TaskAccounting
PROPERTIES ImplementsCommands CallsReturn
CHECK_DEADLOCK FALSE
