------------------------------ MODULE MCClQueue ------------------------------
(***************************************************************************)
(* Two kernels in a pipeline: k1 reads "in" and writes "mid", k2 reads     *)
(* "mid" and writes "out".                                                 *)
(***************************************************************************)
EXTENDS ClQueue

TwoKernels == {"k1", "k2"}
ThreeBuffers == {"in", "mid", "out"}

PipelineUses ==
  [k \in TwoKernels |-> IF k = "k1" THEN {"in", "mid"} ELSE {"mid", "out"}]

PipelineOutputs ==
  [k \in TwoKernels |-> IF k = "k1" THEN {"mid"} ELSE {"out"}]

\* One kernel and its input.
OneKernel == {"k1"}
OneBuffer == {"in"}
OneUses == [k \in OneKernel |-> OneBuffer]
OneOutputs == [k \in OneKernel |-> {}]
=============================================================================
