------------------------------ MODULE MCRegistry ------------------------------
(***************************************************************************)
(* Two kernels, two buffers and five events, so that ids are registered    *)
(* again, and buffers too after they were deregistered; a kernel has one   *)
(* task event, and two entries in a vector let one be added twice.         *)
(* The ids are interchangeable.                                            *)
(***************************************************************************)
EXTENDS Registry, TLC

Symmetry == Permutations(KernelId) \cup Permutations(BufferId)
===============================================================================
