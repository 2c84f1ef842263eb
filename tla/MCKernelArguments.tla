--------------------------- MODULE MCKernelArguments ---------------------------
(***************************************************************************)
(* Two kernels in a pipeline over three buffers; the second kernel also    *)
(* writes the buffer it reads.  The regions are those of mm.cpp divided by *)
(* 2^16, so that sizes of 2000 come to the end of the region of PEAK.  One *)
(* event stands for the four of a kernel.                                  *)
(***************************************************************************)
EXTENDS KernelArguments

MCKernelsIn ==
  [b \in Buffer |-> CASE b = "in"  -> {"k1"}
                      [] b = "mid" -> {"k2"}
                      [] b = "out" -> {}]

MCKernelsOut ==
  [b \in Buffer |-> CASE b = "in"  -> {}
                      [] b = "mid" -> {"k1", "k2"}
                      [] b = "out" -> {"k2"}]

MCEventKernels ==
  [e \in Event |-> CASE e = "end1" -> {"k1"}
                     [] e = "end2" -> {"k2"}
                     [] OTHER -> MCKernelsIn[e] \cup MCKernelsOut[e]]

MCOwnEvents == [k \in Kernel |-> IF k = "k1" THEN <<"end1">> ELSE <<"end2">>]
MCBufferEvent == [b \in Buffer |-> b]

MCEventPhys ==
  [e \in Event |-> CASE e = "end1" -> 0 [] e = "end2" -> 255 [] e = "in" -> 10
                     [] e = "mid" -> 20 [] e = "out" -> 30]
MCBufferPhys ==
  [b \in Buffer |-> CASE b = "in" -> 0 [] b = "mid" -> 4096 [] b = "out" -> 8192]

MCLongMax == [a \in Reader |-> IF a = "PEAK" THEN 2^15 - 1 ELSE 2^30]

PerArch(peak, nup, dct) ==
  [a \in Mapped |-> CASE a = "PEAK" -> peak [] a = "NUP" -> nup [] a = "DCT" -> dct]

MCKernelBase == [a \in Arch |-> IF a = "NUP" THEN 0 ELSE 12288]
MCImageArea  == [a \in Arch |-> CASE a = "GN" -> 0 [] a = "DCT" -> 1 [] OTHER -> 4096]
MCSynchBase  == PerArch(24064, 65280, 4096)
MCSharedBase == PerArch(20480, 32768, 20480)
MCSharedEnd  == PerArch(24064, 65280, 65536)
=============================================================================
