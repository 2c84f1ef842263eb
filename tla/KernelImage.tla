----------------------------- MODULE KernelImage -----------------------------
(***************************************************************************)
(* KernelFunction (host/src/kernel.cpp, host/include/kernel.h): the image  *)
(* files of one kernel, one for each type of unit, and what the loading of *)
(* one more does to them.  The names in version and the sizes in size are  *)
(* maps of their own, so a load that fails half way leaves them unequal.   *)
(***************************************************************************)
EXTENDS Integers, FiniteSets

\* Unit types below STOP; the host calls GPGPU GPU.  The last two have no loader.
UnitType == {"PEAK", "NUP", "DCT", "GN", "GPGPU", "ARM"}
FileType == {"UNKNOWN", "BINARY", "HARDWARE", "STRING", "SOURCE"}
Loadable == {"PEAK", "NUP", "DCT", "GN"}

\* Memory for the image, the bss section and the stack; TLC's integers hold 2^28.
ImageSize(unit) == IF unit = "GN" THEN 0 ELSE IF unit = "DCT" THEN 1 ELSE 2^28

Empty == [x \in {} |-> x]

\* std::map: m[x] = v.
Assign(m, x, v) == [y \in DOMAIN m \cup {x} |-> IF y = x THEN v ELSE m[y]]

KernelFunctionInit == [loaded |-> FALSE, version |-> Empty, size |-> Empty]

Fail(f, code) == [function |-> f, result |-> code]

\* Mutant of EnterVersion: emplace instead of operator[].
EnterVersionOnce(f, unit, file) ==
  [f EXCEPT !.version = IF unit \in DOMAIN @ THEN @ ELSE Assign(@, unit, file)]

EnterVersion(f, unit, file) == [f EXCEPT !.version = Assign(@, unit, file)]
EnterSize(f, unit) == [f EXCEPT !.size = Assign(@, unit, ImageSize(unit))]

\* Mutant of LoadBinary: the size goes in before the file is opened, the version after.
LoadBinarySizeFirst(f, unit, file, opens) ==
  IF opens
  THEN [function |-> EnterVersion(EnterSize(f, unit), unit, file), result |-> "SUCCESS"]
  ELSE Fail(EnterSize(f, unit), "ERR_INVALID_KERNEL_FILE")

\* load_gn, load_peak and load_nuplus of a BINARY: the version is entered
\* before the file is opened, the size after.
LoadBinary(f, unit, file, opens) ==
  LET entered == EnterVersion(f, unit, file) IN
  IF opens THEN [function |-> EnterSize(entered, unit), result |-> "SUCCESS"]
           ELSE Fail(entered, "ERR_INVALID_KERNEL_FILE")

\* Mutant of LoadHardware: the size is left to the device.
LoadHardwareNoSize(f, file, type) ==
  IF type = "HARDWARE"
  THEN [function |-> EnterVersion(f, "DCT", file), result |-> "SUCCESS"]
  ELSE Fail(f, "ERR_INVALID_KERNEL_FILE")

\* load_dct enters both before it looks at the type.
LoadHardware(f, file, type) ==
  [function |-> EnterSize(EnterVersion(f, "DCT", file), "DCT"),
   result   |-> IF type = "HARDWARE" THEN "SUCCESS" ELSE "ERR_INVALID_KERNEL_FILE"]

LoadType(f, unit, type, file, opens) ==
  IF unit = "DCT" THEN LoadHardware(f, file, type)
  ELSE IF type = "BINARY" THEN LoadBinary(f, unit, file, opens)
  ELSE Fail(f, IF unit = "GN" /\ type \in {"STRING", "SOURCE"}
               THEN "ERR_FEATURE_NOT_IMPLEMENTED" ELSE "ERR_INVALID_KERNEL_FILE")

\* A load that succeeds sets loaded, which is never taken back.
SetLoaded(l) ==
  [function |-> [l.function EXCEPT !.loaded = @ \/ l.result = "SUCCESS"],
   result   |-> l.result]

\* Mutant of Load: the loader is chosen by the type of file alone.
LoadAnyUnit(f, unit, type, file, opens) ==
  SetLoaded(LoadType(f, unit, type, file, opens))

\* KernelFunction::load.
Load(f, unit, type, file, opens) ==
  IF unit \notin Loadable THEN Fail(f, "ERR_UNSUPPORTED_UNIT")
  ELSE SetLoaded(LoadType(f, unit, type, file, opens))

\* length() asserts that the maps are equally long.
LengthOK(f) == Cardinality(DOMAIN f.version) = Cardinality(DOMAIN f.size)

\* get_kernel_version throws when the map has no name.
HasVersion(f, unit) == unit \in DOMAIN f.version

\* to_bbque offers a kernel for every type of unit that has a size.
Targets(f) == DOMAIN f.size
===============================================================================
