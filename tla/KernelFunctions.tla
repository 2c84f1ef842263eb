--------------------------- MODULE KernelFunctions ---------------------------
(***************************************************************************)
(* The life of kernel images (host/src/kernel.cpp, context.cpp): images    *)
(* are loaded into kernel functions, kernels are registered with one, the  *)
(* resource manager picks one of the units the function has an image for,  *)
(* and a start writes the image to the unit's memory.                      *)
(*                                                                         *)
(* Kernels point at the function of the application, which may load more   *)
(* images at any time.  Files are opened by name when they are loaded and  *)
(* again at every start, and come and go meanwhile.  The rest of starting  *)
(* a kernel is the subject of KernelLaunch.                                *)
(***************************************************************************)
EXTENDS KernelImage

CONSTANTS Function, Kernel, File, NoFunction, NoUnit, NoFile

ASSUME NonesAssumption ==
  NoFunction \notin Function /\ NoUnit \notin UnitType /\ NoFile \notin File

VARIABLES
  function,  \* the kernel functions of the application
  present,   \* the files that can be opened now
  kernel,    \* the function of every registered kernel
  unit,      \* the type of the unit a kernel is assigned to
  image,     \* the image in the memory of a kernel's unit
  status,    \* whether the process runs, and for which reason it ended
  opened,    \* history: the last file a load opened, for every unit
  owed       \* history: the units whose last image could not be opened

vars == <<function, present, kernel, unit, image, status, opened, owed>>

Running == status = "running"
Registered == {k \in Kernel : kernel[k] # NoFunction}

\* mango_load_kernel; every error is ERR_INVALID_KERNEL_FILE to the caller.
LoadKernel(f, u, type, file) ==
  LET l == Load(function[f], u, type, file, file \in present) IN
  /\ function' = [function EXCEPT ![f] = l.function]
  /\ opened' = IF u # "DCT" /\ l.result = "SUCCESS"
               THEN [opened EXCEPT ![f] = Assign(@, u, file)] ELSE opened
  /\ owed' = [owed EXCEPT ![f] =
                IF l.result = "SUCCESS" THEN @ \ {u}
                ELSE IF l.function # function[f] /\ u # "DCT" THEN @ \cup {u} ELSE @]
  /\ UNCHANGED <<present, kernel, unit, image, status>>

\* mango_register_kernel and Context::register_kernel; emplace keeps a kernel
\* that has the id.
RegisterKernel(k, f) ==
  /\ \/ /\ ~ function[f].loaded
        /\ status' = "not loaded" /\ UNCHANGED kernel
     \/ /\ function[f].loaded /\ ~ LengthOK(function[f])
        /\ status' = "lengths differ" /\ UNCHANGED kernel
     \/ /\ function[f].loaded /\ LengthOK(function[f])
        /\ kernel' = [kernel EXCEPT ![k] = IF @ = NoFunction THEN f ELSE @]
        /\ UNCHANGED status
  /\ UNCHANGED <<function, present, unit, image, opened, owed>>

\* mango_resource_allocation: to_bbque names the targets as they are now, and
\* the resource manager assigns one of them.
ResourceAllocation ==
  /\ Registered # {}
  /\ \E arch \in [Registered -> Loadable] :
       /\ \A k \in Registered : arch[k] \in Targets(function[kernel[k]])
       /\ unit' = [k \in Kernel |-> IF k \in Registered THEN arch[k] ELSE unit[k]]
  /\ UNCHANGED <<function, present, kernel, image, status, opened, owed>>

\* start_kernel up to the image: a DCT has none, get_kernel_version throws in
\* a noexcept function, and for a file that is gone Context::start_kernel answers
\* with no event, which that of BBQContext dereferences.
StartKernel(k) ==
  LET f == function[kernel[k]] IN
  /\ unit[k] # NoUnit
  /\ \/ /\ unit[k] = "DCT"
        /\ UNCHANGED <<image, status>>
     \/ /\ unit[k] # "DCT" /\ ~ HasVersion(f, unit[k])
        /\ status' = "no version" /\ UNCHANGED image
     \/ /\ unit[k] # "DCT" /\ HasVersion(f, unit[k])
        /\ IF f.version[unit[k]] \in present
           THEN image' = [image EXCEPT ![k] = f.version[unit[k]]] /\ UNCHANGED status
           ELSE status' = "no image" /\ UNCHANGED image
  /\ UNCHANGED <<function, present, kernel, unit, opened, owed>>

\* Another process creates or removes a file.
FileSystem(file) ==
  /\ present' = IF file \in present THEN present \ {file} ELSE present \cup {file}
  /\ UNCHANGED <<function, kernel, unit, image, status, opened, owed>>
-----------------------------------------------------------------------------
Init ==
  /\ function = [f \in Function |-> KernelFunctionInit]
  /\ present \in SUBSET File
  /\ kernel = [k \in Kernel |-> NoFunction]
  /\ unit = [k \in Kernel |-> NoUnit]
  /\ image = [k \in Kernel |-> NoFile]
  /\ status = "running"
  /\ opened = [f \in Function |-> Empty]
  /\ owed = [f \in Function |-> {}]

Step ==
  /\ Running
  /\ \/ \E f \in Function, u \in UnitType, type \in FileType, file \in File :
          LoadKernel(f, u, type, file)
     \/ \E k \in Kernel, f \in Function : RegisterKernel(k, f)
     \/ ResourceAllocation
     \/ \E k \in Kernel : StartKernel(k)
     \/ \E file \in File : FileSystem(file)

\* The process has been ended by an assertion, an exception or a null pointer.
Ended == ~ Running /\ UNCHANGED vars

Next == Step \/ Ended

Spec == Init /\ [][Next]_vars
-----------------------------------------------------------------------------
(***************************************************************************)
(* Properties.                                                             *)
(***************************************************************************)
PartialMap(S, T) == UNION {[D -> T] : D \in SUBSET S}

\* The maps of kernel functions and the fields of kernels (host/include/kernel.h).
FnTypeOK ==
  /\ \A f \in Function :
       /\ function[f].loaded \in BOOLEAN
       /\ function[f].version \in PartialMap(Loadable, File)
       /\ function[f].size \in PartialMap(Loadable, {0, 1, 2^28})
       /\ opened[f] \in PartialMap(Loadable, File)
       /\ owed[f] \subseteq Loadable
  /\ present \subseteq File
  /\ kernel \in [Kernel -> Function \cup {NoFunction}]
  /\ unit \in [Kernel -> Loadable \cup {NoUnit}]
  /\ image \in [Kernel -> File \cup {NoFile}]
  /\ status \in {"running", "not loaded", "lengths differ", "no version", "no image"}

\* A start finds the name of an image for the unit that the resource manager
\* chose, though perhaps not the file any more, and
\* the registration of a loaded function is ended by the assertion in length()
\* (host/include/kernel.h) only when the last load for some unit failed to open
\* its file.
OrderlyLoadsRun ==
  /\ status # "no version"
  /\ status = "lengths differ" => \E f \in Function : owed[f] # {}

\* A kernel is assigned only to units whose image a load has opened, whatever
\* other loads failed; for a DCT, load_dct promises less.
PlacedWhereLoaded ==
  \A k \in Registered : unit[k] \in {NoUnit, "DCT"} \cup DOMAIN opened[kernel[k]]

\* A start (host/src/context.cpp) writes the image that was last loaded for the
\* unit, also one that was loaded after the allocation; unless the last load
\* for the unit failed, which replaces the name all the same.
StartsTheLoadedImage ==
  [][\A k \in Kernel :
       image'[k] # image[k] /\ unit[k] \notin owed[kernel[k]] =>
         image'[k] = opened[kernel[k]][unit[k]]]_vars
===============================================================================
