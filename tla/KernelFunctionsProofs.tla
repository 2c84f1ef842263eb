------------------------- MODULE KernelFunctionsProofs -------------------------
(***************************************************************************)
(* Proofs about KernelFunctions, for any kernel functions, kernels and     *)
(* files, and any order of loads, some of which fail.                      *)
(***************************************************************************)
EXTENDS KernelFunctions, TLAPS

FnRecord == [loaded : BOOLEAN,
             version : PartialMap(Loadable, File),
             size : PartialMap(Loadable, {0, 1, 2^28})]

TypeInv ==
  /\ function \in [Function -> FnRecord]
  /\ opened \in [Function -> PartialMap(Loadable, File)]
  /\ owed \in [Function -> SUBSET Loadable]
  /\ present \subseteq File
  /\ kernel \in [Kernel -> Function \cup {NoFunction}]
  /\ unit \in [Kernel -> Loadable \cup {NoUnit}]
  /\ image \in [Kernel -> File \cup {NoFile}]
  /\ status \in {"running", "not loaded", "lengths differ", "no version", "no image"}

\* What the two maps of a kernel function have to do with each other and with
\* the loads there have been: what has a size has a name; what has a name and no
\* size is owed; what has a size has been opened, unless a DCT's; and what is not
\* owed has the name that was opened last.
FnInv(f) ==
  /\ DOMAIN function[f].size \subseteq DOMAIN function[f].version
  /\ DOMAIN function[f].version \ DOMAIN function[f].size \subseteq owed[f]
  /\ DOMAIN function[f].size \ {"DCT"} \subseteq DOMAIN opened[f]
  /\ \A u \in DOMAIN function[f].version \ (owed[f] \cup {"DCT"}) :
       u \in DOMAIN opened[f] /\ function[f].version[u] = opened[f][u]

\* A kernel that has a unit has a function with a size for it.
KernelInv(k) ==
  unit[k] # NoUnit =>
    kernel[k] # NoFunction /\ unit[k] \in DOMAIN function[kernel[k]].size

StatusInv ==
  /\ status # "no version"
  /\ status = "lengths differ" => \E f \in Function : owed[f] # {}

IInv ==
  /\ TypeInv /\ StatusInv
  /\ \A f \in Function : FnInv(f)
  /\ \A k \in Kernel : KernelInv(k)
-----------------------------------------------------------------------------
USE NonesAssumption

\* Entering one more pair in a map.
LEMMA AssignFacts ==
  ASSUME NEW m, NEW x, NEW v
  PROVE  /\ DOMAIN Assign(m, x, v) = DOMAIN m \cup {x}
         /\ Assign(m, x, v)[x] = v
         /\ \A y \in DOMAIN m \ {x} : Assign(m, x, v)[y] = m[y]
BY DEF Assign

\* It stays a map of the same kind.
LEMMA AssignType ==
  ASSUME NEW S, NEW T, NEW m \in PartialMap(S, T), NEW x \in S, NEW v \in T
  PROVE  Assign(m, x, v) \in PartialMap(S, T)
<1>1. PICK D \in SUBSET S : m \in [D -> T]
  BY DEF PartialMap
<1>2. Assign(m, x, v) = [y \in D \cup {x} |-> IF y = x THEN v ELSE m[y]]
  BY <1>1 DEF Assign
<1>3. Assign(m, x, v) \in [D \cup {x} -> T] /\ D \cup {x} \in SUBSET S
  BY <1>1, <1>2
<1> QED BY <1>3 DEF PartialMap

\* A kernel function starts with maps of no pairs.
LEMMA EmptyMap ==
  ASSUME NEW S, NEW T
  PROVE  Empty \in PartialMap(S, T) /\ DOMAIN Empty = {}
<1>1. Empty \in [{} -> T]
  BY DEF Empty
<1> QED BY <1>1 DEF PartialMap, Empty

\* What a load does to a function: nothing; or the name and the size are entered
\* and it succeeds; or only the name, or those of a DCT, and it does not.
Entered(f, g, u, file) ==
  /\ g.version \in PartialMap(Loadable, File)
  /\ DOMAIN g.version = DOMAIN f.version \cup {u} /\ g.version[u] = file
  /\ \A v \in DOMAIN f.version \ {u} : g.version[v] = f.version[v]

Sized(f, g, u) ==
  /\ g.size \in PartialMap(Loadable, {0, 1, 2^28})
  /\ DOMAIN g.size = DOMAIN f.size \cup {u}

\* EnterVersion enters a name and EnterSize a size, and neither touches the other map.
LEMMA EnterFacts ==
  ASSUME NEW f \in FnRecord, NEW u \in Loadable, NEW file \in File
  PROVE  /\ EnterVersion(f, u, file) \in FnRecord
         /\ Entered(f, EnterVersion(f, u, file), u, file)
         /\ EnterVersion(f, u, file).size = f.size
         /\ EnterSize(f, u) \in FnRecord
         /\ Sized(f, EnterSize(f, u), u)
         /\ EnterSize(f, u).version = f.version
<1>1. /\ f.version \in PartialMap(Loadable, File)
      /\ f.size \in PartialMap(Loadable, {0, 1, 2^28})
      /\ ImageSize(u) \in {0, 1, 2^28}
  BY DEF FnRecord, ImageSize
<1>2. Entered(f, EnterVersion(f, u, file), u, file)
  <2>1. EnterVersion(f, u, file).version = Assign(f.version, u, file)
    BY DEF FnRecord, EnterVersion
  <2>2. /\ Assign(f.version, u, file) \in PartialMap(Loadable, File)
        /\ DOMAIN Assign(f.version, u, file) = DOMAIN f.version \cup {u}
    BY <1>1, AssignFacts, AssignType
  <2>3. Assign(f.version, u, file)[u] = file
    BY DEF Assign
  <2>4. \A v \in DOMAIN f.version \ {u} : Assign(f.version, u, file)[v] = f.version[v]
    BY DEF Assign
  <2> QED BY <2>1, <2>2, <2>3, <2>4 DEF Entered
<1>3. Sized(f, EnterSize(f, u), u)
  <2>1. EnterSize(f, u).size = Assign(f.size, u, ImageSize(u))
    BY DEF FnRecord, EnterSize
  <2>2. /\ Assign(f.size, u, ImageSize(u)) \in PartialMap(Loadable, {0, 1, 2^28})
        /\ DOMAIN Assign(f.size, u, ImageSize(u)) = DOMAIN f.size \cup {u}
    BY <1>1, AssignFacts, AssignType
  <2> QED BY <2>1, <2>2 DEF Sized
<1>4. EnterVersion(f, u, file) \in FnRecord /\ EnterVersion(f, u, file).size = f.size
  BY <1>2 DEF Entered, EnterVersion, FnRecord
<1>5. EnterSize(f, u) \in FnRecord /\ EnterSize(f, u).version = f.version
  BY <1>3 DEF Sized, EnterSize, FnRecord
<1> QED BY <1>2, <1>3, <1>4, <1>5

\* The loaders that get as far as the size have entered the name before it.
LEMMA BothEntered ==
  ASSUME NEW f \in FnRecord, NEW u \in Loadable, NEW file \in File
  PROVE  LET g == EnterSize(EnterVersion(f, u, file), u) IN
         g \in FnRecord /\ Entered(f, g, u, file) /\ Sized(f, g, u)
<1> DEFINE e == EnterVersion(f, u, file)
           g == EnterSize(e, u)
<1>1. e \in FnRecord /\ Entered(f, e, u, file) /\ e.size = f.size
  BY EnterFacts
<1> HIDE DEF e
<1>2. g \in FnRecord /\ Sized(e, g, u) /\ g.version = e.version
  BY <1>1, EnterFacts
<1> HIDE DEF g
<1>3. Entered(f, g, u, file) /\ Sized(f, g, u)
  BY <1>1, <1>2 DEF Entered, Sized
<1> QED BY <1>2, <1>3 DEF e, g

Succeeds(l) == l.result = "SUCCESS"

\* loaded has nothing to do with the maps.
LEMMA SetLoadedFacts ==
  ASSUME NEW l, l.function \in FnRecord
  PROVE  /\ SetLoaded(l).function \in FnRecord
         /\ SetLoaded(l).function.version = l.function.version
         /\ SetLoaded(l).function.size = l.function.size
         /\ SetLoaded(l).result = l.result
<1> DEFINE b == l.function.loaded \/ l.result = "SUCCESS"
<1>1. SetLoaded(l).result = l.result
  BY DEF SetLoaded
<1>2. SetLoaded(l).function = [l.function EXCEPT !.loaded = b]
  BY DEF SetLoaded
<1>3. b \in BOOLEAN
  BY DEF FnRecord
<1> HIDE DEF b
<1> QED BY <1>1, <1>2, <1>3 DEF FnRecord

\* A loader enters the name and the size, or the name alone, or nothing.
LoadOutcome(f, l, u, file) ==
  /\ l.function \in FnRecord
  /\ \/ /\ l.function.version = f.version /\ l.function.size = f.size
        /\ u \in Loadable \/ l.function = f
        /\ ~ Succeeds(l)
     \/ /\ u \in Loadable
        /\ Entered(f, l.function, u, file) /\ Sized(f, l.function, u)
        /\ Succeeds(l) \/ u = "DCT"
     \/ /\ u \in Loadable /\ u # "DCT"
        /\ Entered(f, l.function, u, file) /\ l.function.size = f.size
        /\ ~ Succeeds(l)

\* Every loader of kernel.cpp has one of these outcomes.
LEMMA LoadTypeOutcome ==
  ASSUME NEW f \in FnRecord, NEW u \in Loadable, NEW type \in FileType, NEW file \in File,
         NEW opens \in BOOLEAN
  PROVE  LoadOutcome(f, LoadType(f, u, type, file, opens), u, file)
<1> DEFINE n == LoadType(f, u, type, file, opens)
<1>1. CASE u = "DCT"
  <2>1. n.function = EnterSize(EnterVersion(f, u, file), u)
    BY <1>1 DEF LoadType, LoadHardware
  <2> QED BY <1>1, <2>1, BothEntered DEF LoadOutcome
<1>2. CASE u # "DCT" /\ type = "BINARY" /\ opens
  <2>1. /\ n.function = EnterSize(EnterVersion(f, u, file), u)
        /\ Succeeds(n)
    BY <1>2 DEF LoadType, LoadBinary, Succeeds
  <2> QED BY <1>2, <2>1, BothEntered DEF LoadOutcome
<1>3. CASE u # "DCT" /\ type = "BINARY" /\ ~ opens
  <2>1. n.function = EnterVersion(f, u, file) /\ ~ Succeeds(n)
    BY <1>3 DEF LoadType, LoadBinary, Fail, Succeeds
  <2> QED BY <1>3, <2>1, EnterFacts DEF LoadOutcome
<1>4. CASE u # "DCT" /\ type # "BINARY"
  <2>1. n.function = f /\ ~ Succeeds(n)
    BY <1>4 DEF LoadType, Fail, Succeeds
  <2> QED BY <2>1 DEF LoadOutcome
<1> QED BY <1>1, <1>2, <1>3, <1>4

\* KernelFunction::load has them too; a unit without a loader leaves the function alone.
LEMMA LoadFacts ==
  ASSUME NEW f \in FnRecord, NEW u \in UnitType, NEW type \in FileType, NEW file \in File,
         NEW opens \in BOOLEAN
  PROVE  LoadOutcome(f, Load(f, u, type, file, opens), u, file)
<1> DEFINE n == LoadType(f, u, type, file, opens)
           l == Load(f, u, type, file, opens)
<1>1. CASE u \notin Loadable
  <2>1. l.function = f /\ ~ Succeeds(l)
    BY <1>1 DEF Load, Fail, Succeeds
  <2> QED BY <2>1 DEF LoadOutcome
<1>2. CASE u \in Loadable
  <2>1. LoadOutcome(f, n, u, file)
    BY <1>2, LoadTypeOutcome
  <2>2. l = SetLoaded(n)
    BY <1>2 DEF Load
  <2> HIDE DEF n, l
  <2>3. /\ l.function \in FnRecord /\ l.result = n.result
        /\ l.function.version = n.function.version /\ l.function.size = n.function.size
    BY <2>1, <2>2, SetLoadedFacts DEF LoadOutcome
  <2>4. LoadOutcome(f, l, u, file)
    BY <1>2, <2>1, <2>3 DEF LoadOutcome, Entered, Sized, Succeeds
  <2> QED BY <2>4 DEF l
<1> QED BY <1>1, <1>2
-----------------------------------------------------------------------------
\* A kernel function that nothing has been loaded into satisfies the invariant.
LEMMA Initially == Init => IInv
<1> SUFFICES ASSUME Init PROVE IInv
  OBVIOUS
<1> USE DEF Init
<1>1. /\ Empty \in PartialMap(Loadable, File) /\ DOMAIN Empty = {}
      /\ Empty \in PartialMap(Loadable, {0, 1, 2^28})
  BY EmptyMap
<1>2. KernelFunctionInit \in FnRecord
  BY <1>1 DEF KernelFunctionInit, FnRecord
<1>3. TypeInv
  BY <1>1, <1>2 DEF TypeInv
<1>4. ASSUME NEW f \in Function PROVE FnInv(f)
  BY <1>1 DEF FnInv, KernelFunctionInit
<1>5. StatusInv /\ \A k \in Kernel : KernelInv(k)
  BY DEF StatusInv, KernelInv
<1> QED BY <1>3, <1>4, <1>5 DEF IInv

\* A load, whichever way it fails, keeps what the maps have to do with each other.
LEMMA LoadStep ==
  ASSUME IInv, Running,
         NEW f \in Function, NEW u \in UnitType, NEW type \in FileType, NEW file \in File,
         LoadKernel(f, u, type, file)
  PROVE  IInv'
<1> DEFINE l == Load(function[f], u, type, file, file \in present)
<1>1. function[f] \in FnRecord /\ FnInv(f) /\ TypeInv
  BY DEF IInv, TypeInv
<1>2. LoadOutcome(function[f], l, u, file)
  <2>1. ASSUME NEW opens \in BOOLEAN
        PROVE  LoadOutcome(function[f], Load(function[f], u, type, file, opens), u, file)
    BY <1>1, LoadFacts
  <2>2. (file \in present) \in BOOLEAN
    OBVIOUS
  <2> QED BY <2>1, <2>2
<1>3. /\ function' = [function EXCEPT ![f] = l.function]
      /\ opened' = IF u # "DCT" /\ Succeeds(l)
                   THEN [opened EXCEPT ![f] = Assign(@, u, file)] ELSE opened
      /\ owed' = [owed EXCEPT ![f] =
                    IF Succeeds(l) THEN @ \ {u}
                    ELSE IF l.function # function[f] /\ u # "DCT" THEN @ \cup {u} ELSE @]
      /\ UNCHANGED <<present, kernel, unit, image, status>>
  BY DEF LoadKernel, Succeeds
<1> HIDE DEF l
<1>4. u \in Loadable \/ (l.function = function[f] /\ ~ Succeeds(l))
  BY <1>2 DEF LoadOutcome
<1>5. opened' \in [Function -> PartialMap(Loadable, File)]
  <2>1. CASE u # "DCT" /\ Succeeds(l)
    <3>1. Assign(opened[f], u, file) \in PartialMap(Loadable, File)
      BY <1>1, <1>4, <2>1, AssignType DEF TypeInv
    <3>2. opened' = [opened EXCEPT ![f] = Assign(opened[f], u, file)]
      BY <1>3, <2>1
    <3> QED BY <1>1, <3>1, <3>2 DEF TypeInv
  <2>2. CASE ~ (u # "DCT" /\ Succeeds(l))
    BY <1>1, <1>3, <2>2 DEF TypeInv
  <2> QED BY <2>1, <2>2
<1>6. owed' \in [Function -> SUBSET Loadable]
  BY <1>1, <1>3, <1>4 DEF TypeInv
<1>7. TypeInv'
  BY <1>1, <1>2, <1>3, <1>5, <1>6 DEF TypeInv, LoadOutcome
<1>8. ASSUME NEW e \in Function, e # f PROVE FnInv(e)'
  <2>1. function'[e] = function[e] /\ opened'[e] = opened[e] /\ owed'[e] = owed[e]
    BY <1>1, <1>3, <1>8 DEF TypeInv
  <2> QED BY <2>1 DEF IInv, FnInv
<1>9. FnInv(f)'
  <2>1. function'[f] = l.function
    BY <1>1, <1>3 DEF TypeInv
  <2>2. CASE /\ l.function.version = function[f].version
             /\ l.function.size = function[f].size /\ ~ Succeeds(l)
    <3>1. opened'[f] = opened[f] /\ owed[f] \subseteq owed'[f]
      BY <1>1, <1>3, <2>2 DEF TypeInv
    <3> QED BY <1>1, <2>1, <2>2, <3>1 DEF FnInv
  <2>3. CASE /\ Entered(function[f], l.function, u, file) /\ Sized(function[f], l.function, u)
             /\ u = "DCT"
    <3>1. opened'[f] = opened[f] /\ owed[f] \ {u} \subseteq owed'[f]
      BY <1>1, <1>3, <2>3 DEF TypeInv
    <3> QED BY <1>1, <2>1, <2>3, <3>1 DEF FnInv, Entered, Sized
  <2>4. CASE /\ Entered(function[f], l.function, u, file) /\ Sized(function[f], l.function, u)
             /\ Succeeds(l) /\ u # "DCT"
    <3>1. opened'[f] = Assign(opened[f], u, file) /\ owed'[f] = owed[f] \ {u}
      BY <1>1, <1>3, <2>4 DEF TypeInv
    <3>2. /\ DOMAIN opened'[f] = DOMAIN opened[f] \cup {u}
          /\ opened'[f][u] = file
          /\ \A y \in DOMAIN opened[f] \ {u} : opened'[f][y] = opened[f][y]
      BY <3>1 DEF Assign
    <3> QED BY <1>1, <2>1, <2>4, <3>1, <3>2 DEF FnInv, Entered, Sized
  <2>5. CASE /\ Entered(function[f], l.function, u, file)
             /\ l.function.size = function[f].size /\ ~ Succeeds(l) /\ u # "DCT"
    <3>1. CASE l.function = function[f]
      <4>1. opened'[f] = opened[f] /\ owed'[f] = owed[f]
        BY <1>1, <1>3, <2>5, <3>1 DEF TypeInv
      <4> QED BY <1>1, <2>1, <3>1, <4>1 DEF FnInv
    <3>2. CASE l.function # function[f]
      <4>1. opened'[f] = opened[f] /\ owed'[f] = owed[f] \cup {u}
        BY <1>1, <1>3, <2>5, <3>2 DEF TypeInv
      <4> QED BY <1>1, <2>1, <2>5, <4>1 DEF FnInv, Entered
    <3> QED BY <3>1, <3>2
  <2> QED BY <1>2, <2>2, <2>3, <2>4, <2>5 DEF LoadOutcome
<1>10. ASSUME NEW k \in Kernel PROVE KernelInv(k)'
  <2>1. DOMAIN function[f].size \subseteq DOMAIN l.function.size
    BY <1>2 DEF LoadOutcome, Sized
  <2>2. \A e \in Function : DOMAIN function[e].size \subseteq DOMAIN function'[e].size
    BY <1>1, <1>3, <2>1 DEF TypeInv
  <2> QED BY <1>1, <1>3, <2>2 DEF IInv, KernelInv, TypeInv
<1>11. StatusInv'
  BY <1>3 DEF Running, StatusInv
<1> QED BY <1>7, <1>8, <1>9, <1>10, <1>11 DEF IInv

\* A registration that finds maps of different lengths finds a name without a
\* size, which is owed.
LEMMA RegisterStep ==
  ASSUME IInv, Running, NEW k \in Kernel, NEW f \in Function, RegisterKernel(k, f)
  PROVE  IInv'
<1> USE DEF RegisterKernel
<1>1. /\ TypeInv /\ FnInv(f) /\ status = "running"
      /\ UNCHANGED <<function, present, unit, image, opened, owed>>
  BY DEF IInv, Running
<1>2. \A e \in Function : FnInv(e)'
  BY <1>1 DEF IInv, FnInv
<1>3. CASE UNCHANGED kernel /\ status' = "not loaded"
  BY <1>1, <1>2, <1>3 DEF IInv, TypeInv, StatusInv, KernelInv
<1>4. CASE UNCHANGED kernel /\ status' = "lengths differ" /\ ~ LengthOK(function[f])
  <2>1. DOMAIN function[f].version # DOMAIN function[f].size
    BY <1>4 DEF LengthOK
  <2>2. owed[f] # {}
    BY <1>1, <2>1 DEF FnInv
  <2>3. StatusInv'
    BY <1>1, <1>4, <2>2 DEF StatusInv
  <2> QED BY <1>1, <1>2, <1>4, <2>3 DEF IInv, TypeInv, KernelInv
<1>5. CASE /\ kernel' = [kernel EXCEPT ![k] = IF @ = NoFunction THEN f ELSE @]
           /\ UNCHANGED status
  <2>1. kernel' \in [Kernel -> Function \cup {NoFunction}]
    BY <1>1, <1>5 DEF TypeInv
  <2>2. \A j \in Kernel : kernel'[j] = kernel[j] \/ kernel[j] = NoFunction
    BY <1>1, <1>5 DEF TypeInv
  <2>3. \A j \in Kernel : KernelInv(j)'
    BY <1>1, <2>2 DEF IInv, KernelInv
  <2>4. TypeInv' /\ StatusInv'
    BY <1>1, <1>5, <2>1 DEF TypeInv, StatusInv
  <2> QED BY <1>2, <2>3, <2>4 DEF IInv
<1> QED BY <1>3, <1>4, <1>5

\* The resource manager is offered what has a size.
LEMMA AllocationStep ==
  ASSUME IInv, Running, ResourceAllocation
  PROVE  IInv'
<1> PICK arch \in [Registered -> Loadable] :
           /\ \A k \in Registered : arch[k] \in Targets(function[kernel[k]])
           /\ unit' = [k \in Kernel |-> IF k \in Registered THEN arch[k] ELSE unit[k]]
  BY DEF ResourceAllocation
<1>1. /\ TypeInv /\ StatusInv
      /\ UNCHANGED <<function, present, kernel, image, status, opened, owed>>
  BY DEF IInv, ResourceAllocation
<1>2. unit' \in [Kernel -> Loadable \cup {NoUnit}]
  BY <1>1 DEF TypeInv, Registered
<1>3. TypeInv' /\ StatusInv'
  BY <1>1, <1>2 DEF TypeInv, StatusInv
<1>4. \A f \in Function : FnInv(f)'
  BY <1>1 DEF IInv, FnInv
<1>5. ASSUME NEW k \in Kernel PROVE KernelInv(k)'
  <2>1. CASE k \in Registered
    <3>1. unit'[k] \in DOMAIN function[kernel[k]].size /\ kernel[k] # NoFunction
      BY <2>1 DEF Targets, Registered
    <3> QED BY <1>1, <3>1 DEF KernelInv
  <2>2. CASE k \notin Registered
    BY <1>1, <2>2 DEF IInv, KernelInv
  <2> QED BY <2>1, <2>2
<1> QED BY <1>3, <1>4, <1>5 DEF IInv

\* What a start finds for the unit of its kernel.
LEMMA StartFinds ==
  ASSUME IInv, NEW k \in Kernel, unit[k] # NoUnit
  PROVE  /\ kernel[k] \in Function
         /\ HasVersion(function[kernel[k]], unit[k])
         /\ function[kernel[k]].version[unit[k]] \in File
         /\ unit[k] \notin owed[kernel[k]] \cup {"DCT"} =>
              function[kernel[k]].version[unit[k]] = opened[kernel[k]][unit[k]]
<1>1. kernel[k] \in Function /\ unit[k] \in DOMAIN function[kernel[k]].size
  BY DEF IInv, TypeInv, KernelInv
<1>2. FnInv(kernel[k])
  BY <1>1 DEF IInv
<1>3. unit[k] \in DOMAIN function[kernel[k]].version
  BY <1>1, <1>2 DEF FnInv
<1>4. function[kernel[k]].version \in PartialMap(Loadable, File)
  BY <1>1 DEF IInv, TypeInv, FnRecord
<1>5. function[kernel[k]].version[unit[k]] \in File
  BY <1>3, <1>4 DEF PartialMap
<1> QED BY <1>1, <1>2, <1>3, <1>5 DEF FnInv, HasVersion

\* So a start ends the process only when the file is gone.
LEMMA StartStep ==
  ASSUME IInv, Running, NEW k \in Kernel, StartKernel(k)
  PROVE  IInv'
<1> DEFINE file == function[kernel[k]].version[unit[k]]
<1>1. /\ TypeInv /\ StatusInv
      /\ UNCHANGED <<function, present, kernel, unit, opened, owed>>
  BY DEF IInv, StartKernel
<1>2. unit[k] # NoUnit
  BY DEF StartKernel
<1>3. HasVersion(function[kernel[k]], unit[k]) /\ file \in File
  BY <1>2, StartFinds
<1>4. /\ status' \in {status, "no image"}
      /\ \/ UNCHANGED image
         \/ image' = [image EXCEPT ![k] = file]
  BY <1>3 DEF StartKernel
<1> HIDE DEF file
<1>5. TypeInv' /\ StatusInv'
  BY <1>1, <1>3, <1>4 DEF TypeInv, StatusInv
<1>6. \A f \in Function : FnInv(f)'
  BY <1>1 DEF IInv, FnInv
<1>7. \A j \in Kernel : KernelInv(j)'
  BY <1>1 DEF IInv, KernelInv
<1> QED BY <1>5, <1>6, <1>7 DEF IInv

\* IInv is inductive.
LEMMA Inductive == IInv /\ [Next]_vars => IInv'
<1> SUFFICES ASSUME IInv, [Next]_vars PROVE IInv'
  OBVIOUS
<1>1. ASSUME Running, NEW f \in Function, NEW u \in UnitType, NEW type \in FileType,
             NEW file \in File, LoadKernel(f, u, type, file)
      PROVE  IInv'
  BY <1>1, LoadStep
<1>2. ASSUME Running, NEW k \in Kernel, NEW f \in Function, RegisterKernel(k, f)
      PROVE  IInv'
  BY <1>2, RegisterStep
<1>3. CASE Running /\ ResourceAllocation
  BY <1>3, AllocationStep
<1>4. ASSUME Running, NEW k \in Kernel, StartKernel(k) PROVE IInv'
  BY <1>4, StartStep
<1>5. ASSUME Running, NEW file \in File, FileSystem(file) PROVE IInv'
  <2>1. present' \subseteq File
    BY <1>5 DEF FileSystem, IInv, TypeInv
  <2>2. UNCHANGED <<function, kernel, unit, image, status, opened, owed>>
    BY <1>5 DEF FileSystem
  <2> QED BY <2>1, <2>2 DEF IInv, TypeInv, StatusInv, FnInv, KernelInv
<1>6. CASE UNCHANGED vars
  BY <1>6 DEF vars, IInv, TypeInv, StatusInv, FnInv, KernelInv
<1> QED BY <1>1, <1>2, <1>3, <1>4, <1>5, <1>6 DEF Next, Step, Ended

\* The maps of kernel functions (host/include/kernel.h) agree with each other
\* and with the loads there have been, in every order of loads, registrations,
\* allocations and starts.
THEOREM Invariance == Spec => []IInv
BY Initially, Inductive, PTL DEF Spec

\* The maps of kernel functions hold units that have a loader, and every field
\* has its type, however loads fail.
THEOREM TypeCorrect == Spec => []FnTypeOK
<1>1. IInv => FnTypeOK
  BY DEF IInv, TypeInv, FnRecord, FnTypeOK
<1> QED BY <1>1, Invariance, PTL

\* get_kernel_version never throws, so a start of a kernel ends the process only
\* when the file it names is gone; and the assertion in length() ends a registration only when the file of some
\* load could not be opened.
THEOREM OrderlyLoads == Spec => []OrderlyLoadsRun
<1>1. IInv => OrderlyLoadsRun
  BY DEF IInv, StatusInv, OrderlyLoadsRun
<1> QED BY <1>1, Invariance, PTL

\* to_bbque offers the resource manager only units whose image a load has opened.
THEOREM PlacedWell == Spec => []PlacedWhereLoaded
<1>1. ASSUME IInv, NEW k \in Registered
      PROVE  unit[k] \in {NoUnit, "DCT"} \cup DOMAIN opened[kernel[k]]
  <2>1. k \in Kernel /\ kernel[k] \in Function
    BY <1>1 DEF Registered, IInv, TypeInv
  <2>2. FnInv(kernel[k]) /\ KernelInv(k)
    BY <1>1, <2>1 DEF IInv
  <2> QED BY <2>2 DEF FnInv, KernelInv
<1>2. IInv => PlacedWhereLoaded
  BY <1>1 DEF PlacedWhereLoaded
<1> QED BY <1>2, Invariance, PTL

\* start_kernel writes the image that was loaded last for the unit, also when
\* it was loaded after the allocation or after an earlier load of it failed.
THEOREM StartsTheLoaded == Spec => StartsTheLoadedImage
<1> DEFINE Loaded ==
      \A k \in Kernel :
        image'[k] # image[k] /\ unit[k] \notin owed[kernel[k]] =>
          image'[k] = opened[kernel[k]][unit[k]]
<1>1. ASSUME IInv, NEW j \in Kernel, StartKernel(j) PROVE Loaded
  <2> SUFFICES ASSUME NEW k \in Kernel, image'[k] # image[k],
                      unit[k] \notin owed[kernel[k]]
               PROVE  image'[k] = opened[kernel[k]][unit[k]]
    OBVIOUS
  <2>1. image \in [Kernel -> File \cup {NoFile}]
    BY <1>1 DEF IInv, TypeInv
  <2>2. /\ k = j /\ unit[k] # NoUnit /\ unit[k] # "DCT"
        /\ image'[k] = function[kernel[k]].version[unit[k]]
    BY <1>1, <2>1 DEF StartKernel
  <2> QED BY <1>1, <2>2, StartFinds
<1>2. ASSUME IInv, [Next]_vars PROVE [Loaded]_vars
  <2>1. CASE UNCHANGED image
    BY <2>1
  <2>2. CASE \E k \in Kernel : StartKernel(k)
    BY <1>1, <1>2, <2>2
  <2> QED BY <1>2, <2>1, <2>2
        DEF Next, Step, Ended, vars, LoadKernel, RegisterKernel, ResourceAllocation,
            FileSystem
<1> QED BY <1>2, Invariance, PTL DEF Spec, StartsTheLoadedImage
================================================================================
