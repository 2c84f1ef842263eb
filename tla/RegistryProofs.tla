---------------------------- MODULE RegistryProofs ----------------------------
(***************************************************************************)
(* Proofs about Registry, for all sets of ids, every number of task events *)
(* and every bound.                                                        *)
(***************************************************************************)
EXTENDS Registry, TLAPS

\* The vectors of the graph, as bags: how often they have an entry.
GraphType ==
  /\ DOMAIN graph = {"kernels", "buffers", "events"}
  /\ graph.kernels \in [BagToSet(graph.kernels) -> Nat \ {0}]
  /\ graph.buffers \in [BagToSet(graph.buffers) -> Nat \ {0}]

\* The events of registered kernels and buffers are in the context's map.
EventsKnown ==
  /\ \A k \in KernelId : kernels[k] # Unregistered => KernelEvents(kernels[k]) \subseteq events
  /\ \A b \in BufferId : buffers[b] # Unregistered => buffers[b] \in events

\* No two objects share an event, so that deregistering one takes no other's.
EventsDistinct ==
  \A b \in BufferId : buffers[b] # Unregistered =>
    /\ \A c \in BufferId : buffers[c] = buffers[b] => c = b
    /\ \A k \in KernelId : kernels[k] # Unregistered => buffers[b] \notin KernelEvents(kernels[k])

\* The application's ids are those of the buffers' own events.
HeldIsOwn ==
  \A b \in BufferId : held[b] # Unregistered => held[b] = buffers[b]

\* Events name kernels that have been registered.
TiedRegistered ==
  \A e \in EventId : \A k \in tied[e] : kernels[k] # Unregistered

\* The inductive invariant: the maps of the context fit together.
RegInv ==
  /\ RegTypeOK /\ GraphType
  /\ EventsKnown /\ EventsDistinct /\ HeldIsOwn /\ TiedRegistered
  /\ OrderlyProgramsRun

USE BoundsAssumption DEF EventId, Unregistered, Unplaced, WRITE

\* Bags of the graph: none, one of each, one more.
LEMMA BagFacts ==
  /\ BagToSet(EmptyBag) = {} /\ EmptyBag \in [BagToSet(EmptyBag) -> Nat \ {0}]
  /\ \A S : BagToSet(SetToBag(S)) = S /\ SetToBag(S) \in [S -> Nat \ {0}]
  /\ \A S, bag : BagToSet(Plus(bag, S)) = BagToSet(bag) \cup S
  /\ \A S, bag : bag \in [BagToSet(bag) -> Nat \ {0}] =>
       Plus(bag, S) \in [BagToSet(bag) \cup S -> Nat \ {0}]
<1>1. /\ BagToSet(EmptyBag) = {} /\ EmptyBag \in [BagToSet(EmptyBag) -> Nat \ {0}]
      /\ \A S : BagToSet(SetToBag(S)) = S /\ SetToBag(S) \in [S -> Nat \ {0}]
  BY DEF BagToSet, EmptyBag, SetToBag
<1>2. ASSUME NEW S, NEW bag
      PROVE  BagToSet(Plus(bag, S)) = BagToSet(bag) \cup S
  BY DEF BagToSet, SetToBag, Plus, (+)
<1>3. ASSUME NEW S, NEW bag, bag \in [BagToSet(bag) -> Nat \ {0}]
      PROVE  Plus(bag, S) \in [BagToSet(bag) \cup S -> Nat \ {0}]
  BY <1>3 DEF BagToSet, SetToBag, Plus, (+)
<1> QED BY <1>1, <1>2, <1>3

\* Events are numbered below id_gen.
LEMMA EventFacts ==
  ASSUME RegTypeOK
  PROVE  /\ id_gen \in Nat /\ id_gen <= MaxEvents
         /\ \A e \in events : e \in Nat /\ e < id_gen
         /\ events \subseteq EventId /\ graph.events \subseteq EventId
         /\ \A k \in KernelId : kernels[k] \in EventId \cup {Unregistered}
         /\ \A b \in BufferId : buffers[b] \in EventId \cup {Unregistered}
<1>1. id_gen \in Nat /\ id_gen <= MaxEvents
  <2>1. id_gen \in 0 .. MaxEvents
    BY DEF RegTypeOK
  <2> QED BY <2>1
<1>2. events \subseteq 0 .. id_gen - 1 /\ graph.events \subseteq 0 .. id_gen - 1
  BY DEF RegTypeOK
<1>3. 0 .. id_gen - 1 \subseteq EventId
  BY <1>1
<1>4. \A k \in KernelId : kernels[k] \in EventId \cup {Unregistered}
  BY DEF RegTypeOK
<1>5. \A b \in BufferId : buffers[b] \in EventId \cup {Unregistered}
  BY DEF RegTypeOK
<1> QED BY <1>1, <1>2, <1>3, <1>4, <1>5

\* Numbers that are given out from id_gen on.
LEMMA NextNumbers ==
  ASSUME NEW i \in Nat, NEW j \in Nat, i < j, j <= MaxEvents
  PROVE  /\ i \in EventId /\ j \in 0 .. MaxEvents /\ i \in 0 .. j - 1
         /\ 0 .. i - 1 \subseteq 0 .. j - 1
OBVIOUS

\* A kernel with the event 0 has been registered.
LEMMA FirstKernel ==
  ASSUME RegInv, NEW k \in KernelId, kernels[k] = 0
  PROVE  id_gen > 0 /\ 0 \in KernelEvents(kernels[k])
<1>1. 0 \in KernelEvents(kernels[k])
  BY DEF KernelEvents
<1>2. 0 \in events
  BY <1>1 DEF RegInv, EventsKnown
<1> QED BY <1>1, <1>2, EventFacts DEF RegInv

\* The context starts empty.
LEMMA RegInitInv == Init => RegInv
<1> SUFFICES ASSUME Init PROVE RegInv
  OBVIOUS
<1> USE DEF Init
<1>1. graph.kernels = EmptyBag /\ graph.buffers = EmptyBag /\ graph.events = {}
      /\ DOMAIN graph = {"kernels", "buffers", "events"}
  BY DEF NoGraph
<1>2. RegTypeOK
  BY <1>1, BagFacts DEF RegTypeOK
<1>3. GraphType
  BY <1>1, BagFacts DEF GraphType
<1>4. EventsKnown /\ EventsDistinct /\ HeldIsOwn /\ TiedRegistered
  BY DEF EventsKnown, EventsDistinct, HeldIsOwn, TiedRegistered
<1>5. OrderlyProgramsRun
  BY DEF OrderlyProgramsRun, Running
<1> QED BY <1>2, <1>3, <1>4, <1>5 DEF RegInv
-----------------------------------------------------------------------------
\* Registering a kernel preserves the invariant, a registered one keeps its object.
LEMMA RegisterKernelInv ==
  ASSUME RegInv, Running, NEW k \in KernelId, RegisterKernel(k)
  PROVE  RegInv'
<1> USE DEF RegInv, RegisterKernel, Emplace
<1>1. /\ id_gen \in Nat /\ id_gen \in EventId /\ id_gen' \in 0 .. MaxEvents
      /\ KernelEvents(id_gen) \subseteq 0 .. id_gen' - 1
      /\ 0 .. id_gen - 1 \subseteq 0 .. id_gen' - 1
      /\ \A e \in KernelEvents(id_gen) : e \notin events
  BY EventFacts DEF KernelEvents
<1>2. RegTypeOK'
  <2>1. kernels' \in [KernelId -> EventId \cup {Unregistered}]
    BY <1>1 DEF RegTypeOK
  <2>2. tied' \in [EventId -> SUBSET KernelId]
    BY DEF RegTypeOK
  <2>3. events' \subseteq 0 .. id_gen' - 1 /\ graph'.events \subseteq 0 .. id_gen' - 1
    BY <1>1 DEF RegTypeOK
  <2> QED BY <1>1, <2>1, <2>2, <2>3 DEF RegTypeOK
<1>3. \A j \in KernelId : kernels'[j] = kernels[j] \/ (j = k /\ kernels'[k] = id_gen)
  BY DEF RegTypeOK
<1>4. kernels'[k] # Unregistered
  <2>1. kernels \in [KernelId -> EventId \cup {Unregistered}]
    BY DEF RegTypeOK
  <2> QED BY <1>1, <2>1
<1>5. EventsKnown'
  BY <1>3 DEF EventsKnown
<1>6. EventsDistinct'
  BY <1>1, <1>3 DEF EventsDistinct, EventsKnown
<1>7. TiedRegistered'
  BY <1>1, <1>3, <1>4 DEF TiedRegistered
<1>8. GraphType' /\ HeldIsOwn' /\ OrderlyProgramsRun'
  BY DEF GraphType, HeldIsOwn, OrderlyProgramsRun, Running
<1> QED BY <1>2, <1>5, <1>6, <1>7, <1>8

\* Registering a buffer preserves the invariant, a registered one keeps its object.
LEMMA RegisterBufferInv ==
  ASSUME RegInv, Running, NEW b \in BufferId, RegisterBuffer(b)
  PROVE  RegInv'
<1> USE DEF RegInv, RegisterBuffer, Emplace
<1>1. /\ id_gen \in Nat /\ id_gen \in EventId /\ id_gen' \in 0 .. MaxEvents
      /\ 0 .. id_gen - 1 \subseteq 0 .. id_gen' - 1 /\ id_gen \in 0 .. id_gen' - 1
      /\ id_gen \notin events
  BY EventFacts
<1>2. RegTypeOK'
  <2>1. buffers' \in [BufferId -> EventId \cup {Unregistered}]
    BY <1>1 DEF RegTypeOK
  <2>2. events' \subseteq 0 .. id_gen' - 1 /\ graph'.events \subseteq 0 .. id_gen' - 1
    BY <1>1 DEF RegTypeOK
  <2> QED BY <1>1, <2>1, <2>2 DEF RegTypeOK
<1>3. \A c \in BufferId : \/ buffers'[c] = buffers[c]
                          \/ c = b /\ buffers[b] = Unregistered /\ buffers'[b] = id_gen
  BY DEF RegTypeOK
<1>4. EventsKnown'
  BY <1>3 DEF EventsKnown
<1>5. EventsDistinct'
  BY <1>1, <1>3 DEF EventsDistinct, EventsKnown
<1>6. HeldIsOwn'
  BY <1>1, <1>3 DEF HeldIsOwn, RegTypeOK
<1>7. GraphType' /\ TiedRegistered' /\ OrderlyProgramsRun'
  BY DEF GraphType, TiedRegistered, OrderlyProgramsRun, Running
<1> QED BY <1>2, <1>4, <1>5, <1>6, <1>7

\* Registering an event preserves the invariant; a program it ends, with the
\* first event of all, has not registered a kernel.
LEMMA RegisterEventInv ==
  ASSUME RegInv, Running, RegisterEvent
  PROVE  RegInv'
<1> USE DEF RegInv, RegisterEvent
<1>1. RegTypeOK'
  <2>1. /\ id_gen' \in 0 .. MaxEvents /\ id_gen \in 0 .. id_gen' - 1
        /\ 0 .. id_gen - 1 \subseteq 0 .. id_gen' - 1
    <3>1. id_gen \in Nat /\ id_gen' = id_gen + 1 /\ id_gen' <= MaxEvents
      BY EventFacts
    <3> HIDE DEF RegisterEvent
    <3> QED BY <3>1, NextNumbers
  <2>2. events' \subseteq 0 .. id_gen' - 1 /\ graph'.events \subseteq 0 .. id_gen' - 1
    BY <2>1 DEF RegTypeOK
  <2> QED BY <2>1, <2>2 DEF RegTypeOK, Running
<1>2. EventsKnown' /\ EventsDistinct'
  BY DEF EventsKnown, EventsDistinct
<1>3. GraphType' /\ HeldIsOwn' /\ TiedRegistered'
  BY DEF GraphType, HeldIsOwn, TiedRegistered
<1>4. OrderlyProgramsRun'
  <2> SUFFICES ASSUME Orderly' PROVE Running'
    BY DEF OrderlyProgramsRun
  <2>1. PICK k \in KernelId : kernels[k] = 0
    BY DEF Orderly
  <2> QED BY <2>1, FirstKernel DEF Running
<1> QED BY <1>1, <1>2, <1>3, <1>4

\* Deregistering a buffer preserves the invariant: its event is its own.
LEMMA DeregisterBufferInv ==
  ASSUME RegInv, Running, NEW b \in BufferId, DeregisterBuffer(b)
  PROVE  RegInv'
<1> USE DEF RegInv, DeregisterBuffer
<1>1. RegTypeOK'
  BY DEF RegTypeOK
<1>2. \A c \in BufferId : c # b => buffers'[c] = buffers[c] /\ held'[c] = held[c]
  BY DEF RegTypeOK
<1>3. buffers'[b] = Unregistered /\ held'[b] = Unregistered
  BY DEF RegTypeOK
<1>4. EventsKnown'
  BY <1>2, <1>3 DEF EventsKnown, EventsDistinct
<1>5. EventsDistinct' /\ HeldIsOwn'
  BY <1>2, <1>3 DEF EventsDistinct, HeldIsOwn
<1>6. GraphType' /\ TiedRegistered' /\ OrderlyProgramsRun'
  BY DEF GraphType, TiedRegistered, OrderlyProgramsRun, Running
<1> QED BY <1>1, <1>4, <1>5, <1>6

\* Asking for a buffer's event preserves the invariant; a program it ends, for
\* the event 0, has not registered a kernel first.
LEMMA GetBufferEventInv ==
  ASSUME RegInv, Running, NEW b \in BufferId, GetBufferEvent(b)
  PROVE  RegInv'
<1> USE DEF RegInv, GetBufferEvent
<1>1. RegTypeOK' /\ HeldIsOwn'
  BY DEF RegTypeOK, HeldIsOwn, Running
<1>2. GraphType' /\ EventsKnown' /\ EventsDistinct' /\ TiedRegistered'
  BY DEF GraphType, EventsKnown, EventsDistinct, TiedRegistered
<1>3. OrderlyProgramsRun'
  <2> SUFFICES ASSUME Orderly' PROVE Running'
    BY DEF OrderlyProgramsRun
  <2>1. PICK k \in KernelId : kernels[k] = 0
    BY DEF Orderly
  <2>2. buffers[b] # 0
    BY <2>1, FirstKernel DEF EventsDistinct
  <2>3. buffers[b] > 0
    <3>1. buffers[b] \in EventId
      BY EventFacts
    <3> HIDE DEF GetBufferEvent
    <3> QED BY <2>2, <3>1
  <2> QED BY <2>3 DEF Running
<1> QED BY <1>1, <1>2, <1>3
-----------------------------------------------------------------------------
\* Building the graph preserves the invariant.
LEMMA BuildGraphInv ==
  ASSUME RegInv, Running, BuildGraph
  PROVE  RegInv'
<1> USE DEF RegInv
<1>1. /\ UNCHANGED <<id_gen, kernels, buffers, events, tied, register, held, status>>
      /\ Kernels \subseteq KernelId \X EventId /\ Buffers \subseteq BufferId \X EventId
  BY DEF BuildGraph, TaskGraphCreate, TaskGraphAddKernel, TaskGraphAddBuffer, TaskGraphAddEvent,
     TaskGraphDestroy, Kernels, Buffers
<1>2. /\ GraphType'
      /\ BagToSet(graph'.kernels) \subseteq KernelId \X EventId
      /\ BagToSet(graph'.buffers) \subseteq BufferId \X EventId
      /\ graph'.events \subseteq 0 .. id_gen - 1
  <2>1. CASE \E K \in SUBSET Kernels, B \in SUBSET Buffers : TaskGraphCreate(K, B)
    <3>1. PICK K \in SUBSET Kernels, B \in SUBSET Buffers : TaskGraphCreate(K, B)
      BY <2>1
    <3>2. /\ graph'.kernels = SetToBag(K) /\ graph'.buffers = SetToBag(B)
          /\ graph'.events = events /\ DOMAIN graph' = {"kernels", "buffers", "events"}
      BY <3>1 DEF TaskGraphCreate
    <3>3. /\ BagToSet(SetToBag(K)) = K /\ SetToBag(K) \in [K -> Nat \ {0}]
          /\ BagToSet(SetToBag(B)) = B /\ SetToBag(B) \in [B -> Nat \ {0}]
      BY BagFacts
    <3>4. events \subseteq 0 .. id_gen - 1
      BY DEF RegTypeOK
    <3> QED BY <1>1, <3>2, <3>3, <3>4 DEF GraphType
  <2>2. ASSUME NEW o \in Kernels, TaskGraphAddKernel(o)
        PROVE  /\ DOMAIN graph' = DOMAIN graph
               /\ graph'.kernels = Plus(graph.kernels, {o})
               /\ graph'.buffers = graph.buffers /\ graph'.events = graph.events
    BY <2>2 DEF TaskGraphAddKernel, GraphType
  <2>3. ASSUME NEW o \in Buffers, TaskGraphAddBuffer(o)
        PROVE  /\ DOMAIN graph' = DOMAIN graph
               /\ graph'.buffers = Plus(graph.buffers, {o})
               /\ graph'.kernels = graph.kernels /\ graph'.events = graph.events
    BY <2>3 DEF TaskGraphAddBuffer, GraphType
  <2>4. CASE \E o \in Kernels : TaskGraphAddKernel(o)
    <3>1. PICK o \in Kernels : TaskGraphAddKernel(o)
      BY <2>4
    <3>2. /\ BagToSet(Plus(graph.kernels, {o})) = BagToSet(graph.kernels) \cup {o}
          /\ Plus(graph.kernels, {o}) \in [BagToSet(graph.kernels) \cup {o} -> Nat \ {0}]
      BY BagFacts DEF GraphType
    <3> QED BY <1>1, <2>2, <3>1, <3>2 DEF GraphType, RegTypeOK
  <2>5. CASE \E o \in Buffers : TaskGraphAddBuffer(o)
    <3>1. PICK o \in Buffers : TaskGraphAddBuffer(o)
      BY <2>5
    <3>2. /\ BagToSet(Plus(graph.buffers, {o})) = BagToSet(graph.buffers) \cup {o}
          /\ Plus(graph.buffers, {o}) \in [BagToSet(graph.buffers) \cup {o} -> Nat \ {0}]
      BY BagFacts DEF GraphType
    <3> QED BY <1>1, <2>3, <3>1, <3>2 DEF GraphType, RegTypeOK
  <2>6. CASE TaskGraphAddEvent
    BY <2>6 DEF TaskGraphAddEvent, GraphType, RegTypeOK
  <2>7. CASE TaskGraphDestroy
    BY <2>7, BagFacts DEF TaskGraphDestroy, NoGraph, GraphType
  <2> QED BY <2>1, <2>4, <2>5, <2>6, <2>7 DEF BuildGraph
<1>3. RegTypeOK'
  BY <1>1, <1>2 DEF RegTypeOK
<1>4. EventsKnown' /\ EventsDistinct' /\ HeldIsOwn' /\ TiedRegistered' /\ OrderlyProgramsRun'
  BY <1>1 DEF EventsKnown, EventsDistinct, HeldIsOwn, TiedRegistered, OrderlyProgramsRun, Running
<1> QED BY <1>2, <1>3, <1>4

\* The graph of a program that kept the order is allocated as it is: with a
\* kernel, no id twice, and an event in it for every buffer and kernel.
LEMMA OrderlyGraph ==
  ASSUME RegInv, Orderly
  PROVE  /\ graph.kernels # EmptyBag
         /\ ~ Repeated(graph.kernels) /\ ~ Repeated(graph.buffers)
         /\ BufferEvents \subseteq Place /\ Strays = {}
         /\ \A o \in BagToSet(graph.kernels) :
              KernelEvents(o[2]) \subseteq graph.events \ BufferEvents
<1> USE DEF RegInv, Orderly
<1>1. BagToSet(graph.kernels) = Kernels /\ BagToSet(graph.buffers) \subseteq Buffers
  OBVIOUS
<1>2. graph.kernels # EmptyBag
  <2>1. PICK k \in KernelId : kernels[k] = 0
    OBVIOUS
  <2>2. <<k, 0>> \in Kernels
    BY <2>1 DEF Kernels
  <2> QED BY <1>1, <2>2, BagFacts
<1>3. ~ Repeated(graph.kernels)
  <2>1. \A o, p \in Kernels : o[1] = p[1] => o = p
    BY DEF Kernels
  <2>2. \A o \in BagToSet(graph.kernels) : graph.kernels[o] = 1
    OBVIOUS
  <2> QED BY <1>1, <2>1, <2>2 DEF Repeated
<1>4. ~ Repeated(graph.buffers)
  <2>1. \A o, p \in Buffers : o[1] = p[1] => o = p
    BY DEF Buffers
  <2>2. \A o \in BagToSet(graph.buffers) : graph.buffers[o] = 1
    OBVIOUS
  <2> QED BY <1>1, <2>1, <2>2 DEF Repeated
<1>5. BufferEvents \subseteq {buffers[b] : b \in {b \in BufferId : buffers[b] # Unregistered}}
  BY <1>1 DEF BufferEvents, Buffers
<1>6. BufferEvents \subseteq Place
  BY <1>5 DEF EventsKnown, Place
<1>7. Strays = {}
  <2> SUFFICES ASSUME NEW k \in Strays PROVE FALSE
    OBVIOUS
  <2>0. PICK e \in graph.events : k \in tied[e]
    BY DEF Strays
  <2>5. ~ \E o \in BagToSet(graph.kernels) : o[1] = k
    BY DEF Strays
  <2>1. e \in EventId /\ k \in KernelId
    BY <2>0, EventFacts DEF RegTypeOK
  <2>2. kernels[k] \in EventId
    BY <2>0, <2>1, EventFacts DEF TiedRegistered
  <2>3. <<k, kernels[k]>> \in Kernels
    BY <2>1, <2>2 DEF Kernels
  <2>4. <<k, kernels[k]>> \in BagToSet(graph.kernels) /\ <<k, kernels[k]>>[1] = k
    BY <1>1, <2>3
  <2> QED BY <2>4, <2>5
<1>8. ASSUME NEW o \in BagToSet(graph.kernels)
      PROVE  KernelEvents(o[2]) \subseteq graph.events \ BufferEvents
  <2>1. o[1] \in KernelId /\ o[2] = kernels[o[1]] /\ kernels[o[1]] # Unregistered
    BY <1>1 DEF Kernels
  <2>2. KernelEvents(o[2]) \subseteq graph.events
    BY <2>1 DEF EventsKnown
  <2> QED BY <1>5, <2>1, <2>2 DEF EventsDistinct
<1> QED BY <1>2, <1>3, <1>4, <1>6, <1>7, <1>8

\* What allocation does then.
LEMMA OrderlyAllocation ==
  ASSUME RegInv, Orderly, Allocate
  PROVE  register' = Initialised(register, BufferEvents) /\ status' = status
BY OrderlyGraph DEF Allocate, ResourceAllocation

\* Allocation preserves the invariant.
LEMMA AllocateInv ==
  ASSUME RegInv, Running, Allocate
  PROVE  RegInv'
<1> USE DEF RegInv
<1>1. UNCHANGED <<id_gen, kernels, buffers, events, tied, graph, held>>
  BY DEF Allocate
<1>2. \A E : Initialised(register, E) \in [EventId -> {Unplaced, 0, WRITE}]
  BY DEF Initialised, RegTypeOK
<1>3. register' \in [EventId -> {Unplaced, 0, WRITE}]
  <2>1. register' = register \/ \E E : register' = Initialised(register, E)
    BY DEF Allocate, ResourceAllocation
  <2>2. register \in [EventId -> {Unplaced, 0, WRITE}]
    BY DEF RegTypeOK
  <2> QED BY <1>2, <2>1, <2>2
<1>4. status' \in {status, "no kernel", "repeated", "no register", "wild write", "stray kernel"}
  BY DEF Allocate, ResourceAllocation
<1>5. RegTypeOK'
  BY <1>1, <1>3, <1>4 DEF RegTypeOK
<1>6. OrderlyProgramsRun'
  BY <1>1, OrderlyAllocation DEF OrderlyProgramsRun, Orderly, Running, Kernels, Buffers
<1>7. GraphType' /\ EventsKnown' /\ EventsDistinct' /\ HeldIsOwn' /\ TiedRegistered'
  BY <1>1 DEF GraphType, EventsKnown, EventsDistinct, HeldIsOwn, TiedRegistered
<1> QED BY <1>5, <1>6, <1>7
-----------------------------------------------------------------------------
\* Every step preserves the invariant.
LEMMA RegNextInv == RegInv /\ [Next]_vars => RegInv'
<1> SUFFICES ASSUME RegInv, [Next]_vars PROVE RegInv'
  OBVIOUS
<1>1. CASE Call
  BY <1>1, RegisterKernelInv, RegisterBufferInv, RegisterEventInv, DeregisterBufferInv,
     GetBufferEventInv, BuildGraphInv, AllocateInv DEF Call, Register
<1>2. CASE UNCHANGED vars
  BY <1>2 DEF vars, RegInv, RegTypeOK, GraphType, EventsKnown, EventsDistinct, HeldIsOwn,
     TiedRegistered, OrderlyProgramsRun, Orderly, Running, Kernels, Buffers
<1> QED BY <1>1, <1>2 DEF Next, Ended

\* The maps of the context fit together in every state of every program.
THEOREM RegInvariant == Spec => []RegInv
<1>1. Init => RegInv
  BY RegInitInv
<1>2. RegInv /\ [Next]_vars => RegInv'
  BY RegNextInv
<1> QED BY <1>1, <1>2, PTL DEF Spec

\* Objects, registers and ids keep their types (host/src/context.cpp).
THEOREM RegTypes == Spec => []RegTypeOK
<1>1. RegInv => RegTypeOK
  BY DEF RegInv
<1> QED BY <1>1, RegInvariant, PTL

\* The id of a buffer's event keeps finding that event, whatever was registered
\* again or deregistered, and those of every kernel can be found.
THEOREM HandlesAlwaysResolve == Spec => []HandlesResolve
<1>1. RegInv => HandlesResolve
  <2> SUFFICES ASSUME RegInv PROVE HandlesResolve
    OBVIOUS
  <2>1. \A b \in BufferId : held[b] # Unregistered => held[b] = buffers[b] /\ held[b] \in events
    BY DEF RegInv, HeldIsOwn, EventsKnown
  <2>2. \A o \in Kernels : KernelEvents(o[2]) \subseteq events
    BY DEF RegInv, EventsKnown, Kernels
  <2> QED BY <2>1, <2>2 DEF HandlesResolve
<1> QED BY <1>1, RegInvariant, PTL

\* No assertion ends a program that registers, builds and allocates in order.
THEOREM OrderlyProgramsAlwaysRun == Spec => []OrderlyProgramsRun
<1>1. RegInv => OrderlyProgramsRun
  BY DEF RegInv
<1> QED BY <1>1, RegInvariant, PTL

\* The allocation of its graph leaves WRITE in the registers of the buffers and
\* empties those of the kernels, in this order (BBQContext::from_bbque).
THEOREM AllocationAlwaysPrepares == Spec => AllocationPrepares
<1>1. RegInv /\ [Next]_vars =>
        [Allocate /\ Orderly =>
           /\ \A o \in BagToSet(graph.buffers) : register'[o[2]] = WRITE
           /\ \A o \in BagToSet(graph.kernels) :
                \A e \in KernelEvents(o[2]) : register'[e] = 0]_vars
  <2> SUFFICES ASSUME RegInv, Allocate, Orderly
               PROVE  /\ \A o \in BagToSet(graph.buffers) : register'[o[2]] = WRITE
                      /\ \A o \in BagToSet(graph.kernels) :
                           \A e \in KernelEvents(o[2]) : register'[e] = 0
    OBVIOUS
  <2>1. register' = Initialised(register, BufferEvents)
    BY OrderlyAllocation
  <2>2. \A o \in BagToSet(graph.buffers) : o[2] \in BufferEvents /\ o[2] \in EventId
    BY DEF BufferEvents, RegInv, RegTypeOK
  <2>3. graph.events \subseteq EventId
    BY EventFacts DEF RegInv
  <2> QED BY <2>1, <2>2, <2>3, OrderlyGraph DEF Initialised
<1> QED BY <1>1, RegInvariant, PTL DEF Spec, AllocationPrepares
=============================================================================
