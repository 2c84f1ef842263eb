------------------------------- MODULE Registry -------------------------------
(***************************************************************************)
(* The context of the application (host/src/context.cpp): the kernels,     *)
(* buffers and events it has registered, the task graph built from them,   *)
(* and the resource allocation that places the graph and prepares its      *)
(* registers.                                                              *)
(*                                                                         *)
(* Event::id_gen numbers the events, so an event stands for its id; the    *)
(* objects of kernels and buffers are told apart by their first event.     *)
(* The application is single-threaded, passes ids that it has registered,  *)
(* gives every kernel a buffer, and names kernels of the graph when it     *)
(* registers a buffer or an event.  The resource manager places what it is *)
(* asked to place.  The addresses that resource_allocation gives out last  *)
(* are the subject of MemoryManager.                                       *)
(***************************************************************************)
EXTENDS Integers, Bags

CONSTANTS
  KernelId, BufferId,   \* the ids the application chooses
  TaskEvents,           \* the task events of a kernel; kernel.cpp has 3
  MaxEvents,            \* bound: events that are created
  MaxEntries            \* bound: entries of each vector of the task graph

ASSUME BoundsAssumption ==
  TaskEvents \in Nat /\ MaxEvents \in Nat \ {0} /\ MaxEntries \in Nat

VARIABLES
  id_gen,     \* Event::id_gen, the next event id
  kernels,    \* the context's map of kernels: id -> object
  buffers,    \* the context's map of buffers: id -> object
  events,     \* the keys of the context's map of events
  tied,       \* the kernel that a kernel's events name, as a set
  graph,      \* the task graph: bags of kernels and buffers, a set of events
  register,   \* the content of the synchronization register of each event
  held,       \* the buffer events the application has been given
  status      \* whether the process runs, and for which reason it ended

vars == <<id_gen, kernels, buffers, events, tied, graph, register, held, status>>

WRITE == 2
EventId == 0 .. MaxEvents - 1

\* An event without a register: phy_addr has not been set.
Unplaced == -1
Unregistered == -1
NoGraph == [kernels |-> EmptyBag, buffers |-> EmptyBag, events |-> {}]

\* Mutant of KernelEvents: the loop over the task events ends one too late.
KernelEventsOneMore(e) == e .. e + TaskEvents + 1

\* The termination event and the task events of a kernel.
KernelEvents(e) == e .. e + TaskEvents

\* Entries of the graph's vectors: an object with its id.
Kernels == {o \in KernelId \X EventId : o[2] = kernels[o[1]]}
Buffers == {o \in BufferId \X EventId : o[2] = buffers[o[1]]}
Running == status = "running"
-----------------------------------------------------------------------------
(***************************************************************************)
(* Registration.  The maps' emplace keeps an object that has the id.       *)
(***************************************************************************)
\* Mutant of Emplace: operator[] instead of emplace.
EmplaceOver(map, id, object) == [map EXCEPT ![id] = object]

Emplace(map, id, object) ==
  [map EXCEPT ![id] = IF @ = Unregistered THEN object ELSE @]

RegisterKernel(k) ==
  /\ id_gen + 1 + TaskEvents <= MaxEvents
  /\ id_gen' = id_gen + 1 + TaskEvents
  /\ kernels' = Emplace(kernels, k, id_gen)
  /\ events' = events \cup KernelEvents(id_gen)
  /\ tied' = [e \in EventId |-> IF e \in KernelEvents(id_gen) THEN {k} ELSE tied[e]]
  /\ UNCHANGED <<buffers, graph, register, held, status>>

RegisterBuffer(b) ==
  /\ id_gen + 1 <= MaxEvents
  /\ id_gen' = id_gen + 1
  /\ buffers' = Emplace(buffers, b, id_gen)
  /\ events' = events \cup {id_gen}
  /\ UNCHANGED <<kernels, tied, graph, register, held, status>>

\* mango_register_event; assert(event->get_id() > 0).
RegisterEvent ==
  /\ id_gen + 1 <= MaxEvents
  /\ id_gen' = id_gen + 1
  /\ events' = events \cup {id_gen}
  /\ status' = IF id_gen > 0 THEN status ELSE "first event"
  /\ UNCHANGED <<kernels, buffers, tied, graph, register, held>>

\* The buffer's event goes from the map, the buffer stays in a task graph.
DeregisterBuffer(b) ==
  /\ buffers[b] # Unregistered
  /\ events' = events \ {buffers[b]}
  /\ buffers' = [buffers EXCEPT ![b] = Unregistered]
  /\ held' = [held EXCEPT ![b] = Unregistered]
  /\ UNCHANGED <<id_gen, kernels, tied, graph, register, status>>

\* mango_get_buffer_event, mango_write and mango_read: the application gets
\* the id of the buffer's event, if it is positive.
GetBufferEvent(b) ==
  /\ buffers[b] # Unregistered
  /\ IF buffers[b] > 0
     THEN held' = [held EXCEPT ![b] = buffers[b]] /\ UNCHANGED status
     ELSE status' = "first event" /\ UNCHANGED held
  /\ UNCHANGED <<id_gen, kernels, buffers, events, tied, graph, register>>
-----------------------------------------------------------------------------
(***************************************************************************)
(* The task graph.  operator+= appends, whatever is there already.         *)
(***************************************************************************)
Plus(bag, S) == bag (+) SetToBag(S)

\* mango_task_graph_create(k, b, e, ...)
TaskGraphCreate(K, B) ==
  /\ graph = NoGraph
  /\ K # {} /\ B # {}
  /\ graph' = [kernels |-> SetToBag(K), buffers |-> SetToBag(B), events |-> events]
  /\ UNCHANGED <<id_gen, kernels, buffers, events, tied, register, held, status>>

\* mango_task_graph_add_kernel, mango_task_graph_add_buffer
TaskGraphAddKernel(o) ==
  /\ BagCardinality(graph.kernels) < MaxEntries
  /\ graph' = [graph EXCEPT !.kernels = Plus(@, {o})]
  /\ UNCHANGED <<id_gen, kernels, buffers, events, tied, register, held, status>>

TaskGraphAddBuffer(o) ==
  /\ BagCardinality(graph.buffers) < MaxEntries
  /\ graph' = [graph EXCEPT !.buffers = Plus(@, {o})]
  /\ UNCHANGED <<id_gen, kernels, buffers, events, tied, register, held, status>>

\* mango_task_graph_add_event adds all events of the context.
TaskGraphAddEvent ==
  /\ graph' = [graph EXCEPT !.events = @ \cup events]
  /\ UNCHANGED <<id_gen, kernels, buffers, events, tied, register, held, status>>

\* mango_task_graph_destroy_all deregisters nothing.
TaskGraphDestroy ==
  /\ graph # NoGraph
  /\ graph' = NoGraph
  /\ UNCHANGED <<id_gen, kernels, buffers, events, tied, register, held, status>>
-----------------------------------------------------------------------------
(***************************************************************************)
(* mango_resource_allocation.                                              *)
(***************************************************************************)
\* to_bbque makes maps, from_bbque asserts that they are as long as the vectors:
\* no id comes twice, be it with the same object or with another.
Repeated(bag) ==
  \E o, p \in BagToSet(bag) : o[1] = p[1] /\ (o # p \/ bag[o] > 1)

BufferEvents == {o[2] : o \in BagToSet(graph.buffers)}

\* Mutant of Initialised: buffers first, so that the drain takes the value back.
InitialisedBuffersFirst(r, bufferEvents) ==
  [e \in EventId |-> IF e \in graph.events THEN 0
                     ELSE IF e \in bufferEvents THEN WRITE ELSE r[e]]

\* from_bbque places and drains the events, then writes those of the buffers.
Initialised(r, bufferEvents) ==
  [e \in EventId |-> IF e \in bufferEvents THEN WRITE
                     ELSE IF e \in graph.events THEN 0 ELSE r[e]]

\* Mutant of Place: the loop over events comes after that over buffers.
PlaceLater == {e \in EventId : register[e] # Unplaced}

\* The events that are placed by this allocation or were by an earlier one.
Place == graph.events \cup {e \in EventId : register[e] # Unplaced}

\* set_vaddr_events looks the kernels of an event up in the graph, and takes
\* what is behind the last one for one that is not there.
Strays ==
  (UNION {tied[e] : e \in graph.events}) \ {o[1] : o \in BagToSet(graph.kernels)}

\* The address of an event that is not placed is what the memory held: 0, on
\* which from_bbque asserts, or that of any register, which it then writes;
\* such a program is not followed further.
ResourceAllocation ==
  LET lost == BufferEvents \ Place IN
  \/ /\ graph.kernels = EmptyBag
     /\ status' = "no kernel" /\ UNCHANGED register
  \/ /\ graph.kernels # EmptyBag
     /\ Repeated(graph.kernels) \/ Repeated(graph.buffers)
     /\ status' = "repeated" /\ UNCHANGED register
  \/ /\ graph.kernels # EmptyBag
     /\ ~ Repeated(graph.kernels) /\ ~ Repeated(graph.buffers)
     /\ \/ /\ lost = {}
           /\ register' = Initialised(register, BufferEvents)
           /\ status' = IF Strays = {} THEN status ELSE "stray kernel"
        \/ /\ lost # {}
           /\ status' = "no register" /\ UNCHANGED register
        \/ \E found \in [lost -> EventId] :
             /\ lost # {}
             /\ register' = Initialised(register, (BufferEvents \ lost) \cup
                                                  {found[e] : e \in lost})
             /\ status' = "wild write"

Allocate ==
  /\ ResourceAllocation
  /\ UNCHANGED <<id_gen, kernels, buffers, events, tied, graph, held>>
-----------------------------------------------------------------------------
Init ==
  /\ id_gen = 0
  /\ kernels = [k \in KernelId |-> Unregistered]
  /\ buffers = [b \in BufferId |-> Unregistered]
  /\ events = {}
  /\ tied = [e \in EventId |-> {}]
  /\ graph = NoGraph
  /\ register = [e \in EventId |-> Unplaced]
  /\ held = [b \in BufferId |-> Unregistered]
  /\ status = "running"

Register ==
  \/ \E k \in KernelId : RegisterKernel(k)
  \/ \E b \in BufferId : RegisterBuffer(b)
  \/ RegisterEvent

BuildGraph ==
  \/ \E K \in SUBSET Kernels, B \in SUBSET Buffers : TaskGraphCreate(K, B)
  \/ \E o \in Kernels : TaskGraphAddKernel(o)
  \/ \E o \in Buffers : TaskGraphAddBuffer(o)
  \/ TaskGraphAddEvent
  \/ TaskGraphDestroy

Call ==
  /\ Running
  /\ \/ Register
     \/ \E b \in BufferId : DeregisterBuffer(b) \/ GetBufferEvent(b)
     \/ BuildGraph
     \/ Allocate

\* The process has been ended by an assertion.
Ended == ~ Running /\ UNCHANGED vars

Next == Call \/ Ended

Spec == Init /\ [][Next]_vars
-----------------------------------------------------------------------------
(***************************************************************************)
(* Properties.                                                             *)
(***************************************************************************)
\* The objects, registers and ids are ones there are (host/src/context.cpp).
RegTypeOK ==
  /\ id_gen \in 0 .. MaxEvents
  /\ kernels \in [KernelId -> EventId \cup {Unregistered}]
  /\ buffers \in [BufferId -> EventId \cup {Unregistered}]
  /\ events \subseteq 0 .. id_gen - 1
  /\ tied \in [EventId -> SUBSET KernelId]
  /\ BagToSet(graph.kernels) \subseteq KernelId \X EventId
  /\ BagToSet(graph.buffers) \subseteq BufferId \X EventId
  /\ graph.events \subseteq 0 .. id_gen - 1
  /\ register \in [EventId -> {Unplaced, 0, WRITE}]
  /\ held \in [BufferId -> EventId \cup {Unregistered}]
  /\ status \in {"running", "first event", "no kernel", "repeated", "no register",
                "wild write", "stray kernel"}

\* The id the application was given for a buffer's event finds, in get_event,
\* the event that the buffer and its transfers use, also after an id has been
\* registered twice; and the events of every kernel can be found.
HandlesResolve ==
  /\ \A b \in BufferId : held[b] # Unregistered =>
       held[b] = buffers[b] /\ held[b] \in events
  /\ \A o \in Kernels : KernelEvents(o[2]) \subseteq events

\* The program has kept the order: a kernel was registered first, every kernel
\* is in the graph, nothing was added to it twice or after the events were,
\* and no buffer in it has been deregistered.
Orderly ==
  /\ \E k \in KernelId : kernels[k] = 0
  /\ BagToSet(graph.kernels) = Kernels
  /\ \A bag \in {graph.kernels, graph.buffers} :
       \A o \in BagToSet(bag) : bag[o] = 1
  /\ BagToSet(graph.buffers) \subseteq Buffers
  /\ events \subseteq graph.events

\* No assertion of the registration and allocation functions ends a program
\* that kept the order.
OrderlyProgramsRun == Orderly => Running

\* The allocation of such a program's graph leaves the registers as the first
\* transfers and the first start of a kernel expect them: free for writing,
\* and empty.
AllocationPrepares ==
  [][Allocate /\ Orderly =>
       /\ \A o \in BagToSet(graph.buffers) : register'[o[2]] = WRITE
       /\ \A o \in BagToSet(graph.kernels) :
            \A e \in KernelEvents(o[2]) : register'[e] = 0]_vars
===============================================================================
