------------------------------ MODULE ClObjects ------------------------------
(***************************************************************************)
(* The objects of the OpenCL wrapper (host/OpenCL/src) and the pointers    *)
(* between them, from the first device to the last release, on top of the  *)
(* context, the task graph and the kernel functions of the host library.   *)
(*                                                                         *)
(* Every function is one step.  A call that a check of its arguments turns *)
(* down returns an error and changes nothing, and so do the functions that *)
(* are not implemented yet: both are stuttering steps.  A step that would  *)
(* follow a null pointer or one to released memory ends the process, as do *)
(* assertions that fail - the build is one with assertions - and           *)
(* exceptions nobody catches.                                              *)
(*                                                                         *)
(* The application is single-threaded.  Wherever a function takes a handle *)
(* or a list of them, or the name of a binary, it passes those of objects  *)
(* it has not released, or NULL; ids of kernels and of buffers are not     *)
(* used twice.  What transfers and runs of kernels do, and how long a wait *)
(* takes, is the subject of ClQueue; the values of arguments are that of   *)
(* KernelArguments.                                                        *)
(***************************************************************************)
EXTENDS KernelImage, Sequences, SequencesExt

CONSTANTS
  Context, Device, Queue, Program, Kernel, Mem, Event,  \* the handles there can be
  Path,        \* names of binaries
  Readable,    \* those whose file can be opened
  MaxBinaries, \* bound: binaries of one program
  MaxUntidy,   \* bound: calls of a program that are not tidy
  NULL

Object == UNION {Context, Device, Queue, Program, Kernel, Mem, Event}

\* What a task graph has: its kernels in the order they came, and its buffers.
TaskGraph == [kernels : Seq(Kernel), buffers : SUBSET Mem]
NoGraph == [kernels |-> <<>>, buffers |-> {}]

\* No handle is that of two objects.
ASSUME HandlesAssumption ==
  /\ LET kinds == <<Context, Device, Queue, Program, Kernel, Mem, Event>> IN
     \A i, j \in 1 .. 7 : i # j => kinds[i] \cap kinds[j] = {}
  /\ NULL \notin Object \cup Path /\ NULL \notin TaskGraph
  /\ Readable \subseteq Path
  /\ MaxBinaries \in Nat \ {0}
  /\ MaxUntidy \in Nat

VARIABLES
  life,       \* of every object: whether it is new, live or released
  unit,       \* device_type of a device
  devices,    \* devices of a context
  queue,      \* queue of a context, a device or an event
  ctx,        \* ctx of a queue, a program, a buffer or an event
  device,     \* device of a queue or a kernel
  functions,  \* map_kernel_functions of a program
  program,    \* program of a kernel
  fn,         \* the kernel function a kernel was registered with
  users,      \* the kernels a buffer was registered with
  tgx,        \* task graph of a queue
  events,     \* events of a queue
  of,         \* the kernel or buffer whose mango event ev of an event is
  waiting,    \* the events with status LOCK
  cxt,        \* the global Context of the host library: "none", "live" or "deleted"
  known,      \* the kernels and buffers registered in it
  first,      \* the kernel that got the event with id 0
  placed,     \* the kernels and buffers that an allocation has placed
  status,     \* whether the process runs, and for which reason it ended
  untidy      \* history: the calls of the program that were not tidy

pointers == <<devices, queue, ctx, device, program>>
content == <<unit, functions, fn, users, events, of, waiting>>
host == <<cxt, known, first, placed, tgx>>
vars == <<life, pointers, content, host, status, untidy>>

Running == status = "running"
Live == {o \in Object : life[o] = "live"}
New == {o \in Object : life[o] = "new"}
\* A kernel of a context the process had, and released, before.
Earlier == "earlier"

Create(o) == life' = [life EXCEPT ![o] = "live"]

Crash(reason) ==
  /\ status' = reason
  /\ UNCHANGED <<life, pointers, content, host, untidy>>

\* Effect, by a function that does not check the handles or names it is passed.
UnlessPassedNull(S, Effect) == IF NULL \in S THEN Crash("null argument") ELSE Effect

\* Effect, by a function that follows pointers to all of S.
Using(S, Effect) ==
  \/ S \subseteq Live /\ Effect
  \/ NULL \in S /\ Crash("null")
  \/ NULL \notin S /\ ~ S \subseteq Live /\ Crash("stale")

\* Effect, by a function of the host library that uses the global context.
InContext(Effect) ==
  \/ cxt = "live" /\ Effect
  \/ cxt = "deleted" /\ Crash("stale")

\* Context::get_kernel, get_buffer and get_event throw for an unknown id.
Known(o, Effect) == InContext(IF o \in known THEN Effect ELSE Crash("unknown id"))

(***************************************************************************)
(* A tidy program has one context at a time, of devices that there are,    *)
(* and gives it a queue before it makes programs; it releases an object    *)
(* after those made from it, the last queue of a context after its         *)
(* programs and buffers, and an event only when clFinish has taken it from *)
(* its queue.                                                              *)
(***************************************************************************)
MadeFrom(x) ==
  CASE x \in Context -> devices[x]
    [] x \in Queue   -> {ctx[x], device[x]} \cup ToSet(events[x])
    [] x \in Program -> {ctx[x], queue[ctx[x]]}
    [] x \in Kernel  -> {program[x], device[x]}
    [] x \in Mem     -> {ctx[x], queue[ctx[x]]}
    [] x \in Event   -> {ctx[x], queue[x], of[x]}
    [] OTHER -> {}

Tidy(call) == untidy' = untidy + (IF call THEN 0 ELSE 1)

Release(o) ==
  /\ life' = [life EXCEPT ![o] = "released"]
  /\ Tidy(\A x \in Live : o \notin MadeFrom(x))

\* clReleaseDevice, clReleaseProgram, clReleaseKernel and clReleaseEvent only
\* delete: the kernel stays registered, the event stays in its queue.
Delete(o) ==
  /\ o \in Device \cup Program \cup Kernel \cup Event
  /\ Release(o)
  /\ UNCHANGED <<pointers, content, host, status>>
-----------------------------------------------------------------------------
(***************************************************************************)
(* Devices and contexts.                                                   *)
(***************************************************************************)
\* Mutant of availableUnits: the sentinel of the enumeration is among the units.
availableUnitsToStop == <<"GN", "GN", "GPGPU", "PEAK", "STOP">>

\* available_units
availableUnits == <<"GN", "GN", "GPGPU", "PEAK">>
DeviceType == {"ALL", "CPU", "DEFAULT", "GPU", "ACCELERATOR", "CUSTOM"}
validTypes == DeviceType \ {"CUSTOM"}

\* The last case asks for a unit that is not a GPGPU or not a GN: any unit.
getAvailableDevicesByType(type) ==
  {u \in ToSet(availableUnits) : CASE type \in {"CPU", "DEFAULT"} -> u = "GN"
                                   [] type = "GPU" -> u = "GPGPU"
                                   [] OTHER -> TRUE}

\* clGetDeviceIDs with an array, of which the application uses one entry, a u.
\* clCreateContextFromType does the same, but throws cl_error(CL_SUCCESS) when
\* it has the devices, so that nobody gets them and no context is made.
GetDeviceIDs(type, d, u) ==
  /\ type \in validTypes
  /\ Create(d)
  /\ unit' = [unit EXCEPT ![d] = u]
  /\ queue' = [queue EXCEPT ![d] = NULL]
  /\ UNCHANGED <<devices, ctx, device, program, functions, fn, users, events, of,
                 waiting, host, status, untidy>>

\* mango_init makes a new global context, and the old one is lost with all
\* that was registered in it.  The entries of the list of devices are not checked.
CreateContext(c, D) ==
  /\ Create(c)
  /\ devices' = [devices EXCEPT ![c] = D]
  /\ queue' = [queue EXCEPT ![c] = NULL]
  /\ cxt' = "live" /\ known' = {}
  /\ Tidy(cxt # "live" /\ NULL \notin D)
  /\ UNCHANGED <<ctx, device, program, content, first, placed, tgx, status>>

\* mango_release deletes the global context, whichever context made it.
ReleaseContext(c) ==
  \/ /\ cxt = "deleted"
     /\ Crash("double delete")
  \/ /\ cxt = "live"
     /\ cxt' = "deleted"
     /\ Release(c)
     /\ UNCHANGED <<pointers, content, known, first, placed, tgx, status>>
-----------------------------------------------------------------------------
(***************************************************************************)
(* Command queues.                                                         *)
(***************************************************************************)
\* Mutant of Associated: only the device of the queue is associated with it.
AssociatedOnly(c, d) == {c, d}

\* The objects whose queue a new queue of c becomes; d need not be one of them.
Associated(c, d) == {c} \cup devices[c]

CreateCommandQueue(q, c, d) ==
  /\ c # NULL /\ d # NULL
  /\ Using(Associated(c, d),
       /\ Create(q)
       /\ queue' = [o \in DOMAIN queue |-> IF o \in Associated(c, d) THEN q ELSE queue[o]]
       /\ ctx' = [ctx EXCEPT ![q] = c]
       /\ device' = [device EXCEPT ![q] = d]
       /\ tgx' = [tgx EXCEPT ![q] = NULL]
       /\ events' = [events EXCEPT ![q] = <<>>]
       /\ UNCHANGED <<devices, program, unit, functions, fn, users, of, waiting,
                      cxt, known, first, placed, status, untidy>>)

\* The task graph is deleted, and then once more as an object of a type that
\* has no definition, which the allocator may notice.
ReleaseCommandQueue(q) ==
  IF tgx[q] = NULL THEN Crash("no graph")
  ELSE InContext(
    \/ /\ Release(q)
       /\ UNCHANGED <<pointers, content, host, status>>
    \/ Crash("graph deleted twice"))
-----------------------------------------------------------------------------
(***************************************************************************)
(* Programs and kernels.                                                   *)
(***************************************************************************)
\* Mutant of LoadBinaryAt: a path that comes twice keeps its kernel function.
LoadBinaryAtAgain(ds, paths, i) ==
  LET from == IF i = 2 /\ paths[1] = paths[2]
              THEN Load(KernelFunctionInit, unit[ds[1]], "BINARY", paths[1],
                        paths[1] \in Readable).function
              ELSE KernelFunctionInit
  IN Load(from, unit[ds[i]], "BINARY", paths[i], paths[i] \in Readable)

\* The i-th binary is loaded into a kernel function of its own.
LoadBinaryAt(ds, paths, i) ==
  Load(KernelFunctionInit, unit[ds[i]], "BINARY", paths[i], paths[i] \in Readable)

checkDevicesInContext(c, ds) == ToSet(ds) \subseteq devices[c]

\* Where each path comes last: one that comes twice has the entry of the last time.
LastOf(paths, last) ==
  \A path \in ToSet(paths) :
    /\ paths[last[path]] = path
    /\ \A i \in DOMAIN paths : paths[i] = path => i <= last[path]

\* The first n binaries have been loaded.
Loaded(ds, paths, n) ==
  \A i \in 1 .. n : NULL \notin {ds[i], paths[i]} /\ LoadBinaryAt(ds, paths, i).result = "SUCCESS"

\* The program is deleted when a binary cannot be loaded.
MakeProgram(p, c, ds, paths) ==
  /\ Loaded(ds, paths, Len(ds))
  /\ Create(p)
  /\ ctx' = [ctx EXCEPT ![p] = c]
  /\ \E last \in [ToSet(paths) -> DOMAIN paths] :
       /\ LastOf(paths, last)
       /\ functions' = [functions EXCEPT ![p] = [path \in ToSet(paths) |->
            [device |-> ds[last[path]], buffers |-> FALSE,
             function |-> LoadBinaryAt(ds, paths, last[path]).function]]]
  /\ Tidy(queue[c] \in Live)
  /\ UNCHANGED <<devices, queue, device, program, unit, fn, users, events, of, waiting,
                 host, status>>

\* clCreateProgramWithBinary.  A device that is NULL is in the context when the
\* context was made with one; mango_load_kernel asserts that there is a name.
CreateProgramWithBinary(p, c, ds, paths) ==
  /\ c # NULL /\ ds # <<>>
  /\ checkDevicesInContext(c, ds)
  /\ \/ MakeProgram(p, c, ds, paths)
     \/ \E i \in DOMAIN ds :
          /\ Loaded(ds, paths, i - 1) /\ NULL \in {ds[i], paths[i]}
          /\ Crash("null argument")

\* The entry of a path in map_kernel_functions, as operator[] finds or makes it.
EntryOf(p, path) ==
  IF path \in DOMAIN functions[p] THEN functions[p][path]
  ELSE [device |-> NULL, function |-> NULL, buffers |-> FALSE]

\* clSetInputBufferIDs and clSetOutputBufferIDs: a path that is not there is
\* entered, without a function or a device.
SetBufferIDs(p, path) == UnlessPassedNull({p, path},
  /\ functions' = [functions EXCEPT ![p] =
                    Assign(@, path, [EntryOf(p, path) EXCEPT !.buffers = TRUE])]
  /\ UNCHANGED <<life, pointers, unit, fn, users, events, of, waiting, host, status, untidy>>)

GraphOf(q) == IF tgx[q] = NULL THEN NoGraph ELSE tgx[q]

\* Mutant of AddToGraph: only a graph that is made here gets what is added.
AddToNewGraph(q, k, m) ==
  IF tgx[q] = NULL THEN [kernels |-> k, buffers |-> m] ELSE tgx[q]

\* mango_task_graph_add_kernel and add_buffer make a graph where there is none.
AddToGraph(q, k, m) == [GraphOf(q) EXCEPT !.kernels = @ \o k, !.buffers = @ \cup m]

\* Mutant of CreateKernelAccepts: the check of the program is missing.
CreateKernelAcceptsAny(p, path) ==
  p # NULL => (path # NULL /\ path \in DOMAIN functions[p])

\* The checks of clCreateKernel.
CreateKernelAccepts(p, path) ==
  p # NULL /\ path # NULL /\ path \in DOMAIN functions[p]

RegisterKernel(k, p, entry) ==
  LET q == queue[entry.device] IN
  Using({entry.device, q},
    /\ Create(k)
    /\ device' = [device EXCEPT ![k] = entry.device]
    /\ program' = [program EXCEPT ![k] = p]
    /\ fn' = [fn EXCEPT ![k] = entry]
    /\ known' = known \cup {k}
    /\ first' = IF first = NULL THEN k ELSE first
    /\ tgx' = [tgx EXCEPT ![q] = AddToGraph(q, <<k>>, {})]
    /\ UNCHANGED <<devices, queue, ctx, unit, functions, users, events, of, waiting,
                   cxt, placed, status, untidy>>)

\* clCreateKernel; mango_register_kernel_with_buffers asserts that there is a function.
CreateKernel(k, p, path) ==
  /\ CreateKernelAccepts(p, path)
  /\ Using({p}, IF functions[p][path].function = NULL THEN Crash("no function")
                ELSE InContext(RegisterKernel(k, p, functions[p][path])))
-----------------------------------------------------------------------------
(***************************************************************************)
(* Buffers and allocation.                                                 *)
(***************************************************************************)
\* The kernels a buffer is registered with: none when the flags need more.
KernelsFor(flags, in, out) ==
  CASE flags = "READ_WRITE" -> IF in = {} \/ out = {} THEN {} ELSE in \cup out
    [] flags = "WRITE_ONLY" -> in
    [] flags = "READ_ONLY"  -> out
    [] OTHER -> {}

RegisterBuffer(m, c, K) ==
  LET q == queue[c] IN
  Using({q},
    /\ Create(m)
    /\ ctx' = [ctx EXCEPT ![m] = c]
    /\ users' = [users EXCEPT ![m] = K]
    /\ known' = known \cup {m}
    /\ tgx' = [tgx EXCEPT ![q] = AddToGraph(q, <<>>, {m})]
    /\ UNCHANGED <<devices, queue, device, program, unit, functions, fn, events, of,
                   waiting, cxt, first, placed, status, untidy>>)

\* clCreateBuffer; the ids of all kernels are read, whichever the flags need.
CreateBuffer(m, c, flags, in, out) ==
  LET K == KernelsFor(flags, in, out) IN
  /\ c # NULL
  /\ UnlessPassedNull(in \cup out, K # {} /\ InContext(RegisterBuffer(m, c, K)))

\* mango_deregister_memory; the buffer stays in the task graph.  For an
\* unknown one it follows a null pointer.
ReleaseMemObject(m) ==
  InContext(
    IF m \notin known THEN Crash("null")
    ELSE /\ Release(m)
         /\ known' = known \ {m}
         /\ UNCHANGED <<pointers, content, cxt, first, placed, tgx, status>>)

\* What ends the process in mango_resource_allocation: the assertions of
\* to_bbque, a buffer whose event is not in the graph any more, a kernel on GN
\* that the memory manager of another unit has no addresses for, and kernels of
\* the context that the graph does not have.
AllocationFault(g) ==
  LET K == ToSet(g.kernels) IN
  CASE K = {} -> "no kernel"
    [] \E k \in K : ~ fn[k].buffers -> "no buffer"
    [] ~ g.buffers \subseteq known \cup placed -> "no register"
    [] unit[device[Head(g.kernels)]] # "GN" /\
       \E m \in g.buffers, k \in K : k \in users[m] /\ unit[device[k]] = "GN" -> "mixed units"
    [] ~ ((UNION {users[m] : m \in g.buffers}) \cup (known \cap Kernel)) \subseteq K ->
         "stray kernel"
    [] OTHER -> "none"

Allocate(g) ==
  IF AllocationFault(g) # "none" THEN Crash(AllocationFault(g))
  ELSE /\ placed' = placed \cup ToSet(g.kernels) \cup g.buffers
       /\ UNCHANGED <<life, pointers, content, cxt, known, first, tgx, status, untidy>>

\* clKernelAndBufferAllocation
KernelAndBufferAllocation(q) == UnlessPassedNull({q}, InContext(Allocate(GraphOf(q))))
-----------------------------------------------------------------------------
(***************************************************************************)
(* Commands and events.                                                    *)
(***************************************************************************)
\* A command of queue q with the event e, which is that of the kernel or
\* buffer o; W is the wait list.
Enqueue(e, q, o, W) ==
  /\ Create(e)
  /\ ctx' = [ctx EXCEPT ![e] = ctx[q]]
  /\ queue' = [queue EXCEPT ![e] = q]
  /\ of' = [of EXCEPT ![e] = o]
  /\ events' = [events EXCEPT ![q] = Append(@, e)]
  /\ waiting' = (waiting \ W) \cup {e}
  /\ UNCHANGED <<devices, device, program, unit, functions, fn, users, host, status, untidy>>

\* cl_wait_for_events: the mango events of those still waited for are looked up.
Wait(W, Effect) ==
  IF W \cap waiting = {} THEN Effect
  ELSE InContext(IF {of[e] : e \in W \cap waiting} \subseteq known THEN Effect
                 ELSE Crash("unknown id"))

checkWaitListInContext(c, W) == \A e \in W : ctx[e] = c

\* mango_start_kernel looks up the event with id 0.
StartKernel(e, q, k, W) ==
  IF k \notin known THEN Crash("unknown id")
  ELSE IF first \notin known THEN Crash("no event 0")
  ELSE IF k \notin placed THEN Crash("not placed")
  ELSE Enqueue(e, q, k, W)

\* clEnqueueTask and clEnqueueNDRangeKernel.  The check of the wait list reads
\* every entry up to one of another context.
EnqueueTask(e, q, k, W) ==
  /\ q # NULL /\ k # NULL
  /\ Using({program[k]},
       /\ ctx[q] = ctx[program[k]]
       /\ UnlessPassedNull(W,
            checkWaitListInContext(ctx[q], W) /\ Wait(W, InContext(StartKernel(e, q, k, W)))))

\* mango_write and mango_read
Transfer(e, q, m, W) ==
  IF m \notin known THEN Crash("unknown id")
  ELSE IF m \notin placed THEN Crash("not placed")
  ELSE Enqueue(e, q, m, W)

\* clEnqueueWriteBuffer and clEnqueueReadBuffer.
EnqueueTransfer(e, q, m, W) ==
  /\ q # NULL /\ m # NULL
  /\ ctx[q] = ctx[m]
  /\ UnlessPassedNull(W,
       checkWaitListInContext(ctx[q], W) /\ Wait(W, InContext(Transfer(e, q, m, W))))

\* clSetKernelArg of a scalar: mango_arg looks up the kernel.
SetKernelArgScalar(k) == k # NULL /\ Known(k, UNCHANGED vars)

\* clSetKernelArg of a buffer; mango_arg reads its id after it has the kernel.
SetKernelArgBuffer(k, m) ==
  k # NULL /\ Known(k, UnlessPassedNull({m}, Known(m, UNCHANGED vars)))

\* clSetKernelArg of the event of m, a buffer among the kernel's arguments: a new
\* event of the queue of the kernel's device.
SetKernelArgEvent(e, k, m) ==
  LET q == queue[device[k]] IN
  /\ k # NULL
  /\ Using({device[k], q}, Known(m, Known(k,
       /\ Create(e)
       /\ ctx' = [ctx EXCEPT ![e] = ctx[q]]
       /\ queue' = [queue EXCEPT ![e] = q]
       /\ of' = [of EXCEPT ![e] = m]
       /\ waiting' = waiting \cup {e}
       /\ UNCHANGED <<devices, device, program, unit, functions, fn, users, events,
                      host, status, untidy>>)))

\* clWaitForEvents; a list with NULL in it is waited for up to there.
WaitForEvents(W) ==
  /\ W # {}
  /\ Wait(W,
       /\ waiting' = waiting \ W
       /\ UNCHANGED <<life, pointers, unit, functions, fn, users, events, of, host,
                      status, untidy>>)

\* clFinish waits for the events of the queue, the last one first.
Finish(q) ==
  /\ q # NULL
  /\ Using(ToSet(events[q]), Wait(ToSet(events[q]),
       /\ waiting' = waiting \ ToSet(events[q])
       /\ events' = [events EXCEPT ![q] = <<>>]
       /\ UNCHANGED <<life, pointers, unit, functions, fn, users, of, host,
                      status, untidy>>))

(***************************************************************************)
(* The clGet...Info functions: the handles they answer with, for one value *)
(* of param_name or another.                                               *)
(***************************************************************************)
DeviceInfo(d)  == {}
ContextInfo(c) == devices[c]
QueueInfo(q)   == {ctx[q], device[q]}
MemInfo(m)     == {ctx[m]}
ProgramInfo(p) == {ctx[p]} \cup devices[ctx[p]]
KernelInfo(k)  == {program[k], ctx[program[k]]}
EventInfo(e)   == {queue[e], ctx[e]}

Info(o) ==
  CASE o \in Device  -> DeviceInfo(o)
    [] o \in Context -> ContextInfo(o)
    [] o \in Queue   -> QueueInfo(o)
    [] o \in Mem     -> MemInfo(o)
    [] o \in Program -> ProgramInfo(o)
    [] o \in Kernel  -> KernelInfo(o)
    [] o \in Event   -> EventInfo(o)

\* The objects whose fields a query reads.
Reads(o) ==
  CASE o \in Program -> {o, ctx[o]} [] o \in Kernel -> {o, program[o]} [] OTHER -> {o}

Query(o) == Using(Reads(o), UNCHANGED vars)
-----------------------------------------------------------------------------
(***************************************************************************)
(* The functions of cl.cpp.  An application passes handles of live objects *)
(* or NULL, and a function makes any of the handles there have not been.   *)
(***************************************************************************)
Handle(S) == (S \cap Live) \cup {NULL}

DeviceCalls ==
  \/ \E type \in DeviceType, d \in Device \cap New :
       \E u \in getAvailableDevicesByType(type) : GetDeviceIDs(type, d, u)
  \/ \E d \in Device \cap Live : Delete(d) \/ Query(d)

ContextCalls ==
  \/ \E c \in Context \cap New, D \in SUBSET Handle(Device) : CreateContext(c, D)
  \/ \E c \in Context \cap Live : ReleaseContext(c) \/ Query(c)

QueueCalls ==
  \/ \E q \in Queue \cap New, c \in Handle(Context), d \in Handle(Device) :
       CreateCommandQueue(q, c, d)
  \/ \E q \in Queue \cap Live : ReleaseCommandQueue(q) \/ Query(q)

MemCalls ==
  \/ \E m \in Mem \cap New, c \in Handle(Context),
        flags \in {"READ_WRITE", "WRITE_ONLY", "READ_ONLY"},
        in, out \in SUBSET Handle(Kernel) : CreateBuffer(m, c, flags, in, out)
  \/ \E m \in Mem \cap Live : ReleaseMemObject(m) \/ Query(m)

ProgramCalls ==
  \/ \E p \in Program \cap New, c \in Handle(Context), n \in 1 .. MaxBinaries :
       \E ds \in [1 .. n -> Handle(Device)], paths \in [1 .. n -> Path \cup {NULL}] :
         CreateProgramWithBinary(p, c, ds, paths)
  \/ \E p \in Program \cap Live : Delete(p) \/ Query(p)

KernelCalls ==
  \/ \E k \in Kernel \cap New, p \in Handle(Program), path \in Path \cup {NULL} :
       CreateKernel(k, p, path)
  \/ \E k \in Kernel \cap Live : Delete(k) \/ Query(k)
  \/ \E k \in Handle(Kernel) :
       \/ SetKernelArgScalar(k)
       \/ \E m \in Handle(Mem) : SetKernelArgBuffer(k, m)
       \/ \E e \in Event \cap New, m \in Mem \cap Live : SetKernelArgEvent(e, k, m)

EventCalls ==
  \/ \E W \in SUBSET (Event \cap Live) : WaitForEvents(W)
  \/ \E e \in Event \cap Live : Delete(e) \/ Query(e)

TransferCalls ==
  \E e \in Event \cap New, q \in Handle(Queue), m \in Handle(Mem),
     W \in SUBSET Handle(Event) : EnqueueTransfer(e, q, m, W)

TaskCalls ==
  \E e \in Event \cap New, q \in Handle(Queue), k \in Handle(Kernel),
     W \in SUBSET Handle(Event) : EnqueueTask(e, q, k, W)

\* The additional functions to support the MANGO platform.
MangoCalls ==
  \/ \E p \in Handle(Program), path \in Path \cup {NULL} : SetBufferIDs(p, path)
  \/ \E q \in Handle(Queue) : KernelAndBufferAllocation(q)

Call ==
  /\ Running
  /\ \/ DeviceCalls \/ ContextCalls \/ QueueCalls \/ MemCalls \/ ProgramCalls
     \/ KernelCalls \/ EventCalls \/ TransferCalls \/ TaskCalls \/ MangoCalls
     \/ \E q \in Handle(Queue) : Finish(q)
  /\ untidy' <= MaxUntidy

\* The context past, if not NULL, is of an earlier part of the program: it has
\* been released with its other objects, and a kernel of its had the event 0.
InitAfter(past) ==
  /\ life = [o \in Object |-> IF o = past THEN "released" ELSE "new"]
  /\ unit = [d \in Device |-> "STOP"]
  /\ devices = [c \in Context |-> {}]
  /\ queue = [o \in Context \cup Device \cup Event |-> NULL]
  /\ ctx = [o \in UNION {Queue, Program, Mem, Event} |-> NULL]
  /\ device = [o \in Queue \cup Kernel |-> NULL]
  /\ functions = [p \in Program |-> Empty]
  /\ program = [k \in Kernel |-> NULL]
  /\ fn = [k \in Kernel |-> NULL]
  /\ users = [m \in Mem |-> {}]
  /\ tgx = [q \in Queue |-> NULL]
  /\ events = [q \in Queue |-> <<>>]
  /\ of = [e \in Event |-> NULL]
  /\ waiting = {}
  /\ cxt = (IF past = NULL THEN "none" ELSE "deleted")
  /\ first = (IF past = NULL THEN NULL ELSE Earlier)
  /\ known = {} /\ placed = {}
  /\ status = "running"
  /\ untidy = 0

Init == \E past \in Context \cup {NULL} : InitAfter(past)

Spec == Init /\ [][Call]_vars
-----------------------------------------------------------------------------
(***************************************************************************)
(* Properties.                                                             *)
(***************************************************************************)
\* The objects are of the kinds the structures name (host/OpenCL/include).
ClObjTypeOK ==
  /\ life \in [Object -> {"new", "live", "released"}]
  /\ \A d \in Device : life[d] # "new" => unit[d] \in UnitType
  /\ devices \in [Context -> SUBSET (Device \cup {NULL})]
  /\ queue \in [Context \cup Device \cup Event -> Queue \cup {NULL}]
  /\ ctx \in [UNION {Queue, Program, Mem, Event} -> Context \cup {NULL}]
  /\ device \in [Queue \cup Kernel -> Device \cup {NULL}]
  /\ program \in [Kernel -> Program \cup {NULL}]
  /\ users \in [Mem -> SUBSET Kernel]
  /\ \A q \in Queue : ToSet(events[q]) \subseteq Event /\ IsInjective(events[q])
  /\ \A q \in Queue : tgx[q] # NULL =>
       /\ ToSet(tgx[q].kernels) \subseteq Kernel /\ IsInjective(tgx[q].kernels)
       /\ tgx[q].buffers \subseteq Mem
  /\ known \cup placed \subseteq Kernel \cup Mem

\* The assertions a program of whatever order can fail, on what it did not do:
\* to load a binary, to make a kernel or to give it buffers of its unit's type.
Asserted == {"no function", "no graph", "no kernel", "no buffer", "mixed units"}

\* A tidy program follows no pointer to released memory, nor a null pointer but
\* one it passes as an argument, every id it has been given can be looked up, and
\* no query gives it the handle of a released object.  Otherwise it is ended only
\* by what host/OpenCL/src does to every program: an assertion, a start or transfer
\* before the allocation, the allocation of a graph that has a released buffer, or
\* of one queue's graph when another has kernels, the event with id 0 that starting
\* a kernel looks up and that is gone with the first context of the process, and
\* clReleaseCommandQueue, which deletes every queue's graph twice (cl.cpp:214-215).
TidyEnds ==
  untidy = 0 =>
    /\ \/ status \in {"running", "null argument"} \cup Asserted
       \/ status = "not placed" /\ ~ known \subseteq placed
       \/ status = "no register" /\ \E m \in Mem : life[m] = "released"
       \/ status = "stray kernel" /\ \E q, r \in Queue \ New : q # r
       \/ status = "no event 0" /\ \E c \in Context : life[c] = "released"
       \/ status = "graph deleted twice" /\ \E q \in Queue \cap Live : tgx[q] # NULL
    /\ \A o \in Live : Info(o) \subseteq Live

\* The null pointers that end a process, besides those it passes to functions
\* that do not check them, are the queue of a context that was given none, the
\* device of a context that was made with none, and the event of a buffer that
\* another context's creation has made unknown (host/OpenCL/src/clMem.cpp,
\* clKernel.cpp, clCommandQueue.cpp).
NullPointersTraced ==
  status = "null" =>
    \/ \E c \in Context \ New : queue[c] = NULL \/ NULL \in devices[c]
    \/ \E m \in Mem \cap Live : m \notin known

\* With one queue in the process, an allocation that succeeds has placed every
\* kernel and buffer of the context, in whatever order they were made; with
\* two, buffers of the other queue are left out without an error
\* (host/OpenCL/src/clCommandQueue.cpp).
AllocatedAllPlaced ==
  [][\A q \in Queue \cap Live :
       {x \in Queue : life[x] # "new"} = {q} /\ placed' # placed => known \subseteq placed']_vars

\* A kernel can only be assigned to a unit of its device's type: its function
\* has the one image that was loaded for that type, whatever devices its
\* program's binaries were given for (host/OpenCL/src/clProgram.cpp).
RunsOnItsDevice ==
  \A k \in Kernel \cap Live : Targets(fn[k].function) = {unit[device[k]]}
===============================================================================
