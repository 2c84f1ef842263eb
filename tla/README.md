# libmango and its OpenCL wrapper in TLA+

This directory holds TLA+ models of libmango, the TLC configurations that check
them on small instances, and proofs, checked by TLAPS, that their safety
properties hold for every value of the constants. Line references are to `src/`. `PROJECT.json` has the map from definitions
to source lines, the hazards and the mutants.

## 1. The system

libmango offloads kernels to the units of a MANGO cluster. A host program
registers kernels, buffers and events, makes a task graph of them, has it placed
(resource allocation), and then transfers data, starts kernels and waits. The
OpenCL layer offers the same through `cl*` functions.

**There is one synchronisation primitive.** Every event has a hardware register
(TILEREG). Reading a register returns its content *and clears it*; a read of 0
means that nothing is there or that somebody holds the value. Writing stores a
value (the emulated GN cluster) or adds it (the hardware, `mango.h:206`). Locks,
barriers, join, data transfer and kernel completion are all protocols on such
registers. The values are LOCK = 0, READ = 1, WRITE = 2, END_FIFO_OPERATION = 3.

### Components

| Component | Source | State | Operations | What makes it correct |
|---|---|---|---|---|
| Device runtime | `dev/src/mango_hn.c` and the variants in `gn/`, `peak/`, `nuplus/`; `mango_hn_gn.c` | registers of the group, locals of each thread | lock, write, wait, signal, spawn, barrier (with or without FIFO), join, exit, close | Nobody passes a barrier or a join early; everybody passes it eventually; no register value is lost |
| Host events | `host/src/event.cpp` | a register, callback, FIFO thread | read, write, lock, wait, wait_state | A wait consumes exactly the value it waits for |
| Buffers, FIFO channel | `host/src/buffer.cpp` | the thread, its offset, the buffer's content | write, read, synch_write, synch_read | The device never works on a block that is being replaced; every block is seen once, in order |
| Kernel launch | `host/src/context.cpp`, `event.cpp` | running kernels, what BarbequeRTRM has been told | start_kernel, wait, completion callback | Starts and stops are notified in pairs; a wait returns for the run it is about |
| Memory manager | `host/src/mm.cpp`, `tlb.cpp` | virtual address pools, hardware TLBs, TLB objects | set_vaddr_kernels/buffers/events | No address mapped twice; every address a kernel is given leads to its object |
| Context and task graph | `host/src/context.cpp`, `task_graph.cpp`, `mango.cpp` | maps of objects, vectors of the graph, `id_gen` | register, deregister, graph operations, resource allocation | Ids lead to live objects; allocation leaves the registers ready for use |
| OpenCL queue and events | `host/OpenCL/src/clEnqueue.cpp`, `clEvent.cpp`, `clCommandQueue.cpp` | events with a status, a queue of events | clEnqueue{Task,WriteBuffer,ReadBuffer}, clWaitForEvents, clFinish | Wait lists are honoured; a complete event's command has ended; every call returns |
| Kernel functions | `host/src/kernel.cpp`, `host/include/kernel.h` | file name and size of an image per type of unit | load, register, targets of an allocation, image of a start | A kernel is placed only where it has an image, and runs the one loaded last |
| Kernel arguments | `host/src/kernel_arguments.cpp`, `mango.cpp`, `clKernel.cpp`; read by `mango_gn_init`, `mango_peak_init` and the generated entry code | arguments made, their values, the string | make, set, print, parse | What a kernel reads as its i-th parameter is what was passed as the i-th |
| OpenCL objects | `host/OpenCL/src/cl*.cpp` | devices, contexts, queues, programs, kernels, buffers, events and the pointers between them | create, query, release, allocate | No pointer is followed to an object that is not there |
| Profiling, logging, device start-up, code generator, build files | | | | not modelled, see section 7 |

### How they interact

* The application is one thread. It calls the API (`mango.cpp`), which calls the
  context. The OpenCL layer calls the same API.
* A BURST transfer gets a `std::thread` of its own on the host. It and the
  threads of the kernel meet only in the register of the buffer's event.
* A kernel runs on its unit in parallel with everything on the host. It reports
  its end by writing READ to its termination event (`mango_close`).
* Whoever waits for a termination event calls back into the context, which tells
  BarbequeRTRM that the task stopped.
* Resource allocation uses what registration left in the context and the task
  graph, has it placed by BarbequeRTRM, writes the hardware TLBs, and prepares
  the registers.

### What is hard

* **Interleaving.** A lock is a read that takes the value away, and the write
  that gives it back is a separate step. A barrier makes up to eight such steps
  per thread, plus six when it is given a FIFO event, on registers the next
  barrier uses again while slow threads still poll them.
* **Polling with write-back.** A waiter that reads a value it does not want
  writes it back, and meanwhile others see 0. `mango_wait` of the generic runtime
  (`dev/src/mango_hn.c`, which no `CMakeLists.txt` builds) writes the awaited value
  back too; those of `gn`, `peak`, `nuplus` and the host keep it. Whether a protocol
  works depends on which one it uses.
* **Shared registers.** All runs of a kernel share one termination register, all
  transfers of a buffer one buffer register, while the OpenCL layer has an event
  object for each.
* **Failure.** A launch may fail after the resource manager has been told of it.
* **Order of calls.** Registration, graph and allocation may be called in any
  order, and few of the orders work.
* **Lifetime.** The OpenCL objects hold bare pointers to each other, nothing is
  counted (`clRetain*` only print), and there is one global context behind all
  OpenCL contexts.
* **Names read twice.** An image file is opened when it is loaded, to see whether
  it is there, and again by its name at every start.

## 2. The modules

    SynchRegister ─┬─ TaskGroup ─┬─ MCTaskGroup
                   │   │         ├─ TaskGroupProofs ─┐
                   │   │         └─ FifoChannel ── FifoChannelProofs
                   │   └─(implements)─ ForkJoin
                   └─ KernelLaunch ── ClQueue ─┬─ MCClQueue
                                          │    └─ ClQueueProofs
                                          └─(implements)─ Commands
    MemoryManager ─┬─ KernelArguments ─┬─ MCKernelArguments
                   │                   └─ KernelArgumentsProofs
                   └─ MemoryManagerProofs ─┘
    KernelImage ─┬─ KernelFunctions ── KernelFunctionsProofs
                 └─ ClObjects ─┬─ MCClObjects
                               └─ ClObjectsProofs
    Registry ─┬─ MCRegistry
              └─ RegistryProofs

**SynchRegister** is the register: `Take(e)` is a read that returns something,
`Put(e, v)` a write, and `Accumulate` tells adding registers from storing ones.
A read of 0 changes nothing, so a polling loop is a guard on `Take`. That each is
one step is the work of the semaphore around the register accesses.

**TaskGroup** is a kernel's main function and its threads. `pc[p]` is where `p`
is between two register operations and `val[p]` the value it holds. Every
register operation of `mango_hn.c` is an action: a `...Lock` action takes a
value, and the `...Put` action behind it writes. `EnterLock` to `ReleasePut` are
`mango_barrier`, with `SignalLock/SignalPut` for `mango_signal` inside it and
`Fifo...` for the handshake done by the last thread; `Spawn`, `JoinLock/JoinPut`,
`ExitLock/ExitPut` and `Close` are the functions of these names. `Spawn` and the life
of main are those of GN, for `mango_spawn` is an empty stub on PEAK and nuplus.
`WaitRestores` selects the variant of `mango_wait` (TRUE for the generic one, FALSE for
the three that are built), `WithFifo` gives the barriers a FIFO event.
`calls` and `opened` count barriers; they exist for the properties and the bound.

**ForkJoin** is the abstract promise of `mango_hn.h`: threads are forked, run
sections, wait until all have completed theirs, go on, and are joined. There are
no registers in it. `TaskGroup` implements it under the mapping
`Stage`, `Arrived`, `MainStage`, `spawned` (`ImplementsForkJoin`).

**FifoChannel** puts the host beside `TaskGroup`: the thread of
`FIFOBuffer::synch_write` (`Task...`, `CopyBegin`, `CopyEnd`, `Announce`) and the
application (`App...`), which starts a BURST transfer and the kernel and waits
for both, in the order it prefers. A copy has two steps, and between them the
buffer holds parts of two blocks (`mem = 0`).

**KernelLaunch** is `mango_start_kernel` and `mango_wait` as the calling thread
executes them, beside the kernels on their units. `NotifyTaskStart`, `WriteImage`,
`ClearTermination`, `RunKernel` and `SetCallback` are the steps of
`start_kernel`, `LaunchFails` its failures; `WaitRead`, `WaitWriteBack` and
`NotifyTaskStop` those of a wait. What the kernel itself does is external: it
sets its outputs' events to READ and closes.

**ClQueue** adds the OpenCL queue. `place` is where the calling thread is in a
call, `events` are the `_cl_event` objects, `done` those whose status is
complete, `queue` is `command_queue->events`. A command runs inside the call that
enqueues it, after `cl_wait_for_events`; `clFinish` pops the queue from its end.

**Commands** is the abstract promise of a queue: a command begins when all of its
wait list is complete, an event is complete only after its command has ended, and
`clWaitForEvents` and `clFinish` return when the listed events, or all, are. It has no
registers, no launch and no queue. `ClQueue` implements it (`ImplementsCommands`): a
command has begun once its kernel runs (`RunKernel`) or its copy goes on
(`Transfer`), before its event exists (`PromisedBegun`, `PromisedActive`); a task ends
in `KernelCloses`, and `SetStatus` completes an event. All other steps stutter.

**MemoryManager** is the three `set_vaddr_*` functions, one loop iteration per
action, in any order within a function. `tlb` is the hardware TLB of each
kernel's unit, `vbuffer` and `vevent` the kernel's TLB object. If all units are
emulated, `MM_GN` is used (`Simulated`), and the entry of the image is set all the same,
for an image of size 0. The regions of `mm.cpp` are parameters.

**KernelArguments** follows a value from `clSetKernelArg` to the kernel, on top of
the addresses that `MemoryManager` gives out: `SetScalar`, `SetBuffer` and `SetEvent`
append to `args`, whatever the index is; `SetArgs` is `mango_set_args`, which puts the
kernel's own events first and looks up every address; `StartKernel` prints the
words (`Words`), of which each is a number and the base it is printed in, for
`std::hex` stays in force; `OwnEventRead` and `Parameter` are what the runtime and
the generated entry code read with `strtol`. The application calls nothing while an
allocation runs, so its steps come before or after those of `MemoryManager`.

**KernelImage** is `KernelFunction`: two maps, `version` and `size`, that a load which
fails half way leaves with different domains. **KernelFunctions** is their life:
`LoadKernel`, `RegisterKernel`, `ResourceAllocation` and `StartKernel`, beside a
`FileSystem` that creates and removes files. A start whose file has gone ends the
process (`context.cpp:489`). The history variables `opened` and
`owed` remember the last file that a load opened, and the units whose last load
failed to open its file.

**ClObjects** is the rest of the OpenCL layer. Every function of `cl.cpp` that is
implemented is one action: of the objects it keeps the fields that lead to other
objects (`devices`, `queue`, `ctx`, `device`, `functions`, `program`), and of the host
library the global context (`cxt`, `known`), the graph of a queue and what has been
placed. `Using(S, Effect)` is an effect that follows pointers to all of `S`: where
one is NULL or its object released, the process ends, and `status` says why. Wherever
a function takes a handle, a list of handles or a name, the application may pass
NULL; a function that does not check says so with `UnlessPassedNull`, whose status is
"null argument". `InContext` and `Known` do the same for the global context and its maps. Kernel
functions come from `KernelImage`. A call that is refused changes nothing.

**Registry** is the context: registration, deregistration, the task graph and
resource allocation, one action per API function. Objects are told apart by their
first event id; the vectors of the graph are bags, since adding appends whatever
is there. `status` says which assertion, or which other error, ended the process.

## 3. What is checked

The state counts are those of distinct states.

| Run | Instance | What it shows |
|---|---|---|
| `group_work` (23 286) | 4 threads, 3 barriers, 2 groups, FIFO, adding registers, generic `mango_wait` | `OneHolder`, `BarrierSafety`, `JoinSafety`, `WritesFindZero` and the inductive invariant `IInv`, of which `TypeOK` is a part; every barrier opens for everybody, the kernel terminates, and the protocol implements `ForkJoin` |
| `group_gn_stuck` | 3 threads, 1 barrier, the `mango_wait` of gn, peak and nuplus | **violation** of `BarrierOpens` |
| `fifo_transfer` (14 394) | 3 threads, 3 blocks, both orders of waiting, generic `mango_wait` | `BlockInPlace`, `FifoOneOwner`, `WaitMeansTransferred`, `KernelFirstCompletes` |
| `fifo_gn_stuck` | 1 thread, 2 blocks, the `mango_wait` of gn, peak and nuplus | **violation** of `KernelFirstCompletes`: not even the first transfer ends |
| `fifo_again` | the same buffer written a second time, generic `mango_wait` | **violation** of `KernelFirstCompletes` |
| `cl_queue` (362 697) | pipeline of 2 kernels and 3 buffers, 4 commands, two transfers of a buffer, launches may fail | `NoOverlap`, `CompleteMeansEnded`, `FinishMeansIdle`, `TaskAccounting`, `CallsReturn`; the queue implements `Commands` |
| `cl_transfers` | two transfers of one buffer | **violation** of `EveryCallReturns` |
| `cl_restart` | adding registers, a kernel started again without a wait | **violation** of `CompleteMeansEnded` |
| `mm_regions` (465 080) | 2 kernels, 3 buffers, 5 events, 2 sizes, all architectures, 2 arguments | `TlbDisjoint`, `BuffersResolve`, `EventsResolve`, `ArgumentsArrive`, `AddressesKnown` |
| `kernel_images` (152 364) | 1 function, 1 kernel, 2 files that come and go, every type of unit and file | `OrderlyLoadsRun`, `PlacedWhereLoaded`, `StartsTheLoadedImage` |
| `cl_objects` (1 596 947, with symmetry) | 2 contexts, and 2 devices, 2 queues, 2 events or an untidy call; 1 each of the other objects, a binary that is there and one that is not | `TidyEnds`, `NullPointersTraced`, `RunsOnItsDevice`, `AllocatedAllPlaced` |
| `registry` (674 160, with symmetry) | 2 kernels, 2 buffers, 5 event ids | `HandlesResolve`, `OrderlyProgramsRun`, `AllocationPrepares` |

### The properties in words

* `OneHolder`: a register value is a token. Who holds it is alone, and the
  register reads 0 meanwhile. This makes each lock/write pair a critical section.
* `BarrierSafety`: nobody is past its k-th barrier before all have arrived there.
* `JoinSafety`: when main runs, no thread of the group will touch a register.
* `WritesFindZero`: apart from `mango_spawn`, every write finds 0. So storing and
  adding registers behave alike, and no write destroys a value unseen.
* `BlockInPlace`: behind its k-th barrier a thread finds block k, whole.
* `FifoOneOwner`: host and device never own the buffer's register together.
* `WaitMeansTransferred`: who waits for the kernel and then for the buffer finds
  everything transferred. `KernelFirstCompletes`: it gets there. That is so for one
  transfer on a device with the generic `mango_wait`, and for no other: `fifo_gn_stuck`
  refutes it for the runtimes that are built, `fifo_again` for a second transfer.
* `NoOverlap`: given wait lists that name the dependencies, no copy touches a
  buffer that a running kernel uses, and no two running kernels share a buffer.
* `CompleteMeansEnded`: a complete task event is about a run that has ended.
* `FinishMeansIdle`: after `clFinish` nothing runs and no event is open.
* `TaskAccounting`: BarbequeRTRM never counts a running kernel as stopped, and
  counts none as running after everything was waited for.
* `CallsReturn`: every call of the queue returns, unless it waits for one of several
  transfers of a buffer and another wait has taken the value (`Starved`).
  `EveryCallReturns` makes no such exception, and `cl_transfers` refutes it.
* `ImplementsCommands`: a command begins only after the commands of its wait list have
  ended, and waiting and finishing return only after what they wait for.
* `TlbDisjoint`, `BuffersResolve`, `EventsResolve`: addresses are unique, and lead
  to the object they were given for.
* `ArgumentsArrive`: what a kernel reads for its i-th parameter leads, through its
  TLB, to the buffer or register the i-th argument was made from, or is the number
  that was passed, as far as 32 bits (31 on PEAK) hold it. This rests on the events
  of the kernel being printed first: they switch the stream to hexadecimal, and
  every word is read as hexadecimal.
* `AddressesKnown`: setting arguments after an allocation throws only for a buffer or
  event that the kernel was not registered with.
* `OrderlyLoadsRun`, `PlacedWhereLoaded`: a start always finds a name for its unit
  (the file of that name may have gone since, which ends the process); a kernel is placed only where an image has been opened (or on a DCT); the assertion
  on the lengths of the maps fails only after a load that could not open its file.
* `StartsTheLoadedImage`: a start writes the image last loaded for the unit, unless
  the last load failed: that one replaces the name although it reads nothing.
* `TidyEnds`: a tidy program keeps one context at a time, gives it a queue first and
  releases objects after those made from them. Of null pointers it follows only those
  it passes itself, to released memory none but the graph of its queue; every id it
  has been given is known, and no query gives it a dangling handle. The property lists
  the ends it may come to, with what each takes:
  a NULL passed to a function that does not check (`cl.cpp:1111`, 1128, 1143, the
  lists of `clEnqueue.cpp:18`, `clMem.cpp:13`, `clProgram.cpp:54`, `clKernel.cpp:109`);
  the assertions of what it has not done (no function, no graph, no kernel, no
  buffers, kernels of mixed units); a start or transfer of something that was never
  placed; the allocation of a graph whose buffer has been released; that of one
  queue's graph when another queue has kernels; starting a kernel after the first
  context of the process has gone, because `mango_start_kernel` looks up event 0
  (`mango.cpp:400`); and `clReleaseCommandQueue`, which deletes the graph of every
  queue twice (`cl.cpp:214-215`), after which the process ends or goes on.
* `NullPointersTraced`: where the null pointers come from that end a process and were
  not passed by it: the queue of a context without one, a NULL in the list of
  devices a context was made with (`clCommandQueue.cpp:24`), and a buffer that another
  context has made unknown.
* `RunsOnItsDevice`: the one image of a kernel's function is for its device's type.
* `AllocatedAllPlaced`: with one queue, an allocation that succeeds places all.
* `HandlesResolve`: the id given out for a buffer's event stays that of the event
  its transfers use.
* `OrderlyProgramsRun`, `AllocationPrepares`: a program that registers, builds its
  graph and allocates in order meets no assertion, and finds its buffers' events
  at WRITE and its kernels' at 0.

### What the violations mean

1. **Barriers of three or more threads hang on the gn, peak and nuplus runtimes**
   (`gn/mango_hn.c:55`). The first waiter keeps the barrier's colour, and the
   others poll an empty register. The generic runtime writes it back, and none
   of the build files compiles that one.
2. **A FIFO transfer hangs there with any number of threads**
   (`gn/mango_hn.c:95-96`). `mango_wait(fifo, READ)` keeps the READ, and the
   `mango_lock(fifo)` of the next line polls the empty register for ever. So what
   `fifo_transfer` shows of a transfer's end, it shows of the generic runtime.
3. **With the generic runtime a FIFO buffer works once** (`buffer.cpp:132`). Waiting
   for the first transfer leaves the register at 0, and the second transfer waits
   for a WRITE that only the kernel could send, after a block it never gets.
4. **The second transfer of a buffer is waited for in vain** (`clEvent.cpp:33`). The
   first wait takes WRITE from the register of the buffer's event, where only the
   allocation puts it, and the second one polls an empty register, in `clFinish` too.
5. **`write(0)` does not clear an adding register** (`context.cpp:191`). The end of
   a run nobody waited for is taken for the end of the next.

### The bounds, and why they are enough

* **TaskGroup.** With two threads there is one waiter only; three give a leader
  and two waiters that take the value from each other, and four a choice among
  waiters while others still enter. The two colours repeat after two barriers, so
  three barriers show one colour twice, and the second group shows the registers
  taken over from the first. The host of `group_work` (`HostTakes`, `HostAnswers`)
  answers every request; `FifoChannel` has the real one. Barriers without a FIFO event
  leave out its six steps and are in `group_gn_stuck`. The theorems of section 5 remove these bounds.
* **FifoChannel.** Three blocks have a first, a middle and a last. The device's
  number of barriers equals the number of blocks, as the protocol requires. The
  buffer of 2 bytes stands for any size, for the code looks at sizes only through
  `off < global_size` and `off += get_size()`.
* **ClQueue.** Four events are enough for one kernel to run twice beside the other
  one and a transfer. Two transfers of a buffer (`MaxTransfers`) are enough for a wait to
  take the value that another waits for; `CallsReturn` excepts exactly these waits.
* **MemoryManager.** The sizes are one just above the alignment and one of which
  two fill the region of PEAK and three do not fit. The regions are those of
  `mm.cpp` divided by 2^16; only their order and the ends of the buffers matter. The
  theorems remove the bounds. One event stands for the four of a kernel.
* **KernelArguments.** Two arguments (`MaxArgs`) give an event its buffer and a scalar
  something in front of it. The scalars are one that a long of every unit holds, one
  of more than 31 bits and one of more than 32, for `Word` (2^16 for 2^32).
* **KernelFunctions.** One function with two files can hold, miss or lose any image.
  Functions do not interact, and a kernel points at one of them.
* **ClObjects.** Two contexts show what a second one does to the first, and one of
  them may have been released already when the run begins (`InitAfter`). Two devices
  can be of two types, in one context or in two. `MaxBinaries = 2` lets a path come
  twice. `MaxUntidy` bounds the untidy calls of a program at one: it shows what each
  of them leads to. `Narrow` keeps the instance small: a second queue goes with one
  device and one event, and so does an untidy call; a second device goes with one
  event, and a second event with one device. The theorems have none of these bounds,
  and cover what the run leaves out: any combination of these.
* **Registry.** Five event ids let every kind of id be registered twice and a
  buffer be registered again after it was deregistered. Two entries in a vector
  let one be a repetition. A kernel has one task event here and three in
  `kernel.cpp`; the code treats them alike.
* **Symmetry** is used for safety only: ids of kernels and of buffers in `registry`,
  handles in `cl_objects`. Nothing orders these values.

`CHECK_DEADLOCK FALSE` appears in the runs `group_gn_stuck`, `fifo_gn_stuck`,
`fifo_again` and `cl_transfers`, whose subject is a system that stops; in `cl_queue`,
where the wait for a second transfer may stand still, and `CallsReturn` says that
nothing else does; and in `cl_objects`, where a process that has been ended calls
nothing any more.
Elsewhere a system that has ended takes an explicit stuttering step (`Exited`,
`Finished`, `Crashed`, `Done`, `Ended`), so any other standstill is reported.

### Fairness

* **Device threads and main** (`TaskGroup`): strong fairness of each. A poller
  finds its register empty whenever another poller holds the value, so its step
  is enabled again and again and not continuously. The code justifies strong
  fairness by preemptive scheduling, by a semaphore that serialises accesses, and
  by the pause a poller makes after putting a value back (`mango_gn_suspend`).
* **Host threads** (`FifoChannel`): strong fairness, since they call
  `std::this_thread::yield` between putting a value back and reading again.
* **Calling thread and units** (`ClQueue`): weak fairness. A wait's read and its
  write-back alternate in one disjunction, and nobody else empties the register.
* **Not assumed:** that the application asks for anything. `Ask` is unfair, and
  so is a failure.

## 4. Assumptions about the users of the code

They are what the interface asks for; a hazard is listed where nothing checks it.

* All threads of a group call the same number of barriers, and with a FIFO event
  there is one barrier per block.
* The application is one thread (the maps of `Context` have no lock).
* A wait list names the unfinished tasks that the command depends on. A kernel is
  started again only after its last run is in the wait list, except in
  `cl_restart`.
* A kernel sets the events of its output buffers to READ (external code).
* One kernel per unit, one task graph and allocation at a time, and all units GN
  or none (a mixture runs into the assertion at `mm.cpp:121`).
* Buffers and events name kernels of the graph when they are registered; ids
  passed to the API were registered.
* Handles passed to the OpenCL functions, in lists too, are NULL or those of objects
  that have not been released; the object to release, or to ask about, is one that
  there is. The definitions `Tidy` and `MadeFrom` say what a tidy program is.
* The library is built with its assertions, as with `BUILD_TYPE` Debug. Any other value
  gives a Release build (`CMakeLists.txt:17-23`), for which CMake's own flags define
  NDEBUG: what an assertion stops here goes on there with what it asserted away.
* An event argument is given the index of an argument that has been made.
* `Fits`, in `TlbDisjoint`: the buffers of a kernel fit their region. Nothing in
  the code checks this.

Undefined behaviour is a choice over outcomes: the address of an event that was
never placed may be 0 (an assertion ends the process) or that of any register
(`status = "wild write"`, not followed further).

## 5. What is proved

TLAPS proves the following for every value of the constants. The proofs use the
assumptions named in the modules and nothing else: for `TaskGroup` that `Thread` is
finite and does not contain `Main`, that `Barriers` and `Groups` are naturals, and
that the switches are Booleans; for `ClQueue` that kernels and buffers differ, that
an output of a kernel is one of the buffers it uses, and, as a hypothesis of each
theorem, `~ RestartUnwaited`; for `MemoryManager` the `LayoutAssumption` (no two
regions of a unit overlap, registers have offsets inside theirs) and the
`GraphAssumption`; for `KernelFunctions` that "no function", "no unit" and "no file"
are not among the functions, units and files; for `FifoChannel` those of `TaskGroup`,
that buffer and blocks have a size, and two hypotheses named below; for `Registry`
that its bounds are naturals, with at least one event id; for `KernelArguments` those
of `MemoryManager`, that words and longs have a size, and that a kernel has at least
one event of its own and is one of the kernels of each; for `ClObjects` that handles
of different kinds differ and NULL is none of them.
`Kernel`, `Buffer`, `Event`, `Function`, `File` and the sets of handles may even be
infinite.

**TaskGroupProofs** - any number of threads, barriers and groups, both variants of
`mango_wait`, both kinds of register, with and without FIFO:

| Theorem | Statement |
|---|---|
| `Invariant` | `Spec => []IInv` |
| `TypeCorrect` | `Spec => []TypeOK`: in particular the counters never go below zero |
| `TokensAreExclusive` | `Spec => []OneHolder` |
| `BarrierIsSafe` | `Spec => []BarrierSafety` |
| `JoinIsSafe` | `Spec => []JoinSafety` |
| `NoValueIsLost` | `Spec => WritesFindZero` |
| `Refinement` | `Spec => ImplementsForkJoin` |

`BarrierSafety` alone is not inductive: it says nothing of why the thread that
opens the barrier may do so. `IInv` adds what the registers mean. `event_b` is 0 or
one more than the number of threads not yet at the barrier, `event_a` the same for
exits (`Counters`); `event_r` is 0 or the colour of the last opening, and each
thread in a barrier waits for its own barrier's colour (`Colours`); all threads are
at the next barrier or have just left the last one (`Progress`); while one thread
leads, all others wait (`Leader`); nobody runs beside serial code (`Lifecycle`).
There is a lemma per action, and `NextInv` puts them together. The lemmas that
carry the argument are `ThreadCount` (a thread that counts itself in changes the
cardinality by one), `CountersPositive` (what the counters hold is at
least 1 even after the last signal and the last exit, so a counter at rest never
looks locked), and
`PutFree` (on a register at 0, storing and adding are the same), which makes one
proof serve both kinds of register.

The refinement maps `EnterLock` to `ReleasePut` to steps of `ForkJoin`. The point
where a thread has arrived is `SignalPut`; the point where it may go on is where it
takes or has written the new colour. All other steps stutter. The safety results
hold for the gn variant too: it stops too often, and never lets anybody through
early.

**MemoryManagerProofs** - any kernels, buffers, events, sizes and layouts:

| Theorem | Statement |
|---|---|
| `Invariant` | `Spec => []IInv` |
| `TypeCorrect` | `Spec => []TypeOK` |
| `TlbIsDisjoint` | `Spec => []TlbDisjoint` |
| `BuffersAreResolved` | `Spec => []BuffersResolve` |
| `EventsAreResolved` | `Spec => []EventsResolve` |

The invariant says what each entry of a TLB is: the image's, the window on the
registers, or a buffer's between `SharedBase` and the pool (`EntriesInv`); that
buffers with higher entry numbers lie at higher addresses (`RisingInv`); that the
pool never lies before `SharedBase`, nor the next entry before `ENTRY_START`
(`PoolInv`); and which address leads to which
entry (`ResolveInv`, `GivenInv`, `WindowInv`). Disjointness then follows: buffers
rise, the pool ends the region when `Fits` holds, and `LayoutAssumption` keeps the
three regions apart. `AlignedGrows` is the arithmetic fact that rounding up to 64
never goes down.

**ClQueueProofs** - any kernels, buffers and numbers of commands, both kinds of
register, launches that fail or not. The hypothesis is that an application waits for
a kernel before it starts it again; `cl_restart` shows that it is needed.

| Theorem | Statement |
|---|---|
| `Invariance` | `ClSpec => []IInv` |
| `TypeCorrect` | `ClSpec => []ClTypeOK` |
| `OverlapIsExcluded` | `ClSpec => []NoOverlap` |
| `CompleteTasksEnded` | `ClSpec => []CompleteMeansEnded` |
| `FinishLeavesIdle` | `ClSpec => []FinishMeansIdle` |
| `TasksAreAccounted` | `ClSpec => []TaskAccounting` |
| `Refinement` | `ClSpec => ImplementsCommands` |

None of these properties says whose end the value in a kernel's register is; the
invariant does. A run of a kernel is `Outstanding` from the moment its unit runs until
a wait has taken its end. Meanwhile either the kernel runs and its register is 0, or it
has ended and the register is READ, once; at all other times the kernel rests and
its register is 0 (`RunInv`). A kernel has at most one unfinished task, its last
run, and unfinished tasks of different kernels share no buffer (`TasksInv`), because
a command's unfinished dependencies are in its wait list as long as the call lasts
(`ListInv`), so that none is left when the list is done (`NothingNeeded`). What is not
complete is in the queue (`QueueInv`), and the resource manager counts a kernel
once from its launch to the end of the wait for it (`NotifyInv`). It follows that who
waits for a kernel never puts a value back (`PlaceInv`), and that the end that answers
the wait is that of the unfinished task. `NextSteps` lists the steps there are, and
there is a lemma per conjunct of the invariant with a case per step.

For the refinement, `Begins`, `Pushes`, `Ends`, `Completes`, `Requests` and
`CallReturns` each show that a step is one of `Commands`. `Ends` is the one that needs
`RunInv`: exactly one active task of the kernel ends.

**KernelFunctionsProofs** - any functions, kernels and files, and files that come and
go at any time:

| Theorem | Statement |
|---|---|
| `Invariance` | `Spec => []IInv` |
| `TypeCorrect` | `Spec => []FnTypeOK` |
| `OrderlyLoads` | `Spec => []OrderlyLoadsRun` |
| `PlacedWell` | `Spec => []PlacedWhereLoaded` |
| `StartsTheLoaded` | `Spec => StartsTheLoadedImage` |

A start looks into `version`, the resource manager into `size`, and a load that fails
half way makes them differ. The invariant (`FnInv`) says how far: what has a size has
a name; what has a name and no size is owed; what has a size has been opened, unless
it is a DCT's; what is not owed has the name that was opened last. With `KernelInv` (a
placed kernel's unit has a size in its function) each theorem is a short step.
`LoadFacts` reduces the loaders to three outcomes (nothing, both maps, the name
alone), and `LoadStep` shows that each keeps `FnInv`. It is the order of the two
entries in the loaders that makes it inductive: with the size entered first
(`LoadBinarySizeFirst`) a kernel can be placed where nothing was opened.

**FifoChannelProofs** - any number of threads, barriers, blocks and transfers, both
variants of `mango_wait`, both kinds of register, both orders of waiting:

| Theorem | Statement |
|---|---|
| `ChannelInvariant` | `OneReader => (ChannelSpec => []CInv)` |
| `ChannelTypes` | `OneReader => (ChannelSpec => []ChannelTypeOK)` |
| `BlocksAreInPlace` | `OneReader => (ChannelSpec => []BlockInPlace)` |
| `FifoHasOneOwner` | `OneReader => (ChannelSpec => []FifoOneOwner)` |
| `WaitsAreForTransfers` | the same for `WaitMeansTransferred`, where every block has a barrier |

`OneReader` says that the barriers have the FIFO event and that one group of threads
reads the buffer: a second group would count its blocks from one again. The last
theorem also assumes `GlobalSize <= Barriers * BufferSize`, for a kernel with fewer
barriers than blocks ends before the last of them. Of the group itself nothing new
has to be proved: the host touches a register of the group only while none of its
threads holds it, so `IInv` of `TaskGroup` is kept (`HostTakes`, `Alone`). What `CInv`
adds is the meaning of the one value in the buffer's register, wherever it is - in
the register or in the hands of a host or device thread that will write it back
(`Value`). WRITE means that the block behind the last barrier is done with, READ that
the next block is there, END_FIFO_OPERATION that it has been accepted (`TokenInv`); no
value at all (`Lost`) means that somebody waited, and that nothing happens any more.
Most steps of the group leave all this alone (`MostStepsQuiet`).

**RegistryProofs** - any sets of ids, numbers of task events and bounds:

| Theorem | Statement |
|---|---|
| `RegInvariant` | `Spec => []RegInv` |
| `RegTypes` | `Spec => []RegTypeOK` |
| `HandlesAlwaysResolve` | `Spec => []HandlesResolve` |
| `OrderlyProgramsAlwaysRun` | `Spec => []OrderlyProgramsRun` |
| `AllocationAlwaysPrepares` | `Spec => AllocationPrepares` |

`HandlesResolve` needs to know why a deregistration never takes away an event that
somebody else uses: no two objects share one (`EventsDistinct`), because registration
draws ids from a counter. `TiedRegistered` says that events name kernels that were
registered, which is what makes an orderly allocation find them all
(`OrderlyGraph`, `OrderlyAllocation`).

**KernelArgumentsProofs** - any kernels, buffers, events, scalars and layouts:

| Theorem | Statement |
|---|---|
| `ArgumentInvariant` | `ArgSpec => []ArgInv` |
| `ArgumentTypes` | `ArgSpec => []ArgTypeOK` |
| `AddressesAreKnown` | `ArgSpec => []AddressesKnown` |
| `ArgumentsAlwaysArrive` | `ArgSpec => [](AddressesFit => ArgumentsArrive)` |

The invariant follows a value backwards: a word of the string is a value in base 16
(`ArgvInv`, since an event of the kernel is printed before any argument), a value is
the address or scalar of its argument (`PassedInv`), and an address is the one meant
for the object, from the invariant of the memory manager (`ExactInv`). `AddressesFit`
says that the addresses a kernel was given are not beyond the largest `long` of its
unit, which `strtol` would return instead. With the layout of `mm.cpp` it is so in
every state that the run `mm_regions` reaches; with any layout it need not be.

**ClObjectsProofs** - any handles and binaries, any number of untidy calls, any order
of the calls of `cl.cpp`:

| Theorem | Statement |
|---|---|
| `ClInvariant` | `Spec => []ClInv` |
| `ClTypes` | `Spec => []ClObjTypeOK` |
| `HowTidyProgramsEnd` | `Spec => []TidyEnds` |
| `NullPointersAreTraced` | `Spec => []NullPointersTraced` |
| `KernelsRunOnTheirDevice` | `Spec => []RunsOnItsDevice` |
| `AllocationPlacesAll` | `Spec => AllocatedAllPlaced` |

The invariant has a part for every program and one for tidy ones. Whatever has been
released, a pointer leads to an object that has existed, a kernel's device is one of
its context's, and where a context has a queue its devices have one (`PointerInv`): so
a pointer to a queue is null only where the context has none. Every kernel, and every
buffer the context knows, is in the graph of some queue (`GraphInv`), which is why only
a second queue leaves a kernel out of an allocation. A program that has been
tidy so far has one context, whose devices have the context's queue, and all pointers
of live objects lead to live ones (`TidyObjects`); it keeps this because it creates
from live objects (`TidyGrowth`) and releases only what no live object was made from
(`TidyShrink`). There is a lemma per function of `cl.cpp`. Each end of the process is
traced to the part of the invariant that allows it, or forbids it in a tidy program
(`Blamed`, `CrashInv`). What `getAvailableDevicesByType` returns is a set in the model,
because the application uses one entry of the array.

## 6. What is only model-checked

* **Liveness** (`BarrierOpens`, `Terminates`, `KernelFirstCompletes`, `CallsReturn`):
  TLAPS does not prove liveness under fairness, nor facts about ENABLED. What
  `KernelFirstCompletes` and `CallsReturn` leave out is refuted by `fifo_gn_stuck`,
  `fifo_again` and `cl_transfers`.
* **That addresses fit a `long`**: `ArgumentsArrive` is proved under `AddressesFit`;
  the run `mm_regions` checks it without, for the layout of `mm.cpp` and its sizes.

Transfers to several groups of threads are neither checked nor proved about:
`fifo_transfer` and the theorems about `FifoChannel` have one group.

Every invariant and action property of the passing runs is stated by a theorem, under
the hypotheses named in section 5. `KernelLaunch` is proved about as part of `ClQueue`.

Induction over data and RECURSIVE operators are beyond the installed provers. No
module declares a RECURSIVE operator; `Registry` uses the standard module `Bags`.

## 7. What is not modelled

| Part | Why |
|---|---|
| `FIFOBuffer::synch_read` | It waits for READ and answers WRITE. The only FIFO operation of the device runtime, `mango_barrier`, waits for READ too, so the other side of a read is a kernel that this repository does not have |
| Extent of a copy | The channel counts blocks; that the last one is copied whole (`buffer.cpp:136`) is a hazard without a property |
| Argument words of nuplus and DCT kernels | `mango_nuplus_init` keeps pointers to the words and `mango_nuplus_atox` has no caller; a DCT has no code |
| Several task graphs, `operator-=`, `mango_resize_memory` | No caller uses the second, the third is `assert(false)`; the first is planned |
| Functions of `cl.cpp` that print that they are not implemented | They change nothing |
| Device start-up, mapping of shared memory | Sequential set-up |
| Profiling, logging, debugging | They observe only |
| Kernel entry generator, apart from the words its code reads | Text processing at build time |
| Build files, vendored headers | No run-time logic of the library |
| HN library, BarbequeRTRM | External: their registers, TLB and placement are modelled as `src/` uses them |

Hazards that no property covers are listed with the reason in `PROJECT.json`:
waiting for a FIFO buffer before its kernel may consume END_FIFO_OPERATION that
belongs to a block in the middle (`event.cpp:52`); a second transfer replaces a
thread nobody has joined (`event.h:100`); the last block (`buffer.cpp:136`); a second
allocation drains the first graph's registers (`mango.cpp:229`); buffers that are too
large for their region (`mm.cpp:144`); a failed launch ends the process after the
resource manager was told (`context.cpp:489`); an argument set twice shifts the
others (`clKernel.cpp:139`). Smaller ones, which
one look at the line settles: a DIRECT copy is as long as the caller says
(`buffer.cpp:74`); a failed copy is logged and announced all the same
(`buffer.cpp:138`); two kernels on one unit overwrite each other's TLB entries
(`mm.cpp:110`); `clCreateContextFromType` throws whatever it finds
(`clContext.cpp:87`); a scalar of an unknown size is read with 4 bytes
(`clKernel.cpp:92`); the copy of the argument string that is logged may have no end
(`context.cpp:180`); `clSetInputBufferIDs` and `clSetOutputBufferIDs` end without a
return statement (`cl.cpp:1121`, 1138).

## 8. Plan

Done, in this order, from the primitive that everything rests on upwards:
registers and work groups with their abstract promise; the FIFO channel on top of
them; launch and OpenCL queue; memory manager; registration and allocation; the
proofs of work group and memory manager; kernel images; arguments on top of the
memory manager; the OpenCL objects; the abstract command queue and the proofs of the
OpenCL queue; the proofs of the kernel functions; those of the FIFO channel, the
registry, the arguments and the OpenCL objects.

Next, extending the model:

1. Several task graphs and a second allocation in `Registry`.
2. The index of an argument in `KernelArguments`, and setting one twice.

Next, proving more:

1. `AddressesFit` from the regions of `mm.cpp`, so that `ArgumentsArrive` needs no
   hypothesis: an assumption on the layout, and that a kernel's buffers fit (`Fits`).
2. An abstract specification of a transfer (blocks written, seen, replaced) that
   `FifoChannel` implements, from `CInv`.

## 9. Running it

    tlc -workers 2 -config group_work.cfg MCTaskGroup.tla
    tlc -workers 2 -config fifo_transfer.cfg FifoChannel.tla
    tlc -workers 4 -config cl_objects.cfg MCClObjects.tla
    tlapm TaskGroupProofs.tla
    tlapm MemoryManagerProofs.tla
    tlapm ClQueueProofs.tla
    tlapm KernelFunctionsProofs.tla
    tlapm FifoChannelProofs.tla
    tlapm RegistryProofs.tla
    tlapm KernelArgumentsProofs.tla
    tlapm ClObjectsProofs.tla

`PROJECT.json` names the module of every configuration. Each property has a
mutant there as well: a change of one definition, of the kind a bug in that code
would be, under which TLC finds the property violated.
