----------------------------- MODULE FifoChannel -----------------------------
(***************************************************************************)
(* A BURST transfer from the host to a kernel.  The host's mango_write on  *)
(* a FIFO buffer starts a thread (FIFOBuffer::synch_write) that copies the *)
(* GN-side area into the buffer one buffer size at a time; the threads of  *)
(* the kernel ask for each block with mango_barrier(args, fifo) and work   *)
(* on it in the section behind that barrier.  The two sides meet only in   *)
(* the register of the buffer's event, "fifo".                             *)
(*                                                                         *)
(* The device side is TaskGroup.  This module adds the host's two threads: *)
(* the application and the FIFO thread.                                    *)
(***************************************************************************)
EXTENDS TaskGroup

CONSTANTS
  GlobalSize,      \* global_size of mango_write: the size of the GN-side area
  BufferSize,      \* get_size(): the size of the HN buffer
  Transfers,       \* how many times the application writes and runs the kernel
  Orders           \* whose event it may wait for first, "kernel" or "buffer"

ASSUME SizeAssumption ==
  /\ GlobalSize \in Nat \ {0} /\ BufferSize \in Nat \ {0}
  /\ Transfers \in Nat /\ Orders \subseteq {"kernel", "buffer"}

VARIABLES
  hpc,       \* where the two host threads are
  hval,      \* the register value each holds, 0 when it holds none
  off,       \* synch_write's local off
  mem,       \* the HN buffer: the number of the block it holds, 0 when none
  transfers, \* how many transfers the application has started
  first      \* whose event it waits for first, this time

hostVars == <<hpc, hval, off, mem, transfers, first>>
allVars == <<vars, hostVars>>

deviceVars == <<pc, val, go, calls, spawned, opened>>

Host == {"app", "fifo_task"}
-----------------------------------------------------------------------------
(***************************************************************************)
(* One iteration of Event::wait_state, in two halves.  A value that is not *)
(* the awaited one is written back; the awaited one is consumed.           *)
(***************************************************************************)
HostGoto(h, from, to) ==
  /\ hpc[h] = from
  /\ hpc' = [hpc EXCEPT ![h] = to]

PutsBack(value, state) == value # state

HostWait(h, e, state, waiting, holding, done) ==
  /\ HostGoto(h, waiting, IF PutsBack(reg[e], state) THEN holding ELSE done)
  /\ Take(e)
  /\ hval' = [hval EXCEPT ![h] = IF PutsBack(reg[e], state) THEN reg[e] ELSE 0]
  /\ UNCHANGED deviceVars

HostPut(h, e, waiting, holding) ==
  /\ HostGoto(h, holding, waiting)
  /\ Put(e, hval[h])
  /\ hval' = [hval EXCEPT ![h] = 0]
  /\ UNCHANGED deviceVars
-----------------------------------------------------------------------------
(***************************************************************************)
(* FIFOBuffer::synch_write.  While hn_write_memory runs the buffer holds   *)
(* parts of two blocks (mem = 0).                                          *)
(***************************************************************************)
TaskWait ==
  /\ off < GlobalSize
  /\ HostWait("fifo_task", "fifo", WRITE, "wait", "waitPut", "copy")
  /\ UNCHANGED <<off, mem, transfers, first>>

TaskWaitPut ==
  /\ HostPut("fifo_task", "fifo", "wait", "waitPut")
  /\ UNCHANGED <<off, mem, transfers, first>>

CopyBegin ==
  /\ HostGoto("fifo_task", "copy", "copying")
  /\ mem' = 0
  /\ UNCHANGED <<hval, off, transfers, first, reg, deviceVars>>

CopyEnd ==
  /\ HostGoto("fifo_task", "copying", "announce")
  /\ mem' = off \div BufferSize + 1
  /\ UNCHANGED <<hval, off, transfers, first, reg, deviceVars>>

Announce ==
  /\ HostGoto("fifo_task", "announce", "wait")
  /\ Put("fifo", READ)
  /\ off' = off + BufferSize
  /\ UNCHANGED <<hval, mem, transfers, first, deviceVars>>

TaskReturn ==
  /\ off >= GlobalSize
  /\ HostGoto("fifo_task", "wait", "returned")
  /\ UNCHANGED <<hval, off, mem, transfers, first, reg, deviceVars>>
-----------------------------------------------------------------------------
(***************************************************************************)
(* The application: mango_write in BURST mode, mango_start_kernel, and     *)
(* mango_wait for the kernel's and for the buffer's event, in some order.  *)
(***************************************************************************)
\* FIFOBuffer::write starts the thread.  The previous one has been joined.
AppWrite ==
  /\ transfers < Transfers
  /\ hpc["app"] = "write" /\ hpc["fifo_task"] = "none"
  /\ hpc' = [app |-> "start", fifo_task |-> "wait"]
  /\ off' = 0
  /\ transfers' = transfers + 1
  /\ UNCHANGED <<hval, mem, first, reg, deviceVars>>

\* Context::start_kernel clears the termination event and runs the kernel,
\* a new process that has not spawned anything yet.
AppStart ==
  /\ first' \in Orders
  /\ HostGoto("app", "start", first')
  /\ Put("event_exit", 0)
  /\ Goto(Main, "closed", "serial")
  /\ spawned' = 0
  /\ UNCHANGED <<hval, off, mem, transfers, val, go, calls, opened>>

\* mango_wait on the kernel's termination event; only the kernel writes it,
\* and it writes READ.
AppWaitKernel ==
  /\ HostWait("app", "event_exit", READ, "kernel", "kernel",
              IF first = "kernel" THEN "buffer" ELSE "write")
  /\ UNCHANGED <<off, mem, transfers, first>>

\* mango_wait on the buffer's event: wait for the FIFO to end, then join.
AppWaitBuffer ==
  /\ HostWait("app", "fifo", END_FIFO_OPERATION, "buffer", "bufferPut", "join")
  /\ UNCHANGED <<off, mem, transfers, first>>

AppWaitBufferPut ==
  /\ HostPut("app", "fifo", "buffer", "bufferPut")
  /\ UNCHANGED <<off, mem, transfers, first>>

AppJoin ==
  /\ hpc["app"] = "join" /\ hpc["fifo_task"] = "returned"
  /\ hpc' = [app |-> IF first = "kernel" THEN "write" ELSE "kernel", fifo_task |-> "none"]
  /\ UNCHANGED <<hval, off, mem, transfers, first, reg, deviceVars>>
-----------------------------------------------------------------------------
ChannelInit ==
  /\ InitWith("closed")
  /\ hpc = [app |-> "write", fifo_task |-> "none"]
  /\ hval = [h \in Host |-> 0]
  /\ off = 0
  /\ mem = 0
  /\ transfers = 0
  /\ first = "kernel"

TaskStep ==
  \/ TaskWait \/ TaskWaitPut \/ CopyBegin \/ CopyEnd \/ Announce \/ TaskReturn

AppStep ==
  \/ AppWrite \/ AppStart \/ AppWaitKernel
  \/ AppWaitBuffer \/ AppWaitBufferPut \/ AppJoin

\* The application has made all its transfers.
Finished ==
  /\ hpc["app"] = "write" /\ transfers = Transfers
  /\ UNCHANGED allVars

ChannelNext ==
  \/ DeviceStep /\ UNCHANGED hostVars
  \/ TaskStep
  \/ AppStep
  \/ Finished

ChannelSpec == ChannelInit /\ [][ChannelNext]_allVars

\* The host threads yield between putting a value back and reading again
\* (std::this_thread::yield), and the device threads are as in TaskGroup.
ChannelFairness ==
  /\ SF_allVars(MainStep /\ UNCHANGED hostVars)
  /\ \A t \in Thread : SF_allVars(ThreadStep(t) /\ UNCHANGED hostVars)
  /\ SF_allVars(TaskStep)
  /\ SF_allVars(AppStep)

FairChannelSpec == ChannelSpec /\ ChannelFairness
-----------------------------------------------------------------------------
(***************************************************************************)
(* Properties.                                                             *)
(***************************************************************************)
ChannelTypeOK ==
  /\ TypeOK
  /\ hpc["app"] \in {"write", "start", "kernel", "buffer", "bufferPut", "join"}
  /\ hpc["fifo_task"] \in
       {"none", "wait", "waitPut", "copy", "copying", "announce", "returned"}
  /\ hval \in [Host -> Nat]
  /\ off \in Nat /\ mem \in Nat /\ transfers \in 0..Transfers
  /\ first \in {"kernel", "buffer"}

\* While a thread of the kernel works in the section behind its k-th barrier
\* the buffer holds the k-th block, whole: the host never writes the buffer
\* under a thread that is still reading it, and no block is skipped,
\* repeated or seen half copied.
BlockInPlace ==
  \A t \in Thread : pc[t] = "section" /\ calls[t] > 0 => mem = calls[t]

\* The FIFO register has one owner, across host and device: while the FIFO
\* thread copies, or a host thread puts a value back, nobody on the device
\* holds the register and it reads 0.
FifoOneOwner ==
  LET hostOwns(h) == CASE h = "fifo_task" -> hpc[h] \in {"waitPut", "copy", "copying", "announce"}
                       [] h = "app" -> hpc[h] = "bufferPut" IN
  \A h \in Host : hostOwns(h) =>
    /\ reg["fifo"] = LOCK
    /\ \A t \in Thread : ~ Holds(t, "fifo")
    /\ \A g \in Host : hostOwns(g) => g = h

\* An application that has waited for the kernel finds, when mango_wait has
\* read END_FIFO_OPERATION from the buffer's event, that the FIFO thread has
\* announced every block and the kernel has accepted every one, so that the
\* thread it goes on to join is about to return.
WaitMeansTransferred ==
  hpc["app"] = "join" /\ first = "kernel" =>
    off >= GlobalSize /\ \A t \in Thread : calls[t] = Barriers

\* "A single mango_write or mango_read will setup the streamed communication"
\* (host/include/mango.h): every transfer an application makes is completed and
\* waited for, if it waits for the kernel before it waits for the buffer.  That is
\* so for one transfer and with WaitRestores, the mango_wait of dev/src/mango_hn.c;
\* with that of gn, peak and nuplus the mango_lock behind mango_wait(fifo, READ)
\* finds nothing to take, and not even the first transfer comes to its end.
AllTransferred == hpc["app"] = "write" /\ transfers = Transfers
KernelFirstCompletes == <>(AllTransferred \/ first = "buffer")
=============================================================================
