---------------------------- MODULE KernelLaunch -----------------------------
(***************************************************************************)
(* Running kernels from the host: mango_start_kernel, mango_wait and       *)
(* mango_wait_state, one step of the calling thread per action, beside the *)
(* kernels that run on their units.  The application is one thread, as the *)
(* maps of Context require.                                                *)
(*                                                                         *)
(* Each kernel has a termination event and each buffer an event; here the  *)
(* kernel and the buffer stand for their events.  The resource manager     *)
(* (BarbequeRTRM) is told when a task starts and stops.                    *)
(***************************************************************************)
EXTENDS SynchRegister, FiniteSets

CONSTANTS
  Kernel,    \* the registered kernels, each mapped to a unit of its own
  Buffer,    \* the registered buffers
  Outputs,   \* Outputs[k]: the buffers whose event k's code sets to READ
  MayFail    \* writing the image or running the kernel may fail

ASSUME LaunchAssumption ==
  /\ Kernel \cap Buffer = {}
  /\ Outputs \in [Kernel -> SUBSET Buffer]
  /\ MayFail \in BOOLEAN

VARIABLES
  place,     \* where the application thread is
  target,    \* the kernel it starts, or the event it waits for
  awaited,   \* the value it waits for
  held,      \* the register value it holds, 0 when it holds none
  run,       \* run[k]: what k's unit does, "none", "working" or "closing"
  started,   \* started[k]: how many runs of k the application has started
  ended,     \* ended[k]: how many runs of k have ended
  notified,  \* notified[k]: the running tasks k the resource manager knows of
  callback   \* callback[k]: k's termination event has its callback

hostVars == <<place, target, awaited, held>>
unitVars == <<run, ended>>
managerVars == <<started, notified, callback>>
launchVars == <<reg, hostVars, unitVars, managerVars>>

Goto(from, to) == place = from /\ place' = to
-----------------------------------------------------------------------------
(***************************************************************************)
(* BBQContext::start_kernel and the Context::start_kernel it calls.        *)
(***************************************************************************)
\* Mutant of NotifyTaskStart: the resource manager is not told.
NotifyTaskStartUntold(k, from) ==
  /\ Goto(from, "load")
  /\ target' = k
  /\ started' = [started EXCEPT ![k] = @ + 1]
  /\ UNCHANGED <<reg, awaited, held, unitVars, notified, callback>>

NotifyTaskStart(k, from) ==
  /\ Goto(from, "load")
  /\ target' = k
  /\ started' = [started EXCEPT ![k] = @ + 1]
  /\ notified' = [notified EXCEPT ![k] = @ + 1]
  /\ UNCHANGED <<reg, awaited, held, unitVars, callback>>

WriteImage ==
  /\ Goto("load", "clear")
  /\ UNCHANGED <<reg, target, awaited, held, unitVars, managerVars>>

ClearTermination ==
  /\ Goto("clear", "run")
  /\ Put(target, 0)
  /\ UNCHANGED <<target, awaited, held, unitVars, managerVars>>

RunKernel ==
  /\ Goto("run", "callback")
  /\ run' = [run EXCEPT ![target] = "working"]
  /\ UNCHANGED <<reg, target, awaited, held, ended, managerVars>>

\* Mutant of SetCallback: the termination event gets no callback.
SetNoCallback ==
  /\ Goto("callback", "started")
  /\ UNCHANGED <<reg, target, awaited, held, unitVars, managerVars>>

SetCallback ==
  /\ Goto("callback", "started")
  /\ callback' = [callback EXCEPT ![target] = TRUE]
  /\ UNCHANGED <<reg, target, awaited, held, unitVars, started, notified>>

\* Context::start_kernel returns a null pointer when writing the image or
\* running the kernel fails, and BBQContext::start_kernel dereferences it.
LaunchFails ==
  /\ MayFail
  /\ place \in {"load", "run"}
  /\ place' = "crashed"
  /\ UNCHANGED <<reg, target, awaited, held, unitVars, managerVars>>

StartStep ==
  WriteImage \/ ClearTermination \/ RunKernel \/ SetCallback \/ LaunchFails
-----------------------------------------------------------------------------
(***************************************************************************)
(* Event::wait_state on the event e, and KernelCompletionEvent::wait,      *)
(* which is wait_state(1) followed by the callback.                        *)
(***************************************************************************)
WaitFor(e, state, from) ==
  /\ Goto(from, "wait")
  /\ target' = e
  /\ awaited' = state
  /\ UNCHANGED <<reg, held, unitVars, managerVars>>

\* Mutant of WaitRead: a single read ends the wait, whatever it returns.
WaitReadOnce ==
  /\ Goto("wait", "woken")
  /\ reg' = [reg EXCEPT ![target] = LOCK]
  /\ UNCHANGED <<target, awaited, held, unitVars, managerVars>>

WaitRead ==
  /\ Goto("wait", IF reg[target] = awaited THEN "woken" ELSE "waitPut")
  /\ Take(target)
  /\ held' = IF reg[target] = awaited THEN 0 ELSE reg[target]
  /\ UNCHANGED <<target, awaited, unitVars, managerVars>>

WaitWriteBack ==
  /\ Goto("waitPut", "wait")
  /\ Put(target, held)
  /\ held' = 0
  /\ UNCHANGED <<target, awaited, unitVars, managerVars>>

NotifyTaskStop ==
  /\ Goto("woken", "awake")
  /\ notified' = IF target \in Kernel /\ callback[target]
                 THEN [notified EXCEPT ![target] = @ - 1] ELSE notified
  /\ UNCHANGED <<reg, target, awaited, held, unitVars, started, callback>>

WaitStep == WaitRead \/ WaitWriteBack \/ NotifyTaskStop
-----------------------------------------------------------------------------
(***************************************************************************)
(* A kernel on its unit (external).  Its code takes the registers of its   *)
(* output buffers and sets them to READ, and mango_close ends it.          *)
(***************************************************************************)
KernelAnnounces(k) ==
  /\ run[k] = "working"
  /\ run' = [run EXCEPT ![k] = "closing"]
  /\ reg' = [e \in Kernel \cup Buffer |-> IF e \in Outputs[k] THEN READ ELSE reg[e]]
  /\ UNCHANGED <<hostVars, ended, managerVars>>

KernelCloses(k) ==
  /\ run[k] = "closing"
  /\ run' = [run EXCEPT ![k] = "none"]
  /\ ended' = [ended EXCEPT ![k] = @ + 1]
  /\ Put(k, READ)
  /\ UNCHANGED <<hostVars, managerVars>>
-----------------------------------------------------------------------------
\* Resource allocation has drained all events and written WRITE into those of
\* the buffers (BBQContext::from_bbque).
LaunchInit ==
  /\ reg = [e \in Kernel \cup Buffer |-> IF e \in Buffer THEN WRITE ELSE LOCK]
  /\ place = "idle"
  /\ target \in Kernel /\ awaited = READ /\ held = 0
  /\ run = [k \in Kernel |-> "none"]
  /\ started = [k \in Kernel |-> 0]
  /\ ended = [k \in Kernel |-> 0]
  /\ notified = [k \in Kernel |-> 0]
  /\ callback = [k \in Kernel |-> FALSE]
=============================================================================
