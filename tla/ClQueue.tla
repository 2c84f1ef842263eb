------------------------------- MODULE ClQueue -------------------------------
(***************************************************************************)
(* The OpenCL layer on top of the launch of kernels: a command queue, its  *)
(* events and their wait lists (host/OpenCL/src/clEnqueue.cpp, clEvent.cpp,*)
(* clCommandQueue.cpp).  A command is executed inside the call that        *)
(* enqueues it; the queue only remembers the events for clFinish.  Several *)
(* events of the queue share one register: all tasks of a kernel its       *)
(* termination event's, all transfers of a buffer that buffer's.           *)
(***************************************************************************)
EXTENDS KernelLaunch, SequencesExt

CONSTANTS
  Uses,             \* Uses[k]: the buffers kernel k reads or writes
  MaxEvents,        \* bound: how many commands the application enqueues
  MaxTransfers,     \* bound: how many transfers of one buffer it enqueues
  RestartUnwaited   \* it may start a kernel again before waiting for it

ASSUME QueueAssumption ==
  /\ Uses \in [Kernel -> SUBSET Buffer]
  /\ \A k \in Kernel : Outputs[k] \subseteq Uses[k]
  /\ MaxEvents \in Nat /\ MaxTransfers \in Nat
  /\ RestartUnwaited \in BOOLEAN

VARIABLES
  events,    \* the _cl_event objects, in the order of their creation
  done,      \* those whose status is not LOCK, by number
  queue,     \* command_queue->events, by number
  command,   \* the call the application is in
  todo,      \* the wait list of that call, by number
  current    \* the event cl_wait_for_events waits for

queueVars == <<events, done, queue, command, todo, current>>
clVars == <<launchVars, queueVars>>
-----------------------------------------------------------------------------
(***************************************************************************)
(* What the application may ask for.  The wait list of a command names the *)
(* unfinished tasks it depends on: those of the same kernel, and those     *)
(* that use a buffer it uses.                                              *)
(***************************************************************************)
Tasks == {i \in DOMAIN events : events[i].type = "task"}

UnfinishedTasksOn(buffers) ==
  {i \in Tasks \ done : Uses[events[i].on] \cap buffers # {}}

UnfinishedTasksOf(k) == {i \in Tasks \ done : events[i].on = k}

TransfersOf(b) ==
  Cardinality({i \in DOMAIN events \ Tasks : events[i].on = b})

MayTransfer(b, type) ==
  /\ TransfersOf(b) < MaxTransfers
  /\ \/ type = "write" /\ \A k \in Kernel : b \notin Outputs[k]
     \/ type = "read" /\ \E k \in Kernel : b \in Outputs[k] /\ started[k] > 0

\* A call begins: it first waits for the events of its wait list.
Call(type, on, list) ==
  /\ Goto("idle", "list")
  /\ command' = [type |-> type, on |-> on]
  /\ todo' = list
  /\ UNCHANGED <<reg, target, awaited, held, unitVars, managerVars,
                 events, done, queue, current>>

EnqueueTask(k) ==
  /\ Len(events) < MaxEvents
  /\ \E list \in SUBSET DOMAIN events :
       /\ UnfinishedTasksOn(Uses[k]) \ UnfinishedTasksOf(k) \subseteq list
       /\ IF RestartUnwaited THEN run[k] = "none"
                             ELSE UnfinishedTasksOf(k) \subseteq list
       /\ Call("task", k, list)

EnqueueTransfer(b, type) ==
  /\ Len(events) < MaxEvents
  /\ MayTransfer(b, type)
  /\ \E list \in SUBSET DOMAIN events :
       UnfinishedTasksOn({b}) \subseteq list /\ Call(type, b, list)

WaitForEvents ==
  \E list \in SUBSET DOMAIN events : list # {} /\ Call("wait", "none", list)

Finish == Call("finish", "none", {})

\* A call ends, and with it its locals.
NoCommand == [type |-> "none", on |-> "none"]

Return(from) ==
  /\ Goto(from, "idle")
  /\ command' = NoCommand /\ todo' = {} /\ current' = 0
  /\ UNCHANGED <<reg, target, awaited, held, unitVars, managerVars, done>>
-----------------------------------------------------------------------------
(***************************************************************************)
(* cl_wait_for_events for the event number i.                              *)
(***************************************************************************)
\* Mutant of AwaitedState: a read waits for what a write waits for.
AwaitedStateSwapped(type) ==
  CASE type = "read"  -> WRITE
    [] type = "write" -> READ
    [] type = "task"  -> READ

\* The argument of mango_wait_state, and what mango_wait waits for.
AwaitedState(type) ==
  CASE type = "read"  -> READ
    [] type = "write" -> WRITE
    [] type = "task"  -> READ

\* Only the events whose status is LOCK are waited for.
WaitForEvent(i) ==
  /\ i \notin done
  /\ WaitFor(events[i].on, AwaitedState(events[i].type), "list")
  /\ current' = i
  /\ UNCHANGED <<events, done, queue, command, todo>>

WaitForListed == \E i \in todo : WaitForEvent(i)

\* Mutant of SetStatus: the status of the whole list is set after one wait.
SetStatusOfAll ==
  /\ Goto("awake", "list")
  /\ done' = done \cup {current} \cup todo
  /\ UNCHANGED <<reg, target, awaited, held, unitVars, managerVars,
                 events, queue, command, todo, current>>

SetStatus ==
  /\ Goto("awake", "list")
  /\ done' = done \cup {current}
  /\ UNCHANGED <<reg, target, awaited, held, unitVars, managerVars,
                 events, queue, command, todo, current>>

WaitReturns ==
  /\ command.type = "wait" /\ todo \subseteq done
  /\ Return("list")
  /\ UNCHANGED <<events, queue>>
-----------------------------------------------------------------------------
(***************************************************************************)
(* The commands, once their wait list is done.                             *)
(***************************************************************************)
\* Mutant of ListDone: the wait list is checked for one finished event.
SomeOfListDone == todo = {} \/ todo \cap done # {}

ListDone == todo \subseteq done

StartTask ==
  /\ command.type = "task" /\ ListDone
  /\ NotifyTaskStart(command.on, "list")
  /\ UNCHANGED queueVars

\* mango_write and mango_read in DIRECT mode copy before they return, and
\* leave the register of the buffer's event alone.
Transfer ==
  /\ command.type \in {"write", "read"} /\ ListDone
  /\ Goto("list", "copy")
  /\ UNCHANGED <<reg, target, awaited, held, unitVars, managerVars, queueVars>>

\* The event of the command: how many runs of the kernel it stands behind is
\* not in _cl_event, but tells which run a task's event is about.
EventOf(c) ==
  [type |-> c.type, on |-> c.on,
   nth |-> IF c.type = "task" THEN started[c.on] ELSE 0]

\* A new event's status is LOCK; it is pushed on the queue.
PushEvent ==
  /\ Return("started") \/ Return("copy")
  /\ events' = Append(events, EventOf(command))
  /\ queue' = Append(queue, Len(events) + 1)
-----------------------------------------------------------------------------
(***************************************************************************)
(* cl_finish: wait for the youngest event, take it off the queue, repeat.  *)
(***************************************************************************)
FinishYoungest ==
  /\ command.type = "finish" /\ queue # <<>>
  /\ WaitForEvent(Last(queue))

\* Mutant of MayPop: the event is taken off the queue before it is finished.
MayPopUnfinished == queue # <<>>

MayPop == queue # <<>> /\ Last(queue) \in done

FinishPop ==
  /\ command.type = "finish" /\ MayPop
  /\ Goto("list", "list")
  /\ queue' = Front(queue)
  /\ UNCHANGED <<reg, target, awaited, held, unitVars, managerVars,
                 events, done, command, todo, current>>

FinishReturns ==
  /\ command.type = "finish" /\ queue = <<>>
  /\ Return("list")
  /\ UNCHANGED <<events, queue>>
-----------------------------------------------------------------------------
ClInit ==
  /\ LaunchInit
  /\ events = <<>> /\ done = {} /\ queue = <<>>
  /\ command = NoCommand
  /\ todo = {} /\ current = 0

\* What the application asks for next is its own choice.
Ask ==
  \/ \E k \in Kernel : EnqueueTask(k)
  \/ \E b \in Buffer, type \in {"write", "read"} : EnqueueTransfer(b, type)
  \/ WaitForEvents
  \/ Finish

\* One step of the call it is in.
CallStep ==
  \/ WaitForListed \/ SetStatus \/ WaitReturns
  \/ StartTask \/ Transfer \/ PushEvent
  \/ FinishYoungest \/ FinishPop \/ FinishReturns
  \/ StartStep /\ UNCHANGED queueVars
  \/ WaitStep /\ UNCHANGED queueVars

UnitStep(k) ==
  /\ KernelAnnounces(k) \/ KernelCloses(k)
  /\ UNCHANGED queueVars

\* The process is gone.
Crashed == place = "crashed" /\ UNCHANGED clVars

ClNext == Ask \/ CallStep \/ (\E k \in Kernel : UnitStep(k)) \/ Crashed

ClSpec == ClInit /\ [][ClNext]_clVars

\* The calling thread and the units keep running.  A wait's read and its
\* writing back alternate, so weak fairness of their disjunction is enough.
FairClSpec ==
  /\ ClSpec
  /\ WF_clVars(CallStep)
  /\ \A k \in Kernel : WF_clVars(UnitStep(k))
-----------------------------------------------------------------------------
(***************************************************************************)
(* Properties.                                                             *)
(***************************************************************************)
ClTypeOK ==
  /\ reg \in [Kernel \cup Buffer -> Nat]
  /\ place \in {"idle", "list", "copy", "load", "clear", "run", "callback", "started",
                "wait", "waitPut", "woken", "awake", "crashed"}
  /\ target \in Kernel \cup Buffer /\ awaited \in {READ, WRITE} /\ held \in Nat
  /\ run \in [Kernel -> {"none", "working", "closing"}]
  /\ started \in [Kernel -> Nat] /\ ended \in [Kernel -> Nat]
  /\ notified \in [Kernel -> Nat] /\ callback \in [Kernel -> BOOLEAN]
  /\ done \subseteq DOMAIN events /\ todo \subseteq DOMAIN events
  /\ \A i \in DOMAIN queue : queue[i] \in DOMAIN events

\* An application that names the tasks a command depends on in its wait list
\* never has the host copy a buffer while a kernel that uses it runs, nor two
\* kernels that share a buffer run side by side: the wait list is honoured
\* although the events of a kernel share one register.
NoOverlap ==
  /\ place = "copy" =>
       \A k \in Kernel : run[k] # "none" => command.on \notin Uses[k]
  /\ \A k, l \in Kernel :
       k # l /\ run[k] # "none" /\ run[l] # "none" => Uses[k] \cap Uses[l] = {}

\* A task whose event reports CL_COMPLETE has ended: cl_wait_for_events never
\* takes the end of an earlier task of the same kernel for this one's.
CompleteMeansEnded ==
  \A i \in Tasks \cap done : ended[events[i].on] >= events[i].nth

\* After clFinish, and until the next command, nothing runs, and nothing is
\* left to be waited for.
FinishMeansIdle ==
  place = "idle" /\ queue = <<>> =>
    /\ \A k \in Kernel : run[k] = "none"
    /\ done = DOMAIN events

\* The resource manager never believes a running kernel stopped, and does not
\* count a task as running for good: when the application has waited for
\* everything, every NotifyTaskStart has had its NotifyTaskStop.
TaskAccounting ==
  \A k \in Kernel :
    /\ run[k] # "none" => notified[k] > 0
    /\ place = "idle" /\ queue = <<>> => notified[k] = 0

\* The commands that have begun, the one the application is in among them.
Underway == place \in {"callback", "started", "copy"}
Begun == IF Underway THEN Append(events, EventOf(command)) ELSE events

\* The i-th of them has not ended: its run, or its copy.
Active(i) ==
  IF Begun[i].type = "task" THEN Begun[i].nth > ended[Begun[i].on] ELSE i > Len(events)

\* The state of the queue in terms of Commands.
PromisedCall ==
  [type |-> IF Underway THEN "begun" ELSE command.type, on |-> command.on, list |-> todo]
PromisedBegun == [i \in DOMAIN Begun |-> [type |-> Begun[i].type, on |-> Begun[i].on]]
PromisedActive == {i \in DOMAIN Begun : Active(i)}

Promise == INSTANCE Commands WITH
  Object <- Kernel \cup Buffer,
  call <- PromisedCall,
  begun <- PromisedBegun,
  active <- PromisedActive,
  complete <- done

\* The queue keeps what it promises (host/OpenCL/src/clEnqueue.cpp, clEvent.cpp,
\* clCommandQueue.cpp): no command begins before those in its wait list have
\* ended, and clWaitForEvents and clFinish return only after what they wait for
\* has, although the events of a kernel share one register.
ImplementsCommands == Promise!Spec

\* A wait for the event of a buffer of which a second transfer has been enqueued.
\* The transfers leave the register alone, so there is one WRITE in it for all
\* writes, that of from_bbque, and one READ for every run that announces the buffer.
Starved == place = "wait" /\ target \in Buffer /\ TransfersOf(target) > 1

\* Every call of the application returns (unless the process crashes), but for
\* a wait for one of several transfers of a buffer: in no order of commands and
\* waits does another wait, a launch or clFinish wait for what another has taken.
CallsReturn == place # "idle" ~> place \in {"idle", "crashed"} \/ Starved

\* The same without the exception: cl_wait_for_events takes an event for one that
\* "has yet to finish" (host/OpenCL/src/clEvent.cpp), and waits until it has.
EveryCallReturns == place # "idle" ~> place \in {"idle", "crashed"}
=============================================================================
