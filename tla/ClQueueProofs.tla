---------------------------- MODULE ClQueueProofs ----------------------------
(***************************************************************************)
(* Proofs about ClQueue, for any kernels, buffers and numbers of commands, *)
(* for both kinds of register, and with launches that may fail: as long as *)
(* the application waits for a kernel before it starts it again, the       *)
(* events of a kernel can share one register.                              *)
(***************************************************************************)
EXTENDS ClQueue, SequenceTheorems, TLAPS

Places == {"idle", "list", "copy", "load", "clear", "run", "callback", "started",
           "wait", "waitPut", "woken", "awake", "crashed"}
Waiting == {"wait", "waitPut", "woken", "awake"}
Launch == {"load", "clear", "run", "callback", "started", "crashed"}

CommandEvent == [type : {"task", "read", "write"}, on : Kernel \cup Buffer, nth : Nat]

TypeInv ==
  /\ reg \in [Kernel \cup Buffer -> Nat]
  /\ place \in Places
  /\ target \in Kernel \cup Buffer /\ awaited \in {READ, WRITE} /\ held \in Nat
  /\ run \in [Kernel -> {"none", "working", "closing"}]
  /\ started \in [Kernel -> Nat] /\ ended \in [Kernel -> Nat]
  /\ notified \in [Kernel -> Nat] /\ callback \in [Kernel -> BOOLEAN]
  /\ events \in Seq(CommandEvent)
  /\ \A i \in DOMAIN events : events[i].on \in (IF events[i].type = "task" THEN Kernel ELSE Buffer)
  /\ done \subseteq DOMAIN events /\ todo \subseteq DOMAIN events
  /\ queue \in Seq(Nat) /\ \A n \in DOMAIN queue : queue[n] \in DOMAIN events
  /\ command \in [type : {"task", "read", "write", "wait", "finish", "none"},
                  on : Kernel \cup Buffer \cup {"none"}]
  /\ command.type = "task" => command.on \in Kernel
  /\ command.type \in {"read", "write"} => command.on \in Buffer

\* The places of a call, and what is waited for there.
PlaceInv ==
  /\ place \in Launch => command.type = "task" /\ target = command.on
  /\ place = "copy" => command.type \in {"read", "write"}
  /\ place = "idle" => command = NoCommand /\ todo = {}
  /\ place \in Waiting =>
       /\ current \in DOMAIN events \ done
       /\ target = events[current].on
       /\ awaited = AwaitedState(events[current].type)
       /\ place = "waitPut" => target \in Buffer
  /\ place \in Launch \cup {"copy"} => todo \subseteq done

\* The unfinished tasks that the command depends on are in its wait list.
Needed ==
  CASE command.type = "task" ->
         UnfinishedTasksOf(command.on) \cup UnfinishedTasksOn(Uses[command.on])
    [] command.type \in {"read", "write"} -> UnfinishedTasksOn({command.on})
    [] OTHER -> {}

ListInv == Needed \subseteq todo

\* Unfinished tasks of different kernels share no buffer, and there is at most
\* one of each kernel, its last.
TasksInv ==
  /\ \A i, j \in Tasks \ done :
       events[i].on # events[j].on => Uses[events[i].on] \cap Uses[events[j].on] = {}
  /\ \A i, j \in Tasks \ done : events[i].on = events[j].on => i = j
  /\ \A i \in Tasks \ done : events[i].nth = started[events[i].on]
  /\ \A i \in Tasks \cap done : events[i].nth <= ended[events[i].on]

\* The events that are not complete are in the queue.
QueueInv == \A i \in DOMAIN events \ done : \E n \in DOMAIN queue : queue[n] = i

Unfinished(k) == UnfinishedTasksOf(k) # {}
Own(k, P) == place \in P /\ command.on = k
Launching(k) == Own(k, {"load", "clear", "run", "crashed"})
Launched(k) == Own(k, {"callback", "started"})

\* The end of k has been taken from its register.
Taken(k) == place \in {"woken", "awake"} /\ target = k

\* A run of k goes on, or its end is in the register.
Outstanding(k) == Launched(k) \/ (Unfinished(k) /\ ~ Taken(k))

RunInv(k) ==
  /\ Outstanding(k) =>
       \/ run[k] # "none" /\ reg[k] = LOCK /\ started[k] = ended[k] + 1
       \/ run[k] = "none" /\ reg[k] = READ /\ started[k] = ended[k]
  /\ ~ Outstanding(k) => run[k] = "none" /\ reg[k] = LOCK
  /\ ~ Outstanding(k) /\ Launching(k) => started[k] = ended[k] + 1
  /\ ~ Outstanding(k) /\ ~ Launching(k) => started[k] = ended[k]

\* What the resource manager knows, and that it will be told of the end.
NotifyInv(k) ==
  /\ notified[k] = IF \/ Launching(k) \/ Launched(k)
                      \/ Unfinished(k) /\ ~ (place = "awake" /\ target = k)
                   THEN 1 ELSE 0
  /\ Unfinished(k) \/ Own(k, {"started"}) => callback[k]

IInv ==
  /\ TypeInv /\ PlaceInv /\ ListInv /\ TasksInv /\ QueueInv
  /\ \A k \in Kernel : RunInv(k) /\ NotifyInv(k)
-----------------------------------------------------------------------------
USE LaunchAssumption, QueueAssumption, AccumulateAssumption
    DEF LOCK, READ, WRITE, hostVars, unitVars, managerVars, queueVars

\* The application starts out of any call, with no events.
LEMMA TypeInit == ClInit => TypeInv
BY EmptySeq DEF ClInit, LaunchInit, TypeInv, Places, NoCommand, CommandEvent

\* What the application asks for is a call whose wait list names what it needs.
Asks(type, on, list) ==
  /\ Call(type, on, list)
  /\ list \in SUBSET DOMAIN events
  /\ type \in {"task", "read", "write", "wait", "finish"}
  /\ on \in Kernel \cup Buffer \cup {"none"}
  /\ type = "task" =>
       on \in Kernel /\ UnfinishedTasksOf(on) \cup UnfinishedTasksOn(Uses[on]) \subseteq list
  /\ type \in {"read", "write"} => on \in Buffer /\ UnfinishedTasksOn({on}) \subseteq list

\* Every command of an application that waits for a kernel before it starts it
\* again names all unfinished tasks that the command depends on.
LEMMA AskIsCall ==
  ASSUME ~ RestartUnwaited, Ask
  PROVE  \E type, on, list : Asks(type, on, list)
<1>1. CASE WaitForEvents
  <2>1. PICK list \in SUBSET DOMAIN events : Call("wait", "none", list)
    BY <1>1 DEF WaitForEvents
  <2>2. Asks("wait", "none", list)
    BY <2>1 DEF Asks
  <2> QED BY <2>2
<1>2. CASE Finish
  <2>1. Asks("finish", "none", {})
    BY <1>2 DEF Finish, Asks
  <2> QED BY <2>1
<1>3. ASSUME NEW k \in Kernel, EnqueueTask(k) PROVE \E list : Asks("task", k, list)
  BY <1>3 DEF EnqueueTask, Asks
<1>4. ASSUME NEW b \in Buffer, NEW type \in {"write", "read"}, EnqueueTransfer(b, type)
      PROVE  \E list : Asks(type, b, list)
  BY <1>4 DEF EnqueueTransfer, Asks
<1> QED BY <1>1, <1>2, <1>3, <1>4 DEF Ask

\* An event is of one of the three types, and a task's is about a kernel.
LEMMA EventFacts ==
  ASSUME TypeInv, NEW i \in DOMAIN events
  PROVE  /\ events[i].type \in {"task", "read", "write"}
         /\ events[i].on \in Kernel \cup Buffer
         /\ events[i].type = "task" <=> events[i].on \in Kernel
         /\ events[i].nth \in Nat
         /\ AwaitedState(events[i].type) \in {READ, WRITE}
         /\ events[i].type = "task" => AwaitedState(events[i].type) = READ
<1>1. events[i] \in CommandEvent
  BY ElementOfSeq, LenProperties DEF TypeInv
<1>2. /\ events[i].type \in {"task", "read", "write"}
      /\ events[i].on \in Kernel \cup Buffer
      /\ events[i].nth \in Nat
  BY <1>1 DEF CommandEvent
<1>3. AwaitedState("task") = READ /\ AwaitedState("read") = READ /\ AwaitedState("write") = WRITE
  BY DEF AwaitedState
<1> QED BY <1>2, <1>3 DEF TypeInv

\* Who waits for a kernel does so for its unfinished task.
LEMMA WaitedTask ==
  ASSUME TypeInv, PlaceInv, place \in Waiting, target \in Kernel
  PROVE  current \in UnfinishedTasksOf(target) /\ awaited = READ
BY EventFacts DEF PlaceInv, UnfinishedTasksOf, Tasks

\* Writing a register keeps the registers' type, whether it stores or adds.
LEMMA PutType ==
  ASSUME TypeInv, NEW e \in Kernel \cup Buffer, NEW v \in Nat, Put(e, v)
  PROVE  reg' \in [Kernel \cup Buffer -> Nat]
BY DEF TypeInv, Put

\* The event of the command that the application is in.
LEMMA NewEvent ==
  ASSUME TypeInv, command.type \in {"task", "read", "write"}
  PROVE  /\ EventOf(command) \in CommandEvent
         /\ EventOf(command).type = command.type
         /\ EventOf(command).on = command.on
         /\ command.type = "task" => EventOf(command).nth = started[command.on]
BY DEF TypeInv, EventOf, CommandEvent

\* clEnqueue* appends the new event and queues its number.
LEMMA PushFacts ==
  ASSUME TypeInv, command.type \in {"task", "read", "write"}, PushEvent
  PROVE  /\ events' \in Seq(CommandEvent)
         /\ Len(events') = Len(events) + 1
         /\ DOMAIN events' = DOMAIN events \cup {Len(events) + 1}
         /\ Len(events) + 1 \notin DOMAIN events
         /\ \A i \in DOMAIN events : events'[i] = events[i]
         /\ events'[Len(events) + 1] = EventOf(command)
         /\ queue' \in Seq(Nat)
         /\ DOMAIN queue' = DOMAIN queue \cup {Len(queue) + 1}
         /\ \A i \in DOMAIN queue : queue'[i] = queue[i]
         /\ queue'[Len(queue) + 1] = Len(events) + 1
         /\ Len(events) \in Nat /\ Len(queue) \in Nat
<1>1. /\ events \in Seq(CommandEvent) /\ EventOf(command) \in CommandEvent
      /\ events' = Append(events, EventOf(command))
      /\ queue \in Seq(Nat) /\ queue' = Append(queue, Len(events) + 1)
      /\ Len(events) \in Nat /\ Len(queue) \in Nat
  BY NewEvent, LenProperties DEF TypeInv, PushEvent
<1>2. /\ Append(events, EventOf(command)) \in Seq(CommandEvent)
      /\ Len(Append(events, EventOf(command))) = Len(events) + 1
      /\ \A i \in 1 .. Len(events) : Append(events, EventOf(command))[i] = events[i]
      /\ Append(events, EventOf(command))[Len(events) + 1] = EventOf(command)
  BY <1>1, AppendProperties
<1>3. /\ Append(queue, Len(events) + 1) \in Seq(Nat)
      /\ Len(Append(queue, Len(events) + 1)) = Len(queue) + 1
      /\ \A i \in 1 .. Len(queue) : Append(queue, Len(events) + 1)[i] = queue[i]
      /\ Append(queue, Len(events) + 1)[Len(queue) + 1] = Len(events) + 1
  BY <1>1, AppendProperties
<1>4. /\ DOMAIN events = 1 .. Len(events) /\ DOMAIN events' = 1 .. Len(events')
      /\ DOMAIN queue = 1 .. Len(queue) /\ DOMAIN queue' = 1 .. Len(queue')
  BY <1>1, <1>2, <1>3, LenProperties
<1> QED BY <1>1, <1>2, <1>3, <1>4

\* Taking the youngest event off the queue leaves the others.
LEMMA PopFacts ==
  ASSUME TypeInv, queue # <<>>
  PROVE  /\ Front(queue) \in Seq(Nat)
         /\ Len(queue) \in DOMAIN queue
         /\ DOMAIN Front(queue) = DOMAIN queue \ {Len(queue)}
         /\ \A n \in DOMAIN Front(queue) : Front(queue)[n] = queue[n]
<1>1. queue \in Seq(Nat) /\ Len(queue) \in Nat \ {0} /\ DOMAIN queue = 1 .. Len(queue)
  BY EmptySeq, LenProperties DEF TypeInv
<1>2. /\ Front(queue) \in Seq(Nat) /\ Len(Front(queue)) = Len(queue) - 1
      /\ \A n \in 1 .. Len(queue) - 1 : Front(queue)[n] = queue[n]
  BY <1>1, SubSeqProperties DEF Front
<1>3. DOMAIN Front(queue) = 1 .. Len(Front(queue))
  BY <1>2, LenProperties
<1> QED BY <1>1, <1>2, <1>3

\* The steps there are, apart from those that change nothing.
Waits == \E i \in DOMAIN events : WaitForEvent(i)

Steps ==
  \/ \E type, on, list : Asks(type, on, list)
  \/ Waits \/ SetStatus \/ WaitReturns \/ FinishReturns
  \/ StartTask \/ Transfer \/ PushEvent \/ FinishPop
  \/ (WriteImage \/ ClearTermination \/ RunKernel \/ SetCallback \/ LaunchFails)
     /\ UNCHANGED queueVars
  \/ (WaitRead \/ WaitWriteBack \/ NotifyTaskStop) /\ UNCHANGED queueVars
  \/ \E k \in Kernel : (KernelAnnounces(k) \/ KernelCloses(k)) /\ UNCHANGED queueVars

\* These are all the steps there are.
LEMMA NextSteps ==
  ASSUME ~ RestartUnwaited, TypeInv, [ClNext]_clVars
  PROVE  Steps \/ UNCHANGED clVars
<1>1. CASE FinishYoungest
  BY <1>1, PopFacts DEF TypeInv, FinishYoungest, Last, Steps, Waits
<1>2. CASE WaitForListed
  BY <1>2 DEF TypeInv, WaitForListed, Steps, Waits
<1> QED
  BY <1>1, <1>2, AskIsCall
  DEF ClNext, CallStep, StartStep, WaitStep, UnitStep, Crashed, Steps
-----------------------------------------------------------------------------
\* TypeInv is preserved: taking a task off the manager's books never goes below
\* zero, as each is taken off once.
LEMMA TypeNext ==
  ASSUME IInv, Steps \/ UNCHANGED clVars
  PROVE  TypeInv'
<1> USE DEF Goto, Places
<1>0. TypeInv /\ PlaceInv /\ \A k \in Kernel : NotifyInv(k)
  BY DEF IInv
<1>1. ASSUME NEW type, NEW on, NEW list, Asks(type, on, list) PROVE TypeInv'
  BY <1>0, <1>1 DEF TypeInv, Asks, Call
<1>2. CASE Waits
  <2>1. PICK i \in DOMAIN events : WaitForEvent(i)
    BY <1>2 DEF Waits
  <2> QED BY <1>0, <2>1, EventFacts DEF TypeInv, WaitForEvent, WaitFor
<1>3. CASE SetStatus
  BY <1>0, <1>3 DEF TypeInv, PlaceInv, SetStatus, Waiting
<1>4. CASE WaitReturns \/ FinishReturns
  BY <1>0, <1>4 DEF TypeInv, WaitReturns, FinishReturns, Return, NoCommand
<1>5. CASE StartTask
  BY <1>0, <1>5 DEF TypeInv, StartTask, NotifyTaskStart
<1>6. CASE Transfer
  BY <1>0, <1>6 DEF TypeInv, Transfer
<1>7. CASE PushEvent
  <2>1. command.type \in {"task", "read", "write"}
    BY <1>0, <1>7 DEF PlaceInv, PushEvent, Return, Launch
  <2>2. /\ \A i \in DOMAIN events' :
              events'[i].on \in (IF events'[i].type = "task" THEN Kernel ELSE Buffer)
        /\ \A n \in DOMAIN queue' : queue'[n] \in DOMAIN events'
    BY <1>0, <1>7, <2>1, PushFacts, NewEvent DEF TypeInv
  <2>3. done \subseteq DOMAIN events'
    BY <1>0, <1>7, <2>1, PushFacts DEF TypeInv, PushEvent, Return
  <2>4. /\ events' \in Seq(CommandEvent) /\ queue' \in Seq(Nat)
        /\ place' = "idle" /\ todo' = {} /\ command' = NoCommand
        /\ UNCHANGED <<reg, target, awaited, held, unitVars, managerVars, done>>
    BY <1>0, <1>7, <2>1, PushFacts DEF PushEvent, Return
  <2> QED BY <1>0, <2>2, <2>3, <2>4 DEF TypeInv, NoCommand
<1>8. CASE FinishPop
  <2>1. /\ queue' \in Seq(Nat)
        /\ \A n \in DOMAIN queue' : queue'[n] \in DOMAIN events
        /\ place' = "list"
    BY <1>0, <1>8, PopFacts DEF TypeInv, FinishPop, MayPop
  <2> QED BY <1>0, <1>8, <2>1 DEF TypeInv, FinishPop
<1>9. CASE /\ WriteImage \/ ClearTermination \/ RunKernel \/ SetCallback \/ LaunchFails
           /\ UNCHANGED queueVars
  <2>1. CASE WriteImage \/ SetCallback \/ LaunchFails
    BY <1>0, <1>9, <2>1 DEF TypeInv, WriteImage, SetCallback, LaunchFails
  <2>2. CASE RunKernel
    BY <1>0, <1>9, <2>2 DEF TypeInv, RunKernel
  <2>3. CASE ClearTermination
    <3>1. reg' \in [Kernel \cup Buffer -> Nat]
      BY <1>0, <2>3, PutType DEF TypeInv, ClearTermination
    <3> QED BY <1>0, <1>9, <2>3, <3>1 DEF TypeInv, ClearTermination
  <2> QED BY <1>9, <2>1, <2>2, <2>3
<1>10. CASE (WaitRead \/ WaitWriteBack \/ NotifyTaskStop) /\ UNCHANGED queueVars
  <2>1. CASE WaitRead
    BY <1>0, <1>10, <2>1 DEF TypeInv, WaitRead, Take
  <2>2. CASE WaitWriteBack
    <3>1. reg' \in [Kernel \cup Buffer -> Nat]
      BY <1>0, <2>2, PutType DEF TypeInv, WaitWriteBack
    <3> QED BY <1>0, <1>10, <2>2, <3>1 DEF TypeInv, WaitWriteBack
  <2>3. CASE NotifyTaskStop
    <3>1. target \in Kernel => notified[target] = 1
      <4> SUFFICES ASSUME target \in Kernel PROVE notified[target] = 1
        OBVIOUS
      <4>1. Unfinished(target) /\ place = "woken"
        BY <1>0, <2>3, WaitedTask DEF Unfinished, NotifyTaskStop, Waiting
      <4> QED BY <1>0, <4>1 DEF NotifyInv
    <3>2. notified' \in [Kernel -> Nat]
      BY <1>0, <2>3, <3>1 DEF TypeInv, NotifyTaskStop
    <3> QED BY <1>0, <1>10, <2>3, <3>2 DEF TypeInv, NotifyTaskStop
  <2> QED BY <1>10, <2>1, <2>2, <2>3
<1>11. ASSUME NEW k \in Kernel, KernelAnnounces(k) \/ KernelCloses(k), UNCHANGED queueVars
       PROVE  TypeInv'
  <2>1. CASE KernelAnnounces(k)
    <3>1. reg' \in [Kernel \cup Buffer -> Nat]
      BY <1>0, <2>1 DEF TypeInv, KernelAnnounces
    <3>2. run' \in [Kernel -> {"none", "working", "closing"}]
      BY <1>0, <2>1 DEF TypeInv, KernelAnnounces
    <3> QED BY <1>0, <1>11, <2>1, <3>1, <3>2 DEF TypeInv, KernelAnnounces
  <2>2. CASE KernelCloses(k)
    <3>1. reg' \in [Kernel \cup Buffer -> Nat]
      BY <1>0, <2>2, PutType DEF KernelCloses
    <3>2. /\ run' \in [Kernel -> {"none", "working", "closing"}]
          /\ ended' \in [Kernel -> Nat]
      BY <1>0, <2>2 DEF TypeInv, KernelCloses
    <3> QED BY <1>0, <1>11, <2>2, <3>1, <3>2 DEF TypeInv, KernelCloses
  <2> QED BY <1>11, <2>1, <2>2
<1>12. CASE UNCHANGED clVars
  BY <1>0, <1>12 DEF TypeInv, clVars, launchVars
<1> QED
  BY <1>1, <1>2, <1>3, <1>4, <1>5, <1>6, <1>7, <1>8, <1>9, <1>10, <1>11, <1>12 DEF Steps

\* PlaceInv is preserved: in particular a wait for a kernel never puts a value
\* back, because READ is the only one its register ever has.
LEMMA PlaceNext ==
  ASSUME IInv, Steps \/ UNCHANGED clVars
  PROVE  PlaceInv'
<1> USE DEF Goto, Launch, Waiting
<1>0. TypeInv /\ PlaceInv /\ \A k \in Kernel : RunInv(k)
  BY DEF IInv
<1>1. ASSUME NEW type, NEW on, NEW list, Asks(type, on, list) PROVE PlaceInv'
  BY <1>1 DEF PlaceInv, Asks, Call
<1>2. CASE Waits
  BY <1>0, <1>2, EventFacts DEF PlaceInv, Waits, WaitForEvent, WaitFor
<1>3. CASE SetStatus \/ FinishPop
  BY <1>3 DEF PlaceInv, SetStatus, FinishPop
<1>4. CASE WaitReturns \/ FinishReturns \/ PushEvent
  BY <1>4 DEF PlaceInv, WaitReturns, FinishReturns, PushEvent, Return
<1>5. CASE StartTask \/ Transfer
  BY <1>5 DEF PlaceInv, StartTask, Transfer, ListDone, NotifyTaskStart
<1>6. CASE /\ WriteImage \/ ClearTermination \/ RunKernel \/ SetCallback \/ LaunchFails
           /\ UNCHANGED queueVars
  BY <1>0, <1>6 DEF PlaceInv, WriteImage, ClearTermination, RunKernel, SetCallback,
     LaunchFails
<1>7. CASE (WaitWriteBack \/ NotifyTaskStop) /\ UNCHANGED queueVars
  BY <1>0, <1>7 DEF PlaceInv, WaitWriteBack, NotifyTaskStop
<1>8. CASE WaitRead /\ UNCHANGED queueVars
  <2>1. place' = "waitPut" => target \in Buffer
    BY <1>0, <1>8, WaitedTask DEF TypeInv, RunInv, WaitRead, Take
  <2> QED BY <1>0, <1>8, <2>1 DEF PlaceInv, WaitRead
<1>9. ASSUME NEW k \in Kernel, KernelAnnounces(k) \/ KernelCloses(k), UNCHANGED queueVars
      PROVE  PlaceInv'
  BY <1>0, <1>9 DEF PlaceInv, KernelAnnounces, KernelCloses
<1>10. CASE UNCHANGED clVars
  BY <1>0, <1>10 DEF PlaceInv, clVars, launchVars
<1> QED
  BY <1>1, <1>2, <1>3, <1>4, <1>5, <1>6, <1>7, <1>8, <1>9, <1>10 DEF Steps

\* What the command needs is in its list, so when the list is done it needs
\* nothing any more.
LEMMA NothingNeeded ==
  ASSUME ListInv, todo \subseteq done
  PROVE  Needed = {}
<1>1. Needed \cap done = {}
  BY DEF Needed, UnfinishedTasksOf, UnfinishedTasksOn
<1> QED BY <1>1 DEF ListInv

\* Steps that create no event leave what a command needs, or reduce it.
LEMMA UnfinishedShrinks ==
  ASSUME events' = events, done \subseteq done'
  PROVE  /\ \A k : UnfinishedTasksOf(k)' \subseteq UnfinishedTasksOf(k)
         /\ \A B : UnfinishedTasksOn(B)' \subseteq UnfinishedTasksOn(B)
BY DEF UnfinishedTasksOf, UnfinishedTasksOn, Tasks

\* ListInv is preserved: while the wait list is worked through, no task begins.
LEMMA ListNext ==
  ASSUME IInv, Steps \/ UNCHANGED clVars
  PROVE  ListInv'
<1>0. TypeInv /\ ListInv
  BY DEF IInv
<1>1. ASSUME NEW type, NEW on, NEW list, Asks(type, on, list) PROVE ListInv'
  <2>1. /\ command'.type = type /\ command'.on = on /\ todo' = list
        /\ UNCHANGED <<events, done>>
    BY <1>1 DEF Asks, Call
  <2>2. /\ UnfinishedTasksOf(on)' = UnfinishedTasksOf(on)
        /\ UnfinishedTasksOn(Uses[on])' = UnfinishedTasksOn(Uses[on])
        /\ UnfinishedTasksOn({on})' = UnfinishedTasksOn({on})
    BY <2>1 DEF UnfinishedTasksOf, UnfinishedTasksOn, Tasks
  <2> QED BY <1>1, <2>1, <2>2 DEF ListInv, Needed, Asks
<1>2. CASE WaitReturns \/ FinishReturns \/ PushEvent
  <2>1. command'.type = "none"
    BY <1>2 DEF WaitReturns, FinishReturns, PushEvent, Return, NoCommand
  <2> QED BY <2>1 DEF ListInv, Needed
<1>3. ASSUME events' = events, done \subseteq done', UNCHANGED <<command, todo>>
      PROVE  ListInv'
  BY <1>0, <1>3, UnfinishedShrinks DEF ListInv, Needed
<1>4. CASE Waits \/ SetStatus \/ StartTask \/ Transfer \/ FinishPop
  BY <1>3, <1>4 DEF Waits, WaitForEvent, SetStatus, StartTask, Transfer, FinishPop, queueVars
<1> QED BY <1>1, <1>2, <1>3, <1>4 DEF Steps, clVars, queueVars

\* QueueInv is preserved: cl_finish takes an event off only when it is complete.
LEMMA QueueNext ==
  ASSUME IInv, Steps \/ UNCHANGED clVars
  PROVE  QueueInv'
<1>0. TypeInv /\ PlaceInv /\ QueueInv
  BY DEF IInv
<1>1. ASSUME NEW type, NEW on, NEW list, Asks(type, on, list) PROVE QueueInv'
  BY <1>0, <1>1 DEF QueueInv, Asks, Call
<1>2. CASE Waits \/ SetStatus \/ StartTask \/ Transfer \/ WaitReturns \/ FinishReturns
  BY <1>0, <1>2 DEF QueueInv, Waits, WaitForEvent, SetStatus, StartTask, Transfer,
     WaitReturns, FinishReturns, Return, queueVars
<1>3. CASE FinishPop
  <2>1. queue' = Front(queue) /\ queue[Len(queue)] \in done /\ UNCHANGED <<events, done>>
    BY <1>3 DEF FinishPop, MayPop, Last
  <2>2. /\ DOMAIN Front(queue) = DOMAIN queue \ {Len(queue)}
        /\ \A n \in DOMAIN Front(queue) : Front(queue)[n] = queue[n]
    BY <1>0, <1>3, PopFacts DEF FinishPop, MayPop
  <2> QED BY <1>0, <2>1, <2>2 DEF QueueInv
<1>4. CASE PushEvent
  <2>1. command.type \in {"task", "read", "write"} /\ UNCHANGED done
    BY <1>0, <1>4 DEF PlaceInv, PushEvent, Return, Goto, Launch
  <2>2. /\ DOMAIN events' = DOMAIN events \cup {Len(events) + 1}
        /\ DOMAIN queue' = DOMAIN queue \cup {Len(queue) + 1}
        /\ \A n \in DOMAIN queue : queue'[n] = queue[n]
        /\ queue'[Len(queue) + 1] = Len(events) + 1
    BY <1>0, <1>4, <2>1, PushFacts
  <2> QED BY <1>0, <2>1, <2>2 DEF QueueInv
<1>5. CASE UNCHANGED queueVars
  BY <1>0, <1>5 DEF QueueInv, queueVars
<1> QED BY <1>1, <1>2, <1>3, <1>4, <1>5 DEF Steps, clVars, queueVars

\* TasksInv is preserved: a task is started when its list is done, and then no
\* unfinished task shares a buffer with it; and a status is set after the end
\* of the task has been taken from the register.
LEMMA TasksNext ==
  ASSUME IInv, Steps \/ UNCHANGED clVars
  PROVE  TasksInv'
<1> USE DEF Goto
<1>0. /\ TypeInv /\ PlaceInv /\ ListInv /\ TasksInv
      /\ \A k \in Kernel : RunInv(k)
  BY DEF IInv
<1>1. ASSUME UNCHANGED <<events, done, started, ended>> PROVE TasksInv'
  BY <1>0, <1>1 DEF TasksInv, Tasks
<1>2. ASSUME NEW type, NEW on, NEW list, Asks(type, on, list) PROVE TasksInv'
  BY <1>1, <1>2 DEF Asks, Call
<1>3. CASE Waits \/ Transfer \/ WaitReturns \/ FinishReturns \/ FinishPop
  BY <1>1, <1>3 DEF Waits, WaitForEvent, WaitFor, Transfer, WaitReturns, FinishReturns, FinishPop,
     Return
<1>4. CASE SetStatus
  <2>1. current \in Tasks => events[current].nth <= ended[events[current].on]
    <3> SUFFICES ASSUME current \in Tasks
                 PROVE  events[current].nth <= ended[events[current].on]
      OBVIOUS
    <3>1. /\ place = "awake" /\ current \in Tasks \ done /\ target = events[current].on
          /\ target \in Kernel
      BY <1>0, <1>4, EventFacts DEF SetStatus, PlaceInv, Waiting, Tasks
    <3>2. ~ Outstanding(target) /\ ~ Launching(target)
      BY <3>1 DEF Outstanding, Launched, Launching, Own, Taken
    <3>3. started[target] = ended[target]
      BY <1>0, <3>1, <3>2 DEF RunInv
    <3> QED BY <1>0, <3>1, <3>3 DEF TypeInv, TasksInv
  <2>2. done' = done \cup {current} /\ UNCHANGED <<events, started, ended>>
    BY <1>4 DEF SetStatus
  <2> QED BY <1>0, <2>1, <2>2 DEF TasksInv, Tasks
<1>5. CASE StartTask
  <2>1. /\ command.type = "task" /\ command.on \in Kernel
        /\ started' = [started EXCEPT ![command.on] = @ + 1]
        /\ UNCHANGED <<events, done, ended>>
    BY <1>0, <1>5 DEF TypeInv, StartTask, NotifyTaskStart
  <2>2. UnfinishedTasksOf(command.on) = {}
    BY <1>0, <1>5, <2>1, NothingNeeded DEF StartTask, ListDone, Needed
  <2>3. \A i \in Tasks \ done : started'[events[i].on] = started[events[i].on]
    BY <1>0, <2>1, <2>2, EventFacts DEF TypeInv, UnfinishedTasksOf, Tasks
  <2> QED BY <1>0, <2>1, <2>3 DEF TasksInv, Tasks
<1>6. CASE PushEvent
  <2> DEFINE new == Len(events) + 1
  <2>1. /\ command.type \in {"task", "read", "write"}
        /\ todo \subseteq done
        /\ UNCHANGED <<done, started, ended>>
    BY <1>0, <1>6 DEF PlaceInv, PushEvent, Return, Launch
  <2>2. /\ DOMAIN events' = DOMAIN events \cup {new} /\ new \notin DOMAIN events
        /\ \A i \in DOMAIN events : events'[i] = events[i]
        /\ events'[new] = EventOf(command)
        /\ EventOf(command).type = command.type /\ EventOf(command).on = command.on
        /\ command.type = "task" => EventOf(command).nth = started[command.on]
    BY <1>0, <1>6, <2>1, PushFacts, NewEvent
  <2>3. /\ Tasks' = IF command.type = "task" THEN Tasks \cup {new} ELSE Tasks
        /\ new \notin done /\ Tasks \subseteq DOMAIN events
    BY <1>0, <2>2 DEF TypeInv, Tasks
  <2>4. command.type = "task" => \A i \in Tasks \ done :
          /\ events[i].on # command.on
          /\ Uses[events[i].on] \cap Uses[command.on] = {}
    BY <1>0, <2>1, NothingNeeded DEF Needed, UnfinishedTasksOf, UnfinishedTasksOn
  <2> HIDE DEF new
  <2>5. \A i \in Tasks : events'[i] = events[i]
    BY <2>2, <2>3
  <2>6. CASE command.type # "task"
    BY <1>0, <2>1, <2>3, <2>5, <2>6 DEF TasksInv
  <2>7. CASE command.type = "task"
    BY <1>0, <2>1, <2>2, <2>3, <2>4, <2>5, <2>7 DEF TasksInv
  <2> QED BY <2>6, <2>7
<1>7. CASE /\ WriteImage \/ ClearTermination \/ RunKernel \/ SetCallback \/ LaunchFails
           /\ UNCHANGED queueVars
  BY <1>1, <1>7 DEF WriteImage, ClearTermination, RunKernel, SetCallback, LaunchFails
<1>8. CASE (WaitRead \/ WaitWriteBack \/ NotifyTaskStop) /\ UNCHANGED queueVars
  BY <1>1, <1>8 DEF WaitRead, WaitWriteBack, NotifyTaskStop
<1>9. ASSUME NEW k \in Kernel, KernelAnnounces(k), UNCHANGED queueVars PROVE TasksInv'
  BY <1>1, <1>9 DEF KernelAnnounces
<1>10. ASSUME NEW k \in Kernel, KernelCloses(k), UNCHANGED queueVars PROVE TasksInv'
  <2>1. /\ UNCHANGED <<events, done, started>>
        /\ \A l \in Kernel : ended[l] \in Nat /\ ended'[l] \in Nat /\ ended[l] <= ended'[l]
    BY <1>0, <1>10 DEF TypeInv, KernelCloses
  <2>2. \A i \in Tasks : events[i].on \in Kernel /\ events[i].nth \in Nat
    BY <1>0, EventFacts DEF Tasks
  <2>3. \A i \in Tasks \cap done : events[i].nth <= ended'[events[i].on]
    BY <1>0, <2>1, <2>2 DEF TasksInv
  <2> QED BY <1>0, <2>1, <2>3 DEF TasksInv, Tasks
<1> QED
  BY <1>1, <1>2, <1>3, <1>4, <1>5, <1>6, <1>7, <1>8, <1>9, <1>10 DEF Steps, clVars, launchVars

\* Steps that create and complete no event leave the unfinished tasks.
LEMMA UnfinishedSame ==
  ASSUME events' = events, done' = done
  PROVE  \A k : Unfinished(k)' = Unfinished(k)
BY DEF Unfinished, UnfinishedTasksOf, Tasks

\* A kernel is started only when none of its tasks is unfinished.
LEMMA NothingUnfinished ==
  ASSUME ListInv, todo \subseteq done, command.type = "task"
  PROVE  ~ Unfinished(command.on)
BY NothingNeeded DEF Needed, Unfinished

\* A step that leaves a kernel's register, its unit and its place in the call
\* leaves RunInv.
LEMMA RunSame ==
  ASSUME NEW k \in Kernel, RunInv(k),
         reg'[k] = reg[k], run'[k] = run[k], started'[k] = started[k], ended'[k] = ended[k],
         Launching(k)' = Launching(k), Outstanding(k)' = Outstanding(k)
  PROVE  RunInv(k)'
BY DEF RunInv

\* What SetStatus leaves unfinished: the task it completes was the only one of
\* its kernel.
LEMMA StatusFacts ==
  ASSUME TypeInv, PlaceInv, TasksInv, SetStatus, NEW k \in Kernel
  PROVE  /\ target = k => Unfinished(k)
         /\ Unfinished(k)' <=> Unfinished(k) /\ target # k
<1>1. /\ current \in DOMAIN events \ done /\ target = events[current].on
      /\ done' = done \cup {current} /\ UNCHANGED events
  BY DEF PlaceInv, SetStatus, Goto, Waiting
<1>2. target = k => current \in Tasks \ done
  BY <1>1, EventFacts DEF Tasks
<1>3. UnfinishedTasksOf(k)' = UnfinishedTasksOf(k) \ {current}
  BY <1>1 DEF UnfinishedTasksOf, Tasks
<1>4. target = k => UnfinishedTasksOf(k) = {current}
  <2>1. target = k => current \in UnfinishedTasksOf(k)
    BY <1>1, <1>2 DEF UnfinishedTasksOf
  <2>2. ASSUME target = k, NEW i \in UnfinishedTasksOf(k) PROVE i = current
    BY <1>1, <1>2, <2>2 DEF TasksInv, UnfinishedTasksOf
  <2> QED BY <2>1, <2>2
<1>5. target # k => current \notin UnfinishedTasksOf(k)
  BY <1>1 DEF UnfinishedTasksOf
<1> QED
  BY <1>3, <1>4, <1>5 DEF Unfinished

\* What PushEvent adds to the unfinished tasks.
LEMMA PushUnfinished ==
  ASSUME TypeInv, PlaceInv, PushEvent, NEW k \in Kernel
  PROVE  Unfinished(k)' <=> Unfinished(k) \/ Own(k, {"started"})
<1> DEFINE new == Len(events) + 1
<1>1. /\ command.type \in {"task", "read", "write"} /\ UNCHANGED done
      /\ command.type = "task" <=> place = "started"
      /\ place \in {"started", "copy"}
  BY DEF PlaceInv, PushEvent, Return, Goto, Launch
<1>2. /\ DOMAIN events' = DOMAIN events \cup {new} /\ new \notin DOMAIN events
      /\ \A i \in DOMAIN events : events'[i] = events[i]
      /\ events'[new].type = command.type /\ events'[new].on = command.on
      /\ done \subseteq DOMAIN events
  BY <1>1, PushFacts, NewEvent DEF TypeInv
<1> HIDE DEF new
<1>3. UnfinishedTasksOf(k)' =
        UnfinishedTasksOf(k) \cup
          (IF command.type = "task" /\ command.on = k THEN {new} ELSE {})
  BY <1>1, <1>2 DEF UnfinishedTasksOf, Tasks
<1> QED BY <1>1, <1>3 DEF Unfinished, Own

\* RunInv is preserved: the register of a kernel has its end exactly once per
\* run, from mango_close until the wait for the unfinished task.
LEMMA RunNext ==
  ASSUME IInv, Steps \/ UNCHANGED clVars
  PROVE  \A k \in Kernel : RunInv(k)'
<1> USE DEF Goto
<1> SUFFICES ASSUME NEW k \in Kernel PROVE RunInv(k)'
  OBVIOUS
<1>0. /\ TypeInv /\ PlaceInv /\ ListInv /\ TasksInv
      /\ \A l \in Kernel : RunInv(l)
  BY DEF IInv
<1>a. ASSUME UNCHANGED <<reg, run, started, ended>>,
             Launching(k)' = Launching(k), Outstanding(k)' = Outstanding(k)
      PROVE  RunInv(k)'
  BY <1>0, <1>a, RunSame
<1>1. ASSUME NEW type, NEW on, NEW list, Asks(type, on, list) PROVE RunInv(k)'
  <2>1. /\ place = "idle" /\ place' = "list"
        /\ UNCHANGED <<reg, run, started, ended, events, done>>
    BY <1>1 DEF Asks, Call, unitVars, managerVars
  <2> QED
    BY <1>a, <2>1, UnfinishedSame DEF Launching, Launched, Own, Outstanding, Taken
<1>2. CASE Waits \/ Transfer \/ WaitReturns \/ FinishReturns \/ FinishPop
  <2>1. /\ place = "list" /\ place' \in {"wait", "copy", "idle", "list"}
        /\ UNCHANGED <<reg, run, started, ended, events, done>>
    BY <1>2 DEF Waits, WaitForEvent, WaitFor, Transfer, WaitReturns, FinishReturns, FinishPop,
       Return
  <2> QED
    BY <1>a, <2>1, UnfinishedSame DEF Launching, Launched, Own, Outstanding, Taken
<1>3. CASE SetStatus
  <2>1. /\ place = "awake" /\ place' = "list"
        /\ UNCHANGED <<reg, run, started, ended, target>>
    BY <1>3 DEF SetStatus
  <2>2. Unfinished(k)' <=> Unfinished(k) /\ target # k
    BY <1>0, <1>3, StatusFacts
  <2> QED
    BY <1>a, <2>1, <2>2 DEF Launching, Launched, Own, Outstanding, Taken
<1>4. CASE StartTask
  <2>1. /\ place = "list" /\ place' = "load"
        /\ command.type = "task" /\ command.on \in Kernel /\ target' = command.on
        /\ started' = [started EXCEPT ![command.on] = @ + 1]
        /\ UNCHANGED <<reg, run, ended, events, done, command>>
    BY <1>0, <1>4 DEF TypeInv, StartTask, NotifyTaskStart
  <2>2. ~ Unfinished(command.on)
    BY <1>0, <1>4, <2>1, NothingUnfinished DEF StartTask, ListDone
  <2>3. Unfinished(k)' = Unfinished(k)
    BY <2>1, UnfinishedSame
  <2>4. CASE k # command.on
    <3>1. started'[k] = started[k]
      BY <1>0, <2>1, <2>4 DEF TypeInv
    <3>2. Launching(k)' = Launching(k) /\ Outstanding(k)' = Outstanding(k)
      BY <2>1, <2>3, <2>4 DEF Launching, Launched, Own, Outstanding, Taken
    <3> QED BY <1>0, <2>1, <3>1, <3>2, RunSame
  <2>5. CASE k = command.on
    <3>1. /\ ~ Outstanding(k) /\ ~ Launching(k)
          /\ ~ Outstanding(k)' /\ Launching(k)'
      BY <2>1, <2>2, <2>3, <2>5 DEF Launching, Launched, Own, Outstanding
    <3>2. started'[k] = started[k] + 1 /\ UNCHANGED <<reg, run, ended>>
      BY <1>0, <2>1, <2>5 DEF TypeInv
    <3> QED BY <1>0, <3>1, <3>2 DEF RunInv
  <2> QED BY <2>4, <2>5
<1>5. CASE PushEvent
  <2>1. /\ place \in {"started", "copy"} /\ place' = "idle"
        /\ UNCHANGED <<reg, run, started, ended>>
    BY <1>5 DEF PushEvent, Return
  <2>2. Unfinished(k)' <=> Unfinished(k) \/ Own(k, {"started"})
    BY <1>0, <1>5, PushUnfinished
  <2> QED
    BY <1>a, <2>1, <2>2 DEF Launching, Launched, Own, Outstanding, Taken
<1>6. CASE /\ WriteImage \/ ClearTermination \/ RunKernel \/ SetCallback \/ LaunchFails
           /\ UNCHANGED queueVars
  <2>1. /\ place \in Launch /\ place # "started" /\ place # "crashed"
        /\ command.type = "task" /\ target = command.on /\ target \in Kernel
        /\ todo \subseteq done
        /\ UNCHANGED <<target, command, events, done, started, ended>>
    BY <1>0, <1>6 DEF TypeInv, PlaceInv, Launch, WriteImage, ClearTermination, RunKernel,
       SetCallback, LaunchFails
  <2>2. ~ Unfinished(target)
    BY <1>0, <2>1, NothingUnfinished
  <2>3. Unfinished(k)' = Unfinished(k)
    BY <2>1, UnfinishedSame
  <2>4. CASE WriteImage \/ LaunchFails
    BY <1>a, <1>6, <2>1, <2>3, <2>4 DEF WriteImage, LaunchFails, Launching, Launched, Own,
       Outstanding, Taken
  <2>5. CASE SetCallback
    BY <1>a, <1>6, <2>1, <2>3, <2>5 DEF SetCallback, Launching, Launched, Own, Outstanding, Taken
  <2>6. CASE ClearTermination
    <3>1. ~ Outstanding(target)
      BY <2>1, <2>2, <2>6 DEF ClearTermination, Outstanding, Launched, Own
    <3>2. reg[target] = LOCK
      BY <1>0, <2>1, <3>1 DEF RunInv
    <3>3. reg'[k] = reg[k] /\ UNCHANGED run
      BY <1>0, <2>1, <2>6, <3>2 DEF TypeInv, ClearTermination, Put
    <3>4. Launching(k)' = Launching(k) /\ Outstanding(k)' = Outstanding(k)
      BY <2>1, <2>3, <2>6 DEF ClearTermination, Launching, Launched, Own, Outstanding, Taken
    <3> QED BY <1>0, <2>1, <3>3, <3>4, RunSame
  <2>7. CASE RunKernel
    <3>1. /\ place = "run" /\ place' = "callback"
          /\ run' = [run EXCEPT ![target] = "working"] /\ UNCHANGED reg
      BY <2>7 DEF RunKernel
    <3>2. CASE k # target
      <4>1. Launching(k)' = Launching(k) /\ Outstanding(k)' = Outstanding(k)
        BY <2>1, <2>3, <3>1, <3>2 DEF Launching, Launched, Own, Outstanding, Taken
      <4> QED BY <1>0, <2>1, <3>1, <3>2, <4>1, RunSame DEF TypeInv
    <3>3. CASE k = target
      <4>1. ~ Outstanding(k) /\ Launching(k) /\ Outstanding(k)' /\ ~ Launching(k)'
        BY <2>1, <2>2, <3>1, <3>3 DEF Launching, Launched, Own, Outstanding
      <4>2. run'[k] = "working" /\ reg[k] = LOCK /\ started[k] = ended[k] + 1
        BY <1>0, <3>1, <3>3, <4>1 DEF TypeInv, RunInv
      <4> QED BY <2>1, <3>1, <4>1, <4>2 DEF RunInv
    <3> QED BY <3>2, <3>3
  <2> QED BY <1>6, <2>4, <2>5, <2>6, <2>7
<1>7. CASE WaitRead /\ UNCHANGED queueVars
  <2>1. /\ place = "wait" /\ reg[target] # LOCK
        /\ place' = (IF reg[target] = awaited THEN "woken" ELSE "waitPut")
        /\ reg' = [reg EXCEPT ![target] = LOCK]
        /\ UNCHANGED <<target, run, started, ended, events, done, command>>
    BY <1>7 DEF WaitRead, Take
  <2>2. Unfinished(k)' = Unfinished(k)
    BY <2>1, UnfinishedSame
  <2>3. CASE k # target
    <3>1. Launching(k)' = Launching(k) /\ Outstanding(k)' = Outstanding(k)
      BY <2>1, <2>2, <2>3 DEF Launching, Launched, Own, Outstanding, Taken
    <3> QED BY <1>0, <2>1, <2>3, <3>1, RunSame DEF TypeInv
  <2>4. CASE k = target
    <3>1. Unfinished(k) /\ awaited = READ
      BY <1>0, <2>1, <2>4, WaitedTask DEF Waiting, Unfinished
    <3>2. Outstanding(k) /\ ~ Launching(k)
      BY <2>1, <3>1 DEF Outstanding, Taken, Launching, Own
    <3>3. run[k] = "none" /\ reg[k] = READ /\ started[k] = ended[k]
      BY <1>0, <2>1, <2>4, <3>2 DEF RunInv
    <3>4. ~ Outstanding(k)' /\ ~ Launching(k)'
      BY <2>1, <2>4, <3>1, <3>3 DEF Outstanding, Taken, Launching, Launched, Own
    <3>5. reg'[k] = LOCK
      BY <1>0, <2>1, <2>4 DEF TypeInv
    <3> QED BY <2>1, <3>3, <3>4, <3>5 DEF RunInv
  <2> QED BY <2>3, <2>4
<1>8. CASE WaitWriteBack /\ UNCHANGED queueVars
  <2>1. /\ place = "waitPut" /\ place' = "wait" /\ target \in Buffer
        /\ UNCHANGED <<run, started, ended, events, done, command>>
    BY <1>0, <1>8 DEF PlaceInv, WaitWriteBack, Waiting
  <2>2. reg'[k] = reg[k]
    BY <1>0, <1>8, <2>1 DEF TypeInv, WaitWriteBack, Put
  <2>3. Launching(k)' = Launching(k) /\ Outstanding(k)' = Outstanding(k)
    BY <2>1, UnfinishedSame DEF Launching, Launched, Own, Outstanding, Taken
  <2> QED BY <1>0, <2>1, <2>2, <2>3, RunSame
<1>9. CASE NotifyTaskStop /\ UNCHANGED queueVars
  <2>1. /\ place = "woken" /\ place' = "awake"
        /\ UNCHANGED <<reg, target, run, started, ended, events, done, command>>
    BY <1>9 DEF NotifyTaskStop
  <2> QED
    BY <1>a, <2>1, UnfinishedSame DEF Launching, Launched, Own, Outstanding, Taken
<1>10. ASSUME NEW l \in Kernel, KernelAnnounces(l), UNCHANGED queueVars PROVE RunInv(k)'
  <2>1. /\ UNCHANGED <<place, target, started, ended, events, done, command>>
        /\ run[l] = "working" /\ run' = [run EXCEPT ![l] = "closing"]
        /\ reg'[k] = reg[k]
    BY <1>10 DEF KernelAnnounces
  <2>2. Launching(k)' = Launching(k) /\ Outstanding(k)' = Outstanding(k)
    BY <2>1, UnfinishedSame DEF Launching, Launched, Own, Outstanding, Taken
  <2>3. CASE k # l
    BY <1>0, <2>1, <2>2, <2>3, RunSame DEF TypeInv
  <2>4. CASE k = l
    <3>1. run'[k] = "closing"
      BY <1>0, <2>1, <2>4 DEF TypeInv
    <3> QED BY <1>0, <2>1, <2>2, <2>4, <3>1 DEF RunInv
  <2> QED BY <2>3, <2>4
<1>11. ASSUME NEW l \in Kernel, KernelCloses(l), UNCHANGED queueVars PROVE RunInv(k)'
  <2>1. /\ UNCHANGED <<place, target, started, events, done, command>>
        /\ run[l] = "closing" /\ run' = [run EXCEPT ![l] = "none"]
        /\ ended' = [ended EXCEPT ![l] = @ + 1]
        /\ Put(l, READ)
    BY <1>11 DEF KernelCloses
  <2>2. Launching(k)' = Launching(k) /\ Outstanding(k)' = Outstanding(k)
    BY <2>1, UnfinishedSame DEF Launching, Launched, Own, Outstanding, Taken
  <2>3. CASE k # l
    BY <1>0, <2>1, <2>2, <2>3, RunSame DEF TypeInv, Put
  <2>4. CASE k = l
    <3>1. Outstanding(k) /\ reg[k] = LOCK /\ started[k] = ended[k] + 1
      BY <1>0, <2>1, <2>4 DEF RunInv
    <3>2. run'[k] = "none" /\ reg'[k] = READ /\ ended'[k] = ended[k] + 1
      BY <1>0, <2>1, <2>4, <3>1 DEF TypeInv, Put
    <3> QED BY <2>1, <2>2, <3>1, <3>2 DEF RunInv
  <2> QED BY <2>3, <2>4
<1>12. CASE UNCHANGED clVars
  BY <1>a, <1>12, UnfinishedSame DEF clVars, launchVars, Launching, Launched, Own, Outstanding,
     Taken
<1> QED
  BY <1>1, <1>2, <1>3, <1>4, <1>5, <1>6, <1>7, <1>8, <1>9, <1>10, <1>11, <1>12 DEF Steps

\* A step that changes neither what the manager knows of a kernel nor what it
\* should know leaves NotifyInv.
LEMMA NotifySame ==
  ASSUME NEW k \in Kernel, NotifyInv(k),
         notified'[k] = notified[k], callback'[k] = callback[k],
         Launching(k)' = Launching(k), Launched(k)' = Launched(k),
         Own(k, {"started"})' = Own(k, {"started"}),
         Unfinished(k)' = Unfinished(k),
         (place = "awake" /\ target = k)' = (place = "awake" /\ target = k)
  PROVE  NotifyInv(k)'
BY DEF NotifyInv

\* NotifyInv is preserved: NotifyTaskStart and NotifyTaskStop alternate.
LEMMA NotifyNext ==
  ASSUME IInv, Steps \/ UNCHANGED clVars
  PROVE  \A k \in Kernel : NotifyInv(k)'
<1> USE DEF Goto
<1> SUFFICES ASSUME NEW k \in Kernel PROVE NotifyInv(k)'
  OBVIOUS
<1>0. /\ TypeInv /\ PlaceInv /\ ListInv /\ TasksInv
      /\ \A l \in Kernel : NotifyInv(l)
  BY DEF IInv
<1>a. ASSUME UNCHANGED <<notified, callback, events, done>>,
             Launching(k)' = Launching(k), Launched(k)' = Launched(k),
             Own(k, {"started"})' = Own(k, {"started"}),
             (place = "awake" /\ target = k)' = (place = "awake" /\ target = k)
      PROVE  NotifyInv(k)'
  BY <1>0, <1>a, UnfinishedSame, NotifySame
<1>1. ASSUME NEW type, NEW on, NEW list, Asks(type, on, list) PROVE NotifyInv(k)'
  <2>1. /\ place = "idle" /\ place' = "list"
        /\ UNCHANGED <<notified, callback, events, done>>
    BY <1>1 DEF Asks, Call
  <2> QED
    BY <1>a, <2>1 DEF Launching, Launched, Own
<1>2. CASE Waits \/ Transfer \/ WaitReturns \/ FinishReturns \/ FinishPop
  <2>1. /\ place = "list" /\ place' \in {"wait", "copy", "idle", "list"}
        /\ UNCHANGED <<notified, callback, events, done>>
    BY <1>2 DEF Waits, WaitForEvent, WaitFor, Transfer, WaitReturns, FinishReturns, FinishPop,
       Return
  <2> QED
    BY <1>a, <2>1 DEF Launching, Launched, Own
<1>3. CASE SetStatus
  <2>1. /\ place = "awake" /\ place' = "list"
        /\ UNCHANGED <<notified, callback, target>>
    BY <1>3 DEF SetStatus
  <2>2. Unfinished(k)' <=> Unfinished(k) /\ target # k
    BY <1>0, <1>3, StatusFacts
  <2> QED
    BY <1>0, <2>1, <2>2 DEF NotifyInv, Launching, Launched, Own
<1>4. CASE StartTask
  <2>1. /\ place = "list" /\ place' = "load"
        /\ command.type = "task" /\ command.on \in Kernel /\ target' = command.on
        /\ notified' = [notified EXCEPT ![command.on] = @ + 1]
        /\ UNCHANGED <<callback, events, done, command>>
    BY <1>0, <1>4 DEF TypeInv, StartTask, NotifyTaskStart
  <2>2. ~ Unfinished(command.on)
    BY <1>0, <1>4, <2>1, NothingUnfinished DEF StartTask, ListDone
  <2>3. Unfinished(k)' = Unfinished(k)
    BY <2>1, UnfinishedSame
  <2>4. CASE k # command.on
    <3>1. notified'[k] = notified[k]
      BY <1>0, <2>1, <2>4 DEF TypeInv
    <3> QED
      BY <1>0, <2>1, <2>3, <2>4, <3>1, NotifySame DEF Launching, Launched, Own
  <2>5. CASE k = command.on
    <3>1. /\ ~ Launching(k) /\ ~ Launched(k) /\ ~ Unfinished(k) /\ ~ Unfinished(k)'
          /\ Launching(k)' /\ ~ Own(k, {"started"})'
      BY <2>1, <2>2, <2>3, <2>5 DEF Launching, Launched, Own
    <3>2. notified[k] = 0
      BY <1>0, <3>1 DEF NotifyInv
    <3>3. notified'[k] = 1
      BY <1>0, <2>1, <2>5, <3>2 DEF TypeInv
    <3> QED BY <3>1, <3>3 DEF NotifyInv
  <2> QED BY <2>4, <2>5
<1>5. CASE PushEvent
  <2>1. /\ place \in {"started", "copy"} /\ place' = "idle"
        /\ UNCHANGED <<notified, callback>>
    BY <1>5 DEF PushEvent, Return
  <2>2. Unfinished(k)' <=> Unfinished(k) \/ Own(k, {"started"})
    BY <1>0, <1>5, PushUnfinished
  <2> QED
    BY <1>0, <2>1, <2>2 DEF NotifyInv, Launching, Launched, Own
<1>6. CASE /\ WriteImage \/ ClearTermination \/ RunKernel \/ LaunchFails
           /\ UNCHANGED queueVars
  <2>1. /\ UNCHANGED <<notified, callback, command, events, done>>
        /\ \/ place = "load" /\ place' \in {"clear", "crashed"}
           \/ place = "clear" /\ place' = "run"
           \/ place = "run" /\ place' \in {"callback", "crashed"}
    BY <1>6 DEF WriteImage, ClearTermination, RunKernel, LaunchFails
  <2>2. UnfinishedTasksOf(k)' = UnfinishedTasksOf(k) /\ Unfinished(k)' = Unfinished(k)
    BY <2>1, UnfinishedSame DEF UnfinishedTasksOf, Tasks
  <2>3. /\ Launching(k)' \/ Launched(k)' <=> Launching(k) \/ Launched(k)
        /\ ~ Own(k, {"started"})'
        /\ place # "awake" /\ place' # "awake"
    BY <2>1 DEF Launching, Launched, Own
  <2> QED
    BY <1>0, <2>1, <2>2, <2>3 DEF NotifyInv
<1>7. CASE SetCallback /\ UNCHANGED queueVars
  <2>1. /\ UNCHANGED <<notified, command, events, done>>
        /\ place = "callback" /\ place' = "started"
        /\ target = command.on /\ target \in Kernel
        /\ callback' = [callback EXCEPT ![target] = TRUE]
    BY <1>0, <1>7 DEF TypeInv, PlaceInv, Launch, SetCallback
  <2>2. Unfinished(k)' = Unfinished(k)
    BY <2>1, UnfinishedSame
  <2>3. /\ Launching(k)' = Launching(k) /\ Launched(k)' = Launched(k)
        /\ Own(k, {"started"})' => k = target
    BY <2>1 DEF Launching, Launched, Own
  <2>4. callback'[k] = (IF k = target THEN TRUE ELSE callback[k])
    BY <1>0, <2>1 DEF TypeInv
  <2> QED
    BY <1>0, <2>1, <2>2, <2>3, <2>4 DEF NotifyInv
<1>8. CASE (WaitRead \/ WaitWriteBack) /\ UNCHANGED queueVars
  <2>1. /\ UNCHANGED <<notified, callback, command, events, done>>
        /\ place \in {"wait", "waitPut"} /\ place' \in {"wait", "waitPut", "woken"}
    BY <1>8 DEF WaitRead, WaitWriteBack
  <2> QED
    BY <1>a, <2>1 DEF Launching, Launched, Own
<1>9. CASE NotifyTaskStop /\ UNCHANGED queueVars
  <2>1. /\ place = "woken" /\ place' = "awake"
        /\ UNCHANGED <<callback, target, command, events, done>>
        /\ notified' = IF target \in Kernel /\ callback[target]
                       THEN [notified EXCEPT ![target] = @ - 1] ELSE notified
    BY <1>9 DEF NotifyTaskStop
  <2>2. Unfinished(k)' = Unfinished(k)
    BY <2>1, UnfinishedSame
  <2>3. /\ ~ Launching(k) /\ ~ Launching(k)' /\ ~ Launched(k) /\ ~ Launched(k)'
        /\ ~ Own(k, {"started"})'
    BY <2>1 DEF Launching, Launched, Own
  <2>4. CASE k # target
    <3>1. notified'[k] = notified[k]
      BY <1>0, <2>1, <2>4 DEF TypeInv
    <3> QED BY <1>0, <2>1, <2>2, <2>3, <2>4, <3>1 DEF NotifyInv
  <2>5. CASE k = target
    <3>1. Unfinished(k)
      BY <1>0, <2>1, <2>5, WaitedTask DEF Waiting, Unfinished
    <3>2. notified[k] = 1 /\ callback[k]
      BY <1>0, <2>1, <3>1 DEF NotifyInv
    <3>3. notified'[k] = 0
      BY <1>0, <2>1, <2>5, <3>2 DEF TypeInv
    <3> QED BY <2>1, <2>3, <2>5, <3>2, <3>3 DEF NotifyInv
  <2> QED BY <2>4, <2>5
<1>10. ASSUME NEW l \in Kernel, KernelAnnounces(l) \/ KernelCloses(l), UNCHANGED queueVars
       PROVE  NotifyInv(k)'
  <2>1. UNCHANGED <<place, target, notified, callback, command, events, done>>
    BY <1>10 DEF KernelAnnounces, KernelCloses
  <2> QED
    BY <1>a, <2>1 DEF Launching, Launched, Own
<1>11. CASE UNCHANGED clVars
  BY <1>a, <1>11 DEF clVars, launchVars, Launching, Launched, Own
<1> QED
  BY <1>1, <1>2, <1>3, <1>4, <1>5, <1>6, <1>7, <1>8, <1>9, <1>10, <1>11 DEF Steps

\* The inductive invariant holds initially ...
LEMMA InvInit == ClInit => IInv
<1> SUFFICES ASSUME ClInit PROVE IInv
  OBVIOUS
<1>1. TypeInv
  BY TypeInit
<1>2. /\ place = "idle" /\ events = <<>> /\ done = {} /\ todo = {}
      /\ command = NoCommand /\ command.type = "none"
      /\ DOMAIN events = {}
  BY DEF ClInit, LaunchInit, NoCommand
<1>3. Tasks = {}
  BY <1>2 DEF Tasks
<1>4. PlaceInv
  BY <1>2 DEF PlaceInv, Launch, Waiting
<1>5. ListInv /\ TasksInv /\ QueueInv
  BY <1>2, <1>3 DEF ListInv, Needed, TasksInv, QueueInv
<1>6. ASSUME NEW k \in Kernel PROVE RunInv(k) /\ NotifyInv(k)
  <2>1. /\ ~ Unfinished(k) /\ ~ Launching(k) /\ ~ Launched(k) /\ ~ Own(k, {"started"})
    BY <1>2, <1>3 DEF Unfinished, UnfinishedTasksOf, Launching, Launched, Own
  <2>2. run[k] = "none" /\ reg[k] = LOCK /\ started[k] = 0 /\ ended[k] = 0 /\ notified[k] = 0
    BY DEF ClInit, LaunchInit
  <2> QED BY <2>1, <2>2 DEF RunInv, NotifyInv, Outstanding
<1> QED BY <1>1, <1>4, <1>5, <1>6 DEF IInv

\* ... and after every step.
LEMMA InvNext ==
  ASSUME ~ RestartUnwaited, IInv, [ClNext]_clVars
  PROVE  IInv'
<1>1. Steps \/ UNCHANGED clVars
  BY NextSteps DEF IInv
<1> QED
  BY <1>1, TypeNext, PlaceNext, ListNext, TasksNext, QueueNext, RunNext, NotifyNext DEF IInv

\* So it always holds, for every number of kernels, buffers and commands.
THEOREM Invariance ==
  ASSUME ~ RestartUnwaited
  PROVE  ClSpec => []IInv
<1>1. ClInit => IInv
  BY InvInit
<1>2. IInv /\ [ClNext]_clVars => IInv'
  BY InvNext
<1> QED BY <1>1, <1>2, PTL DEF ClSpec
-----------------------------------------------------------------------------
\* All variables keep their types, and wait lists and queue name real events.
THEOREM TypeCorrect ==
  ASSUME ~ RestartUnwaited
  PROVE  ClSpec => []ClTypeOK
<1>1. IInv => ClTypeOK
  BY DEF IInv, TypeInv, Places, ClTypeOK
<1> QED BY <1>1, Invariance, PTL

\* A kernel that runs has an unfinished task, or is the command under way.
LEMMA RunningIsKnown ==
  ASSUME IInv, NEW k \in Kernel, run[k] # "none"
  PROVE  Launched(k) \/ (Unfinished(k) /\ ~ Taken(k))
BY DEF IInv, RunInv, Outstanding

\* The wait lists keep apart what shares a buffer (NoOverlap): the host copies
\* no buffer of a running kernel, and kernels that run side by side share none.
THEOREM OverlapIsExcluded ==
  ASSUME ~ RestartUnwaited
  PROVE  ClSpec => []NoOverlap
<1>1. ASSUME IInv PROVE NoOverlap
  <2>1. TypeInv /\ PlaceInv /\ ListInv /\ TasksInv
    BY <1>1 DEF IInv
  <2>2. ASSUME NEW k \in Kernel, Unfinished(k)
        PROVE  \E i \in Tasks \ done : events[i].on = k
    BY <2>2 DEF Unfinished, UnfinishedTasksOf
  <2>3. ASSUME place = "copy", NEW k \in Kernel, run[k] # "none"
        PROVE  command.on \notin Uses[k]
    <3>1. Needed = {} /\ command.type \in {"read", "write"}
      BY <2>1, <2>3, NothingNeeded DEF PlaceInv
    <3>2. UnfinishedTasksOn({command.on}) = {}
      BY <3>1 DEF Needed
    <3>3. Unfinished(k)
      BY <1>1, <2>3, RunningIsKnown DEF Launched, Own
    <3> QED BY <2>2, <3>2, <3>3 DEF UnfinishedTasksOn
  <2>4. ASSUME NEW k \in Kernel, Launched(k), NEW l \in Kernel, Unfinished(l)
        PROVE  Uses[k] \cap Uses[l] = {}
    <3>1. Needed = {} /\ command.type = "task" /\ command.on = k
      BY <2>1, <2>4, NothingNeeded DEF PlaceInv, Launched, Own, Launch
    <3>2. UnfinishedTasksOn(Uses[k]) = {}
      BY <3>1 DEF Needed
    <3> QED BY <2>2, <2>4, <3>2 DEF UnfinishedTasksOn
  <2>5. ASSUME NEW k \in Kernel, NEW l \in Kernel, k # l, Unfinished(k), Unfinished(l)
        PROVE  Uses[k] \cap Uses[l] = {}
    BY <2>1, <2>2, <2>5 DEF TasksInv
  <2>6. ASSUME NEW k \in Kernel, NEW l \in Kernel, k # l, run[k] # "none", run[l] # "none"
        PROVE  Uses[k] \cap Uses[l] = {}
    <3>1. Launched(k) \/ Unfinished(k)
      BY <1>1, <2>6, RunningIsKnown
    <3>2. Launched(l) \/ Unfinished(l)
      BY <1>1, <2>6, RunningIsKnown
    <3>3. ~ (Launched(k) /\ Launched(l))
      BY <2>6 DEF Launched, Own
    <3>4. CASE Launched(k) /\ Unfinished(l)
      BY <2>4, <3>4
    <3>5. CASE Launched(l) /\ Unfinished(k)
      BY <2>4, <3>5
    <3>6. CASE Unfinished(k) /\ Unfinished(l)
      BY <2>5, <2>6, <3>6
    <3> QED BY <3>1, <3>2, <3>3, <3>4, <3>5, <3>6
  <2> QED BY <2>3, <2>6 DEF NoOverlap
<1> QED BY <1>1, Invariance, PTL

\* A task's event reports CL_COMPLETE only when that very run has ended, although
\* all tasks of a kernel share its termination event (CompleteMeansEnded).
THEOREM CompleteTasksEnded ==
  ASSUME ~ RestartUnwaited
  PROVE  ClSpec => []CompleteMeansEnded
<1>1. ASSUME IInv PROVE CompleteMeansEnded
  <2>1. TypeInv /\ \A i \in Tasks \cap done : events[i].nth <= ended[events[i].on]
    BY <1>1 DEF IInv, TasksInv
  <2>2. \A i \in Tasks : events[i].nth \in Nat /\ ended[events[i].on] \in Nat
    BY <2>1, EventFacts DEF TypeInv, Tasks
  <2> QED BY <2>1, <2>2 DEF CompleteMeansEnded
<1> QED BY <1>1, Invariance, PTL

\* When the queue is empty, no task is unfinished.
LEMMA EmptyQueue ==
  ASSUME IInv, queue = <<>>
  PROVE  done = DOMAIN events /\ \A k \in Kernel : ~ Unfinished(k)
<1>1. DOMAIN queue = {}
  OBVIOUS
<1>2. done = DOMAIN events
  BY <1>1 DEF IInv, TypeInv, QueueInv
<1> QED BY <1>2 DEF Unfinished, UnfinishedTasksOf, Tasks

\* When clFinish has emptied the queue nothing runs (FinishMeansIdle).
THEOREM FinishLeavesIdle ==
  ASSUME ~ RestartUnwaited
  PROVE  ClSpec => []FinishMeansIdle
<1>1. ASSUME IInv PROVE FinishMeansIdle
  BY <1>1, EmptyQueue, RunningIsKnown DEF FinishMeansIdle, Launched, Own
<1> QED BY <1>1, Invariance, PTL

\* The resource manager's task count is right (TaskAccounting).
THEOREM TasksAreAccounted ==
  ASSUME ~ RestartUnwaited
  PROVE  ClSpec => []TaskAccounting
<1>1. ASSUME IInv PROVE TaskAccounting
  <2>1. ASSUME NEW k \in Kernel, run[k] # "none" PROVE notified[k] > 0
    <3>1. Launched(k) \/ (Unfinished(k) /\ ~ Taken(k))
      BY <1>1, <2>1, RunningIsKnown
    <3>2. Launched(k) \/ (Unfinished(k) /\ ~ (place = "awake" /\ target = k))
      BY <3>1 DEF Taken
    <3>3. notified[k] = 1
      BY <1>1, <3>2 DEF IInv, NotifyInv
    <3> QED BY <3>3
  <2>2. ASSUME NEW k \in Kernel, place = "idle", queue = <<>> PROVE notified[k] = 0
    <3>1. ~ Unfinished(k) /\ ~ Launching(k) /\ ~ Launched(k)
      BY <1>1, <2>2, EmptyQueue DEF Launching, Launched, Own
    <3> QED BY <1>1, <3>1 DEF IInv, NotifyInv
  <2> QED BY <2>1, <2>2 DEF TaskAccounting
<1> QED BY <1>1, Invariance, PTL
-----------------------------------------------------------------------------
(***************************************************************************)
(* Refinement: the queue implements Commands.                              *)
(***************************************************************************)
\* The begun commands: the events, and the command under way.
LEMMA BegunFacts ==
  ASSUME TypeInv, PlaceInv
  PROVE  /\ ~ Underway => Begun = events
         /\ Underway => /\ command.type \in {"task", "read", "write"}
                        /\ Len(Begun) = Len(events) + 1
                        /\ \A i \in DOMAIN events : Begun[i] = events[i]
                        /\ Begun[Len(events) + 1] = EventOf(command)
         /\ Begun \in Seq(CommandEvent) /\ Len(Begun) \in Nat
         /\ DOMAIN Begun = 1 .. Len(Begun) /\ DOMAIN events = 1 .. Len(events)
         /\ Len(events) \in Nat
<1>1. events \in Seq(CommandEvent) /\ Len(events) \in Nat /\ DOMAIN events = 1 .. Len(events)
  BY LenProperties DEF TypeInv
<1>2. CASE Underway
  <2>1. command.type \in {"task", "read", "write"} /\ EventOf(command) \in CommandEvent
    BY <1>2, NewEvent DEF PlaceInv, Underway, Launch
  <2>2. /\ Append(events, EventOf(command)) \in Seq(CommandEvent)
        /\ Len(Append(events, EventOf(command))) = Len(events) + 1
        /\ \A i \in 1 .. Len(events) : Append(events, EventOf(command))[i] = events[i]
        /\ Append(events, EventOf(command))[Len(events) + 1] = EventOf(command)
    BY <1>1, <2>1, AppendProperties
  <2>3. Begun = Append(events, EventOf(command))
    BY <1>2 DEF Begun
  <2>4. DOMAIN Begun = 1 .. Len(Begun)
    BY <2>2, <2>3, LenProperties
  <2> QED BY <1>1, <1>2, <2>1, <2>2, <2>3, <2>4
<1>3. CASE ~ Underway
  BY <1>1, <1>3 DEF Begun
<1> QED BY <1>2, <1>3

Told == [type : {"task", "read", "write"}, on : Kernel \cup Buffer]

\* What Commands knows of them.
LEMMA PromisedFacts ==
  ASSUME TypeInv, PlaceInv
  PROVE  /\ PromisedBegun \in Seq(Told) /\ Len(PromisedBegun) = Len(Begun)
         /\ DOMAIN PromisedBegun = 1 .. Len(Begun)
         /\ \A i \in 1 .. Len(Begun) :
              PromisedBegun[i] = [type |-> Begun[i].type, on |-> Begun[i].on]
<1>1. Begun \in Seq(CommandEvent) /\ Len(Begun) \in Nat /\ DOMAIN Begun = 1 .. Len(Begun)
  BY BegunFacts
<1>2. \A i \in 1 .. Len(Begun) : [type |-> Begun[i].type, on |-> Begun[i].on] \in Told
  <2>1. \A i \in 1 .. Len(Begun) : Begun[i] \in CommandEvent
    BY <1>1, ElementOfSeq
  <2> QED BY <2>1 DEF CommandEvent, Told
<1>3. PromisedBegun \in [1 .. Len(Begun) -> Told]
  BY <1>1, <1>2 DEF PromisedBegun
<1>4. PromisedBegun \in Seq(Told) /\ Len(PromisedBegun) = Len(Begun)
  BY <1>1, <1>3
<1> QED BY <1>1, <1>3, <1>4 DEF PromisedBegun

\* A step that moves the application neither into a command nor out of one, and
\* ends no task, is a stutter of Commands.
LEMMA Stutters ==
  ASSUME UNCHANGED <<events, done, command, todo, ended>>,
         \/ Underway /\ Underway' /\ started' = started
         \/ ~ Underway /\ ~ Underway'
  PROVE  UNCHANGED Promise!vars
<1>1. CASE Underway /\ Underway' /\ started' = started
  <2>1. Begun' = Begun /\ PromisedCall' = PromisedCall
    BY <1>1 DEF Begun, EventOf, PromisedCall
  <2> QED BY <1>1, <2>1 DEF Promise!vars, PromisedBegun, PromisedActive, Active
<1>2. CASE ~ Underway /\ ~ Underway'
  <2>1. Begun' = Begun /\ PromisedCall' = PromisedCall
    BY <1>2 DEF Begun, PromisedCall
  <2> QED BY <1>2, <2>1 DEF Promise!vars, PromisedBegun, PromisedActive, Active
<1> QED BY <1>1, <1>2

\* Appending the event of the command that the application is in.
LEMMA WithCommand ==
  ASSUME TypeInv, command.type \in {"task", "read", "write"}
  PROVE  LET longer == Append(events, EventOf(command)) IN
         /\ longer \in Seq(CommandEvent) /\ Len(longer) = Len(events) + 1
         /\ DOMAIN longer = 1 .. Len(events) + 1
         /\ \A i \in 1 .. Len(events) : longer[i] = events[i]
         /\ longer[Len(events) + 1] = EventOf(command)
<1>1. events \in Seq(CommandEvent) /\ EventOf(command) \in CommandEvent /\ Len(events) \in Nat
  BY NewEvent, LenProperties DEF TypeInv
<1> DEFINE longer == Append(events, EventOf(command))
<1>2. /\ longer \in Seq(CommandEvent) /\ Len(longer) = Len(events) + 1
      /\ \A i \in 1 .. Len(events) : longer[i] = events[i]
      /\ longer[Len(events) + 1] = EventOf(command)
  BY <1>1, AppendProperties
<1>3. DOMAIN longer = 1 .. Len(longer)
  BY <1>2, LenProperties
<1> QED BY <1>2, <1>3

\* A step into a command whose list is done is Begin.
LEMMA Begins ==
  ASSUME TypeInv, PlaceInv,
         UNCHANGED <<events, done, command, todo, started, ended>>,
         ~ Underway, Underway', todo \subseteq done,
         command.type \in {"task", "read", "write"},
         command.type = "task" => started[command.on] = ended[command.on] + 1
  PROVE  Promise!Begin
<1> DEFINE longer == Append(events, EventOf(command))
           told == [type |-> command.type, on |-> command.on]
           n == Len(events)
<1>1. /\ n \in Nat /\ DOMAIN events = 1 .. n /\ Begun = events /\ Begun' = longer
      /\ events \in Seq(CommandEvent)
  BY LenProperties DEF TypeInv, Begun, EventOf
<1>2. /\ DOMAIN longer = 1 .. n + 1
      /\ \A i \in 1 .. n : longer[i] = events[i]
      /\ longer[n + 1].type = command.type /\ longer[n + 1].on = command.on
      /\ command.type = "task" => longer[n + 1].nth = started[command.on]
  BY WithCommand, NewEvent
<1> HIDE DEF longer
<1>3. PromisedBegun' = Append(PromisedBegun, told)
  <2>1. /\ PromisedBegun \in Seq(Told) /\ Len(PromisedBegun) = n
        /\ \A i \in 1 .. n : PromisedBegun[i] = [type |-> events[i].type, on |-> events[i].on]
    BY <1>1, PromisedFacts
  <2>2. told \in Told
    BY DEF TypeInv, Told
  <2>3. /\ Append(PromisedBegun, told) \in Seq(Told)
        /\ Len(Append(PromisedBegun, told)) = n + 1
        /\ \A i \in 1 .. n : Append(PromisedBegun, told)[i] = PromisedBegun[i]
        /\ Append(PromisedBegun, told)[n + 1] = told
    BY <2>1, <2>2, AppendProperties
  <2>4. PromisedBegun' = [i \in 1 .. n + 1 |-> [type |-> longer[i].type, on |-> longer[i].on]]
    BY <1>1, <1>2 DEF PromisedBegun
  <2>5. \A i \in 1 .. n + 1 : PromisedBegun'[i] = Append(PromisedBegun, told)[i]
    <3>1. \A i \in 1 .. n : PromisedBegun'[i] = PromisedBegun[i]
      BY <1>1, <1>2, <2>1, <2>4
    <3>2. PromisedBegun'[n + 1] = told
      BY <1>1, <1>2, <2>4
    <3> QED BY <1>1, <2>3, <3>1, <3>2
  <2>6. \A i \in 1 .. n + 1 : PromisedBegun'[i] \in Told
    <3>1. \A i \in 1 .. n : PromisedBegun[i] \in Told
      BY <2>1, ElementOfSeq
    <3> QED BY <1>1, <2>2, <2>3, <2>5, <3>1
  <2>7. PromisedBegun' \in Seq(Told) /\ Len(PromisedBegun') = n + 1
    <3>1. PromisedBegun' \in [1 .. n + 1 -> Told]
      BY <2>4, <2>6
    <3> QED BY <1>1, <3>1
  <2> QED BY <2>3, <2>5, <2>7, SeqEqual
<1>4. PromisedActive' = PromisedActive \cup {Len(PromisedBegun) + 1}
  <2>1. Len(PromisedBegun) = n
    BY <1>1, PromisedFacts
  <2>2. \A i \in 1 .. n : Active(i)' <=> Active(i)
    BY <1>1, <1>2 DEF Active
  <2>3. Active(n + 1)'
    BY <1>1, <1>2 DEF Active, TypeInv
  <2> QED BY <1>1, <1>2, <2>1, <2>2, <2>3 DEF PromisedActive
<1>5. /\ PromisedCall.type = command.type /\ PromisedCall.on = command.on
      /\ PromisedCall.list = todo
      /\ PromisedCall' = [PromisedCall EXCEPT !.type = "begun"]
  BY DEF PromisedCall
<1> QED BY <1>3, <1>4, <1>5 DEF Promise!Begin, Promise!Transfers

\* A call is Request.
LEMMA Requests ==
  ASSUME TypeInv, PlaceInv, NEW type, NEW on, NEW list, Asks(type, on, list)
  PROVE  Promise!Next
<1>1. /\ ~ Underway /\ ~ Underway' /\ command = NoCommand /\ todo = {}
      /\ command' = [type |-> type, on |-> on] /\ todo' = list
      /\ UNCHANGED <<events, done, ended>>
  BY DEF PlaceInv, Asks, Call, Goto, Underway
<1>2. Begun = events /\ Begun' = events
  BY <1>1 DEF Begun
<1>3. UNCHANGED <<PromisedBegun, PromisedActive, done>>
  BY <1>1, <1>2 DEF PromisedBegun, PromisedActive, Active
<1>4. /\ PromisedCall = Promise!NoCall
      /\ PromisedCall' = [type |-> type, on |-> on, list |-> list]
  BY <1>1 DEF PromisedCall, Promise!NoCall, NoCommand
<1>5. list \in SUBSET DOMAIN PromisedBegun
  BY <1>2 DEF Asks, PromisedBegun
<1>6. Promise!Request(type, on, list)
  BY <1>3, <1>4 DEF Promise!Request
<1>7. /\ type \in Promise!Transfers \cup {"task", "wait", "finish"}
      /\ on \in (Kernel \cup Buffer) \cup {"none"}
  BY DEF Asks, Promise!Transfers
<1> QED BY <1>5, <1>6, <1>7 DEF Promise!Next

\* Creating the event is the end of a transfer, and the return of a task's call.
LEMMA Pushes ==
  ASSUME TypeInv, PlaceInv, PushEvent
  PROVE  Promise!TaskReturns \/ Promise!TransferEnds
<1> DEFINE longer == Append(events, EventOf(command))
<1>0. PICK n \in Nat : n = Len(events)
  BY LenProperties DEF TypeInv
<1>1. /\ Underway /\ ~ Underway' /\ command' = NoCommand /\ todo' = {}
      /\ command.type \in {"task", "read", "write"}
      /\ events' = longer /\ UNCHANGED <<done, ended>>
  BY DEF PlaceInv, PushEvent, Return, Goto, Underway, Launch, unitVars
<1>2. Begun = longer /\ Begun' = longer
  BY <1>1 DEF Begun
<1>3. /\ DOMAIN longer = 1 .. n + 1 /\ Len(longer) = n + 1
      /\ \A i \in 1 .. n : longer[i] = events[i]
      /\ longer[n + 1].type = command.type
  BY <1>0, <1>1, WithCommand, NewEvent
<1> HIDE DEF longer
<1>4. /\ PromisedBegun' = PromisedBegun
      /\ Len(PromisedBegun) = n + 1 /\ PromisedBegun[n + 1].type = command.type
  BY <1>2, <1>3, PromisedFacts DEF PromisedBegun
<1>5. PromisedCall.type = "begun" /\ PromisedCall' = Promise!NoCall
  BY <1>1 DEF PromisedCall, Promise!NoCall, NoCommand
<1>6. \A i \in 1 .. n : Active(i)' <=> Active(i)
  BY <1>0, <1>1, <1>2, <1>3 DEF Active
<1>7. CASE command.type = "task"
  <2>1. Active(n + 1)' <=> Active(n + 1)
    BY <1>0, <1>1, <1>2, <1>3, <1>7 DEF Active
  <2>2. PromisedActive' = PromisedActive
    BY <1>2, <1>3, <1>6, <2>1 DEF PromisedActive
  <2> QED BY <1>1, <1>4, <1>5, <1>7, <2>2 DEF Promise!TaskReturns
<1>8. CASE command.type \in {"read", "write"}
  <2>1. ~ Active(n + 1)'
    BY <1>0, <1>1, <1>2, <1>3, <1>8 DEF Active
  <2>2. PromisedActive' = PromisedActive \ {n + 1}
    BY <1>2, <1>3, <1>6, <2>1 DEF PromisedActive
  <2> QED
    BY <1>1, <1>4, <1>5, <1>8, <2>2 DEF Promise!TransferEnds, Promise!Transfers
<1> QED BY <1>1, <1>7, <1>8

\* A step outside of the commands that leaves the call leaves the state of
\* Commands, apart from the ends of tasks and what is complete.
LEMMA Outside ==
  ASSUME ~ Underway, ~ Underway', UNCHANGED <<events, command, todo, ended>>
  PROVE  UNCHANGED <<PromisedCall, PromisedBegun, PromisedActive>>
<1>1. Begun' = events /\ Begun = events
  BY DEF Begun
<1> QED BY <1>1 DEF PromisedCall, PromisedBegun, PromisedActive, Active

\* Setting the status of the event that was waited for is Complete.
LEMMA Completes ==
  ASSUME IInv, SetStatus, TasksInv'
  PROVE  Promise!Next
<1>1. TypeInv /\ PlaceInv
  BY DEF IInv
<1>2. /\ ~ Underway /\ ~ Underway' /\ Begun = events
      /\ current \in DOMAIN events /\ done' = done \cup {current}
      /\ UNCHANGED <<events, command, todo, ended>>
  BY <1>1 DEF PlaceInv, SetStatus, Goto, Underway, Waiting, Begun, unitVars
<1>3. UNCHANGED <<PromisedCall, PromisedBegun, PromisedActive>>
  BY <1>2, Outside
<1>4. events[current].type = "task" => events[current].nth <= ended[events[current].on]
  BY <1>2 DEF TasksInv, Tasks
<1>5. current \notin PromisedActive
  <2>1. /\ current \in 1 .. Len(events) /\ Len(events) \in Nat
        /\ events[current].nth \in Nat
        /\ events[current].type = "task" => ended[events[current].on] \in Nat
    BY <1>1, <1>2, EventFacts, LenProperties DEF TypeInv
  <2> QED BY <1>2, <1>4, <2>1 DEF PromisedActive, Active
<1>6. current \in DOMAIN PromisedBegun
  BY <1>2 DEF PromisedBegun
<1>7. Promise!Complete(current)
  BY <1>2, <1>3, <1>5, <1>6 DEF Promise!Complete
<1> QED BY <1>6, <1>7 DEF Promise!Next

\* The end of a kernel is the end of the one task of it that is active.
LEMMA Ends ==
  ASSUME IInv, NEW k \in Kernel, KernelCloses(k), UNCHANGED queueVars
  PROVE  Promise!Next
<1>1. TypeInv /\ PlaceInv /\ ListInv /\ TasksInv /\ RunInv(k)
  BY DEF IInv
<1>2. /\ UNCHANGED <<place, events, done, command, todo, started>>
      /\ ended' = [ended EXCEPT ![k] = @ + 1] /\ run[k] # "none"
  BY DEF KernelCloses, hostVars, managerVars
<1>3. started[k] = ended[k] + 1 /\ ended[k] \in Nat /\ (Launched(k) \/ Unfinished(k))
  BY <1>1, <1>2 DEF RunInv, Outstanding, TypeInv
<1>4. Begun' = Begun /\ UNCHANGED <<PromisedCall, PromisedBegun>>
  BY <1>2 DEF Begun, EventOf, Underway, PromisedCall, PromisedBegun
<1>5. DOMAIN Begun = 1 .. Len(Begun) /\ DOMAIN events = 1 .. Len(events) /\ Len(events) \in Nat
      /\ Begun \in Seq(CommandEvent)
  BY <1>1, BegunFacts
\* The tasks of k: those that have ended, and the unfinished one or the one
\* under way.
<1> DEFINE IsUnfinished(i) == i \in Tasks \ done /\ events[i] = Begun[i]
           IsUnderway(i) == Launched(k) /\ i = Len(events) + 1
<1>6. Launched(k) => /\ ~ Unfinished(k)
                     /\ Begun[Len(events) + 1] = EventOf(command)
                     /\ Len(events) + 1 \in DOMAIN Begun
                     /\ command.type = "task" /\ command.on = k
  <2> SUFFICES ASSUME Launched(k)
               PROVE  /\ ~ Unfinished(k) /\ command.type = "task" /\ command.on = k
                      /\ Begun[Len(events) + 1] = EventOf(command)
                      /\ Len(events) + 1 \in DOMAIN Begun
    OBVIOUS
  <2>1. Underway /\ command.type = "task" /\ command.on = k /\ todo \subseteq done
    BY <1>1 DEF Launched, Own, Underway, PlaceInv, Launch
  <2>2. ~ Unfinished(k)
    BY <1>1, <2>1, NothingUnfinished
  <2> QED BY <1>1, <1>5, <2>1, <2>2, BegunFacts
<1>7. ASSUME NEW j \in DOMAIN Begun, Begun[j].type = "task", Begun[j].on = k
      PROVE  Begun[j].nth <= ended[k] \/ IsUnfinished(j) \/ IsUnderway(j)
  <2>1. CASE j \in DOMAIN events
    <3>1. Begun[j] = events[j]
      <4>1. Underway => Begun[j] = events[j]
        BY <1>1, <2>1, BegunFacts
      <4>2. ~ Underway => Begun[j] = events[j]
        BY <1>1, BegunFacts
      <4> QED BY <4>1, <4>2
    <3>2. j \in Tasks /\ events[j].on = k
      BY <1>7, <2>1, <3>1 DEF Tasks
    <3>3. CASE j \in done
      <4>1. events[j].nth <= ended[events[j].on]
        BY <1>1, <3>2, <3>3 DEF TasksInv
      <4> QED BY <3>1, <3>2, <4>1
    <3>4. CASE j \notin done
      BY <3>1, <3>2, <3>4
    <3> QED BY <3>3, <3>4
  <2>2. CASE j \notin DOMAIN events
    <3>1. Underway /\ j = Len(events) + 1 /\ Begun[j] = EventOf(command)
      <4>1. Underway
        BY <1>1, <2>2, BegunFacts
      <4>2. Len(Begun) = Len(events) + 1
        BY <1>1, <4>1, BegunFacts
      <4>3. j = Len(events) + 1
        BY <1>5, <2>2, <4>2
      <4> QED BY <1>1, <4>1, <4>3, BegunFacts
    <3>2. command.type = "task" /\ command.on = k
      BY <1>1, <1>7, <3>1, BegunFacts, NewEvent
    <3>3. place \in {"callback", "started"}
      BY <1>1, <3>1, <3>2 DEF Underway, PlaceInv
    <3>4. Launched(k)
      BY <3>2, <3>3 DEF Launched, Own
    <3> QED BY <3>1, <3>4
  <2> QED BY <2>1, <2>2
<1>8. \E i \in DOMAIN Begun : /\ IsUnfinished(i) \/ IsUnderway(i)
                              /\ Begun[i].type = "task" /\ Begun[i].on = k
                              /\ Begun[i].nth = started[k]
  <2>1. CASE Launched(k)
    BY <1>1, <1>6, <2>1, NewEvent
  <2>2. CASE Unfinished(k)
    <3>1. PICK i \in Tasks \ done : events[i].on = k
      BY <2>2 DEF Unfinished, UnfinishedTasksOf
    <3>2. i \in DOMAIN events /\ events[i].type = "task" /\ events[i].nth = started[k]
      BY <1>1, <3>1 DEF Tasks, TasksInv
    <3>3. i \in DOMAIN Begun /\ Begun[i] = events[i]
      <4>1. CASE Underway
        BY <1>1, <1>5, <3>2, <4>1, BegunFacts
      <4>2. CASE ~ Underway
        BY <1>1, <3>2, <4>2, BegunFacts
      <4> QED BY <4>1, <4>2
    <3> QED BY <3>1, <3>2, <3>3
  <2> QED BY <1>3, <2>1, <2>2
<1>9. PICK i \in DOMAIN Begun : /\ IsUnfinished(i) \/ IsUnderway(i)
                                /\ Begun[i].type = "task" /\ Begun[i].on = k
                                /\ Begun[i].nth = started[k]
  BY <1>8
<1>10. ASSUME NEW j \in DOMAIN Begun, j # i, Begun[j].type = "task", Begun[j].on = k
       PROVE  Begun[j].nth <= ended[k]
  <2>1. ASSUME NEW l \in DOMAIN Begun, IsUnfinished(l), Begun[l].on = k PROVE Unfinished(k)
    BY <2>1 DEF Unfinished, UnfinishedTasksOf
  <2>2. ~ (IsUnfinished(i) /\ IsUnfinished(j))
    BY <1>1, <1>9, <1>10 DEF TasksInv
  <2> QED BY <1>6, <1>7, <1>9, <1>10, <2>1, <2>2
<1> HIDE DEF IsUnfinished, IsUnderway
<1>11. ASSUME NEW j \in DOMAIN Begun PROVE Active(j)' <=> Active(j) /\ j # i
  <2>1. Active(j)' <=> IF Begun[j].type = "task" THEN Begun[j].nth > ended'[Begun[j].on]
                                                 ELSE j > Len(events)
    BY <1>2, <1>4 DEF Active
  <2>2. Begun[j] \in CommandEvent
    BY <1>5, ElementOfSeq
  <2>3. CASE Begun[j].type = "task" /\ Begun[j].on = k
    <3>1. ended'[k] = ended[k] + 1 /\ Begun[j].nth \in Nat
      BY <1>1, <1>2, <2>2 DEF TypeInv, CommandEvent
    <3>2. CASE j = i
      BY <1>3, <1>9, <2>1, <2>3, <3>1, <3>2
    <3>3. CASE j # i
      BY <1>3, <1>10, <2>1, <2>3, <3>1, <3>3 DEF Active
    <3> QED BY <3>2, <3>3
  <2>4. CASE Begun[j].type = "task" /\ Begun[j].on # k
    <3>1. ended'[Begun[j].on] = ended[Begun[j].on] /\ j # i
      BY <1>1, <1>2, <1>9, <2>4 DEF TypeInv
    <3> QED BY <2>1, <2>4, <3>1 DEF Active
  <2>5. CASE Begun[j].type # "task"
    BY <1>9, <2>1, <2>5 DEF Active
  <2> QED BY <2>3, <2>4, <2>5
<1>12. Active(i)
  BY <1>3, <1>9 DEF Active
<1>13. i \in PromisedActive /\ PromisedActive' = PromisedActive \ {i}
  BY <1>4, <1>11, <1>12 DEF PromisedActive
<1>14. i \in DOMAIN PromisedBegun /\ PromisedBegun[i].type = "task"
  BY <1>9 DEF PromisedBegun
<1>15. Promise!TaskEnds(i)
  BY <1>2, <1>4, <1>13, <1>14 DEF Promise!TaskEnds
<1> QED BY <1>14, <1>15 DEF Promise!Next

\* Returning from clWaitForEvents or clFinish is WaitReturns: clFinish has taken
\* all events off the queue, and what is not complete is in the queue.
LEMMA CallReturns ==
  ASSUME IInv, WaitReturns \/ FinishReturns
  PROVE  Promise!WaitReturns
<1>1. /\ ~ Underway /\ ~ Underway' /\ command' = NoCommand /\ todo' = {}
      /\ UNCHANGED <<events, done, ended>>
  BY DEF WaitReturns, FinishReturns, Return, Goto, Underway, unitVars
<1>2. Begun = events /\ Begun' = events
  BY <1>1 DEF Begun
<1>3. UNCHANGED <<PromisedBegun, PromisedActive, done>>
  BY <1>1, <1>2 DEF PromisedBegun, PromisedActive, Active
<1>4. /\ PromisedCall.type = command.type /\ PromisedCall.list = todo
      /\ PromisedCall' = Promise!NoCall
  BY <1>1 DEF PromisedCall, Promise!NoCall, NoCommand
<1>5. DOMAIN PromisedBegun = DOMAIN events
  BY <1>2 DEF PromisedBegun
<1>6. CASE WaitReturns
  BY <1>3, <1>4, <1>6 DEF Promise!WaitReturns, WaitReturns
<1>7. CASE FinishReturns
  BY <1>3, <1>4, <1>5, <1>7, EmptyQueue DEF Promise!WaitReturns, FinishReturns
<1> QED BY <1>6, <1>7

\* Every step of the queue is one of Commands, or changes nothing there.
LEMMA StepPromise ==
  ASSUME ~ RestartUnwaited, IInv, [ClNext]_clVars
  PROVE  [Promise!Next]_(Promise!vars)
<1> USE DEF Goto
<1>0. TypeInv /\ PlaceInv /\ ListInv /\ \A k \in Kernel : RunInv(k)
  BY DEF IInv
<1>s. Steps \/ UNCHANGED clVars
  BY <1>0, NextSteps
<1>1. ASSUME NEW type, NEW on, NEW list, Asks(type, on, list)
      PROVE  [Promise!Next]_(Promise!vars)
  BY <1>0, <1>1, Requests
<1>2. CASE Waits \/ StartTask \/ FinishPop
  <2>1. /\ ~ Underway /\ ~ Underway'
        /\ UNCHANGED <<events, done, command, todo, ended>>
    BY <1>2 DEF Waits, WaitForEvent, WaitFor, StartTask, NotifyTaskStart, FinishPop, Underway
  <2> QED BY <2>1, Stutters
<1>3. CASE SetStatus
  BY <1>s, <1>3, TasksNext, Completes
<1>4. CASE WaitReturns \/ FinishReturns
  BY <1>4, CallReturns DEF Promise!Next
<1>5. CASE Transfer
  <2>1. /\ ~ Underway /\ Underway' /\ todo \subseteq done
        /\ command.type \in {"read", "write"}
        /\ UNCHANGED <<events, done, command, todo, started, ended>>
    BY <1>5 DEF Transfer, ListDone, Underway
  <2> QED BY <1>0, <2>1, Begins DEF Promise!Next
<1>6. CASE PushEvent
  BY <1>0, <1>6, Pushes DEF Promise!Next
<1>7. CASE RunKernel /\ UNCHANGED queueVars
  <2>1. /\ ~ Underway /\ Underway' /\ todo \subseteq done
        /\ command.type = "task" /\ command.on \in Kernel
        /\ place = "run"
        /\ UNCHANGED <<events, done, command, todo, started, ended>>
    BY <1>0, <1>7 DEF TypeInv, PlaceInv, Launch, RunKernel, Underway
  <2>2. ~ Outstanding(command.on) /\ Launching(command.on)
    BY <1>0, <2>1, NothingUnfinished DEF Outstanding, Launched, Launching, Own
  <2>3. started[command.on] = ended[command.on] + 1
    BY <1>0, <2>1, <2>2 DEF RunInv
  <2> QED BY <1>0, <2>1, <2>3, Begins DEF Promise!Next
<1>8. CASE (WriteImage \/ ClearTermination \/ LaunchFails) /\ UNCHANGED queueVars
  <2>1. ~ Underway /\ ~ Underway' /\ UNCHANGED <<events, done, command, todo, ended>>
    BY <1>8 DEF WriteImage, ClearTermination, LaunchFails, Underway
  <2> QED BY <2>1, Stutters
<1>9. CASE SetCallback /\ UNCHANGED queueVars
  <2>1. /\ Underway /\ Underway' /\ started' = started
        /\ UNCHANGED <<events, done, command, todo, ended>>
    BY <1>9 DEF SetCallback, Underway
  <2> QED BY <2>1, Stutters
<1>10. CASE (WaitRead \/ WaitWriteBack \/ NotifyTaskStop) /\ UNCHANGED queueVars
  <2>1. ~ Underway /\ ~ Underway' /\ UNCHANGED <<events, done, command, todo, ended>>
    BY <1>10 DEF WaitRead, WaitWriteBack, NotifyTaskStop, Underway
  <2> QED BY <2>1, Stutters
<1>11. ASSUME NEW k \in Kernel, KernelAnnounces(k), UNCHANGED queueVars
       PROVE  [Promise!Next]_(Promise!vars)
  <2>1. UNCHANGED <<place, started, events, done, command, todo, ended>>
    BY <1>11 DEF KernelAnnounces
  <2>2. Underway' = Underway
    BY <2>1 DEF Underway
  <2> QED BY <2>1, <2>2, Stutters DEF Underway
<1>12. ASSUME NEW k \in Kernel, KernelCloses(k), UNCHANGED queueVars
       PROVE  [Promise!Next]_(Promise!vars)
  BY <1>12, Ends
<1>13. CASE UNCHANGED clVars
  BY <1>13, Stutters DEF clVars, launchVars, Underway
<1> QED
  BY <1>s, <1>1, <1>2, <1>3, <1>4, <1>5, <1>6, <1>7, <1>8, <1>9, <1>10, <1>11, <1>12, <1>13
  DEF Steps

\* The initial state of the queue is one of Commands.
LEMMA InitPromise == ClInit => Promise!Init
<1> SUFFICES ASSUME ClInit PROVE Promise!Init
  OBVIOUS
<1>1. events = <<>> /\ ~ Underway /\ done = {} /\ todo = {} /\ command = NoCommand
  BY DEF ClInit, LaunchInit, Underway
<1>2. Begun = <<>> /\ DOMAIN Begun = {}
  BY <1>1 DEF Begun
<1>3. PromisedBegun = <<>> /\ PromisedActive = {}
  BY <1>2 DEF PromisedBegun, PromisedActive
<1> QED BY <1>1, <1>3 DEF Promise!Init, Promise!NoCall, PromisedCall, NoCommand

\* The queue, its shared registers and its wait loops implement Commands.
THEOREM Refinement ==
  ASSUME ~ RestartUnwaited
  PROVE  ClSpec => ImplementsCommands
<1>1. IInv /\ [ClNext]_clVars => [Promise!Next]_(Promise!vars)
  BY StepPromise
<1> QED BY <1>1, InitPromise, Invariance, PTL DEF ClSpec, ImplementsCommands, Promise!Spec
==============================================================================
