------------------------------ MODULE TaskGroup ------------------------------
(***************************************************************************)
(* A work group of device threads: mango_spawn starts the threads, each    *)
(* runs sections of code separated by mango_barrier and ends in            *)
(* mango_exit, and the kernel's main function waits for all of them in     *)
(* mango_join and finally signals the host with mango_close.               *)
(*                                                                         *)
(* All of it is built from the take-and-put of SynchRegister, one register *)
(* operation at a time, and each operation is one action here: the threads *)
(* interleave between any two of them.                                     *)
(*                                                                         *)
(* The three registers of a group hold                                     *)
(*   event_a  1 + the number of threads that have not exited,              *)
(*   event_b  1 + the number of threads the barrier still waits for,       *)
(*   event_r  1 or 2, the colour of the last barrier that opened;          *)
(* event_exit is the kernel's termination event, and fifo the event of the *)
(* FIFO buffer a barrier may be given.                                     *)
(***************************************************************************)
EXTENDS SynchRegister, FiniteSets

CONSTANTS
  Thread,        \* the threads of a group; mango_spawn's range is their number
  Main,          \* the kernel's main function
  Barriers,      \* how many times every thread calls mango_barrier
  Groups,        \* how many groups main spawns, one after the other
  WaitRestores,  \* mango_wait writes the value it waited for back as well: TRUE in
                 \* dev/src/mango_hn.c, FALSE in the gn/, peak/ and nuplus/ that are built
  WithFifo       \* the barriers are called with a FIFO event

ASSUME ThreadAssumption == IsFiniteSet(Thread) /\ Main \notin Thread
ASSUME BoundAssumption == Barriers \in Nat /\ Groups \in Nat
ASSUME VariantAssumption == WaitRestores \in BOOLEAN /\ WithFifo \in BOOLEAN

VARIABLES
  pc,       \* pc[p]: where p is, between two of its register operations
  val,      \* val[p]: the register value p holds, 0 when it holds none
  go,       \* go[t]: mango_barrier's local go
  calls,    \* calls[t]: how many times t has called mango_barrier
  spawned,  \* how many groups main has spawned
  opened    \* history: how many times this group's barrier has opened

vars == <<reg, pc, val, go, calls, spawned, opened>>

Proc == Thread \cup {Main}
Event == {"event_a", "event_b", "event_r", "event_exit", "fifo"}
N == Cardinality(Thread)

\* Where main can be, and where a thread can be.
MainPlace == {"serial", "join", "joinPut", "closed"}
ThreadPlace ==
  {"unborn", "section", "exitPut", "exited", "enterPut", "signal", "signalPut",
   "wait", "waitPut", "fifoLock", "fifoRequest", "fifoWait", "fifoWaitPut",
   "fifoTake", "fifoAccept", "rearm", "rearmPut", "release", "releasePut"}
-----------------------------------------------------------------------------
(***************************************************************************)
(* Steps shared by the operations.  Lock and Write are mango_lock and      *)
(* mango_write_synchronization; WaitLock and WaitPut are the two halves of *)
(* one iteration of mango_wait, which leaves for the place done once it    *)
(* has read state.                                                         *)
(***************************************************************************)
Lock(p, e) ==
  /\ Take(e)
  /\ val' = [val EXCEPT ![p] = reg[e]]

Write(p, e, v) ==
  /\ Put(e, v)
  /\ val' = [val EXCEPT ![p] = 0]

Goto(p, from, to) ==
  /\ pc[p] = from
  /\ pc' = [pc EXCEPT ![p] = to]

Kept == UNCHANGED <<go, calls, spawned, opened>>

LockStep(p, e, from, to) == Goto(p, from, to) /\ Lock(p, e) /\ Kept
WriteStep(p, e, v, from, to) == Goto(p, from, to) /\ Write(p, e, v) /\ Kept

\* Mutant of WrittenBack: the awaited value is kept by whoever reads it.
WrittenBackUnlessAwaited(value, state) == value # state

\* The values mango_wait writes back to the register it has read.
WrittenBack(value, state) == WaitRestores \/ value # state

WaitLock(p, e, state, waiting, holding, done) ==
  /\ Goto(p, waiting, IF WrittenBack(reg[e], state) THEN holding ELSE done)
  /\ Take(e)
  /\ val' = [val EXCEPT ![p] = IF WrittenBack(reg[e], state) THEN reg[e] ELSE 0]
  /\ Kept

WaitPut(p, e, state, waiting, holding, done) ==
  WriteStep(p, e, val[p], holding, IF val[p] = state THEN done ELSE waiting)
-----------------------------------------------------------------------------
(***************************************************************************)
(* Main.  mango_spawn stores into the registers directly, without the      *)
(* semaphore, before it creates the first thread; a thread created late is *)
(* a thread that has not moved yet.  "serial" is main's own code.  This is *)
(* the mango_spawn of gn: peak and nuplus have a stub without threads.     *)
(***************************************************************************)
Spawn ==
  /\ pc[Main] = "serial"
  /\ spawned < Groups
  /\ spawned' = spawned + 1
  /\ reg' = [reg EXCEPT !["event_a"] = N + 1, !["event_b"] = N + 1, !["event_r"] = 2]
  /\ pc' = [p \in Proc |-> IF p = Main THEN "join" ELSE "section"]
  /\ calls' = [t \in Thread |-> 0]
  /\ opened' = 0
  /\ UNCHANGED <<val, go>>

\* Mutant of JoinPut: one thread may still be running.
JoinPutEarly ==
  WaitPut(Main, "event_a", 2, "join", "joinPut", "serial")

JoinLock ==
  WaitLock(Main, "event_a", READ, "join", "joinPut", "serial")

JoinPut ==
  WaitPut(Main, "event_a", READ, "join", "joinPut", "serial")

Close ==
  /\ spawned = Groups
  /\ Goto(Main, "serial", "closed")
  /\ Write(Main, "event_exit", 1)
  /\ Kept
-----------------------------------------------------------------------------
(***************************************************************************)
(* mango_barrier.  A thread first learns the colour of the last opening    *)
(* (EnterLock, EnterPut), then counts itself in (SignalLock, SignalPut).   *)
(* All but the last wait for the other colour; the last one does the FIFO  *)
(* handshake if there is one, rearms the counter and changes the colour.   *)
(***************************************************************************)
\* Mutant of OtherColour: the colours are counted down.
ColourBefore(c) == c - 1

OtherColour(c) == IF c = 1 THEN 2 ELSE 1

EnterLock(t) ==
  /\ calls[t] < Barriers
  /\ Goto(t, "section", "enterPut")
  /\ Lock(t, "event_r")
  /\ go' = [go EXCEPT ![t] = OtherColour(reg["event_r"])]
  /\ calls' = [calls EXCEPT ![t] = @ + 1]
  /\ UNCHANGED <<spawned, opened>>

EnterPut(t) == WriteStep(t, "event_r", val[t], "enterPut", "signal")

SignalLock(t) == LockStep(t, "event_b", "signal", "signalPut")

\* Mutant of IsLast: off by one.
IsNextToLast(count) == count <= 2

\* Who has counted itself in last has left 1 in the counter.
IsLast(count) == count <= 1

SignalPut(t) ==
  LET count == val[t] - 1 IN
  /\ Goto(t, "signalPut",
          IF ~ IsLast(count) THEN "wait"
          ELSE IF WithFifo THEN "fifoLock" ELSE "rearm")
  /\ Write(t, "event_b", count)
  /\ Kept

ReleaseWait(t) ==
  WaitLock(t, "event_r", go[t], "wait", "waitPut", "section")

ReleaseWaitPut(t) ==
  WaitPut(t, "event_r", go[t], "wait", "waitPut", "section")

(***************************************************************************)
(* The FIFO handshake: unless the host has already marked the buffer READ, *)
(* ask for the next block with WRITE and wait for READ; then take the      *)
(* register (again, the wait is over) and mark the block accepted.         *)
(***************************************************************************)
\* Mutant of BlockReady: an accepted block counts as a new one.
NotRequested(value) == value # WRITE

BlockReady(value) == value = READ

FifoAnswer(value) == IF BlockReady(value) THEN "fifoAccept" ELSE "fifoRequest"

FifoLock(t) == LockStep(t, "fifo", "fifoLock", FifoAnswer(reg["fifo"]))

FifoRequest(t) == WriteStep(t, "fifo", WRITE, "fifoRequest", "fifoWait")

FifoWait(t) ==
  WaitLock(t, "fifo", READ, "fifoWait", "fifoWaitPut", "fifoTake")

FifoWaitPut(t) ==
  WaitPut(t, "fifo", READ, "fifoWait", "fifoWaitPut", "fifoTake")

FifoTake(t) == LockStep(t, "fifo", "fifoTake", "fifoAccept")

FifoAccept(t) == WriteStep(t, "fifo", END_FIFO_OPERATION, "fifoAccept", "rearm")

\* Mutant of Rearm: the counter is rewritten without taking it first.
RearmUnlocked(t) ==
  /\ Goto(t, "rearm", "rearmPut")
  /\ UNCHANGED <<reg, val, go, calls, spawned, opened>>

Rearm(t) == LockStep(t, "event_b", "rearm", "rearmPut")

RearmPut(t) == WriteStep(t, "event_b", N + 1, "rearmPut", "release")

Release(t) == LockStep(t, "event_r", "release", "releasePut")

ReleasePut(t) ==
  /\ Goto(t, "releasePut", "section")
  /\ Write(t, "event_r", go[t])
  /\ opened' = opened + 1
  /\ UNCHANGED <<go, calls, spawned>>
-----------------------------------------------------------------------------
\* mango_exit.
ExitLock(t) ==
  /\ calls[t] = Barriers
  /\ Goto(t, "section", "exitPut")
  /\ Lock(t, "event_a")
  /\ Kept

ExitPut(t) == WriteStep(t, "event_a", val[t] - 1, "exitPut", "exited")
-----------------------------------------------------------------------------
\* Resource allocation has drained every event register, and then written
\* WRITE into those of the buffers (BBQContext::from_bbque).
InitWith(mainPlace) ==
  /\ reg = [e \in Event |-> IF e = "fifo" THEN WRITE ELSE LOCK]
  /\ pc = [p \in Proc |-> IF p = Main THEN mainPlace ELSE "unborn"]
  /\ val = [p \in Proc |-> 0]
  /\ go = [t \in Thread |-> 1]
  /\ calls = [t \in Thread |-> 0]
  /\ spawned = 0
  /\ opened = 0

Init == InitWith("serial")

MainStep == Spawn \/ JoinLock \/ JoinPut \/ Close

BarrierStep(t) ==
  \/ EnterLock(t)   \/ EnterPut(t)
  \/ SignalLock(t)  \/ SignalPut(t)
  \/ ReleaseWait(t) \/ ReleaseWaitPut(t)
  \/ Rearm(t)       \/ RearmPut(t)
  \/ Release(t)     \/ ReleasePut(t)

FifoStep(t) ==
  \/ FifoLock(t) \/ FifoRequest(t) \/ FifoWait(t) \/ FifoWaitPut(t)
  \/ FifoTake(t) \/ FifoAccept(t)

ExitStep(t) == ExitLock(t) \/ ExitPut(t)

ThreadStep(t) == BarrierStep(t) \/ FifoStep(t) \/ ExitStep(t)

DeviceStep == MainStep \/ \E t \in Thread : ThreadStep(t)

\* The kernel process has called exit().
Exited == pc[Main] = "closed" /\ UNCHANGED vars

Next == DeviceStep \/ Exited

Spec == Init /\ [][Next]_vars

(***************************************************************************)
(* The device threads are preemptively scheduled and the register accesses *)
(* are serialised by a semaphore, so a thread that keeps finding its       *)
(* register non-zero at some of its attempts eventually takes it: a thread *)
(* that polls sleeps between putting the value back and its next attempt   *)
(* (mango_gn_suspend).                                                     *)
(***************************************************************************)
Fairness ==
  /\ SF_vars(MainStep)
  /\ \A t \in Thread : SF_vars(ThreadStep(t))

FairSpec == Spec /\ Fairness
-----------------------------------------------------------------------------
TypeOK ==
  /\ reg \in [Event -> Nat]
  /\ pc \in [Proc -> MainPlace \cup ThreadPlace]
  /\ pc[Main] \in MainPlace
  /\ \A t \in Thread : pc[t] \in ThreadPlace
  /\ val \in [Proc -> Nat]
  /\ go \in [Thread -> {1, 2}]
  /\ calls \in [Thread -> Nat]
  /\ spawned \in Nat
  /\ opened \in Nat
-----------------------------------------------------------------------------
(***************************************************************************)
(* Safety.                                                                 *)
(***************************************************************************)
\* p holds the value of register e: it has read it and not written it back.
Holds(p, e) ==
  \/ e = "event_a" /\ pc[p] \in {"joinPut", "exitPut"}
  \/ e = "event_b" /\ pc[p] \in {"signalPut", "rearmPut"}
  \/ e = "event_r" /\ pc[p] \in {"enterPut", "waitPut", "releasePut"}
  \/ e = "fifo"    /\ pc[p] \in {"fifoRequest", "fifoWaitPut", "fifoAccept"}

\* A register value is a token: nobody holds the value of a register that is
\* non-zero, and no two processes hold the value of the same one.  Each
\* take-and-put pair of mango_hn.c relies on it to be a critical section.
OneHolder ==
  \A e \in Event : \A p \in Proc :
    Holds(p, e) =>
      /\ reg[e] = LOCK
      /\ \A q \in Proc : Holds(q, e) => q = p

\* The completed sections: calls counts a barrier from its first step on,
\* and a thread has arrived there once mango_signal has returned.
Arrived(t) ==
  IF pc[t] \in {"enterPut", "signal", "signalPut"} THEN calls[t] - 1 ELSE calls[t]

\* Nobody is past its k-th mango_barrier before everybody has arrived at its
\* own k-th ("wait for all threads to complete a section of code"), although
\* the registers are reused by every barrier and a slow thread may still be
\* polling for an opening its siblings have long left behind.
BarrierSafety ==
  \A t, u \in Thread :
    pc[t] \in {"section", "exitPut", "exited"} => Arrived(u) >= calls[t]

\* mango_join returns, and main reuses the registers or reports the end of
\* the kernel, only when no thread will touch a register again.
JoinSafety ==
  pc[Main] \in {"serial", "closed"} =>
    \A t \in Thread : pc[t] \in {"unborn", "exited"}

\* Apart from mango_spawn, which runs alone, every write finds its register
\* at 0: storing (GN emulation) and adding (hardware) are then the same, and
\* no write destroys a value somebody has not seen.
WritesFindZero ==
  [][\/ Spawn
     \/ \A e \in Event : reg[e] # LOCK => reg'[e] \in {LOCK, reg[e]}]_vars

(***************************************************************************)
(* The inductive invariant behind these properties.                        *)
(***************************************************************************)
Entering == {"enterPut", "signal", "signalPut"}
Waiting  == {"wait", "waitPut"}
Opening  == {"release", "releasePut"}   \* the counter is rearmed already
Leading  == {"fifoLock", "fifoRequest", "fifoWait", "fifoWaitPut", "fifoTake",
             "fifoAccept", "rearm", "rearmPut"} \cup Opening

\* The colour the n-th opening of a barrier leaves in event_r.
Colour(n) == IF n % 2 = 0 THEN 2 ELSE 1

\* The threads that have arrived at the barrier that is not open yet, and
\* those that have exited.
Here == {t \in Thread : calls[t] = opened + 1 /\ pc[t] \notin Entering}
Gone == {t \in Thread : pc[t] = "exited"}

\* The threads of a group are born together, and nobody runs beside serial code.
Lifecycle ==
  /\ pc[Main] \in {"join", "joinPut"} => \A t \in Thread : pc[t] # "unborn"
  /\ JoinSafety
  /\ pc[Main] # "closed" => reg["event_exit"] = LOCK

\* Each thread is at the barrier that opens next, or has just left the
\* one that opened last.
Progress ==
  \A t \in Thread :
    /\ pc[t] \in {"unborn", "section", "exitPut", "exited"} => calls[t] = opened
    /\ pc[t] \in Entering \cup Leading => calls[t] = opened + 1
    /\ calls[t] \in {opened, opened + 1}
    /\ pc[t] \in {"exitPut", "exited"} => calls[t] = Barriers
    /\ calls[t] <= Barriers

\* The colour in event_r is that of the last opening, and every thread in a
\* barrier waits for that barrier's own colour.
Colours ==
  /\ pc[Main] \in {"join", "joinPut"} => reg["event_r"] \in {LOCK, Colour(opened)}
  /\ \A t \in Thread :
       /\ pc[t] \in Entering \cup Waiting \cup Leading => go[t] = Colour(calls[t])
       /\ pc[t] \in {"enterPut", "waitPut"} => val[t] = Colour(opened)

\* A thread leads the barrier when all others are waiting at it.
Leader ==
  \A t \in Thread : pc[t] \in Leading =>
    \A u \in Thread \ {t} : pc[u] \in Waiting /\ calls[u] = opened + 1

\* event_b counts the missing threads, and event_a those that still run.
Counters ==
  /\ (\A t \in Thread : pc[t] \notin Opening) =>
       LET missing == N + 1 - Cardinality(Here) IN
       /\ pc[Main] \in {"join", "joinPut"} => reg["event_b"] \in {LOCK, missing}
       /\ \A t \in Thread : pc[t] = "signalPut" => val[t] = missing
  /\ (\E t \in Thread : pc[t] \in Opening) => reg["event_b"] = N + 1
  /\ LET running == N + 1 - Cardinality(Gone) IN
       /\ pc[Main] \in {"join", "joinPut"} => reg["event_a"] \in {LOCK, running}
       /\ \A p \in Proc : pc[p] \in {"exitPut", "joinPut"} => val[p] = running

\* OneHolder, BarrierSafety and JoinSafety hold because of all of this, and
\* the types do too: the counters never run below zero.
IInv ==
  /\ TypeOK /\ OneHolder
  /\ Lifecycle /\ Progress /\ Colours /\ Leader /\ Counters

\* What a thread and main are doing in terms of ForkJoin.
Stage(t) ==
  IF pc[t] \in {"unborn", "exited"} THEN pc[t]
  ELSE IF pc[t] \in {"section", "exitPut"} \cup Entering THEN "running" ELSE "waiting"

MainStage == IF pc[Main] = "joinPut" THEN "join" ELSE pc[Main]

Promise == INSTANCE ForkJoin WITH
  at <- [t \in Thread |-> Stage(t)],
  done <- [t \in Thread |-> Arrived(t)],
  master <- MainStage,
  forked <- spawned

\* Every behaviour of the work group is one of ForkJoin.
ImplementsForkJoin == Promise!Spec
-----------------------------------------------------------------------------
(***************************************************************************)
(* Liveness.                                                               *)
(***************************************************************************)
\* A thread that has counted itself in at a barrier leaves it.
BarrierOpens ==
  \A t \in Thread : pc[t] = "signalPut" ~> pc[t] = "section"

\* Every spawned group is joined, and the kernel terminates.
Terminates == <>(pc[Main] = "closed")
=============================================================================
