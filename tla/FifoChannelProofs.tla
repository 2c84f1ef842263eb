-------------------------- MODULE FifoChannelProofs --------------------------
(***************************************************************************)
(* Proofs about FifoChannel, for every number of threads, barriers, blocks *)
(* and transfers, both variants of mango_wait, both kinds of register and  *)
(* both orders of waiting.                                                 *)
(*                                                                         *)
(* What the threads of the kernel do among themselves is settled by IInv   *)
(* of TaskGroup, whose proof is used as it is: the host touches registers  *)
(* of the group only while nobody holds them.                              *)
(***************************************************************************)
EXTENDS FifoChannel, TaskGroupProofs

\* The kernel reads the buffer with one group of threads, as a block has one number.
OneReader == WithFifo /\ Groups <= 1

\* Places of the handshake in mango_barrier: a block has been asked for, and
\* has been accepted while the barrier is still closed.
Requesting == {"fifoWait", "fifoWaitPut", "fifoTake"}
Closing == {"rearm", "rearmPut", "release", "releasePut"}
At(S) == \E t \in Thread : pc[t] \in S

\* The bytes of n blocks.
Size(n) == n * BufferSize

AppPlace == {"write", "start", "kernel", "buffer", "bufferPut", "join"}
TaskPlace == {"none", "wait", "waitPut", "copy", "copying", "announce", "returned"}

HostType ==
  /\ hpc \in [Host -> AppPlace \cup TaskPlace]
  /\ hpc["app"] \in AppPlace /\ hpc["fifo_task"] \in TaskPlace
  /\ hval \in [Host -> Nat]
  /\ off \in Nat /\ mem \in Nat /\ transfers \in 0..Transfers
  /\ first \in {"kernel", "buffer"}

Copying == hpc["fifo_task"] \in {"copy", "copying", "announce"}
TaskOwns == hpc["fifo_task"] = "waitPut" \/ Copying
AppOwns == hpc["app"] = "bufferPut"

\* v is the value in the register of the buffer's event, or held by somebody who
\* has read it in a wait and will write it back.
Value(v) ==
  \/ reg["fifo"] = v /\ v # LOCK
  \/ hpc["fifo_task"] = "waitPut" /\ hval["fifo_task"] = v
  \/ AppOwns /\ hval["app"] = v
  \/ \E t \in Thread : pc[t] = "fifoWaitPut" /\ val[t] = v

\* The value has been consumed: nobody has it, and nobody will write another.
Lost ==
  /\ reg["fifo"] = LOCK /\ ~ TaskOwns /\ ~ AppOwns
  /\ ~ At({"fifoRequest", "fifoWaitPut", "fifoAccept"})

\* Host and device, and the two threads of the host, exclude each other.
OwnerInv ==
  /\ TaskOwns \/ AppOwns => reg["fifo"] = LOCK /\ \A t \in Thread : ~ Holds(t, "fifo")
  /\ ~ (TaskOwns /\ AppOwns)

\* What the value means.  WRITE, and the host copying: the host may replace the
\* block, for a block has been asked for or is the first.  READ: the next block
\* is there.  END_FIFO_OPERATION: it has been accepted.
TokenInv ==
  /\ \A v \in Nat : Value(v) => v \in {READ, WRITE, END_FIFO_OPERATION}
  /\ Value(WRITE) \/ Copying =>
       /\ off = Size(opened) /\ ~ At({"fifoTake"} \cup Closing)
       /\ opened = 0 \/ At({"fifoWait", "fifoWaitPut"})
  /\ Value(READ) =>
       /\ mem = opened + 1 /\ off = Size(opened + 1) /\ ~ At(Closing)
       /\ opened = 0 \/ At(Requesting)
  /\ Value(END_FIFO_OPERATION) =>
       /\ ~ At(Requesting)
       /\ At(Closing) => off = Size(opened + 1)
       /\ ~ At(Closing) => off = Size(opened) /\ opened > 0
  /\ At({"fifoAccept"}) => mem = opened + 1 /\ off = Size(opened + 1)
  /\ At({"fifoRequest"}) => off = Size(opened)

\* The block in the buffer is that of the last barrier that opened, as long as
\* a thread may be working behind it, and that of the next one once it has been
\* copied or accepted.
BlockInv ==
  /\ opened > 0 /\ (\E t \in Thread : calls[t] = opened) => mem = opened
  /\ At(Closing) \/ hpc["fifo_task"] = "announce" => mem = opened + 1

\* Where the application is tells what has become of the kernel and the value.
AppInv ==
  /\ \/ hpc["app"] \in {"write", "start"}
     \/ hpc["app"] \in {"buffer", "bufferPut", "join"} /\ first = "kernel"
     => pc[Main] = "closed" /\ reg["event_exit"] = LOCK
  /\ reg["event_exit"] \in {LOCK, READ}
  /\ \/ hpc["app"] = "join"
     \/ hpc["app"] = "kernel" /\ first = "buffer"
     \/ hpc["app"] = "write" /\ transfers > 0
     => Lost
  /\ hpc["fifo_task"] = "none" => Lost \/ transfers = 0
  /\ transfers = 0 => off = 0 /\ hpc["app"] = "write" /\ hpc["fifo_task"] = "none"
  /\ spawned = 0 \/ hpc["app"] \in {"write", "start"} => opened = 0 \/ Lost

\* Groups are spawned before they are joined, and their threads born before a
\* barrier opens.
BirthInv ==
  /\ pc[Main] \in {"join", "joinPut"} => spawned > 0
  /\ opened > 0 => Thread # {} /\ \A t \in Thread : pc[t] # "unborn"

\* What an application that waits for the kernel first has when it joins.
TransferInv ==
  hpc["app"] = "join" /\ first = "kernel" =>
    off >= Size(Barriers) /\ \A t \in Thread : calls[t] = Barriers

CInv ==
  /\ IInv /\ HostType /\ OwnerInv /\ TokenInv /\ BlockInv
  /\ AppInv /\ BirthInv /\ TransferInv
-----------------------------------------------------------------------------
USE ThreadAssumption, BoundAssumption, VariantAssumption, AccumulateAssumption,
    SizeAssumption
    DEF Proc, Event, Host, LOCK, READ, WRITE, END_FIFO_OPERATION,
        LockStep, WriteStep, Kept

\* Blocks are of the same size.
LEMMA Sizes ==
  /\ Size(0) = 0
  /\ \A n \in Nat : /\ Size(n) \in Nat /\ Size(n + 1) = Size(n) + BufferSize
                    /\ Size(n) \div BufferSize = n
<1>1. Size(0) = 0
  BY DEF Size
<1>2. ASSUME NEW n \in Nat
      PROVE  Size(n) \in Nat /\ Size(n + 1) = Size(n) + BufferSize
  BY DEF Size
<1>3. ASSUME NEW n \in Nat
      PROVE  Size(n) \div BufferSize = n
  BY DEF Size
<1> QED BY <1>1, <1>2, <1>3

\* The host may write the buffer's register while no thread holds it, and empty
\* it and the kernel's termination event at any time.
LEMMA HostRegister ==
  ASSUME IInv, UNCHANGED deviceVars,
         NEW e \in {"fifo", "event_exit"}, NEW r \in Nat,
         reg' = [reg EXCEPT ![e] = r],
         r = LOCK \/ (e = "fifo" /\ \A t \in Thread : ~ Holds(t, "fifo"))
  PROVE  IInv'
<1> USE DEF IInv, deviceVars
<1>1. TypeOK'
  BY DEF TypeOK
<1>2. OneHolder'
  <2>1. \A p \in Proc : \A q \in Event : Holds(p, q)' <=> Holds(p, q)
    BY DEF Holds
  <2>2. e = "fifo" /\ r # LOCK => \A p \in Proc : ~ Holds(p, "fifo")
    BY DEF TypeOK, Holds, MainPlace
  <2> QED BY <2>1, <2>2 DEF TypeOK, OneHolder
<1>3. Lifecycle' /\ Colours'
  BY DEF TypeOK, Lifecycle, JoinSafety, Colours
<1>4. Progress' /\ Leader'
  BY DEF Progress, Leader
<1>5. Counters'
  BY DEF TypeOK, Counters, Here, Gone
<1> QED BY <1>1, <1>2, <1>3, <1>4, <1>5

\* The host may take either register at any time.
LEMMA HostTakes ==
  ASSUME IInv, UNCHANGED deviceVars, NEW e \in {"fifo", "event_exit"}, Take(e)
  PROVE  IInv'
<1>1. reg' = [reg EXCEPT ![e] = LOCK] /\ LOCK \in Nat
  BY DEF Take
<1> QED BY <1>1, HostRegister

\* Who leads a barrier does so alone.
LEMMA Alone ==
  ASSUME IInv, NEW t \in Thread, pc[t] \in Leading
  PROVE  /\ calls[t] = opened + 1
         /\ \A u \in Thread \ {t} : pc[u] \in Waiting /\ calls[u] = opened + 1
BY DEF IInv, Progress, Leader

\* The kernel is not running any more, or not yet, when main is closed.
LEMMA DeviceRuns ==
  ASSUME IInv, DeviceStep
  PROVE  pc[Main] # "closed"
<1>1. ASSUME NEW t \in Thread, ThreadStep(t) PROVE pc[t] \notin {"unborn", "exited"}
  BY <1>1 DEF Goto, ThreadStep, BarrierStep, FifoStep, ExitStep, EnterLock, EnterPut,
     SignalLock, SignalPut, ReleaseWait, ReleaseWaitPut, WaitLock, WaitPut, Rearm, RearmPut,
     Release, ReleasePut, FifoLock, FifoRequest, FifoWait, FifoWaitPut, FifoTake, FifoAccept,
     ExitLock, ExitPut
<1>2. CASE MainStep
  BY <1>2 DEF MainStep, Spawn, JoinLock, JoinPut, Close, WaitLock, WaitPut, Goto
<1> QED BY <1>1, <1>2 DEF DeviceStep, IInv, Lifecycle, JoinSafety

\* Resource allocation establishes the invariant.
LEMMA ChannelInitInv == ChannelInit => CInv
<1> SUFFICES ASSUME ChannelInit PROVE CInv
  OBVIOUS
<1> USE DEF ChannelInit, InitWith
<1>1. IInv
  <2>1. TypeOK
    BY DEF TypeOK, MainPlace, ThreadPlace
  <2>2. OneHolder
    BY DEF OneHolder, Holds
  <2>3. Lifecycle
    BY DEF Lifecycle, JoinSafety
  <2>4. Progress
    BY DEF Progress, Entering, Leading, Opening
  <2>5. Colours /\ Leader
    BY DEF Colours, Leader, Entering, Waiting, Leading, Opening
  <2>6. Counters
    BY DEF Counters, Opening
  <2> QED BY <2>1, <2>2, <2>3, <2>4, <2>5, <2>6 DEF IInv
<1>2. hpc["app"] = "write" /\ hpc["fifo_task"] = "none" /\ hpc \in [Host -> {"write", "none"}]
  OBVIOUS
<1>3. HostType
  BY <1>2 DEF HostType, AppPlace, TaskPlace
<1>4. /\ reg["fifo"] = WRITE /\ reg["event_exit"] = LOCK /\ pc[Main] = "closed"
      /\ \A t \in Thread : pc[t] = "unborn"
  OBVIOUS
<1>5. OwnerInv /\ TokenInv
  BY <1>2, <1>4, Sizes DEF OwnerInv, TokenInv, Value, TaskOwns, AppOwns, Copying, At,
     Requesting, Closing
<1>6. BlockInv /\ AppInv /\ BirthInv /\ TransferInv
  BY <1>2, <1>4 DEF BlockInv, AppInv, BirthInv, TransferInv, At, Closing
<1> QED BY <1>1, <1>3, <1>5, <1>6 DEF CInv
-----------------------------------------------------------------------------
(***************************************************************************)
(* The steps of the kernel.                                                *)
(***************************************************************************)
FifoPlace == {"fifoRequest", "fifoWait", "fifoWaitPut", "fifoTake", "fifoAccept"}

\* A step that moves nobody in the handshake, or within it only as far as
\* closing goes, and touches the register of the buffer's event not at all.
Quiet ==
  /\ UNCHANGED <<hostVars, opened, spawned>>
  /\ reg'["fifo"] = reg["fifo"] /\ reg'["event_exit"] \in {LOCK, READ}
  /\ pc'[Main] \in {"join", "joinPut"} => pc[Main] \in {"join", "joinPut"}
  /\ \A t \in Thread :
       /\ pc'[t] = pc[t] \/ {pc[t], pc'[t]} \cap (FifoPlace \cup Closing \cup {"unborn"}) = {}
            \/ {pc[t], pc'[t]} \subseteq Closing
       /\ pc[t] = "fifoWaitPut" => val'[t] = val[t]
       /\ calls'[t] = opened => calls[t] = opened

\* Such a step preserves the invariant.
LEMMA QuietInv ==
  ASSUME CInv, IInv', pc[Main] # "closed", Quiet
  PROVE  CInv'
<1> USE DEF CInv, Quiet, hostVars
<1>1. /\ \A t \in Thread : \A s \in FifoPlace \cup {"unborn"} : pc'[t] = s <=> pc[t] = s
      /\ \A t \in Thread : pc'[t] \in Closing <=> pc[t] \in Closing
  BY DEF FifoPlace, Closing
<1>2. /\ \A S \in SUBSET FifoPlace : At(S)' <=> At(S)
      /\ At(Closing)' <=> At(Closing)
  BY <1>1 DEF At
<1>3. /\ \A v : Value(v)' <=> Value(v)
      /\ Lost' <=> Lost
      /\ Copying' <=> Copying
      /\ TaskOwns' <=> TaskOwns
      /\ AppOwns' <=> AppOwns
  BY <1>1 DEF Value, Lost, Copying, TaskOwns, AppOwns, At, FifoPlace
<1>4. \A t \in Thread : Holds(t, "fifo")' <=> Holds(t, "fifo")
  BY <1>1 DEF Holds, FifoPlace
<1>5. HostType' /\ OwnerInv'
  BY <1>3, <1>4 DEF HostType, OwnerInv
<1>6. TokenInv'
  <2>1. At({"fifoTake"} \cup Closing)' <=> At({"fifoTake"} \cup Closing)
    BY <1>1 DEF At, FifoPlace
  <2>2. /\ At({"fifoWait", "fifoWaitPut"})' <=> At({"fifoWait", "fifoWaitPut"})
        /\ At(Requesting)' <=> At(Requesting)
        /\ At({"fifoAccept"})' <=> At({"fifoAccept"})
        /\ At({"fifoRequest"})' <=> At({"fifoRequest"})
    BY <1>2 DEF FifoPlace, Requesting
  <2> QED BY <1>2, <1>3, <2>1, <2>2 DEF TokenInv
<1>7. BlockInv'
  BY <1>2 DEF BlockInv
<1>8. AppInv'
  BY <1>3 DEF AppInv
<1>9. BirthInv'
  BY <1>1 DEF BirthInv
<1>10. TransferInv'
  BY DEF TransferInv, AppInv
<1> QED BY <1>5, <1>6, <1>7, <1>8, <1>9, <1>10

\* Every step outside the handshake but mango_spawn and the opening of the
\* barrier is such a step.
LEMMA MostStepsQuiet ==
  ASSUME CInv, WithFifo, UNCHANGED hostVars,
         \/ JoinLock \/ JoinPut \/ Close
         \/ \E t \in Thread :
              \/ EnterLock(t) \/ EnterPut(t) \/ SignalLock(t) \/ SignalPut(t)
              \/ ReleaseWait(t) \/ ReleaseWaitPut(t)
              \/ Rearm(t) \/ RearmPut(t) \/ Release(t)
              \/ ExitLock(t) \/ ExitPut(t)
  PROVE  Quiet
<1> USE DEF CInv, IInv, TypeOK, AppInv, Quiet, Goto, FifoPlace, Closing
<1>1. reg["event_exit"] \in {LOCK, READ}
  OBVIOUS
<1>2. CASE JoinLock \/ JoinPut
  BY <1>2 DEF JoinLock, JoinPut, WaitLock, WaitPut, Take, Write, Put
<1>3. CASE Close
  BY <1>3 DEF Close, Lifecycle, Write, Put
<1>4. ASSUME NEW t \in Thread, EnterLock(t)
      PROVE  Quiet
  BY <1>4 DEF EnterLock, Lock, Take, Progress
<1>5. ASSUME NEW t \in Thread, EnterPut(t)
      PROVE  Quiet
  BY <1>5 DEF EnterPut, Write, Put
<1>6. ASSUME NEW t \in Thread, SignalLock(t)
      PROVE  Quiet
  BY <1>6 DEF SignalLock, Lock, Take
<1>7. ASSUME NEW t \in Thread, SignalPut(t)
      PROVE  Quiet
  BY <1>7 DEF SignalPut, Write, Put
<1>8. ASSUME NEW t \in Thread, ReleaseWait(t) \/ ReleaseWaitPut(t)
      PROVE  Quiet
  BY <1>8 DEF ReleaseWait, ReleaseWaitPut, WaitLock, WaitPut, Take, Write, Put
<1>9. ASSUME NEW t \in Thread, Rearm(t) \/ RearmPut(t) \/ Release(t)
      PROVE  Quiet
  BY <1>9 DEF Rearm, RearmPut, Release, Lock, Take, Write, Put
<1>10. ASSUME NEW t \in Thread, ExitLock(t) \/ ExitPut(t)
       PROVE  Quiet
  BY <1>10 DEF ExitLock, ExitPut, Lock, Take, Write, Put
<1> QED BY <1>2, <1>3, <1>4, <1>5, <1>6, <1>7, <1>8, <1>9, <1>10

\* mango_spawn preserves the invariant: there is one group, and it is the first.
LEMMA ChannelSpawnInv ==
  ASSUME CInv, IInv', OneReader, Spawn, UNCHANGED hostVars
  PROVE  CInv'
<1> USE DEF CInv, hostVars
<1>1. spawned = 0 /\ spawned' = 1
  BY DEF IInv, TypeOK, OneReader, Spawn
<1>2. opened = 0 \/ Lost
  BY <1>1 DEF AppInv
<1>3. /\ \A t \in Thread : pc[t] \in {"unborn", "exited"} /\ pc'[t] = "section"
      /\ \A t \in Thread : calls'[t] = 0
      /\ opened' = 0 /\ reg'["fifo"] = reg["fifo"] /\ reg'["event_exit"] = reg["event_exit"]
      /\ pc[Main] = "serial"
  BY DEF IInv, TypeOK, Lifecycle, JoinSafety, Spawn
<1>4. \A v : (Value(v)' <=> Value(v)) /\ (Lost => ~ Value(v) \/ v = LOCK)
  BY <1>3 DEF Value, Lost, TaskOwns, AppOwns, At
<1>5. (Lost' <=> Lost) /\ (TaskOwns' <=> TaskOwns) /\ (AppOwns' <=> AppOwns)
      /\ (Copying' <=> Copying)
  BY <1>3 DEF Lost, TaskOwns, AppOwns, At, Copying
<1>6. \A S \in {{"fifoAccept"}, {"fifoRequest"}, Requesting, Closing,
                {"fifoTake"} \cup Closing, {"fifoWait", "fifoWaitPut"}} : ~ At(S) /\ ~ At(S)'
  BY <1>3 DEF At, Requesting, Closing
<1>7. HostType'
  BY DEF HostType
<1>8. OwnerInv'
  BY <1>3, <1>5 DEF OwnerInv, Holds
<1>9. TokenInv'
  <2>1. CASE Lost
    BY <2>1, <1>3, <1>4, <1>5, <1>6 DEF TokenInv, Lost, TaskOwns
  <2>2. CASE opened = 0
    BY <2>2, <1>3, <1>4, <1>5, <1>6 DEF TokenInv
  <2> QED BY <1>2, <2>1, <2>2
<1>10. BlockInv'
  <2>1. hpc["fifo_task"] = "announce" => mem = opened + 1 /\ opened = 0
    BY <1>2 DEF BlockInv, Lost, TaskOwns, Copying
  <2> QED BY <2>1, <1>3, <1>6 DEF BlockInv
<1>11. AppInv'
  BY <1>1, <1>3, <1>5 DEF AppInv
<1>12. BirthInv'
  BY <1>1, <1>3 DEF BirthInv
<1>13. TransferInv'
  BY <1>3 DEF TransferInv, AppInv
<1> QED BY <1>7, <1>8, <1>9, <1>10, <1>11, <1>12, <1>13

\* The opening of the barrier preserves the invariant: the accepted block becomes
\* the one the threads work on.
LEMMA ChannelReleasePutInv ==
  ASSUME CInv, IInv', NEW t \in Thread, ReleasePut(t), UNCHANGED hostVars
  PROVE  CInv'
<1> USE DEF CInv, hostVars
<1>1. /\ pc[t] = "releasePut" /\ pc' = [pc EXCEPT ![t] = "section"]
      /\ opened' = opened + 1 /\ opened \in Nat
      /\ calls' = calls /\ val' = [val EXCEPT ![t] = 0] /\ spawned' = spawned
      /\ reg'["fifo"] = reg["fifo"] /\ reg'["event_exit"] = reg["event_exit"]
  BY DEF IInv, TypeOK, ReleasePut, Goto, Write, Put
<1>2. /\ \A u \in Thread : calls[u] = opened + 1
      /\ \A u \in Thread \ {t} : pc[u] \in Waiting /\ pc'[u] = pc[u]
      /\ pc'[t] = "section"
  BY <1>1, Alone DEF IInv, TypeOK, Leading, Opening
<1>3. pc[Main] \in {"join", "joinPut"} /\ pc'[Main] = pc[Main] /\ spawned > 0
  BY <1>1, Joining DEF IInv, TypeOK, BirthInv
<1>4. At(Closing) /\ \A S \in {{"fifoAccept"}, {"fifoRequest"}, Requesting, Closing,
                {"fifoTake"} \cup Closing, {"fifoWait", "fifoWaitPut"}} : ~ At(S)'
  BY <1>1, <1>2 DEF At, Requesting, Closing, Waiting
<1>5. /\ \A v : Value(v)' <=> Value(v)
      /\ Lost' <=> Lost
      /\ TaskOwns' <=> TaskOwns
      /\ AppOwns' <=> AppOwns
      /\ Copying' <=> Copying
  BY <1>1, <1>2 DEF Value, Lost, TaskOwns, AppOwns, At, Copying, Waiting
<1>6. ~ Value(WRITE) /\ ~ Copying /\ ~ Value(READ)
  BY <1>1, <1>4 DEF TokenInv, At, Closing
<1>7. mem = opened + 1
  BY <1>4 DEF BlockInv
<1>8. HostType'
  BY DEF HostType
<1>9. OwnerInv'
  BY <1>1, <1>2, <1>5 DEF OwnerInv, Holds, Waiting
<1>10. TokenInv'
  BY <1>1, <1>4, <1>5, <1>6 DEF TokenInv
<1>11. BlockInv'
  BY <1>1, <1>4, <1>5, <1>6, <1>7 DEF BlockInv, Copying
<1>12. AppInv'
  BY <1>1, <1>3, <1>5 DEF AppInv
<1>13. BirthInv'
  BY <1>1, <1>2, <1>3 DEF BirthInv, Waiting
<1>14. TransferInv'
  BY <1>3 DEF TransferInv, AppInv
<1> QED BY <1>8, <1>9, <1>10, <1>11, <1>12, <1>13, <1>14

\* What every step of the handshake does and leaves alone: it is one thread's,
\* while the others wait for the barrier to open, and the value is not lost.
HandshakeFrame(t) ==
  /\ pc[t] \in Leading /\ pc'[t] \in Leading
  /\ \A u \in Proc \ {t} : pc'[u] = pc[u] /\ val'[u] = val[u]
  /\ \A u \in Thread \ {t} : pc[u] \in Waiting
  /\ \A u \in Thread : calls[u] = opened + 1
  /\ pc[Main] \in {"join", "joinPut"} /\ spawned > 0
  /\ reg'["event_exit"] = reg["event_exit"]
  /\ UNCHANGED <<calls, opened, spawned>>
  /\ ~ Lost

\* Every step of the handshake is one of these.
LEMMA HandshakeFrames ==
  ASSUME CInv, NEW t \in Thread, FifoStep(t)
  PROVE  HandshakeFrame(t)
<1> USE DEF CInv
<1>1. /\ pc[t] \in Leading \ (Closing \cup {"unborn", "exited"})
      /\ pc'[t] \in Leading
      /\ \A u \in Proc \ {t} : pc'[u] = pc[u] /\ val'[u] = val[u]
      /\ reg'["event_exit"] = reg["event_exit"]
      /\ UNCHANGED <<calls, opened, spawned>>
  BY DEF IInv, TypeOK, FifoStep, FifoLock, FifoAnswer, FifoRequest, FifoWait, FifoWaitPut,
     FifoTake, FifoAccept, WaitLock, WaitPut, Lock, Write, Take, Put, Goto, Leading, Opening,
     Closing
<1>2. /\ calls[t] = opened + 1
      /\ \A u \in Thread \ {t} : pc[u] \in Waiting /\ calls[u] = opened + 1
  BY <1>1, Alone DEF Leading, Opening
<1>3. pc[Main] \in {"join", "joinPut"} /\ spawned > 0
  BY <1>1, Joining DEF IInv, BirthInv
<1>4. reg["fifo"] # LOCK \/ pc[t] \in {"fifoRequest", "fifoWaitPut", "fifoAccept"}
  BY DEF FifoStep, FifoLock, FifoRequest, FifoWait, FifoWaitPut, FifoTake, FifoAccept, WaitLock,
     WaitPut, Lock, Take, Goto
<1>5. ~ Lost
  BY <1>4 DEF Lost, At
<1> QED BY <1>1, <1>2, <1>3, <1>5 DEF HandshakeFrame

\* What is left to show for a step of the handshake.
LEMMA HandshakeInv ==
  ASSUME CInv, IInv', UNCHANGED hostVars, NEW t \in Thread, FifoStep(t),
         TaskOwns \/ AppOwns => reg'["fifo"] = LOCK /\ ~ Holds(t, "fifo")',
         TokenInv',
         At(Closing)' => mem = opened + 1
  PROVE  CInv'
<1> USE DEF CInv, hostVars
<1>0. HandshakeFrame(t)
  BY HandshakeFrames
<1> USE <1>0 DEF HandshakeFrame
<1>1. HostType'
  BY DEF HostType
<1>2. OwnerInv'
  BY DEF OwnerInv, TaskOwns, AppOwns, Copying, Holds, Waiting
<1>3. BlockInv'
  BY DEF BlockInv, IInv, TypeOK
<1>4. AppInv'
  BY DEF AppInv, Lost, At
<1>5. BirthInv'
  BY DEF BirthInv, Leading, Opening, Waiting
<1>6. TransferInv'
  BY DEF TransferInv, AppInv
<1> QED BY <1>1, <1>2, <1>3, <1>4, <1>5, <1>6

\* Taking the register, to see whether a block is there, preserves the invariant.
LEMMA ChannelFifoLockInv ==
  ASSUME CInv, IInv', NEW t \in Thread, FifoLock(t), UNCHANGED hostVars
  PROVE  CInv'
<1> USE DEF CInv, hostVars
<1>0. FifoStep(t)
  BY DEF FifoStep
<1>1. HandshakeFrame(t)
  BY <1>0, HandshakeFrames
<1>2. /\ pc[t] = "fifoLock" /\ reg["fifo"] # LOCK /\ reg'["fifo"] = LOCK
      /\ pc'[t] = IF reg["fifo"] = READ THEN "fifoAccept" ELSE "fifoRequest"
  BY DEF IInv, TypeOK, FifoLock, Goto, Lock, Take, FifoAnswer, BlockReady
<1>3. ~ TaskOwns /\ ~ AppOwns /\ ~ Copying
  BY <1>2 DEF OwnerInv, TaskOwns
<1>4. Value(reg["fifo"]) /\ reg["fifo"] \in {READ, WRITE, END_FIFO_OPERATION}
  BY <1>2 DEF Value, IInv, TypeOK, TokenInv
<1>5. \A v : ~ Value(v)'
  BY <1>1, <1>2, <1>3 DEF HandshakeFrame, Value, TaskOwns, AppOwns, Waiting
<1>6. ~ At(Closing) /\ ~ At(Closing)'
  BY <1>1, <1>2 DEF HandshakeFrame, At, Closing, Waiting
<1>7. /\ reg["fifo"] = READ => mem = opened + 1 /\ off = Size(opened + 1)
      /\ reg["fifo"] # READ => off = Size(opened)
  BY <1>4, <1>6 DEF TokenInv
<1>8. TokenInv'
  BY <1>1, <1>2, <1>3, <1>5, <1>7 DEF HandshakeFrame, TokenInv, At, Copying, Waiting
<1> QED BY <1>0, <1>3, <1>6, <1>8, HandshakeInv

\* Asking for a block preserves the invariant.
LEMMA ChannelFifoRequestInv ==
  ASSUME CInv, IInv', NEW t \in Thread, FifoRequest(t), UNCHANGED hostVars
  PROVE  CInv'
<1> USE DEF CInv, hostVars
<1>0. FifoStep(t)
  BY DEF FifoStep
<1>1. HandshakeFrame(t)
  BY <1>0, HandshakeFrames
<1>2. pc[t] = "fifoRequest" /\ pc'[t] = "fifoWait" /\ reg["fifo"] = LOCK
  BY DEF IInv, TypeOK, OneHolder, Holds, FifoRequest, Goto
<1>3. reg'["fifo"] = WRITE
  BY <1>2, PutFree DEF IInv, TypeOK, FifoRequest, Write
<1>4. ~ TaskOwns /\ ~ AppOwns /\ ~ Copying
  BY <1>2 DEF OwnerInv, TaskOwns, Holds
<1>5. \A v : Value(v)' <=> v = WRITE
  BY <1>1, <1>2, <1>3, <1>4 DEF HandshakeFrame, Value, TaskOwns, AppOwns, Waiting
<1>6. ~ At(Closing)' /\ ~ At({"fifoTake"} \cup Closing)' /\ ~ At({"fifoAccept"})'
      /\ ~ At({"fifoRequest"})' /\ At({"fifoWait", "fifoWaitPut"})'
  BY <1>1, <1>2 DEF HandshakeFrame, At, Closing, Waiting
<1>7. off = Size(opened)
  BY <1>2 DEF TokenInv, At
<1>8. TokenInv'
  BY <1>1, <1>4, <1>5, <1>6, <1>7 DEF HandshakeFrame, TokenInv, Copying
<1> QED BY <1>0, <1>4, <1>6, <1>8, HandshakeInv

\* Reading the register while waiting for a block preserves the invariant.
LEMMA ChannelFifoWaitInv ==
  ASSUME CInv, IInv', NEW t \in Thread, FifoWait(t), UNCHANGED hostVars
  PROVE  CInv'
<1> USE DEF CInv, hostVars
<1>0. FifoStep(t)
  BY DEF FifoStep
<1>1. HandshakeFrame(t)
  BY <1>0, HandshakeFrames
<1>2. /\ pc[t] = "fifoWait" /\ reg["fifo"] # LOCK /\ reg'["fifo"] = LOCK
      /\ \/ pc'[t] = "fifoWaitPut" /\ val'[t] = reg["fifo"]
         \/ pc'[t] = "fifoTake" /\ reg["fifo"] = READ
  BY DEF IInv, TypeOK, FifoWait, WaitLock, WrittenBack, Goto, Take
<1>3. ~ TaskOwns /\ ~ AppOwns /\ ~ Copying
  BY <1>2 DEF OwnerInv, TaskOwns
<1>4. Value(reg["fifo"]) /\ reg["fifo"] \in {READ, WRITE, END_FIFO_OPERATION}
  BY <1>2 DEF Value, IInv, TypeOK, TokenInv
<1>5. \A v : Value(v)' => Value(v) /\ pc'[t] = "fifoWaitPut"
  BY <1>1, <1>2, <1>3, <1>4 DEF HandshakeFrame, Value, TaskOwns, AppOwns, Waiting
<1>6. ~ At(Closing)' /\ ~ At({"fifoAccept"})' /\ ~ At({"fifoRequest"})'
  BY <1>1, <1>2 DEF HandshakeFrame, At, Closing, Waiting
<1>7. pc'[t] = "fifoWaitPut" => /\ ~ At({"fifoTake"} \cup Closing)'
                                /\ At({"fifoWait", "fifoWaitPut"})'
                                /\ At(Requesting)'
  BY <1>1, <1>2 DEF HandshakeFrame, At, Closing, Waiting, Requesting
<1>8. At(Requesting)
  BY <1>2 DEF At, Requesting
<1>9. TokenInv'
  BY <1>1, <1>3, <1>5, <1>6, <1>7, <1>8 DEF HandshakeFrame, TokenInv, Copying
<1> QED BY <1>0, <1>3, <1>6, <1>9, HandshakeInv

\* Writing the value back while waiting for a block preserves the invariant.
LEMMA ChannelFifoWaitPutInv ==
  ASSUME CInv, IInv', NEW t \in Thread, FifoWaitPut(t), UNCHANGED hostVars
  PROVE  CInv'
<1> USE DEF CInv, hostVars
<1>0. FifoStep(t)
  BY DEF FifoStep
<1>1. HandshakeFrame(t)
  BY <1>0, HandshakeFrames
<1>2. /\ pc[t] = "fifoWaitPut" /\ reg["fifo"] = LOCK /\ val[t] \in Nat
      /\ pc'[t] = IF val[t] = READ THEN "fifoTake" ELSE "fifoWait"
  BY DEF IInv, TypeOK, OneHolder, Holds, FifoWaitPut, WaitPut, Goto
<1>3. reg'["fifo"] = val[t]
  BY <1>2, PutFree DEF IInv, TypeOK, FifoWaitPut, WaitPut, Write
<1>4. ~ TaskOwns /\ ~ AppOwns /\ ~ Copying
  BY <1>2 DEF OwnerInv, TaskOwns, Holds
<1>5. Value(val[t]) /\ \A v : Value(v)' => v = val[t]
  BY <1>1, <1>2, <1>3, <1>4 DEF HandshakeFrame, Value, TaskOwns, AppOwns, Waiting
<1>6. ~ At(Closing)' /\ ~ At({"fifoAccept"})' /\ ~ At({"fifoRequest"})' /\ At(Requesting)
      /\ At(Requesting)'
  BY <1>1, <1>2 DEF HandshakeFrame, At, Closing, Waiting, Requesting
<1>7. val[t] = WRITE => /\ ~ At({"fifoTake"} \cup Closing)'
                        /\ At({"fifoWait", "fifoWaitPut"})'
  BY <1>1, <1>2 DEF HandshakeFrame, At, Closing, Waiting
<1>8. TokenInv'
  BY <1>1, <1>2, <1>4, <1>5, <1>6, <1>7 DEF HandshakeFrame, TokenInv, Copying
<1> QED BY <1>0, <1>4, <1>6, <1>8, HandshakeInv

\* Taking the register again once a block has been seen preserves the invariant.
LEMMA ChannelFifoTakeInv ==
  ASSUME CInv, IInv', NEW t \in Thread, FifoTake(t), UNCHANGED hostVars
  PROVE  CInv'
<1> USE DEF CInv, hostVars
<1>0. FifoStep(t)
  BY DEF FifoStep
<1>1. HandshakeFrame(t)
  BY <1>0, HandshakeFrames
<1>2. pc[t] = "fifoTake" /\ pc'[t] = "fifoAccept" /\ reg["fifo"] # LOCK /\ reg'["fifo"] = LOCK
  BY DEF IInv, TypeOK, FifoTake, Goto, Lock, Take
<1>3. ~ TaskOwns /\ ~ AppOwns /\ ~ Copying
  BY <1>2 DEF OwnerInv, TaskOwns
<1>4. Value(reg["fifo"]) /\ reg["fifo"] \in {READ, WRITE, END_FIFO_OPERATION}
  BY <1>2 DEF Value, IInv, TypeOK, TokenInv
<1>5. reg["fifo"] = READ
  BY <1>2, <1>4 DEF TokenInv, At, Requesting
<1>6. \A v : ~ Value(v)'
  BY <1>1, <1>2, <1>3 DEF HandshakeFrame, Value, TaskOwns, AppOwns, Waiting
<1>7. ~ At(Closing)' /\ ~ At({"fifoRequest"})'
  BY <1>1, <1>2 DEF HandshakeFrame, At, Closing, Waiting
<1>8. TokenInv'
  BY <1>1, <1>3, <1>4, <1>5, <1>6, <1>7 DEF HandshakeFrame, TokenInv, Copying
<1> QED BY <1>0, <1>3, <1>7, <1>8, HandshakeInv

\* Marking the block accepted preserves the invariant.
LEMMA ChannelFifoAcceptInv ==
  ASSUME CInv, IInv', NEW t \in Thread, FifoAccept(t), UNCHANGED hostVars
  PROVE  CInv'
<1> USE DEF CInv, hostVars
<1>0. FifoStep(t)
  BY DEF FifoStep
<1>1. HandshakeFrame(t)
  BY <1>0, HandshakeFrames
<1>2. pc[t] = "fifoAccept" /\ pc'[t] = "rearm" /\ reg["fifo"] = LOCK
  BY DEF IInv, TypeOK, OneHolder, Holds, FifoAccept, Goto
<1>3. reg'["fifo"] = END_FIFO_OPERATION
  BY <1>2, PutFree DEF IInv, TypeOK, FifoAccept, Write
<1>4. ~ TaskOwns /\ ~ AppOwns /\ ~ Copying
  BY <1>2 DEF OwnerInv, TaskOwns, Holds
<1>5. \A v : Value(v)' <=> v = END_FIFO_OPERATION
  BY <1>1, <1>2, <1>3, <1>4 DEF HandshakeFrame, Value, TaskOwns, AppOwns, Waiting
<1>6. At(Closing)' /\ ~ At(Requesting)' /\ ~ At({"fifoAccept"})' /\ ~ At({"fifoRequest"})'
  BY <1>1, <1>2 DEF HandshakeFrame, At, Closing, Waiting, Requesting
<1>7. mem = opened + 1 /\ off = Size(opened + 1)
  BY <1>2 DEF TokenInv, At
<1>8. TokenInv'
  BY <1>1, <1>4, <1>5, <1>6, <1>7 DEF HandshakeFrame, TokenInv, Copying
<1> QED BY <1>0, <1>4, <1>7, <1>8, HandshakeInv

\* The steps of the kernel preserve the invariant.
LEMMA DeviceInv ==
  ASSUME CInv, OneReader, DeviceStep, UNCHANGED hostVars
  PROVE  CInv'
<1>1. IInv'
  BY NextInv DEF CInv, Next
<1>2. pc[Main] # "closed"
  BY DeviceRuns DEF CInv
<1>3. WithFifo
  BY DEF OneReader
<1>4. CASE MainStep
  BY <1>1, <1>2, <1>3, <1>4, MostStepsQuiet, QuietInv, ChannelSpawnInv DEF MainStep
<1>5. ASSUME NEW t \in Thread, BarrierStep(t)
      PROVE  CInv'
  BY <1>1, <1>2, <1>3, <1>5, MostStepsQuiet, QuietInv, ChannelReleasePutInv DEF BarrierStep
<1>6. ASSUME NEW t \in Thread, FifoStep(t)
      PROVE  CInv'
  BY <1>1, <1>6, ChannelFifoLockInv, ChannelFifoRequestInv, ChannelFifoWaitInv,
     ChannelFifoWaitPutInv, ChannelFifoTakeInv, ChannelFifoAcceptInv DEF FifoStep
<1>7. ASSUME NEW t \in Thread, ExitStep(t)
      PROVE  CInv'
  BY <1>1, <1>2, <1>3, <1>7, MostStepsQuiet, QuietInv DEF ExitStep
<1> QED BY <1>4, <1>5, <1>6, <1>7 DEF DeviceStep, ThreadStep
-----------------------------------------------------------------------------
(***************************************************************************)
(* The steps of the host.                                                  *)
(***************************************************************************)
\* A step that changes nothing preserves the invariant of the group.
LEMMA GroupStutters ==
  ASSUME IInv, UNCHANGED <<reg, deviceVars>>
  PROVE  IInv'
BY NextInv DEF vars, deviceVars

\* Reading the register in synch_write preserves the invariant; WRITE, once read,
\* gives the buffer to the FIFO thread.
LEMMA TaskWaitInv ==
  ASSUME CInv, TaskWait
  PROVE  CInv'
<1> USE DEF CInv, HostType, TaskWait, HostWait, HostGoto, PutsBack, Take, deviceVars
<1>1. /\ reg["fifo"] # LOCK /\ reg["fifo"] \in Nat /\ reg' = [reg EXCEPT !["fifo"] = LOCK]
      /\ reg'["fifo"] = LOCK /\ reg'["event_exit"] = reg["event_exit"]
      /\ hpc["fifo_task"] = "wait" /\ hpc'["app"] = hpc["app"]
      /\ \/ /\ reg["fifo"] # WRITE /\ hpc'["fifo_task"] = "waitPut"
            /\ hval'["fifo_task"] = reg["fifo"]
         \/ reg["fifo"] = WRITE /\ hpc'["fifo_task"] = "copy"
  BY DEF IInv, TypeOK
<1>2. ~ TaskOwns /\ ~ AppOwns /\ ~ Lost /\ \A t \in Thread : ~ Holds(t, "fifo")
  BY <1>1 DEF OwnerInv, Lost, IInv, OneHolder
<1>3. IInv'
  BY HostTakes
<1>4. HostType'
  BY <1>1 DEF AppPlace, TaskPlace
<1>5. OwnerInv'
  BY <1>1, <1>2 DEF OwnerInv, AppOwns, Holds
<1>6. Value(reg["fifo"])
  BY <1>1 DEF Value
<1>7. \A v : Value(v)' => v = reg["fifo"] /\ v # WRITE
  BY <1>1, <1>2 DEF Value, AppOwns, Holds
<1>8. Copying' => Value(WRITE)
  BY <1>1, <1>6 DEF Copying
<1>9. TokenInv'
  BY <1>2, <1>6, <1>7, <1>8 DEF TokenInv, At
<1>10. BlockInv'
  BY <1>1 DEF BlockInv, At
<1>11. AppInv'
  BY <1>1, <1>2 DEF AppInv
<1>12. BirthInv'
  BY DEF BirthInv
<1>13. TransferInv'
  BY <1>1 DEF TransferInv
<1> QED BY <1>3, <1>4, <1>5, <1>9, <1>10, <1>11, <1>12, <1>13

\* Writing another value back in synch_write preserves the invariant.
LEMMA TaskWaitPutInv ==
  ASSUME CInv, TaskWaitPut
  PROVE  CInv'
<1> USE DEF CInv, HostType, TaskWaitPut, HostPut, HostGoto, deviceVars
<1>1. /\ hpc["fifo_task"] = "waitPut" /\ hpc'["fifo_task"] = "wait"
      /\ hpc'["app"] = hpc["app"] /\ hval["fifo_task"] \in Nat
  OBVIOUS
<1>2. /\ TaskOwns /\ ~ AppOwns /\ ~ Copying /\ ~ Lost /\ reg["fifo"] = LOCK
      /\ \A t \in Thread : ~ Holds(t, "fifo")
  BY <1>1 DEF OwnerInv, TaskOwns, Copying, Lost
<1>3. reg' = [reg EXCEPT !["fifo"] = hval["fifo_task"]]
  BY <1>1, <1>2, PutFree
<1>4. reg'["fifo"] = hval["fifo_task"] /\ reg'["event_exit"] = reg["event_exit"]
  BY <1>3 DEF IInv, TypeOK
<1>5. IInv'
  BY <1>1, <1>2, <1>3, HostRegister DEF deviceVars
<1>6. HostType'
  BY <1>1 DEF AppPlace, TaskPlace
<1>7. OwnerInv'
  BY <1>1, <1>2 DEF OwnerInv, AppOwns, TaskOwns, Copying
<1>8. \A v : Value(v)' => Value(v)
  BY <1>1, <1>2, <1>4 DEF Value, AppOwns, Holds
<1>9. TokenInv'
  BY <1>1, <1>2, <1>8 DEF TokenInv, At, Copying
<1>10. BlockInv'
  BY <1>1 DEF BlockInv, At
<1>11. AppInv'
  BY <1>1, <1>2, <1>4 DEF AppInv
<1>12. BirthInv'
  BY DEF BirthInv
<1>13. TransferInv'
  BY <1>1 DEF TransferInv
<1> QED BY <1>5, <1>6, <1>7, <1>9, <1>10, <1>11, <1>12, <1>13

\* While the FIFO thread copies, nobody works on the last block any more.
LEMMA BufferIsFree ==
  ASSUME CInv, Copying
  PROVE  /\ off = Size(opened) /\ ~ At(Closing) /\ ~ Lost /\ ~ AppOwns
         /\ reg["fifo"] = LOCK /\ \A t \in Thread : ~ Holds(t, "fifo")
         /\ opened > 0 => \A t \in Thread : calls[t] # opened
         /\ \A v : ~ Value(v)
<1> USE DEF CInv
<1>1. /\ TaskOwns /\ ~ AppOwns /\ ~ Lost /\ reg["fifo"] = LOCK
      /\ \A t \in Thread : ~ Holds(t, "fifo")
  BY DEF OwnerInv, TaskOwns, Lost
<1>2. off = Size(opened) /\ ~ At(Closing) /\ (opened = 0 \/ At({"fifoWait", "fifoWaitPut"}))
  BY DEF TokenInv, At
<1>3. opened > 0 => \A t \in Thread : calls[t] # opened
  <2> SUFFICES ASSUME opened > 0, NEW t \in Thread PROVE calls[t] # opened
    OBVIOUS
  <2>1. PICK u \in Thread : pc[u] \in {"fifoWait", "fifoWaitPut"}
    BY <1>2 DEF At, IInv, TypeOK
  <2> QED BY <2>1, Alone DEF Leading, IInv, TypeOK
<1>4. \A v : ~ Value(v)
  BY <1>1 DEF Value, Copying, Holds
<1> QED BY <1>1, <1>2, <1>3, <1>4

\* The copy of a block preserves the invariant.
LEMMA CopyInv ==
  ASSUME CInv, CopyBegin \/ CopyEnd
  PROVE  CInv'
<1> USE DEF CInv, HostType, CopyBegin, CopyEnd, HostGoto
<1>1. /\ hpc["fifo_task"] \in {"copy", "copying"} /\ hpc'["app"] = hpc["app"]
      /\ hpc'["fifo_task"] \in {"copying", "announce"}
      /\ hpc'["fifo_task"] = "announce" => mem' = off \div BufferSize + 1
      /\ mem' = 0 \/ hpc'["fifo_task"] = "announce"
      /\ UNCHANGED <<hval, off, transfers, first, reg, deviceVars>>
  OBVIOUS
<1> HIDE DEF CopyBegin, CopyEnd
<1> USE DEF deviceVars
<1>2. Copying /\ Copying' /\ TaskOwns'
  BY <1>1 DEF Copying, TaskOwns
<1>3. off = Size(opened) /\ opened \in Nat /\ off \div BufferSize = opened
  BY <1>2, BufferIsFree, Sizes DEF IInv, TypeOK
<1>4. IInv'
  BY <1>1, GroupStutters
<1>5. HostType'
  BY <1>1, <1>3 DEF AppPlace, TaskPlace, CopyBegin, CopyEnd
<1>6. OwnerInv'
  BY <1>1, <1>2, BufferIsFree DEF OwnerInv, AppOwns, Holds
<1>7. (\A v : ~ Value(v)') /\ ~ Lost'
  BY <1>1, <1>2, BufferIsFree DEF Value, AppOwns, Holds, Lost
<1>8. ~ At({"fifoAccept"})' /\ ~ At({"fifoRequest"})'
  BY <1>1, <1>2, BufferIsFree DEF At, Holds
<1>9. TokenInv'
  BY <1>1, <1>2, <1>7, <1>8 DEF TokenInv, At
<1>10. BlockInv'
  BY <1>1, <1>2, <1>3, BufferIsFree DEF BlockInv, At
<1>11. AppInv'
  BY <1>1, <1>2, BufferIsFree DEF AppInv
<1>12. BirthInv' /\ TransferInv'
  BY <1>1 DEF BirthInv, TransferInv
<1> QED BY <1>4, <1>5, <1>6, <1>9, <1>10, <1>11, <1>12

\* Announcing the block with READ preserves the invariant.
LEMMA AnnounceInv ==
  ASSUME CInv, Announce
  PROVE  CInv'
<1> USE DEF CInv, HostType, Announce, HostGoto, deviceVars
<1>1. /\ hpc["fifo_task"] = "announce" /\ hpc'["fifo_task"] = "wait"
      /\ hpc'["app"] = hpc["app"] /\ off' = off + BufferSize
  OBVIOUS
<1>2. Copying /\ ~ Copying'
  BY <1>1 DEF Copying
<1>3. off = Size(opened) /\ off' = Size(opened + 1) /\ opened \in Nat /\ off' \in Nat
  <2>1. opened \in Nat /\ opened + 1 \in Nat
    BY DEF IInv, TypeOK
  <2>2. off = Size(opened) /\ Size(opened + 1) = off + BufferSize /\ Size(opened + 1) \in Nat
    BY <1>2, <2>1, BufferIsFree, Sizes
  <2> QED BY <1>1, <2>1, <2>2
<1>4. reg' = [reg EXCEPT !["fifo"] = READ]
  BY <1>2, BufferIsFree, PutFree
<1>5. reg'["fifo"] = READ /\ reg'["event_exit"] = reg["event_exit"]
  BY <1>4 DEF IInv, TypeOK
<1>6. IInv'
  BY <1>2, <1>4, BufferIsFree, HostRegister DEF deviceVars
<1>7. HostType'
  BY <1>1, <1>3 DEF AppPlace, TaskPlace
<1>8. ~ TaskOwns' /\ ~ AppOwns'
  BY <1>1, <1>2, BufferIsFree DEF TaskOwns, AppOwns, Copying
<1>9. OwnerInv'
  BY <1>8 DEF OwnerInv
<1>10. \A v : Value(v)' => v = READ
  BY <1>1, <1>2, <1>5, <1>8, BufferIsFree DEF Value, AppOwns, Holds
<1>11. ~ At({"fifoAccept"})' /\ ~ At({"fifoRequest"})'
  BY <1>2, BufferIsFree DEF At, Holds
<1>12. mem = opened + 1 /\ (opened = 0 \/ At(Requesting))
  BY <1>1, <1>2 DEF BlockInv, TokenInv, At, Requesting
<1>13. TokenInv'
  BY <1>2, <1>3, <1>10, <1>11, <1>12, BufferIsFree DEF TokenInv, At
<1>14. BlockInv'
  BY <1>1 DEF BlockInv, At
<1>15. AppInv'
  BY <1>1, <1>2, <1>5, BufferIsFree DEF AppInv
<1>16. BirthInv'
  BY DEF BirthInv
<1>17. TransferInv'
  BY <1>1, <1>2, BufferIsFree DEF TransferInv, AppInv
<1> QED BY <1>6, <1>7, <1>9, <1>13, <1>14, <1>15, <1>16, <1>17

\* The end of synch_write preserves the invariant.
LEMMA TaskReturnInv ==
  ASSUME CInv, TaskReturn
  PROVE  CInv'
<1> USE DEF CInv, HostType, TaskReturn, HostGoto, deviceVars
<1>1. /\ hpc["fifo_task"] = "wait" /\ hpc'["fifo_task"] = "returned"
      /\ hpc'["app"] = hpc["app"]
  OBVIOUS
<1>2. IInv'
  BY GroupStutters
<1>3. HostType'
  BY <1>1 DEF AppPlace, TaskPlace
<1>4. /\ ~ TaskOwns' /\ ~ Copying' /\ (AppOwns' <=> AppOwns)
      /\ ~ TaskOwns /\ ~ Copying
  BY <1>1 DEF TaskOwns, Copying, AppOwns
<1>5. (\A v : Value(v)' <=> Value(v)) /\ (Lost' <=> Lost)
  BY <1>1, <1>4 DEF Value, Lost, At, AppOwns
<1>6. OwnerInv'
  BY <1>4 DEF OwnerInv, Holds
<1>7. TokenInv'
  BY <1>4, <1>5 DEF TokenInv, At
<1>8. BlockInv'
  BY <1>1 DEF BlockInv, At
<1>9. AppInv'
  BY <1>1, <1>5 DEF AppInv
<1>10. BirthInv' /\ TransferInv'
  BY <1>1 DEF BirthInv, TransferInv
<1> QED BY <1>2, <1>3, <1>6, <1>7, <1>8, <1>9, <1>10

\* mango_write preserves the invariant: the value of a former transfer has been
\* consumed, and before the first one the offset is 0 already.
LEMMA AppWriteInv ==
  ASSUME CInv, AppWrite
  PROVE  CInv'
<1> USE DEF CInv, HostType, AppWrite, deviceVars
<1>1. /\ hpc["app"] = "write" /\ hpc'["app"] = "start"
      /\ hpc["fifo_task"] = "none" /\ hpc'["fifo_task"] = "wait"
      /\ transfers' > 0
      /\ hpc' \in [Host -> AppPlace \cup TaskPlace]
  BY DEF AppPlace, TaskPlace
<1>2. Lost \/ off = 0
  BY <1>1 DEF AppInv
<1>3. IInv'
  BY GroupStutters
<1>4. HostType'
  BY <1>1 DEF AppPlace, TaskPlace
<1>5. /\ ~ TaskOwns' /\ ~ Copying' /\ ~ AppOwns'
      /\ ~ TaskOwns /\ ~ Copying /\ ~ AppOwns
  BY <1>1 DEF TaskOwns, Copying, AppOwns
<1>6. (\A v : Value(v)' <=> Value(v)) /\ (Lost' <=> Lost)
  BY <1>1, <1>5 DEF Value, Lost, At, AppOwns
<1>7. OwnerInv'
  BY <1>5 DEF OwnerInv
<1>8. TokenInv'
  <2>1. CASE off = 0
    BY <2>1, <1>5, <1>6 DEF TokenInv, At
  <2>2. CASE Lost
    <3>1. \A v : ~ Value(v)
      BY <2>2, <1>1, <1>5 DEF Value, Lost, At, AppOwns
    <3>2. ~ At({"fifoAccept"})' /\ ~ At({"fifoRequest"})'
      BY <2>2 DEF Lost, At
    <3> QED BY <3>1, <3>2, <1>5, <1>6 DEF TokenInv
  <2> QED BY <1>2, <2>1, <2>2
<1>9. BlockInv'
  BY <1>1 DEF BlockInv, At
<1>10. AppInv'
  BY <1>1, <1>6 DEF AppInv
<1>11. BirthInv' /\ TransferInv'
  BY <1>1 DEF BirthInv, TransferInv
<1> QED BY <1>3, <1>4, <1>7, <1>8, <1>9, <1>10, <1>11

\* mango_start_kernel preserves the invariant: the kernel is not running.
LEMMA AppStartInv ==
  ASSUME CInv, AppStart
  PROVE  CInv'
<1> USE DEF CInv, HostType, AppStart, HostGoto, Goto
<1>1. /\ hpc["app"] = "start" /\ hpc'["app"] = first' /\ hpc'["fifo_task"] = hpc["fifo_task"]
      /\ first' \in {"kernel", "buffer"}
      /\ hpc' \in [Host -> AppPlace \cup TaskPlace]
  BY DEF AppPlace, TaskPlace
<1>2. reg["event_exit"] = LOCK /\ pc[Main] = "closed"
  BY <1>1 DEF AppInv
<1>3. reg' = reg
  <2>1. reg' = [reg EXCEPT !["event_exit"] = 0]
    BY <1>2, PutFree
  <2> QED BY <1>2, <2>1 DEF IInv, TypeOK
<1>4. /\ pc'[Main] = "serial" /\ pc' \in [Proc -> MainPlace \cup ThreadPlace]
      /\ \A t \in Thread : pc'[t] = pc[t]
  BY DEF IInv, TypeOK, MainPlace
<1>5. IInv'
  <2> USE <1>2, <1>3, <1>4 DEF IInv
  <2>1. TypeOK'
    BY DEF TypeOK, MainPlace
  <2>2. OneHolder'
    BY DEF TypeOK, OneHolder, Holds
  <2>3. Lifecycle' /\ Colours'
    BY DEF TypeOK, Lifecycle, JoinSafety, Colours
  <2>4. Progress' /\ Leader'
    BY DEF Progress, Leader
  <2>5. Counters'
    <3>1. Here' = Here /\ Gone' = Gone
      BY DEF Here, Gone
    <3> QED BY <3>1 DEF TypeOK, Counters
  <2> QED BY <2>1, <2>2, <2>3, <2>4, <2>5
<1>6. HostType'
  BY <1>1 DEF AppPlace, TaskPlace
<1>7. /\ (TaskOwns' <=> TaskOwns) /\ (Copying' <=> Copying)
      /\ ~ AppOwns' /\ ~ AppOwns
  BY <1>1 DEF TaskOwns, Copying, AppOwns
<1>8. (\A v : Value(v)' <=> Value(v)) /\ (Lost' <=> Lost)
  BY <1>1, <1>3, <1>4, <1>7 DEF Value, Lost, At, AppOwns
<1>9. \A S : At(S)' <=> At(S)
  BY <1>4 DEF At
<1>10. OwnerInv'
  BY <1>3, <1>4, <1>7 DEF OwnerInv, Holds
<1>11. TokenInv'
  BY <1>7, <1>8, <1>9 DEF TokenInv
<1>12. BlockInv'
  BY <1>1, <1>9 DEF BlockInv
<1>13. AppInv'
  BY <1>1, <1>2, <1>3, <1>8 DEF AppInv
<1>14. BirthInv'
  BY <1>4 DEF BirthInv
<1>15. TransferInv'
  BY <1>1 DEF TransferInv
<1> QED BY <1>5, <1>6, <1>10, <1>11, <1>12, <1>13, <1>14, <1>15

\* Waiting for the kernel preserves the invariant: what is read is READ.
LEMMA AppWaitKernelInv ==
  ASSUME CInv, AppWaitKernel
  PROVE  CInv'
<1> USE DEF CInv, HostType, AppWaitKernel, HostWait, HostGoto, PutsBack, Take, deviceVars
<1>1. reg["event_exit"] = READ /\ pc[Main] = "closed"
  BY DEF AppInv, IInv, Lifecycle
<1>2. /\ hpc["app"] = "kernel" /\ hpc'["app"] = IF first = "kernel" THEN "buffer" ELSE "write"
      /\ hpc'["fifo_task"] = hpc["fifo_task"]
      /\ hval' = [hval EXCEPT !["app"] = 0]
      /\ reg'["fifo"] = reg["fifo"] /\ reg'["event_exit"] = LOCK
  BY <1>1 DEF IInv, TypeOK
<1>3. IInv'
  BY HostTakes
<1>4. HostType'
  BY <1>1 DEF AppPlace, TaskPlace
<1>5. /\ (TaskOwns' <=> TaskOwns) /\ (Copying' <=> Copying)
      /\ ~ AppOwns' /\ ~ AppOwns
  BY <1>2 DEF TaskOwns, Copying, AppOwns
<1>6. (\A v : Value(v)' <=> Value(v)) /\ (Lost' <=> Lost)
  BY <1>2, <1>5 DEF Value, Lost, At, AppOwns
<1>7. OwnerInv'
  BY <1>2, <1>5 DEF OwnerInv, Holds
<1>8. TokenInv'
  BY <1>5, <1>6 DEF TokenInv, At
<1>9. BlockInv'
  BY <1>2 DEF BlockInv, At
<1>10. AppInv'
  BY <1>1, <1>2, <1>6 DEF AppInv
<1>11. BirthInv' /\ TransferInv'
  BY <1>2 DEF BirthInv, TransferInv
<1> QED BY <1>3, <1>4, <1>7, <1>8, <1>9, <1>10, <1>11

\* A kernel that has closed, and whose last block has been accepted, has been
\* through all its barriers.
LEMMA KernelDone ==
  ASSUME CInv, pc[Main] = "closed", Value(END_FIFO_OPERATION)
  PROVE  off = Size(Barriers) /\ \A t \in Thread : calls[t] = Barriers
<1> USE DEF CInv
<1>1. \A t \in Thread : pc[t] \in {"unborn", "exited"}
  BY DEF IInv, Lifecycle, JoinSafety
<1>2. off = Size(opened) /\ opened > 0
  BY <1>1 DEF TokenInv, At, Closing
<1>3. Thread # {} /\ \A t \in Thread : pc[t] = "exited"
  BY <1>1, <1>2 DEF BirthInv
<1>4. \A t \in Thread : calls[t] = opened /\ calls[t] = Barriers
  BY <1>3 DEF IInv, Progress
<1> QED BY <1>2, <1>3, <1>4

\* Waiting for the buffer preserves the invariant; END_FIFO_OPERATION, once read,
\* is lost, as no barrier is to come.
LEMMA AppWaitBufferInv ==
  ASSUME CInv, AppWaitBuffer
  PROVE  CInv'
<1> USE DEF CInv, HostType, AppWaitBuffer, HostWait, HostGoto, PutsBack, Take, deviceVars
<1>1. /\ reg["fifo"] # LOCK /\ reg["fifo"] \in Nat
      /\ reg'["fifo"] = LOCK /\ reg'["event_exit"] = reg["event_exit"]
      /\ hpc["app"] = "buffer" /\ hpc'["fifo_task"] = hpc["fifo_task"]
      /\ \/ reg["fifo"] # END_FIFO_OPERATION /\ hpc'["app"] = "bufferPut"
              /\ hval'["app"] = reg["fifo"]
         \/ reg["fifo"] = END_FIFO_OPERATION /\ hpc'["app"] = "join"
  BY DEF IInv, TypeOK
<1>2. ~ TaskOwns /\ ~ AppOwns /\ ~ Lost /\ ~ Copying
  BY <1>1 DEF OwnerInv, Lost, TaskOwns
<1>3. \A t \in Thread : ~ Holds(t, "fifo")
  BY <1>1 DEF IInv, OneHolder
<1>4. IInv'
  BY HostTakes
<1>5. HostType'
  BY <1>1 DEF AppPlace, TaskPlace
<1>6. ~ TaskOwns' /\ ~ Copying'
  BY <1>1, <1>2 DEF TaskOwns, Copying
<1>7. OwnerInv'
  BY <1>1, <1>3, <1>6 DEF OwnerInv, Holds
<1>8. Value(reg["fifo"])
  BY <1>1 DEF Value
<1>9. \A v : Value(v)' => v = reg["fifo"]
  BY <1>1, <1>3, <1>6 DEF Value, AppOwns, TaskOwns, Holds
<1>10. TokenInv'
  BY <1>2, <1>6, <1>8, <1>9 DEF TokenInv, At
<1>11. BlockInv'
  BY <1>1 DEF BlockInv, At
<1>12. hpc'["app"] = "join" => Lost'
  BY <1>1, <1>3, <1>6 DEF Lost, AppOwns, At, Holds
<1>13. AppInv'
  BY <1>1, <1>2, <1>12 DEF AppInv
<1>14. BirthInv'
  BY DEF BirthInv
<1>15. TransferInv'
  <2> SUFFICES ASSUME hpc'["app"] = "join", first = "kernel"
               PROVE  off >= Size(Barriers) /\ \A t \in Thread : calls[t] = Barriers
    BY DEF TransferInv
  <2>1. pc[Main] = "closed" /\ Value(END_FIFO_OPERATION)
    BY <1>1, <1>8 DEF AppInv
  <2> QED BY <2>1, KernelDone
<1> QED BY <1>4, <1>5, <1>7, <1>10, <1>11, <1>13, <1>14, <1>15

\* Writing another value back while waiting for the buffer preserves the invariant.
LEMMA AppWaitBufferPutInv ==
  ASSUME CInv, AppWaitBufferPut
  PROVE  CInv'
<1> USE DEF CInv, HostType, AppWaitBufferPut, HostPut, HostGoto, deviceVars
<1>1. /\ hpc["app"] = "bufferPut" /\ hpc'["app"] = "buffer"
      /\ hpc'["fifo_task"] = hpc["fifo_task"] /\ hval["app"] \in Nat
      /\ hval'["fifo_task"] = hval["fifo_task"]
  OBVIOUS
<1>2. /\ AppOwns /\ ~ TaskOwns /\ ~ Copying /\ ~ Lost /\ reg["fifo"] = LOCK
      /\ \A t \in Thread : ~ Holds(t, "fifo")
  BY <1>1 DEF OwnerInv, AppOwns, TaskOwns, Lost
<1>3. reg' = [reg EXCEPT !["fifo"] = hval["app"]]
  BY <1>1, <1>2, PutFree
<1>4. reg'["fifo"] = hval["app"] /\ reg'["event_exit"] = reg["event_exit"]
  BY <1>3 DEF IInv, TypeOK
<1>5. IInv'
  BY <1>1, <1>2, <1>3, HostRegister DEF deviceVars
<1>6. HostType'
  BY <1>1 DEF AppPlace, TaskPlace
<1>7. ~ TaskOwns' /\ ~ AppOwns' /\ ~ Copying'
  BY <1>1, <1>2 DEF TaskOwns, AppOwns, Copying
<1>8. OwnerInv'
  BY <1>7 DEF OwnerInv
<1>9. \A v : Value(v)' => Value(v)
  BY <1>1, <1>2, <1>4, <1>7 DEF Value, AppOwns, TaskOwns, Holds
<1>10. TokenInv'
  BY <1>2, <1>7, <1>9 DEF TokenInv, At
<1>11. BlockInv'
  BY <1>1 DEF BlockInv, At
<1>12. AppInv'
  BY <1>1, <1>2, <1>4 DEF AppInv
<1>13. BirthInv'
  BY DEF BirthInv
<1>14. TransferInv'
  BY <1>1 DEF TransferInv
<1> QED BY <1>5, <1>6, <1>8, <1>10, <1>11, <1>12, <1>13, <1>14

\* Joining the FIFO thread preserves the invariant.
LEMMA AppJoinInv ==
  ASSUME CInv, AppJoin
  PROVE  CInv'
<1> USE DEF CInv, HostType, AppJoin, deviceVars
<1>1. /\ hpc["app"] = "join" /\ hpc["fifo_task"] = "returned" /\ hpc'["fifo_task"] = "none"
      /\ hpc'["app"] = IF first = "kernel" THEN "write" ELSE "kernel"
      /\ hpc' \in [Host -> AppPlace \cup TaskPlace]
  BY DEF AppPlace, TaskPlace
<1>2. IInv'
  BY GroupStutters
<1>3. HostType'
  BY <1>1 DEF AppPlace, TaskPlace
<1>4. /\ ~ TaskOwns' /\ ~ Copying' /\ ~ AppOwns'
      /\ ~ TaskOwns /\ ~ Copying /\ ~ AppOwns
  BY <1>1 DEF TaskOwns, Copying, AppOwns
<1>5. (\A v : Value(v)' <=> Value(v)) /\ (Lost' <=> Lost)
  BY <1>1, <1>4 DEF Value, Lost, At, AppOwns
<1>6. OwnerInv'
  BY <1>4 DEF OwnerInv
<1>7. TokenInv'
  BY <1>4, <1>5 DEF TokenInv, At
<1>8. BlockInv'
  BY <1>1 DEF BlockInv, At
<1>9. AppInv'
  BY <1>1, <1>5 DEF AppInv
<1>10. BirthInv' /\ TransferInv'
  BY <1>1 DEF BirthInv, TransferInv
<1> QED BY <1>2, <1>3, <1>6, <1>7, <1>8, <1>9, <1>10

\* A step that changes nothing preserves the invariant.
LEMMA ChannelStutters ==
  ASSUME CInv, UNCHANGED allVars
  PROVE  CInv'
<1>1. IInv'
  BY GroupStutters DEF CInv, allVars, vars, deviceVars
<1> QED
  BY <1>1 DEF CInv, allVars, vars, hostVars, HostType, OwnerInv, TokenInv, BlockInv, AppInv,
     BirthInv, TransferInv, Value, TaskOwns, AppOwns, Copying, Lost, At, Holds

\* Every step preserves the invariant.
LEMMA ChannelNextInv ==
  ASSUME OneReader, CInv, [ChannelNext]_allVars
  PROVE  CInv'
<1>1. CASE DeviceStep /\ UNCHANGED hostVars
  BY <1>1, DeviceInv
<1>2. CASE TaskStep
  BY <1>2, TaskWaitInv, TaskWaitPutInv, CopyInv, AnnounceInv, TaskReturnInv DEF TaskStep
<1>3. CASE AppStep
  BY <1>3, AppWriteInv, AppStartInv, AppWaitKernelInv, AppWaitBufferInv, AppWaitBufferPutInv,
     AppJoinInv DEF AppStep
<1>4. CASE Finished \/ UNCHANGED allVars
  BY <1>4, ChannelStutters DEF Finished
<1> QED BY <1>1, <1>2, <1>3, <1>4 DEF ChannelNext
-----------------------------------------------------------------------------
(***************************************************************************)
(* The theorems.                                                           *)
(***************************************************************************)
\* The invariant of the transfer, in every state of every run.
THEOREM ChannelInvariant == OneReader => (ChannelSpec => []CInv)
<1> SUFFICES ASSUME OneReader PROVE ChannelSpec => []CInv
  OBVIOUS
<1>1. ChannelInit => CInv
  BY ChannelInitInv
<1>2. CInv /\ [ChannelNext]_allVars => CInv'
  BY ChannelNextInv
<1> QED BY <1>1, <1>2, PTL DEF ChannelSpec

\* Every register, local and place keeps its type, on both sides.
THEOREM ChannelTypes == OneReader => (ChannelSpec => []ChannelTypeOK)
<1> SUFFICES ASSUME OneReader PROVE ChannelSpec => []ChannelTypeOK
  OBVIOUS
<1>1. CInv => ChannelTypeOK
  BY DEF CInv, IInv, HostType, ChannelTypeOK, AppPlace, TaskPlace
<1>2. ChannelSpec => []CInv
  BY ChannelInvariant
<1> QED BY <1>1, <1>2, PTL

\* While a thread works behind its k-th mango_barrier the buffer holds the k-th
\* block, whole: FIFOBuffer::synch_write neither overwrites, skips nor repeats it.
THEOREM BlocksAreInPlace == OneReader => (ChannelSpec => []BlockInPlace)
<1> SUFFICES ASSUME OneReader PROVE ChannelSpec => []BlockInPlace
  OBVIOUS
<1>1. CInv => BlockInPlace
  BY DEF CInv, IInv, TypeOK, Progress, BlockInv, BlockInPlace
<1>2. ChannelSpec => []CInv
  BY ChannelInvariant
<1> QED BY <1>1, <1>2, PTL

\* The register of the buffer's event has one owner, across host and device.
THEOREM FifoHasOneOwner == OneReader => (ChannelSpec => []FifoOneOwner)
<1> SUFFICES ASSUME OneReader PROVE ChannelSpec => []FifoOneOwner
  OBVIOUS
<1>1. CInv => FifoOneOwner
  BY DEF CInv, OwnerInv, TaskOwns, AppOwns, Copying, FifoOneOwner
<1>2. ChannelSpec => []CInv
  BY ChannelInvariant
<1> QED BY <1>1, <1>2, PTL

\* An application that waits for the kernel, and then for the buffer, finds every
\* block announced and accepted, provided the kernel has a barrier for each.
THEOREM WaitsAreForTransfers ==
  OneReader /\ GlobalSize <= Barriers * BufferSize =>
    (ChannelSpec => []WaitMeansTransferred)
<1> SUFFICES ASSUME OneReader, GlobalSize <= Barriers * BufferSize
             PROVE  ChannelSpec => []WaitMeansTransferred
  OBVIOUS
<1>1. CInv => WaitMeansTransferred
  BY DEF CInv, HostType, TransferInv, WaitMeansTransferred, Size
<1>2. ChannelSpec => []CInv
  BY ChannelInvariant
<1> QED BY <1>1, <1>2, PTL
=============================================================================
