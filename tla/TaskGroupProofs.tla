--------------------------- MODULE TaskGroupProofs ---------------------------
(***************************************************************************)
(* Proofs about TaskGroup, for every finite set of threads, every number   *)
(* of barriers and groups, both variants of mango_wait and both kinds of   *)
(* register.                                                               *)
(***************************************************************************)
EXTENDS TaskGroup, FiniteSetTheorems, TLAPS

USE ThreadAssumption, BoundAssumption, VariantAssumption, AccumulateAssumption
    DEF Proc, Event, LOCK, READ, WRITE, END_FIFO_OPERATION,
        LockStep, WriteStep, Kept

\* How many threads there are, and how many a set of threads has.
LEMMA GroupSize == N \in Nat
BY FS_CardinalityType DEF N

\* Threads that arrive one at a time count one each.
LEMMA ThreadCount ==
  ASSUME NEW S \in SUBSET Thread
  PROVE  /\ Cardinality(S) \in 0..N
         /\ Cardinality(S) = N => S = Thread
         /\ \A t \in Thread \ S : /\ Cardinality(S) + 1 <= N
                                  /\ Cardinality(S \cup {t}) = Cardinality(S) + 1
<1>1. IsFiniteSet(S) /\ Cardinality(S) \in Nat /\ N \in Nat
  BY FS_Subset, FS_CardinalityType DEF N
<1>2. Cardinality(S) <= N /\ (Cardinality(S) = N => S = Thread)
  BY FS_Subset DEF N
<1>3. ASSUME NEW t \in Thread \ S
      PROVE  /\ Cardinality(S) + 1 <= N
             /\ Cardinality(S \cup {t}) = Cardinality(S) + 1
  <2>1. Cardinality(S \cup {t}) = Cardinality(S) + 1
    BY <1>1, <1>3, FS_AddElement
  <2>2. Cardinality(S \cup {t}) <= N
    BY FS_Subset DEF N
  <2> QED BY <2>1, <2>2
<1> QED BY <1>1, <1>2, <1>3

\* Both kinds of register hold the written value when they were free before.
LEMMA PutFree ==
  ASSUME NEW e \in Event, NEW v \in Nat, reg[e] = 0, Put(e, v)
  PROVE  reg' = [reg EXCEPT ![e] = v]
<1>1. (IF Accumulate THEN reg[e] + v ELSE v) = v
  OBVIOUS
<1> QED BY <1>1 DEF Put

\* Two consecutive openings differ in colour.
LEMMA ColoursAlternate ==
  ASSUME NEW n \in Nat
  PROVE  /\ Colour(n) \in {1, 2} /\ Colour(n + 1) \in {1, 2}
         /\ Colour(n + 1) # Colour(n)
         /\ Colour(n + 1) = OtherColour(Colour(n))
BY DEF Colour, OtherColour

\* The counters are positive, and a full count means everybody.
LEMMA CountersPositive ==
  /\ N + 1 - Cardinality(Here) \in Nat \ {0}
  /\ N + 1 - Cardinality(Gone) \in Nat \ {0}
  /\ N + 1 - Cardinality(Gone) = 1 => \A t \in Thread : pc[t] = "exited"
<1>1. Here \in SUBSET Thread /\ Gone \in SUBSET Thread
  BY DEF Here, Gone
<1>2. Cardinality(Here) \in 0..N /\ Cardinality(Gone) \in 0..N /\ N \in Nat
  BY <1>1, ThreadCount, GroupSize
<1>3. Cardinality(Gone) = N => Gone = Thread
  BY <1>1, ThreadCount
<1> QED BY <1>2, <1>3 DEF Gone

\* A lock on a group's register is taken while main waits for the group.
LEMMA Joining ==
  ASSUME TypeOK, Lifecycle, NEW t \in Thread, pc[t] \notin {"unborn", "exited"}
  PROVE  pc[Main] \in {"join", "joinPut"}
BY DEF TypeOK, Lifecycle, JoinSafety, MainPlace

\* mango_join, reading event_a, preserves the invariant.
LEMMA JoinLockInv ==
  ASSUME IInv, JoinLock
  PROVE  IInv'
<1> USE DEF IInv, JoinLock, WaitLock, WrittenBack, Goto, Take
<1>1. reg["event_a"] = N + 1 - Cardinality(Gone)
  BY DEF Counters
<1>2. TypeOK'
  BY <1>1 DEF TypeOK, MainPlace, ThreadPlace
<1>3. OneHolder'
  BY <1>1 DEF TypeOK, OneHolder, Holds
<1>4. Lifecycle'
  BY <1>1, CountersPositive DEF TypeOK, Lifecycle, JoinSafety
<1>5. Progress'
  BY <1>1 DEF TypeOK, Progress, Entering, Leading, Opening
<1>6. Colours'
  BY <1>1 DEF TypeOK, Colours, Entering, Leading, Opening, Waiting
<1>7. Leader'
  BY <1>1 DEF TypeOK, Leader, Entering, Leading, Opening, Waiting
<1>8. Counters'
  <2>1. Here' = Here /\ Gone' = Gone
    BY DEF TypeOK, Here, Gone, Entering
  <2> QED BY <1>1, <2>1 DEF TypeOK, Counters, Opening
<1> QED BY <1>2, <1>3, <1>4, <1>5, <1>6, <1>7, <1>8

\* mango_join, writing event_a back, preserves the invariant.
LEMMA JoinPutInv ==
  ASSUME IInv, JoinPut
  PROVE  IInv'
<1> USE DEF IInv, JoinPut, WaitPut, Goto, Write, Put
<1>1. reg["event_a"] = 0
  BY DEF OneHolder, Holds, TypeOK
<1>2. val[Main] = N + 1 - Cardinality(Gone)
  BY DEF Counters
<1>3. TypeOK'
  BY <1>1, <1>2 DEF TypeOK, MainPlace, ThreadPlace
<1>4. OneHolder'
  BY <1>1, <1>2 DEF TypeOK, OneHolder, Holds
<1>5. Lifecycle'
  BY <1>2, CountersPositive DEF TypeOK, Lifecycle, JoinSafety
<1>6. Progress'
  BY <1>1, <1>2 DEF TypeOK, Progress, Entering, Leading, Opening
<1>7. Colours'
  BY <1>1, <1>2 DEF TypeOK, Colours, Entering, Leading, Opening, Waiting
<1>8. Leader'
  BY <1>1, <1>2 DEF TypeOK, Leader, Entering, Leading, Opening, Waiting
<1>9. Counters'
  <2>1. Here' = Here /\ Gone' = Gone
    BY DEF TypeOK, Here, Gone, Entering
  <2> QED BY <1>1, <1>2, <2>1 DEF TypeOK, Counters, Opening
<1> QED BY <1>3, <1>4, <1>5, <1>6, <1>7, <1>8, <1>9

\* mango_close, run by main after the last group, preserves the invariant.
LEMMA CloseInv ==
  ASSUME IInv, Close
  PROVE  IInv'
<1> USE DEF IInv, Close, Goto, Write, Put
<1>1. TypeOK'
  BY DEF TypeOK, MainPlace, ThreadPlace
<1>2. OneHolder'
  BY DEF TypeOK, OneHolder, Holds
<1>3. Lifecycle'
  BY DEF TypeOK, Lifecycle, JoinSafety
<1>4. Progress'
  BY DEF TypeOK, Progress, Entering, Leading, Opening
<1>5. Colours'
  BY DEF TypeOK, Colours, Entering, Leading, Opening, Waiting
<1>6. Leader'
  BY DEF TypeOK, Leader, Entering, Leading, Opening, Waiting
<1>7. Counters'
  <2>1. Here' = Here /\ Gone' = Gone
    BY DEF TypeOK, Here, Gone, Entering
  <2> QED BY <2>1 DEF TypeOK, Counters, Opening
<1> QED BY <1>1, <1>2, <1>3, <1>4, <1>5, <1>6, <1>7

\* mango_barrier, learning the colour of the last opening, preserves the invariant.
LEMMA EnterLockInv ==
  ASSUME IInv, NEW t \in Thread, EnterLock(t)
  PROVE  IInv'
<1> USE DEF IInv, EnterLock, Goto, Lock, Take
<1>1. pc[Main] \in {"join", "joinPut"}
  BY Joining
<1>2. reg["event_r"] = Colour(opened) /\ calls[t] = opened
  BY <1>1 DEF Colours, Progress
<1>3. OtherColour(reg["event_r"]) = Colour(opened + 1) /\ Colour(opened + 1) \in {1, 2}
  BY <1>2, ColoursAlternate DEF TypeOK
<1>4. go' = [go EXCEPT ![t] = Colour(opened + 1)]
  BY <1>3
<1>5. TypeOK'
  BY <1>1, <1>2, <1>3, <1>4 DEF TypeOK, MainPlace, ThreadPlace
<1>6. OneHolder'
  BY <1>1, <1>2, <1>3, <1>4 DEF TypeOK, OneHolder, Holds
<1>7. Lifecycle'
  BY <1>1, <1>2, <1>3, <1>4 DEF TypeOK, Lifecycle, JoinSafety
<1>8. Progress'
  BY <1>1, <1>2, <1>3, <1>4 DEF TypeOK, Progress, Entering, Leading, Opening
<1>9. Colours'
  BY <1>1, <1>2, <1>3, <1>4 DEF TypeOK, Colours, Entering, Leading, Opening, Waiting
<1>10. Leader'
  BY <1>1, <1>2, <1>3, <1>4 DEF TypeOK, Leader, Entering, Leading, Opening, Waiting
<1>11. Counters'
  <2>1. Here' = Here /\ Gone' = Gone
    BY <1>2 DEF TypeOK, Here, Gone, Entering
  <2> QED BY <2>1 DEF TypeOK, Counters, Opening
<1> QED BY <1>5, <1>6, <1>7, <1>8, <1>9, <1>10, <1>11

\* mango_barrier, writing the colour back, preserves the invariant.
LEMMA EnterPutInv ==
  ASSUME IInv, NEW t \in Thread, EnterPut(t)
  PROVE  IInv'
<1> USE DEF IInv, EnterPut, Goto, Write, Put
<1>1. reg["event_r"] = 0
  BY DEF OneHolder, Holds, TypeOK
<1>2. val[t] = Colour(opened) /\ val[t] \in {1, 2}
  BY ColoursAlternate DEF Colours, TypeOK
<1>3. TypeOK'
  BY <1>1, <1>2 DEF TypeOK, MainPlace, ThreadPlace
<1>4. OneHolder'
  BY <1>1, <1>2 DEF TypeOK, OneHolder, Holds
<1>5. Lifecycle'
  BY <1>1, <1>2 DEF TypeOK, Lifecycle, JoinSafety
<1>6. Progress'
  BY <1>1, <1>2 DEF TypeOK, Progress, Entering, Leading, Opening
<1>7. Colours'
  BY <1>1, <1>2 DEF TypeOK, Colours, Entering, Leading, Opening, Waiting
<1>8. Leader'
  BY <1>1, <1>2 DEF TypeOK, Leader, Entering, Leading, Opening, Waiting
<1>9. Counters'
  <2>1. Here' = Here /\ Gone' = Gone
    BY DEF TypeOK, Here, Gone, Entering
  <2> QED BY <1>1, <1>2, <2>1 DEF TypeOK, Counters, Opening
<1> QED BY <1>3, <1>4, <1>5, <1>6, <1>7, <1>8, <1>9

\* mango_signal, taking the count of missing threads, preserves the invariant.
LEMMA SignalLockInv ==
  ASSUME IInv, NEW t \in Thread, SignalLock(t)
  PROVE  IInv'
<1> USE DEF IInv, SignalLock, Goto, Lock, Take
<1>1. pc[Main] \in {"join", "joinPut"}
  BY Joining
<1>2. \A u \in Thread : pc[u] \notin Opening
  BY DEF Leader, Leading, Opening, Waiting
<1>3. TypeOK'
  BY <1>1, <1>2 DEF TypeOK, MainPlace, ThreadPlace
<1>4. OneHolder'
  BY <1>1, <1>2 DEF TypeOK, OneHolder, Holds
<1>5. Lifecycle'
  BY <1>1, <1>2 DEF TypeOK, Lifecycle, JoinSafety
<1>6. Progress'
  BY <1>1, <1>2 DEF TypeOK, Progress, Entering, Leading, Opening
<1>7. Colours'
  BY <1>1, <1>2 DEF TypeOK, Colours, Entering, Leading, Opening, Waiting
<1>8. Leader'
  BY <1>1, <1>2 DEF TypeOK, Leader, Entering, Leading, Opening, Waiting
<1>9. Counters'
  <2>1. Here' = Here /\ Gone' = Gone
    BY DEF TypeOK, Here, Gone, Entering
  <2> QED BY <1>1, <1>2, <2>1 DEF TypeOK, Counters, Opening
<1> QED BY <1>3, <1>4, <1>5, <1>6, <1>7, <1>8, <1>9

\* mango_signal, counting itself in, preserves the invariant.
LEMMA SignalPutInv ==
  ASSUME IInv, NEW t \in Thread, SignalPut(t)
  PROVE  IInv'
<1> USE DEF IInv, SignalPut, Goto, Write, Put
<1>1. reg["event_b"] = 0
  BY DEF OneHolder, Holds, TypeOK
<1>2. \A u \in Thread : pc[u] \notin Leading
  BY DEF Leader, Leading, Opening, Waiting
<1>3. val[t] = N + 1 - Cardinality(Here)
  BY <1>2 DEF Counters, Leading
<1>4. /\ Here \in SUBSET Thread /\ t \notin Here /\ calls[t] = opened + 1
      /\ Here' = Here \cup {t}
  BY DEF TypeOK, Here, Progress, Entering
<1>5. /\ Cardinality(Here) \in Nat /\ Cardinality(Here) + 1 <= N
      /\ Cardinality(Here') = Cardinality(Here) + 1
  BY <1>4, ThreadCount
<1>6. IsLast(val[t] - 1) => Here' = Thread
  BY <1>3, <1>4, <1>5, ThreadCount, GroupSize DEF IsLast
<1>7. TypeOK'
  BY <1>1, <1>3, <1>5, GroupSize DEF TypeOK, MainPlace, ThreadPlace
<1>8. OneHolder'
  BY <1>1, <1>2, <1>3, <1>4, <1>5, <1>6 DEF TypeOK, OneHolder, Holds
<1>9. Lifecycle'
  BY <1>1, <1>2, <1>3, <1>4, <1>5, <1>6 DEF TypeOK, Lifecycle, JoinSafety
<1>10. Progress'
  BY <1>1, <1>2, <1>3, <1>4, <1>5, <1>6 DEF TypeOK, Progress, Entering, Leading, Opening
<1>11. Colours'
  BY <1>1, <1>2, <1>3, <1>4, <1>5, <1>6 DEF TypeOK, Colours, Entering, Leading, Opening, Waiting
<1>12. Leader'
  <2>1. CASE IsLast(val[t] - 1)
    <3>1. \A u \in Thread \ {t} : calls[u] = opened + 1 /\ pc[u] \notin Entering
      BY <2>1, <1>4, <1>6 DEF Here
    <3>2. \A u \in Thread \ {t} : pc[u] \in Waiting
      BY <3>1, <1>2 DEF TypeOK, ThreadPlace, Progress, Entering, Waiting, Leading, Opening
    <3> QED BY <3>1, <3>2, <1>2 DEF TypeOK, Leader, Waiting, Leading, Opening
  <2>2. CASE ~ IsLast(val[t] - 1)
    BY <2>2, <1>2 DEF TypeOK, Leader, Waiting, Leading, Opening
  <2> QED BY <2>1, <2>2
<1>13. Counters'
  <2>1. Gone' = Gone
    BY DEF TypeOK, Gone
  <2>2. reg' = [reg EXCEPT !["event_b"] = N + 1 - Cardinality(Here')]
    <3>1. val[t] - 1 = N + 1 - Cardinality(Here') /\ val[t] - 1 \in Nat
      BY <1>3, <1>5, GroupSize
    <3>2. reg' = [reg EXCEPT !["event_b"] = val[t] - 1]
      BY <1>1, <3>1, PutFree
    <3> QED BY <3>1, <3>2
  <2>3. \A u \in Thread : pc'[u] \notin Opening /\ pc'[u] # "signalPut"
    BY <1>1, <1>2 DEF TypeOK, OneHolder, Holds, Leading, Opening
  <2> QED BY <2>1, <2>2, <2>3 DEF TypeOK, Counters
<1> QED BY <1>7, <1>8, <1>9, <1>10, <1>11, <1>12, <1>13

\* mango_wait for the new colour, reading event_r, preserves the invariant.
LEMMA ReleaseWaitInv ==
  ASSUME IInv, NEW t \in Thread, ReleaseWait(t)
  PROVE  IInv'
<1> USE DEF IInv, ReleaseWait, WaitLock, WrittenBack, Goto, Take
<1>1. pc[Main] \in {"join", "joinPut"}
  BY Joining
<1>2. reg["event_r"] = Colour(opened) /\ Colour(opened) \in {1, 2}
  BY <1>1, ColoursAlternate DEF TypeOK, Colours
<1>3. reg["event_r"] = go[t] => calls[t] = opened
  BY <1>2, ColoursAlternate DEF TypeOK, Colours, Progress, Waiting
<1>4. (\E u \in Thread : pc[u] \in Leading) => calls[t] = opened + 1
  BY DEF Leader, Leading, Opening
<1>5. TypeOK'
  BY <1>1, <1>2, <1>3, <1>4 DEF TypeOK, MainPlace, ThreadPlace
<1>6. OneHolder'
  BY <1>1, <1>2, <1>3, <1>4 DEF TypeOK, OneHolder, Holds
<1>7. Lifecycle'
  BY <1>1, <1>2, <1>3, <1>4 DEF TypeOK, Lifecycle, JoinSafety
<1>8. Progress'
  BY <1>1, <1>2, <1>3, <1>4 DEF TypeOK, Progress, Entering, Leading, Opening
<1>9. Colours'
  BY <1>1, <1>2, <1>3, <1>4 DEF TypeOK, Colours, Entering, Leading, Opening, Waiting
<1>10. Leader'
  BY <1>1, <1>2, <1>3, <1>4 DEF TypeOK, Leader, Entering, Leading, Opening, Waiting
<1>11. Counters'
  <2>1. Here' = Here /\ Gone' = Gone
    BY DEF TypeOK, Here, Gone, Entering
  <2> QED BY <1>1, <1>2, <1>3, <1>4, <2>1 DEF TypeOK, Counters, Opening
<1> QED BY <1>5, <1>6, <1>7, <1>8, <1>9, <1>10, <1>11

\* mango_wait for the new colour, writing event_r back, preserves the invariant.
LEMMA ReleaseWaitPutInv ==
  ASSUME IInv, NEW t \in Thread, ReleaseWaitPut(t)
  PROVE  IInv'
<1> USE DEF IInv, ReleaseWaitPut, WaitPut, Goto, Write, Put
<1>1. reg["event_r"] = 0
  BY DEF OneHolder, Holds, TypeOK
<1>2. val[t] = Colour(opened) /\ val[t] \in {1, 2}
  BY ColoursAlternate DEF Colours, TypeOK
<1>3. val[t] = go[t] => calls[t] = opened
  BY <1>2, ColoursAlternate DEF TypeOK, Colours, Progress, Waiting
<1>4. (\E u \in Thread : pc[u] \in Leading) => calls[t] = opened + 1
  BY DEF Leader, Leading, Opening
<1>5. TypeOK'
  BY <1>1, <1>2, <1>3, <1>4 DEF TypeOK, MainPlace, ThreadPlace
<1>6. OneHolder'
  BY <1>1, <1>2, <1>3, <1>4 DEF TypeOK, OneHolder, Holds
<1>7. Lifecycle'
  BY <1>1, <1>2, <1>3, <1>4 DEF TypeOK, Lifecycle, JoinSafety
<1>8. Progress'
  BY <1>1, <1>2, <1>3, <1>4 DEF TypeOK, Progress, Entering, Leading, Opening
<1>9. Colours'
  BY <1>1, <1>2, <1>3, <1>4 DEF TypeOK, Colours, Entering, Leading, Opening, Waiting
<1>10. Leader'
  BY <1>1, <1>2, <1>3, <1>4 DEF TypeOK, Leader, Entering, Leading, Opening, Waiting
<1>11. Counters'
  <2>1. Here' = Here /\ Gone' = Gone
    BY DEF TypeOK, Here, Gone, Entering
  <2> QED BY <1>1, <1>2, <1>3, <1>4, <2>1 DEF TypeOK, Counters, Opening
<1> QED BY <1>5, <1>6, <1>7, <1>8, <1>9, <1>10, <1>11

\* The FIFO handshake, taking the register, preserves the invariant.
LEMMA FifoLockInv ==
  ASSUME IInv, NEW t \in Thread, FifoLock(t)
  PROVE  IInv'
<1> USE DEF IInv, FifoLock, Goto, Lock, Take, FifoAnswer
<1>1. TypeOK'
  BY DEF TypeOK, MainPlace, ThreadPlace
<1>2. OneHolder'
  BY DEF TypeOK, OneHolder, Holds
<1>3. Lifecycle'
  BY DEF TypeOK, Lifecycle, JoinSafety
<1>4. Progress'
  BY DEF TypeOK, Progress, Entering, Leading, Opening
<1>5. Colours'
  BY DEF TypeOK, Colours, Entering, Leading, Opening, Waiting
<1>6. Leader'
  BY DEF TypeOK, Leader, Entering, Leading, Opening, Waiting
<1>7. Counters'
  <2>1. Here' = Here /\ Gone' = Gone
    BY DEF TypeOK, Here, Gone, Entering
  <2> QED BY <2>1 DEF TypeOK, Counters, Opening
<1> QED BY <1>1, <1>2, <1>3, <1>4, <1>5, <1>6, <1>7

\* The FIFO handshake, asking for a block, preserves the invariant.
LEMMA FifoRequestInv ==
  ASSUME IInv, NEW t \in Thread, FifoRequest(t)
  PROVE  IInv'
<1> USE DEF IInv, FifoRequest, Goto, Write, Put
<1>1. reg["fifo"] = 0
  BY DEF OneHolder, Holds, TypeOK
<1>2. TypeOK'
  BY <1>1 DEF TypeOK, MainPlace, ThreadPlace
<1>3. OneHolder'
  BY <1>1 DEF TypeOK, OneHolder, Holds
<1>4. Lifecycle'
  BY <1>1 DEF TypeOK, Lifecycle, JoinSafety
<1>5. Progress'
  BY <1>1 DEF TypeOK, Progress, Entering, Leading, Opening
<1>6. Colours'
  BY <1>1 DEF TypeOK, Colours, Entering, Leading, Opening, Waiting
<1>7. Leader'
  BY <1>1 DEF TypeOK, Leader, Entering, Leading, Opening, Waiting
<1>8. Counters'
  <2>1. Here' = Here /\ Gone' = Gone
    BY DEF TypeOK, Here, Gone, Entering
  <2> QED BY <1>1, <2>1 DEF TypeOK, Counters, Opening
<1> QED BY <1>2, <1>3, <1>4, <1>5, <1>6, <1>7, <1>8

\* The FIFO handshake, reading the register in mango_wait, preserves the invariant.
LEMMA FifoWaitInv ==
  ASSUME IInv, NEW t \in Thread, FifoWait(t)
  PROVE  IInv'
<1> USE DEF IInv, FifoWait, WaitLock, WrittenBack, Goto, Take
<1>1. TypeOK'
  BY DEF TypeOK, MainPlace, ThreadPlace
<1>2. OneHolder'
  BY DEF TypeOK, OneHolder, Holds
<1>3. Lifecycle'
  BY DEF TypeOK, Lifecycle, JoinSafety
<1>4. Progress'
  BY DEF TypeOK, Progress, Entering, Leading, Opening
<1>5. Colours'
  BY DEF TypeOK, Colours, Entering, Leading, Opening, Waiting
<1>6. Leader'
  BY DEF TypeOK, Leader, Entering, Leading, Opening, Waiting
<1>7. Counters'
  <2>1. Here' = Here /\ Gone' = Gone
    BY DEF TypeOK, Here, Gone, Entering
  <2> QED BY <2>1 DEF TypeOK, Counters, Opening
<1> QED BY <1>1, <1>2, <1>3, <1>4, <1>5, <1>6, <1>7

\* The FIFO handshake, writing the register back in mango_wait, preserves the invariant.
LEMMA FifoWaitPutInv ==
  ASSUME IInv, NEW t \in Thread, FifoWaitPut(t)
  PROVE  IInv'
<1> USE DEF IInv, FifoWaitPut, WaitPut, Goto, Write, Put
<1>1. reg["fifo"] = 0
  BY DEF OneHolder, Holds, TypeOK
<1>2. TypeOK'
  BY <1>1 DEF TypeOK, MainPlace, ThreadPlace
<1>3. OneHolder'
  BY <1>1 DEF TypeOK, OneHolder, Holds
<1>4. Lifecycle'
  BY <1>1 DEF TypeOK, Lifecycle, JoinSafety
<1>5. Progress'
  BY <1>1 DEF TypeOK, Progress, Entering, Leading, Opening
<1>6. Colours'
  BY <1>1 DEF TypeOK, Colours, Entering, Leading, Opening, Waiting
<1>7. Leader'
  BY <1>1 DEF TypeOK, Leader, Entering, Leading, Opening, Waiting
<1>8. Counters'
  <2>1. Here' = Here /\ Gone' = Gone
    BY DEF TypeOK, Here, Gone, Entering
  <2> QED BY <1>1, <2>1 DEF TypeOK, Counters, Opening
<1> QED BY <1>2, <1>3, <1>4, <1>5, <1>6, <1>7, <1>8

\* The FIFO handshake, taking the register a second time, preserves the invariant.
LEMMA FifoTakeInv ==
  ASSUME IInv, NEW t \in Thread, FifoTake(t)
  PROVE  IInv'
<1> USE DEF IInv, FifoTake, Goto, Lock, Take
<1>1. TypeOK'
  BY DEF TypeOK, MainPlace, ThreadPlace
<1>2. OneHolder'
  BY DEF TypeOK, OneHolder, Holds
<1>3. Lifecycle'
  BY DEF TypeOK, Lifecycle, JoinSafety
<1>4. Progress'
  BY DEF TypeOK, Progress, Entering, Leading, Opening
<1>5. Colours'
  BY DEF TypeOK, Colours, Entering, Leading, Opening, Waiting
<1>6. Leader'
  BY DEF TypeOK, Leader, Entering, Leading, Opening, Waiting
<1>7. Counters'
  <2>1. Here' = Here /\ Gone' = Gone
    BY DEF TypeOK, Here, Gone, Entering
  <2> QED BY <2>1 DEF TypeOK, Counters, Opening
<1> QED BY <1>1, <1>2, <1>3, <1>4, <1>5, <1>6, <1>7

\* The FIFO handshake, accepting the block, preserves the invariant.
LEMMA FifoAcceptInv ==
  ASSUME IInv, NEW t \in Thread, FifoAccept(t)
  PROVE  IInv'
<1> USE DEF IInv, FifoAccept, Goto, Write, Put
<1>1. reg["fifo"] = 0
  BY DEF OneHolder, Holds, TypeOK
<1>2. TypeOK'
  BY <1>1 DEF TypeOK, MainPlace, ThreadPlace
<1>3. OneHolder'
  BY <1>1 DEF TypeOK, OneHolder, Holds
<1>4. Lifecycle'
  BY <1>1 DEF TypeOK, Lifecycle, JoinSafety
<1>5. Progress'
  BY <1>1 DEF TypeOK, Progress, Entering, Leading, Opening
<1>6. Colours'
  BY <1>1 DEF TypeOK, Colours, Entering, Leading, Opening, Waiting
<1>7. Leader'
  BY <1>1 DEF TypeOK, Leader, Entering, Leading, Opening, Waiting
<1>8. Counters'
  <2>1. Here' = Here /\ Gone' = Gone
    BY DEF TypeOK, Here, Gone, Entering
  <2> QED BY <1>1, <2>1 DEF TypeOK, Counters, Opening
<1> QED BY <1>2, <1>3, <1>4, <1>5, <1>6, <1>7, <1>8

\* The last thread, taking the count, preserves the invariant.
LEMMA RearmInv ==
  ASSUME IInv, NEW t \in Thread, Rearm(t)
  PROVE  IInv'
<1> USE DEF IInv, Rearm, Goto, Lock, Take
<1>1. \A u \in Thread \ {t} : pc[u] \in Waiting /\ calls[u] = opened + 1
  BY DEF Leader, Leading, Opening
<1>2. TypeOK'
  BY <1>1 DEF TypeOK, MainPlace, ThreadPlace
<1>3. OneHolder'
  BY <1>1 DEF TypeOK, OneHolder, Holds
<1>4. Lifecycle'
  BY <1>1 DEF TypeOK, Lifecycle, JoinSafety
<1>5. Progress'
  BY <1>1 DEF TypeOK, Progress, Entering, Leading, Opening
<1>6. Colours'
  BY <1>1 DEF TypeOK, Colours, Entering, Leading, Opening, Waiting
<1>7. Leader'
  BY <1>1 DEF TypeOK, Leader, Entering, Leading, Opening, Waiting
<1>8. Counters'
  <2>1. Here' = Here /\ Gone' = Gone
    BY DEF TypeOK, Here, Gone, Entering
  <2>2. \A u \in Thread : pc'[u] \notin Opening /\ pc'[u] # "signalPut"
    BY <1>1 DEF TypeOK, Opening, Waiting
  <2> QED BY <2>1, <2>2 DEF TypeOK, Counters
<1> QED BY <1>2, <1>3, <1>4, <1>5, <1>6, <1>7, <1>8

\* The last thread, rearming the count, preserves the invariant.
LEMMA RearmPutInv ==
  ASSUME IInv, NEW t \in Thread, RearmPut(t)
  PROVE  IInv'
<1> USE DEF IInv, RearmPut, Goto, Write, Put
<1>1. reg["event_b"] = 0
  BY DEF OneHolder, Holds, TypeOK
<1>2. \A u \in Thread \ {t} : pc[u] \in Waiting /\ calls[u] = opened + 1
  BY DEF Leader, Leading, Opening
<1>3. TypeOK'
  BY <1>1, GroupSize DEF TypeOK, MainPlace, ThreadPlace
<1>4. OneHolder'
  BY <1>1, <1>2 DEF TypeOK, OneHolder, Holds
<1>5. Lifecycle'
  BY <1>1, <1>2 DEF TypeOK, Lifecycle, JoinSafety
<1>6. Progress'
  BY <1>1, <1>2 DEF TypeOK, Progress, Entering, Leading, Opening
<1>7. Colours'
  BY <1>1, <1>2 DEF TypeOK, Colours, Entering, Leading, Opening, Waiting
<1>8. Leader'
  BY <1>1, <1>2 DEF TypeOK, Leader, Entering, Leading, Opening, Waiting
<1>9. Counters'
  <2>1. Gone' = Gone /\ N \in Nat
    BY GroupSize DEF TypeOK, Gone
  <2>2. pc'[t] \in Opening /\ reg' = [reg EXCEPT !["event_b"] = N + 1]
    BY <1>1, <2>1 DEF TypeOK, Opening
  <2> QED BY <2>1, <2>2 DEF TypeOK, Counters
<1> QED BY <1>3, <1>4, <1>5, <1>6, <1>7, <1>8, <1>9

\* The last thread, taking the colour, preserves the invariant.
LEMMA ReleaseInv ==
  ASSUME IInv, NEW t \in Thread, Release(t)
  PROVE  IInv'
<1> USE DEF IInv, Release, Goto, Lock, Take
<1>1. TypeOK'
  BY DEF TypeOK, MainPlace, ThreadPlace
<1>2. OneHolder'
  BY DEF TypeOK, OneHolder, Holds
<1>3. Lifecycle'
  BY DEF TypeOK, Lifecycle, JoinSafety
<1>4. Progress'
  BY DEF TypeOK, Progress, Entering, Leading, Opening
<1>5. Colours'
  BY DEF TypeOK, Colours, Entering, Leading, Opening, Waiting
<1>6. Leader'
  BY DEF TypeOK, Leader, Entering, Leading, Opening, Waiting
<1>7. Counters'
  <2>1. Here' = Here /\ Gone' = Gone
    BY DEF TypeOK, Here, Gone, Entering
  <2> QED BY <2>1 DEF TypeOK, Counters, Opening
<1> QED BY <1>1, <1>2, <1>3, <1>4, <1>5, <1>6, <1>7

\* The last thread, opening the barrier, preserves the invariant.
LEMMA ReleasePutInv ==
  ASSUME IInv, NEW t \in Thread, ReleasePut(t)
  PROVE  IInv'
<1> USE DEF IInv, ReleasePut, Goto, Write, Put
<1>1. reg["event_r"] = 0
  BY DEF OneHolder, Holds, TypeOK
<1>2. \A u \in Thread \ {t} : pc[u] \in Waiting /\ calls[u] = opened + 1
  BY DEF Leader, Leading, Opening
<1>3. \A u \in Thread : calls[u] = opened + 1
  BY <1>2 DEF Progress, Leading, Opening
<1>4. go[t] = Colour(opened + 1) /\ go[t] \in {1, 2}
  BY <1>3 DEF TypeOK, Colours, Leading, Opening
<1>5. \A u \in Thread \ {t} : pc[u] = "wait"
  BY <1>2 DEF OneHolder, Holds, Waiting
<1>6. TypeOK'
  BY <1>1, <1>2, <1>3, <1>4, <1>5 DEF TypeOK, MainPlace, ThreadPlace
<1>7. OneHolder'
  BY <1>1, <1>2, <1>3, <1>4, <1>5 DEF TypeOK, OneHolder, Holds
<1>8. Lifecycle'
  BY <1>1, <1>2, <1>3, <1>4, <1>5 DEF TypeOK, Lifecycle, JoinSafety
<1>9. Progress'
  BY <1>1, <1>2, <1>3, <1>4, <1>5 DEF TypeOK, Progress, Entering, Leading, Opening
<1>10. Colours'
  BY <1>1, <1>2, <1>3, <1>4, <1>5 DEF TypeOK, Colours, Entering, Leading, Opening, Waiting
<1>11. Leader'
  BY <1>1, <1>2, <1>3, <1>4, <1>5 DEF TypeOK, Leader, Entering, Leading, Opening, Waiting
<1>12. Counters'
  <2>1. Here' = {} /\ Gone' = Gone
    BY <1>3 DEF TypeOK, Here, Gone
  <2>2. Cardinality({}) = 0 /\ N \in Nat
    BY FS_EmptySet, GroupSize
  <2>3. reg["event_b"] = N + 1
    BY DEF Counters, Opening
  <2>4. \A u \in Thread : pc'[u] \in {"section", "wait"}
    BY <1>5 DEF TypeOK
  <2> QED BY <2>1, <2>2, <2>3, <2>4, <1>1 DEF TypeOK, Counters, Opening
<1> QED BY <1>6, <1>7, <1>8, <1>9, <1>10, <1>11, <1>12

\* mango_exit, taking the count of running threads, preserves the invariant.
LEMMA ExitLockInv ==
  ASSUME IInv, NEW t \in Thread, ExitLock(t)
  PROVE  IInv'
<1> USE DEF IInv, ExitLock, Goto, Lock, Take
<1>1. pc[Main] \in {"join", "joinPut"}
  BY Joining
<1>2. TypeOK'
  BY <1>1 DEF TypeOK, MainPlace, ThreadPlace
<1>3. OneHolder'
  BY <1>1 DEF TypeOK, OneHolder, Holds
<1>4. Lifecycle'
  BY <1>1 DEF TypeOK, Lifecycle, JoinSafety
<1>5. Progress'
  BY <1>1 DEF TypeOK, Progress, Entering, Leading, Opening
<1>6. Colours'
  BY <1>1 DEF TypeOK, Colours, Entering, Leading, Opening, Waiting
<1>7. Leader'
  BY <1>1 DEF TypeOK, Leader, Entering, Leading, Opening, Waiting
<1>8. Counters'
  <2>1. Here' = Here /\ Gone' = Gone
    BY DEF TypeOK, Here, Gone, Entering
  <2> QED BY <1>1, <2>1 DEF TypeOK, Counters, Opening
<1> QED BY <1>2, <1>3, <1>4, <1>5, <1>6, <1>7, <1>8

\* mango_exit, counting itself out, preserves the invariant.
LEMMA ExitPutInv ==
  ASSUME IInv, NEW t \in Thread, ExitPut(t)
  PROVE  IInv'
<1> USE DEF IInv, ExitPut, Goto, Write, Put
<1>1. reg["event_a"] = 0
  BY DEF OneHolder, Holds, TypeOK
<1>2. val[t] = N + 1 - Cardinality(Gone) /\ val[t] - 1 \in Nat
  BY CountersPositive DEF Counters
<1>3. Gone \in SUBSET Thread /\ t \notin Gone /\ Gone' = Gone \cup {t}
  BY DEF TypeOK, Gone
<1>4. /\ Cardinality(Gone) \in Nat
      /\ Cardinality(Gone') = Cardinality(Gone) + 1
  BY <1>3, ThreadCount
<1>5. TypeOK'
  BY <1>1, <1>2, <1>3, <1>4 DEF TypeOK, MainPlace, ThreadPlace
<1>6. OneHolder'
  BY <1>1, <1>2, <1>3, <1>4 DEF TypeOK, OneHolder, Holds
<1>7. Lifecycle'
  BY <1>1, <1>2, <1>3, <1>4 DEF TypeOK, Lifecycle, JoinSafety
<1>8. Progress'
  BY <1>1, <1>2, <1>3, <1>4 DEF TypeOK, Progress, Entering, Leading, Opening
<1>9. Colours'
  BY <1>1, <1>2, <1>3, <1>4 DEF TypeOK, Colours, Entering, Leading, Opening, Waiting
<1>10. Leader'
  BY <1>1, <1>2, <1>3, <1>4 DEF TypeOK, Leader, Entering, Leading, Opening, Waiting
<1>11. Counters'
  <2>1. Here' = Here
    BY DEF TypeOK, Here, Entering
  <2>2. reg' = [reg EXCEPT !["event_a"] = N + 1 - Cardinality(Gone')]
    <3>1. val[t] - 1 = N + 1 - Cardinality(Gone')
      BY <1>2, <1>4, GroupSize
    <3>2. reg' = [reg EXCEPT !["event_a"] = val[t] - 1]
      BY <1>1, <1>2, PutFree
    <3> QED BY <3>1, <3>2
  <2>3. \A p \in Proc : pc'[p] \notin {"exitPut", "joinPut"}
    BY <1>1 DEF TypeOK, OneHolder, Holds
  <2> QED BY <2>1, <2>2, <2>3 DEF TypeOK, Counters, Opening
<1> QED BY <1>5, <1>6, <1>7, <1>8, <1>9, <1>10, <1>11

\* Resource allocation establishes the invariant.
LEMMA InitInv == Init => IInv
<1> SUFFICES ASSUME Init PROVE IInv
  OBVIOUS
<1> USE DEF Init, InitWith
<1>1. TypeOK
  BY DEF TypeOK, MainPlace, ThreadPlace
<1>2. OneHolder
  BY DEF OneHolder, Holds
<1>3. Lifecycle
  BY DEF Lifecycle, JoinSafety
<1>4. Progress
  BY DEF Progress, Entering, Leading, Opening
<1>5. Colours /\ Leader
  BY DEF Colours, Leader, Entering, Waiting, Leading, Opening
<1>6. Counters
  BY DEF Counters, Opening
<1> QED BY <1>1, <1>2, <1>3, <1>4, <1>5, <1>6 DEF IInv

\* mango_spawn, which resets the three registers, preserves the invariant.
LEMMA SpawnInv ==
  ASSUME IInv, Spawn
  PROVE  IInv'
<1> USE DEF IInv, Spawn
<1>1. \A t \in Thread : pc'[t] = "section" /\ calls'[t] = 0
  OBVIOUS
<1>2. Here' = {} /\ Gone' = {}
  BY <1>1 DEF Here, Gone
<1>3. Cardinality({}) = 0 /\ N \in Nat
  BY FS_EmptySet, GroupSize
<1>4. TypeOK'
  BY <1>3 DEF TypeOK, MainPlace, ThreadPlace
<1>5. OneHolder'
  BY DEF OneHolder, Holds
<1>6. Lifecycle'
  BY DEF TypeOK, Lifecycle, JoinSafety
<1>7. Progress'
  BY <1>1 DEF Progress, Entering, Leading, Opening
<1>8. Colours' /\ Leader'
  BY <1>1 DEF TypeOK, Colours, Leader, Entering, Waiting, Leading, Opening, Colour
<1>9. Counters'
  BY <1>1, <1>2, <1>3 DEF TypeOK, Counters, Opening
<1> QED BY <1>4, <1>5, <1>6, <1>7, <1>8, <1>9

\* Every step preserves the invariant.
LEMMA NextInv == IInv /\ [Next]_vars => IInv'
<1> SUFFICES ASSUME IInv, [Next]_vars PROVE IInv'
  OBVIOUS
<1>1. CASE MainStep
  BY <1>1, SpawnInv, JoinLockInv, JoinPutInv, CloseInv DEF MainStep
<1>2. ASSUME NEW t \in Thread, BarrierStep(t) PROVE IInv'
  BY <1>2, EnterLockInv, EnterPutInv, SignalLockInv, SignalPutInv, ReleaseWaitInv,
     ReleaseWaitPutInv, RearmInv, RearmPutInv, ReleaseInv, ReleasePutInv DEF BarrierStep
<1>3. ASSUME NEW t \in Thread, FifoStep(t) PROVE IInv'
  BY <1>3, FifoLockInv, FifoRequestInv, FifoWaitInv, FifoWaitPutInv, FifoTakeInv,
     FifoAcceptInv DEF FifoStep
<1>4. ASSUME NEW t \in Thread, ExitStep(t) PROVE IInv'
  BY <1>4, ExitLockInv, ExitPutInv DEF ExitStep
<1>5. CASE UNCHANGED vars
  BY <1>5 DEF vars, IInv, TypeOK, OneHolder, Holds, Lifecycle, JoinSafety, Progress,
     Colours, Leader, Counters, Here, Gone
<1> QED BY <1>1, <1>2, <1>3, <1>4, <1>5 DEF Next, DeviceStep, ThreadStep, Exited

\* The invariant of the register protocol: in every state of every run.
THEOREM Invariant == Spec => []IInv
<1>1. Init => IInv
  BY InitInv
<1>2. IInv /\ [Next]_vars => IInv'
  BY NextInv
<1> QED BY <1>1, <1>2, PTL DEF Spec

\* Every register and local keeps its type; in particular mango_signal and
\* mango_exit never count below zero.
THEOREM TypeCorrect == Spec => []TypeOK
<1>1. IInv => TypeOK
  BY DEF IInv
<1> QED BY <1>1, Invariant, PTL

\* A register value is never held twice, nor held and readable.
THEOREM TokensAreExclusive == Spec => []OneHolder
<1>1. IInv => OneHolder
  BY DEF IInv
<1> QED BY <1>1, Invariant, PTL

\* No thread leaves a mango_barrier before all have arrived at it.
THEOREM BarrierIsSafe == Spec => []BarrierSafety
<1>1. IInv => BarrierSafety
  BY DEF IInv, TypeOK, Progress, BarrierSafety, Arrived, Entering
<1> QED BY <1>1, Invariant, PTL

\* mango_join returns only when every thread of the group has exited.
THEOREM JoinIsSafe == Spec => []JoinSafety
<1>1. IInv => JoinSafety
  BY DEF IInv, Lifecycle
<1> QED BY <1>1, Invariant, PTL

-----------------------------------------------------------------------------
\* A step takes registers, or writes a register that is at 0.
WritesFree == Spawn \/ \A e \in Event : reg[e] # LOCK => reg'[e] \in {LOCK, reg[e]}

\* Reading a register leaves it at 0.
LEMMA TakeIsFree ==
  ASSUME TypeOK, NEW e \in Event, Take(e)
  PROVE  WritesFree
BY DEF TypeOK, Take, WritesFree

\* Writing a register that is at 0 destroys nothing.
LEMMA PutIsFree ==
  ASSUME TypeOK, NEW e \in Event, NEW v, reg[e] = LOCK, Put(e, v)
  PROVE  WritesFree
BY DEF TypeOK, Put, WritesFree

\* Every step but mango_spawn writes only registers that are at 0.
LEMMA StepWritesFree ==
  ASSUME IInv, Next
  PROVE  WritesFree \/ UNCHANGED reg
<1> USE DEF IInv
<1>1. ASSUME NEW p \in Proc, NEW e \in Event, Holds(p, e) PROVE reg[e] = LOCK
  BY <1>1 DEF OneHolder
<1>2. CASE Spawn
  BY <1>2 DEF WritesFree
<1>3. CASE JoinLock \/ \E t \in Thread : ReleaseWait(t) \/ FifoWait(t)
  BY <1>3, TakeIsFree DEF JoinLock, ReleaseWait, FifoWait, WaitLock
<1>4. CASE \E t \in Thread : \/ EnterLock(t) \/ SignalLock(t) \/ FifoLock(t) \/ FifoTake(t)
                             \/ Rearm(t) \/ Release(t) \/ ExitLock(t)
  BY <1>4, TakeIsFree DEF EnterLock, SignalLock, FifoLock, FifoTake, Rearm, Release,
     ExitLock, Lock
<1>5. CASE JoinPut
  BY <1>1, <1>5, PutIsFree DEF JoinPut, WaitPut, Goto, Write, Holds
<1>6. CASE Close
  BY <1>6, PutIsFree DEF Close, Goto, Write, Lifecycle
<1>7. ASSUME NEW t \in Thread, EnterPut(t) \/ ReleaseWaitPut(t) \/ ReleasePut(t)
      PROVE  WritesFree
  BY <1>1, <1>7, PutIsFree
     DEF EnterPut, ReleaseWaitPut, ReleasePut, WaitPut, Goto, Write, Holds
<1>8. ASSUME NEW t \in Thread, SignalPut(t) \/ RearmPut(t)
      PROVE  WritesFree
  BY <1>1, <1>8, PutIsFree DEF SignalPut, RearmPut, Goto, Write, Holds
<1>9. ASSUME NEW t \in Thread, FifoRequest(t) \/ FifoWaitPut(t) \/ FifoAccept(t)
      PROVE  WritesFree
  BY <1>1, <1>9, PutIsFree DEF FifoRequest, FifoWaitPut, FifoAccept, WaitPut, Goto, Write, Holds
<1>10. ASSUME NEW t \in Thread, ExitPut(t)
       PROVE  WritesFree
  BY <1>1, <1>10, PutIsFree DEF ExitPut, Goto, Write, Holds
<1>11. CASE Exited
  BY <1>11 DEF Exited, vars
<1> QED
  BY <1>2, <1>3, <1>4, <1>5, <1>6, <1>7, <1>8, <1>9, <1>10, <1>11
     DEF Next, DeviceStep, MainStep, ThreadStep, BarrierStep, FifoStep, ExitStep

\* Storing and adding registers behave alike: nothing is written over a value.
THEOREM NoValueIsLost == Spec => WritesFindZero
<1>1. IInv /\ [Next]_vars =>
        [Spawn \/ \A e \in Event : reg[e] # LOCK => reg'[e] \in {LOCK, reg[e]}]_vars
  <2> SUFFICES ASSUME IInv, Next
               PROVE  Spawn \/ \A e \in Event : reg[e] # LOCK => reg'[e] \in {LOCK, reg[e]}
    OBVIOUS
  <2> QED BY StepWritesFree DEF WritesFree
<1> QED BY <1>1, Invariant, PTL DEF Spec, WritesFindZero
-----------------------------------------------------------------------------
(***************************************************************************)
(* Refinement: the register protocol implements ForkJoin.                  *)
(***************************************************************************)
\* The initial state is one of ForkJoin.
LEMMA InitPromise == Init => Promise!Init
BY DEF Init, InitWith, Promise!Init, Stage, Arrived, MainStage, Entering

\* A thread step leaves everybody else where they are.
LEMMA ThreadFrame ==
  ASSUME IInv, NEW t \in Thread, ThreadStep(t)
  PROVE  /\ \A u \in Thread \ {t} : Stage(u)' = Stage(u) /\ Arrived(u)' = Arrived(u)
         /\ UNCHANGED <<MainStage, spawned>>
<1>1. /\ \A u \in Proc \ {t} : pc'[u] = pc[u]
      /\ \A u \in Thread \ {t} : calls'[u] = calls[u]
      /\ UNCHANGED spawned
  BY DEF IInv, TypeOK, Goto, ThreadStep, BarrierStep, FifoStep, ExitStep, EnterLock, EnterPut,
     SignalLock, SignalPut, ReleaseWait, ReleaseWaitPut, WaitLock, WaitPut, Rearm, RearmPut,
     Release, ReleasePut, FifoLock, FifoRequest, FifoWait, FifoWaitPut, FifoTake, FifoAccept,
     ExitLock, ExitPut
<1> QED BY <1>1 DEF Stage, Arrived, MainStage

\* What a thread step does in terms of ForkJoin: nothing, or one of its actions.
Rests(t) == Stage(t)' = Stage(t) /\ Arrived(t)' = Arrived(t)
Arrives(t) ==
  /\ Stage(t) = "running" /\ Arrived(t) < Barriers
  /\ Stage(t)' = "waiting" /\ Arrived(t)' = Arrived(t) + 1
Leaves(t) ==
  /\ Stage(t) = "waiting" /\ \A u \in Thread : Arrived(u) >= Arrived(t)
  /\ Stage(t)' = "running" /\ Arrived(t)' = Arrived(t)
Finishes(t) ==
  /\ Stage(t) = "running" /\ Arrived(t) = Barriers
  /\ Stage(t)' = "exited" /\ Arrived(t)' = Arrived(t)

\* A thread step with one of these outcomes is a step of ForkJoin, or a stutter.
LEMMA ThreadPromise ==
  ASSUME IInv, NEW t \in Thread, ThreadStep(t),
         Rests(t) \/ Arrives(t) \/ Leaves(t) \/ Finishes(t)
  PROVE  [Promise!Next]_(Promise!vars)
<1> USE ThreadFrame
<1>1. CASE Rests(t)
  BY <1>1 DEF Promise!vars, Rests
<1>2. CASE Arrives(t)
  BY <1>2 DEF Promise!Next, Promise!Arrive, Arrives
<1>3. CASE Leaves(t)
  BY <1>3 DEF Promise!Next, Promise!Leave, Leaves
<1>4. CASE Finishes(t)
  BY <1>4 DEF Promise!Next, Promise!Finish, Finishes
<1> QED BY <1>1, <1>2, <1>3, <1>4

\* Every thread step has one of these outcomes: arriving is the write of
\* mango_signal, leaving the read of the awaited colour (or writing it).
LEMMA ThreadOutcome ==
  ASSUME IInv, NEW t \in Thread, ThreadStep(t)
  PROVE  Rests(t) \/ Arrives(t) \/ Leaves(t) \/ Finishes(t)
<1> USE DEF IInv, Goto
<1>0. \A u \in Thread : Arrived(u) >= opened
  BY DEF TypeOK, Progress, Arrived, Entering
<1>1. CASE EnterLock(t)
  BY <1>1 DEF TypeOK, EnterLock, Rests, Stage, Arrived, Entering
<1>2. CASE EnterPut(t) \/ SignalLock(t)
  BY <1>2 DEF TypeOK, EnterPut, SignalLock, Rests, Stage, Arrived, Entering
<1>3. CASE SignalPut(t)
  BY <1>3 DEF TypeOK, Progress, SignalPut, Arrives, Stage, Arrived, Entering
<1>4. CASE ReleaseWait(t)
  <2>1. pc[Main] \in {"join", "joinPut"}
    BY <1>4, Joining DEF ReleaseWait, WaitLock
  <2>2. reg["event_r"] = Colour(opened)
    BY <1>4, <2>1 DEF Colours, ReleaseWait, WaitLock, Take
  <2>3. reg["event_r"] = go[t] => calls[t] = opened
    BY <1>4, <2>2, ColoursAlternate
       DEF TypeOK, Colours, Progress, Waiting, ReleaseWait, WaitLock
  <2> QED BY <1>0, <1>4, <2>3
    DEF TypeOK, ReleaseWait, WaitLock, WrittenBack, Rests, Leaves, Stage, Arrived, Entering
<1>5. CASE ReleaseWaitPut(t)
  <2>1. val[t] = go[t] => calls[t] = opened
    BY <1>5, ColoursAlternate
       DEF TypeOK, Colours, Progress, Waiting, ReleaseWaitPut, WaitPut
  <2> QED BY <1>0, <1>5, <2>1
    DEF TypeOK, ReleaseWaitPut, WaitPut, Rests, Leaves, Stage, Arrived, Entering
<1>6. CASE Rearm(t) \/ RearmPut(t) \/ Release(t)
  BY <1>6 DEF TypeOK, Rearm, RearmPut, Release, Rests, Stage, Arrived, Entering
<1>7. CASE ReleasePut(t)
  <2>1. \A u \in Thread : calls[u] = opened + 1 /\ pc[u] \notin Entering
    BY <1>7 DEF TypeOK, Progress, Leader, ReleasePut, Leading, Opening, Waiting, Entering
  <2> QED BY <1>7, <2>1 DEF TypeOK, ReleasePut, Leaves, Stage, Arrived, Entering
<1>8. CASE FifoStep(t)
  BY <1>8 DEF TypeOK, FifoStep, FifoLock, FifoAnswer, FifoRequest, FifoWait, FifoWaitPut, FifoTake,
     FifoAccept, WaitLock, WaitPut, Rests, Stage, Arrived, Entering
<1>9. CASE ExitLock(t)
  BY <1>9 DEF TypeOK, ExitLock, Rests, Stage, Arrived, Entering
<1>10. CASE ExitPut(t)
  BY <1>10 DEF TypeOK, Progress, ExitPut, Finishes, Stage, Arrived, Entering
<1> QED
  BY <1>1, <1>2, <1>3, <1>4, <1>5, <1>6, <1>7, <1>8, <1>9, <1>10
     DEF ThreadStep, BarrierStep, ExitStep

\* Main's steps are steps of ForkJoin, or stutter.
LEMMA MainPromise ==
  ASSUME IInv, MainStep
  PROVE  [Promise!Next]_(Promise!vars)
<1> USE DEF IInv, Goto
<1>1. CASE Spawn
  <2>1. \A t \in Thread : Stage(t)' = "running" /\ Arrived(t)' = 0
    BY <1>1 DEF Spawn, Stage, Arrived, Entering
  <2>2. MainStage = "serial" /\ MainStage' = "join"
    BY <1>1 DEF Spawn, MainStage
  <2> QED BY <1>1, <2>1, <2>2 DEF Spawn, Promise!Next, Promise!Fork
<1>2. ASSUME JoinLock \/ JoinPut \/ Close
      PROVE  \A t \in Thread : Stage(t)' = Stage(t) /\ Arrived(t)' = Arrived(t)
  BY <1>2 DEF TypeOK, JoinLock, JoinPut, WaitLock, WaitPut, Close, Stage, Arrived
<1>3. ASSUME JoinLock \/ JoinPut, pc'[Main] = "serial"
      PROVE  \A t \in Thread : Stage(t) = "exited"
  <2>1. N + 1 - Cardinality(Gone) = 1
    BY <1>3 DEF TypeOK, Counters, JoinLock, JoinPut, WaitLock, WaitPut, WrittenBack, Take
  <2> QED BY <2>1, CountersPositive DEF Stage
<1>4. CASE (JoinLock \/ JoinPut) /\ pc'[Main] = "serial"
  BY <1>2, <1>3, <1>4
     DEF JoinLock, JoinPut, WaitLock, WaitPut, MainStage, Promise!Next, Promise!Join
<1>5. CASE (JoinLock \/ JoinPut) /\ pc'[Main] # "serial"
  BY <1>2, <1>5 DEF TypeOK, JoinLock, JoinPut, WaitLock, WaitPut, MainStage, Promise!vars
<1>6. CASE Close
  BY <1>2, <1>6 DEF TypeOK, Close, MainStage, Promise!Next, Promise!End
<1> QED BY <1>1, <1>4, <1>5, <1>6 DEF MainStep

\* The work group, built from its registers, is the fork and join with a
\* barrier that mango_hn.h promises.
THEOREM Refinement == Spec => ImplementsForkJoin
<1>1. IInv /\ [Next]_vars => [Promise!Next]_(Promise!vars)
  <2> SUFFICES ASSUME IInv, [Next]_vars PROVE [Promise!Next]_(Promise!vars)
    OBVIOUS
  <2>1. CASE MainStep
    BY <2>1, MainPromise
  <2>2. ASSUME NEW t \in Thread, ThreadStep(t) PROVE [Promise!Next]_(Promise!vars)
    BY <2>2, ThreadOutcome, ThreadPromise
  <2>3. CASE UNCHANGED vars
    BY <2>3 DEF vars, Promise!vars, Stage, Arrived, MainStage
  <2> QED BY <2>1, <2>2, <2>3 DEF Next, DeviceStep, Exited
<1> QED BY <1>1, InitPromise, Invariant, PTL DEF Spec, ImplementsForkJoin, Promise!Spec
=============================================================================
