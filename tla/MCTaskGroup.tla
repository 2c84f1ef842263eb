----------------------------- MODULE MCTaskGroup -----------------------------
(***************************************************************************)
(* TaskGroup for TLC.                                                      *)
(***************************************************************************)
EXTENDS TaskGroup

(***************************************************************************)
(* The most general host a FIFO barrier can meet: it answers every request *)
(* for a block, sooner or later, and has the value of the register in the  *)
(* meantime.  FifoChannel has the real one.                                *)
(***************************************************************************)
HostTakes ==
  /\ reg["fifo"] = WRITE
  /\ reg' = [reg EXCEPT !["fifo"] = LOCK]

HostAnswers ==
  /\ reg["fifo"] = LOCK /\ \A p \in Proc : ~ Holds(p, "fifo")
  /\ reg' = [reg EXCEPT !["fifo"] = READ]

Host ==
  /\ HostTakes \/ HostAnswers
  /\ UNCHANGED <<pc, val, go, calls, spawned, opened>>

FifoSpec ==
  /\ Init /\ [][Next \/ Host]_vars
  /\ Fairness /\ SF_vars(Host)
=============================================================================
