------------------------------ MODULE ForkJoin -------------------------------
(***************************************************************************)
(* What mango_spawn, mango_barrier, mango_exit and mango_join promise to   *)
(* the author of a kernel (dev/include/mango_hn.h): a barrier lets nobody  *)
(* through before everybody has completed the section in front of it, and  *)
(* the join returns only when all threads have exited.  There are no       *)
(* registers here: TaskGroup implements this specification with them.      *)
(***************************************************************************)
EXTENDS Naturals

CONSTANTS Thread, Barriers, Groups

VARIABLES
  at,      \* at[t]: "unborn", "running", "waiting" (at a barrier) or "exited"
  done,    \* done[t]: how many sections t has completed
  master,  \* the kernel's main: "serial", "join" or "closed"
  forked   \* how many groups the main has spawned

vars == <<at, done, master, forked>>

Init ==
  /\ at = [t \in Thread |-> "unborn"]
  /\ done = [t \in Thread |-> 0]
  /\ master = "serial"
  /\ forked = 0

Fork ==
  /\ master = "serial" /\ forked < Groups
  /\ master' = "join"
  /\ forked' = forked + 1
  /\ at' = [t \in Thread |-> "running"]
  /\ done' = [t \in Thread |-> 0]

Arrive(t) ==
  /\ at[t] = "running" /\ done[t] < Barriers
  /\ at' = [at EXCEPT ![t] = "waiting"]
  /\ done' = [done EXCEPT ![t] = @ + 1]
  /\ UNCHANGED <<master, forked>>

Leave(t) ==
  /\ at[t] = "waiting"
  /\ \A u \in Thread : done[u] >= done[t]
  /\ at' = [at EXCEPT ![t] = "running"]
  /\ UNCHANGED <<done, master, forked>>

Finish(t) ==
  /\ at[t] = "running" /\ done[t] = Barriers
  /\ at' = [at EXCEPT ![t] = "exited"]
  /\ UNCHANGED <<done, master, forked>>

Join ==
  /\ master = "join"
  /\ \A t \in Thread : at[t] = "exited"
  /\ master' = "serial"
  /\ UNCHANGED <<at, done, forked>>

End ==
  /\ master = "serial" /\ forked = Groups
  /\ master' = "closed"
  /\ UNCHANGED <<at, done, forked>>

Next ==
  \/ Fork \/ Join \/ End
  \/ \E t \in Thread : Arrive(t) \/ Leave(t) \/ Finish(t)

Spec == Init /\ [][Next]_vars
=============================================================================
