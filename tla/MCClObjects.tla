----------------------------- MODULE MCClObjects -----------------------------
(***************************************************************************)
(* Instances of ClObjects.  Handles of one kind are interchangeable, and   *)
(* no property tells an order of them apart.                               *)
(***************************************************************************)
EXTENDS ClObjects, TLC

Symmetry ==
  UNION {Permutations(S) : S \in {Context, Device, Queue, Program, Kernel, Mem, Event}}

\* How many objects of a kind have been made.
Made(S) == Cardinality({o \in S : life[o] # "new"})

\* The bound of the instance: two queues, or an untidy call, go with one device and
\* one event, and two devices with one event.
Narrow ==
  \/ Made(Device) <= 1 /\ Made(Event) <= 1
  \/ untidy = 0 /\ Made(Queue) <= 1 /\ (Made(Device) <= 1 \/ Made(Event) <= 1)

NarrowSpec == Init /\ [][Call /\ Narrow']_vars
===============================================================================
