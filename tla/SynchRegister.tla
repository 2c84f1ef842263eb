---------------------------- MODULE SynchRegister ----------------------------
(***************************************************************************)
(* The TILEREG synchronisation registers that every other part of libmango *)
(* synchronises on.  Reading a register returns its content and resets it  *)
(* to 0, so a read that returns a value v # 0 takes v away from everybody  *)
(* else: the content is a token, and 0 means "somebody holds it".          *)
(*                                                                         *)
(* In the GN emulation a write stores its value.  On the hardware a write  *)
(* adds its value to the content (host/include/mango.h, the note on        *)
(* mango_register_event; host/src/context.cpp, BBQContext::from_bbque).    *)
(* Accumulate selects between the two.                                     *)
(***************************************************************************)
EXTENDS Integers

CONSTANT Accumulate   \* TRUE: a write adds to the register (hardware)

ASSUME AccumulateAssumption == Accumulate \in BOOLEAN

VARIABLE reg          \* reg[e]: the content of the register of event e

\* mango_event_status_t.  LOCK is the content of a register somebody holds.
LOCK == 0
READ == 1
WRITE == 2
END_FIFO_OPERATION == 3

\* Mutant of Take: the read does not reset the register.
TakeWithoutReset(e) ==
  /\ reg[e] # LOCK
  /\ UNCHANGED reg

(***************************************************************************)
(* One successful mango_lock / Event::lock: the code spins while the read  *)
(* returns 0, and a read of 0 changes nothing, so the spinning is waiting  *)
(* for the guard.                                                          *)
(***************************************************************************)
Take(e) ==
  /\ reg[e] # LOCK
  /\ reg' = [reg EXCEPT ![e] = LOCK]

\* mango_write_synchronization / Event::write.
Put(e, v) ==
  reg' = [reg EXCEPT ![e] = IF Accumulate THEN @ + v ELSE v]
=============================================================================
