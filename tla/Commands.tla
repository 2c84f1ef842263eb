------------------------------- MODULE Commands -------------------------------
(***************************************************************************)
(* What a command queue promises its application, whatever synchronizes    *)
(* it: a command begins when everything in its wait list is complete, an   *)
(* event is complete only after its command has ended, a call of           *)
(* clWaitForEvents returns when the listed events are complete, and one of *)
(* clFinish when all are.  There are no registers and no queue here:       *)
(* ClQueue implements this specification with them.                        *)
(***************************************************************************)
EXTENDS Naturals, Sequences

CONSTANT Object   \* what commands are about: kernels and buffers

VARIABLES
  call,      \* the call the application is in, with its wait list
  begun,     \* the commands that have begun, in this order
  active,    \* those that have not ended, by number
  complete   \* those whose event is complete, by number

vars == <<call, begun, active, complete>>

Transfers == {"write", "read"}
NoCall == [type |-> "none", on |-> "none", list |-> {}]

Init ==
  /\ call = NoCall
  /\ begun = <<>>
  /\ active = {}
  /\ complete = {}

Request(type, on, list) ==
  /\ call = NoCall
  /\ call' = [type |-> type, on |-> on, list |-> list]
  /\ UNCHANGED <<begun, active, complete>>

Begin ==
  /\ call.type \in Transfers \cup {"task"}
  /\ call.list \subseteq complete
  /\ begun' = Append(begun, [type |-> call.type, on |-> call.on])
  /\ active' = active \cup {Len(begun) + 1}
  /\ call' = [call EXCEPT !.type = "begun"]
  /\ UNCHANGED complete

\* A task goes on when its call has returned.
TaskReturns ==
  /\ call.type = "begun" /\ begun[Len(begun)].type = "task"
  /\ call' = NoCall
  /\ UNCHANGED <<begun, active, complete>>

TaskEnds(i) ==
  /\ i \in active /\ begun[i].type = "task"
  /\ active' = active \ {i}
  /\ UNCHANGED <<call, begun, complete>>

\* A transfer ends with its call.
TransferEnds ==
  /\ call.type = "begun" /\ begun[Len(begun)].type \in Transfers
  /\ active' = active \ {Len(begun)}
  /\ call' = NoCall
  /\ UNCHANGED <<begun, complete>>

Complete(i) ==
  /\ i \in DOMAIN begun \ active
  /\ complete' = complete \cup {i}
  /\ UNCHANGED <<call, begun, active>>

WaitReturns ==
  /\ \/ call.type = "wait" /\ call.list \subseteq complete
     \/ call.type = "finish" /\ complete = DOMAIN begun
  /\ call' = NoCall
  /\ UNCHANGED <<begun, active, complete>>

Next ==
  \/ \E type \in Transfers \cup {"task", "wait", "finish"},
        on \in Object \cup {"none"}, list \in SUBSET DOMAIN begun :
       Request(type, on, list)
  \/ Begin \/ TaskReturns \/ TransferEnds \/ WaitReturns
  \/ \E i \in DOMAIN begun : TaskEnds(i) \/ Complete(i)

Spec == Init /\ [][Next]_vars
===============================================================================
