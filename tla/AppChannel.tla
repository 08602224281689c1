----------------------------- MODULE AppChannel -----------------------------
(***************************************************************************)
(* What the application task's queues promise: a bounded channel that      *)
(* hands every accepted message to the task once, in the order accepted.   *)
(***************************************************************************)
EXTENDS Naturals, Sequences

CONSTANTS Message, Size

VARIABLES queue, handled

Init == queue = <<>> /\ handled = <<>>
Put(m) ==
  /\ Len(queue) < Size
  /\ queue' = Append(queue, m)
  /\ UNCHANGED handled
Get ==
  /\ queue # <<>>
  /\ handled' = Append(handled, Head(queue))
  /\ queue' = Tail(queue)
Next == Get \/ \E m \in Message : Put(m)

Safety == Init /\ [][Next]_<<queue, handled>>
Spec == Safety /\ WF_<<queue, handled>>(Get)
=============================================================================
