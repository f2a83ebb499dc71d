--------------------------- MODULE BoundedMailbox ---------------------------
(***************************************************************************)
(* What a mailbox promises, without semaphore, counter or wakeups: two     *)
(* FIFO queues that share one capacity.  A message is accepted whole at    *)
(* the back of one of them and only while there is room; a message leaves  *)
(* from the front of one of them.                                          *)
(***************************************************************************)
EXTENDS Integers, Sequences

CONSTANTS Message, Capacity

VARIABLES normal, urgent

Init == normal = <<>> /\ urgent = <<>>

Room == Len(normal) + Len(urgent) < Capacity

Accept(m) ==
  /\ Room
  /\ \/ normal' = Append(normal, m) /\ UNCHANGED urgent
     \/ urgent' = Append(urgent, m) /\ UNCHANGED normal

RemoveNormal == normal # <<>> /\ normal' = Tail(normal) /\ UNCHANGED urgent
RemoveUrgent == urgent # <<>> /\ urgent' = Tail(urgent) /\ UNCHANGED normal

Next == (\E m \in Message : Accept(m)) \/ RemoveNormal \/ RemoveUrgent

Spec == Init /\ [][Next]_<<normal, urgent>>
=============================================================================
