----------------------------- MODULE FifoQueue ------------------------------
(***************************************************************************)
(* What a bounded channel promises, without threads and permits: a queue   *)
(* that accepts a message while there is room, and hands the messages out  *)
(* in the order of acceptance until its receiving end is dropped.          *)
(***************************************************************************)
EXTENDS Integers, Sequences

CONSTANTS Slots, Numbers
VARIABLES accepted, received, open

vars == <<accepted, received, open>>

Init == accepted = <<>> /\ received = <<>> /\ open = TRUE

Accept ==
  /\ open
  /\ Len(accepted) - Len(received) < Slots
  /\ \E m \in Numbers :
       /\ \A i \in 1..Len(accepted) : accepted[i] # m
       /\ accepted' = Append(accepted, m)
  /\ UNCHANGED <<received, open>>

Deliver ==
  /\ open
  /\ Len(received) < Len(accepted)
  /\ received' = Append(received, accepted[Len(received) + 1])
  /\ UNCHANGED <<accepted, open>>

Close ==
  /\ open
  /\ open' = FALSE
  /\ UNCHANGED <<accepted, received>>

Next == Accept \/ Deliver \/ Close

Spec == Init /\ [][Next]_vars
=============================================================================
