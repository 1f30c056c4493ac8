----------------------------- MODULE Rendezvous -----------------------------
(***************************************************************************)
(* What a blocking collective promises: a rank leaves its k-th collective  *)
(* only when every rank has entered its k-th.                              *)
(***************************************************************************)
EXTENDS Naturals

CONSTANT Party

VARIABLES
  entered,   \* collectives each party has entered
  left       \* collectives each party has left

RendezvousInit ==
  /\ entered = [p \in Party |-> 0]
  /\ left = [p \in Party |-> 0]

Enter(p) ==
  /\ entered[p] = left[p]
  /\ entered' = [entered EXCEPT ![p] = @ + 1]
  /\ UNCHANGED left

Leave(p) ==
  /\ entered[p] = left[p] + 1
  /\ \A q \in Party : entered[q] >= entered[p]
  /\ left' = [left EXCEPT ![p] = @ + 1]
  /\ UNCHANGED entered

\* A party that leaves one collective for the next in the same step.
LeaveAndEnter(p) ==
  /\ entered[p] = left[p] + 1
  /\ \A q \in Party : entered[q] >= entered[p]
  /\ left' = [left EXCEPT ![p] = @ + 1]
  /\ entered' = [entered EXCEPT ![p] = @ + 1]

RendezvousNext == \E p \in Party : Enter(p) \/ Leave(p) \/ LeaveAndEnter(p)

RendezvousSpec == RendezvousInit /\ [][RendezvousNext]_<<entered, left>>
=============================================================================
