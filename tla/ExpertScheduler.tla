-------------------------- MODULE ExpertScheduler ---------------------------
(***************************************************************************)
(* The round-robin policy: the active experts in ascending order, each     *)
(* with its range of slots, its priority and its stream.                   *)
(***************************************************************************)
EXTENDS Dispatcher, Sequences, SequencesExt

CONSTANT StreamCount

ASSUME SchedulerAssumption == StreamCount \in Nat \ {0}

\* torch.nonzero: the k-th of the experts that have something to do.
ActiveExperts(counts) ==
  LET active == {e \in Expert : counts[e] > 0} IN
  [k \in 1 .. Cardinality(active) |->
     CHOOSE e \in active : Cardinality({d \in active : d < e}) = k - 1]

RoundRobinSchedule(counts, offsets) ==
  LET queue == ActiveExperts(counts) IN
  [k \in DOMAIN queue |->
     [expert   |-> queue[k],
      start    |-> offsets[queue[k]],
      end      |-> offsets[queue[k] + 1],
      count    |-> counts[queue[k]],
      priority |-> k - 1,
      stream   |-> (k - 1) % StreamCount]]

\* The slots a row of the schedule covers.
Slots(row) == row.start .. row.end - 1
=============================================================================
