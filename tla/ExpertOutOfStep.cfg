\* The ranks of ExpertParallel.cfg: the handles a layer ends up with.
CONSTANTS
  NumExperts = 3
  WorldSize = 2
  SliceBytes = 2
  Links <- MCLinks
  TopK = 2
  Layers = 2
  Threshold = 2
  Weights = 5
  Policies = {"static", "expert_parallel"}
  Registries <- MCHeld
  Loads <- MCLoads
  Routing <- MCRouting
  Faults <- MCFaults
SPECIFICATION FairSpec
INVARIANT
  HandlesOfLayer
CHECK_DEADLOCK FALSE
