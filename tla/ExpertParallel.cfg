\* Two ranks, three experts, two layers, up to two passes of one to three tokens.
CONSTANTS
  NumExperts = 3
  WorldSize = 2
  SliceBytes = 2
  Links <- MCLinks
  TopK = 2
  Layers = 2
  Threshold = 2
  Weights = 5
  Policies = {"static", "expert_parallel"}
  Registries <- MCHeld
  Loads <- MCLoads
  Routing <- MCRouting
  Faults <- MCFaults
SPECIFICATION FairSpec
INVARIANTS
  RanksConsistent
  SplitsAgree
  OutputsRight
  PlansSound
PROPERTIES
  RanksRendezvous
  PassesEnd
CHECK_DEADLOCK FALSE
