\* Two adapters over two layers of two experts; two shapes, two callers of the
\* runner; three blocks and two sequences in the paged cache;
\* three forwards of a runtime, of two sizes and on two devices.
CONSTANTS
  Layers = 2
  Experts = 2
  a1 = a1
  a2 = a2
  Adapters = {a1, a2}
  Configs <- MCConfigs
  Devices <- MCDevices
  Unbooted = {a2}
  BatchShapes = {1}
  MaxPasses = 2
  MaxPatches = 3
  Shapes = {k1, k2}
  Unkeyed = nokey
  Values = {1, 2}
  Holders = {h1, h2}
  MaxCalls = 3
  NumBlocks = 3
  Sequence = {s1, s2}
  Callers = {TRUE, FALSE}
  g0 = g0
  g1 = g1
  Builds <- MCBuilds
  Inputs <- MCInputs
  MaxForwards = 3
  MaxResults = 4
  MaxFailures = 1
SPECIFICATION MCSpec
INVARIANTS
  PatchesSound
  WeightFormats
  RunnerRight
  BlocksOwned
  ResultsOwned
  RuntimeSettles
CHECK_DEADLOCK FALSE
