\* Two layers, on one device or on two, and two passes; two experts of the
\* engine, and a caller that synchronizes the device itself.
CONSTANTS
  d0 = d0
  d1 = d1
  Compute = compute_stream
  Device = {d0, d1}
  Stream <- MCStream
  Layers = 2
  Placements <- MCPlacements
  Blocks = {b1, b2, b3, b4, b5, b6, b7, b8}
  None = None
  MaxPasses = 2
  Staged = {x, y}
  NoBytes = none
  Usages <- Synchronizing
  MaxCopies = 3
  MaxReads = 2
  MaxWaits = 3
SPECIFICATION MCSpec
INVARIANTS
  OverlapSafe
  StagingSafe
CHECK_DEADLOCK FALSE
