\* One thread that prefetches and swaps whenever it likes, a local and an
\* imported expert in a cache too small for both, and failing CUDA calls: do
\* records stay coherent, and do loads and waits end?
CONSTANTS
  a = a
  b = b
  far = far
  c1 = c1
  c2 = c2
  None = None
  Expert = {a, far}
  Local = {a}
  Remote = {far}
  Client = {c1}
  Size <- MCSize
  Staging = 2
  Capacity = 4
  CudaFaults = {"import", "copy", "record"}
  Careful = FALSE
  MaxQueue = 1
  MaxPins = 1
SPECIFICATION FairSpec
INVARIANTS
  TypeOK
  RecordsCoherent
  LoadOwned
PROPERTIES
  ResolveReturns
  ShutdownReturns
  LoadsEnd
