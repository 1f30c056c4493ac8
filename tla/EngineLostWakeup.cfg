\* One thread that prefetches two experts and shuts down while the worker is
\* about to wait for a buffer.
CONSTANTS
  a = a
  b = b
  far = far
  c1 = c1
  c2 = c2
  None = None
  Expert = {a, b}
  Local = {a, b}
  Remote = {}
  Client = {c1}
  Size <- MCSize
  Staging = 2
  Capacity = 4
  CudaFaults = {}
  Careful = TRUE
  MaxQueue = 1
  MaxPins = 0
SPECIFICATION FairSpec
PROPERTIES
  ShutdownReleases
