\* Two threads, three local experts, swaps only between loads and other
\* calls, no faults.
CONSTANTS
  a = a
  b = b
  far = far
  c1 = c1
  c2 = c2
  None = None
  Expert = {a, b, far}
  Local = {a, b, far}
  Remote = {}
  Client = {c1, c2}
  Size <- MCSize
  Staging = 2
  Capacity = 4
  CudaFaults = {}
  Careful = TRUE
  MaxQueue = 1
  MaxPins = 2
SPECIFICATION Spec
INVARIANTS
  HandlesSound
  PublishedBytes
SYMMETRY Symmetry
