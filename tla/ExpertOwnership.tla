--------------------------- MODULE ExpertOwnership ---------------------------
(***************************************************************************)
(* Which rank owns which expert, and how a rank cuts the transfer of a     *)
(* remote expert into slices: the arithmetic shared by the expert-parallel *)
(* planner, the decode exchange and the native copy loop.                  *)
(***************************************************************************)
EXTENDS Integers, FiniteSets, Sequences

CONSTANTS
  NumExperts,   \* experts of one layer
  WorldSize,    \* ranks
  SliceBytes,   \* size of a transfer slice
  Links         \* pairs of different GPUs <<source, destination>> with peer access

ASSUME OwnershipAssumption ==
  /\ NumExperts \in Nat \ {0}
  /\ WorldSize \in Nat \ {0}
  /\ SliceBytes \in Nat \ {0}
  /\ Links \subseteq (0 .. WorldSize - 1) \X (0 .. WorldSize - 1)

Expert == 0 .. NumExperts - 1
Rank == 0 .. WorldSize - 1

Lesser(a, b) == IF a <= b THEN a ELSE b
CeilDiv(a, b) == (a + b - 1) \div b
AtLeastOne(n) == IF n < 1 THEN 1 ELSE n

-----------------------------------------------------------------------------
(* The even static partition of n experts over the ranks.                  *)

ExpertsPerRank(n) == AtLeastOne(CeilDiv(n, WorldSize))

BlockOwner(e, n) == Lesser(e \div ExpertsPerRank(n), WorldSize - 1)

\* The experts a rank computes in the decode exchange.
Block(r, n) == r * ExpertsPerRank(n) .. Lesser(n, (r + 1) * ExpertsPerRank(n)) - 1

-----------------------------------------------------------------------------
(* Ownership as the planner of rank r sees it.  A table maps the experts   *)
(* it knows to [owner, handle, bytes]; attached says whether there is one. *)

Owner(attached, table, e, n) ==
  IF ~attached THEN BlockOwner(e, n)
  ELSE IF e \in DOMAIN table THEN table[e].owner ELSE e % WorldSize

\* _ownership gets the length of the expert queue for the number of experts,
\* so the ids it classifies are 0 .. n-1 whatever the queue holds.
LocalIds(r, attached, table, n) ==
  {e \in 0 .. n - 1 : Owner(attached, table, e, n) = r}
RemoteIds(r, attached, table, n) ==
  {e \in 0 .. n - 1 : Owner(attached, table, e, n) # r}

ExpertBytes(attached, table, e) ==
  IF attached /\ e \in DOMAIN table THEN table[e].bytes ELSE 0

\* Earlier experts of the remote list get the higher priority.
Priority(remote, e, n) == n - Cardinality({f \in remote : f < e})

-----------------------------------------------------------------------------
(* The slices of a transfer of size bytes, in the order rank r copies them.*)

NumSlices(size) == AtLeastOne(CeilDiv(size, SliceBytes))

\* Mutant of SliceIndex: the round robin does not wrap.
SliceIndexUnwrapped(r, i, size) == r + i

SliceIndex(r, i, size) == (r + i) % NumSlices(size)

SliceStart(r, i, size) == SliceIndex(r, i, size) * SliceBytes

SliceCount(r, i, size) ==
  IF size = 0 THEN 0 ELSE Lesser(SliceBytes, size - SliceStart(r, i, size))

-----------------------------------------------------------------------------
(* The fabric as the planner describes it.                                 *)

\* The adapter leaves local_gpu_id at its default on every rank.
LocalGpu == 0

CanAccess(source, destination) ==
  source = destination \/ <<source, destination>> \in Links

Peers(gpu) == {g \in Rank : CanAccess(g, gpu)}

Topology == [
  connectivity |-> {link \in Rank \X Rank : CanAccess(link[1], link[2])},
  domain |-> IF Cardinality(Peers(LocalGpu)) > 1 THEN "nvlink" ELSE "local",
  members |-> Peers(LocalGpu) \cup {LocalGpu},
  fabric |-> IF WorldSize > 1 THEN "nvlink" ELSE "single_gpu"]

\* One descriptor per slice.
Transfers(r, source, e, size, priority) ==
  {[op |-> IF CanAccess(source, LocalGpu) THEN "p2p" ELSE "staged",
    expert |-> e, source |-> source, index |-> i, priority |-> priority,
    start |-> SliceStart(r, i, size), count |-> SliceCount(r, i, size)] :
     i \in 0 .. NumSlices(size) - 1}

\* The descriptors of one source GPU form a group.
Groups(transfers) ==
  [s \in {t.source : t \in transfers} |-> {t \in transfers : t.source = s}]
=============================================================================
