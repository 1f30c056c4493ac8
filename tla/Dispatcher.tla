----------------------------- MODULE Dispatcher -----------------------------
(***************************************************************************)
(* The dispatcher reorders the token-major assignments of a forward        *)
(* (assignment i is choice i % TopK of token i \div TopK) into             *)
(* expert-major slots.  A counting pass and a stable sort do it in one     *)
(* pass over the assignments; the tiled kernels of                         *)
(* dispatcher/kernels/triton.py do it with one program per tile, and the   *)
(* programs of a kernel run in any order.  Tensors are functions on        *)
(* 0 .. size - 1; a workspace tensor keeps what earlier forwards left.     *)
(***************************************************************************)
EXTENDS Integers, FiniteSets, Functions

CONSTANTS NumExperts, TopK, TileSize

ASSUME DispatcherAssumption ==
  /\ NumExperts \in Nat \ {0}
  /\ TopK \in 1 .. NumExperts
  /\ TileSize \in Nat \ {0}

VARIABLES
  batch,   \* the number of the forward, and so of its activations
  flat,    \* its flat_expert_indices
  reuse,   \* the router handed counts and offsets along with the indices
  plan,    \* DispatchWorkspace: slot s holds element s of the packed tensors
  tiles    \* DispatchWorkspace: triton_tile_counts, triton_tile_offsets

dispatchVars == <<batch, flat, reuse, plan, tiles>>

Expert == 0 .. NumExperts - 1
Index(n) == 0 .. n - 1
CeilDiv(a, b) == (a + b - 1) \div b
Size(tensor) == Cardinality(DOMAIN tensor)

\* Element i of v goes to place dest[i]; the rest of the tensor is kept.
Scatter(tensor, dest, v) ==
  [s \in DOMAIN tensor |->
     IF s \in Range(dest) THEN v[CHOOSE i \in DOMAIN dest : dest[i] = s]
     ELSE tensor[s]]

\* _ensure_1d: a tensor that is long enough is handed out as it is, a new
\* one has undefined content.
Ensure(tensor, n, undefined) ==
  IF Size(tensor) < n THEN [i \in Index(n) |-> undefined] ELSE tensor

Undefined == -1
NoSlot == [source |-> Undefined, expert |-> Undefined, token |-> Undefined,
           weight |-> <<0, Undefined>>]
NoRow == [e \in Expert |-> 0]

DispatchInit ==
  /\ batch = 0
  /\ flat = [i \in {} |-> 0]
  /\ plan = [slots   |-> [i \in {} |-> NoSlot],
             inverse |-> [i \in {} |-> Undefined],
             counts  |-> NoRow,
             offsets |-> [e \in 0 .. NumExperts |-> 0]]
  /\ tiles = [counts |-> [t \in {} |-> NoRow], offsets |-> [t \in {} |-> NoRow]]

-----------------------------------------------------------------------------
(* Counts, offsets, and the order a dispatch promises: by expert, and      *)
(* inside an expert in token-major order.                                  *)

Histogram(f) == [e \in Expert |-> Cardinality({i \in DOMAIN f : f[i] = e})]

\* The exclusive prefix sums of a row of counts.
Offsets(counts) ==
  [e \in 0 .. NumExperts |-> FoldFunctionOnSet(+, 0, counts, Index(e))]

StablePlace(f) ==
  [i \in DOMAIN f |->
     Cardinality({j \in DOMAIN f : f[j] < f[i] \/ (f[j] = f[i] /\ j < i)})]

\* What the packed tensors hold for assignment i of this forward.
Assignment(i) == [source |-> i, expert |-> flat[i], token |-> i \div TopK,
                  weight |-> <<batch, i>>]

\* The packed tensors and the inverse permutation, once dest is written.
Packed(p, dest) ==
  [p EXCEPT !.slots = Scatter(@, dest, [i \in DOMAIN dest |-> Assignment(i)]),
            !.inverse = [i \in DOMAIN @ |-> IF i \in DOMAIN dest THEN dest[i]
                                            ELSE @[i]]]

WithBuffers(n) ==
  [plan EXCEPT !.slots = Ensure(@, n, NoSlot),
               !.inverse = Ensure(@, n, Undefined)]

-----------------------------------------------------------------------------
(* counting_scatter and stable_sort.                                       *)

\* One cursor per expert, one pass over the assignments.
DestinationPositions(f, offsets) ==
  LET cursors[i \in 0 .. Size(f)] ==
        IF i = 0 THEN offsets
        ELSE [cursors[i - 1] EXCEPT ![f[i - 1]] = @ + 1]
  IN [i \in DOMAIN f |-> cursors[i][f[i]]]

\* torch.sort(stable=True): which assignment each slot takes.
SortPermutation(f) ==
  [s \in DOMAIN f |-> CHOOSE i \in DOMAIN f : StablePlace(f)[i] = s]

InvertPermutation(p) == [i \in DOMAIN p |-> CHOOSE s \in DOMAIN p : p[s] = i]

Destinations(algorithm, f, offsets) ==
  CASE algorithm = "counting_scatter" -> DestinationPositions(f, offsets)
    [] algorithm = "stable_sort"      -> InvertPermutation(SortPermutation(f))

\* The router's counts and offsets are those of the same indices.
DispatchOnHost(algorithm) ==
  LET counts == Histogram(flat)
      offsets == Offsets(counts)
  IN /\ plan' = Packed([WithBuffers(Size(flat)) EXCEPT !.counts = counts,
                                                       !.offsets = offsets],
                       Destinations(algorithm, flat, offsets))
     /\ UNCHANGED <<batch, flat, reuse, tiles>>

-----------------------------------------------------------------------------
(* triton_counting_scatter: three kernels, a program per tile.             *)

NumTiles(f) == CeilDiv(Size(f), TileSize)

Sources(t) == {i \in DOMAIN flat : i \div TileSize = t}

\* Buffers for the assignments and the tiles; the rows in use are zeroed.
TiledBegin ==
  /\ plan' = WithBuffers(Size(flat))
  /\ tiles' = [counts  |-> [t \in DOMAIN Ensure(tiles.counts, NumTiles(flat), NoRow)
                              |-> IF t < NumTiles(flat) THEN NoRow
                                  ELSE tiles.counts[t]],
               offsets |-> Ensure(tiles.offsets, NumTiles(flat), NoRow)]
  /\ UNCHANGED <<batch, flat, reuse>>

\* _tile_histogram_kernel adds to the row of its tile.
TileHistogram(t) ==
  /\ tiles' = [tiles EXCEPT !.counts[t] =
                 [e \in Expert |->
                    @[e] + Cardinality({i \in Sources(t) : flat[i] = e})]]
  /\ UNCHANGED <<batch, flat, reuse, plan>>

\* Mutant of TileReserve: a tile's own assignments are counted in.
TileReserveInclusive ==
  LET used == Index(NumTiles(flat))
      column(e) == [t \in used |-> tiles.counts[t][e]]
      counts == IF reuse THEN Histogram(flat)
                ELSE [e \in Expert |-> FoldFunction(+, 0, column(e))]
  IN /\ plan' = [plan EXCEPT !.counts = counts, !.offsets = Offsets(counts)]
     /\ tiles' = [tiles EXCEPT !.offsets =
                    [t \in DOMAIN @ |->
                       IF t \in used
                       THEN [e \in Expert |->
                               FoldFunctionOnSet(+, 0, column(e), Index(t + 1))]
                       ELSE @[t]]]
     /\ UNCHANGED <<batch, flat, reuse>>

\* Counts and offsets, and what the earlier tiles reserve of each expert.
TileReserve ==
  LET used == Index(NumTiles(flat))
      column(e) == [t \in used |-> tiles.counts[t][e]]
      counts == IF reuse THEN Histogram(flat)
                ELSE [e \in Expert |-> FoldFunction(+, 0, column(e))]
  IN /\ plan' = [plan EXCEPT !.counts = counts, !.offsets = Offsets(counts)]
     /\ tiles' = [tiles EXCEPT !.offsets =
                    [t \in DOMAIN @ |->
                       IF t \in used
                       THEN [e \in Expert |->
                               FoldFunctionOnSet(+, 0, column(e), Index(t))]
                       ELSE @[t]]]
     /\ UNCHANGED <<batch, flat, reuse>>

\* _tile_local_start_kernel overwrites the row by its exclusive sums.
TileLocalStart(t) ==
  /\ tiles' = [tiles EXCEPT !.counts[t] = [e \in Expert |-> Offsets(@)[e]]]
  /\ UNCHANGED <<batch, flat, reuse, plan>>

\* The place of each assignment of a tile: the lanes are sorted by expert
\* and source, and a lane is moved from its expert's local start to where
\* the tile's reservation begins.
TileKey(i) == (flat[i] * TileSize) + (i % TileSize)

TileDestinations(t) ==
  [i \in Sources(t) |->
     LET lane == Cardinality({j \in Sources(t) : TileKey(j) < TileKey(i)})
     IN plan.offsets[flat[i]] + tiles.offsets[t][flat[i]]
          + (lane - tiles.counts[t][flat[i]])]

TilePack(t) ==
  /\ plan' = Packed(plan, TileDestinations(t))
  /\ UNCHANGED <<batch, flat, reuse, tiles>>

\* With no assignment no kernel is launched and the offsets are zeroed.
TiledEmpty ==
  /\ plan' = [plan EXCEPT !.counts = Histogram(flat),
                          !.offsets = Offsets(Histogram(flat))]
  /\ UNCHANGED <<batch, flat, reuse, tiles>>
=============================================================================
