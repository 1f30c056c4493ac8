------------------------- MODULE PersistentExecutor -------------------------
(***************************************************************************)
(* The expert executors.  The persistent one (executor/triton.py) turns    *)
(* the schedule into descriptors and queues of output tiles, written to    *)
(* reused host staging, copied to the device, and consumed by two kernels  *)
(* whose programs claim tiles from a shared counter: the first fills the   *)
(* intermediate activations, the second reads them back.  The reference    *)
(* one (executor/pytorch.py) runs the rows of the schedule one by one.     *)
(* An activation is the record of what it was computed from.               *)
(***************************************************************************)
EXTENDS ExpertScheduler

CONSTANTS
  Program,             \* the programs of a persistent kernel, one per SM
  BlockM,              \* rows of an output tile
  GatherBlocks,        \* column tiles of the intermediate activations
  DownBlocks           \* column tiles of the outputs

ASSUME ExecutorAssumption ==
  /\ Program # {} /\ IsFiniteSet(Program)
  /\ {BlockM, GatherBlocks, DownBlocks} \subseteq Nat \ {0}

VARIABLES
  rows,          \* the execution plan's rows still to be run
  host,          \* pinned staging: descriptors and both tile queues
  dev,           \* their device copies and the two queue counters
  intermediate,  \* ExecutorWorkspace.intermediate_activations
  weighted,      \* ExecutorWorkspace.weighted_expert_outputs
  prog           \* the queue entry each program works on, or Idle

execVars == <<rows, host, dev, intermediate, weighted, prog>>

Idle == -1
NoCell == [input |-> 0, expert |-> Undefined, token |-> Undefined]
NoOutput == [input |-> 0, expert |-> Undefined, token |-> Undefined,
             weight |-> <<0, Undefined>>]
NoDescriptor == [expert |-> Undefined, offset |-> 0, m |-> 0, input |-> 0]
NoEntry == [descriptor |-> 0, m |-> 0, n |-> 0]

ExecInit ==
  /\ rows = <<>>
  /\ host = [descriptors |-> <<>>, gather |-> <<>>, down |-> <<>>]
  /\ dev = [descriptors |-> <<>>, gather |-> <<>>, down |-> <<>>,
            counter |-> [gather |-> 0, down |-> 0]]
  /\ intermediate = [s \in {} |-> [b \in Index(GatherBlocks) |-> NoCell]]
  /\ weighted = [s \in {} |-> [b \in Index(DownBlocks) |-> NoOutput]]
  /\ prog = [p \in Program |-> Idle]

\* Metadata buffers grow geometrically and lose their content doing so.
Reserve(buffer, n, undefined) ==
  IF Len(buffer) < Max({n, 1})
  THEN [i \in 1 .. Max({n, 1, 2 * Len(buffer)}) |-> undefined] ELSE buffer

\* The first elements of the buffer are overwritten by those of s.
Overwrite(buffer, s) == s \o SubSeq(buffer, Len(s) + 1, Len(buffer))

-----------------------------------------------------------------------------
(* Host: descriptors and tile queues.                                      *)

\* TensorList.from_plans: a descriptor per row, addressing the activations
\* of this forward and the rows of the expert's slots.
Descriptors == [k \in DOMAIN rows |-> [expert |-> rows[k].expert,
                                       offset |-> rows[k].start,
                                       m      |-> rows[k].count,
                                       input  |-> batch]]

\* max_tokens_per_expert.
Over(row, limit) == row.count > limit

OverLimit(limit) == \E k \in DOMAIN rows : Over(rows[k], limit)

FillDescriptors ==
  LET n == Len(rows) IN
  /\ host' = [host EXCEPT !.descriptors =
                Overwrite(Reserve(@, n, NoDescriptor), Descriptors)]
  /\ dev' = [dev EXCEPT !.descriptors = Reserve(@, n, NoDescriptor)]
  /\ intermediate' = Ensure(intermediate, Size(flat),
                            [b \in Index(GatherBlocks) |-> NoCell])
  /\ weighted' = Ensure(weighted, Size(flat),
                        [b \in Index(DownBlocks) |-> NoOutput])
  /\ UNCHANGED <<rows, prog>>

RowTiles(m) == CeilDiv(m, BlockM)

\* The tiles of all descriptors, row tiles outermost.
TileQueue(blocks) ==
  FlattenSeq([k \in DOMAIN rows |->
    [j \in 1 .. RowTiles(rows[k].count) * blocks |->
       [descriptor |-> k,
        m |-> (j - 1) \div blocks, n |-> (j - 1) % blocks]]])

BuildQueues ==
  LET gather == TileQueue(GatherBlocks)
      down   == TileQueue(DownBlocks)
      need   == Max({Len(gather), Len(down)})
      ready(buffer) == Reserve(buffer, need, NoEntry)
  IN /\ host' = [host EXCEPT !.gather = Overwrite(ready(@), gather),
                             !.down = Overwrite(ready(@), down)]
     /\ dev' = [dev EXCEPT !.gather = ready(@), !.down = ready(@)]
     /\ UNCHANGED <<rows, intermediate, weighted, prog>>

-----------------------------------------------------------------------------
(* Device: the copies, the counters and the two kernels.                   *)

\* The first n elements of a staging buffer, as they are when the copy runs.
CopyIn(field, n) ==
  /\ dev' = [dev EXCEPT ![field] = Overwrite(@, SubSeq(host[field], 1, n))]
  /\ UNCHANGED <<rows, host, intermediate, weighted, prog>>

\* Mutant of ZeroCounters: only the counter of the first kernel is reset.
ZeroGatherCounter ==
  /\ dev' = [dev EXCEPT !.counter.gather = 0]
  /\ UNCHANGED <<rows, host, intermediate, weighted, prog>>

ZeroCounters ==
  /\ dev' = [dev EXCEPT !.counter = [gather |-> 0, down |-> 0]]
  /\ UNCHANGED <<rows, host, intermediate, weighted, prog>>

\* Mutant of Claim: the counter is read, and moved only with the next one.
ClaimUnmoved(p, kernel) ==
  /\ prog[p] = Idle
  /\ prog' = [prog EXCEPT ![p] = dev.counter[kernel]]
  /\ dev' = IF \E q \in Program : prog[q] = dev.counter[kernel]
            THEN [dev EXCEPT !.counter[kernel] = @ + 1] ELSE dev
  /\ UNCHANGED <<rows, host, intermediate, weighted>>

\* atomic_add on the queue's counter.
Claim(p, kernel) ==
  /\ prog[p] = Idle
  /\ prog' = [prog EXCEPT ![p] = dev.counter[kernel]]
  /\ dev' = [dev EXCEPT !.counter[kernel] = @ + 1]
  /\ UNCHANGED <<rows, host, intermediate, weighted>>

Release(p) == prog' = [prog EXCEPT ![p] = Idle]

\* The slots of a tile: the rows of its descriptor, beyond the last masked.
TileSlots(entry) ==
  LET d == dev.descriptors[entry.descriptor] IN
  {d.offset + r : r \in {r \in Index(d.m) : r \div BlockM = entry.m}}

\* Mutant of GatherTile: the loop does not claim another tile behind this one.
GatherTileForever(p) ==
  LET entry == dev.gather[prog[p] + 1]
      d     == dev.descriptors[entry.descriptor]
  IN /\ intermediate' =
          [s \in DOMAIN intermediate |->
             IF s \in TileSlots(entry)
             THEN [intermediate[s] EXCEPT ![entry.n] =
                     [input |-> d.input, expert |-> d.expert,
                      token |-> plan.slots[s].token]]
             ELSE intermediate[s]]
     /\ UNCHANGED <<rows, host, dev, weighted, prog>>

\* _persistent_gather_swiglu: one tile of the intermediate activations.
GatherTile(p) ==
  LET entry == dev.gather[prog[p] + 1]
      d     == dev.descriptors[entry.descriptor]
  IN /\ intermediate' =
          [s \in DOMAIN intermediate |->
             IF s \in TileSlots(entry)
             THEN [intermediate[s] EXCEPT ![entry.n] =
                     [input |-> d.input, expert |-> d.expert,
                      token |-> plan.slots[s].token]]
             ELSE intermediate[s]]
     /\ Release(p)
     /\ UNCHANGED <<rows, host, dev, weighted>>

\* A projection of a row that is whole and of the same expert.
Project(s, expert) ==
  LET cell == intermediate[s][0] IN
  IF /\ cell.expert = expert
     /\ \A b \in Index(GatherBlocks) : intermediate[s][b] = cell
  THEN [input |-> cell.input, expert |-> cell.expert, token |-> cell.token,
        weight |-> plan.slots[s].weight]
  ELSE NoOutput

\* _persistent_down_route_store: one tile of the weighted outputs.
DownTile(p) ==
  LET entry == dev.down[prog[p] + 1]
      d     == dev.descriptors[entry.descriptor]
  IN /\ weighted' =
          [s \in DOMAIN weighted |->
             IF s \in TileSlots(entry)
             THEN [weighted[s] EXCEPT ![entry.n] = Project(s, d.expert)]
             ELSE weighted[s]]
     /\ Release(p)
     /\ UNCHANGED <<rows, host, dev, intermediate>>

-----------------------------------------------------------------------------
(* The reference executor: what one row of the schedule adds to a token.   *)

Whole(output) == [b \in Index(DownBlocks) |-> output]

RowOutputs(row, token, input) ==
  {Whole([input |-> input, expert |-> row.expert, token |-> token,
          weight |-> plan.slots[s].weight]) :
     s \in {s \in Slots(row) : plan.slots[s].token = token}}

\* reference_merge: the weighted outputs of a token's slots, added up.
MergedOutputs(tokens) ==
  [t \in Index(tokens) |->
     {weighted[s] : s \in {s \in Index(tokens * TopK) : plan.slots[s].token = t}}]
=============================================================================
