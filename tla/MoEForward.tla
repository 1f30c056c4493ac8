----------------------------- MODULE MoEForward -----------------------------
(***************************************************************************)
(* The forwards of one rank's MoE blocks, all experts local: the block's   *)
(* host thread dispatches, schedules, executes and merges, and issues the  *)
(* device's work to one CUDA stream.  Consecutive forwards (of the next    *)
(* layer or the next token) share the context's workspaces, and the host   *)
(* may begin one while the stream still runs the last.                     *)
(***************************************************************************)
EXTENDS PersistentExecutor

CONSTANTS
  Routing,       \* the index tensors a router may return
  Setup,         \* dispatch algorithm, executor backend, whether the router
                 \* hands its counts along, and the limit of rows per expert
  TokenBudget,   \* bound: tokens over all forwards of a behaviour
  MaxForwards    \* bound: forwards of a behaviour

Algorithms == {"counting_scatter", "stable_sort", "triton_counting_scatter"}

ASSUME ForwardAssumption ==
  /\ \A f \in Routing : /\ IsFiniteSet(DOMAIN f) /\ Size(f) % TopK = 0
                        /\ f \in [Index(Size(f)) -> Expert]
  /\ \A s \in Setup : s.dispatch \in Algorithms
  /\ TokenBudget \in Nat /\ MaxForwards \in Nat

VARIABLES
  setup,    \* the configuration in use, a member of Setup
  hpc,      \* where the host is in the block's forward
  stream,   \* operations issued and not finished, the first one running
  grid,     \* programs of the running kernel that have not ended
  event,    \* _host_copy_event: "none", "pending" or "done"
  asked,    \* the routing of every forward begun
  raised,   \* forwards that ended in a ValueError
  out       \* the token-major output of every forward

hostVars == <<setup, hpc, stream, grid, event, asked, raised, out>>
vars == <<dispatchVars, execVars, hostVars>>

Tokens(f) == Size(f) \div TopK
TokensAsked == FoldFunction(+, 0, [k \in DOMAIN asked |-> Tokens(asked[k])])
Drained == stream = <<>>

TileKernels == {"histogram", "starts", "pack"}
QueueKernels == {"gather", "down"}

\* The programs a kernel is launched with.
Grid(s) ==
  CASE s = <<>> -> {}
    [] s # <<>> /\ Head(s).kind \in TileKernels  -> Index(Head(s).size)
    [] s # <<>> /\ Head(s).kind \in QueueKernels -> Program
    [] OTHER -> {}

Op(kind, size) == [kind |-> kind, size |-> size, batch |-> batch]

Issue(ops) ==
  /\ stream' = stream \o ops
  /\ grid' = IF Drained THEN Grid(ops) ELSE grid

Init ==
  /\ DispatchInit /\ ExecInit
  /\ setup \in Setup /\ reuse = setup.metadata
  /\ hpc = "idle"
  /\ stream = <<>> /\ grid = {} /\ event = "none"
  /\ asked = <<>> /\ raised = {} /\ out = <<>>

-----------------------------------------------------------------------------
(* The host.                                                               *)

StartForward(f) ==
  /\ hpc = "idle"
  /\ TokensAsked + Tokens(f) <= TokenBudget /\ Len(asked) < MaxForwards
  /\ batch' = batch + 1 /\ flat' = f
  /\ asked' = Append(asked, f)
  /\ out' = Append(out, [t \in Index(Tokens(f)) |-> {}])
  /\ hpc' = "dispatch"
  /\ UNCHANGED <<reuse, plan, tiles, execVars, setup, stream, grid, event, raised>>

\* counting_scatter copies the indices to the CPU, which waits for the
\* stream; stable_sort is used where nothing is asynchronous.
DispatchHost ==
  /\ hpc = "dispatch" /\ setup.dispatch # "triton_counting_scatter"
  /\ Drained
  /\ DispatchOnHost(setup.dispatch)
  /\ hpc' = "schedule"
  /\ UNCHANGED <<execVars, setup, stream, grid, event, asked, raised, out>>

DispatchTiled ==
  /\ hpc = "dispatch" /\ setup.dispatch = "triton_counting_scatter"
  /\ LET n == NumTiles(flat) IN
     Issue(IF n = 0 THEN <<Op("empty", 0)>>
           ELSE <<Op("zero", n), Op("histogram", n), Op("reserve", n),
                  Op("starts", n), Op("pack", n)>>)
  /\ hpc' = "schedule"
  /\ UNCHANGED <<dispatchVars, execVars, setup, event, asked, raised, out>>

\* torch.nonzero and the copy of the schedule wait for the stream.
Schedule ==
  /\ hpc = "schedule" /\ Drained
  /\ rows' = RoundRobinSchedule(plan.counts, plan.offsets)
  /\ hpc' = IF setup.backend = "pytorch" THEN "rows" ELSE "fill"
  /\ UNCHANGED <<dispatchVars, host, dev, intermediate, weighted, prog, setup,
                 stream, grid, event, asked, raised, out>>

Raise ==
  /\ hpc' = "idle" /\ raised' = raised \cup {batch}
  /\ UNCHANGED <<dispatchVars, execVars, setup, stream, grid, event, asked, out>>

RowRaise ==
  /\ hpc = "rows" /\ rows # <<>> /\ Over(Head(rows), setup.limit)
  /\ Raise

\* One expert of the reference executor, which accumulates by token.
RowRun ==
  /\ hpc = "rows" /\ rows # <<>> /\ ~Over(Head(rows), setup.limit)
  /\ out' = [out EXCEPT ![batch] =
               [t \in DOMAIN @ |-> @[t] \cup RowOutputs(Head(rows), t, batch)]]
  /\ rows' = Tail(rows)
  /\ UNCHANGED <<dispatchVars, host, dev, intermediate, weighted, prog, setup,
                 hpc, stream, grid, event, asked, raised>>

RowsDone ==
  /\ hpc = "rows" /\ rows = <<>>
  /\ hpc' = "idle"
  /\ UNCHANGED <<dispatchVars, execVars, setup, stream, grid, event, asked,
                 raised, out>>

LimitRaise ==
  /\ hpc = "fill" /\ OverLimit(setup.limit)
  /\ Raise

\* The staging is written once the last forward's copies have left it.
Fill ==
  /\ hpc = "fill" /\ ~OverLimit(setup.limit)
  /\ event # "pending"
  /\ FillDescriptors
  /\ Issue(<<Op("descriptors", Len(rows))>>)
  /\ hpc' = "queue"
  /\ UNCHANGED <<dispatchVars, setup, event, asked, raised, out>>

Queue ==
  /\ hpc = "queue" /\ event # "pending"
  /\ BuildQueues
  /\ Issue(<<Op("gatherQueue", Len(TileQueue(GatherBlocks))),
             Op("downQueue", Len(TileQueue(DownBlocks))), Op("counters", 0)>>)
  /\ hpc' = "launch"
  /\ UNCHANGED <<dispatchVars, setup, event, asked, raised, out>>

\* Mutant of Kernels: the stages are launched the other way round.
KernelsSwapped ==
  <<Op("down", Len(TileQueue(DownBlocks))),
    Op("gather", Len(TileQueue(GatherBlocks)))>>

Kernels ==
  <<Op("gather", Len(TileQueue(GatherBlocks))),
    Op("down", Len(TileQueue(DownBlocks)))>>

\* The event is recorded behind the copies; an empty schedule launches none.
Launch ==
  /\ hpc = "launch"
  /\ event' = "pending"
  /\ Issue(<<Op("event", 0)>> \o (IF rows = <<>> THEN <<>> ELSE Kernels))
  /\ hpc' = "merge"
  /\ UNCHANGED <<dispatchVars, execVars, setup, asked, raised, out>>

Merge ==
  /\ hpc = "merge"
  /\ Issue(<<Op("merge", Tokens(flat))>>)
  /\ hpc' = "idle"
  /\ UNCHANGED <<dispatchVars, execVars, setup, event, asked, raised, out>>

-----------------------------------------------------------------------------
(* The device: the operation at the head of the stream.                    *)

Running(kind) == ~Drained /\ Head(stream).kind = kind

Pop == stream' = Tail(stream) /\ grid' = Grid(Tail(stream))

\* A program of the running kernel ends, and with the last one the kernel.
ProgramEnds(p) ==
  IF grid = {p} THEN Pop ELSE grid' = grid \ {p} /\ UNCHANGED stream

HostRest == <<setup, hpc, asked, raised>>

TileProgram(t) ==
  /\ t \in grid
  /\ \/ Running("histogram") /\ TileHistogram(t)
     \/ Running("starts") /\ TileLocalStart(t)
     \/ Running("pack") /\ TilePack(t)
  /\ ProgramEnds(t)
  /\ UNCHANGED <<execVars, HostRest, event, out>>

DispatchOp ==
  /\ \/ Running("zero") /\ TiledBegin
     \/ Running("reserve") /\ TileReserve
     \/ Running("empty") /\ TiledEmpty
  /\ Pop
  /\ UNCHANGED <<execVars, HostRest, event, out>>

CopyOp ==
  /\ \/ Running("descriptors") /\ CopyIn("descriptors", Head(stream).size)
     \/ Running("gatherQueue") /\ CopyIn("gather", Head(stream).size)
     \/ Running("downQueue") /\ CopyIn("down", Head(stream).size)
     \/ Running("counters") /\ ZeroCounters
  /\ Pop
  /\ UNCHANGED <<dispatchVars, HostRest, event, out>>

EventOp ==
  /\ Running("event")
  /\ event' = "done"
  /\ Pop
  /\ UNCHANGED <<dispatchVars, execVars, HostRest, out>>

MergeOp ==
  /\ Running("merge")
  /\ out' = [out EXCEPT ![Head(stream).batch] = MergedOutputs(Head(stream).size)]
  /\ Pop
  /\ UNCHANGED <<dispatchVars, execVars, HostRest, event>>

ClaimTile(p) ==
  /\ p \in grid
  /\ \E kernel \in QueueKernels : Running(kernel) /\ Claim(p, kernel)
  /\ UNCHANGED <<dispatchVars, hostVars>>

WorkTile(p) ==
  /\ p \in grid /\ prog[p] \in Index(Head(stream).size)
  /\ \/ Running("gather") /\ GatherTile(p)
     \/ Running("down") /\ DownTile(p)
  /\ UNCHANGED <<dispatchVars, hostVars>>

\* A claim beyond the end of the queue ends the program.
ExitKernel(p) ==
  /\ p \in grid /\ prog[p] # Idle
  /\ \E kernel \in QueueKernels : Running(kernel)
  /\ prog[p] >= Head(stream).size
  /\ Release(p)
  /\ ProgramEnds(p)
  /\ UNCHANGED <<dispatchVars, rows, host, dev, intermediate, weighted,
                 HostRest, event, out>>

-----------------------------------------------------------------------------
HostStep ==
  \/ DispatchHost \/ DispatchTiled \/ Schedule \/ RowRaise \/ RowRun \/ RowsDone
  \/ LimitRaise \/ Fill \/ Queue \/ Launch \/ Merge

DeviceStep ==
  \/ \E t \in grid : TileProgram(t)
  \/ DispatchOp \/ CopyOp \/ EventOp \/ MergeOp
  \/ \E p \in Program : ClaimTile(p) \/ WorkTile(p) \/ ExitKernel(p)

Next == (\E f \in Routing : StartForward(f)) \/ HostStep \/ DeviceStep

Spec == Init /\ [][Next]_vars
FairSpec == Spec /\ WF_vars(HostStep) /\ WF_vars(DeviceStep)
-----------------------------------------------------------------------------
(* Properties.                                                             *)

Cell == [input : Nat, expert : Expert \cup {Undefined}, token : Int]

\* The type invariant.
TypeOK ==
  /\ batch = Len(asked) /\ Len(out) = batch /\ raised \subseteq 1 .. batch
  /\ hpc \in {"idle", "dispatch", "schedule", "rows", "fill", "queue",
              "launch", "merge"}
  /\ event \in {"none", "pending", "done"}
  /\ grid \subseteq Program \cup Nat
  /\ prog \in [Program -> Nat \cup {Idle}]
  /\ plan.counts \in [Expert -> Nat] /\ plan.offsets \in [0 .. NumExperts -> Nat]
  /\ \A s \in DOMAIN intermediate :
       intermediate[s] \in [Index(GatherBlocks) -> Cell]
  /\ DOMAIN intermediate = DOMAIN weighted

DispatchKinds == TileKernels \cup {"zero", "reserve", "empty"}
PlanReady ==
  /\ asked # <<>> /\ hpc # "dispatch"
  /\ \A k \in DOMAIN stream : stream[k].kind \notin DispatchKinds

(* Whatever the algorithm, however the tiles interleave and whatever the   *)
(* workspace held, a finished plan is the stable expert-major order of its *)
(* forward, with the permutation and its inverse in agreement              *)
(* ("equivalence-tested", adapters/qwen15_moe.py).                         *)
StableLayout ==
  PlanReady =>
    LET place == StablePlace(flat) IN
    /\ plan.counts = Histogram(flat)
    /\ \A i \in DOMAIN flat :
         plan.inverse[i] = place[i] /\ plan.slots[place[i]] = Assignment(i)

(* While the tiles are packed, no two of them write one slot and none      *)
(* writes outside its forward's slots: the programs need no order.         *)
TilesDisjoint ==
  Running("pack") =>
    \A t \in Index(Head(stream).size) :
      LET places == Range(TileDestinations(t)) IN
      /\ places \subseteq DOMAIN flat
      /\ Cardinality(places) = Cardinality(Sources(t))
      /\ \A u \in Index(t) : places \cap Range(TileDestinations(u)) = {}

(* The rows the executor is given cover each slot of the forward once, and *)
(* each slot by the expert its assignment was routed to.                   *)
ScheduleCovers ==
  hpc = "fill" =>
    /\ \A s \in DOMAIN flat :
         \E k \in DOMAIN rows : /\ s \in Slots(rows[k])
                               /\ plan.slots[s].expert = rows[k].expert
    /\ \A k \in DOMAIN rows :
         /\ Slots(rows[k]) \subseteq DOMAIN flat
         /\ Cardinality(Slots(rows[k])) = rows[k].count
         /\ \A j \in 1 .. k - 1 : Slots(rows[j]) \cap Slots(rows[k]) = {}

\* No two programs of a kernel hold one queue entry.
ClaimsExclusive ==
  \A p, q \in Program : p # q /\ prog[p] # Idle => prog[p] # prog[q]

(* When the second kernel runs, every intermediate row it reads has been   *)
(* written whole, by this forward, for the expert and the token of its     *)
(* slot.                                                                   *)
StagesInOrder ==
  Running("down") =>
    \A k \in DOMAIN dev.down, b \in Index(GatherBlocks) :
      k <= Head(stream).size =>
        LET d == dev.descriptors[dev.down[k].descriptor] IN
        \A s \in d.offset .. d.offset + d.m - 1 :
          intermediate[s][b] = [input |-> Head(stream).batch,
                                expert |-> d.expert,
                                token |-> plan.slots[s].token]

Expected(f, input) ==
  [t \in Index(Tokens(f)) |->
     {Whole([input |-> input, expert |-> f[i], token |-> t,
             weight |-> <<input, i>>]) : i \in {i \in DOMAIN f : i \div TopK = t}}]

Settled(k) ==
  /\ k \in DOMAIN asked \ raised
  /\ k < batch \/ hpc = "idle"
  /\ \A j \in DOMAIN stream : stream[j].batch # k

(* The output of a forward adds up, for every token, exactly the weighted  *)
(* results of the experts the router chose for it, whatever the workspaces *)
(* held before and whatever later forwards do.                             *)
OutputsRight ==
  \A k \in DOMAIN asked : Settled(k) => out[k] = Expected(asked[k], k)

\* Every forward ends: the host is back with its caller and the stream is
\* empty.
ForwardEnds == (hpc # "idle" \/ ~Drained) ~> (hpc = "idle" /\ Drained)

\* Types, and a layout that neither loses nor doubles an assignment: from the
\* tiles through the dispatch plan to the schedule.
LayoutSound == TypeOK /\ StableLayout /\ TilesDisjoint /\ ScheduleCovers
=============================================================================
