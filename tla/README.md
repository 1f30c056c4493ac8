# Verification of the DWDP runtime

DWDP runs mixture-of-experts models on a node with several GPUs.  Experts are
sharded over the ranks; instead of sending tokens to the expert, a rank streams
the weights of remote experts into its own memory while it computes.  This
directory holds a TLA+ model of the parts of that runtime whose behaviour
depends on order: on threads that interleave, calls that fail half-way,
requests that are retried, ranks that have to agree, buffers and weights that
outlive the call that filled them.  TLC checks it on small instances; TLAPS
proves the invariants that matter most for every instance.

## 1. The system

    Router -> Dispatcher -> Scheduler -> Comms planner -> Executor -> Merger
                                              |              |
                                              v              v
                                      TransferScheduler   CommunicationEngine

`DWDP/runtime/runtime.py` runs the stages in sequence; the adapters
(`DWDP/adapters/qwen15_moe.py`) do the same inside a patched Hugging Face layer.
All stages except communication are single-threaded functions of tensors.  Ranks
meet only in the collectives of load time and of the decode exchange.

| component | state it keeps | operations | what is hard |
|---|---|---|---|
| communication engine (`communication_engine.cpp`, `prefetch_worker.cpp`, `prefetch_queue.cpp`, `buffers.cu`, `ipc_manager.cpp`) | two staging buffers and the current index, a request queue, imported mappings, `initialized_` | initialize, register, prefetch, getResidentPointer, release, swapBuffers, shutdown; a worker thread | four mutexes, of which most operations hold one at a time; CUDA calls that fail; a condition variable |
| expert records (`weight_manager.cpp`) | a record per expert: resident state, flags, pointer, reference count | nine methods that move the record | the fields have to tell one story |
| residency cache (`cache_manager.cpp`) | entries, LRU list, used bytes, pins | admit, touch, pin, unpin, erase | an admission that throws after evicting |
| transfer scheduler (`transfer_scheduler.cpp`) | priority queue, coalescing map of weak pointers, `closed_` | submit, take, complete, fail, cancel, close | retries, cancellation of queued tasks, callbacks outside the lock, blocked workers |
| Python bridge (`communication/execution.py`, `bindings.cpp`) | the native engine, the set of registered experts | lazy construction, delegation | the interpreter lock is held across calls |
| distributed bootstrap (`communication/distributed.py`) | the table expert -> owner | register, exchange, look up | a rank whose exchange fails goes on, to the next layer's exchange too |
| communication planner (`comms_planner/`) | attached table, native scheduler | ownership of experts, slices of a transfer | three formulas for ownership |
| dispatcher (`dispatcher/`) | workspace | counting scatter, stable sort, tiled device kernels | tiles placed independently of each other against a sequential loop; rows left over from the last forward |
| scheduler (`scheduler/`) | workspace | active experts in ascending order with their ranges of slots | positions in the queue are not expert ids |
| executor (`executor/`) | workspace, packed weights, pointer tables, tile queues and their counters | expert MLPs: a row of the schedule at a time, or two persistent kernels | host staging reused under an asynchronous copy; programs that steal tiles |
| merger (`merger/`) | - | sum of the weighted outputs by token | agreement with the dispatcher |
| router (`router/`) | weights | projection, top-k | numerical |
| runtime (`runtime/`) | context, workspaces | the pipeline | buffers shared by layers |
| CUDA events and streams (`communication/streams.cu`, `events.cu`, `streams.py`) | streams, recorded events | issue, record, wait | a wait orders only what was issued before it, on the stream it was issued to |
| CUDA graph runner (`runtime/cuda_graph.py`) | graphs by shape, failed shapes, counters | capture, replay, reset | stale inputs, permanent fallback |
| paged KV cache (`runtime/paged_attention.py`) | free list, used blocks | allocate, free | double and stale free |
| adapters (`adapters/`) | patched modules, shared context | forward, decode exchange, patch, restore | ranks that choose different paths and meet in a collective |
| CLI, benchmarks, parity | - | - | input and output only |

How they interact: the Python bridge calls the engine with the interpreter lock
held (`bindings.cpp` never releases it), so the Python part of the program is
one client thread of the engine; a C++ program that links the library may have
several.  The engine's worker thread shares the records, the cache, the
buffers and the queue with the clients.  Every MoE layer owns an engine.  The
planner submits to the `TransferScheduler`; nothing under `src/` takes from it
yet, so its workers are modelled from its interface and its README.

The correctness of each part, in a sentence: the engine hands out pointers to
the right bytes and keeps them right until they are released; the records stay
coherent and no thread waits on a load nobody performs; the cache keeps its
books, its capacity and its pins; the transfer scheduler runs each request at
most three times, one at a time per expert, in priority order, and calls back
once; a forward gives every token the weighted results of the experts its router
chose, whichever algorithm and backend ran it and whatever ran before; the
ranks' tables name holders, the rows of an exchange come back to the
assignments they belong to, and ranks that agree on the path finish; a result
stays what it was when the next forward runs, a restored layer is the one that
was replaced, a cache block has one owner, and work on two streams never meets
in one tensor.

## 2. Modules

| module | models |
|---|---|
| `WeightManager` | `weight_manager.cpp`: the record of one expert and its transitions, as operators |
| `CacheOps` | `cache_manager.cpp`: the methods as operators on a cache record |
| `CacheManager` | the cache on its own, called with any arguments in any order |
| `CommunicationEngine` | the engine, its worker thread and its clients, composed from the two operator modules |
| `DoubleBuffer` | what the engine promises for locally staged experts: a front slot, a back slot, a swap that takes the front from nobody |
| `TransferScheduler` | the scheduler, the threads that submit and the worker threads |
| `Dispatcher` | `dispatcher/`: the workspace, the three algorithms, the three tiled kernels a program at a time |
| `ExpertScheduler` | `scheduler/`: the round-robin schedule |
| `PersistentExecutor` | `executor/` and `merger/`: descriptors, staging, tile queues, the two persistent kernels, the reference rows, the merge |
| `MoEForward` | the forwards of a rank's MoE blocks: a host thread, one CUDA stream, the workspaces they share; composes the three above |
| `ExpertOwnership` | which rank owns an expert (by table, by block, by remainder), the slices, groups and topology of a plan |
| `Rendezvous` | what a blocking collective promises: the k-th is left only when everybody entered the k-th |
| `ExpertParallel` | the ranks of a node: bootstrap of the tables, then passes through the decode exchange or the pipeline |
| `Serving` | adapters over one model: patch, restore, passes through whatever sits in the layers, conversion of weights |
| `GraphRunner` | the CUDA graph runner on a callable |
| `PagedKVCache` | the block manager, between any two blocks of a call |
| `PlanBuffers` | one runtime: stages, workspaces, `profile()`, executors that raise, results that are kept |
| `StreamOrder` | CUDA streams: issue, run, wait; what the next two are built on |
| `SharedExpert` | the shared expert on the compute stream beside the routed ones, and the allocator |
| `StagedReads` | the engine's copy stream, its events, and kernels of a caller that read the staging buffers |
| `CacheOpsProofs`, `CacheManagerProofs`, `CommunicationEngineProofs`, `TransferSchedulerProofs`, `MoEForwardProofs`, `ExpertParallelProofs`, `ServingProofs`, `StreamsProofs` | theorems and proofs |
| `MCCacheManager`, `MCCommunicationEngine`, `MCTransferScheduler`, `MCMoEForward`, `MCExpertParallel`, `MCServing`, `MCStreams` | instances for TLC |

### 2.1 `CommunicationEngine`

Each part locks its own mutex inside each of its methods.  One call of a method
is therefore one atomic step, and an operation of the engine is a sequence of
such steps with a program counter (`cpc` for a client, `wpc` for the worker);
the names of the steps are those of the calls.  `lock` is the engine's mutex,
which `prefetch`, `registerExpert`, `swapBuffers` and `shutdown` hold and
`getResidentPointer`, `release` and the worker do not.  A `throw` is a jump to
the end of the operation, for the worker to its `catch` block (`fail`, then
`notify`).  What is in a buffer is the identity of the expert whose bytes were
copied last (`content`), or of nobody after a copy that failed.

`PrefetchWorker::run` waits for a free buffer on a condition variable.  The wait
is two steps, the look at the predicate (`await`) and the blocking (`parking` ->
`parked`): a thread that notifies with the worker's mutex held
(`notifyBufferAvailable`) cannot come between them, one that notifies without it
(`stop`) can.

What a client may do is a parameter.  With `Careful = FALSE` it calls anything
at any time.  With `Careful = TRUE` it prefetches registered experts only and
swaps only when no load is under way or can start and no other call is in
progress (`Quiet`): the discipline the adapter's loop prefetch, wait, execute,
swap aims at.  A property that needs the discipline is checked under it; without
it TLC refutes it (5.1).  That a swap must also keep away from
other threads' `getResidentPointer` came out of the proof of `PublishedBytes`: a get
that straddles a swap can leave its pin behind; with enough pinned bytes an
admission finds no room, the worker's `catch` fails the load and wakes whoever
waits for a buffer, and the next load is directed at a buffer a swap has just
made the front, over published bytes.  It takes two threads and three local
experts, which is what `EngineCareful` now has.  A pointer is released once, and
shutdown starts only when no other
call is in progress and no pointer is held (the destructor calls it).

Sizes: a local expert takes 2 units of a staging buffer of 2 and a cache of 4;
an imported expert takes 3, so that one imported and one local expert do not fit
together and admissions evict and throw.

### 2.2 `CacheManager` and `CacheOps`

A cache is a record of the cached set, the LRU list, the pins and the used bytes.
`Victims` is the loop of `admit`: the shortest prefix of the LRU list whose
unpinned entries free enough space; when no prefix does, the call throws, and
the entries it has already dropped are gone (`Admit` models both).

### 2.3 `TransferScheduler`

A task is a record in a growing sequence; the coalescing map holds task
numbers, and a weak pointer is alive as long as the queue, a worker or a
submitter holds the task.  `take` blocks in `blocked` until notified: which of the
sleeping workers wakes is nondeterministic, and a spurious wake-up is allowed.
The callback is a step of its own after the critical section of `complete` and
`fail`.  `MaxTasks`, the number of tasks created, is the only bound on the run.

### 2.4 `MoEForward` and what it composes

A forward begins with the router's index tensor (`flat`) and is `DispatchTiled`
or `DispatchHost`, `Schedule`, then either `RowRun` for each expert (the reference
executor, which accumulates by token) or `Fill`, `Queue`, `Launch` and `Merge` (the
persistent one).  Each is the host's code between two points where it waits or
returns; what it issues to the device is appended to `stream`, and the device
runs the operation at the head: a copy, a fill, the event, the merge, or a
kernel, whose programs (`grid`) take their steps in any order.  The host goes on
at once, begins the next forward while the stream runs the last, and waits only
where the code does: for the stream at `torch.nonzero` and
`get_tensorlist_schedule` (`Schedule`), for the event in `Fill` and `Queue`.

Tensors in a workspace are functions that keep their content from forward to
forward, `Ensure` hands out a large enough one as it is, and a new one is
undefined.  A dispatched slot is the record of the assignment it was written
for.  An activation is the record of what it was computed from: forward,
expert, token, weight.  A projection of a row that is not whole, or is of
another expert, is `NoOutput`.  The output of a token is the set of the rows
added up for it, so that a missing, foreign, stale or unfinished row shows.

A tiled kernel is one step per program (its tiles share nothing, which
`TilesDisjoint` checks for the one that scatters).  In the persistent kernels the
claim of a queue entry (the `atomic_add`) and the work on it are two steps, as
other programs come between them.

All experts are local here: the executor refuses a plan with remote experts
(`executor/utils.py:63`).  The stream is `torch`'s current stream, which the adapter
does not change for these stages.

### 2.5 `ExpertParallel`, `ExpertOwnership`, `Rendezvous`

A rank is a process with a program counter.  At load time it creates the process
group, and for each layer registers its experts, enters the gather of handles,
merges the tables and attaches the result to the block (`InitGroup`, `BeginGather`,
`EndGather`, `LoseGather`, `CutGather`, `Attach`).  Then it serves its passes; in every layer
the block takes the decode exchange, four all-to-all collectives with the host's
work between them (`BeginExchange` to `EndExchange`), or the pipeline (`BeginPipeline`,
`EndPipeline`), by the first dimension of its own `hidden_states`.  An exception
leaves the model's forward, and the caller serves the next pass.

A collective is not an action of all ranks at once.  A rank enters its k-th by
posting a part to every rank, and leaves when the k-th parts of all have come
and are of the same collective.  Nothing in the code says which layer or which
pass a call belongs to, so the k-th calls of two ranks may be gathers of
different layers, whose parts they take, or a gather and an all-to-all
(`Matched` fails), where the library would hang or fail; in the model they wait,
the gather until its time-out.  `SplitsAgree` says when they meet in one
collective, `RanksRendezvous` that the ranks' collectives implement `Rendezvous`,
with what is entered and what is finished mapped to counters.

What goes wrong is chosen at load time (`fault`): the group cannot be created, an
engine cannot be built, a handle cannot be exported or opened, or a gather fails.
It may fail in three ways.  Refused: it raises before anything is sent
(`BeginGather`).  `exchange_handles` swallows the exception and its only guard
is `is_initialized()` (`distributed.py:76`, `:93`), so the rank goes on and gathers
again for the next layer; its calls are then one behind its peers', and so it
goes into the decode exchange.  Lost: the parts have come and merging them raises
(`LoseGather`); nothing is shifted.  Broken: the collective itself fails, by this
rank's fault or by the time-out of a gather that a peer will never enter
(`CutGather`); a broken group raises at every later collective
(`RefuseExchange`).  So a rank's table may get the handles of another layer.
`TableSound` says exactly which: those of the gather that is the owner's n-th
where its own is its n-th.  That they are of the layer follows only when
no rank skipped a gather; `RanksOutOfStep` shows the other case.
Assumptions: a rank that raises between the collectives of an exchange serves no
other pass (its peers are inside one it would meet at random); time-outs of
the decode exchange, which would end the process, are not modelled.  A hidden
state with three dimensions makes the exchange raise before any collective
(`RefuseShape`), which is how Hugging Face calls it, and the load mixes both.

The planner is modelled as it is: it takes the length of the queue for the
number of experts, so the ids it classifies are positions.  With every expert in
every registry, as the adapter fills them, its table makes all of them local
(`FullRegistryServes`).  With sharded registries plans name remote experts and the
executor refuses them, which the model does too (`RaiseInPipeline`).  `SlicesTile` is
about the plan under execution: a rank that was refused keeps the plan of that
layer while its next pass is back at the first, whose table may give the expert
another size.

### 2.6 `Serving`, `GraphRunner`, `PagedKVCache`, `PlanBuffers`

Four parts of a serving process that share no state.  `MCServing` instantiates
all four; `part` says which one a behaviour moves, and the others rest in their
initial state.

* `Serving`: two adapters patch and restore the layers of one model, in any order,
  with patches that raise half-way and adapters their caller drops.  A pass goes
  layer by layer through what sits there; a block prepares its weights on first
  use, expert by expert, and is interrupted between any two conversions.
  Weights are their formats, FP8 copies remember which formats they came from.
* `GraphRunner`: calls of any shape and content from two callers that keep their
  results, captures that fail, `reset` and `capture` in between.
* `PagedKVCache`: a call that allocates or frees is one step per block.  Careful
  callers give back what they hold, once; careless ones any id they ever got.
* `PlanBuffers`: a forward is a step per stage; a buffer holds tags that say which
  forward wrote which element, and a result keeps the views it was given.  With
  workspaces the next forward writes into the buffers of the last one's plans;
  `ResultsOwned` says which views survive that (hidden states, and the plans of a
  runtime without workspaces) and what the executor's cached rows belong to.

### 2.7 `StreamOrder`, `SharedExpert`, `StagedReads`

A stream is a sequence of operations the device runs one by one; a wait holds it
until another stream has got as far as it had when the event was recorded.  The
host only issues.  `MCStreams` instantiates both users, with a `part` as above.

* `SharedExpert`: the host runs ahead through the layers; a tensor it drops returns
  to the allocator, which gives its memory to the next tensor of the same stream
  at once.  Layers may be on two devices.  Contents say what they were computed
  from, so a sum of the wrong layer's tensors shows.  A host that finds no memory
  gets no further; the allocator's own way out (it waits for the device) is not modelled.
* `StagedReads`: the worker issues a copy, records its event and publishes; the
  wait goes to the engine's compute stream, the caller's kernel to the caller's.
  A caller synchronizes the device before it reads and before it swaps, or not
  (`usage`).  `CommunicationEngine` has the interleavings of the worker, this
  module the order of what the worker issued.

## 3. Runs

| run | instance | shows |
|---|---|---|
| `MCCacheManager` | 5 experts of 1, 1, 2, 3 and 6 units, a capacity of 5 | every call in every order, from an empty cache |
| `EngineCareful` | 2 clients, 3 local experts, careful | no handle moves or is overwritten under its holder, with two threads in the engine and an expert more than there are buffers |
| `EngineSingle` | 1 client, 3 local experts, careful | the invariants the code documents, and the implementation of `DoubleBuffer` |
| `EngineFaults` | 1 client that swaps at any time, a local and an imported expert, every kind of CUDA failure, fair threads | the records stay coherent whatever fails, a loading record is the worker's; waits and loads end; shutdown ends, but for the lost wake-up below |
| `Scheduler` | 2 experts, 2 workers, 2 tasks, 2 priorities, fair workers | coalescing, retry bound, priority order, one callback for what completes or fails; queued work is taken, close ends the workers |
| `MoEForward` | 3 experts, 2 choices a token, up to 3 tokens in a forward, 2 forwards; 2 programs; tiles of 4 assignments, 2 rows, 2 columns; fair host and device | the four configurations below lay out, cover, execute and merge each forward rightly after any other; every forward ends |
| `ExpertParallel` | 2 ranks, 3 experts, 2 layers, up to 2 passes of 1 to 3 tokens a rank, fair ranks; 6 fault sets, 3 registries, 6 loads | tables, plans and outputs are right on every rank; collectives are a rendezvous; ranks that agree finish |
| `Serving` | the four parts of 2.6: 2 adapters, 2 layers of 2 experts; 2 shapes, 2 callers; 3 blocks, 2 sequences; 3 forwards on 2 devices | patches, weights, graphs, blocks and results stay right from call to call |
| `Streams` | the two parts of 2.7: 2 layers on 1 or 2 devices, 2 passes; 2 experts | no kernel reads bytes in flight or memory given away, by a caller that synchronizes |
| `EngineLostWakeup` | violation | shutdown hangs |
| `StreamsUnwaited` | violation | a caller that trusts the engine's wait reads too early |
| `RanksOutOfStep` | violation, the instance of `ExpertParallel` | a rank that skips a gather gives its peer the handles of another layer |

A property that is a conjunction lists named parts, each defined and explained
in its module:

| property | parts |
|---|---|
| `CacheConsistent` | `TypeOK`, `BooksAgree`, `WithinCapacity` |
| `BooksAtRest` | `ActiveHasSlot`, `SlotIsPublished`, `CountsAgree` |
| `LayoutSound` | `TypeOK`, `StableLayout`, `TilesDisjoint`, `ScheduleCovers` |
| `RanksConsistent` | `TypeOK`, `TableSound`, `TablesComplete` |
| `PlansSound` | `FullRegistryServes`, `SlicesTile` |
| `PatchesSound` | `ServingTypeOK`, `SlotsRestorable` |
| `WeightFormats` | `KernelsUniform`, `LayersPatchable`, `QuantizedOnce` |
| `RunnerRight` | `ResultsKept`, `OneAttempt` |
| `BlocksOwned` | `BlocksPartitioned`, `OwnersDisjoint` |
| `ResultsOwned` | `PlanTypeOK`, `HiddenStatesOwned`, `PlansLast`, `RowsOfPlan`, `OnInputDevice` |
| `RuntimeSettles` | `ProfileLeavesNoTrace`, `WorkspaceSettles` |
| `OverlapSafe` | `OverlapTypeOK`, `OverlapRight`, `NoOverlapClash` |
| `StagingSafe` | `ReadsRight`, `NoBufferClash` |

Bounds.  Three experts are one more than there are buffers, so every state with
a front expert, a back expert and one waiting occurs; two clients are what a
race between two calls needs, and no action of a client looks at more than one
other.  `MaxQueue` 1 covers an empty and a full queue; with the request in the worker's
hands that is two requests at a time, of which the second finds no buffer.  `MaxPins`
bounds pins that a failed
`getResidentPointer` leaks; 2 lets two holders overlap.  For the scheduler, its
properties compare two tasks: of one expert (coalesced, cancelled and submitted
again) or of two (served by priority); the retry bound 2 is the code's own.
For `MoEForward`, three tokens are six assignments: a full tile and a half-filled
one; an expert with three rows has a full and a partial row tile, one with none
is skipped, and every order of one larger and one smaller forward (an empty one
included) occurs within `TokenBudget` 4, so that the second works in the first's
leftovers.  `MCSetup` is counting scatter and stable sort with the reference
executor, and the tiled kernels with the persistent executor, with the router's
counts and without, with a `max_tokens_per_expert` that a forward exceeds and one
that none does.  The router's tensors are three of the six ordered pairs of
experts per token: each expert is chosen first by one and second by another.
For `ExpertParallel`, two ranks disagree in every way two can; three experts do
not divide by two, so that the last block is short and formulas of ownership
differ; the loads include ranks that agree, one with more exchanges than its
peer, exchanges in different passes, and none; a pass has two layers, so a rank
may be a layer ahead; the faults are each alone, two that leave one layer's
table incomplete and the next one's whole, one rank that skips a gather, so that
the ranks are out of step for good, and two that skip one each.  For `Serving`, two
adapters are what
one needs to restore over another's patch, and two layers what a patch that
raises half-way needs; three blocks let one call be half done while another's
blocks are out; three forwards of two sizes let a buffer grow, be reused, and be
reused again.  For `Streams`, two layers and two passes bring every tensor's memory
back to its stream; three copies into two buffers reuse one of them.
Deadlock is checked in every run but `MoEForward`, `ExpertParallel`, `Serving` and
`Streams`, whose callers may stop after their last call, and ranks that disagree on
the path wait for each other for ever, which is what the code does.

Fairness.  `FairSpec` of the engine is weak fairness of the worker thread and of
each client inside a call: the operating system runs threads that can run.
Nobody is obliged to make a call, and nothing is assumed of spurious wake-ups.
For `MoEForward` it is weak fairness of the host inside a forward and of the
device: CUDA runs a stream's operations to their end, and every step of a kernel
is one of finitely many.  For the transfer scheduler it is the same: workers keep
calling `take` and finish what
they took, as the worker loop such a scheduler exists for does.  For the ranks it is
weak fairness of each: a rank is a thread that takes its next step when it can,
and a collective completes when everybody is in it.  `PassesEnd` promises an end
only to ranks that make the same choice in every pass on whole tables of blocks,
with no fault at load time, or to a rank that takes no exchange at all.  The other runs
state no liveness.

## 4. What the violations say

* `EngineLostWakeup`: `stop` changes `running_` and notifies without the worker's
  mutex.  The worker has read `running_`, is told before it blocks, blocks, and
  `join` waits for ever, so that no IPC handle is released
  (`communication/execution.py:193`).
* `StreamsUnwaited`: `getResidentPointer` makes the engine's compute stream wait for
  the copy, and no kernel of a caller runs on that stream
  (`communication/README.md:31`).  A caller that synchronizes the device itself is
  safe (`Streams`).
* `RanksOutOfStep`: rank 1's gather for layer 1 raises before it sends.  Its gather
  for layer 2 is its first, pairs with rank 0's for layer 1, and rank 0 stores the
  handles of layer 2's experts in the table of layer 1 (`distributed.py:93`;
  `qwen15_moe.py:531` says that the exchange runs per layer).

What else the code does that a comment, a doc or a test says it does not, met
while modelling, without a run of its own:

* `prefetch_worker.cpp:64` drops the list of victims that `prefetch_worker.cpp:86`
  evicts: with two imported experts in the instance of `EngineSingle`,
  `ActiveHasSlot` fails (`runtime_invariants.h:10`).
* `invalidateBuffer` looks at the reference count, which `getResidentPointer` raises
  two calls after it has pinned: with two clients `PinnedNotEvicted` fails
  (`runtime_invariants.h:11`).
* "Completion callbacks observe the terminal state" (`communication/README.md:20`),
  and a cancelled task is in one (`:17`), but `cancel` makes it terminal without
  its callback (`transfer_scheduler.cpp:95`).  `CallbackOnce` is about the tasks
  that complete or fail, and asks nothing of a cancelled one.
* After `restore_model` the native modules hold FP8 weights if an adapter with an
  FP8 backend ran them (`docs/adapters.md:148`, `adapters/README.md:73`); an adapter
  with the TMA executor on a model another one has converted quantizes FP8 bytes a
  second time (`executor/fp8.py:26`).
* A patch that raises half-way under `wrap` loses the adapter, and with it the only
  object that can restore the layers already replaced.
* The capture of the whole pipeline always fails, as its stages wait for the
  device (`torch.nonzero` in the round-robin schedule): `qwen15_moe.py:254` and
  `scheduler/policies/round_robin.py:165` say otherwise, and `assert_capture_safe` is
  called by nobody.  The first captured call counts as a replay, which
  `tests/runtime/test_cuda_graphs.py:41` does not expect.
* `expert_parallel.py:17` says that C++ owns the issue order; nothing takes a task from
  the planner's scheduler.  `expert_parallel.py:3` says experts are sharded evenly; the
  adapter registers all of them everywhere.
* `communication/streams.py:70` returns before the device check its docstring describes.
* With workspaces, the plans of an earlier result are overwritten by the next
  forward.  A registration that is repeated, or that throws, keeps its event until
  shutdown.

## 5. Proofs

The proofs hold for any sets of experts and clients, any sizes and bounds and
any of the modelled faults; the only assumptions are the named ones on the
constants (`CacheAssumption`, `EngineAssumption`, `DispatcherAssumption`,
`ExecutorAssumption`, `ForwardAssumption`, `OwnershipAssumption`, `ParallelAssumption`,
`ServingAssumption`, `GraphAssumption`, `KVAssumption`, `BoundAssumption`,
`InputsAssumption` and `BuildsAssumption` of `PlanBuffers`, `StagedReadsAssumption`,
`SharedExpertAssumption`, and the `SchedulerAssumption` of each scheduler), which TLC
evaluates in the runs of the modules that declare them.
They are typing and what the code's constructors demand: a finite set of client
threads, a cache of twice the staging size (`communication_engine.cpp` builds it so),
expert ids that are a prefix of the naturals, and so on.

### 5.1 Cache, records and engine

* `CacheOpsProofs` has what the methods do to one cache record, for the two proof
  modules that use it: `Sound` (distinct entries in the list, the list names the
  entries, used bytes are their sum, within capacity, pins on entries) survives
  every method, and `Victims` is characterised without recursion.  The sum over the
  entries is `MapThenSumSet`, whose one-element step is a lemma of its own.
* `CacheManagerProofs`.  `PinsSitOnEntries`: pins are counted for entries only.
  From it and the fact that a victim is unpinned, `PinnedEntriesStay`: no call
  removes a pinned entry, not even an admission that throws half-way.
  `CacheIsConsistent`: the books balance and the capacity holds after every call,
  whether it returned or threw.  `EvictsLeastRecent`: what an admission drops is
  the shortest prefix of the unpinned entries in order of last use that frees
  the room.
* `CommunicationEngineProofs`, for clients that do anything at any time and any CUDA
  fault.  The inductive invariant of `RecordsAreCoherent` and `LoadsAreOwned` is
  `RecordsCoherent` and `LoadOwned` together with three facts about the worker: a
  request is being served at every step between `inspect` and `notify`; at the steps
  between `begin` and `complete` its record is local and loading or has been
  evicted since; at `publish` its mapping is open.  Neither property is inductive
  alone: `LoadOwned` needs to know that `failLoad` is the only way out of a load
  that did not complete, and `RecordsCoherent` that a record that completes is
  the one that began.  `EngineTypes` adds the types of the rest of the state.
* The same module, for `Disciplined` clients: `Careful`, no imported expert, no CUDA
  fault.  The discipline is a hypothesis of the theorems because the code does
  not enforce it and TLC refutes `PublishedBytes` without any of the three: a swap at
  any time redirects a load; a load that fails, at the copy or
  because an imported expert left no room in the cache, wakes the worker in the
  middle of a swap, and its next load is directed at the buffer the swap makes
  the front.  The
  invariant `Safe` has seven parts, each about one relation: `Records` (a published
  record points at a buffer with its own bytes, and no two share one), `Requests`
  and `Loads` (where the worker is, and what the request it holds and the buffer it
  has chosen are then), `Locks` (who is in a swap), `Calls` (what a client in the
  middle of a get or a release has pinned so far), `Slots` (published experts and
  cache entries), `Counts` (pins and references count the clients that hold a
  pointer or are about to).  From it `HandlesAreSound`,
  `PublishedBytesAreRight`, `BooksBalance` and `PinnedSurvive`.  `EngineDoubleBuffers` shows
  that the engine implements `DoubleBuffer`: every step of a thread is a load, a
  swap, a get, a release or a shutdown of the abstract buffer, or a stutter.

### 5.2 Transfer scheduler

`TransferSchedulerProofs`.  The invariant ties the coalescing map to the task
states: a task that is queued or running is the one the map names for its expert,
and a task's runs are bounded by its retry counter; `CoalescingSound` and
`RetriesBounded` follow.  `StartsInOrder` needs to know that a queued task is in the heap,
so that `take` compares it with what it hands out, and that a finished one has
started (`Accounted`).  `CallbacksRunOnce`, of the tasks that complete or fail: a
worker between its critical section and the call is the first to call back (`Answered`).

### 5.3 Forward

`MoEForwardProofs`, for any numbers of experts, choices, tiles, rows, columns and
programs, any routing, and any number of forwards over the same workspaces.

* `TilesClaimedOnce`: no two programs of a persistent kernel
  hold one queue entry.  `ClaimsExclusive` alone is not inductive: the next claim
  could be one still out.  `ClaimInv` adds that every open claim is below the
  counter of the kernel at the head of the stream, by a program still in its grid;
  so a claim is new, the counters are zeroed only while no claim is open, and a
  kernel ends only when its last program has let go.  What the host appends keeps
  the head of the stream (`IssueKeepsClaims`).
* `LayoutIsSound`, `StagesAreOrdered` and `OutputsAreRight` rest on one invariant,
  `ForwardInv`.  The difficulty is that the host may be in the next forward while
  the stream still runs the last one's kernels over workspaces that both use.
  `StreamInv` orders the stream: each kind of operation has a rank (`Rank`), the stream
  is strictly increasing in it, so an operation is queued at most once and what
  runs is the lowest; every operation's size and forward are those of its kind
  (`Described`), and `Phase` says what may be queued while the host is where it is.
  In particular the executor's operations come before those of the next dispatch, so
  the plan and the rows they read are still their own (`Active` is the forward they
  belong to).
  `DispatchInv` follows the tile kernels: which rows of the tiles' counts, starts and
  slots are written while some programs are still in the grid (`Counting`,
  `Starting`, `Packing`), up to `LaidOut`, the whole plan, which then stays until the
  next forward's first tile kernel.
  `ExecInv` follows the executor: descriptors and queues are staged on the host, then
  on the device, for as long as somebody reads them (`Copied`); a tile below the
  kernel's counter is done or held by a program (`GatherClaims`, `DownClaims`), so when
  the last program leaves with a claim beyond the end, all tiles are done; and
  the tiles of the queue cover every slot (`TilesCover`), so then every slot is
  gathered (`AllGathered`) or brought down (`AllDowned`).
  `RowsInv` gives the output the reference executor has so far: the results of the
  experts whose rows are gone.
* What counting, sorting and scattering compute is proved without induction over
  data, which the prover cannot instantiate.  A sum over a set is characterised by its
  table of partial sums (`SumTable`), and two tables that differ would differ at a
  smallest subset; offsets, cursors and tile starts are cardinalities
  (`OffsetsAre`, `CursorsAre`, `StartsAre`), and the place of an assignment is the number
  of those before it (`PlacesAre`); that each place is taken once follows by
  counting.  The sort gives the same places because a sorted sequence of distinct
  keys has them (`SortPlaces`), the flattened tile queue by its table (`FlattenIs`).
* Two definitions were restated for these proofs, with the same value: the active
  experts as a choice of the k-th one and the records of an untouched output
  written out, since the sorting and merging operators of the libraries are opaque
  to the prover.  `ForwardAssumption` says that a router returns a tensor of experts,
  `TopK` per token, and that the algorithm is one of those the configuration
  accepts (`dispatcher/config.py:27`).

### 5.4 Ranks

`ExpertParallelProofs`, for any number of ranks, layers and passes, any routing, any
registries, and whatever is refused or cut.

* `ExchangesRendezvous`: the ranks implement `Rendezvous`.  `CollInv` ties the mail to
  the counters: what a rank has from another is what that one entered and this
  one has not finished; a rank waits only on a group that is up; a gather that
  was cut stays unfinished for good.  Every action of a rank enters none or one
  collective and leaves none or one (`Sends`, `Turns`); `MoveKeeps` shows once that
  such a step keeps `CollInv` and is a step, or a stutter, of `Rendezvous`.
* `TablesAreSound`.  A rank merges what it finds at the head of each peer's mail, so
  what its table says depends on which gather that part is of.  The mail is
  numbered (`Labelled`): the j-th part a peer has sent is the peer's mapping of the
  layer whose gather is its j-th, counting only the gathers it entered (`Nth`); that
  rests on `Counted`, how many a rank has entered at each point of its boot.
  A rank that skips a gather goes on with the next layer's, so equal numbers
  mean equal layers only for ranks that skipped alike; the theorem says equal
  numbers, and equal layers when nobody skipped.
* `PlansAreSound`.  `PlansInv` adds that the plan under execution is the one the
  current layer's table gives.  The slices of a transfer are taken round-robin from
  the rank's own number; `RoundRobin` (that is a permutation) and `CoveredOnce` (the
  slices cover the bytes once) are lemmas of `%` and `\div`, by a smallest
  counterexample where one would use induction.
* `SplitsAreAgreed`, `ResultsAreRight`, for any faults.  Two cases.  Ranks that
  skipped equally many gathers are in step (`InStep`): they agree on a collective
  only because the number of collectives a rank has entered says which kind the
  last one is (`Kind`): as many gathers as all entered, then the four of one
  exchange after the other.  `Phases` says it of every rank, and that a rank is
  between two exchanges or gone for good whenever it is in none; so a rank that
  serves a pipeline meanwhile does not shift the count.
  Ranks out of step: whoever skipped fewer gathers has its last one unanswered by
  a gather of the others, so nobody ever completes the counts of a first exchange
  (`Stuck`): no rank is past them, no split size is ever used and only the
  pipeline returns anything.  That is what the theorems say in that case; it is
  a hang, and what `PassesEnd` promises excludes it.
  In step, with `RanksRendezvous` (no rank is more than one collective
  ahead), `MailRight` numbers the messages under way and says what each carries:
  the counts its sender's routing announces, as many tokens as announced, as many
  experts as the receiver was told, and as many results as the receiver announced,
  as long as the receiver is still in the exchange.  `Jobs` says that what a rank
  was told is what its peers announced, as long as they are in the exchange.
  Messages keep their numbers over a step (`OldMail`, `NewMail`), so it is enough to
  say what the new one carries and that no step changes what an old one is
  compared with (`StillRight`): a rank that starts or ends an exchange has no
  tokens or experts of it under way.  `ConcatIs`, `PartRows` and `AnnouncedAll` say
  that joining, splitting and counting fit together, again by smallest
  counterexamples.

### 5.5 Serving

* `ServingProofs`.  `RunnerKeepsResults`: whatever is captured, replayed and reset in
  between, a result that was handed out stays the output for its input.
  `RestoringIsPossible`: `PatchesInv` gives each block in the model to the adapter
  whose record names the slot and keeps the native module, whatever was patched
  over what and wherever a patch raised.  `WeightsKeepTheirFormat`: `FormatsInv`: a layer's weights
  are of one format unless a conversion was interrupted, and native, the copies
  made from them too, unless some adapter converts in place.
* `ServingProofs` on the KV cache.  `PoolOwnsBlocks`: the free list and the used blocks partition
  the pool at every block of every call, whatever ids are given back; careful
  callers never share a block.  The second needs `Exclusive`: while all are
  careful every count is one, and a block in use is in one caller's hands or
  among the ids still to be given back by the call under way.

### 5.6 Runtime buffers

`ServingProofs`, for any inputs on any devices, any configurations, any number of
forwards, and executors that raise at any of them.

* `KeptResultsAreRight`.  `ResultsOwned` is far from inductive: that a result's hidden
  states survive depends on what the forwards after it may write.  `MemOK` says that
  no two workspaces have one buffer; `Keeps` what a stage may do to the memory (grow
  it, and write the workspaces it asks for); `ResultOK` that the hidden states of a
  kept result are in a buffer of no workspace, hence out of reach of every stage.
  The views of a plan do live in workspaces: `StageInv` gives, stage by stage, which
  of them hold the tag of the current forward (`Assigned`, `Scheduled`, `Prepared`,
  `Executed`), and `ResultOK` promises the views of a kept plan only until the next
  forward begins, or for good without workspaces.  `RowsFor` ties the executor's host
  copy of a schedule to the plan it was made from, whichever forward that was;
  `ForwardInv` says that plans of one forward, re-executions among them, have one
  size and one device.  One lemma per stage says which slots it grows, and
  `StageKeeps` and `EndKeeps` carry the invariant over any such step.
* `WorkspacesSettle`.  `SettleInv` says of every workspace in use how large it is at
  every stage, not only between forwards: while no forward has been lost and all
  were on one device, its capacity is the largest size among the results and, once
  its stage has run, the current plan; before its first use it has no buffer.
  A forward that raises leaves the hypothesis false for good, since its
  workspaces may have grown for a result nobody has.

### 5.7 Streams

`StreamsProofs`, for each of the two users of streams by itself.

* The staging buffers as the device sees them, for any number of experts and
  operations.  `SynchronizedReadsAreSafe`: a caller that
  waits for the device before it launches a read, and for its own kernels before
  it swaps, always reads its expert's bytes with no copy running into them.
  `StagedInv` says what a buffer will hold once the copies issued have run
  (`Carries`), that nothing is published in a buffer the worker may fill, that a
  pointer in somebody's hands keeps its expert in the front buffer, and that while
  a read is pending every pending copy writes the other buffer.  The
  synchronization is a hypothesis because the engine does not do it: without
  it TLC finds the read that comes too early (`StreamsUnwaited`).
* The shared expert, for any number of layers, devices, streams, blocks of memory
  and passes, any placement of the layers, and any pass that raises.
  `OverlapIsSafe`: a pass that ends returns what it should, and no operation
  writes what another of a pass still wanted is using.  It rests on
  `SharedExpertAssumption` alone (the compute stream is no device's own, a placement
  puts every layer on a device, the model's "none" is no block and no stream).

  What is hard is that the host is ahead of every stream, so that what is safe is
  decided by the waits in what is pending, directly or through other streams.  The
  invariant says this by meaning, not by chains of waits: a `Cut` is how far
  the streams may have got together as far as the waits tell; s at k `Knows` that t
  has got to p if that is so in every cut.  `Before` orders two operations, and `Joined`
  says that whatever is issued to a stream from now on comes after another
  stream's operation.  Four lemmas carry the rest: issuing an operation takes no knowledge
  away (`KnowsAppend`, because a cut of the longer streams cut back to the shorter
  is one of theirs), a wait joins what the other stream has joined (`WaitTakes`),
  running takes none away (`KnowsRun`), and nothing pending comes before what runs
  (`RunsFirst`).

  `OverlapInv` then has five parts.  `Ordered`: two streams that meet in a block that
  one of them writes are ordered there, except a reader of a lost pass.  `Fed`: what
  an operation of a wanted pass reads is what it needs, there already or left by the
  last writer before it.  `HubInv`: the stream a block was allocated on has joined
  everybody who uses the block, so the allocator may give it out again.  That fails
  for a while for two kinds of reader: the shared expert, which reads the hidden
  states of the current stream, and the sum, which on the current stream reads a block of
  the compute stream.  `Excused` names them, and neither is left when the block can be
  reused: the sum waits for the compute stream, the next launch for the current one.
  `WillInv`: what will be in the host's tensors once all is done.  `HostInv`: which
  tensors it holds where.  None of them is inductive without the others: a write is
  ordered because the hub of its block has joined the readers, and a reader
  gets the right value because the writers are ordered.

### 5.8 Model-checked only

Liveness (`LoadsEnd`, `PassesEnd` and the like): the prover does not reason about
fairness and ENABLED.  Every invariant a passing run checks is proved.

## 6. Not modelled

* A call that runs while the engine is being shut down (undefined behaviour in
  C++; no caller does it), `unregisterExpert`, `PrefetchQueue::dequeue` and `peek`,
  `IPCManager::closeImported` (no caller).
* Exhaustion of memory, `events_.acquire` failures, numerics (sums of floats in
  another order), the FP8 and TMA kernels, which take their work from the same
  queues in the same way, and packed unweighted outputs of the persistent kernels,
  which the adapter turns off.
* `model.to()` between two forwards, which leaves the executor's pointer tables on the
  old storage (`executor/workspace.py:306`): storage addresses are not in the model.
* The time-out of a collective in the decode exchange, and the death of a rank.
* `PagedKVCacheManager` and `DWDPRuntime.graph_runner` are modelled, but no path of the
  runtime uses them; the model calls them as their tests do.
* The router (a matrix product and a top-k), the discovery of layers by name, the
  cost model of the planner, the driver's peer queries and IPC calls, the
  command line, the benchmarks, the parity check and the scripts: numerical, or
  input and output; `PROJECT.json` lists them.

## 7. Plan

Done: the cache, the records, the engine and its streams, the transfer scheduler,
the local forward, the ranks with their bootstrap and decode exchange, patching
and weights, graphs, paged cache, workspaces and results, with the proofs above.
Left: a forward with remote experts: the engine's prefetch, wait and swap around
an executor that accepts them, once the code has one.
