----------------------------- MODULE PlanBuffers -----------------------------
(***************************************************************************)
(* One DWDP runtime: the stages of a forward one after the other, the      *)
(* buffers each stage takes from the workspaces or allocates, and what the *)
(* results and plans of earlier forwards still refer to.  A buffer holds   *)
(* tags: n for what forward n computed, Zero, or Unset.                    *)
(***************************************************************************)
EXTENDS Integers, Sequences

CONSTANTS
  Builds,      \* configurations of the runtime and of its stages
  Inputs,      \* inputs: size, the number of active experts (and of
               \* assignments) of the forward; dev, the device it lives on
  MaxForwards, \* bound: forwards begun
  MaxResults,  \* bound: results kept, re-executions included
  MaxFailures  \* bound: executors that raise

ASSUME BoundAssumption == MaxForwards \in Nat
ASSUME InputsAssumption == \A i \in Inputs : i.size \in Nat \ {0}
ASSUME BuildsAssumption ==
  Builds \subseteq [workspace : BOOLEAN, accumulate : BOOLEAN, packed : BOOLEAN,
                    weigh : BOOLEAN, metadata : BOOLEAN, profiling : BOOLEAN]

VARIABLES
  built,     \* the configuration the runtime was built with
  config,    \* the one in force
  previous,  \* what profile() puts back when it ends: <<>> or one configuration
  mem,       \* heap: buffers in the order of allocation; slot: the workspaces' own
  rows,      \* the executor's host copy of a schedule and the plan it is of
  stage,     \* the stage that has run last, "idle" between forwards
  plan,      \* what the stages of the current forward have produced
  results,      \* results of finished forwards
  started,   \* forwards begun
  failures   \* executors that raised

planVars == <<built, config, previous, mem, rows, stage, plan, results, started,
             failures>>

Unset == -1
Zero == 0
Slots == {"assignments", "schedule", "barriers", "topology", "packed", "weighted"}

-----------------------------------------------------------------------------
(* Buffers and views.                                                      *)

NoView == [buf |-> 0, len |-> 0]
Allocated(m, n, d) ==
  [m EXCEPT !.heap = Append(@, [dev |-> d, data |-> [i \in 1..n |-> Unset]])]
Newest(m, n) == [buf |-> Len(m.heap), len |-> n]
Capacity(m, s) == Len(m.heap[m.slot[s]].data)

\* Mutant of Ensure: a buffer is replaced unless it has exactly the size.
EnsureExact(m, s, n, d) ==
  IF m.slot[s] = 0 \/ Capacity(m, s) # n \/ m.heap[m.slot[s]].dev # d
  THEN [Allocated(m, n, d) EXCEPT !.slot[s] = Len(m.heap) + 1]
  ELSE m

\* A workspace's buffer is replaced when it is too small or on another device.
Ensure(m, s, n, d) ==
  IF m.slot[s] = 0 \/ Capacity(m, s) < n \/ m.heap[m.slot[s]].dev # d
  THEN [Allocated(m, n, d) EXCEPT !.slot[s] = Len(m.heap) + 1]
  ELSE m

\* A prefix of the workspace's buffer, or a tensor of its own.
Obtain(m, s, n, d) ==
  LET e == IF config.workspace THEN Ensure(m, s, n, d) ELSE Allocated(m, n, d)
  IN [mem |-> e,
      view |-> [buf |-> IF config.workspace THEN e.slot[s] ELSE Len(e.heap),
                len |-> n]]

Written(m, v, tag) ==
  [m EXCEPT !.heap[v.buf].data = [i \in DOMAIN @ |-> IF i <= v.len THEN tag ELSE @[i]]]
Tags(m, v) == SubSeq(m.heap[v.buf].data, 1, v.len)
Holds(m, v, tag) == \A i \in 1..v.len : m.heap[v.buf].data[i] = tag

\* A view filled with one tag, or none at all.
Filled(m, s, n, d, tag) ==
  LET o == Obtain(m, s, n, d)
  IN [mem |-> Written(o.mem, o.view, tag), view |-> o.view]
Unneeded(m) == [mem |-> m, view |-> NoView]

-----------------------------------------------------------------------------
(* What each stage obtains.                                                *)

Assignments(m) == Filled(m, "assignments", plan.size, plan.dev, plan.id)
Schedule(m) == Filled(m, "schedule", plan.size, plan.dev, plan.id)
Synchronization(m) ==
  IF config.metadata THEN Filled(m, "barriers", plan.size, plan.dev, Zero)
  ELSE Unneeded(m)
\* No policy makes dependencies: the tensors are empty either way.
Dependencies == NoView
Statistics(p) == [active |-> p.size, batches |-> p.size]
\* A world of one rank: its number and its NUMA domain are both zero.
Topology(m) ==
  IF config.metadata THEN Filled(m, "topology", 1, plan.dev, Zero) ELSE Unneeded(m)
\* The remote experts, barriers, prefetch windows and overlap of a communication
\* plan for one device are the workspace's one empty tensor.
EmptyTensor == NoView

\* Mutant of ScheduleRows: a host copy is taken for current when the tensors
\* have the storage and the size of the ones it was made of.
ScheduleRowsByStorage ==
  IF config.workspace /\ rows.plan # 0 /\ rows.view = plan.schedule THEN rows
  ELSE [plan |-> plan.id, view |-> plan.schedule,
        data |-> Tags(mem, plan.schedule)]

\* The host copy is current when it was made of the same tensor objects, which
\* every call of the scheduler makes anew.
ScheduleRows ==
  IF config.workspace /\ rows.plan = plan.id THEN rows
  ELSE [plan |-> plan.id, view |-> plan.schedule,
        data |-> Tags(mem, plan.schedule)]

Packed(m) ==
  IF config.packed THEN Obtain(m, "packed", plan.size, plan.dev) ELSE Unneeded(m)

\* Results per assignment may live in the workspace; results per token are the
\* layer's output and get a buffer of their own, zeroed.
Outputs ==
  LET p == Packed(mem)
      o == IF ~config.accumulate THEN Obtain(p.mem, "weighted", plan.size, plan.dev)
           ELSE LET a == Allocated(p.mem, plan.size, plan.dev)
                    v == Newest(a, plan.size)
                IN [mem |-> Written(a, v, Zero), view |-> v]
  IN [mem |-> o.mem, packed |-> p.view, rows |-> o.view]

\* The input is a tensor of the caller or the hidden states of the last result,
\* the output of the layer before.
InputIntact(m) ==
  plan.input = 0 \/ Holds(m, results[plan.input].hidden, results[plan.input].id)

\* What an executor computes from an input, a dispatch plan and host rows.
Computed(m, host) ==
  IF /\ InputIntact(m) /\ Holds(m, plan.assignments, plan.id)
     /\ \A i \in DOMAIN host : host[i] = plan.id
     /\ Len(host) = plan.size
  THEN plan.id ELSE Unset

-----------------------------------------------------------------------------
(* The runtime.                                                            *)

NoRows == [plan |-> 0, view |-> NoView, data |-> <<>>]
Blank(id, i, src) ==
  [id |-> id, size |-> i.size, dev |-> i.dev, input |-> src,
   assignments |-> NoView, schedule |-> NoView, barriers |-> NoView,
   dependencies |-> NoView, topology |-> NoView, local |-> NoView, remote |-> NoView,
   packed |-> NoView, rows |-> NoView, hidden |-> NoView,
   statistics |-> [active |-> 0, batches |-> 0]]

\* Between forwards nothing holds the plans but the results.
NoPlan == Blank(0, CHOOSE i \in Inputs : TRUE, 0)

PlanInit ==
  /\ built \in Builds /\ config = built /\ previous = <<>>
  /\ mem = [heap |-> <<>>, slot |-> [s \in Slots |-> 0]]
  /\ rows = NoRows /\ stage = "idle" /\ results = <<>> /\ started = 0 /\ failures = 0
  /\ plan = NoPlan

\* forward(): the context is prepared and the router runs.
Begin(i, src) ==
  /\ stage = "idle" /\ started < MaxForwards /\ Len(results) < MaxResults
  /\ started' = started + 1
  /\ plan' = Blank(started + 1, i, src)
  /\ stage' = "router"
  /\ UNCHANGED <<built, mem, rows, results, failures>>

Forward(i, src) == Begin(i, src) /\ UNCHANGED <<config, previous>>

\* profile(): a copy of the configuration with profiling on is in force until
\* the forward returns or raises.
Profile(i, src) ==
  /\ Begin(i, src)
  /\ previous' = <<config>>
  /\ config' = [config EXCEPT !.profiling = TRUE]

Restored ==
  /\ config' = IF previous = <<>> THEN config ELSE previous[1]
  /\ previous' = <<>>

Dispatch ==
  /\ stage = "router"
  /\ LET a == Assignments(mem)
     IN mem' = a.mem /\ plan' = [plan EXCEPT !.assignments = a.view]
  /\ stage' = "dispatcher"
  /\ UNCHANGED <<built, config, previous, rows, results, started, failures>>

MakeSchedule ==
  /\ stage = "dispatcher"
  /\ LET s == Schedule(mem)
         b == Synchronization(s.mem)
     IN /\ mem' = b.mem
        /\ plan' = [plan EXCEPT !.schedule = s.view, !.barriers = b.view,
                                !.dependencies = Dependencies,
                                !.statistics = Statistics(plan)]
  /\ stage' = "scheduler"
  /\ UNCHANGED <<built, config, previous, rows, results, started, failures>>

\* The local experts of the communication plan are the schedule's own queue.
PlanCommunication ==
  /\ stage = "scheduler"
  /\ LET t == Topology(mem)
     IN /\ mem' = t.mem
        /\ plan' = [plan EXCEPT !.local = plan.schedule, !.remote = EmptyTensor,
                                !.topology = t.view]
  /\ stage' = "planner"
  /\ UNCHANGED <<built, config, previous, rows, results, started, failures>>

\* The executor: the host rows, the outputs, and one write per active expert.
Execute ==
  /\ stage = "planner"
  /\ rows' = ScheduleRows
  /\ LET o == Outputs
         tag == Computed(o.mem, ScheduleRows.data)
         full == IF config.packed THEN Written(o.mem, o.packed, tag) ELSE o.mem
     IN /\ mem' = Written(full, o.rows, tag)
        /\ plan' = [plan EXCEPT !.packed = o.packed, !.rows = o.rows]
  /\ stage' = "executor"
  /\ UNCHANGED <<built, config, previous, results, started, failures>>

\* The executor raises at an expert over the limit, or of a wrong shape: before
\* it has allocated its outputs, or with the first of them written.
ExecuteRaises ==
  /\ stage = "planner" /\ failures < MaxFailures
  /\ failures' = failures + 1
  /\ rows' = ScheduleRows
  /\ \/ UNCHANGED mem
     \/ LET o == Outputs
        IN mem' = Written(o.mem, [o.rows EXCEPT !.len = 1],
                          Computed(o.mem, ScheduleRows.data))
  /\ stage' = "idle" /\ plan' = NoPlan /\ Restored
  /\ UNCHANGED <<built, results, started>>

\* Routing weights can be applied by the merger to packed outputs only.
MergerRefuses == config.weigh /\ (config.accumulate \/ ~config.packed)

\* What the merger adds up: nothing, packed rows it weighs itself, or rows.
Source == IF config.weigh THEN plan.packed ELSE plan.rows
Merged ==
  IF config.accumulate THEN [mem |-> mem, view |-> plan.rows]
  ELSE LET a == Allocated(mem, plan.size, plan.dev)
           v == Newest(a, plan.size)
           tag == IF Holds(mem, Source, plan.id) /\ Holds(mem, plan.assignments, plan.id)
                  THEN plan.id ELSE Unset
       IN [mem |-> Written(a, v, tag), view |-> v]

\* A result refers to every plan of its forward.
RuntimeOutput(hidden) == [plan EXCEPT !.hidden = hidden]

Merge ==
  /\ stage = "executor" /\ ~MergerRefuses
  /\ mem' = Merged.mem
  /\ results' = Append(results, RuntimeOutput(Merged.view))
  /\ stage' = "idle" /\ plan' = NoPlan /\ Restored
  /\ UNCHANGED <<built, rows, started, failures>>

MergeRaises ==
  /\ stage = "executor" /\ MergerRefuses
  /\ stage' = "idle" /\ plan' = NoPlan /\ Restored
  /\ UNCHANGED <<built, mem, rows, results, started, failures>>

\* A caller runs executor and merger again on the plans of a result it keeps.
\* With workspaces these are good until the next forward begins.
Lasting(p) == ~config.workspace \/ p.id = started
Reexecute(k) ==
  /\ stage = "idle" /\ Len(results) < MaxResults
  /\ Lasting(results[k])
  /\ plan' = [results[k] EXCEPT !.packed = NoView, !.rows = NoView, !.hidden = NoView]
  /\ stage' = "planner"
  /\ UNCHANGED <<built, config, previous, mem, rows, results, started, failures>>

PlanNext ==
  \/ \E i \in Inputs, src \in {0, Len(results)} :
       /\ src # 0 => results[src].size = i.size /\ results[src].dev = i.dev
       /\ Forward(i, src) \/ Profile(i, src)
  \/ Dispatch \/ MakeSchedule \/ PlanCommunication
  \/ Execute \/ ExecuteRaises \/ Merge \/ MergeRaises
  \/ \E k \in DOMAIN results : Reexecute(k)

PlanSpec == PlanInit /\ [][PlanNext]_planVars

-----------------------------------------------------------------------------
Viewed(p) == {p.assignments, p.schedule, p.barriers, p.topology, p.local,
              p.packed, p.rows, p.hidden}

\* Types; every view lies within its buffer; profile() never nests.
PlanTypeOK ==
  /\ built \in Builds
  /\ config \in {built, [built EXCEPT !.profiling = TRUE]}
  /\ previous \in {<<>>, <<built>>}
  /\ stage \in {"idle", "router", "dispatcher", "scheduler", "planner", "executor"}
  /\ mem.slot \in [Slots -> 0..Len(mem.heap)]
  /\ \A i \in DOMAIN mem.heap : \A j \in DOMAIN mem.heap[i].data :
       mem.heap[i].data[j] \in Unset..started
  /\ \A p \in {plan} \cup {results[k] : k \in DOMAIN results} : \A v \in Viewed(p) \ {NoView} :
       v.buf \in DOMAIN mem.heap /\ v.len <= Len(mem.heap[v.buf].data)
  /\ rows.plan \in 0..started /\ started \in 0..MaxForwards

\* The hidden states of a forward are its caller's: whatever later forwards,
\* failed ones, re-executions and other layers do with the workspaces, a kept
\* result holds what its own input, routing and schedule gave, also when its
\* input was the output of an earlier forward.
HiddenStatesOwned == \A k \in DOMAIN results : Holds(mem, results[k].hidden, results[k].id)

\* Without workspaces the plans a result refers to are never written again;
\* with them, not before another forward begins.
PlansLast ==
  \A k \in DOMAIN results : Lasting(results[k]) =>
    /\ Holds(mem, results[k].assignments, results[k].id)
    /\ Holds(mem, results[k].schedule, results[k].id)
    /\ Holds(mem, results[k].local, results[k].id)
    /\ Holds(mem, results[k].barriers, Zero) /\ Holds(mem, results[k].topology, Zero)

\* The host rows an executor has run over are the schedule of the plan it was
\* given, although the tensors of every plan share the workspace's storage.
RowsOfPlan ==
  stage = "executor" => rows.data = Tags(mem, plan.schedule)

\* All tensors of a forward are on the device of its input.
OnInputDevice ==
  \A v \in Viewed(plan) \ {NoView} : mem.heap[v.buf].dev = plan.dev

\* profile() leaves no trace: between forwards, also after one that raised, the
\* runtime has the configuration it was built with.
ProfileLeavesNoTrace == stage = "idle" => config = built

\* After any sequence of forwards on one device the workspaces hold exactly
\* what the largest of them needs: alternating shapes do not reallocate.
Finished == {results[k].id : k \in DOMAIN results}
Uses(s) ==
  CASE s \in {"assignments", "schedule"} -> TRUE
    [] s = "barriers" -> config.metadata
    [] s = "packed" -> config.packed
    [] s = "weighted" -> ~config.accumulate
    [] OTHER -> FALSE
WorkspaceSettles ==
  /\ stage = "idle" /\ started > 0 /\ config.workspace /\ Finished = 1..started
  /\ \A k \in DOMAIN results : results[k].dev = results[1].dev
  => \A s \in Slots : Uses(s) =>
       /\ \A k \in DOMAIN results : results[k].size <= Capacity(mem, s)
       /\ \E k \in DOMAIN results : results[k].size = Capacity(mem, s)

\* What a forward hands out stays right, and what it runs over is its own.
ResultsOwned == PlanTypeOK /\ HiddenStatesOwned /\ PlansLast /\ RowsOfPlan /\ OnInputDevice

\* Between forwards the runtime is as it was built and its workspaces settle.
RuntimeSettles == ProfileLeavesNoTrace /\ WorkspaceSettles
=============================================================================
