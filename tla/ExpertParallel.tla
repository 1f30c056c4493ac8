--------------------------- MODULE ExpertParallel ---------------------------
(***************************************************************************)
(* The ranks of a node serving one model together.  At load time each rank *)
(* builds, layer by layer, the table of who holds which expert; then every *)
(* rank runs its own forward passes, and a block takes the decode exchange *)
(* (four all-to-all collectives) or the pipeline by the size of its own    *)
(* batch.  Nothing but the collectives synchronizes the ranks.             *)
(***************************************************************************)
EXTENDS ExpertOwnership, SequencesExt

CONSTANTS
  TopK,         \* experts a token is routed to
  Layers,       \* MoE layers of the model
  Threshold,    \* ep_batch_size_threshold
  Weights,      \* bytes of the parameter that stands for an expert
  Policies,     \* communication policies: "static", "expert_parallel"
  Registries,   \* what the ranks' registries may hold: [Rank -> SUBSET Expert]
  Loads,        \* the passes ranks may serve: [Rank -> Seq(Batches)]
  Routing(_),   \* index tensors a router may return for a number of tokens
  Faults        \* what may fail at load time

\* A batch: the first dimension of hidden_states, its tokens, and whether
\* hidden_states has two dimensions (Hugging Face passes three).
Batches == [first : Nat, tokens : Nat, flat : BOOLEAN]

ASSUME ParallelAssumption ==
  /\ TopK \in Nat \ {0} /\ Layers \in Nat \ {0} /\ Threshold \in Nat
  /\ Weights \in Nat
  /\ Policies \subseteq {"static", "expert_parallel"}
  /\ \A reg \in Registries : reg \in [Rank -> SUBSET Expert]
  /\ \A load \in Loads :
     /\ load \in [Rank -> Seq(Batches)]
     /\ \A r \in Rank : \A k \in DOMAIN load[r] :
          Routing(load[r][k].tokens) \subseteq Seq(Expert)

VARIABLES
  policy,     \* planner of every block
  held,       \* experts of each rank's ExpertRegistry
  load,       \* batches each rank serves
  fault,      \* what fails at load time
  pc,         \* where each rank is
  layer,      \* the layer it bootstraps or executes
  pass,       \* the pass it executes
  comm,       \* its process group: "up", or "broken" by a collective that failed
  calls,      \* collectives it has entered
  mail,       \* parts of collectives sent by one rank to another, in order
  table,      \* GlobalExpertTable of each rank and layer
  attached,   \* layers whose block and planner have their table
  native,     \* layers whose engine has a native engine
  imported,   \* experts registered with it through their IPC handle
  requested,  \* experts prefetched into it
  tasks,      \* the planner's native scheduler: expert -> priority
  job,        \* the decode exchange under way
  plan,       \* the last communication plan
  out         \* what the last forward returned

config == <<policy, held, load, fault>>
bootVars == <<table, attached, native, imported>>
forwardVars == <<requested, tasks, job, plan, out>>
vars == <<config, pc, layer, pass, comm, calls, mail, bootVars, forwardVars>>

Layer == 1 .. Layers
Collective == {"gather", "counts", "tokens", "experts", "combine"}

NoJob == [flat |-> <<>>, recv |-> [q \in Rank |-> 0], tokens |-> <<>>]
NoPlan == [queue |-> {}, local |-> {}, remote |-> {}, transfers |-> {},
           groups |-> Groups({}), topology |-> {}]
NoOut == [pass |-> 0, layer |-> 0, exchange |-> FALSE, flat |-> <<>>, rows |-> <<>>]
EmptyMap == [e \in {} |-> 0]
ZeroRow == [act |-> <<>>, expert |-> -1, by |-> -1, layer |-> 0]

Init ==
  /\ policy \in Policies /\ held \in Registries /\ load \in Loads /\ fault \in Faults
  /\ pc = [r \in Rank |-> "init"]
  /\ layer = [r \in Rank |-> 1] /\ pass = [r \in Rank |-> 1]
  /\ comm = [r \in Rank |-> "up"] /\ calls = [r \in Rank |-> 0]
  /\ mail = [r \in Rank |-> [q \in Rank |-> <<>>]]
  /\ table = [r \in Rank |-> [l \in Layer |-> EmptyMap]]
  /\ attached = [r \in Rank |-> {}] /\ native = [r \in Rank |-> {}]
  /\ imported = [r \in Rank |-> [l \in Layer |-> {}]]
  /\ requested = [r \in Rank |-> [l \in Layer |-> {}]]
  /\ tasks = [r \in Rank |-> [l \in Layer |-> EmptyMap]]
  /\ job = [r \in Rank |-> NoJob] /\ plan = [r \in Rank |-> NoPlan]
  /\ out = [r \in Rank |-> NoOut]

-----------------------------------------------------------------------------
(* Collectives: the k-th call of a rank takes what every rank sends in its *)
(* k-th call, if that is a call of the same collective.  Nothing tells the *)
(* ranks that their k-th calls differ: an all-to-all that meets a gather   *)
(* waits for good.                                                         *)

\* A message is <<collective, what is sent>>.
Arrived(r) == \A s \in Rank : mail[s][r] # <<>>
Matched(r) == Arrived(r) /\ \A s \in Rank : Head(mail[s][r])[1] = pc[r]
Part(r) == [s \in Rank |-> Head(mail[s][r])[2]]
Waiting(r) == pc[r] \in Collective

\* r enters a collective with parts[d] for rank d.
Enter(r, kind, parts) ==
  /\ mail' = [mail EXCEPT ![r] = [d \in Rank |->
       Append(@[d], <<kind, parts[d]>>)]]
  /\ calls' = [calls EXCEPT ![r] = @ + 1]

Leave(r) ==
  /\ Matched(r)
  /\ mail' = [s \in Rank |-> [mail[s] EXCEPT ![r] = Tail(@)]]
  /\ UNCHANGED calls

\* r leaves one collective and enters the next with nothing in between.
LeaveAndEnter(r, kind, parts) ==
  /\ Matched(r)
  /\ mail' = [s \in Rank |-> [d \in Rank |->
       LET rest == IF d = r THEN Tail(mail[s][d]) ELSE mail[s][d] IN
       IF s = r THEN Append(rest, <<kind, parts[d]>>) ELSE rest]]
  /\ calls' = [calls EXCEPT ![r] = @ + 1]

-----------------------------------------------------------------------------
(* Load time.                                                              *)

\* ensure_native: the layer's engine, unless its construction fails.
EngineOf(r, l) == IF <<r, l>> \in fault.engine THEN {} ELSE {l}

\* init_process_group returns on every rank or raises on every rank; when it
\* raises, patch_model does, the blocks stay in the model without a table.
InitGroup(r) ==
  /\ pc[r] = "init"
  /\ pc' = [pc EXCEPT ![r] = IF fault.group THEN "idle" ELSE "boot"]
  /\ native' = [native EXCEPT ![r] = EngineOf(r, 1)]
  /\ UNCHANGED <<config, layer, pass, comm, calls, mail, table, attached, imported,
                 forwardVars>>

\* What the rank registers for its own experts: itself as the owner, and a
\* handle where the export succeeds.  A mapping does not say whose layer it is
\* of; "layer" stands for what its handle opens.
LocalMappings(r, l) ==
  [e \in held[r] |-> [owner |-> r, layer |-> l, bytes |-> Weights,
                      handle |-> <<r, l>> \notin fault.export]]

\* register_local_experts and the call of all_gather_object.  The call may raise
\* before anything is sent; exchange_handles swallows that, and as it only asks
\* whether there is a group, the rank gathers again for the next layer.  A
\* group that is broken raises at once.
BeginGather(r) ==
  /\ pc[r] = "boot"
  /\ LET l == layer[r] IN
     /\ native' = [native EXCEPT ![r] = @ \cup EngineOf(r, l)]
     /\ table' = [table EXCEPT ![r][l] = LocalMappings(r, l)]
     /\ IF comm[r] = "up" /\ <<r, l>> \notin fault.refused
        THEN /\ Enter(r, "gather", [d \in Rank |-> LocalMappings(r, l)])
             /\ pc' = [pc EXCEPT ![r] = "gather"]
        ELSE /\ pc' = [pc EXCEPT ![r] = "attach"]
             /\ UNCHANGED <<mail, calls>>
  /\ UNCHANGED <<config, layer, pass, comm, attached, imported, forwardVars>>

\* The first rank, in rank order, that sends a mapping of an expert the table
\* lacks supplies it.
FirstHolder(parts, e) == CHOOSE s \in Rank :
  /\ e \in DOMAIN parts[s]
  /\ \A q \in Rank : q < s => e \notin DOMAIN parts[q]

\* Mutant of Merge: a gathered mapping replaces the own one.
MergeOverwriting(own, parts) ==
  [e \in DOMAIN own \cup UNION {DOMAIN parts[s] : s \in Rank} |->
     parts[CHOOSE s \in Rank : /\ e \in DOMAIN parts[s]
                              /\ \A q \in Rank : q > s => e \notin DOMAIN parts[q]][e]]

Merge(own, parts) ==
  [e \in DOMAIN own \cup UNION {DOMAIN parts[s] : s \in Rank} |->
     IF e \in DOMAIN own THEN own[e] ELSE parts[FirstHolder(parts, e)][e]]

\* Mutant of EndGather: the gather is not waited for.
EndGatherUnawaited(r) ==
  /\ pc[r] = "gather" /\ <<r, layer[r]>> \notin fault.cut
  /\ mail' = [s \in Rank |->
       IF mail[s][r] = <<>> THEN mail[s] ELSE [mail[s] EXCEPT ![r] = Tail(@)]]
  /\ pc' = [pc EXCEPT ![r] = "attach"]
  /\ UNCHANGED <<config, layer, pass, comm, calls, bootVars, forwardVars>>

EndGather(r) ==
  /\ pc[r] = "gather" /\ <<r, layer[r]>> \notin fault.cut
  /\ Leave(r)
  /\ table' = [table EXCEPT ![r][layer[r]] = Merge(@, Part(r))]
  /\ pc' = [pc EXCEPT ![r] = "attach"]
  /\ UNCHANGED <<config, layer, pass, comm, attached, native, imported, forwardVars>>

\* The parts come and the exchange raises on them: nothing is merged.
LoseGather(r) ==
  /\ pc[r] = "gather" /\ <<r, layer[r]>> \in fault.cut
  /\ Leave(r)
  /\ pc' = [pc EXCEPT ![r] = "attach"]
  /\ UNCHANGED <<config, layer, pass, comm, bootVars, forwardVars>>

\* A peer will never take part in this gather: its group is broken, its load
\* time is over, or it is in another collective.
Loading == {"init", "boot", "gather", "attach"}
Unreachable(r) == \E s \in Rank :
  IF mail[s][r] = <<>> THEN comm[s] = "broken" \/ pc[s] \notin Loading
  ELSE Head(mail[s][r])[1] # "gather"

\* Mutant of CutGather: a collective never times out.
CutGatherNoTimeout(r) ==
  /\ pc[r] = "gather" /\ <<r, layer[r]>> \in fault.cut
  /\ comm' = [comm EXCEPT ![r] = "broken"]
  /\ pc' = [pc EXCEPT ![r] = "attach"]
  /\ UNCHANGED <<config, layer, pass, calls, mail, bootVars, forwardVars>>

\* The collective fails under way, by this rank's fault or by the time-out of a
\* gather that cannot complete.
CutGather(r) ==
  /\ pc[r] = "gather"
  /\ <<r, layer[r]>> \in fault.cut \/ Unreachable(r)
  /\ comm' = [comm EXCEPT ![r] = "broken"]
  /\ pc' = [pc EXCEPT ![r] = "attach"]
  /\ UNCHANGED <<config, layer, pass, calls, mail, bootVars, forwardVars>>

\* What register_remote_expert accepts: every expert but those whose handle the
\* engine cannot open, if there is an engine.
Registered(r, l, experts) ==
  IF l \in native[r] THEN experts \ fault.import ELSE {}

\* Remote experts with a handle go to the native engine, if there is one; the
\* table goes to the block and its planner; the next layer follows.
Importable(r, l) ==
  {e \in DOMAIN table[r][l] : table[r][l][e].owner # r /\ table[r][l][e].handle}

Attach(r) ==
  /\ pc[r] = "attach"
  /\ LET l == layer[r] IN
     /\ imported' = [imported EXCEPT ![r][l] =
          Registered(r, l, Importable(r, l))]
     /\ attached' = [attached EXCEPT ![r] = @ \cup {l}]
     /\ layer' = [layer EXCEPT ![r] = IF l < Layers THEN l + 1 ELSE 1]
     /\ pc' = [pc EXCEPT ![r] = IF l < Layers THEN "boot" ELSE "idle"]
  /\ UNCHANGED <<config, pass, comm, calls, mail, table, native, forwardVars>>

-----------------------------------------------------------------------------
(* Forward passes.                                                         *)

Serving(r) == pc[r] = "idle" /\ pass[r] <= Len(load[r])
Batch(r) == load[r][pass[r]]

\* The hybrid test: batch size, world size, and dist.is_initialized().
TakesExchange(r) ==
  Batch(r).first <= Threshold /\ WorldSize > 1 /\ ~fault.group

\* The rest of the pass, when a block has returned.
NextLayer(r) ==
  /\ layer' = [layer EXCEPT ![r] = IF @ < Layers THEN @ + 1 ELSE 1]
  /\ pass' = [pass EXCEPT ![r] = IF layer[r] < Layers THEN @ ELSE @ + 1]
  /\ pc' = [pc EXCEPT ![r] = "idle"]

\* An exception leaves the model's forward; the caller serves the next pass.
Abandon(r) ==
  /\ layer' = [layer EXCEPT ![r] = 1]
  /\ pass' = [pass EXCEPT ![r] = @ + 1]
  /\ pc' = [pc EXCEPT ![r] = "idle"]

TokenOf(i) == (i - 1) \div TopK
Activation(r, t) == <<r, pass[r], layer[r], t>>

\* The rank that computes an assignment, and the place a stable sort by that
\* rank gives it: behind all of lower ranks and the earlier ones of its own.
Target(flat, i) == BlockOwner(flat[i], NumExperts)
Place(flat, i) ==
  Cardinality({j \in DOMAIN flat :
    \/ Target(flat, j) < Target(flat, i)
    \/ Target(flat, j) = Target(flat, i) /\ j <= i})

\* The assignments in sorted order, and how many each rank gets.
Order(flat) ==
  [p \in DOMAIN flat |-> CHOOSE i \in DOMAIN flat : Place(flat, i) = p]
SendCounts(flat) ==
  [q \in Rank |-> Cardinality({i \in DOMAIN flat : Target(flat, i) = q})]

Concat(parts) == FlattenSeq([k \in 1 .. WorldSize |-> parts[k - 1]])

\* Where the rows of each rank begin, and after the last rank where they end.
Offsets(counts) ==
  LET offset[q \in 0 .. WorldSize] ==
        IF q = 0 THEN 0 ELSE offset[q - 1] + counts[q - 1]
  IN  offset

\* The part of rows that falls to rank q when counts split them.
SplitPart(rows, counts, q) ==
  SubSeq(rows, Offsets(counts)[q] + 1, Lesser(Offsets(counts)[q + 1], Len(rows)))
Split(rows, counts) == [q \in Rank |-> SplitPart(rows, counts, q)]

\* hidden_states.shape is unpacked into two names.
RefuseShape(r) ==
  /\ Serving(r) /\ TakesExchange(r) /\ ~Batch(r).flat
  /\ Abandon(r)
  /\ UNCHANGED <<config, comm, calls, mail, bootVars, forwardVars>>

\* A broken process group raises at the first collective.
RefuseExchange(r) ==
  /\ Serving(r) /\ TakesExchange(r) /\ Batch(r).flat /\ comm[r] = "broken"
  /\ Abandon(r)
  /\ UNCHANGED <<config, comm, calls, mail, bootVars, forwardVars>>

BeginExchange(r) ==
  /\ Serving(r) /\ TakesExchange(r) /\ Batch(r).flat /\ comm[r] = "up"
  /\ \E flat \in Routing(Batch(r).tokens) :
     /\ job' = [job EXCEPT ![r] = [NoJob EXCEPT !.flat = flat]]
     /\ Enter(r, "counts", SendCounts(flat))
  /\ pc' = [pc EXCEPT ![r] = "counts"]
  /\ UNCHANGED <<config, layer, pass, comm, bootVars, requested, tasks, plan, out>>

SendTokens(r) ==
  /\ pc[r] = "counts"
  /\ LET flat == job[r].flat
         rows == [j \in DOMAIN flat |-> Activation(r, TokenOf(Order(flat)[j]))] IN
     /\ LeaveAndEnter(r, "tokens", Split(rows, SendCounts(flat)))
     /\ job' = [job EXCEPT ![r].recv = Part(r)]
  /\ pc' = [pc EXCEPT ![r] = "tokens"]
  /\ UNCHANGED <<config, layer, pass, comm, bootVars, requested, tasks, plan, out>>

SendExperts(r) ==
  /\ pc[r] = "tokens"
  /\ LET flat == job[r].flat
         ids == [j \in DOMAIN flat |-> flat[Order(flat)[j]]] IN
     /\ LeaveAndEnter(r, "experts", Split(ids, SendCounts(flat)))
     /\ job' = [job EXCEPT ![r].tokens = Concat(Part(r))]
  /\ pc' = [pc EXCEPT ![r] = "experts"]
  /\ UNCHANGED <<config, layer, pass, comm, bootVars, requested, tasks, plan, out>>

\* The local experts, each on the rows that name it; other rows stay zero.
Compute(r, tokens, experts) ==
  [j \in DOMAIN tokens |->
     IF experts[j] \in Block(r, NumExperts)
     THEN [act |-> tokens[j], expert |-> experts[j], by |-> r, layer |-> layer[r]]
     ELSE ZeroRow]

\* getWeight raises KeyError for an expert the registry lacks.
Unregistered(r, experts) == ~(experts \subseteq held[r])

Missing(r, experts) ==
  Unregistered(r, Range(experts) \cap Block(r, NumExperts))

\* Mutant of SendBack: the combine reuses the split sizes of the dispatch.
SendBackUnreversed(r) ==
  /\ pc[r] = "experts" /\ Matched(r) /\ ~Missing(r, Concat(Part(r)))
  /\ LeaveAndEnter(r, "combine",
       Split(Compute(r, job[r].tokens, Concat(Part(r))), SendCounts(job[r].flat)))
  /\ pc' = [pc EXCEPT ![r] = "combine"]
  /\ UNCHANGED <<config, layer, pass, comm, bootVars, forwardVars>>

SendBack(r) ==
  /\ pc[r] = "experts" /\ Matched(r) /\ ~Missing(r, Concat(Part(r)))
  /\ LeaveAndEnter(r, "combine",
       Split(Compute(r, job[r].tokens, Concat(Part(r))), job[r].recv))
  /\ pc' = [pc EXCEPT ![r] = "combine"]
  /\ UNCHANGED <<config, layer, pass, comm, bootVars, forwardVars>>

\* A rank that leaves an exchange its peers are in serves no other pass.
MissExpert(r) ==
  /\ pc[r] = "experts" /\ Matched(r) /\ Missing(r, Concat(Part(r)))
  /\ Leave(r)
  /\ layer' = [layer EXCEPT ![r] = 1]
  /\ pass' = [pass EXCEPT ![r] = Len(load[r]) + 1]
  /\ pc' = [pc EXCEPT ![r] = "idle"]
  /\ job' = [job EXCEPT ![r] = NoJob]
  /\ UNCHANGED <<config, comm, bootVars, requested, tasks, plan, out>>

\* Mutant of EndExchange: the sort is not undone.
EndExchangeUnsorted(r) ==
  /\ pc[r] = "combine"
  /\ Leave(r)
  /\ LET rows == Concat(Part(r)) IN
     out' = [out EXCEPT ![r] =
       [pass |-> pass[r], layer |-> layer[r], exchange |-> TRUE, flat |-> job[r].flat,
        rows |-> [j \in DOMAIN rows |-> [assignment |-> j, value |-> rows[j]]]]]
  /\ job' = [job EXCEPT ![r] = NoJob]
  /\ NextLayer(r)
  /\ UNCHANGED <<config, comm, bootVars, requested, tasks, plan>>

\* Row j of what returns belongs to the j-th assignment of the sorted order.
EndExchange(r) ==
  /\ pc[r] = "combine"
  /\ Leave(r)
  /\ LET flat == job[r].flat
         rows == Concat(Part(r)) IN
     out' = [out EXCEPT ![r] =
       [pass |-> pass[r], layer |-> layer[r], exchange |-> TRUE, flat |-> flat,
        rows |-> [j \in DOMAIN rows |->
                    [assignment |-> Order(flat)[j], value |-> rows[j]]]]]
  /\ job' = [job EXCEPT ![r] = NoJob]
  /\ NextLayer(r)
  /\ UNCHANGED <<config, comm, bootVars, requested, tasks, plan>>

-----------------------------------------------------------------------------
(* The pipeline: the planner classifies, the block prefetches and waits,   *)
(* the executor runs local experts only.                                   *)

StaticPlan(queue) ==
  [queue |-> queue, local |-> queue, remote |-> {}, transfers |-> {},
   groups |-> Groups({}), topology |-> {}]

ParallelPlan(r, l, queue) ==
  LET n == Cardinality(queue)
      known == l \in attached[r]
      t == table[r][l]
      remote == RemoteIds(r, known, t, n)
      transfers == UNION {Transfers(r, Owner(known, t, e, n), e,
                                    ExpertBytes(known, t, e), Priority(remote, e, n)) :
                          e \in remote} IN
  [queue |-> queue, local |-> LocalIds(r, known, t, n), remote |-> remote,
   transfers |-> transfers, groups |-> Groups(transfers), topology |-> {Topology}]

\* The planner's scheduler keeps the task an expert already has; nothing
\* takes tasks from it.
Submit(queue, remote, n) ==
  [e \in DOMAIN queue \cup remote |->
     IF e \in DOMAIN queue THEN queue[e] ELSE Priority(remote, e, n)]

BeginPipeline(r) ==
  /\ Serving(r) /\ ~TakesExchange(r)
  /\ \E flat \in Routing(Batch(r).tokens) :
     LET l == layer[r]
         queue == {flat[i] : i \in DOMAIN flat}
         p == IF policy = "static" THEN StaticPlan(queue)
              ELSE ParallelPlan(r, l, queue) IN
     /\ job' = [job EXCEPT ![r].flat = flat]
     /\ plan' = [plan EXCEPT ![r] = p]
     /\ tasks' = [tasks EXCEPT ![r][l] = Submit(@, p.remote, Cardinality(queue))]
     /\ requested' = [requested EXCEPT ![r][l] =
          IF l \in native[r] THEN @ \cup p.remote ELSE @]
  /\ pc' = [pc EXCEPT ![r] = "execute"]
  /\ UNCHANGED <<config, layer, pass, comm, calls, mail, bootVars, out>>

\* The engine's wait raises for an expert it was never given; the executor
\* refuses a plan with remote experts; getWeight raises for a missing one.
WaitFails(r) ==
  layer[r] \in native[r] /\ ~(plan[r].remote \subseteq imported[r][layer[r]])
RefusesPlan(p) == p.remote # {}

Refused(r) ==
  WaitFails(r) \/ RefusesPlan(plan[r]) \/ Unregistered(r, plan[r].queue)

RaiseInPipeline(r) ==
  /\ pc[r] = "execute" /\ Refused(r)
  /\ Abandon(r)
  /\ job' = [job EXCEPT ![r] = NoJob]
  /\ UNCHANGED <<config, comm, calls, mail, bootVars, requested, tasks, plan, out>>

EndPipeline(r) ==
  /\ pc[r] = "execute" /\ ~Refused(r)
  /\ LET flat == job[r].flat IN
     out' = [out EXCEPT ![r] =
       [pass |-> pass[r], layer |-> layer[r], exchange |-> FALSE, flat |-> flat,
        rows |-> [i \in DOMAIN flat |->
          [assignment |-> i,
           value |-> [act |-> Activation(r, TokenOf(i)), expert |-> flat[i],
                      by |-> r, layer |-> layer[r]]]]]]
  /\ job' = [job EXCEPT ![r] = NoJob]
  /\ NextLayer(r)
  /\ UNCHANGED <<config, comm, calls, mail, bootVars, requested, tasks, plan>>

-----------------------------------------------------------------------------
Boot(r) ==
  \/ InitGroup(r) \/ BeginGather(r) \/ EndGather(r) \/ LoseGather(r)
  \/ CutGather(r) \/ Attach(r)

Exchange(r) ==
  \/ RefuseShape(r) \/ RefuseExchange(r) \/ BeginExchange(r) \/ SendTokens(r)
  \/ SendExperts(r) \/ SendBack(r) \/ MissExpert(r) \/ EndExchange(r)

Pipeline(r) == BeginPipeline(r) \/ RaiseInPipeline(r) \/ EndPipeline(r)

RankStep(r) == Boot(r) \/ Exchange(r) \/ Pipeline(r)

Next == \E r \in Rank : RankStep(r)

Spec == Init /\ [][Next]_vars

\* Each rank is a process of its own whose thread never rests while its next
\* step is possible.
FairSpec == Spec /\ \A r \in Rank : WF_vars(RankStep(r))

-----------------------------------------------------------------------------
(* Properties.                                                             *)

Ended(r) == pc[r] = "idle" /\ pass[r] > Len(load[r])

IsMapping(m) ==
  /\ m.owner \in Rank /\ m.layer \in Layer
  /\ m.bytes \in Nat /\ m.handle \in BOOLEAN

\* Types of the ranks' state.
TypeOK ==
  /\ policy \in Policies /\ held \in Registries /\ load \in Loads
  /\ \A r \in Rank :
     /\ pc[r] \in Collective \cup {"init", "boot", "attach", "idle", "execute"}
     /\ layer[r] \in Layer /\ pass[r] \in 1 .. Len(load[r]) + 1
     /\ comm[r] \in {"up", "broken"} /\ calls[r] \in Nat
     /\ attached[r] \subseteq Layer /\ native[r] \subseteq Layer
     /\ \A l \in Layer :
        /\ DOMAIN table[r][l] \subseteq Expert
        /\ \A e \in DOMAIN table[r][l] : IsMapping(table[r][l][e])
        /\ imported[r][l] \subseteq Expert /\ requested[r][l] \subseteq Expert
        /\ DOMAIN tasks[r][l] \subseteq Expert
     /\ plan[r].local \subseteq Expert /\ plan[r].remote \subseteq Expert

\* The gathers a rank enters up to a layer; whether all ranks enter as many.
Gathered(r, l) == Cardinality({x \in 1 .. l : <<r, x>> \notin fault.refused})
InStep == \A r, s \in Rank : Gathered(r, Layers) = Gathered(s, Layers)

\* A table never places an expert on a rank that does not hold it, nor its own
\* experts elsewhere, and a handle is one its owner exported.  It is of the
\* layer whose gather is the owner's n-th, where the rank's own for its layer is
\* the n-th: of the same layer, if no rank skips a gather (exchange_handles,
\* whatever fails).
TableSound ==
  \A r \in Rank, l \in Layer : \A e \in DOMAIN table[r][l] :
    LET m == table[r][l][e] IN
    /\ e \in held[m.owner]
    /\ (m.owner = r) <=> (e \in held[r])
    /\ m.handle => <<m.owner, m.layer>> \notin fault.export
    /\ Gathered(m.owner, m.layer) = Gathered(r, l)
    /\ fault.refused = {} => m.layer = l

\* While the group is up, the table of a layer whose exchange raised nothing
\* knows every expert any rank holds; and only remote experts of the table are
\* registered for streaming.
TablesComplete ==
  \A r \in Rank : \A l \in attached[r] :
    /\ comm[r] = "up" /\ <<r, l>> \notin fault.refused \cup fault.cut =>
         DOMAIN table[r][l] = UNION {held[s] : s \in Rank}
    /\ imported[r][l] \subseteq DOMAIN table[r][l] \ held[r]

\* The adapter's documentation: the handle exchange runs per layer, so that the
\* table of a layer holds the handles of that layer (_bootstrap_distributed).
HandlesOfLayer ==
  \A r \in Rank, l \in Layer : \A e \in DOMAIN table[r][l] : table[r][l][e].layer = l

\* The registries cover the even partition the decode exchange computes by.
Covers == \A r \in Rank : Block(r, NumExperts) \subseteq held[r]

\* Ranks that skipped equally many gathers never meet in different collectives,
\* even when they disagree which of their passes are exchanges; and whoever
\* skipped, parts of one collective have the rows its split sizes announce.
SplitsAgree ==
  \A r \in Rank : Waiting(r) /\ Arrived(r) =>
    /\ InStep => Matched(r)
    /\ Matched(r) => \A s \in Rank :
         LET rows == Part(r)[s] IN
         /\ pc[r] \in {"tokens", "experts"} => Len(rows) = job[r].recv[s]
         /\ pc[r] = "combine" => Len(rows) = SendCounts(job[r].flat)[s]

\* A forward that returns gives every assignment of every token the result of
\* its expert, of this layer, on this rank's activation: by the rank that owns
\* the expert in the exchange, by this one in the pipeline.
OutputsRight ==
  \A r \in Rank :
    LET o == out[r] IN
    /\ {o.rows[j].assignment : j \in DOMAIN o.rows} = DOMAIN o.flat
    /\ Len(o.rows) = Len(o.flat)
    /\ \A j \in DOMAIN o.rows :
       LET i == o.rows[j].assignment IN
       o.rows[j].value =
         [act |-> <<r, o.pass, o.layer, TokenOf(i)>>, expert |-> o.flat[i],
          by |-> IF o.exchange THEN BlockOwner(o.flat[i], NumExperts) ELSE r,
          layer |-> o.layer]

\* With every expert in every registry, as the adapter builds them, no table
\* an exchange leaves, complete or not, makes the executor refuse a plan.
FullRegistryServes ==
  (\A r \in Rank : held[r] = Expert) =>
    \A r \in Rank : pc[r] = "execute" /\ (policy = "static" \/ attached[r] = Layer) =>
      ~Refused(r)

\* The slices of a planned transfer cover the expert's bytes once each: those
\* its layer's table gives it when the plan is made.
SlicesTile ==
  \A r \in Rank : pc[r] = "execute" => \A e \in plan[r].remote :
    LET slices == {t \in plan[r].transfers : t.expert = e}
        bytes(t) == t.start .. t.start + t.count - 1 IN
    /\ \A t, u \in slices : t # u => bytes(t) \cap bytes(u) = {}
    /\ UNION {bytes(t) : t \in slices} =
         0 .. ExpertBytes(layer[r] \in attached[r], table[r][layer[r]], e) - 1

\* The ranks' collectives are a rendezvous: a rank leaves its k-th only after
\* every rank entered its k-th.
Finished == [r \in Rank |->
  IF Waiting(r) \/ comm[r] = "broken" THEN calls[r] - 1 ELSE calls[r]]
Collectives == INSTANCE Rendezvous WITH
  Party <- Rank, entered <- calls, left <- Finished
RanksRendezvous == Collectives!RendezvousSpec

\* The ranks make the same choice in every pass and nothing failed.
Takes(b) == b.first <= Threshold /\ b.flat
Agreed ==
  /\ ~fault.group /\ fault.refused = {} /\ fault.cut = {} /\ Covers
  /\ \A r, s \in Rank :
     /\ Len(load[r]) = Len(load[s])
     /\ \A k \in DOMAIN load[r] : Takes(load[r][k]) <=> Takes(load[s][k])

\* Ranks that agree serve all their passes; a rank none of whose passes is an
\* exchange serves them whatever the others do, as a gather a peer never
\* enters ends in an exception.
PassesEnd ==
  \A r \in Rank :
    Agreed \/ (\A k \in DOMAIN load[r] : ~Takes(load[r][k])) ~> Ended(r)

\* The ranks' tables are sound and as complete as their exchanges were.
RanksConsistent == TypeOK /\ TableSound /\ TablesComplete

\* A plan can be executed, and its transfers are whole.
PlansSound == FullRegistryServes /\ SlicesTile
=============================================================================
