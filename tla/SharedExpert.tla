---------------------------- MODULE SharedExpert ----------------------------
(***************************************************************************)
(* The shared expert of a Qwen MoE layer runs on the compute stream of the *)
(* context all layers share while the routed experts run on the current    *)
(* stream.  The host only issues work: it is layers ahead of the device,   *)
(* and a tensor it drops goes back to the allocator, which hands it out    *)
(* again to the same stream without waiting for anything.                  *)
(*                                                                         *)
(* A tensor is a block of memory; its contents say for which pass and      *)
(* layer, and what, they were computed.  Inference: autograd keeps nothing *)
(* alive.  The current device is that of the first layer, as device_map    *)
(* and initialize_distributed leave it.                                    *)
(***************************************************************************)
EXTENDS StreamOrder

CONSTANTS
  Layers,      \* layers of the model
  Device,      \* CUDA devices
  Compute,     \* the compute stream of the context
  Placements,  \* where the layers may be: functions from layers to devices
  Blocks,      \* blocks of memory
  None,        \* no device, block, stream or answer
  MaxPasses    \* bound: forward passes

ASSUME SharedExpertAssumption ==
  /\ Layers \in Nat \ {0} /\ MaxPasses \in Nat
  /\ Compute \notin Device /\ Device \cup {Compute} \subseteq Stream
  /\ Placements \subseteq [1..Layers -> Device]
  /\ None \notin Blocks \cup Stream

VARIABLES
  place,     \* device of each layer
  enabled,   \* config.enable_cuda_streams
  bound,     \* the device the stream pair was allocated on, or none
  pass,      \* passes begun
  layer,     \* the layer the host is in, 0 between passes
  phase,     \* how far the host is in that layer
  hidden, routed, shared,  \* the host's tensors
  pool,      \* block -> the stream it was allocated on, or none
  content,   \* block -> what is in it
  lost,      \* passes that ended in an exception
  answers    \* pass -> what the caller read

hostVars == <<place, enabled, bound, pass, layer, phase, hidden, routed, shared>>
overlapVars == <<hostVars, pool, content, lost, answers, streamVars>>

Value(kind, p, l) == <<kind, p, l>>
Junk == Value("junk", 0, 0)

\* What kernels make of what they find.
SharedOf(h) == IF h[1] = "hidden" THEN Value("shared", h[2], h[3]) ELSE Junk
RoutedOf(h) == IF h[1] = "hidden" THEN Value("routed", h[2], h[3]) ELSE Junk
SumOf(r, s) == IF r[1] = "routed" /\ s = Value("shared", r[2], r[3])
               THEN Value("sum", r[2], r[3]) ELSE Junk
AfterLayer(s) == IF s[1] = "sum" THEN Value("hidden", s[2], s[3] + 1) ELSE Junk

OverlapInit ==
  /\ place \in Placements /\ enabled \in BOOLEAN /\ bound = None
  /\ pass = 0 /\ layer = 0 /\ phase = "between"
  /\ hidden = None /\ routed = None /\ shared = None
  /\ pool = [b \in Blocks |-> None] /\ content = [b \in Blocks |-> Junk]
  /\ lost = {} /\ answers = [p \in 1..MaxPasses |-> None]
  /\ StreamsInit

-----------------------------------------------------------------------------
\* The caching allocator: a free block of the stream's own if there is one.
Held == {hidden, routed, shared}
\* Running out of memory is not modelled: the host then gets no further.
Fresh(taken) == {b \in Blocks \ taken : pool[b] = None}
Allocatable(s, taken) ==
  LET own == {b \in Blocks \ (Held \cup taken) : pool[b] = s}
  IN  IF own # {} THEN own
      ELSE IF Fresh(taken) # {} THEN {CHOOSE b \in Fresh(taken) : TRUE} ELSE {}
Candidates(s) == Allocatable(s, {})
OwnedBy(b, s) == [pool EXCEPT ![b] = s]

Here == place[layer]
Current == place[1]

\* ensure: the pair is allocated once, for the first CUDA device that asks.
Ensured(d) == IF bound # None THEN bound ELSE IF enabled THEN d ELSE None

\* A stream context redirects only the work of its own device.
SharedRunsOn(l, b) == IF b = place[l] THEN Compute ELSE place[l]

\* What the embedding (or the layer before) left; the pass starts.
BeginPass ==
  /\ phase = "between" /\ pass < MaxPasses
  /\ \E b \in Candidates(place[1]) :
       /\ pool' = OwnedBy(b, place[1]) /\ hidden' = b
       /\ Issue(place[1], <<Work(Value("hidden", pass + 1, 1), "embed", {}, {b})>>)
  /\ pass' = pass + 1 /\ layer' = 1 /\ phase' = "layer"
  /\ UNCHANGED <<place, enabled, bound, routed, shared, content, lost, answers>>

\* Mutant of Launch: the compute stream does not wait for the current one.
LaunchUnordered ==
  /\ phase = "layer" /\ phase' = "launched"
  /\ bound' = Ensured(Here)
  /\ IF bound' = None
     THEN UNCHANGED <<shared, pool, streamVars>>
     ELSE LET s == SharedRunsOn(layer, bound') IN
          \E b \in Candidates(s) :
            /\ pool' = OwnedBy(b, s) /\ shared' = b
            /\ Issue(s, <<Work(Value("shared", pass, layer), "shared", {hidden}, {b})>>)
  /\ UNCHANGED <<place, enabled, pass, layer, hidden, routed, content, lost, answers>>

\* prepare_for and _launch_shared_expert.
Launch ==
  /\ phase = "layer" /\ phase' = "launched"
  /\ bound' = Ensured(Here)
  /\ IF bound' = None
     THEN UNCHANGED <<shared, pool, streamVars>>
     ELSE LET s == SharedRunsOn(layer, bound')
              wait == <<WaitFor(Current, Issued(Current))>>
              run(b) == <<Work(Value("shared", pass, layer), "shared", {hidden}, {b})>>
          IN \E b \in Candidates(s) :
               /\ pool' = OwnedBy(b, s) /\ shared' = b
               /\ pending' = [t \in Stream |->
                    pending[t] \o (IF t = Compute THEN wait ELSE <<>>)
                               \o (IF t = s THEN run(b) ELSE <<>>)]
               /\ UNCHANGED ran
  /\ UNCHANGED <<place, enabled, pass, layer, hidden, routed, content, lost, answers>>

\* Router to merger, on the current stream; the result is in a workspace.
Route ==
  /\ phase = "launched" /\ phase' = "routed"
  /\ \E b \in Candidates(Here) :
       /\ pool' = OwnedBy(b, Here) /\ routed' = b
       /\ Issue(Here, <<Work(Value("routed", pass, layer), "routed", {hidden}, {b})>>)
  /\ UNCHANGED <<place, enabled, bound, pass, layer, hidden, shared, content, lost, answers>>

\* The pipeline raises: the host lets go of everything, the streams do not.
RaiseInRoute ==
  /\ phase = "launched" /\ phase' = "between" /\ layer' = 0
  /\ hidden' = None /\ routed' = None /\ shared' = None
  /\ lost' = lost \cup {pass}
  /\ UNCHANGED <<place, enabled, bound, pass, pool, content, answers, streamVars>>

\* The combination, and the tensor the next layer starts from.
Combine(sum, b) ==
  <<Work(Value("sum", pass, layer), "sum", {routed, sum}, {routed}),
    Work(Value("hidden", pass, layer + 1), "after", {routed}, {b})>>

\* _add_shared_expert after an overlapped launch: the current stream waits.
AddShared ==
  /\ phase = "routed" /\ shared # None /\ phase' = "added"
  /\ \E b \in Candidates(Here) :
       /\ pool' = OwnedBy(b, Here) /\ hidden' = b
       /\ pending' = [t \in Stream |->
            pending[t] \o (IF t = Current THEN <<WaitFor(Compute, Issued(Compute))>> ELSE <<>>)
                       \o (IF t = Here THEN Combine(shared, b) ELSE <<>>)]
       /\ UNCHANGED ran
  /\ shared' = None /\ routed' = None
  /\ UNCHANGED <<place, enabled, bound, pass, layer, content, lost, answers>>

\* _add_shared_expert without streams computes the shared expert in line.
AddInLine ==
  /\ phase = "routed" /\ shared = None /\ phase' = "added"
  /\ \E c \in Candidates(Here) : \E b \in Allocatable(Here, {c}) :
       /\ pool' = [pool EXCEPT ![b] = Here, ![c] = Here] /\ hidden' = b
       /\ Issue(Here, <<Work(Value("shared", pass, layer), "shared", {hidden}, {c})>>
                        \o Combine(c, b))
  /\ routed' = None
  /\ UNCHANGED <<place, enabled, bound, pass, layer, shared, content, lost, answers>>

\* The next layer; between devices the tensor is copied, in order with both.
NextLayer ==
  /\ phase = "added" /\ layer < Layers
  /\ layer' = layer + 1 /\ phase' = "layer"
  /\ LET there == place[layer + 1] IN
     IF there = Here THEN UNCHANGED <<hidden, pool, streamVars>>
     ELSE \E b \in Candidates(there) :
            /\ hidden' = b /\ pool' = OwnedBy(b, there)
            /\ pending' = [pending EXCEPT
                 ![Here] = @ \o <<WaitFor(there, Issued(there)),
                                  Work(Value("hidden", pass, layer + 1), "move", {hidden}, {b})>>,
                 ![there] = Append(@, WaitFor(Here, Issued(Here) + 2))]
            /\ UNCHANGED ran
  /\ UNCHANGED <<place, enabled, bound, pass, routed, shared, content, lost, answers>>

\* Reading the result waits for the stream it is computed on.
Answer ==
  /\ phase = "added" /\ layer = Layers /\ Drained(Here)
  /\ answers' = [answers EXCEPT ![pass] = content[hidden]]
  /\ hidden' = None /\ layer' = 0 /\ phase' = "between"
  /\ UNCHANGED <<place, enabled, bound, pass, routed, shared, pool, content, lost, streamVars>>

\* What an operation finds when it runs, and what it leaves.
TheBlock(S) == CHOOSE b \in S : TRUE
Effect(op) ==
  LET from == TheBlock(op.reads)
      to == TheBlock(op.writes)
  IN [content EXCEPT ![to] =
       CASE op.do = "embed"  -> op.by
         [] op.do = "move"   -> content[from]
         [] op.do = "shared" -> SharedOf(content[from])
         [] op.do = "routed" -> RoutedOf(content[from])
         [] op.do = "after"  -> AfterLayer(content[from])
         [] op.do = "sum"    -> SumOf(content[to], content[TheBlock(op.reads \ op.writes)])]

DeviceRuns(s) ==
  /\ RunOne(s)
  /\ content' = IF Waits(s) THEN content ELSE Effect(Front(s))
  /\ UNCHANGED <<hostVars, pool, lost, answers>>

OverlapNext ==
  \/ BeginPass \/ Launch \/ Route \/ RaiseInRoute \/ AddShared \/ AddInLine
  \/ NextLayer \/ Answer
  \/ \E s \in Stream : DeviceRuns(s)

OverlapSpec == OverlapInit /\ [][OverlapNext]_overlapVars

-----------------------------------------------------------------------------
\* Types; between passes the host holds no tensor of a pass.
OverlapTypeOK ==
  /\ bound \in Device \cup {None} /\ layer \in 0..Layers /\ pass \in 0..MaxPasses
  /\ phase \in {"between", "layer", "launched", "routed", "added"}
  /\ Held \subseteq Blocks \cup {None}
  /\ phase = "between" => Held = {None}
  /\ pool \in [Blocks -> Stream \cup {None}]

\* Whatever the host is ahead by and however memory is reused, a pass that ends
\* returns what the last layer computed from the layers before it, each of which
\* added its own shared output to its own routed output.
OverlapRight ==
  \A p \in 1..MaxPasses :
    answers[p] # None => answers[p] = Value("hidden", p, Layers + 1)

\* No operation writes a block that another of a pass still wanted may be using
\* at that moment; only the work of a pass that raised may read what is reused.
NoOverlapClash ==
  \A s, t \in Stream :
    Clash(s, t) => /\ Front(t).by[2] \in lost
                   /\ Front(s).writes \cap Front(t).writes = {}

\* Shared and routed experts overlap safely: values, and memory given away under
\* a kernel.
OverlapSafe == OverlapTypeOK /\ OverlapRight /\ NoOverlapClash
=============================================================================
