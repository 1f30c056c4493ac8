------------------------------ MODULE Serving -------------------------------
(***************************************************************************)
(* Adapters over one Hugging Face model: patching its MoE layers with DWDP *)
(* blocks and restoring them, and forward passes through whatever sits in  *)
(* the layers, whose executors may convert the model's own weights to FP8. *)
(* One thread does it all; a pass goes layer by layer.                     *)
(***************************************************************************)
EXTENDS Integers, Sequences, Functions

CONSTANTS
  Layers,      \* MoE layers of the model
  Experts,     \* experts of a layer
  Adapters,    \* adapter objects that may be made
  Configs,     \* executor_backend of each adapter: [Adapters -> Backend]
  Devices,     \* what the installation offers: [cuda, fp8, tma : BOOLEAN]
  Unbooted,    \* adapters whose distributed bootstrap raises
  BatchShapes, \* shapes of hidden_states
  MaxPasses,   \* bound: forward passes
  MaxPatches   \* bound: calls of patch_model that do something

Backend == {"pytorch", "triton", "triton_fp8", "triton_fp8_tma"}
Layer == 1 .. Layers
Expert == 1 .. Experts

\* The weights of a layer in the order they are converted: the gate
\* projections of all experts, the up projections, the down projections.
Weight == 1 .. 3 * Experts
GateUp == 1 .. 2 * Experts
Of(e) == {e, Experts + e, 2 * Experts + e}

ASSUME ServingAssumption ==
  /\ Layers \in Nat \ {0} /\ Experts \in Nat \ {0}
  /\ Configs \subseteq [Adapters -> Backend] /\ "native" \notin Adapters
  /\ \A d \in Devices : (d.fp8 => d.cuda) /\ (d.tma => d.fp8)
  /\ MaxPasses \in Nat /\ MaxPatches \in Nat

VARIABLES
  backend, device,
  weights,      \* layer -> weight -> "native" or "fp8"
  slot,         \* what sits in each layer: "native" or an adapter's block
  records,      \* adapter -> what its patcher has replaced, in order
  made,         \* adapter -> "no", "held" by its caller, or "lost" to it
  cache,        \* adapter -> layer -> expert -> formats its FP8 copies come from
  runners,      \* adapter -> layers whose block has a graph runner
  uncaptured,   \* adapter -> layer -> shapes whose capture failed
  at,           \* the layer the pass under way is in, 0 outside a pass
  shape,        \* the shape of its batch
  ran,          \* layers it has run: by whom, how, on weights in what formats
  cut,          \* whether a conversion was ever interrupted
  passes, patches

servingConfig == <<backend, device>>
blockVars == <<cache, runners, uncaptured>>
passVars == <<at, shape, ran, passes>>
servingVars == <<servingConfig, weights, slot, records, made, blockVars, passVars,
                 cut, patches>>

NoEntries == [e \in {} |-> {}]

ServingInit ==
  /\ backend \in Configs /\ device \in Devices
  /\ weights = [l \in Layer |-> [w \in Weight |-> "native"]]
  /\ slot = [l \in Layer |-> "native"]
  /\ records = [a \in Adapters |-> <<>>]
  /\ made = [a \in Adapters |-> "no"]
  /\ cache = [a \in Adapters |-> [l \in Layer |-> NoEntries]]
  /\ runners = [a \in Adapters |-> {}]
  /\ uncaptured = [a \in Adapters |-> [l \in Layer |-> {}]]
  /\ at = 0 /\ shape \in BatchShapes /\ ran = <<>> /\ passes = 0
  /\ cut = FALSE /\ patches = 0

Formats(l, ws) == {weights[l][w] : w \in ws}

-----------------------------------------------------------------------------
(* Patching and restoring.                                                 *)

\* A layer that holds a block is not discovered: the block has no experts.
Discovered ==
  LET found[l \in 0 .. Layers] ==
        IF l = 0 THEN <<>>
        ELSE IF slot[l] = "native" THEN Append(found[l - 1], l) ELSE found[l - 1]
  IN  found[Layers]

\* The Triton executors build views of the weights, which refuse projections
\* in more than one format, and gates in another format than ups; the downs
\* are not compared with them.
Buildable(a, l) ==
  backend[a] = "pytorch" \/
    /\ Formats(l, GateUp) \in {{"native"}, {"fp8"}}
    /\ Formats(l, Weight \ GateUp) \in {{"native"}, {"fp8"}}

\* The layers replaced before the first one whose block cannot be built.
Replaced(a) ==
  LET built == {n \in 0 .. Len(Discovered) :
                  \A i \in 1 .. n : Buildable(a, Discovered[i])} IN
  SubSeq(Discovered, 1, CHOOSE n \in built : \A m \in built : m <= n)

\* patch_model of an adapter its caller holds, or makes for the call: wrapped
\* by create_runtime of the base adapter, it is lost when the call raises.
\* Blocks replaced before an exception stay in the model.
Install(a, wrapped) ==
  /\ Discovered # <<>>
  /\ LET done == Replaced(a)
         raises == done # Discovered \/ a \in Unbooted IN
     /\ slot' = [l \in Layer |-> IF l \in Range(done) THEN a ELSE slot[l]]
     /\ records' = [records EXCEPT ![a] =
          [i \in DOMAIN done |-> [layer |-> done[i], original |-> slot[done[i]]]]]
     /\ made' = [made EXCEPT ![a] = IF raises /\ wrapped THEN "lost" ELSE "held"]
  /\ patches' = patches + 1
  /\ UNCHANGED <<servingConfig, weights, blockVars, passVars, cut>>

\* Mutant of PatchModel: an adapter that has records patches again.
PatchModelAgain(a) ==
  /\ at = 0 /\ patches < MaxPatches /\ made[a] # "lost"
  /\ Install(a, FALSE)

PatchModel(a) ==
  /\ at = 0 /\ patches < MaxPatches /\ made[a] # "lost"
  /\ records[a] = <<>>
  /\ Install(a, FALSE)

Wrap(a) ==
  /\ at = 0 /\ patches < MaxPatches /\ made[a] = "no"
  /\ Install(a, TRUE)

\* A model without a discoverable layer is refused, whoever holds it.
RefusePatch(a) ==
  /\ at = 0 /\ made[a] = "no" /\ Discovered = <<>>
  /\ \E fate \in {"held", "lost"} : made' = [made EXCEPT ![a] = fate]
  /\ UNCHANGED <<servingConfig, weights, slot, records, blockVars, passVars, cut, patches>>

\* The records are undone last first; the blocks go with what they cached.
RestoreModel(a) ==
  /\ at = 0 /\ made[a] = "held" /\ records[a] # <<>>
  /\ slot' = [l \in Layer |->
       LET mine == {i \in DOMAIN records[a] : records[a][i].layer = l} IN
       IF mine = {} THEN slot[l]
       ELSE records[a][CHOOSE i \in mine : \A j \in mine : i <= j].original]
  /\ records' = [records EXCEPT ![a] = <<>>]
  /\ cache' = [cache EXCEPT ![a] = [l \in Layer |-> NoEntries]]
  /\ runners' = [runners EXCEPT ![a] = {}]
  /\ uncaptured' = [uncaptured EXCEPT ![a] = [l \in Layer |-> {}]]
  /\ UNCHANGED <<servingConfig, weights, made, passVars, cut, patches>>

\* Every block of the adapter gets a new runner.
EnableGraphs(a) ==
  /\ at = 0 /\ made[a] = "held" /\ records[a] # <<>> /\ device.cuda
  /\ runners' = [runners EXCEPT ![a] = {records[a][i].layer : i \in DOMAIN records[a]}]
  /\ uncaptured' = [uncaptured EXCEPT ![a] = [l \in Layer |-> {}]]
  /\ UNCHANGED <<servingConfig, weights, slot, records, made, cache, passVars, cut,
                 patches>>

-----------------------------------------------------------------------------
(* One run of a block's pipeline on the experts q: the weights and the     *)
(* cached copies it leaves, and, if it returns, the formats it computed on.*)

Mode(a) ==
  CASE backend[a] = "pytorch" -> "reference"
    [] backend[a] = "triton_fp8_tma" /\ device.tma -> "tma"
    [] backend[a] = "triton_fp8" /\ ~device.fp8 -> "refuse"
    [] device.fp8 -> "fp8"
    [] device.cuda -> "kernel"
    [] OTHER -> "reference"

Result(l, ok, w, c, formats) ==
  [ok |-> ok, weights |-> w, cache |-> c, formats |-> formats]

\* Torch multiplies activations with weights of their own type only.
Plain(l, c, used) ==
  LET formats == Formats(l, used) IN
  {Result(l, formats = {"native"}, weights[l], c, formats)}

\* Mutant of Convert: only the gate projections are converted.
ConvertGates(l, c, used) ==
  LET upTo(n) == [w \in Weight |-> IF w <= n THEN "fp8" ELSE weights[l][w]] IN
  {Result(l, TRUE, upTo(Experts), c, {"fp8"})}

\* In place, once: FP8 in all weights is left alone, FP8 in some is refused, and
\* memory may run out after any weight.
Convert(l, c, used) ==
  LET upTo(n) == [w \in Weight |-> IF w <= n THEN "fp8" ELSE weights[l][w]]
      formats == Formats(l, Weight) IN
  IF formats = {"fp8"} THEN {Result(l, TRUE, weights[l], c, formats)}
  ELSE IF "fp8" \in formats THEN {Result(l, FALSE, weights[l], c, {})}
  ELSE {Result(l, TRUE, upTo(3 * Experts), c, {"fp8"})}
         \cup {Result(l, FALSE, upTo(n), c, {}) : n \in 0 .. 3 * Experts - 1}

\* The TMA executor quantizes a copy of an expert when it first meets it,
\* whatever format the weights are in.
QuantizeExpert(l, c, q) ==
  LET copies == [e \in DOMAIN c \cup q |->
                   IF e \in DOMAIN c THEN c[e] ELSE Formats(l, Of(e))] IN
  {Result(l, TRUE, weights[l], copies, {"fp8"})}

Pipeline(a, l, q) ==
  LET c == cache[a][l]
      used == UNION {Of(e) : e \in q} IN
  CASE Mode(a) = "refuse" -> {Result(l, FALSE, weights[l], c, {})}
    [] Mode(a) = "fp8" -> Convert(l, c, used)
    [] Mode(a) = "tma" -> QuantizeExpert(l, c, q)
    [] OTHER -> Plain(l, c, used)

-----------------------------------------------------------------------------
(* A forward pass of the model.                                            *)

BeginPass(s) ==
  /\ at = 0 /\ passes < MaxPasses
  /\ at' = 1 /\ shape' = s /\ ran' = <<>> /\ passes' = passes + 1
  /\ UNCHANGED <<servingConfig, weights, slot, records, made, blockVars, cut, patches>>

\* The layer returns, or its exception ends the pass.
Advance(ok, by, mode, formats) ==
  /\ at' = IF ok /\ at < Layers THEN at + 1 ELSE 0
  /\ ran' = IF ok THEN Append(ran, [by |-> by, mode |-> mode, formats |-> formats])
            ELSE ran
  /\ UNCHANGED <<shape, passes>>

NativeLayer ==
  /\ at # 0 /\ slot[at] = "native"
  /\ \E q \in SUBSET Expert \ {{}} : \E r \in Plain(at, NoEntries, UNION {Of(e) : e \in q}) :
       Advance(r.ok, "native", "reference", r.formats)
  /\ UNCHANGED <<servingConfig, weights, slot, records, made, blockVars, cut, patches>>

CaptureDue(a) == at \in runners[a] /\ shape \notin uncaptured[a][at]

Effects(a, r) ==
  /\ weights' = [weights EXCEPT ![at] = r.weights]
  /\ cache' = [cache EXCEPT ![a][at] = r.cache]
  /\ cut' = (cut \/ (~r.ok /\ r.weights # weights[at]))

\* The pipeline reads tensors back to the host, so its capture always fails:
\* after the warm-up, or in it. The runner swallows either.
WarmUp ==
  /\ at # 0 /\ slot[at] # "native"
  /\ LET a == slot[at] IN
     /\ CaptureDue(a)
     /\ \E q \in SUBSET Expert \ {{}} : \E r \in Pipeline(a, at, q) : Effects(a, r)
     /\ uncaptured' = [uncaptured EXCEPT ![a][at] = @ \cup {shape}]
  /\ UNCHANGED <<servingConfig, slot, records, made, runners, passVars, patches>>

BlockLayer ==
  /\ at # 0 /\ slot[at] # "native"
  /\ LET a == slot[at] IN
     /\ ~CaptureDue(a)
     /\ \E q \in SUBSET Expert \ {{}} : \E r \in Pipeline(a, at, q) :
          /\ Effects(a, r)
          /\ Advance(r.ok, a, Mode(a), r.formats)
  /\ UNCHANGED <<servingConfig, slot, records, made, runners, uncaptured, patches>>

ServingNext ==
  \/ \E a \in Adapters : PatchModel(a) \/ Wrap(a) \/ RefusePatch(a) \/ RestoreModel(a)
                           \/ EnableGraphs(a)
  \/ \E s \in BatchShapes : BeginPass(s)
  \/ NativeLayer \/ WarmUp \/ BlockLayer

ServingSpec == ServingInit /\ [][ServingNext]_servingVars

-----------------------------------------------------------------------------
\* Types: a pass is at a layer of the model, a slot holds a block or the native
\* module, a weight has a format.
ServingTypeOK ==
  /\ backend \in Configs /\ device \in Devices /\ at \in 0 .. Layers
  /\ \A l \in Layer :
     /\ slot[l] \in Adapters \cup {"native"}
     /\ weights[l] \in [Weight -> {"native", "fp8"}]
  /\ \A a \in Adapters :
     /\ made[a] \in {"no", "held", "lost"} /\ runners[a] \subseteq Layer
     /\ \A i \in DOMAIN records[a] : records[a][i].layer \in Layer

\* Every block in the model is in the records of its adapter, once, with the
\* native module to put back, and no record names a layer that holds something
\* else: whoever patches and restores in whatever order, and wherever a patch
\* raised half-way, restoring gives the native modules back.
SlotsRestorable ==
  \A l \in Layer, a \in Adapters :
    LET naming == {i \in DOMAIN records[a] : records[a][i].layer = l} IN
    IF slot[l] = a THEN \E i \in naming : naming = {i} /\ records[a][i].original = "native"
    ELSE naming = {}

\* A layer that returned computed on weights of one format, the one its kernel
\* or module multiplies: an interrupted conversion never feeds a kernel.
KernelsUniform ==
  \A i \in DOMAIN ran :
    ran[i].formats = IF ran[i].mode \in {"fp8", "tma"} THEN {"fp8"} ELSE {"native"}

\* As long as no conversion was interrupted, every free layer can be patched by
\* an adapter of any backend, whichever formats earlier adapters left behind.
LayersPatchable ==
  ~cut => \A a \in Adapters, l \in Layer : slot[l] = "native" => Buildable(a, l)

\* The TMA copies of an expert come from weights nothing has quantized before,
\* as long as no adapter of the model converts in place.
QuantizedOnce ==
  (\A a \in Adapters : Mode(a) # "fp8") =>
    \A a \in Adapters, l \in Layer : \A e \in DOMAIN cache[a][l] :
      cache[a][l][e] = {"native"}

\* The model's layers and the adapters' records agree.
PatchesSound == ServingTypeOK /\ SlotsRestorable

\* The formats of the weights through patches, conversions and interruptions.
WeightFormats == KernelsUniform /\ LayersPatchable /\ QuantizedOnce
=============================================================================
