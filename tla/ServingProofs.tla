---------------------------- MODULE ServingProofs ----------------------------
(***************************************************************************)
(* What stays right from call to call of a serving process: the results of *)
(* the graph runner, the layers adapters patch and restore, the formats of *)
(* the weights that adapters convert, the blocks of the KV cache, and the  *)
(* runtime's buffers: a result that owns its memory keeps its values, and  *)
(* the workspaces stop growing at the largest plan that has used them.     *)
(***************************************************************************)
EXTENDS Serving, GraphRunner, PagedKVCache, PlanBuffers, WellFoundedInduction, TLAPS

-----------------------------------------------------------------------------
(* The graph runner.  A result is in memory of its own; a shape for which  *)
(* capture was tried has a graph or is marked as failed.                   *)

Remembered ==
  {<<>>} \cup [value : Values, at : [own : {TRUE}, content : {Apply(v) : v \in Values}]]

GraphInv ==
  /\ kept \in [Holders -> Remembered]
  /\ \A h \in Holders : kept[h] # <<>> =>
       kept[h].at.own = TRUE /\ kept[h].at.content = Apply(kept[h].value)
  /\ attempts \in [Shapes -> Nat]
  /\ \A k \in Shapes : attempts[k] <= 1
  /\ \A k \in Shapes : attempts[k] = 0 \/ k \in failed \/ k \in DOMAIN graphs

LEMMA GraphInitOK == GraphInit => GraphInv
BY DEF GraphInit, GraphInv, Remembered

(* What a call leaves with its holder.                                     *)
LEMMA KeepOwn ==
  ASSUME GraphInv, NEW h \in Holders, NEW v \in Values, Keep(h, v, Own(Apply(v)))
  PROVE  /\ kept' \in [Holders -> Remembered]
         /\ \A g \in Holders : kept'[g] # <<>> =>
              kept'[g].at.own = TRUE /\ kept'[g].at.content = Apply(kept'[g].value)
<1> DEFINE new == [value |-> v, at |-> Own(Apply(v))]
<1>1. new \in Remembered /\ new.at.own = TRUE /\ new.at.content = Apply(new.value)
  BY DEF Remembered, Own
<1>2. kept' = [kept EXCEPT ![h] = new]
  BY DEF Keep
<1> HIDE DEF new
<1> QED BY <1>1, <1>2 DEF GraphInv

(* An attempt is the first of its shape, and leaves a graph or a mark.     *)
LEMMA AttemptOnce ==
  ASSUME GraphInv, NEW k, k \in Shapes \cup {Unkeyed}, Capturable(k), Attempt(k),
         failed \subseteq failed', DOMAIN graphs \subseteq DOMAIN graphs',
         k \in failed' \/ k \in DOMAIN graphs'
  PROVE  /\ attempts' \in [Shapes -> Nat]
         /\ \A j \in Shapes : attempts'[j] <= 1
         /\ \A j \in Shapes : attempts'[j] = 0 \/ j \in failed' \/ j \in DOMAIN graphs'
<1>1. k \in Shapes /\ k \notin failed /\ k \notin DOMAIN graphs
  BY DEF Capturable
<1>2. attempts[k] = 0
  BY <1>1 DEF GraphInv
<1>3. attempts' = [attempts EXCEPT ![k] = 1]
  BY <1>2 DEF Attempt
<1> QED BY <1>1, <1>2, <1>3 DEF GraphInv

LEMMA GraphStep == GraphInv /\ [GraphNext]_graphVars => GraphInv'
<1> SUFFICES ASSUME GraphInv, [GraphNext]_graphVars PROVE GraphInv'
  OBVIOUS
<1>1. ASSUME NEW h \in Holders, NEW k \in Shapes \cup {Unkeyed}, NEW v \in Values,
             CallEager(h, k, v)
      PROVE  GraphInv'
  <2>1. Keep(h, v, Own(Apply(v)))
    BY <1>1 DEF CallEager, Fallback
  <2>2. UNCHANGED <<graphs, failed, attempts>>
    BY <1>1 DEF CallEager, Fallback
  <2> QED BY <2>1, <2>2, KeepOwn DEF GraphInv
<1>2. ASSUME NEW h \in Holders, NEW k \in Shapes \cup {Unkeyed}, NEW v \in Values,
             CallReplay(h, k, v)
      PROVE  GraphInv'
  <2>1. Keep(h, v, Own(Apply(v)))
    BY <1>2 DEF CallReplay, Replay
  <2>2. DOMAIN graphs' = DOMAIN graphs /\ UNCHANGED <<failed, attempts>>
    BY <1>2 DEF CallReplay, Replay
  <2> QED BY <2>1, <2>2, KeepOwn DEF GraphInv
<1>3. ASSUME NEW h \in Holders, NEW k \in Shapes \cup {Unkeyed}, NEW v \in Values,
             CallCapture(h, k, v)
      PROVE  GraphInv'
  <2>1. Keep(h, v, Own(Apply(v))) /\ Capturable(k) /\ Attempt(k)
    BY <1>3 DEF CallCapture, Replay
  <2>2. DOMAIN graphs' = DOMAIN graphs \cup {k} /\ UNCHANGED failed
    BY <1>3 DEF CallCapture, Replay, Captured
  <2> QED BY <2>1, <2>2, KeepOwn, AttemptOnce DEF GraphInv
<1>4. ASSUME NEW h \in Holders, NEW k \in Shapes \cup {Unkeyed}, NEW v \in Values,
             CallCaptureFails(h, k, v)
      PROVE  GraphInv'
  <2>1. Keep(h, v, Own(Apply(v))) /\ Capturable(k) /\ Attempt(k)
    BY <1>4 DEF CallCaptureFails, Fallback
  <2>2. failed' = failed \cup {k} /\ UNCHANGED graphs
    BY <1>4 DEF CallCaptureFails, Fallback
  <2> QED BY <2>1, <2>2, KeepOwn, AttemptOnce DEF GraphInv
<1>5. ASSUME NEW k \in Shapes, NEW v \in Values, Capture(k, v) PROVE GraphInv'
  <2>1. Capturable(k) /\ Attempt(k) /\ UNCHANGED <<kept, failed>>
    BY <1>5 DEF Capture
  <2>2. DOMAIN graphs' = DOMAIN graphs \cup {k}
    BY <1>5 DEF Capture, Captured
  <2> QED BY <2>1, <2>2, AttemptOnce DEF GraphInv
<1>6. ASSUME NEW k \in Shapes, CaptureFails(k) PROVE GraphInv'
  <2>1. Capturable(k) /\ Attempt(k) /\ UNCHANGED <<kept, graphs>> /\ failed' = failed \cup {k}
    BY <1>6 DEF CaptureFails
  <2> QED BY <2>1, AttemptOnce DEF GraphInv
<1>7. CASE Reset
  BY <1>7 DEF Reset, GraphInv
<1>8. CASE UNCHANGED graphVars
  BY <1>8 DEF graphVars, GraphInv
<1> QED BY <1>1, <1>2, <1>3, <1>4, <1>5, <1>6, <1>7, <1>8 DEF GraphNext

(* cuda_graph.py: whatever other callers call, capture and reset in the    *)
(* meantime, a result a caller keeps is the output for its own input, and  *)
(* a shape is captured at most once between two resets.                    *)
THEOREM RunnerKeepsResults == GraphSpec => []RunnerRight
<1>1. GraphInv => RunnerRight
  <2> SUFFICES ASSUME GraphInv PROVE RunnerRight
    OBVIOUS
  <2>1. ResultsKept
    BY DEF GraphInv, ResultsKept, Content
  <2>2. OneAttempt
    BY DEF GraphInv, OneAttempt
  <2> QED BY <2>1, <2>2 DEF RunnerRight
<1> QED BY <1>1, GraphInitOK, GraphStep, PTL DEF GraphSpec

-----------------------------------------------------------------------------
(* The weights of a layer and the copies made of them.                     *)

Kept == {"native", "fp8"}
Copies == UNION {[D -> SUBSET Kept] : D \in SUBSET Expert}
Modes == {"reference", "tma", "refuse", "fp8", "kernel"}
Ran == [by : Adapters \cup {"native"}, mode : Modes, formats : SUBSET Kept]
PatchedBlock == [layer : Layer, original : Adapters \cup {"native"}]

ServingTypes ==
  /\ backend \in Configs /\ device \in Devices /\ at \in 0 .. Layers
  /\ weights \in [Layer -> [Weight -> Kept]]
  /\ slot \in [Layer -> Adapters \cup {"native"}]
  /\ records \in [Adapters -> Seq(PatchedBlock)]
  /\ made \in [Adapters -> {"no", "held", "lost"}]
  /\ cache \in [Adapters -> [Layer -> Copies]]
  /\ runners \in [Adapters -> SUBSET Layer]
  /\ ran \in Seq(Ran)
  /\ cut \in BOOLEAN

Whole(ws) == \E f \in Kept : \A w \in Weight : ws[w] = f
Untouched(ws) == \A w \in Weight : ws[w] = "native"
FirstCopies(c) == \A e \in DOMAIN c : c[e] = {"native"}
NoConversion == \A a \in Adapters : Mode(a) # "fp8"

\* Weights are converted as a whole or not at all, unless a conversion was
\* interrupted; without a converting adapter nothing is.
FormatsInv ==
  /\ KernelsUniform
  /\ ~cut => \A l \in Layer : Whole(weights[l])
  /\ NoConversion => /\ \A l \in Layer : Untouched(weights[l])
                     /\ \A a \in Adapters, l \in Layer : FirstCopies(cache[a][l])

\* What a returning layer computed on.
Multiplies(mode) == IF mode \in {"fp8", "tma"} THEN {"fp8"} ELSE {"native"}

LEMMA FormatsOf ==
  ASSUME ServingTypes, NEW l \in Layer, NEW ws, ws \subseteq Weight
  PROVE  /\ Formats(l, ws) \subseteq Kept
         /\ \A f \in Kept : (\A w \in Weight : weights[l][w] = f) /\ ws # {} => Formats(l, ws) = {f}
         /\ ws = Weight => \A f \in Kept : Formats(l, ws) = {f} => \A w \in Weight : weights[l][w] = f
<1>1. weights[l] \in [Weight -> Kept]
  BY DEF ServingTypes
<1>2. Formats(l, ws) = {weights[l][w] : w \in ws}
  BY DEF Formats
<1>3. Formats(l, ws) \subseteq Kept
  BY <1>1, <1>2
<1>4. ASSUME NEW f \in Kept, \A w \in Weight : weights[l][w] = f, ws # {}
      PROVE  Formats(l, ws) = {f}
  BY <1>2, <1>4
<1>5. ASSUME ws = Weight, NEW f \in Kept, Formats(l, ws) = {f}, NEW w \in Weight
      PROVE  weights[l][w] = f
  BY <1>2, <1>5
<1> QED BY <1>3, <1>4, <1>5

LEMMA OfIn == ASSUME NEW e \in Expert PROVE Of(e) \subseteq Weight /\ Of(e) # {}
BY ServingAssumption DEF Of, Weight, Expert

\* A run of a pipeline on layer l leaves r.
Sound(a, l, r) ==
  /\ r.ok \in BOOLEAN
  /\ r.weights \in [Weight -> Kept]
  /\ r.cache \in Copies
  /\ r.formats \in SUBSET Kept
  /\ r.ok => r.formats = Multiplies(Mode(a))
  /\ r.ok => r.weights = weights[l] \/ Whole(r.weights)
  /\ Mode(a) # "fp8" => r.weights = weights[l]
  /\ Untouched(weights[l]) /\ FirstCopies(cache[a][l]) => FirstCopies(r.cache)

LEMMA PlainFacts ==
  ASSUME ServingTypes, NEW l \in Layer, NEW c \in Copies, NEW run, run \subseteq Weight,
         NEW r \in Plain(l, c, run)
  PROVE  /\ r.ok \in BOOLEAN /\ r.weights = weights[l] /\ r.cache = c
         /\ r.formats \in SUBSET Kept
         /\ r.ok => r.formats = {"native"}
<1>1. Formats(l, run) \subseteq Kept
  BY FormatsOf
<1>2. r = Result(l, Formats(l, run) = {"native"}, weights[l], c, Formats(l, run))
  BY DEF Plain
<1> QED BY <1>1, <1>2 DEF Result

LEMMA ConvertFacts ==
  ASSUME ServingTypes, NEW l \in Layer, NEW c \in Copies, NEW run,
         NEW r \in Convert(l, c, run)
  PROVE  /\ r.ok \in BOOLEAN /\ r.weights \in [Weight -> Kept] /\ r.cache = c
         /\ r.formats \in SUBSET Kept
         /\ r.ok => r.formats = {"fp8"}
         /\ r.ok => r.weights = weights[l] \/ Whole(r.weights)
<1> DEFINE upTo(n) == [w \in Weight |-> IF w <= n THEN "fp8" ELSE weights[l][w]]
<1>0. weights[l] \in [Weight -> Kept]
  BY DEF ServingTypes
<1>1. \/ r = Result(l, TRUE, weights[l], c, Formats(l, Weight)) /\ Formats(l, Weight) = {"fp8"}
      \/ r = Result(l, FALSE, weights[l], c, {})
      \/ r = Result(l, TRUE, upTo(3 * Experts), c, {"fp8"})
      \/ \E n \in 0 .. 3 * Experts - 1 : r = Result(l, FALSE, upTo(n), c, {})
  BY DEF Convert
<1>2. \A n \in Int : upTo(n) \in [Weight -> Kept]
  BY <1>0 DEF Kept, Weight
<1>3. Whole(upTo(3 * Experts)) /\ 3 * Experts \in Int
  BY ServingAssumption DEF Whole, Weight, Kept
<1> HIDE DEF upTo
<1>4. CASE r = Result(l, TRUE, weights[l], c, Formats(l, Weight)) /\ Formats(l, Weight) = {"fp8"}
  BY <1>0, <1>4 DEF Result, Kept
<1>5. CASE r = Result(l, FALSE, weights[l], c, {})
  BY <1>0, <1>5 DEF Result, Kept
<1>6. CASE r = Result(l, TRUE, upTo(3 * Experts), c, {"fp8"})
  BY <1>2, <1>3, <1>6 DEF Result, Kept
<1>7. ASSUME NEW n \in 0 .. 3 * Experts - 1, r = Result(l, FALSE, upTo(n), c, {})
      PROVE  r.ok = FALSE /\ r.weights \in [Weight -> Kept] /\ r.cache = c /\ r.formats = {}
  BY <1>2, <1>7, ServingAssumption DEF Result
<1> QED BY <1>1, <1>4, <1>5, <1>6, <1>7

LEMMA QuantizeFacts ==
  ASSUME ServingTypes, NEW l \in Layer, NEW c \in Copies, NEW q \in SUBSET Expert,
         NEW r \in QuantizeExpert(l, c, q)
  PROVE  /\ r.ok = TRUE /\ r.weights = weights[l] /\ r.cache \in Copies
         /\ r.formats = {"fp8"}
         /\ Untouched(weights[l]) /\ FirstCopies(c) => FirstCopies(r.cache)
<1> DEFINE D == DOMAIN c \cup q
           copies == [e \in D |-> IF e \in DOMAIN c THEN c[e] ELSE Formats(l, Of(e))]
<1>1. r = Result(l, TRUE, weights[l], copies, {"fp8"})
  BY DEF QuantizeExpert
<1>2. PICK C \in SUBSET Expert : c \in [C -> SUBSET Kept]
  BY DEF Copies
<1>3. D \in SUBSET Expert
  BY <1>2
<1>4. \A e \in D : Formats(l, Of(e)) \in SUBSET Kept
  BY <1>3, OfIn, FormatsOf
<1>5. copies \in [D -> SUBSET Kept]
  BY <1>2, <1>4
<1>6. copies \in Copies
  BY <1>3, <1>5 DEF Copies
<1>7. ASSUME Untouched(weights[l]), FirstCopies(c) PROVE FirstCopies(copies)
  <2>1. \A e \in D : Formats(l, Of(e)) = {"native"}
    BY <1>3, <1>7, OfIn, FormatsOf DEF Untouched, Kept
  <2> QED BY <1>7, <2>1 DEF FirstCopies
<1> HIDE DEF copies
<1> QED BY <1>1, <1>6, <1>7 DEF Result

LEMMA PipelineFacts ==
  ASSUME ServingTypes, NEW a \in Adapters, NEW l \in Layer, NEW q \in SUBSET Expert,
         NEW r \in Pipeline(a, l, q)
  PROVE  Sound(a, l, r)
<1> DEFINE c == cache[a][l]
           run == UNION {Of(e) : e \in q}
<1>1. c \in Copies /\ weights[l] \in [Weight -> Kept]
  BY DEF ServingTypes
<1>2. run \subseteq Weight
  BY OfIn
<1>3. CASE Mode(a) = "refuse"
  <2>1. r = Result(l, FALSE, weights[l], c, {})
    BY <1>3 DEF Pipeline
  <2> QED BY <1>1, <2>1 DEF Sound, Result
<1>4. CASE Mode(a) = "fp8"
  <2>1. r \in Convert(l, c, run)
    BY <1>4 DEF Pipeline
  <2>2. /\ r.ok \in BOOLEAN /\ r.weights \in [Weight -> Kept] /\ r.cache = c
        /\ r.formats \in SUBSET Kept
        /\ r.ok => r.formats = {"fp8"}
        /\ r.ok => r.weights = weights[l] \/ Whole(r.weights)
    <3> HIDE DEF c, run
    <3> QED BY <1>1, <2>1, ConvertFacts
  <2> QED BY <1>1, <1>4, <2>2 DEF Sound, Multiplies
<1>5. CASE Mode(a) = "tma"
  <2>1. r \in QuantizeExpert(l, c, q)
    BY <1>5 DEF Pipeline
  <2>2. /\ r.ok = TRUE /\ r.weights = weights[l] /\ r.cache \in Copies
        /\ r.formats = {"fp8"}
        /\ Untouched(weights[l]) /\ FirstCopies(c) => FirstCopies(r.cache)
    <3> HIDE DEF c
    <3> QED BY <1>1, <2>1, QuantizeFacts
  <2> QED BY <1>1, <1>5, <2>2 DEF Sound, Multiplies, Kept
<1>6. CASE Mode(a) \notin {"refuse", "fp8", "tma"}
  <2>1. r \in Plain(l, c, run)
    BY <1>6 DEF Pipeline
  <2>2. /\ r.ok \in BOOLEAN /\ r.weights = weights[l] /\ r.cache = c
        /\ r.formats \in SUBSET Kept
        /\ r.ok => r.formats = {"native"}
    <3> HIDE DEF c, run
    <3> QED BY <1>1, <1>2, <2>1, PlainFacts
  <2> QED BY <1>1, <1>6, <2>2 DEF Sound, Multiplies
<1> QED BY <1>3, <1>4, <1>5, <1>6

-----------------------------------------------------------------------------
(* The layers a patch finds, and those it replaces.                        *)

LEMMA LeastNat ==
  ASSUME NEW T, T \subseteq Nat, T # {}
  PROVE  \E n \in T : \A m \in T : n <= m
<1>1. PICK n \in T : \A m \in T : ~ (<<m, n>> \in OpToRel(<, Nat))
  BY NatLessThanWellFounded, WFMin
<1>2. ASSUME NEW m \in T, m < n PROVE FALSE
  BY <1>1, <1>2 DEF OpToRel
<1> QED BY <1>2

LEMMA GreatestNat ==
  ASSUME NEW N \in Nat, NEW T, T \subseteq 0 .. N, T # {}
  PROVE  \E n \in T : \A m \in T : m <= n
<1> DEFINE U == {N - n : n \in T}
<1>1. U \subseteq Nat /\ U # {}
  OBVIOUS
<1>2. PICK u \in U : \A v \in U : u <= v
  <2> HIDE DEF U
  <2> QED BY <1>1, LeastNat
<1>3. PICK n \in T : u = N - n
  OBVIOUS
<1>4. ASSUME NEW m \in T PROVE m <= n
  <2>1. N - m \in U /\ m \in 0 .. N /\ n \in 0 .. N
    OBVIOUS
  <2>2. u <= N - m
    <3> HIDE DEF U
    <3> QED BY <1>2, <2>1
  <2> QED BY <1>3, <2>1, <2>2
<1> QED BY <1>4

\* k is the table of the first n steps of walking over the layers.
Finds(k, n) ==
  k = [l \in 0 .. n |->
         IF l = 0 THEN <<>>
         ELSE IF slot[l] = "native" THEN Append(k[l - 1], l) ELSE k[l - 1]]

LEMMA DiscoveredTable == Discovered = (CHOOSE k : Finds(k, Layers))[Layers]
BY DEF Discovered, Finds

LEMMA FindsAt ==
  ASSUME NEW n, NEW k, Finds(k, n), NEW l \in 0 .. n
  PROVE  k[l] = IF l = 0 THEN <<>>
                ELSE IF slot[l] = "native" THEN Append(k[l - 1], l) ELSE k[l - 1]
BY DEF Finds

LEMMA FindsExist ==
  ASSUME NEW n \in Nat
  PROVE  \E k : Finds(k, n)
<1> DEFINE Bad == {m \in Nat : ~ \E k : Finds(k, m)}
<1> SUFFICES ASSUME Bad # {} PROVE FALSE
  OBVIOUS
<1>1. PICK m \in Bad : \A j \in Bad : m <= j
  <2>1. Bad \subseteq Nat
    OBVIOUS
  <2> HIDE DEF Bad
  <2> QED BY <2>1, LeastNat
<1>2. CASE m = 0
  <2>1. Finds([l \in 0 .. 0 |-> <<>>], 0)
    BY DEF Finds
  <2> QED BY <1>2, <2>1
<1>3. CASE m # 0
  <2>1. m - 1 \in Nat /\ m - 1 \notin Bad
    BY <1>1, <1>3
  <2>2. PICK k : Finds(k, m - 1)
    BY <2>1
  <2> DEFINE last == IF slot[m] = "native" THEN Append(k[m - 1], m) ELSE k[m - 1]
             h == [l \in 0 .. m |-> IF l = m THEN last ELSE k[l]]
  <2>3. ASSUME NEW l \in 0 .. m
        PROVE  h[l] = IF l = 0 THEN <<>>
                      ELSE IF slot[l] = "native" THEN Append(h[l - 1], l) ELSE h[l - 1]
    <3>1. CASE l = m
      <4>1. h[l] = last /\ l - 1 \in 0 .. m /\ l - 1 # m /\ l # 0
        BY <1>3, <3>1
      <4>2. h[l - 1] = k[l - 1]
        BY <4>1
      <4> QED BY <3>1, <4>1, <4>2
    <3>2. CASE l # m /\ l # 0
      <4>1. h[l] = k[l] /\ l \in 0 .. (m - 1) /\ l - 1 \in 0 .. m /\ l - 1 # m
        BY <1>3, <3>2
      <4>2. h[l - 1] = k[l - 1]
        BY <4>1
      <4>3. k[l] = IF slot[l] = "native" THEN Append(k[l - 1], l) ELSE k[l - 1]
        BY <2>2, <3>2, <4>1 DEF Finds
      <4> QED BY <3>2, <4>1, <4>2, <4>3
    <3>3. CASE l # m /\ l = 0
      <4>1. h[l] = k[l] /\ l \in 0 .. (m - 1)
        BY <1>3, <3>3
      <4> QED BY <2>2, <3>3, <4>1 DEF Finds
    <3> QED BY <3>1, <3>2, <3>3
  <2>4. h = [l \in 0 .. m |->
               IF l = 0 THEN <<>>
               ELSE IF slot[l] = "native" THEN Append(h[l - 1], l) ELSE h[l - 1]]
    <3> HIDE DEF last
    <3>1. h = [l \in 0 .. m |-> h[l]]
      OBVIOUS
    <3> HIDE DEF h
    <3> QED BY <2>3, <3>1
  <2> HIDE DEF h
  <2>5. Finds(h, m)
    BY <2>4 DEF Finds
  <2> QED BY <2>5
<1> QED BY <1>2, <1>3

\* Native layers up to the n-th, each once and in ascending order.
Ascending(s, n) ==
  /\ s \in Seq(Layer)
  /\ \A i \in 1 .. Len(s) : slot[s[i]] = "native" /\ s[i] <= n
  /\ \A i, j \in 1 .. Len(s) : i < j => s[i] < s[j]

LEMMA AscendingAppend ==
  ASSUME NEW n \in Nat, n + 1 \in Layer, NEW s, Ascending(s, n), slot[n + 1] = "native"
  PROVE  Ascending(Append(s, n + 1), n + 1)
<1> DEFINE t == Append(s, n + 1)
<1>1. s \in Seq(Layer) /\ Len(s) \in Nat
  BY DEF Ascending
<1>2. t \in Seq(Layer) /\ Len(t) = Len(s) + 1
  BY <1>1
<1>3. /\ \A i \in 1 .. Len(s) : t[i] = s[i] /\ t[i] \in Layer
      /\ t[Len(s) + 1] = n + 1
  BY <1>1
<1> HIDE DEF t
<1>4. ASSUME NEW i \in 1 .. Len(t) PROVE slot[t[i]] = "native" /\ t[i] <= n + 1
  <2>1. CASE i = Len(s) + 1
    BY <1>3, <2>1
  <2>2. CASE i # Len(s) + 1
    <3>1. i \in 1 .. Len(s)
      BY <1>1, <1>2, <2>2
    <3> QED BY <1>3, <3>1 DEF Ascending, Layer
  <2> QED BY <2>1, <2>2
<1>5. ASSUME NEW i \in 1 .. Len(t), NEW j \in 1 .. Len(t), i < j PROVE t[i] < t[j]
  <2>1. i \in 1 .. Len(s) /\ t[i] = s[i] /\ s[i] \in Layer /\ s[i] <= n
    BY <1>1, <1>2, <1>3, <1>5 DEF Ascending
  <2>2. CASE j = Len(s) + 1
    BY <1>3, <2>1, <2>2 DEF Layer
  <2>3. CASE j # Len(s) + 1
    <3>1. j \in 1 .. Len(s)
      BY <1>1, <1>2, <2>3
    <3> QED BY <1>3, <1>5, <2>1, <3>1 DEF Ascending
  <2> QED BY <2>2, <2>3
<1> QED BY <1>2, <1>4, <1>5 DEF Ascending, t

LEMMA LayersAreNumbers ==
  ASSUME NEW s \in Seq(Layer), NEW i \in 1 .. Len(s)
  PROVE  s[i] \in Int
<1>1. s[i] \in Layer
  OBVIOUS
<1> QED BY <1>1, ServingAssumption DEF Layer

LEMMA DiscoveredFacts == Ascending(Discovered, Layers)
<1> DEFINE k == CHOOSE f : Finds(f, Layers)
           Bad == {l \in 0 .. Layers : ~ Ascending(k[l], l)}
<1>0. Layers \in Nat
  BY ServingAssumption
<1>1. Finds(k, Layers) /\ Discovered = k[Layers]
  BY <1>0, FindsExist, DiscoveredTable
<1> HIDE DEF k
<1> SUFFICES ASSUME Bad # {} PROVE FALSE
  BY <1>0, <1>1
<1>2. PICK l \in Bad : \A m \in Bad : l <= m
  <2>1. Bad \subseteq Nat
    BY <1>0
  <2> HIDE DEF Bad
  <2> QED BY <2>1, LeastNat
<1>3. l \in 0 .. Layers /\ ~ Ascending(k[l], l)
  OBVIOUS
<1>4. k[l] = IF l = 0 THEN <<>>
             ELSE IF slot[l] = "native" THEN Append(k[l - 1], l) ELSE k[l - 1]
  BY <1>1, <1>3, FindsAt
<1>5. CASE l = 0
  <2>1. k[l] = <<>>
    BY <1>4, <1>5
  <2> QED BY <1>3, <2>1 DEF Ascending
<1>6. CASE l # 0
  <2>1. l - 1 \in 0 .. Layers /\ l - 1 \notin Bad /\ l \in Layer /\ l - 1 \in Nat /\ l - 1 + 1 = l
    BY <1>0, <1>2, <1>3, <1>6 DEF Layer
  <2>2. Ascending(k[l - 1], l - 1)
    BY <2>1
  <2>3. CASE slot[l] = "native"
    <3>1. Ascending(Append(k[l - 1], l - 1 + 1), l - 1 + 1)
      BY <2>1, <2>2, <2>3, AscendingAppend
    <3> QED BY <1>3, <1>4, <1>6, <2>1, <2>3, <3>1
  <2>4. CASE slot[l] # "native"
    <3>1. k[l] = k[l - 1]
      BY <1>4, <1>6, <2>4
    <3>2. k[l - 1] \in Seq(Layer) /\ \A i \in 1 .. Len(k[l - 1]) : k[l - 1][i] \in Int
      <4>1. k[l - 1] \in Seq(Layer)
        BY <2>2 DEF Ascending
      <4> QED BY <4>1, LayersAreNumbers
    <3>3. Ascending(k[l - 1], l)
      BY <2>1, <2>2, <3>2 DEF Ascending
    <3> QED BY <1>3, <3>1, <3>3
  <2> QED BY <2>3, <2>4
<1> QED BY <1>5, <1>6

LEMMA ReplacedFacts ==
  ASSUME NEW a
  PROVE  Ascending(Replaced(a), Layers)
<1> DEFINE found == {n \in 0 .. Len(Discovered) : \A i \in 1 .. n : Buildable(a, Discovered[i])}
           top == CHOOSE n \in found : \A m \in found : m <= n
<1>1. Replaced(a) = SubSeq(Discovered, 1, top)
  BY DEF Replaced
<1>2. Discovered \in Seq(Layer) /\ Len(Discovered) \in Nat
  BY DiscoveredFacts DEF Ascending
<1>3. found \subseteq 0 .. Len(Discovered) /\ 0 \in found
  BY <1>2
<1>4. top \in 0 .. Len(Discovered)
  <2> HIDE DEF found
  <2> QED BY <1>2, <1>3, GreatestNat
<1> HIDE DEF top
<1>5. /\ Replaced(a) \in Seq(Layer) /\ Len(Replaced(a)) = top
      /\ \A i \in 1 .. top : Replaced(a)[i] = Discovered[i]
  BY <1>1, <1>2, <1>4
<1>6. \A i \in 1 .. top : i \in 1 .. Len(Discovered)
  BY <1>2, <1>4
<1> QED BY <1>5, <1>6, DiscoveredFacts DEF Ascending

-----------------------------------------------------------------------------
(* Patching and restoring.                                                 *)

NamesOf(rs, l) == {i \in DOMAIN rs : rs[i].layer = l}
SlotGood(s, rs, l, a) ==
  IF s = a THEN \E i \in NamesOf(rs, l) : NamesOf(rs, l) = {i} /\ rs[i].original = "native"
  ELSE NamesOf(rs, l) = {}

\* Adapters nobody has made have no records; slots and records agree.
PatchesInv ==
  /\ \A a \in Adapters : made[a] = "no" => records[a] = <<>>
  /\ \A l \in Layer, a \in Adapters : SlotGood(slot[l], records[a], l, a)

LEMMA NoNames == ASSUME NEW l PROVE NamesOf(<<>>, l) = {}
BY DEF NamesOf

RecordsFor(a) ==
  [i \in DOMAIN Replaced(a) |->
     [layer |-> Replaced(a)[i], original |-> slot[Replaced(a)[i]]]]

LEMMA InstallFacts ==
  ASSUME ServingTypes, PatchesInv, NEW a \in Adapters, records[a] = <<>>,
         NEW w \in BOOLEAN, Install(a, w)
  PROVE  /\ slot' \in [Layer -> Adapters \cup {"native"}]
         /\ records' \in [Adapters -> Seq(PatchedBlock)]
         /\ made' \in [Adapters -> {"no", "held", "lost"}]
         /\ PatchesInv'
<1> DEFINE done == Replaced(a)
           rs == RecordsFor(a)
<1>1. /\ slot' = [l \in Layer |-> IF l \in Range(done) THEN a ELSE slot[l]]
      /\ records' = [records EXCEPT ![a] = rs]
      /\ \E f \in {"held", "lost"} : made' = [made EXCEPT ![a] = f]
  <2> DEFINE raises == done # Discovered \/ a \in Unbooted
             fate == IF raises /\ w THEN "lost" ELSE "held"
  <2>1. slot' = [l \in Layer |-> IF l \in Range(done) THEN a ELSE slot[l]]
    BY DEF Install
  <2>2. records' = [records EXCEPT ![a] = rs]
    BY DEF Install, RecordsFor
  <2>3. made' = [made EXCEPT ![a] = fate]
    BY DEF Install
  <2>4. fate \in {"held", "lost"}
    <3> HIDE DEF raises
    <3> QED OBVIOUS
  <2> HIDE DEF fate, rs, done
  <2> QED BY <2>1, <2>2, <2>3, <2>4
<1>2. Ascending(done, Layers)
  BY ReplacedFacts
<1>3. done \in Seq(Layer) /\ Len(done) \in Nat /\ DOMAIN done = 1 .. Len(done)
  BY <1>2 DEF Ascending
<1>4. DOMAIN rs = 1 .. Len(done)
  BY <1>3 DEF RecordsFor
<1>5. \A i \in 1 .. Len(done) :
        /\ done[i] \in Layer /\ rs[i].layer = done[i] /\ rs[i].original = "native"
        /\ rs[i] \in PatchedBlock
  <2> SUFFICES ASSUME NEW i \in 1 .. Len(done)
               PROVE  /\ done[i] \in Layer /\ rs[i].layer = done[i]
                      /\ rs[i].original = "native" /\ rs[i] \in PatchedBlock
    OBVIOUS
  <2>1. done[i] \in Layer /\ slot[done[i]] = "native"
    BY <1>2, <1>3 DEF Ascending
  <2>2. rs[i] = [layer |-> done[i], original |-> slot[done[i]]]
    BY <1>3 DEF RecordsFor
  <2> QED BY <2>1, <2>2 DEF PatchedBlock
<1>6. \A i, j \in 1 .. Len(done) : done[i] = done[j] => i = j
  <2> SUFFICES ASSUME NEW i \in 1 .. Len(done), NEW j \in 1 .. Len(done), done[i] = done[j]
               PROVE  i = j
    OBVIOUS
  <2>1. done[i] \in Int
    BY <1>3, LayersAreNumbers
  <2>2. ~ (i < j) /\ ~ (j < i)
    BY <1>2, <2>1 DEF Ascending
  <2> QED BY <2>2
<1>7. Range(done) = {done[i] : i \in 1 .. Len(done)}
  BY <1>3 DEF Range
<1>8. \A l \in Layer : l \in Range(done) => slot[l] = "native"
  BY <1>2, <1>7 DEF Ascending
<1>9. rs \in Seq(PatchedBlock)
  <2>1. rs = [i \in 1 .. Len(done) |-> rs[i]]
    BY <1>3 DEF RecordsFor
  <2> HIDE DEF rs
  <2> QED BY <1>3, <1>5, <2>1
<1> HIDE DEF rs, done
<1>10. slot' \in [Layer -> Adapters \cup {"native"}]
  BY <1>1 DEF ServingTypes
<1>11. records' \in [Adapters -> Seq(PatchedBlock)]
  BY <1>1, <1>9 DEF ServingTypes
<1>12. made' \in [Adapters -> {"no", "held", "lost"}]
  BY <1>1 DEF ServingTypes
<1>13. ASSUME NEW b \in Adapters, made'[b] = "no" PROVE records'[b] = <<>>
  <2>1. b # a /\ made[b] = "no"
    BY <1>1, <1>13 DEF ServingTypes
  <2> QED BY <1>1, <2>1 DEF ServingTypes, PatchesInv
<1>14. ASSUME NEW l \in Layer PROVE SlotGood(slot'[l], rs, l, a)
  <2>1. slot[l] # a
    <3>1. SlotGood(slot[l], <<>>, l, a)
      BY DEF PatchesInv
    <3> QED BY <3>1, NoNames DEF SlotGood
  <2>2. CASE l \in Range(done)
    <3>1. PICK i \in 1 .. Len(done) : done[i] = l
      BY <1>7, <2>2
    <3>2. NamesOf(rs, l) = {i}
      BY <1>4, <1>5, <1>6, <3>1 DEF NamesOf
    <3>3. slot'[l] = a
      BY <1>1, <2>2
    <3> QED BY <1>5, <3>2, <3>3 DEF SlotGood
  <2>3. CASE l \notin Range(done)
    <3>1. NamesOf(rs, l) = {}
      BY <1>4, <1>5, <1>7, <2>3 DEF NamesOf
    <3>2. slot'[l] = slot[l]
      BY <1>1, <2>3
    <3> QED BY <2>1, <3>1, <3>2 DEF SlotGood
  <2> QED BY <2>2, <2>3
<1>15. ASSUME NEW l \in Layer, NEW b \in Adapters, b # a
       PROVE  SlotGood(slot'[l], records[b], l, b)
  <2>1. SlotGood(slot[l], records[b], l, b)
    BY DEF PatchesInv
  <2>2. CASE l \in Range(done)
    <3>1. slot'[l] = a /\ slot[l] # b
      BY <1>1, <1>8, <2>2, ServingAssumption
    <3> QED BY <1>15, <2>1, <3>1 DEF SlotGood
  <2>3. CASE l \notin Range(done)
    BY <1>1, <2>1, <2>3
  <2> QED BY <2>2, <2>3
<1>16. ASSUME NEW l \in Layer, NEW b \in Adapters
       PROVE  SlotGood(slot'[l], records'[b], l, b)
  <2>1. records'[b] = IF b = a THEN rs ELSE records[b]
    BY <1>1 DEF ServingTypes
  <2> QED BY <1>14, <1>15, <2>1
<1> QED BY <1>10, <1>11, <1>12, <1>13, <1>16 DEF PatchesInv

LEMMA RestoreFacts ==
  ASSUME ServingTypes, PatchesInv, NEW a \in Adapters, RestoreModel(a)
  PROVE  /\ slot' \in [Layer -> Adapters \cup {"native"}]
         /\ records' \in [Adapters -> Seq(PatchedBlock)]
         /\ PatchesInv'
<1> DEFINE mine(l) == NamesOf(records[a], l)
<1>1. /\ slot' = [l \in Layer |->
           IF mine(l) = {} THEN slot[l]
           ELSE records[a][CHOOSE i \in mine(l) : \A j \in mine(l) : i <= j].original]
      /\ records' = [records EXCEPT ![a] = <<>>]
      /\ UNCHANGED made
  BY DEF RestoreModel, NamesOf
<1>2. records[a] \in Seq(PatchedBlock) /\ DOMAIN records[a] = 1 .. Len(records[a])
  BY DEF ServingTypes
<1>3. ASSUME NEW l \in Layer
      PROVE  slot'[l] = IF slot[l] = a THEN "native" ELSE slot[l]
  <2>1. SlotGood(slot[l], records[a], l, a)
    BY DEF PatchesInv
  <2>2. CASE slot[l] = a
    <3>1. PICK i \in mine(l) : mine(l) = {i} /\ records[a][i].original = "native"
      BY <2>1, <2>2 DEF SlotGood
    <3>2. i \in Int
      BY <1>2, <3>1 DEF NamesOf
    <3> HIDE DEF mine
    <3>3. (CHOOSE x \in mine(l) : \A j \in mine(l) : x <= j) = i
      BY <3>1, <3>2
    <3>4. slot'[l] = records[a][CHOOSE x \in mine(l) : \A j \in mine(l) : x <= j].original
      BY <1>1, <3>1
    <3> QED BY <2>2, <3>1, <3>3, <3>4
  <2>3. CASE slot[l] # a
    <3>1. mine(l) = {}
      BY <2>1, <2>3 DEF SlotGood
    <3> HIDE DEF mine
    <3> QED BY <1>1, <2>3, <3>1
  <2> QED BY <2>2, <2>3
<1> HIDE DEF mine
<1>4. slot' = [l \in Layer |-> slot'[l]]
  BY <1>1
<1>5. slot' \in [Layer -> Adapters \cup {"native"}]
  BY <1>3, <1>4 DEF ServingTypes
<1>6. <<>> \in Seq(PatchedBlock)
  OBVIOUS
<1>7. records' \in [Adapters -> Seq(PatchedBlock)]
  BY <1>1, <1>6 DEF ServingTypes
<1>8. \A b \in Adapters : records'[b] = IF b = a THEN <<>> ELSE records[b]
  BY <1>1 DEF ServingTypes
<1>9. ASSUME NEW b \in Adapters, made'[b] = "no" PROVE records'[b] = <<>>
  BY <1>1, <1>8, <1>9 DEF PatchesInv
<1>10. ASSUME NEW l \in Layer, NEW b \in Adapters
       PROVE  SlotGood(slot'[l], records'[b], l, b)
  <2>1. SlotGood(slot[l], records[b], l, b)
    BY DEF PatchesInv
  <2>2. "native" # b
    BY ServingAssumption
  <2>3. CASE b = a
    <3>1. slot'[l] # b
      BY <1>3, <2>2, <2>3
    <3> QED BY <1>8, <2>3, <3>1, NoNames DEF SlotGood
  <2>4. CASE b # a
    <3>1. (slot'[l] = b) <=> (slot[l] = b)
      BY <1>3, <2>2, <2>4
    <3> QED BY <1>8, <2>1, <2>4, <3>1 DEF SlotGood
  <2> QED BY <2>3, <2>4
<1> QED BY <1>5, <1>7, <1>9, <1>10 DEF PatchesInv

-----------------------------------------------------------------------------
(* Steps.                                                                  *)

ServingInv == ServingTypes /\ PatchesInv /\ FormatsInv

\* A cache with no entries is a cache.
LEMMA NothingCopied == NoEntries \in Copies /\ DOMAIN NoEntries = {}
<1>1. DOMAIN NoEntries = {} /\ NoEntries = [e \in {} |-> NoEntries[e]]
  BY DEF NoEntries
<1>2. {} \in SUBSET Expert
  OBVIOUS
<1>3. NoEntries \in [{} -> SUBSET Kept]
  BY <1>1
<1> HIDE DEF NoEntries
<1> QED BY <1>1, <1>2, <1>3 DEF Copies

LEMMA ServingInitOK == ServingInit => ServingInv
<1> SUFFICES ASSUME ServingInit PROVE ServingInv
  OBVIOUS
<1>1. NoEntries \in Copies /\ DOMAIN NoEntries = {}
  BY NothingCopied
<1>2. /\ backend \in Configs /\ device \in Devices /\ at = 0 /\ ran = <<>> /\ cut = FALSE
      /\ weights = [l \in Layer |-> [w \in Weight |-> "native"]]
      /\ slot = [l \in Layer |-> "native"] /\ records = [a \in Adapters |-> <<>>]
      /\ made = [a \in Adapters |-> "no"]
      /\ cache = [a \in Adapters |-> [l \in Layer |-> NoEntries]]
      /\ runners = [a \in Adapters |-> {}]
  BY DEF ServingInit
<1>3. ServingTypes
  <2>1. <<>> \in Seq(Ran) /\ <<>> \in Seq(PatchedBlock)
    OBVIOUS
  <2>2. weights \in [Layer -> [Weight -> Kept]]
    BY <1>2 DEF Kept
  <2>3. cache \in [Adapters -> [Layer -> Copies]]
    BY <1>1, <1>2
  <2>4. records \in [Adapters -> Seq(PatchedBlock)]
    BY <1>2, <2>1
  <2>5. /\ slot \in [Layer -> Adapters \cup {"native"}]
        /\ made \in [Adapters -> {"no", "held", "lost"}]
        /\ runners \in [Adapters -> SUBSET Layer]
    BY <1>2
  <2>6. at \in 0 .. Layers
    BY <1>2, ServingAssumption
  <2>7. cut \in BOOLEAN
    BY <1>2
  <2> QED BY <1>2, <2>1, <2>2, <2>3, <2>4, <2>5, <2>6, <2>7 DEF ServingTypes
<1>4. PatchesInv
  <2>1. \A l \in Layer, a \in Adapters : slot[l] # a /\ records[a] = <<>>
    BY <1>2, ServingAssumption
  <2> QED BY <1>2, <2>1, NoNames DEF PatchesInv, SlotGood
<1>5. FormatsInv
  <2>1. KernelsUniform
    BY <1>2 DEF KernelsUniform
  <2>2. \A l \in Layer : Whole(weights[l]) /\ Untouched(weights[l])
    BY <1>2 DEF Whole, Untouched, Kept
  <2>3. \A a \in Adapters, l \in Layer : FirstCopies(cache[a][l])
    BY <1>1, <1>2 DEF FirstCopies
  <2> QED BY <2>1, <2>2, <2>3 DEF FormatsInv
<1> QED BY <1>3, <1>4, <1>5 DEF ServingInv

\* What a layer of a pass leaves of the pass.
LEMMA AdvanceFacts ==
  ASSUME ServingTypes, KernelsUniform, at # 0, NEW ok \in BOOLEAN,
         NEW by \in Adapters \cup {"native"}, NEW mode \in Modes,
         NEW formats \in SUBSET Kept, ok => formats = Multiplies(mode),
         Advance(ok, by, mode, formats)
  PROVE  at' \in 0 .. Layers /\ ran' \in Seq(Ran) /\ KernelsUniform'
<1> DEFINE entry == [by |-> by, mode |-> mode, formats |-> formats]
<1>1. at' \in 0 .. Layers
  BY ServingAssumption DEF Advance, ServingTypes
<1>2. ran' = IF ok THEN Append(ran, entry) ELSE ran
  BY DEF Advance
<1>3. entry \in Ran /\ entry.formats = formats /\ entry.mode = mode
  BY DEF Ran
<1>4. ran \in Seq(Ran) /\ Len(ran) \in Nat /\ DOMAIN ran = 1 .. Len(ran)
  BY DEF ServingTypes
<1> HIDE DEF entry
<1>5. CASE ok
  <2> DEFINE new == Append(ran, entry)
  <2>1. /\ new \in Seq(Ran) /\ DOMAIN new = 1 .. (Len(ran) + 1)
        /\ new[Len(ran) + 1] = entry /\ \A i \in 1 .. Len(ran) : new[i] = ran[i]
    BY <1>3, <1>4
  <2>2. ran' = new
    BY <1>2, <1>5
  <2> HIDE DEF new
  <2>3. ASSUME NEW i \in DOMAIN new
        PROVE  new[i].formats = IF new[i].mode \in {"fp8", "tma"} THEN {"fp8"} ELSE {"native"}
    <3>1. CASE i = Len(ran) + 1
      BY <1>3, <1>5, <2>1, <3>1 DEF Multiplies
    <3>2. CASE i # Len(ran) + 1
      <4>1. i \in 1 .. Len(ran)
        BY <1>4, <2>1, <3>2
      <4> QED BY <1>4, <2>1, <4>1 DEF KernelsUniform
    <3> QED BY <3>1, <3>2
  <2> QED BY <1>1, <2>1, <2>2, <2>3 DEF KernelsUniform
<1>6. CASE ~ok
  BY <1>1, <1>2, <1>4, <1>6 DEF KernelsUniform
<1> QED BY <1>5, <1>6

\* What a run of a pipeline leaves of the weights and the copies.
LEMMA EffectsFacts ==
  ASSUME ServingTypes, FormatsInv, NEW a \in Adapters, at \in Layer, NEW r,
         Sound(a, at, r), Effects(a, r), UNCHANGED servingConfig
  PROVE  /\ weights' \in [Layer -> [Weight -> Kept]]
         /\ cache' \in [Adapters -> [Layer -> Copies]]
         /\ cut' \in BOOLEAN
         /\ ~cut' => \A l \in Layer : Whole(weights'[l])
         /\ NoConversion' => /\ \A l \in Layer : Untouched(weights'[l])
                             /\ \A b \in Adapters, l \in Layer : FirstCopies(cache'[b][l])
<1>1. /\ weights' = [weights EXCEPT ![at] = r.weights]
      /\ cache' = [cache EXCEPT ![a] = [cache[a] EXCEPT ![at] = r.cache]]
      /\ cut' = (cut \/ (~r.ok /\ r.weights # weights[at]))
  BY DEF Effects
<1>2. r.weights \in [Weight -> Kept] /\ r.cache \in Copies /\ r.ok \in BOOLEAN
  BY DEF Sound
<1>3. weights' \in [Layer -> [Weight -> Kept]]
  BY <1>1, <1>2 DEF ServingTypes
<1>4. cache[a] \in [Layer -> Copies]
  BY DEF ServingTypes
<1>5. [cache[a] EXCEPT ![at] = r.cache] \in [Layer -> Copies]
  BY <1>2, <1>4
<1>6. cache' \in [Adapters -> [Layer -> Copies]]
  BY <1>1, <1>5 DEF ServingTypes
<1>7. cut' \in BOOLEAN
  BY <1>1
<1>8. \A l \in Layer : weights'[l] = IF l = at THEN r.weights ELSE weights[l]
  BY <1>1 DEF ServingTypes
<1>9. \A b \in Adapters, l \in Layer :
        cache'[b][l] = IF b = a /\ l = at THEN r.cache ELSE cache[b][l]
  <2>1. \A b \in Adapters : cache'[b] = IF b = a THEN [cache[a] EXCEPT ![at] = r.cache] ELSE cache[b]
    BY <1>1 DEF ServingTypes
  <2>2. \A l \in Layer : [cache[a] EXCEPT ![at] = r.cache][l] = IF l = at THEN r.cache ELSE cache[a][l]
    BY <1>4
  <2> QED BY <2>1, <2>2
<1>10. ASSUME ~cut', NEW l \in Layer PROVE Whole(weights'[l])
  <2>1. ~cut /\ (r.ok \/ r.weights = weights[at])
    BY <1>1, <1>2, <1>10 DEF ServingTypes
  <2>2. Whole(weights[l]) /\ Whole(weights[at])
    BY <2>1 DEF FormatsInv
  <2>3. r.weights = weights[at] \/ Whole(r.weights)
    BY <2>1 DEF Sound
  <2> QED BY <1>8, <2>2, <2>3
<1>11. ASSUME NoConversion'
       PROVE  /\ \A l \in Layer : Untouched(weights'[l])
              /\ \A b \in Adapters, l \in Layer : FirstCopies(cache'[b][l])
  <2>1. NoConversion
    BY <1>11 DEF NoConversion, Mode, servingConfig
  <2>2. Mode(a) # "fp8"
    BY <2>1 DEF NoConversion
  <2>3. /\ \A l \in Layer : Untouched(weights[l])
        /\ \A b \in Adapters, l \in Layer : FirstCopies(cache[b][l])
    BY <2>1 DEF FormatsInv
  <2>4. r.weights = weights[at] /\ FirstCopies(r.cache)
    BY <2>2, <2>3 DEF Sound
  <2> QED BY <1>8, <1>9, <2>3, <2>4
<1> QED BY <1>3, <1>6, <1>7, <1>10, <1>11

LEMMA ServingStep == ServingInv /\ [ServingNext]_servingVars => ServingInv'
<1> SUFFICES ASSUME ServingInv, [ServingNext]_servingVars PROVE ServingInv'
  OBVIOUS
<1>0. ServingTypes /\ PatchesInv /\ FormatsInv /\ KernelsUniform
  BY DEF ServingInv, FormatsInv
<1>1. ASSUME UNCHANGED <<servingConfig, weights, cache, ran, cut>> PROVE FormatsInv'
  <2>1. NoConversion' <=> NoConversion
    BY <1>1 DEF NoConversion, Mode, servingConfig
  <2> QED BY <1>0, <1>1, <2>1 DEF FormatsInv, KernelsUniform
<1>2. ASSUME UNCHANGED <<slot, records, made>> PROVE PatchesInv'
  BY <1>0, <1>2 DEF PatchesInv
<1>3. ASSUME NEW a \in Adapters, NEW w \in BOOLEAN, records[a] = <<>>, Install(a, w)
      PROVE  ServingInv'
  <2>1. UNCHANGED <<servingConfig, weights, cache, runners, at, ran, cut>>
    BY <1>3 DEF Install, blockVars, passVars
  <2>2. FormatsInv'
    BY <1>1, <2>1
  <2>3. /\ slot' \in [Layer -> Adapters \cup {"native"}]
        /\ records' \in [Adapters -> Seq(PatchedBlock)]
        /\ made' \in [Adapters -> {"no", "held", "lost"}]
        /\ PatchesInv'
    BY <1>0, <1>3, InstallFacts
  <2>4. ServingTypes'
    BY <1>0, <2>1, <2>3 DEF ServingTypes, servingConfig
  <2> QED BY <2>2, <2>3, <2>4 DEF ServingInv
<1>4. ASSUME NEW a \in Adapters, PatchModel(a) PROVE ServingInv'
  BY <1>3, <1>4 DEF PatchModel
<1>5. ASSUME NEW a \in Adapters, Wrap(a) PROVE ServingInv'
  <2>1. records[a] = <<>> /\ Install(a, TRUE)
    BY <1>0, <1>5 DEF Wrap, PatchesInv
  <2> QED BY <1>3, <2>1
<1>6. ASSUME NEW a \in Adapters, RefusePatch(a) PROVE ServingInv'
  <2>1. UNCHANGED <<servingConfig, weights, cache, runners, at, ran, cut, slot, records>>
    BY <1>6 DEF RefusePatch, blockVars, passVars
  <2>2. PICK f \in {"held", "lost"} : made' = [made EXCEPT ![a] = f]
    BY <1>6 DEF RefusePatch
  <2>3. made' \in [Adapters -> {"no", "held", "lost"}]
    BY <1>0, <2>2 DEF ServingTypes
  <2>4. ServingTypes'
    BY <1>0, <2>1, <2>3 DEF ServingTypes, servingConfig
  <2>5. \A b \in Adapters : made'[b] = "no" => made[b] = "no"
    BY <1>0, <2>2 DEF ServingTypes
  <2>6. PatchesInv'
    BY <1>0, <2>1, <2>5 DEF PatchesInv
  <2> QED BY <1>1, <2>1, <2>4, <2>6 DEF ServingInv
<1>7. ASSUME NEW a \in Adapters, RestoreModel(a) PROVE ServingInv'
  <2>1. /\ UNCHANGED <<servingConfig, weights, at, ran, cut, made>>
        /\ cache' = [cache EXCEPT ![a] = [l \in Layer |-> NoEntries]]
        /\ runners' = [runners EXCEPT ![a] = {}]
    BY <1>7 DEF RestoreModel, passVars
  <2>2. /\ slot' \in [Layer -> Adapters \cup {"native"}]
        /\ records' \in [Adapters -> Seq(PatchedBlock)]
        /\ PatchesInv'
    BY <1>0, <1>7, RestoreFacts
  <2>3. NoEntries \in Copies /\ FirstCopies(NoEntries)
    BY NothingCopied DEF FirstCopies
  <2>4. cache' \in [Adapters -> [Layer -> Copies]]
    BY <1>0, <2>1, <2>3 DEF ServingTypes
  <2>5. runners' \in [Adapters -> SUBSET Layer]
    BY <1>0, <2>1 DEF ServingTypes
  <2>6. ServingTypes'
    BY <1>0, <2>1, <2>2, <2>4, <2>5 DEF ServingTypes, servingConfig
  <2>7. NoConversion' <=> NoConversion
    BY <2>1 DEF NoConversion, Mode, servingConfig
  <2>8. \A b \in Adapters, l \in Layer :
          cache'[b][l] = IF b = a THEN NoEntries ELSE cache[b][l]
    BY <1>0, <2>1 DEF ServingTypes
  <2>9. FormatsInv'
    BY <1>0, <2>1, <2>3, <2>7, <2>8 DEF FormatsInv, KernelsUniform
  <2> QED BY <2>2, <2>6, <2>9 DEF ServingInv
<1>8. ASSUME NEW a \in Adapters, EnableGraphs(a) PROVE ServingInv'
  <2>1. /\ UNCHANGED <<servingConfig, weights, cache, at, ran, cut, slot, records, made>>
        /\ runners' = [runners EXCEPT ![a] = {records[a][i].layer : i \in DOMAIN records[a]}]
    BY <1>8 DEF EnableGraphs, passVars
  <2>2. {records[a][i].layer : i \in DOMAIN records[a]} \in SUBSET Layer
    <3>1. records[a] \in Seq(PatchedBlock)
      BY <1>0 DEF ServingTypes
    <3>2. \A i \in DOMAIN records[a] : records[a][i] \in PatchedBlock
      BY <3>1
    <3> QED BY <3>2 DEF PatchedBlock
  <2>3. runners' \in [Adapters -> SUBSET Layer]
    BY <1>0, <2>1, <2>2 DEF ServingTypes
  <2>4. ServingTypes'
    BY <1>0, <2>1, <2>3 DEF ServingTypes, servingConfig
  <2> QED BY <1>1, <1>2, <2>1, <2>4 DEF ServingInv
<1>9. ASSUME NEW s \in BatchShapes, BeginPass(s) PROVE ServingInv'
  <2>1. /\ UNCHANGED <<servingConfig, weights, cache, runners, cut, slot, records, made>>
        /\ at' = 1 /\ ran' = <<>>
    BY <1>9 DEF BeginPass, blockVars
  <2>2. <<>> \in Seq(Ran) /\ 1 \in 0 .. Layers
    BY ServingAssumption
  <2>3. ServingTypes'
    BY <1>0, <2>1, <2>2 DEF ServingTypes, servingConfig
  <2>4. KernelsUniform'
    BY <2>1 DEF KernelsUniform
  <2>5. NoConversion' <=> NoConversion
    BY <2>1 DEF NoConversion, Mode, servingConfig
  <2>6. FormatsInv'
    BY <1>0, <2>1, <2>4, <2>5 DEF FormatsInv
  <2> QED BY <1>2, <2>1, <2>3, <2>6 DEF ServingInv
<1>10. CASE NativeLayer
  <2>1. /\ at # 0
        /\ UNCHANGED <<servingConfig, weights, cache, runners, cut, slot, records, made>>
    BY <1>10 DEF NativeLayer, blockVars
  <2>2. PICK q \in SUBSET Expert \ {{}} :
          \E r \in Plain(at, NoEntries, UNION {Of(e) : e \in q}) :
            Advance(r.ok, "native", "reference", r.formats)
    BY <1>10 DEF NativeLayer
  <2>3. PICK r \in Plain(at, NoEntries, UNION {Of(e) : e \in q}) :
          Advance(r.ok, "native", "reference", r.formats)
    BY <2>2
  <2>4. NoEntries \in Copies /\ UNION {Of(e) : e \in q} \subseteq Weight /\ at \in Layer
    <3>1. NoEntries \in Copies
      BY DEF NoEntries, Copies
    <3>2. \A e \in q : Of(e) \subseteq Weight
      BY OfIn
    <3>3. at \in Layer
      BY <1>0, <2>1, ServingAssumption DEF ServingTypes, Layer
    <3> QED BY <3>1, <3>2, <3>3
  <2>5. r.ok \in BOOLEAN /\ r.formats \in SUBSET Kept /\ (r.ok => r.formats = {"native"})
    BY <1>0, <2>3, <2>4, PlainFacts
  <2>6. r.ok => r.formats = Multiplies("reference")
    BY <2>5 DEF Multiplies
  <2>7. at' \in 0 .. Layers /\ ran' \in Seq(Ran) /\ KernelsUniform'
    <3>1. "reference" \in Modes
      BY DEF Modes
    <3> QED BY <1>0, <2>1, <2>3, <2>5, <2>6, <3>1, AdvanceFacts
  <2>8. ServingTypes'
    BY <1>0, <2>1, <2>7 DEF ServingTypes, servingConfig
  <2>9. NoConversion' <=> NoConversion
    BY <2>1 DEF NoConversion, Mode, servingConfig
  <2>10. FormatsInv'
    BY <1>0, <2>1, <2>7, <2>9 DEF FormatsInv
  <2> QED BY <1>2, <2>1, <2>8, <2>10 DEF ServingInv
<1>11. ASSUME at # 0, slot[at] # "native"
       PROVE  at \in Layer /\ slot[at] \in Adapters
  <2>1. at \in Layer
    BY <1>0, <1>11, ServingAssumption DEF ServingTypes, Layer
  <2> QED BY <1>0, <1>11, <2>1 DEF ServingTypes
<1>12. CASE WarmUp
  <2> DEFINE a == slot[at]
  <2>1. /\ at \in Layer /\ a \in Adapters
        /\ UNCHANGED <<servingConfig, slot, records, made, runners, at, ran>>
    BY <1>11, <1>12 DEF WarmUp, passVars
  <2>2. PICK q \in SUBSET Expert \ {{}} : \E r \in Pipeline(a, at, q) : Effects(a, r)
    BY <1>12 DEF WarmUp
  <2>3. PICK r \in Pipeline(a, at, q) : Effects(a, r)
    BY <2>2
  <2> HIDE DEF a
  <2>4. Sound(a, at, r)
    BY <1>0, <2>1, <2>3, PipelineFacts
  <2>5. /\ weights' \in [Layer -> [Weight -> Kept]]
        /\ cache' \in [Adapters -> [Layer -> Copies]]
        /\ cut' \in BOOLEAN
        /\ ~cut' => \A l \in Layer : Whole(weights'[l])
        /\ NoConversion' => /\ \A l \in Layer : Untouched(weights'[l])
                            /\ \A b \in Adapters, l \in Layer : FirstCopies(cache'[b][l])
    BY <1>0, <2>1, <2>3, <2>4, EffectsFacts
  <2>6. KernelsUniform'
    BY <1>0, <2>1 DEF KernelsUniform
  <2>7. ServingTypes'
    BY <1>0, <2>1, <2>5 DEF ServingTypes, servingConfig
  <2> QED BY <1>2, <2>1, <2>5, <2>6, <2>7 DEF ServingInv, FormatsInv
<1>13. CASE BlockLayer
  <2> DEFINE a == slot[at]
  <2>1. /\ at \in Layer /\ a \in Adapters /\ at # 0
        /\ UNCHANGED <<servingConfig, slot, records, made, runners>>
    BY <1>11, <1>13 DEF BlockLayer
  <2>2. PICK q \in SUBSET Expert \ {{}} : \E r \in Pipeline(a, at, q) :
          Effects(a, r) /\ Advance(r.ok, a, Mode(a), r.formats)
    BY <1>13 DEF BlockLayer
  <2>3. PICK r \in Pipeline(a, at, q) :
          Effects(a, r) /\ Advance(r.ok, a, Mode(a), r.formats)
    BY <2>2
  <2> HIDE DEF a
  <2>4. Sound(a, at, r)
    BY <1>0, <2>1, <2>3, PipelineFacts
  <2>5. /\ weights' \in [Layer -> [Weight -> Kept]]
        /\ cache' \in [Adapters -> [Layer -> Copies]]
        /\ cut' \in BOOLEAN
        /\ ~cut' => \A l \in Layer : Whole(weights'[l])
        /\ NoConversion' => /\ \A l \in Layer : Untouched(weights'[l])
                            /\ \A b \in Adapters, l \in Layer : FirstCopies(cache'[b][l])
    BY <1>0, <2>1, <2>3, <2>4, EffectsFacts
  <2>6. Mode(a) \in Modes
    BY DEF Mode, Modes
  <2>7. r.ok \in BOOLEAN /\ r.formats \in SUBSET Kept /\ (r.ok => r.formats = Multiplies(Mode(a)))
    BY <2>4 DEF Sound
  <2>8. at' \in 0 .. Layers /\ ran' \in Seq(Ran) /\ KernelsUniform'
    BY <1>0, <2>1, <2>3, <2>6, <2>7, AdvanceFacts
  <2>9. ServingTypes'
    BY <1>0, <2>1, <2>5, <2>8 DEF ServingTypes, servingConfig
  <2> QED BY <1>2, <2>1, <2>5, <2>8, <2>9 DEF ServingInv, FormatsInv
<1>14. CASE UNCHANGED servingVars
  <2>1. UNCHANGED <<servingConfig, weights, slot, records, made, cache, runners, at, ran, cut>>
    BY <1>14 DEF servingVars, blockVars, passVars
  <2>2. ServingTypes'
    BY <1>0, <2>1 DEF ServingTypes, servingConfig
  <2> QED BY <1>1, <1>2, <2>1, <2>2 DEF ServingInv
<1> QED BY <1>4, <1>5, <1>6, <1>7, <1>8, <1>9, <1>10, <1>12, <1>13, <1>14 DEF ServingNext

LEMMA ServingInvariant == ServingSpec => []ServingInv
BY ServingInitOK, ServingStep, PTL DEF ServingSpec

-----------------------------------------------------------------------------
(* qwen15_moe.py, patcher.py: whatever adapters patch, restore and convert *)
(* in whatever order, and wherever a patch raises half-way, the blocks in  *)
(* the model are in the records of their adapters, with the native module. *)
THEOREM RestoringIsPossible == ServingSpec => []PatchesSound
<1>1. ServingInv => PatchesSound
  <2> SUFFICES ASSUME ServingTypes, PatchesInv PROVE PatchesSound
    BY DEF ServingInv
  <2>1. SlotsRestorable
    BY DEF PatchesInv, SlotsRestorable, SlotGood, NamesOf
  <2>2. ASSUME NEW a \in Adapters
        PROVE  /\ made[a] \in {"no", "held", "lost"} /\ runners[a] \subseteq Layer
               /\ \A i \in DOMAIN records[a] : records[a][i].layer \in Layer
    <3>1. records[a] \in Seq(PatchedBlock)
      BY DEF ServingTypes
    <3>2. \A i \in DOMAIN records[a] : records[a][i] \in PatchedBlock
      BY <3>1
    <3> QED BY <3>2 DEF ServingTypes, PatchedBlock
  <2>3. \A l \in Layer : slot[l] \in Adapters \cup {"native"}
                         /\ weights[l] \in [Weight -> {"native", "fp8"}]
    BY DEF ServingTypes, Kept
  <2>4. ServingTypeOK
    BY <2>2, <2>3 DEF ServingTypes, ServingTypeOK
  <2> QED BY <2>1, <2>4 DEF PatchesSound
<1> QED BY <1>1, ServingInvariant, PTL

(* executor/fp8.py, executor/weights.py, executor/triton_tma.py: a layer   *)
(* that returns has multiplied weights of one format, the one its kernel   *)
(* takes; unless a conversion was interrupted, every free layer can be     *)
(* patched; nothing is quantized twice unless some adapter converts.       *)
THEOREM WeightsKeepTheirFormat == ServingSpec => []WeightFormats
<1>1. ServingInv => WeightFormats
  <2> SUFFICES ASSUME ServingTypes, FormatsInv PROVE WeightFormats
    BY DEF ServingInv
  <2>1. KernelsUniform
    BY DEF FormatsInv
  <2>2. LayersPatchable
    <3> SUFFICES ASSUME ~cut, NEW a \in Adapters, NEW l \in Layer PROVE Buildable(a, l)
      BY DEF LayersPatchable
    <3>1. PICK f \in Kept : \A w \in Weight : weights[l][w] = f
      BY DEF FormatsInv, Whole
    <3>2. GateUp \subseteq Weight /\ GateUp # {} /\ Weight \ GateUp # {}
      <4>1. 1 \in GateUp /\ 3 * Experts \in Weight \ GateUp
        BY ServingAssumption DEF GateUp, Weight
      <4>2. GateUp \subseteq Weight
        BY ServingAssumption DEF GateUp, Weight
      <4> QED BY <4>1, <4>2
    <3>3. Formats(l, GateUp) = {f} /\ Formats(l, Weight \ GateUp) = {f}
      <4>1. Weight \ GateUp \subseteq Weight
        OBVIOUS
      <4> QED BY <3>1, <3>2, <4>1, FormatsOf
    <3> QED BY <3>3 DEF Buildable, Kept
  <2>3. QuantizedOnce
    BY DEF FormatsInv, QuantizedOnce, NoConversion, FirstCopies
  <2> QED BY <2>1, <2>2, <2>3 DEF WeightFormats
<1> QED BY <1>1, ServingInvariant, PTL

-----------------------------------------------------------------------------
(* The block pool of the paged KV cache.  It keeps its blocks, and callers *)
(* that give back what they hold never share one.                          *)

\* The call under way has blocks left to take, or ids left to give back.
CallSound ==
  /\ call \in [op : {"none", "allocate", "free"}, for : Sequence \cup {"nobody"},
               left : Nat, ids : Seq(Block)]
  /\ call.op = "none" => call = NoCall
  /\ call.op = "allocate" => 1 <= call.left /\ call.left <= Len(free) /\ call.for \in Sequence
  /\ call.op = "free" => call.ids # <<>>

KVTypes ==
  /\ free \in Seq(Block)
  /\ used \in [DOMAIN used -> Int]
  /\ holding \in [Sequence -> SUBSET Block]
  /\ known \in [Sequence -> SUBSET Block]
  /\ careful \in BOOLEAN
  /\ CallSound

KVInv == KVTypes /\ BlocksPartitioned

LEMMA NonEmpty == ASSUME NEW S, NEW t \in Seq(S), Len(t) # 0 PROVE t # <<>>
  OBVIOUS

\* What the two ends of the list do to the set of free blocks.
LEMMA PopFree ==
  ASSUME KVInv, free # <<>>
  PROVE  /\ Head(free) \in Block /\ Head(free) \notin DOMAIN used
         /\ Tail(free) \in Seq(Block) /\ Len(Tail(free)) = Len(free) - 1
         /\ \A i, j \in 1 .. Len(Tail(free)) : Tail(free)[i] = Tail(free)[j] => i = j
         /\ {Tail(free)[i] : i \in 1 .. Len(Tail(free))}
              = {free[i] : i \in 1 .. Len(free)} \ {Head(free)}
<1>1. Len(free) \in Nat /\ Len(free) >= 1 /\ Head(free) = free[1]
  BY DEF KVInv, KVTypes
<1>2. Tail(free) \in Seq(Block) /\ Len(Tail(free)) = Len(free) - 1
  BY DEF KVInv, KVTypes
<1>3. \A i \in 1 .. Len(Tail(free)) : Tail(free)[i] = free[i + 1]
  BY <1>1 DEF KVInv, KVTypes
<1>4. \A i, j \in 1 .. Len(free) : free[i] = free[j] => i = j
  BY DEF KVInv, BlocksPartitioned
<1>5. \A i, j \in 1 .. Len(Tail(free)) : Tail(free)[i] = Tail(free)[j] => i = j
  BY <1>1, <1>2, <1>3, <1>4
<1>6. {Tail(free)[i] : i \in 1 .. Len(Tail(free))}
        = {free[i] : i \in 1 .. Len(free)} \ {free[1]}
  <2>1. ASSUME NEW i \in 1 .. Len(Tail(free))
        PROVE  Tail(free)[i] \in {free[k] : k \in 1 .. Len(free)} \ {free[1]}
    <3>1. i + 1 \in 1 .. Len(free) /\ i + 1 # 1 /\ 1 \in 1 .. Len(free)
      BY <1>1, <1>2
    <3> QED
      BY <3>1, <1>3, <1>4
  <2>2. ASSUME NEW k \in 1 .. Len(free), free[k] # free[1]
        PROVE  free[k] \in {Tail(free)[i] : i \in 1 .. Len(Tail(free))}
    <3>1. k - 1 \in 1 .. Len(Tail(free)) /\ (k - 1) + 1 = k
      BY <2>2, <1>1, <1>2
    <3>2. Tail(free)[k - 1] = free[k]
      BY <3>1, <1>3
    <3> QED
      BY <3>1, <3>2
  <2> QED
    BY <2>1, <2>2
<1>7. free[1] \in Block /\ free[1] \notin DOMAIN used
  BY <1>1 DEF KVInv, KVTypes, BlocksPartitioned
<1> QED
  BY <1>1, <1>2, <1>5, <1>6, <1>7

LEMMA PushFree ==
  ASSUME KVInv, NEW b \in DOMAIN used
  PROVE  /\ b \in Block /\ Append(free, b) \in Seq(Block)
         /\ \A i, j \in 1 .. Len(Append(free, b)) :
              Append(free, b)[i] = Append(free, b)[j] => i = j
         /\ {Append(free, b)[i] : i \in 1 .. Len(Append(free, b))}
              = {free[i] : i \in 1 .. Len(free)} \cup {b}
<1> DEFINE f == Append(free, b)
<1>1. b \in Block
  BY DEF KVInv, BlocksPartitioned
<1>2. /\ f \in Seq(Block) /\ Len(free) \in Nat /\ Len(f) = Len(free) + 1
      /\ f[Len(free) + 1] = b
      /\ \A i \in 1 .. Len(free) : f[i] = free[i]
  BY <1>1 DEF KVInv, KVTypes
<1>3. \A i \in 1 .. Len(free) : free[i] # b
  BY DEF KVInv, BlocksPartitioned
<1>4. \A i, j \in 1 .. Len(free) : free[i] = free[j] => i = j
  BY DEF KVInv, BlocksPartitioned
<1> HIDE DEF f
<1>5. \A i \in 1 .. Len(f) : i \in 1 .. Len(free) \/ i = Len(free) + 1
  BY <1>2
<1>6. \A i, j \in 1 .. Len(f) : f[i] = f[j] => i = j
  BY <1>2, <1>3, <1>4, <1>5
<1>7. 1 .. Len(f) = (1 .. Len(free)) \cup {Len(free) + 1}
  BY <1>2
<1>8. {f[i] : i \in 1 .. Len(f)} = {free[i] : i \in 1 .. Len(free)} \cup {b}
  BY <1>2, <1>7
<1> QED
  BY <1>1, <1>2, <1>6, <1>8 DEF f

-----------------------------------------------------------------------------
(* The pool: every step keeps the types and the partition.                 *)

LEMMA ListOfIds ==
  ASSUME NEW S \in SUBSET Block, NEW n \in {1, 2}, NEW ids \in [1 .. n -> S]
  PROVE  /\ ids \in Seq(S) /\ ids \in Seq(Block) /\ Len(ids) = n /\ ids # <<>>
         /\ \A i \in 1 .. n : ids[i] \in S
  OBVIOUS

LEMMA OfferIsList ==
  ASSUME KVTypes, NEW s \in Sequence, NEW ids \in Offers(s)
  PROVE  ids \in Seq(Block) /\ ids # <<>>
<1>1. \E S \in SUBSET Block, n \in {1, 2} : ids \in [1 .. n -> S]
  <2>1. ids \in [1 .. 1 -> holding[s]] \cup [1 .. 2 -> holding[s]]
           \cup [1 .. 1 -> known[s]] \cup [1 .. 2 -> known[s]]
    BY DEF Offers
  <2>2. holding[s] \in SUBSET Block /\ known[s] \in SUBSET Block
    BY DEF KVTypes
  <2> QED
    BY <2>1, <2>2
<1> QED
  BY <1>1, ListOfIds

LEMMA AllocateKeeps ==
  ASSUME KVInv, NEW s \in Sequence, NEW n \in 1 .. NumBlocks, Allocate(s, n)
  PROVE  KVInv'
<1>1. CallSound'
  <2>1. call' = [op |-> "allocate", for |-> s, left |-> n, ids |-> <<>>]
        /\ n \in Nat /\ 1 <= n /\ n <= Len(free) /\ free' = free
    BY KVAssumption DEF Allocate
  <2> QED
    BY <2>1 DEF CallSound, Block
<1> QED
  BY <1>1 DEF KVInv, KVTypes, BlocksPartitioned, Allocate

LEMMA FreeKeeps ==
  ASSUME KVInv, NEW s \in Sequence, Free(s)
  PROVE  KVInv'
<1>1. PICK ids \in Offers(s) :
        /\ call' = [op |-> "free", for |-> s, left |-> 0, ids |-> ids]
        /\ holding' = [holding EXCEPT ![s] = @ \ {ids[i] : i \in DOMAIN ids}]
  BY DEF Free
<1>2. ids \in Seq(Block) /\ ids # <<>>
  BY OfferIsList DEF KVInv
<1>3. CallSound'
  BY <1>1, <1>2 DEF CallSound, Block
<1>4. holding' \in [Sequence -> SUBSET Block]
  BY <1>1 DEF KVInv, KVTypes
<1> QED
  BY <1>3, <1>4 DEF KVInv, KVTypes, BlocksPartitioned, Free

LEMMA PopKeeps ==
  ASSUME KVInv, PopBlock
  PROVE  KVInv'
<1> DEFINE b == Head(free)
<1>1. free # <<>> /\ call.left \in Nat /\ 1 <= call.left /\ call.left <= Len(free)
  BY DEF KVInv, KVTypes, CallSound, PopBlock
<1>2. /\ b \in Block /\ b \notin DOMAIN used
      /\ Tail(free) \in Seq(Block) /\ Len(Tail(free)) = Len(free) - 1
      /\ \A i, j \in 1 .. Len(Tail(free)) : Tail(free)[i] = Tail(free)[j] => i = j
      /\ {Tail(free)[i] : i \in 1 .. Len(Tail(free))}
           = {free[i] : i \in 1 .. Len(free)} \ {b}
  BY <1>1, PopFree
<1>3. /\ free' = Tail(free)
      /\ used' = [x \in DOMAIN used \cup {b} |-> IF x = b THEN 1 ELSE used[x]]
      /\ holding' = [s \in Sequence |-> holding[s] \cup (IF s = call.for THEN {b} ELSE {})]
      /\ known' = [s \in Sequence |-> known[s] \cup (IF s = call.for THEN {b} ELSE {})]
      /\ careful' = careful
  BY DEF PopBlock
<1> HIDE DEF b
<1>4. DOMAIN used' = DOMAIN used \cup {b} /\ used' \in [DOMAIN used' -> Int]
  BY <1>3 DEF KVInv, KVTypes
<1>5. holding' \in [Sequence -> SUBSET Block] /\ known' \in [Sequence -> SUBSET Block]
  BY <1>2, <1>3 DEF KVInv, KVTypes
<1>6. CallSound'
  <2>1. CASE call.left = 1
    BY <2>1 DEF PopBlock, CallSound, NoCall, Block
  <2>2. CASE call.left # 1
    <3>1. call' = [call EXCEPT !.left = @ - 1] /\ call.op = "allocate"
      BY <2>2 DEF PopBlock
    <3>2. call' \in [op : {"none", "allocate", "free"}, for : Sequence \cup {"nobody"},
                     left : Nat, ids : Seq(Block)]
          /\ call'.op = "allocate" /\ call'.for = call.for /\ call'.left = call.left - 1
      BY <3>1, <1>1, <2>2 DEF KVInv, KVTypes, CallSound
    <3> QED
      BY <3>1, <3>2, <1>1, <1>2, <1>3, <2>2 DEF KVInv, KVTypes, CallSound
  <2> QED
    BY <2>1, <2>2
<1>7. BlocksPartitioned'
  <2>1. \A i, j \in 1 .. Len(free') : free'[i] = free'[j] => i = j
    BY <1>2, <1>3
  <2>2. {free'[i] : i \in 1 .. Len(free')} = {free[i] : i \in 1 .. Len(free)} \ {b}
    BY <1>2, <1>3
  <2> DEFINE before == {free[i] : i \in 1 .. Len(free)}
             after == {free'[i] : i \in 1 .. Len(free')}
  <2>3. before \cap DOMAIN used = {} /\ before \cup DOMAIN used = Block
    BY DEF KVInv, BlocksPartitioned
  <2>4. after = before \ {b}
    BY <2>2
  <2> HIDE DEF before, after
  <2>5. after \cap DOMAIN used' = {} /\ after \cup DOMAIN used' = Block
    BY <1>2, <1>4, <2>3, <2>4
  <2> QED
    BY <2>1, <2>5 DEF BlocksPartitioned, Block, after
<1> QED
  BY <1>2, <1>3, <1>4, <1>5, <1>6, <1>7 DEF KVInv, KVTypes, Block

LEMMA PushKeeps ==
  ASSUME KVInv, FreeBlock
  PROVE  KVInv'
<1> DEFINE b == Head(call.ids)
<1>1. CallSound'
  <2>1. CASE Len(call.ids) = 1
    BY <2>1 DEF FreeBlock, CallSound, NoCall, Block
  <2>2. CASE Len(call.ids) # 1
    <3>1. call' = [call EXCEPT !.ids = Tail(@)] /\ call.op = "free"
      BY <2>2 DEF FreeBlock
    <3>2. call.ids \in Seq(Block) /\ call.ids # <<>>
      BY <3>1 DEF KVInv, KVTypes, CallSound
    <3>3. Tail(call.ids) \in Seq(Block) /\ Tail(call.ids) # <<>>
      <4>1. /\ Len(call.ids) \in Nat /\ Len(call.ids) >= 1
            /\ Tail(call.ids) \in Seq(Block) /\ Len(Tail(call.ids)) = Len(call.ids) - 1
        BY <3>2
      <4>2. Len(Tail(call.ids)) # 0
        BY <4>1, <2>2
      <4> QED
        BY <4>1, <4>2, NonEmpty
    <3>4. call' \in [op : {"none", "allocate", "free"}, for : Sequence \cup {"nobody"},
                     left : Nat, ids : Seq(Block)]
          /\ call'.op = "free" /\ call'.ids = Tail(call.ids)
      BY <3>1, <3>3 DEF KVInv, KVTypes, CallSound
    <3> QED
      BY <3>3, <3>4 DEF CallSound, Block
  <2> QED
    BY <2>1, <2>2
<1>2. CASE b \in DOMAIN used /\ used[b] <= 1
  <2>1. used' = [x \in DOMAIN used \ {b} |-> used[x]] /\ free' = Append(free, b)
    BY <1>2 DEF FreeBlock
  <2>2. /\ Append(free, b) \in Seq(Block)
        /\ \A i, j \in 1 .. Len(Append(free, b)) :
             Append(free, b)[i] = Append(free, b)[j] => i = j
        /\ {Append(free, b)[i] : i \in 1 .. Len(Append(free, b))}
             = {free[i] : i \in 1 .. Len(free)} \cup {b}
    BY <1>2, PushFree
  <2>3. DOMAIN used' = DOMAIN used \ {b} /\ used' \in [DOMAIN used' -> Int]
    BY <2>1 DEF KVInv, KVTypes
  <2> HIDE DEF b
  <2>4. BlocksPartitioned'
    <3> DEFINE before == {free[i] : i \in 1 .. Len(free)}
               after == {free'[i] : i \in 1 .. Len(free')}
    <3>1. after = before \cup {b}
      BY <2>1, <2>2
    <3>2. before \cap DOMAIN used = {} /\ before \cup DOMAIN used = Block
      BY DEF KVInv, BlocksPartitioned
    <3>3. \A i, j \in 1 .. Len(free') : free'[i] = free'[j] => i = j
      BY <2>1, <2>2
    <3> HIDE DEF before, after
    <3>4. after \cap DOMAIN used' = {} /\ after \cup DOMAIN used' = Block
      BY <1>2, <2>3, <3>1, <3>2
    <3> QED BY <3>3, <3>4 DEF BlocksPartitioned, Block, after
  <2> QED
    BY <1>1, <2>1, <2>2, <2>3, <2>4 DEF KVInv, KVTypes, FreeBlock, Block
<1>3. CASE ~(b \in DOMAIN used /\ used[b] <= 1)
  <2>1. free' = free
        /\ used' = [x \in DOMAIN used |-> IF x = b THEN used[x] - 1 ELSE used[x]]
    BY <1>3 DEF FreeBlock
  <2>2. DOMAIN used' = DOMAIN used /\ used' \in [DOMAIN used' -> Int]
    BY <2>1 DEF KVInv, KVTypes
  <2> QED
    BY <1>1, <2>1, <2>2 DEF KVInv, KVTypes, BlocksPartitioned, FreeBlock, Block
<1> QED
  BY <1>2, <1>3

LEMMA KVInvInit == KVInit => KVInv
<1> SUFFICES ASSUME KVInit PROVE KVInv
  OBVIOUS
<1>1. /\ free \in Seq(Block) /\ Len(free) = NumBlocks
      /\ \A i \in 1 .. NumBlocks : free[i] = i - 1
  BY KVAssumption DEF KVInit, Block
<1>2. KVTypes
  <2>1. CallSound
    BY DEF KVInit, CallSound, NoCall, Block
  <2>2. used \in [DOMAIN used -> Int] /\ careful \in BOOLEAN
    BY KVAssumption DEF KVInit
  <2>3. holding \in [Sequence -> SUBSET Block] /\ known \in [Sequence -> SUBSET Block]
    BY DEF KVInit
  <2> QED
    BY <1>1, <2>1, <2>2, <2>3 DEF KVTypes
<1>3. {free[i] : i \in 1 .. Len(free)} = Block
  <2>1. \A x \in Block : x + 1 \in 1 .. NumBlocks /\ free[x + 1] = x
    BY <1>1, KVAssumption DEF Block
  <2> QED
    BY <1>1, <2>1 DEF Block
<1>4. DOMAIN used = {}
  BY DEF KVInit
<1> QED
  BY <1>1, <1>2, <1>3, <1>4, KVAssumption DEF KVInv, BlocksPartitioned

LEMMA KVInvNext == KVInv /\ [KVNext]_kvVars => KVInv'
<1> SUFFICES ASSUME KVInv, [KVNext]_kvVars PROVE KVInv'
  OBVIOUS
<1>1. CASE UNCHANGED kvVars
  BY <1>1 DEF KVInv, KVTypes, CallSound, BlocksPartitioned, kvVars
<1>2. CASE KVNext
  BY <1>2, AllocateKeeps, FreeKeeps, PopKeeps, PushKeeps DEF KVNext
<1> QED
  BY <1>1, <1>2

-----------------------------------------------------------------------------
(* The owners: while callers give back what they hold, every block in use  *)
(* is held by one of them or is on its way back, and its count is one.     *)

InHands == UNION {holding[s] : s \in Sequence}
Returning == {call.ids[i] : i \in 1 .. Len(call.ids)}

Exclusive ==
  /\ \A b \in DOMAIN used : used[b] = 1
  /\ \A s, t \in Sequence : s # t => holding[s] \cap holding[t] = {}
  /\ DOMAIN used = InHands \cup Returning
  /\ Returning \cap InHands = {}
  /\ \A i, j \in 1 .. Len(call.ids) : call.ids[i] = call.ids[j] => i = j
  /\ call.op # "free" => call.ids = <<>>

OwnInv == KVInv /\ (careful => Exclusive)

LEMMA AllocateOwns ==
  ASSUME OwnInv, NEW s \in Sequence, NEW n \in 1 .. NumBlocks, Allocate(s, n)
  PROVE  OwnInv'
<1>1. KVInv'
  BY AllocateKeeps DEF OwnInv
<1>2. ASSUME careful PROVE Exclusive'
  <2>1. Exclusive /\ call.ids = <<>> /\ call'.ids = <<>>
    BY <1>2 DEF OwnInv, Allocate, NoCall
  <2>2. used' = used /\ holding' = holding
    BY DEF Allocate
  <2> QED
    BY <2>1, <2>2 DEF Exclusive, InHands, Returning
<1> QED
  BY <1>1, <1>2 DEF OwnInv, Allocate

LEMMA FreeOwns ==
  ASSUME OwnInv, NEW s \in Sequence, Free(s)
  PROVE  OwnInv'
<1>1. KVInv'
  BY FreeKeeps DEF OwnInv
<1>2. ASSUME careful PROVE Exclusive'
  <2>1. PICK ids \in Offers(s) :
          /\ call' = [op |-> "free", for |-> s, left |-> 0, ids |-> ids]
          /\ holding' = [holding EXCEPT ![s] = @ \ {ids[i] : i \in DOMAIN ids}]
    BY DEF Free
  <2>2. \E n \in {1, 2} : ids \in [1 .. n -> holding[s]]
    BY <1>2 DEF Offers
  <2>3. /\ DOMAIN ids = 1 .. Len(ids)
        /\ \A i \in 1 .. Len(ids) : ids[i] \in holding[s]
    <3>1. holding[s] \in SUBSET Block
      BY DEF OwnInv, KVInv, KVTypes
    <3> QED
      BY <2>2, <3>1, ListOfIds
  <2>4. \A i, j \in 1 .. Len(ids) : ids[i] = ids[j] => i = j
    BY <1>2, <2>3 DEF Offers
  <2> DEFINE given == {ids[i] : i \in 1 .. Len(ids)}
  <2>5. given \subseteq holding[s]
    BY <2>3
  <2>6. Returning' = given /\ Returning = {}
    BY <2>1, <2>3 DEF Returning, Free, NoCall
  <2>7. holding' = [holding EXCEPT ![s] = @ \ given] /\ used' = used
    BY <2>1, <2>3 DEF Free
  <2>8. holding \in [Sequence -> SUBSET Block] /\ Exclusive
    BY <1>2 DEF OwnInv, KVInv, KVTypes
  <2>9. \A i, j \in 1 .. Len(call'.ids) : call'.ids[i] = call'.ids[j] => i = j
    BY <2>1, <2>4
  <2> HIDE DEF given
  <2>10. \A t, u \in Sequence : t # u => holding'[t] \cap holding'[u] = {}
    BY <2>7, <2>8 DEF Exclusive
  <2>11. InHands' = InHands \ given
    <3>1. \A t \in Sequence : t # s => holding[t] \cap given = {}
      BY <2>5, <2>8 DEF Exclusive
    <3>2. \A t \in Sequence : holding'[t] = holding[t] \ given
      BY <2>7, <2>8, <3>1
    <3> QED
      BY <3>2 DEF InHands
  <2>12. given \subseteq InHands
    BY <2>5 DEF InHands
  <2> QED
    BY <2>1, <2>6, <2>7, <2>8, <2>9, <2>10, <2>11, <2>12 DEF Exclusive
<1> QED
  BY <1>1, <1>2 DEF OwnInv, Free

LEMMA PopOwns ==
  ASSUME OwnInv, PopBlock
  PROVE  OwnInv'
<1>1. KVInv'
  BY PopKeeps DEF OwnInv
<1>2. ASSUME careful PROVE Exclusive'
  <2> DEFINE b == Head(free)
  <2>1. b \notin DOMAIN used /\ call.for \in Sequence
    <3>1. free # <<>> /\ KVInv /\ call.for \in Sequence
      BY DEF OwnInv, KVInv, KVTypes, CallSound, PopBlock
    <3> QED
      BY <3>1, PopFree
  <2>2. /\ used' = [x \in DOMAIN used \cup {b} |-> IF x = b THEN 1 ELSE used[x]]
        /\ holding' = [s \in Sequence |-> holding[s] \cup (IF s = call.for THEN {b} ELSE {})]
    BY DEF PopBlock
  <2>3. call.ids = <<>> /\ call'.ids = <<>>
    <3>1. call.ids = <<>>
      BY <1>2 DEF OwnInv, Exclusive, PopBlock
    <3>2. CASE call.left = 1
      BY <3>1, <3>2 DEF PopBlock, NoCall
    <3>3. CASE call.left # 1
      BY <3>1, <3>3 DEF PopBlock, OwnInv, KVInv, KVTypes, CallSound
    <3> QED
      BY <3>1, <3>2, <3>3
  <2>4. Exclusive /\ holding \in [Sequence -> SUBSET Block]
    BY <1>2 DEF OwnInv, KVInv, KVTypes
  <2> HIDE DEF b
  <2>5. Returning = {} /\ Returning' = {}
    BY <2>3 DEF Returning
  <2>6. \A t \in Sequence : b \notin holding[t]
    BY <2>1, <2>4 DEF Exclusive, InHands
  <2>7. \A t, u \in Sequence : t # u => holding'[t] \cap holding'[u] = {}
    BY <2>2, <2>4, <2>6 DEF Exclusive
  <2>8. InHands' = InHands \cup {b}
    BY <2>1, <2>2 DEF InHands
  <2>9. DOMAIN used' = DOMAIN used \cup {b} /\ \A x \in DOMAIN used' : used'[x] = 1
    BY <2>2, <2>4 DEF Exclusive
  <2> QED
    BY <2>3, <2>4, <2>5, <2>7, <2>8, <2>9 DEF Exclusive
<1> QED
  BY <1>1, <1>2 DEF OwnInv, PopBlock

LEMMA PushOwns ==
  ASSUME OwnInv, FreeBlock
  PROVE  OwnInv'
<1>1. KVInv'
  BY PushKeeps DEF OwnInv
<1>2. ASSUME careful PROVE Exclusive'
  <2> DEFINE ids == call.ids
             b == Head(ids)
  <2>1. /\ ids \in Seq(Block) /\ ids # <<>> /\ Len(ids) \in Nat /\ Len(ids) >= 1
        /\ b = ids[1] /\ Exclusive
    BY <1>2 DEF OwnInv, KVInv, KVTypes, CallSound, FreeBlock
  <2>2. b \in Returning /\ b \in DOMAIN used /\ used[b] = 1
    <3>1. 1 \in 1 .. Len(ids) /\ b = call.ids[1]
      BY <2>1
    <3> QED
      BY <2>1, <3>1 DEF Exclusive, Returning
  <2>3. used' = [x \in DOMAIN used \ {b} |-> used[x]] /\ holding' = holding
    BY <2>2 DEF FreeBlock
  <2>4. /\ Returning' = Returning \ {b}
        /\ \A i, j \in 1 .. Len(call'.ids) : call'.ids[i] = call'.ids[j] => i = j
        /\ call'.op # "free" => call'.ids = <<>>
    <3>1. CASE Len(ids) = 1
      <4>1. call' = NoCall
        BY <3>1 DEF FreeBlock
      <4>2. \A i \in 1 .. Len(ids) : i = 1
        BY <3>1
      <4> QED
        BY <4>1, <4>2, <2>1 DEF Returning, NoCall
    <3>2. CASE Len(ids) # 1
      <4>1. call'.op = "free" /\ call'.ids = Tail(ids)
        BY <3>2 DEF FreeBlock, OwnInv, KVInv, KVTypes, CallSound
      <4>2. /\ Len(Tail(ids)) = Len(ids) - 1
            /\ \A i \in 1 .. Len(Tail(ids)) : Tail(ids)[i] = ids[i + 1]
        BY <2>1
      <4>3. \A i, j \in 1 .. Len(ids) : ids[i] = ids[j] => i = j
        BY <2>1 DEF Exclusive
      <4> HIDE DEF ids
      <4>4. \A i, j \in 1 .. Len(Tail(ids)) : Tail(ids)[i] = Tail(ids)[j] => i = j
        BY <2>1, <4>2, <4>3
      <4>5. \A i \in 1 .. Len(Tail(ids)) :
              Tail(ids)[i] \in {ids[k] : k \in 1 .. Len(ids)} \ {ids[1]}
        <5>1. TAKE i \in 1 .. Len(Tail(ids))
        <5>2. i + 1 \in 1 .. Len(ids) /\ i + 1 # 1 /\ 1 \in 1 .. Len(ids)
          BY <2>1, <4>2
        <5> QED
          BY <5>2, <4>2, <4>3
      <4>6. ASSUME NEW k \in 1 .. Len(ids), ids[k] # ids[1]
            PROVE  ids[k] \in {Tail(ids)[i] : i \in 1 .. Len(Tail(ids))}
        <5>1. k - 1 \in 1 .. Len(Tail(ids)) /\ (k - 1) + 1 = k
          BY <4>6, <2>1, <4>2
        <5>2. Tail(ids)[k - 1] = ids[k]
          BY <5>1, <4>2
        <5> QED
          BY <5>1, <5>2
      <4>7. {Tail(ids)[i] : i \in 1 .. Len(Tail(ids))}
              = {ids[k] : k \in 1 .. Len(ids)} \ {ids[1]}
        BY <4>5, <4>6
      <4>8. Returning = {ids[k] : k \in 1 .. Len(ids)}
        BY DEF Returning, ids
      <4>9. Returning' = {Tail(ids)[i] : i \in 1 .. Len(Tail(ids))}
        BY <4>1 DEF Returning
      <4>10. Returning' = Returning \ {b}
        BY <2>1, <4>7, <4>8, <4>9
      <4> QED
        BY <4>1, <4>4, <4>10
    <3> QED
      BY <3>1, <3>2
  <2> HIDE DEF ids, b
  <2>5. InHands' = InHands
    BY <2>3 DEF InHands
  <2>6. DOMAIN used' = DOMAIN used \ {b} /\ \A x \in DOMAIN used' : used'[x] = 1
    BY <2>1, <2>3 DEF Exclusive
  <2> QED
    BY <2>1, <2>2, <2>3, <2>4, <2>5, <2>6 DEF Exclusive
<1> QED
  BY <1>1, <1>2 DEF OwnInv, FreeBlock

LEMMA OwnInvInit == KVInit => OwnInv
<1> SUFFICES ASSUME KVInit PROVE OwnInv
  OBVIOUS
<1>1. DOMAIN used = {} /\ InHands = {} /\ Returning = {} /\ call.ids = <<>>
  BY DEF KVInit, NoCall, InHands, Returning
<1>2. \A s \in Sequence : holding[s] = {}
  BY DEF KVInit
<1> QED
  BY <1>1, <1>2, KVInvInit DEF OwnInv, Exclusive

LEMMA OwnInvNext == OwnInv /\ [KVNext]_kvVars => OwnInv'
<1> SUFFICES ASSUME OwnInv, [KVNext]_kvVars PROVE OwnInv'
  OBVIOUS
<1>1. CASE UNCHANGED kvVars
  <2>1. KVInv'
    BY <1>1, KVInvNext DEF OwnInv
  <2>2. used' = used /\ holding' = holding /\ call' = call /\ careful' = careful
    BY <1>1 DEF kvVars
  <2>3. InHands' = InHands /\ Returning' = Returning
    BY <2>2 DEF InHands, Returning
  <2>4. Exclusive => Exclusive'
    BY <2>2, <2>3 DEF Exclusive
  <2> QED
    BY <2>1, <2>2, <2>4 DEF OwnInv
<1>2. CASE KVNext
  BY <1>2, AllocateOwns, FreeOwns, PopOwns, PushOwns DEF KVNext
<1> QED
  BY <1>1, <1>2

LEMMA OwnInvOwned == OwnInv => BlocksOwned
<1> SUFFICES ASSUME OwnInv PROVE BlocksPartitioned /\ OwnersDisjoint
  BY DEF BlocksOwned
<1>1. BlocksPartitioned
  BY DEF OwnInv, KVInv
<1>2. ASSUME careful, call = NoCall
      PROVE  DOMAIN used = UNION {holding[s] : s \in Sequence}
  BY <1>2 DEF OwnInv, Exclusive, Returning, InHands, NoCall
<1> QED
  BY <1>1, <1>2 DEF OwnersDisjoint, OwnInv, Exclusive

\* The pool loses no block and gives none away twice, whatever ids callers
\* hand to free and in whatever order, also between two blocks of one call;
\* and callers that give back what they hold never share a block.
THEOREM PoolOwnsBlocks == KVSpec => []BlocksOwned
  BY OwnInvInit, OwnInvNext, OwnInvOwned, PTL DEF KVSpec

-----------------------------------------------------------------------------
(* The runtime's buffers.  A memory is grown by buffers and changed by     *)
(* writes to the workspaces' own; no two workspaces share a buffer.        *)

Devs == {i.dev : i \in Inputs}
Tag(k) == Unset..k
Buffer(k) == [dev : Devs, data : Seq(Tag(k))]
View == [buf : Nat, len : Nat]

MemOK(k, m) ==
  /\ k \in Nat /\ m \in [heap : Seq(Buffer(k)), slot : [Slots -> Nat]]
  /\ \A s \in Slots : m.slot[s] <= Len(m.heap)
  /\ \A s, t \in Slots : s # t /\ m.slot[s] # 0 => m.slot[s] # m.slot[t]

Room(m, b) == Len(m.heap[b].data)
Place(m, b) == m.heap[b].dev

\* From m to w the workspaces of S are written or get new buffers, no other
\* buffer of m changes.
Keeps(m, w, S) ==
  /\ Len(m.heap) <= Len(w.heap)
  /\ \A b \in 1..Len(m.heap) :
       /\ Place(w, b) = Place(m, b)
       /\ Room(w, b) = Room(m, b)
       /\ (\A s \in S : b # m.slot[s]) => w.heap[b].data = m.heap[b].data
  /\ \A s \in Slots : w.slot[s] = m.slot[s] \/ (s \in S /\ w.slot[s] > Len(m.heap))

\* A view of a buffer on a device; what no workspace but s can overwrite; what
\* none can.
Within(m, v, d) ==
  /\ v \in View /\ v.buf \in 1..Len(m.heap)
  /\ v.len <= Room(m, v.buf) /\ Place(m, v.buf) = d
ViewOK(m, v, d) == v = NoView \/ Within(m, v, d)
Has(m, v, d, s, tag) ==
  Within(m, v, d) /\ Holds(m, v, tag) /\ \A t \in Slots \ {s} : v.buf # m.slot[t]
OwnView(m, v, d, tag) ==
  Within(m, v, d) /\ Holds(m, v, tag) /\ \A s \in Slots : v.buf # m.slot[s]

LEMMA KeepsNone == ASSUME NEW k, NEW m, MemOK(k, m), NEW S PROVE Keeps(m, m, S)
BY DEF MemOK, Keeps

LEMMA KeepsBoth ==
  ASSUME NEW k, NEW m, NEW w, NEW x, NEW S \in SUBSET Slots, NEW T \in SUBSET Slots,
         MemOK(k, m), MemOK(k, w), MemOK(k, x), Keeps(m, w, S), Keeps(w, x, T)
  PROVE  Keeps(m, x, S \cup T)
<1>1. /\ Len(m.heap) \in Nat /\ Len(w.heap) \in Nat /\ Len(x.heap) \in Nat
      /\ Len(m.heap) <= Len(w.heap) /\ Len(w.heap) <= Len(x.heap)
  BY DEF MemOK, Keeps
<1>2. ASSUME NEW s \in Slots
      PROVE  x.slot[s] = m.slot[s] \/ (s \in S \cup T /\ x.slot[s] > Len(m.heap))
  <2>1. w.slot[s] = m.slot[s] \/ (s \in S /\ w.slot[s] > Len(m.heap))
    BY DEF Keeps
  <2>2. x.slot[s] = w.slot[s] \/ (s \in T /\ x.slot[s] > Len(w.heap))
    BY DEF Keeps
  <2>3. x.slot[s] \in Nat
    BY DEF MemOK
  <2> QED BY <1>1, <2>1, <2>2, <2>3
<1>3. ASSUME NEW b \in 1..Len(m.heap)
      PROVE  /\ Place(x, b) = Place(m, b)
             /\ Room(x, b) = Room(m, b)
             /\ (\A s \in S \cup T : b # m.slot[s]) => x.heap[b].data = m.heap[b].data
  <2>1. b \in 1..Len(w.heap)
    BY <1>1
  <2>2. /\ Place(w, b) = Place(m, b)
        /\ Room(w, b) = Room(m, b)
        /\ (\A s \in S : b # m.slot[s]) => w.heap[b].data = m.heap[b].data
    BY DEF Keeps
  <2>3. /\ Place(x, b) = Place(w, b)
        /\ Room(x, b) = Room(w, b)
        /\ (\A s \in T : b # w.slot[s]) => x.heap[b].data = w.heap[b].data
    BY <2>1 DEF Keeps
  <2>4. ASSUME \A s \in S \cup T : b # m.slot[s], NEW s \in T PROVE b # w.slot[s]
    <3>1. w.slot[s] = m.slot[s] \/ w.slot[s] > Len(m.heap)
      BY DEF Keeps
    <3>2. w.slot[s] \in Nat
      BY DEF MemOK
    <3> QED BY <1>1, <2>4, <3>1, <3>2
  <2> QED BY <2>2, <2>3, <2>4
<1> QED BY <1>1, <1>2, <1>3 DEF Keeps

LEMMA WithinStays ==
  ASSUME NEW k, NEW m, NEW w, NEW S, MemOK(k, m), MemOK(k, w), Keeps(m, w, S),
         NEW v, NEW d, Within(m, v, d)
  PROVE  Within(w, v, d)
<1>1. /\ v.buf \in 1..Len(m.heap) /\ Len(m.heap) <= Len(w.heap)
      /\ Len(m.heap) \in Nat /\ Len(w.heap) \in Nat
  BY DEF MemOK, Keeps, Within
<1>2. v.buf \in 1..Len(w.heap)
  BY <1>1
<1>3. Place(w, v.buf) = Place(m, v.buf) /\ Room(w, v.buf) = Room(m, v.buf)
  BY <1>1 DEF Keeps
<1> QED BY <1>2, <1>3 DEF Within

LEMMA ViewStays ==
  ASSUME NEW k, NEW m, NEW w, NEW S, MemOK(k, m), MemOK(k, w), Keeps(m, w, S),
         NEW v, NEW d, ViewOK(m, v, d)
  PROVE  ViewOK(w, v, d)
BY WithinStays DEF ViewOK

LEMMA HasStays ==
  ASSUME NEW k, NEW m, NEW w, NEW S \in SUBSET Slots, MemOK(k, m), MemOK(k, w), Keeps(m, w, S),
         NEW v, NEW d, NEW s \in Slots \ S, NEW tag, Has(m, v, d, s, tag)
  PROVE  Has(w, v, d, s, tag)
<1>1. v.buf \in 1..Len(m.heap) /\ Len(m.heap) \in Nat
  BY DEF Has, Within, MemOK
<1>2. \A t \in S : v.buf # m.slot[t]
  BY DEF Has
<1>3. w.heap[v.buf].data = m.heap[v.buf].data
  BY <1>1, <1>2 DEF Keeps
<1>4. ASSUME NEW t \in Slots \ {s} PROVE v.buf # w.slot[t]
  <2>1. w.slot[t] = m.slot[t] \/ w.slot[t] > Len(m.heap)
    BY DEF Keeps
  <2>2. w.slot[t] \in Nat /\ v.buf # m.slot[t]
    BY DEF MemOK, Has
  <2> QED BY <1>1, <2>1, <2>2
<1>5. Within(w, v, d)
  BY WithinStays DEF Has
<1> QED BY <1>3, <1>4, <1>5 DEF Has, Holds

LEMMA OwnStays ==
  ASSUME NEW k, NEW m, NEW w, NEW S \in SUBSET Slots, MemOK(k, m), MemOK(k, w), Keeps(m, w, S),
         NEW v, NEW d, NEW tag, OwnView(m, v, d, tag)
  PROVE  OwnView(w, v, d, tag)
<1>1. v.buf \in 1..Len(m.heap) /\ Len(m.heap) \in Nat
  BY DEF OwnView, Within, MemOK
<1>2. w.heap[v.buf].data = m.heap[v.buf].data
  BY <1>1 DEF Keeps, OwnView
<1>3. ASSUME NEW s \in Slots PROVE v.buf # w.slot[s]
  <2>1. w.slot[s] = m.slot[s] \/ w.slot[s] > Len(m.heap)
    BY DEF Keeps
  <2>2. w.slot[s] \in Nat /\ v.buf # m.slot[s]
    BY DEF MemOK, OwnView
  <2> QED BY <1>1, <2>1, <2>2
<1>4. Within(w, v, d)
  BY WithinStays DEF OwnView
<1> QED BY <1>2, <1>3, <1>4 DEF OwnView, Holds

\* w is the memory m with one more tensor, of n cells on device d, nothing written in it.
AllocatedAs(k, m, n, d, w) ==
  /\ w \in [heap : Seq(Buffer(k)), slot : [Slots -> Nat]]
  /\ Len(w.heap) = Len(m.heap) + 1
  /\ \A b \in 1..Len(m.heap) : w.heap[b] = m.heap[b]
  /\ Place(w, Len(m.heap) + 1) = d
  /\ w.heap[Len(m.heap) + 1].data \in Seq(Tag(k))
  /\ Room(w, Len(m.heap) + 1) = n
  /\ \A i \in 1..n : w.heap[Len(m.heap) + 1].data[i] = Unset
  /\ w.slot = m.slot

LEMMA AllocatedFacts ==
  ASSUME NEW k, NEW m, MemOK(k, m), NEW n \in Nat, NEW d \in Devs, NEW w, w = Allocated(m, n, d)
  PROVE  AllocatedAs(k, m, n, d, w)
<1> DEFINE new == [dev |-> d, data |-> [i \in 1..n |-> Unset]]
<1>1. [i \in 1..n |-> Unset] \in Seq(Tag(k))
  <2>1. Unset \in Tag(k)
    BY DEF Unset, Tag, MemOK
  <2> HIDE DEF Unset
  <2> QED BY <2>1
<1>2. /\ new.data \in Seq(Tag(k)) /\ Len(new.data) = n /\ new.dev = d
      /\ \A i \in 1..n : new.data[i] = Unset
  <2>1. Len([i \in 1..n |-> Unset]) = n
    OBVIOUS
  <2> QED BY <1>1, <2>1
<1>3. new \in Buffer(k)
  BY <1>1 DEF Buffer
<1>4. w = [m EXCEPT !.heap = Append(m.heap, new)]
  BY DEF Allocated
<1>5. m.heap \in Seq(Buffer(k)) /\ m.slot \in [Slots -> Nat]
  BY DEF MemOK
<1> HIDE DEF new
<1>10. Append(m.heap, new) \in Seq(Buffer(k))
  BY <1>3, <1>5
<1>6. w.heap = Append(m.heap, new) /\ w.slot = m.slot
      /\ w \in [heap : Seq(Buffer(k)), slot : [Slots -> Nat]]
  BY <1>4, <1>10 DEF MemOK
<1>7. /\ Len(w.heap) = Len(m.heap) + 1
      /\ \A b \in 1..Len(m.heap) : w.heap[b] = m.heap[b]
      /\ w.heap[Len(m.heap) + 1] = new
  BY <1>3, <1>5, <1>6
<1> QED BY <1>2, <1>6, <1>7 DEF AllocatedAs, Place, Room

\* v is the tensor of n cells on device d that w has and m had not: no workspace's.
OwnTensor(k, m, n, d, w, v) ==
  /\ MemOK(k, w) /\ Keeps(m, w, {}) /\ Within(w, v, d)
  /\ \A s \in Slots : v.buf # w.slot[s]
  /\ v = [buf |-> Len(m.heap) + 1, len |-> n]

(* A tensor of its own leaves every workspace as it was.                   *)
LEMMA AllocatedKeeps ==
  ASSUME NEW k, NEW m, MemOK(k, m), NEW n \in Nat, NEW d \in Devs,
         NEW w, w = Allocated(m, n, d), NEW v, v = Newest(w, n)
  PROVE  OwnTensor(k, m, n, d, w, v)
<1>1. /\ w \in [heap : Seq(Buffer(k)), slot : [Slots -> Nat]]
      /\ Len(w.heap) = Len(m.heap) + 1
      /\ \A b \in 1..Len(m.heap) : w.heap[b] = m.heap[b]
      /\ Place(w, Len(m.heap) + 1) = d
      /\ Room(w, Len(m.heap) + 1) = n
      /\ w.slot = m.slot
  <2>1. w = Allocated(m, n, d) /\ MemOK(k, m) /\ n \in Nat /\ d \in Devs
    OBVIOUS
  <2>2. AllocatedAs(k, m, n, d, w)
    BY ONLY <2>1, AllocatedFacts
  <2> QED BY <2>2 DEF AllocatedAs
<1>2. Len(m.heap) \in Nat /\ \A s \in Slots : m.slot[s] \in Nat /\ m.slot[s] <= Len(m.heap)
  BY DEF MemOK
<1>3. \A s \in Slots : w.slot[s] <= Len(w.heap) /\ w.slot[s] # Len(w.heap)
  BY <1>1, <1>2
<1>4. MemOK(k, w)
  BY <1>1, <1>3 DEF MemOK
<1>5. Keeps(m, w, {})
  BY <1>1, <1>2 DEF Keeps, Place, Room
<1>6. Newest(w, n) = [buf |-> Len(m.heap) + 1, len |-> n]
  BY <1>1 DEF Newest
<1>7. Within(w, Newest(w, n), d)
  BY <1>1, <1>2, <1>6 DEF Within, View
<1> QED BY <1>1, <1>3, <1>4, <1>5, <1>6, <1>7 DEF OwnTensor

\* What a workspace's buffer has become when n on device d were asked of it.
Grown(m, w, s, n, d) ==
  /\ w.slot[s] # 0 /\ Place(w, w.slot[s]) = d
  /\ m.slot[s] = 0 \/ Capacity(m, s) < n \/ Place(m, m.slot[s]) # d => Capacity(w, s) = n
  /\ ~(m.slot[s] = 0 \/ Capacity(m, s) < n \/ Place(m, m.slot[s]) # d)
        => Capacity(w, s) = Capacity(m, s)

LEMMA EnsureKeeps ==
  ASSUME NEW k, NEW m, MemOK(k, m), NEW s \in Slots, NEW n \in Nat \ {0},
         NEW d \in Devs, NEW w, w = Ensure(m, s, n, d)
  PROVE  /\ MemOK(k, w) /\ Keeps(m, w, {s})
         /\ Within(w, [buf |-> w.slot[s], len |-> n], d)
         /\ \A t \in Slots \ {s} : w.slot[t] = m.slot[t]
         /\ Grown(m, w, s, n, d)
<1> DEFINE x == Allocated(m, n, d)
<1>1. CASE m.slot[s] = 0 \/ Capacity(m, s) < n \/ Place(m, m.slot[s]) # d
  <2>1. /\ x \in [heap : Seq(Buffer(k)), slot : [Slots -> Nat]]
        /\ Len(x.heap) = Len(m.heap) + 1
        /\ \A b \in 1..Len(m.heap) : x.heap[b] = m.heap[b]
        /\ Place(x, Len(m.heap) + 1) = d
        /\ x.heap[Len(m.heap) + 1].data \in Seq(Tag(k))
        /\ Room(x, Len(m.heap) + 1) = n
        /\ x.slot = m.slot
    <3>1. x = Allocated(m, n, d) /\ MemOK(k, m) /\ n \in Nat /\ d \in Devs
      OBVIOUS
    <3> HIDE DEF x
    <3>2. AllocatedAs(k, m, n, d, x)
      BY ONLY <3>1, AllocatedFacts
    <3> QED BY <3>2 DEF AllocatedAs
  <2>2. w = [x EXCEPT !.slot[s] = Len(m.heap) + 1]
    BY <1>1 DEF Ensure, Place, Room
  <2> HIDE DEF x
  <2>3. Len(m.heap) \in Nat /\ \A t \in Slots : m.slot[t] \in Nat /\ m.slot[t] <= Len(m.heap)
    BY DEF MemOK
  <2>4. w = [heap |-> x.heap, slot |-> [x.slot EXCEPT ![s] = Len(m.heap) + 1]]
    BY <2>1, <2>2
  <2>5. w.heap = x.heap /\ w.slot = [m.slot EXCEPT ![s] = Len(m.heap) + 1]
    BY <2>1, <2>4
  <2>6. m.slot \in [Slots -> Nat]
    BY DEF MemOK
  <2>7. /\ w.slot[s] = Len(m.heap) + 1 /\ w.slot \in [Slots -> Nat]
        /\ \A t \in Slots \ {s} : w.slot[t] = m.slot[t]
    BY <2>3, <2>5, <2>6
  <2>8. w \in [heap : Seq(Buffer(k)), slot : [Slots -> Nat]]
    BY <2>1, <2>3, <2>4, <2>6
  <2>9. MemOK(k, w)
    <3>1. \A t \in Slots : w.slot[t] <= Len(w.heap)
      BY <2>1, <2>3, <2>5, <2>7
    <3>2. ASSUME NEW t \in Slots, NEW u \in Slots, t # u, w.slot[t] # 0
          PROVE  w.slot[t] # w.slot[u]
      <4>1. CASE t = s
        BY <4>1, <3>2, <2>3, <2>7
      <4>2. CASE u = s
        BY <4>2, <3>2, <2>3, <2>7
      <4>3. CASE t # s /\ u # s
        BY <4>3, <3>2, <2>7 DEF MemOK
      <4> QED BY <4>1, <4>2, <4>3
    <3> QED BY <2>8, <3>1, <3>2 DEF MemOK
  <2>10. Keeps(m, w, {s})
    BY <2>1, <2>3, <2>5, <2>7 DEF Keeps, Place, Room
  <2>11. Capacity(w, s) = n
    BY <2>1, <2>5, <2>7 DEF Capacity, Place, Room
  <2>12. w.slot[s] \in 1..Len(w.heap) /\ Place(w, w.slot[s]) = d
    BY <2>1, <2>3, <2>5, <2>7 DEF Place, Room
  <2>13. Grown(m, w, s, n, d)
    BY <1>1, <2>3, <2>7, <2>11, <2>12 DEF Grown
  <2>14. Within(w, [buf |-> w.slot[s], len |-> n], d)
    BY <2>7, <2>11, <2>12 DEF Within, View, Capacity, Place, Room
  <2> QED BY <1>1, <2>7, <2>9, <2>10, <2>11, <2>13, <2>14
<1>2. CASE ~(m.slot[s] = 0 \/ Capacity(m, s) < n \/ Place(m, m.slot[s]) # d)
  <2>1. w = m
    BY <1>2 DEF Ensure, Place, Room
  <2>2. m.slot[s] \in 1..Len(m.heap) /\ m.heap[m.slot[s]] \in Buffer(k)
    BY <1>2 DEF MemOK
  <2>3. Capacity(m, s) >= n
    BY <1>2, <2>2 DEF Capacity, Buffer
  <2>4. Keeps(m, m, {s})
    BY KeepsNone
  <2>5. Within(m, [buf |-> m.slot[s], len |-> n], d)
    <3>1. m.slot[s] \in Nat /\ Room(m, m.slot[s]) \in Nat
      BY <2>2 DEF MemOK, Buffer, Place, Room
    <3> QED BY <1>2, <2>2, <3>1 DEF Within, View, Capacity, Place, Room
  <2>6. Grown(m, m, s, n, d)
    BY <1>2, <2>2 DEF Grown, Place
  <2> QED BY <1>2, <2>1, <2>3, <2>4, <2>5, <2>6
<1> QED BY <1>1, <1>2

\* A buffer that is not among those of m, or the one a workspace had already.
Fresh(m, b, S) == b > Len(m.heap) \/ \E s \in S : b = m.slot[s]

\* What a stage gets: a view of a workspace's buffer, or of one of its own.
Got(k, m, w, v, s, n, d) ==
  /\ MemOK(k, w) /\ Keeps(m, w, {s})
  /\ Within(w, v, d) /\ v.len = n /\ Fresh(m, v.buf, {s})
  /\ \A t \in Slots \ {s} : v.buf # w.slot[t]
  /\ config.workspace => Grown(m, w, s, n, d)
  /\ ~config.workspace => w.slot = m.slot

LEMMA ObtainGot ==
  ASSUME NEW k, NEW m, MemOK(k, m), NEW s \in Slots, NEW n \in Nat \ {0}, NEW d \in Devs,
         config.workspace \in BOOLEAN
  PROVE  Got(k, m, Obtain(m, s, n, d).mem, Obtain(m, s, n, d).view, s, n, d)
<1>1. CASE config.workspace
  <2> PICK w : w = Ensure(m, s, n, d)
    OBVIOUS
  <2> DEFINE v == [buf |-> w.slot[s], len |-> n]
  <2>1. Obtain(m, s, n, d) = [mem |-> w, view |-> v]
    BY <1>1 DEF Obtain
  <2>2. /\ MemOK(k, w) /\ Keeps(m, w, {s})
        /\ Within(w, v, d)
        /\ Grown(m, w, s, n, d)
    BY <1>1, EnsureKeeps
  <2>3. v.buf = w.slot[s] /\ v.len = n
    OBVIOUS
  <2>7. Fresh(m, v.buf, {s})
    <3>1. m.slot[s] = w.slot[s] \/ w.slot[s] > Len(m.heap)
      BY <2>2 DEF Keeps
    <3> QED BY <1>1, <2>3, <3>1 DEF Fresh
  <2>8. \A t \in Slots \ {s} : v.buf # w.slot[t]
    <3>1. w.slot[s] # 0
      BY <2>2, <2>3 DEF Within
    <3> QED BY <2>2, <2>3, <3>1 DEF MemOK
  <2> HIDE DEF v
  <2> QED BY <1>1, <2>1, <2>2, <2>3, <2>7, <2>8 DEF Got
<1>2. CASE ~config.workspace
  <2> DEFINE w == Allocated(m, n, d)
             v == [buf |-> Len(w.heap), len |-> n]
  <2>1. Obtain(m, s, n, d) = [mem |-> w, view |-> v]
    BY <1>2 DEF Obtain
  <2>2. v = Newest(w, n)
    BY DEF Newest
  <2>3. /\ MemOK(k, w) /\ Keeps(m, w, {}) /\ Within(w, v, d)
        /\ v = [buf |-> Len(m.heap) + 1, len |-> n]
        /\ \A t \in Slots : v.buf # w.slot[t]
    <3>1. w = Allocated(m, n, d) /\ v = Newest(w, n) /\ MemOK(k, m) /\ n \in Nat /\ d \in Devs
      BY <2>2
    <3> HIDE DEF v, w
    <3>2. OwnTensor(k, m, n, d, w, v)
      BY ONLY <3>1, AllocatedKeeps
    <3> QED BY <3>2 DEF OwnTensor
  <2>6. w.slot = m.slot
    BY DEF Allocated, MemOK
  <2> HIDE DEF w, v
  <2>4. Keeps(m, w, {s})
    BY <2>3 DEF Keeps
  <2>5. Fresh(m, v.buf, {s}) /\ v.len = n
    BY <2>3 DEF Fresh, MemOK
  <2> QED BY <1>2, <2>1, <2>3, <2>4, <2>5, <2>6 DEF Got
<1> QED BY <1>1, <1>2

\* The cells x are the cells q with t written over the first n.
FilledTo(T, q, t, n, x) ==
  x \in Seq(T) /\ Len(x) = Len(q) /\ \A i \in 1..Len(q) : i <= n => x[i] = t

LEMMA PartWritten ==
  ASSUME NEW T, NEW q \in Seq(T), NEW t \in T, NEW n \in Nat, NEW x,
         DOMAIN x = DOMAIN q, x = [i \in DOMAIN x |-> x[i]],
         \A i \in DOMAIN q : x[i] = IF i <= n THEN t ELSE q[i]
  PROVE  FilledTo(T, q, t, n, x)
<1>1. DOMAIN q = 1..Len(q) /\ Len(q) \in Nat /\ \A i \in 1..Len(q) : q[i] \in T
  OBVIOUS
<1>2. x \in [1..Len(q) -> T]
  BY <1>1
<1>3. x \in Seq(T) /\ Len(x) = Len(q)
  BY <1>1, <1>2
<1> QED BY <1>1, <1>3 DEF FilledTo

LEMMA WrittenFacts ==
  ASSUME NEW k, NEW w, MemOK(k, w), NEW v, NEW d, Within(w, v, d), NEW tag \in Tag(k),
         NEW x, x = Written(w, v, tag)
  PROVE  /\ MemOK(k, x) /\ x.slot = w.slot /\ Len(x.heap) = Len(w.heap)
         /\ \A b \in 1..Len(w.heap) :
              /\ Place(x, b) = Place(w, b)
              /\ Room(x, b) = Room(w, b)
              /\ b # v.buf => x.heap[b] = w.heap[b]
         /\ Within(x, v, d) /\ Holds(x, v, tag)
<1> DEFINE old == w.heap[v.buf].data
           new == [i \in DOMAIN old |-> IF i <= v.len THEN tag ELSE old[i]]
           row == [w.heap[v.buf] EXCEPT !.data = new]
<1>1. /\ v \in View /\ v.buf \in 1..Len(w.heap) /\ w.heap \in Seq(Buffer(k))
      /\ w.heap[v.buf] \in Buffer(k) /\ w.slot \in [Slots -> Nat]
      /\ w \in [heap : Seq(Buffer(k)), slot : [Slots -> Nat]]
  BY DEF Within, MemOK
<1>2. old \in Seq(Tag(k)) /\ DOMAIN old = 1..Len(old) /\ Len(old) \in Nat
  BY <1>1 DEF Buffer
<1>3. new \in Seq(Tag(k)) /\ Len(new) = Len(old) /\ \A i \in 1..Len(old) : i <= v.len => new[i] = tag
  <2>1. v.len \in Nat
    BY <1>1 DEF View
  <2>2. /\ DOMAIN new = DOMAIN old /\ new = [i \in DOMAIN new |-> new[i]]
        /\ \A i \in DOMAIN old : new[i] = IF i <= v.len THEN tag ELSE old[i]
    <3> HIDE DEF old
    <3> QED OBVIOUS
  <2> HIDE DEF new, old
  <2>3. PICK T : T = Tag(k)
    OBVIOUS
  <2>4. old \in Seq(T) /\ tag \in T
    BY <1>2, <2>3
  <2>5. PICK n \in Nat : n = v.len
    BY <2>1
  <2>6. /\ DOMAIN new = DOMAIN old /\ new = [i \in DOMAIN new |-> new[i]]
        /\ \A i \in DOMAIN old : new[i] = IF i <= n THEN tag ELSE old[i]
    BY <2>2, <2>5
  <2>7. FilledTo(T, old, tag, n, new)
    BY ONLY n \in Nat, <2>4, <2>6, PartWritten
  <2> QED BY <2>3, <2>5, <2>7 DEF FilledTo
<1>4. x = [w EXCEPT !.heap = [w.heap EXCEPT ![v.buf] = row]]
  BY DEF Written
<1>5. row \in Buffer(k) /\ row.data = new /\ row.dev = Place(w, v.buf)
  <2> HIDE DEF new
  <2> QED BY <1>1, <1>3 DEF Buffer, Place, Room
<1> HIDE DEF row, new, old
<1>6. x = [heap |-> [w.heap EXCEPT ![v.buf] = row], slot |-> w.slot]
  BY <1>1, <1>4
<1>7. x.heap = [w.heap EXCEPT ![v.buf] = row] /\ x.slot = w.slot
  BY <1>6
<1>8. /\ x.heap \in Seq(Buffer(k)) /\ Len(x.heap) = Len(w.heap) /\ x.heap[v.buf] = row
      /\ \A b \in 1..Len(w.heap) : b # v.buf => x.heap[b] = w.heap[b]
  BY <1>1, <1>5, <1>7
<1>9. x \in [heap : Seq(Buffer(k)), slot : [Slots -> Nat]]
  BY <1>1, <1>6, <1>7, <1>8
<1>10. MemOK(k, x)
  BY <1>7, <1>8, <1>9 DEF MemOK
<1>11. \A b \in 1..Len(w.heap) :
              /\ Place(x, b) = Place(w, b)
              /\ Room(x, b) = Room(w, b)
              /\ b # v.buf => x.heap[b] = w.heap[b]
  BY <1>1, <1>3, <1>5, <1>8 DEF old, Place, Room
<1>12. Within(x, v, d)
  BY <1>1, <1>8, <1>11 DEF Within
<1>13. Holds(x, v, tag)
  <2>1. v.len <= Len(old) /\ v.len \in Nat
    BY <1>1 DEF Within, old, View, Place, Room
  <2> QED BY <1>2, <1>3, <1>5, <1>8, <2>1 DEF Holds
<1> QED BY <1>7, <1>8, <1>10, <1>11, <1>12, <1>13

(* Writing what is fresh disturbs nothing but the workspaces it came from. *)
LEMMA WrittenKeeps ==
  ASSUME NEW k, NEW m, MemOK(k, m), NEW w, MemOK(k, w), NEW S \in SUBSET Slots, Keeps(m, w, S),
         NEW v, NEW d, Within(w, v, d), Fresh(m, v.buf, S), NEW tag \in Tag(k)
  PROVE  Keeps(m, Written(w, v, tag), S)
<1> DEFINE x == Written(w, v, tag)
<1>1. /\ MemOK(k, x) /\ x.slot = w.slot /\ Len(x.heap) = Len(w.heap)
      /\ \A b \in 1..Len(w.heap) :
           /\ Place(x, b) = Place(w, b)
           /\ Room(x, b) = Room(w, b)
           /\ b # v.buf => x.heap[b] = w.heap[b]
  BY WrittenFacts
<1> HIDE DEF x
<1>2. Len(m.heap) <= Len(w.heap) /\ Len(m.heap) \in Nat /\ Len(w.heap) \in Nat
  BY DEF MemOK, Keeps
<1>3. ASSUME NEW b \in 1..Len(m.heap)
      PROVE  /\ Place(x, b) = Place(m, b)
             /\ Room(x, b) = Room(m, b)
             /\ (\A s \in S : b # m.slot[s]) => x.heap[b].data = m.heap[b].data
  <2>1. b \in 1..Len(w.heap)
    BY <1>2
  <2>2. /\ Place(w, b) = Place(m, b)
        /\ Room(w, b) = Room(m, b)
        /\ (\A s \in S : b # m.slot[s]) => w.heap[b].data = m.heap[b].data
    BY DEF Keeps
  <2>3. ASSUME \A s \in S : b # m.slot[s] PROVE b # v.buf
    BY <1>2, <2>3 DEF Fresh, Within, View
  <2> QED BY <1>1, <2>1, <2>2, <2>3
<1>4. Keeps(m, x, S)
  BY <1>1, <1>2, <1>3 DEF Keeps
<1> QED BY <1>4 DEF x

(* What a buffer that is not written keeps.                                *)
LEMMA WrittenElsewhere ==
  ASSUME NEW k, NEW w, MemOK(k, w), NEW v, NEW d, Within(w, v, d), NEW tag \in Tag(k),
         NEW u, NEW e, u.buf # v.buf, NEW s, NEW t
  PROVE  /\ Within(w, u, e) => Within(Written(w, v, tag), u, e)
         /\ Has(w, u, e, s, t) => Has(Written(w, v, tag), u, e, s, t)
         /\ OwnView(w, u, e, t) => OwnView(Written(w, v, tag), u, e, t)
<1> DEFINE x == Written(w, v, tag)
<1> x = Written(w, v, tag)
  OBVIOUS
<1> HIDE DEF x
<1>1. /\ MemOK(k, x) /\ x.slot = w.slot /\ Len(x.heap) = Len(w.heap)
      /\ \A b \in 1..Len(w.heap) : b # v.buf => x.heap[b] = w.heap[b]
  BY WrittenFacts
<1>2. Within(w, u, e) => Within(x, u, e)
  BY <1>1 DEF Within, Place, Room
<1>3. Has(w, u, e, s, t) => Has(x, u, e, s, t)
  BY <1>1, <1>2 DEF Has, Holds, Within
<1>4. OwnView(w, u, e, t) => OwnView(x, u, e, t)
  BY <1>1, <1>2 DEF OwnView, Holds, Within
<1> QED BY <1>2, <1>3, <1>4 DEF x

(* Writing a buffer leaves its size and its device.                        *)
LEMMA WrittenGrown ==
  ASSUME NEW k, NEW w, MemOK(k, w), NEW v, NEW e, Within(w, v, e), NEW tag \in Tag(k),
         NEW m, NEW s \in Slots, NEW n, NEW d, Grown(m, w, s, n, d)
  PROVE  Grown(m, Written(w, v, tag), s, n, d)
<1> PICK x : x = Written(w, v, tag)
  OBVIOUS
<1>1. /\ x.slot = w.slot
      /\ \A b \in 1..Len(w.heap) : Place(x, b) = Place(w, b) /\ Room(x, b) = Room(w, b)
  BY WrittenFacts
<1>2. w.slot[s] \in 1..Len(w.heap)
  BY DEF Grown, MemOK
<1>3. Capacity(x, s) = Capacity(w, s) /\ Place(x, x.slot[s]) = Place(w, w.slot[s])
  BY <1>1, <1>2 DEF Capacity, Room
<1> QED BY <1>1, <1>3 DEF Grown

(* A workspace that only others have grown.                                *)
LEMMA GrownStays ==
  ASSUME NEW k, NEW m, NEW w, NEW S, MemOK(k, m), MemOK(k, w), Keeps(m, w, S),
         NEW s \in Slots \ S
  PROVE  /\ w.slot[s] = m.slot[s]
         /\ m.slot[s] # 0 => /\ Capacity(w, s) = Capacity(m, s)
                             /\ Place(w, w.slot[s]) = Place(m, m.slot[s])
<1>1. w.slot[s] = m.slot[s]
  BY DEF Keeps
<1>2. m.slot[s] # 0 => m.slot[s] \in 1..Len(m.heap)
  BY DEF MemOK
<1> QED BY <1>1, <1>2 DEF Keeps, Capacity, Room

\* What a stage that fills a view has, and what it leaves.
Full(k, m, w, v, s, n, d, tag) ==
  /\ MemOK(k, w) /\ Keeps(m, w, {s}) /\ Has(w, v, d, s, tag) /\ v.len = n
  /\ config.workspace => Grown(m, w, s, n, d)
  /\ ~config.workspace => w.slot = m.slot

LEMMA FilledFull ==
  ASSUME NEW k, NEW m, MemOK(k, m), NEW s \in Slots, NEW n \in Nat \ {0}, NEW d \in Devs,
         NEW tag \in Tag(k), config.workspace \in BOOLEAN
  PROVE  Full(k, m, Filled(m, s, n, d, tag).mem, Filled(m, s, n, d, tag).view, s, n, d, tag)
<1> DEFINE o == Obtain(m, s, n, d)
           x == Written(o.mem, o.view, tag)
<1>1. Got(k, m, o.mem, o.view, s, n, d)
  BY ObtainGot
<1>2. Filled(m, s, n, d, tag) = [mem |-> x, view |-> o.view]
  BY DEF Filled
<1> HIDE DEF o
<1>3. MemOK(k, x) /\ x.slot = o.mem.slot /\ Within(x, o.view, d) /\ Holds(x, o.view, tag)
  BY <1>1, WrittenFacts DEF Got
<1>4. Keeps(m, x, {s})
  BY <1>1, WrittenKeeps DEF Got
<1> HIDE DEF x
<1>5. Has(x, o.view, d, s, tag) /\ o.view.len = n
  BY <1>1, <1>3 DEF Has, Got
<1>6. Grown(m, o.mem, s, n, d) => Grown(m, x, s, n, d)
  BY <1>1, WrittenGrown DEF Got, x
<1> QED BY <1>1, <1>2, <1>3, <1>4, <1>5, <1>6 DEF Full, Got

-----------------------------------------------------------------------------
(* What the plan of a forward has, stage by stage.                         *)

PlanRecord ==
  [id : Nat, size : Nat \ {0}, dev : Devs, input : Nat,
   assignments : View, schedule : View, barriers : View, dependencies : View,
   topology : View, local : View, remote : View, packed : View, rows : View,
   hidden : View, statistics : [active : Nat, batches : Nat]]

HasOrNone(m, v, d, s, tag) == v = NoView \/ Has(m, v, d, s, tag)

Assigned(m, p) ==
  Has(m, p.assignments, p.dev, "assignments", p.id) /\ p.assignments.len = p.size
Scheduled(m, p) ==
  /\ Has(m, p.schedule, p.dev, "schedule", p.id) /\ p.schedule.len = p.size
  /\ HasOrNone(m, p.barriers, p.dev, "barriers", Zero)
Prepared(m, p) ==
  /\ Assigned(m, p) /\ Scheduled(m, p) /\ p.local = p.schedule
  /\ HasOrNone(m, p.topology, p.dev, "topology", Zero)
Executed(m, b, p) ==
  /\ b.accumulate => OwnView(m, p.rows, p.dev, p.id)
  /\ ~b.accumulate => Has(m, p.rows, p.dev, "weighted", p.id)
  /\ b.packed => Has(m, p.packed, p.dev, "packed", p.id)

\* Host rows kept for a plan are its schedule.
RowsFor(r, p) == r.plan = p.id => r.data = [i \in 1..p.size |-> p.id]

\* A plan of one of k forwards, made when there were n results.
Known(m, r, k, n, p) ==
  /\ p \in PlanRecord /\ p.id \in 1..k /\ p.input \in 0..n /\ RowsFor(r, p)
  /\ \A v \in Viewed(p) : ViewOK(m, v, p.dev)

\* What a kept result has; b is the runtime's configuration.
ResultOK(m, b, r, k, n, p) ==
  /\ Known(m, r, k, n, p) /\ OwnView(m, p.hidden, p.dev, p.id)
  /\ ~b.workspace \/ p.id = k => Prepared(m, p)

SameForward(p, q) == p.id = q.id => p.size = q.size /\ p.dev = q.dev

Planning == {"assignments", "schedule", "barriers", "topology"}

LEMMA KnownStays ==
  ASSUME NEW k, NEW m, NEW w, NEW S, MemOK(k, m), MemOK(k, w), Keeps(m, w, S),
         NEW r, NEW n \in Nat, NEW p, Known(m, r, k, n, p),
         NEW q, RowsFor(q, p), NEW l \in Nat, n <= l
  PROVE  Known(w, q, k, l, p)
<1>1. \A v \in Viewed(p) : ViewOK(w, v, p.dev)
  BY ViewStays DEF Known
<1>2. p.input \in 0..l
  BY DEF Known
<1> QED BY <1>1, <1>2 DEF Known

LEMMA PreparedStays ==
  ASSUME NEW k, NEW m, NEW w, NEW S \in SUBSET (Slots \ Planning),
         MemOK(k, m), MemOK(k, w), Keeps(m, w, S), NEW p
  PROVE  Prepared(m, p) => Prepared(w, p)
<1>1. ASSUME NEW s \in Planning, NEW v, NEW d, NEW t, Has(m, v, d, s, t)
      PROVE  Has(w, v, d, s, t)
  <2>1. s \in Slots \ S /\ S \in SUBSET Slots
    BY DEF Planning, Slots
  <2> QED BY <1>1, <2>1, HasStays
<1>2. {"assignments", "schedule", "barriers", "topology"} = Planning
  BY DEF Planning
<1> QED BY <1>1, <1>2 DEF Prepared, Assigned, Scheduled, HasOrNone

(* Without workspaces every buffer is of somebody's own.                   *)
LEMMA KeepsUnshared ==
  ASSUME NEW k, NEW m, NEW w, NEW S, MemOK(k, m), Keeps(m, w, S),
         \A s \in Slots : m.slot[s] = 0, w.slot = m.slot, S \subseteq Slots
  PROVE  Keeps(m, w, {})
<1>1. Len(m.heap) <= Len(w.heap)
  BY DEF Keeps
<1>2. \A b \in 1..Len(m.heap) :
       /\ Place(w, b) = Place(m, b)
       /\ Room(w, b) = Room(m, b)
       /\ w.heap[b].data = m.heap[b].data
  BY DEF Keeps
<1>3. \A s \in Slots : w.slot[s] = m.slot[s]
  OBVIOUS
<1> QED BY <1>1, <1>2, <1>3 DEF Keeps

LEMMA ResultStays ==
  ASSUME NEW k, NEW m, NEW w, NEW S \in SUBSET Slots, MemOK(k, m), MemOK(k, w),
         Keeps(m, w, S), NEW b, NEW r, NEW n \in Nat, NEW p, ResultOK(m, b, r, k, n, p),
         NEW q, RowsFor(q, p), NEW l \in Nat, n <= l,
         b.workspace => S \subseteq Slots \ Planning \/ p.id # k,
         ~b.workspace => w.slot = m.slot /\ \A s \in Slots : m.slot[s] = 0
  PROVE  ResultOK(w, b, q, k, l, p)
<1>1. Known(w, q, k, l, p)
  BY KnownStays DEF ResultOK
<1>2. OwnView(w, p.hidden, p.dev, p.id)
  BY OwnStays DEF ResultOK
<1>3. ASSUME ~b.workspace PROVE Prepared(w, p)
  <2>1. Keeps(m, w, {})
    BY <1>3, KeepsUnshared
  <2> QED BY <1>3, <2>1, PreparedStays DEF ResultOK
<1>4. ASSUME b.workspace, p.id = k PROVE Prepared(w, p)
  BY <1>4, PreparedStays DEF ResultOK
<1> QED BY <1>1, <1>2, <1>3, <1>4 DEF ResultOK

LEMMA TagsAre ==
  ASSUME NEW k, NEW m, MemOK(k, m), NEW v, NEW d, Within(m, v, d), NEW t, Holds(m, v, t)
  PROVE  Tags(m, v) = [i \in 1..v.len |-> t]
<1> DEFINE q == m.heap[v.buf].data
<1>1. q \in Seq(Tag(k)) /\ v.len \in Nat /\ v.len <= Len(q)
  <2>1. m.heap \in Seq(Buffer(k)) /\ v.buf \in 1..Len(m.heap)
    BY DEF MemOK, Within
  <2>2. m.heap[v.buf] \in Buffer(k)
    BY <2>1
  <2>3. q \in Seq(Tag(k))
    BY <2>2 DEF Buffer
  <2> HIDE DEF q
  <2> QED BY <2>3 DEF Within, View, Room, q
<1>2. \A i \in 1..v.len : q[i] = t
  BY DEF Holds
<1>3. Tags(m, v) = SubSeq(q, 1, v.len)
  BY DEF Tags
<1> HIDE DEF q
<1>4. SubSeq(q, 1, v.len) = [i \in 1..v.len |-> t]
  BY <1>1, <1>2
<1> QED BY <1>3, <1>4

Active == stage # "idle"

ConfigInv ==
  /\ built \in Builds /\ config \in {built, [built EXCEPT !.profiling = TRUE]}
  /\ previous \in {<<>>, <<built>>} /\ (previous = <<>> => config = built)
  /\ stage = "idle" => previous = <<>>
MemInv ==
  /\ MemOK(started, mem) /\ started <= MaxForwards
  /\ ~built.workspace => \A s \in Slots : mem.slot[s] = 0
  /\ rows.plan \in 0..started
StageInv ==
  /\ stage \in {"idle", "router", "dispatcher", "scheduler", "planner", "executor"}
  /\ IF stage = "idle" THEN plan = NoPlan
     ELSE Known(mem, rows, started, Len(results), plan)
  /\ stage \in {"router", "dispatcher", "scheduler"} =>
       plan.id = started /\ \A k \in DOMAIN results : results[k].id # started
  /\ stage \in {"dispatcher", "scheduler", "planner", "executor"} => Assigned(mem, plan)
  /\ stage \in {"scheduler", "planner", "executor"} => Scheduled(mem, plan)
  /\ stage \in {"planner", "executor"} => Prepared(mem, plan)
  /\ stage = "executor" => Executed(mem, built, plan) /\ rows.plan = plan.id
ResultInv ==
  /\ results \in Seq(PlanRecord)
  /\ \A k \in DOMAIN results :
       ResultOK(mem, built, rows, started, Len(results), results[k])
ForwardInv ==
  /\ \A j, k \in DOMAIN results : SameForward(results[j], results[k])
  /\ Active => \A k \in DOMAIN results : SameForward(results[k], plan)

PlanInv == ConfigInv /\ MemInv /\ StageInv /\ ResultInv /\ ForwardInv

\* The workspaces a configuration uses at all, and what a stage does to those of S.
Used(b, s) ==
  \/ s \in {"assignments", "schedule"}
  \/ s = "barriers" /\ b.metadata
  \/ s = "packed" /\ b.packed
  \/ s = "weighted" /\ ~b.accumulate
Grows(S) ==
  /\ Keeps(mem, mem', S)
  /\ built.workspace => \A s \in S : Used(built, s) =>
       Grown(mem, mem', s, plan.size, plan.dev)

LEMMA ConfigFacts ==
  ASSUME ConfigInv
  PROVE  /\ config.workspace = built.workspace /\ config.accumulate = built.accumulate
         /\ config.packed = built.packed /\ config.weigh = built.weigh
         /\ config.metadata = built.metadata
         /\ built.workspace \in BOOLEAN /\ built.accumulate \in BOOLEAN
         /\ built.packed \in BOOLEAN /\ built.weigh \in BOOLEAN
         /\ built.metadata \in BOOLEAN
BY BuildsAssumption DEF ConfigInv

LEMMA InputFacts == ASSUME NEW i \in Inputs PROVE i.size \in Nat \ {0} /\ i.dev \in Devs
BY InputsAssumption DEF Devs

LEMMA PlanInitOK == PlanInit => PlanInv
<1> SUFFICES ASSUME PlanInit PROVE PlanInv
  OBVIOUS
<1>1. MemOK(started, mem)
  <2>1. mem.heap = <<>> /\ mem.slot = [s \in Slots |-> 0] /\ started = 0
        /\ mem = [heap |-> <<>>, slot |-> [s \in Slots |-> 0]]
    BY DEF PlanInit
  <2>2. mem \in [heap : Seq(Buffer(0)), slot : [Slots -> Nat]]
    BY <2>1
  <2> QED BY <2>1, <2>2 DEF MemOK
<1>2. ConfigInv
  BY DEF PlanInit, ConfigInv
<1>3. MemInv
  BY <1>1, BoundAssumption DEF PlanInit, MemInv, NoRows
<1>4. StageInv
  BY DEF PlanInit, StageInv
<1>5. ResultInv
  BY DEF PlanInit, ResultInv
<1>6. ForwardInv
  BY DEF PlanInit, ForwardInv, Active
<1> QED BY <1>2, <1>3, <1>4, <1>5, <1>6 DEF PlanInv

(* Steps that leave the results: what they keep.                           *)
LEMMA ResultsStay ==
  ASSUME PlanInv, UNCHANGED <<built, results, started>>, MemOK(started, mem'),
         NEW S \in SUBSET Slots, Keeps(mem, mem', S),
         ~built.workspace => mem'.slot = mem.slot,
         \/ S \subseteq Slots \ Planning
         \/ \A k \in DOMAIN results : results[k].id # started,
         \A k \in DOMAIN results : RowsFor(rows', results[k])
  PROVE  /\ ResultInv'
         /\ ~built.workspace => \A s \in Slots : mem'.slot[s] = 0
<1>1. ASSUME NEW k \in DOMAIN results
      PROVE  ResultOK(mem', built, rows', started, Len(results), results[k])
  <2>1. ResultOK(mem, built, rows, started, Len(results), results[k])
    BY DEF PlanInv, ResultInv
  <2>2. Len(results) \in Nat /\ MemOK(started, mem)
    BY DEF PlanInv, ResultInv, MemInv
  <2>3. ~built.workspace => mem'.slot = mem.slot /\ \A s \in Slots : mem.slot[s] = 0
    BY DEF PlanInv, MemInv
  <2>4. RowsFor(rows', results[k])
    OBVIOUS
  <2>5. built.workspace => S \subseteq Slots \ Planning \/ results[k].id # started
    OBVIOUS
  <2> QED BY <2>1, <2>2, <2>3, <2>4, <2>5, ResultStays
<1>2. ResultInv'
  BY <1>1 DEF PlanInv, ResultInv
<1> QED BY <1>2 DEF PlanInv, MemInv

LEMMA MoreTags ==
  ASSUME NEW k, NEW m, MemOK(k, m) PROVE MemOK(k + 1, m)
<1>1. k \in Nat /\ m \in [heap : Seq(Buffer(k)), slot : [Slots -> Nat]]
  BY DEF MemOK
<1>2. Tag(k) \subseteq Tag(k + 1)
  BY <1>1 DEF Tag, Unset
<1>3. Buffer(k) \subseteq Buffer(k + 1)
  <2>1. ASSUME NEW q \in Seq(Tag(k)) PROVE q \in Seq(Tag(k + 1))
    BY <1>2
  <2> QED BY <2>1 DEF Buffer
<1>4. m.heap \in Seq(Buffer(k + 1))
  <2> DEFINE h == m.heap
  <2>1. h \in Seq(Buffer(k))
    BY <1>1
  <2> HIDE DEF h
  <2>2. h \in Seq(Buffer(k + 1))
    BY <1>3, <2>1
  <2> QED BY <2>2 DEF h
<1>5. m \in [heap : Seq(Buffer(k + 1)), slot : [Slots -> Nat]]
  BY <1>1, <1>4
<1> QED BY <1>1, <1>5 DEF MemOK

LEMMA BlankKnown ==
  ASSUME NEW m, NEW r, NEW k \in Nat, k # 0, NEW n \in Nat, NEW i \in Inputs,
         NEW src \in {0, n}, r.plan # k
  PROVE  /\ Known(m, r, k, n, Blank(k, i, src)) /\ Blank(k, i, src).id = k
<1> DEFINE p == Blank(k, i, src)
<1>1. p \in PlanRecord
  <2>1. NoView \in View
    BY DEF NoView, View
  <2> QED BY <2>1, InputFacts DEF Blank, PlanRecord
<1>2. p.id = k /\ p.input = src /\ RowsFor(r, p)
  BY DEF Blank, RowsFor
<1>3. Viewed(p) = {NoView}
  BY DEF Viewed, Blank
<1> HIDE DEF p
<1>4. Known(m, r, k, n, p)
  BY <1>1, <1>2, <1>3 DEF Known, ViewOK
<1> QED BY <1>2, <1>4 DEF p

LEMMA BeginStep ==
  ASSUME PlanInv, NEW i \in Inputs, NEW src \in {0, Len(results)}, Begin(i, src)
  PROVE  MemInv' /\ StageInv' /\ ResultInv' /\ ForwardInv' /\ stage' # "idle"
<1>1. /\ started' = started + 1 /\ plan' = Blank(started + 1, i, src) /\ stage' = "router"
      /\ UNCHANGED <<built, mem, rows, results>> /\ started < MaxForwards
  BY DEF Begin
<1>2. /\ started \in Nat /\ MemOK(started, mem) /\ rows.plan \in 0..started
      /\ Len(results) \in Nat
  BY DEF PlanInv, MemInv, MemOK, ResultInv
<1>3. \A k \in DOMAIN results : results[k].id \in 1..started
  BY DEF PlanInv, ResultInv, ResultOK, Known
<1>4. MemInv'
  <2>1. MemOK(started', mem')
    BY <1>1, <1>2, MoreTags
  <2> QED BY <1>1, <1>2, <2>1, BoundAssumption DEF PlanInv, MemInv
<1>5. Known(mem', rows', started', Len(results'), plan') /\ plan'.id = started'
  <2>1. started + 1 \in Nat /\ started + 1 # 0 /\ rows.plan # started + 1
    BY <1>2
  <2> QED BY <1>1, <1>2, <2>1, BlankKnown
<1>6. StageInv'
  BY <1>1, <1>2, <1>3, <1>5 DEF StageInv
<1>7. ResultInv'
  <2>1. ASSUME NEW k \in DOMAIN results
        PROVE  ResultOK(mem, built, rows, started + 1, Len(results), results[k])
    <3>1. ResultOK(mem, built, rows, started, Len(results), results[k])
      BY DEF PlanInv, ResultInv
    <3>2. results[k].id # started + 1
      BY <1>2, <1>3
    <3>3. Known(mem, rows, started + 1, Len(results), results[k])
      BY <1>2, <3>1 DEF ResultOK, Known
    <3> QED BY <3>1, <3>2, <3>3 DEF ResultOK
  <2> QED BY <1>1, <2>1 DEF PlanInv, ResultInv
<1>8. ForwardInv'
  <2>1. \A k \in DOMAIN results : results[k].id # plan'.id
    BY <1>1, <1>2, <1>3, <1>5
  <2> QED BY <1>1, <2>1 DEF PlanInv, ForwardInv, SameForward
<1> QED BY <1>1, <1>4, <1>6, <1>7, <1>8

LEMMA DispatchStep ==
  ASSUME PlanInv, Dispatch PROVE PlanInv' /\ Grows({"assignments"})
<1> DEFINE a == Assignments(mem)
<1>1. /\ stage = "router" /\ stage' = "dispatcher"
      /\ mem' = a.mem /\ plan' = [plan EXCEPT !.assignments = a.view]
      /\ UNCHANGED <<built, config, previous, rows, results, started>>
  BY DEF Dispatch
<1>2. /\ Known(mem, rows, started, Len(results), plan) /\ plan \in PlanRecord
      /\ plan.id = started /\ \A k \in DOMAIN results : results[k].id # started
      /\ plan.id \in 1..started
  BY <1>1 DEF PlanInv, StageInv, Known
<1>3. /\ MemOK(started, mem) /\ started \in Nat /\ Len(results) \in Nat
      /\ plan.size \in Nat \ {0} /\ plan.dev \in Devs /\ plan.id \in Tag(started)
  <2>1. MemOK(started, mem) /\ started \in Nat /\ Len(results) \in Nat
    BY DEF PlanInv, MemInv, MemOK, ResultInv
  <2> QED BY <1>2, <2>1 DEF PlanRecord, Tag, Unset
<1>4. Full(started, mem, mem', a.view, "assignments", plan.size, plan.dev, plan.id)
  <2>1. config.workspace \in BOOLEAN /\ "assignments" \in Slots
    BY ConfigFacts DEF PlanInv, Slots
  <2> QED BY <1>1, <1>3, <2>1, FilledFull DEF Assignments
<1> DEFINE v == a.view
<1> HIDE DEF a
<1>5. /\ v \in View /\ plan' = [plan EXCEPT !.assignments = v]
  BY <1>1, <1>4 DEF Full, Has, Within
<1> HIDE DEF v
<1>6. /\ plan' \in PlanRecord /\ plan'.id = plan.id /\ plan'.size = plan.size
      /\ plan'.dev = plan.dev /\ plan'.input = plan.input /\ plan'.assignments = v
      /\ Viewed(plan') \subseteq Viewed(plan) \cup {v}
  BY <1>2, <1>5 DEF PlanRecord, Viewed
<1>7. /\ MemOK(started, mem') /\ Keeps(mem, mem', {"assignments"})
      /\ Has(mem', v, plan.dev, "assignments", plan.id) /\ v.len = plan.size
      /\ ~built.workspace => mem'.slot = mem.slot
  BY <1>4, ConfigFacts DEF Full, PlanInv, v
<1>8. Known(mem', rows', started', Len(results'), plan')
  <2>1. Known(mem', rows, started, Len(results), plan)
    <3>1. RowsFor(rows, plan)
      BY <1>2 DEF Known
    <3> QED BY <1>2, <1>3, <1>7, <3>1, KnownStays
  <2>2. ViewOK(mem', v, plan.dev)
    BY <1>7 DEF ViewOK, Has
  <2> QED BY <1>1, <1>6, <2>1, <2>2 DEF Known, RowsFor
<1>9. Assigned(mem', plan')
  BY <1>6, <1>7 DEF Assigned
<1>10. StageInv'
  BY <1>1, <1>2, <1>6, <1>8, <1>9 DEF StageInv
<1>11. ResultInv' /\ (~built.workspace => \A s \in Slots : mem'.slot[s] = 0)
  <2>1. \A k \in DOMAIN results : RowsFor(rows', results[k])
    BY <1>1 DEF PlanInv, ResultInv, ResultOK, Known
  <2>2. {"assignments"} \in SUBSET Slots
    BY DEF Slots
  <2> QED BY <1>1, <1>2, <1>7, <2>1, <2>2, ResultsStay
<1>12. MemInv'
  BY <1>1, <1>7, <1>11 DEF PlanInv, MemInv
<1>13. ForwardInv'
  BY <1>1, <1>6 DEF PlanInv, ForwardInv, SameForward, Active
<1>14. ConfigInv'
  BY <1>1 DEF PlanInv, ConfigInv
<1>15. Grows({"assignments"})
  BY <1>4, ConfigFacts DEF Full, Grows, PlanInv
<1> QED BY <1>10, <1>11, <1>12, <1>13, <1>14, <1>15 DEF PlanInv

(* A stage that grows the memory and names more views in its plan.         *)
LEMMA StageKeeps ==
  ASSUME PlanInv, Active, UNCHANGED <<built, config, previous, results, started>>,
         stage' # "idle", MemOK(started, mem'),
         NEW S \in SUBSET Slots, Keeps(mem, mem', S),
         ~built.workspace => mem'.slot = mem.slot,
         \/ S \subseteq Slots \ Planning
         \/ \A k \in DOMAIN results : results[k].id # started,
         rows'.plan \in 0..started, \A k \in DOMAIN results : RowsFor(rows', results[k]),
         RowsFor(rows', plan), plan' \in PlanRecord,
         plan'.id = plan.id, plan'.size = plan.size, plan'.dev = plan.dev,
         plan'.input = plan.input,
         \A v \in Viewed(plan') : v \in Viewed(plan) \/ ViewOK(mem', v, plan.dev)
  PROVE  /\ ConfigInv' /\ MemInv' /\ ResultInv' /\ ForwardInv'
         /\ Known(mem', rows', started', Len(results'), plan')
<1>1. Known(mem, rows, started, Len(results), plan)
  BY DEF PlanInv, StageInv, Active
<1>2. Len(results) \in Nat /\ MemOK(started, mem)
  BY DEF PlanInv, ResultInv, MemInv
<1>3. Known(mem', rows', started, Len(results), plan)
  BY <1>1, <1>2, KnownStays
<1>4. Known(mem', rows', started', Len(results'), plan')
  <2>1. \A v \in Viewed(plan') : ViewOK(mem', v, plan'.dev)
    BY <1>3 DEF Known
  <2>2. plan'.id \in 1..started /\ plan'.input \in 0..Len(results)
    BY <1>3 DEF Known
  <2>3. RowsFor(rows', plan')
    BY DEF RowsFor
  <2> QED BY <2>1, <2>2, <2>3 DEF Known
<1>5. ResultInv' /\ (~built.workspace => \A s \in Slots : mem'.slot[s] = 0)
  BY ResultsStay
<1>6. MemInv'
  BY <1>5 DEF PlanInv, MemInv
<1>7. ForwardInv'
  BY DEF PlanInv, ForwardInv, SameForward, Active
<1>8. ConfigInv'
  BY DEF PlanInv, ConfigInv
<1> QED BY <1>4, <1>5, <1>6, <1>7, <1>8

LEMMA PlanFacts ==
  ASSUME PlanInv, Active
  PROVE  /\ Known(mem, rows, started, Len(results), plan) /\ plan \in PlanRecord
         /\ MemOK(started, mem) /\ started \in Nat /\ Len(results) \in Nat
         /\ plan.size \in Nat \ {0} /\ plan.dev \in Devs /\ plan.id \in Tag(started)
         /\ Zero \in Tag(started) /\ Unset \in Tag(started)
         /\ config.workspace \in BOOLEAN /\ config.workspace = built.workspace
         /\ rows.plan \in 0..started /\ RowsFor(rows, plan)
         /\ \A k \in DOMAIN results : RowsFor(rows, results[k])
<1>1. Known(mem, rows, started, Len(results), plan)
  BY DEF PlanInv, StageInv, Active
<1>2. MemOK(started, mem) /\ started \in Nat /\ Len(results) \in Nat /\ rows.plan \in 0..started
  BY DEF PlanInv, MemInv, MemOK, ResultInv
<1>3. plan \in PlanRecord /\ plan.id \in 1..started /\ RowsFor(rows, plan)
  BY <1>1 DEF Known
<1>4. plan.size \in Nat \ {0} /\ plan.dev \in Devs
  BY <1>3 DEF PlanRecord
<1>5. plan.id \in Tag(started) /\ Zero \in Tag(started) /\ Unset \in Tag(started)
  BY <1>2, <1>3 DEF Tag, Unset, Zero
<1>6. config.workspace \in BOOLEAN /\ config.workspace = built.workspace
  BY ConfigFacts DEF PlanInv
<1>7. \A k \in DOMAIN results : RowsFor(rows, results[k])
  BY DEF PlanInv, ResultInv, ResultOK, Known
<1> QED BY <1>1, <1>2, <1>3, <1>4, <1>5, <1>6, <1>7

(* A view that some configurations do without.                             *)
LEMMA FilledOrNone ==
  ASSUME PlanInv, Active, NEW m, MemOK(started, m), NEW s \in Slots, NEW n \in Nat \ {0},
         NEW o,
         o = Filled(m, s, n, plan.dev, Zero) \/ o = Unneeded(m)
  PROVE  /\ MemOK(started, o.mem) /\ Keeps(m, o.mem, {s})
         /\ HasOrNone(o.mem, o.view, plan.dev, s, Zero) /\ o.view \in View
         /\ ~config.workspace => o.mem.slot = m.slot
         /\ o = Filled(m, s, n, plan.dev, Zero) /\ config.workspace =>
              Grown(m, o.mem, s, n, plan.dev)
<1>1. CASE o = Filled(m, s, n, plan.dev, Zero)
  <2>1. Full(started, m, o.mem, o.view, s, n, plan.dev, Zero)
    BY <1>1, PlanFacts, FilledFull
  <2> QED BY <2>1 DEF Full, HasOrNone, Has, Within
<1>2. CASE o # Filled(m, s, n, plan.dev, Zero)
  <2>1. o = [mem |-> m, view |-> NoView]
    BY <1>2 DEF Unneeded
  <2>2. NoView \in View
    BY DEF View, NoView
  <2> QED BY <1>2, <2>1, <2>2, KeepsNone DEF HasOrNone
<1> QED BY <1>1, <1>2

LEMMA AssignedStays ==
  ASSUME NEW k, NEW m, NEW w, NEW S \in SUBSET Slots, "assignments" \notin S,
         MemOK(k, m), MemOK(k, w), Keeps(m, w, S), NEW p, Assigned(m, p)
  PROVE  Assigned(w, p)
<1>1. "assignments" \in Slots \ S
  BY DEF Slots
<1> QED BY <1>1, HasStays DEF Assigned

LEMMA MakeScheduleStep ==
  ASSUME PlanInv, MakeSchedule PROVE PlanInv' /\ Grows({"schedule", "barriers"})
<1> DEFINE s == Schedule(mem)
           b == Synchronization(s.mem)
<1>1. /\ stage = "dispatcher" /\ stage' = "scheduler" /\ mem' = b.mem
      /\ plan' = [plan EXCEPT !.schedule = s.view, !.barriers = b.view,
                              !.dependencies = NoView,
                              !.statistics = [active |-> plan.size, batches |-> plan.size]]
      /\ UNCHANGED <<built, config, previous, rows, results, started>>
  BY DEF MakeSchedule, Dependencies, Statistics
<1>2. Active /\ Assigned(mem, plan) /\ plan.id = started
      /\ \A k \in DOMAIN results : results[k].id # started
  BY <1>1 DEF Active, PlanInv, StageInv
<1>3. Full(started, mem, s.mem, s.view, "schedule", plan.size, plan.dev, plan.id)
  <2>1. "schedule" \in Slots
    BY DEF Slots
  <2> QED BY <1>2, <2>1, PlanFacts, FilledFull DEF Schedule
<1>4. /\ MemOK(started, b.mem) /\ Keeps(s.mem, b.mem, {"barriers"})
      /\ HasOrNone(b.mem, b.view, plan.dev, "barriers", Zero) /\ b.view \in View
      /\ ~config.workspace => b.mem.slot = s.mem.slot
      /\ config.metadata /\ config.workspace =>
           Grown(s.mem, b.mem, "barriers", plan.size, plan.dev)
  <2>1. "barriers" \in Slots /\ MemOK(started, s.mem)
    BY <1>3 DEF Slots, Full
  <2>2. \/ b = Filled(s.mem, "barriers", plan.size, plan.dev, Zero)
        \/ b = Unneeded(s.mem)
    BY DEF Synchronization
  <2>3. config.metadata => b = Filled(s.mem, "barriers", plan.size, plan.dev, Zero)
    BY DEF Synchronization
  <2> HIDE DEF b, s
  <2> QED BY <1>2, <2>1, <2>2, <2>3, PlanFacts, FilledOrNone
<1> DEFINE v == s.view
           w == s.mem
           u == b.view
<1> HIDE DEF s, b
<1>5. /\ MemOK(started, w) /\ Keeps(mem, w, {"schedule"}) /\ v \in View
      /\ Has(w, v, plan.dev, "schedule", plan.id) /\ v.len = plan.size
      /\ ~config.workspace => w.slot = mem.slot
      /\ config.workspace => Grown(mem, w, "schedule", plan.size, plan.dev)
  BY <1>3 DEF Full, Has, Within
<1>6. /\ MemOK(started, mem') /\ Keeps(w, mem', {"barriers"})
      /\ HasOrNone(mem', u, plan.dev, "barriers", Zero) /\ u \in View
      /\ ~config.workspace => mem'.slot = w.slot
      /\ config.metadata /\ config.workspace =>
           Grown(w, mem', "barriers", plan.size, plan.dev)
  BY <1>1, <1>4
<1>7. plan' = [plan EXCEPT !.schedule = v, !.barriers = u, !.dependencies = NoView,
                           !.statistics = [active |-> plan.size, batches |-> plan.size]]
  BY <1>1
<1> HIDE DEF v, w, u
<1>8. /\ plan' \in PlanRecord /\ plan'.id = plan.id /\ plan'.size = plan.size
      /\ plan'.dev = plan.dev /\ plan'.input = plan.input
      /\ plan'.assignments = plan.assignments /\ plan'.schedule = v /\ plan'.barriers = u
      /\ Viewed(plan') \subseteq Viewed(plan) \cup {v, u}
  <2>1. NoView \in View
    BY DEF View, NoView
  <2> QED BY <1>2, <1>5, <1>6, <1>7, <2>1, PlanFacts DEF PlanRecord, Viewed
<1>9. {"schedule"} \in SUBSET Slots /\ {"barriers"} \in SUBSET Slots
      /\ "schedule" \in Slots \ {"barriers"} /\ "assignments" \notin {"schedule", "barriers"}
  BY DEF Slots
<1>10. Has(mem', v, plan.dev, "schedule", plan.id)
  BY <1>5, <1>6, <1>9, HasStays
<1>11. Keeps(mem, mem', {"schedule"} \cup {"barriers"})
  BY <1>2, <1>5, <1>6, <1>9, PlanFacts, KeepsBoth
<1>12. Assigned(mem', plan)
  <2>1. {"schedule"} \cup {"barriers"} \in SUBSET Slots
        /\ "assignments" \notin {"schedule"} \cup {"barriers"}
    BY <1>9
  <2> QED BY <1>2, <1>6, <1>11, <2>1, PlanFacts, AssignedStays
<1>13. Assigned(mem', plan') /\ Scheduled(mem', plan')
  BY <1>5, <1>6, <1>8, <1>10, <1>12 DEF Assigned, Scheduled
<1>14. /\ ConfigInv' /\ MemInv' /\ ResultInv' /\ ForwardInv'
       /\ Known(mem', rows', started', Len(results'), plan')
  <2>1. {"schedule"} \cup {"barriers"} \in SUBSET Slots
    BY <1>9
  <2>2. ViewOK(mem', v, plan.dev) /\ ViewOK(mem', u, plan.dev)
    BY <1>6, <1>10 DEF ViewOK, Has, HasOrNone
  <2>3. ~built.workspace => mem'.slot = mem.slot
    BY <1>2, <1>5, <1>6, PlanFacts
  <2>4. /\ rows'.plan \in 0..started /\ RowsFor(rows', plan)
        /\ \A k \in DOMAIN results : RowsFor(rows', results[k])
    BY <1>1, <1>2, PlanFacts
  <2> QED BY <1>1, <1>2, <1>6, <1>8, <1>11, <2>1, <2>2, <2>3, <2>4, StageKeeps
<1>15. StageInv'
  BY <1>1, <1>2, <1>8, <1>13, <1>14 DEF StageInv
<1>16. Grows({"schedule", "barriers"})
  <2>1. Keeps(mem, mem', {"schedule", "barriers"})
    <3>1. {"schedule"} \cup {"barriers"} = {"schedule", "barriers"}
      OBVIOUS
    <3> QED BY <1>11, <3>1
  <2>2. built.workspace => Grown(mem, mem', "schedule", plan.size, plan.dev)
    <3>1. ASSUME Grown(mem, w, "schedule", plan.size, plan.dev)
          PROVE  Grown(mem, mem', "schedule", plan.size, plan.dev)
      <4>1. /\ mem'.slot["schedule"] = w.slot["schedule"]
            /\ w.slot["schedule"] # 0 =>
                 /\ Capacity(mem', "schedule") = Capacity(w, "schedule")
                 /\ Place(mem', mem'.slot["schedule"]) = Place(w, w.slot["schedule"])
        BY <1>5, <1>6, <1>9, GrownStays
      <4> QED BY <3>1, <4>1 DEF Grown
    <3> QED BY <1>2, <1>5, <3>1, PlanFacts
  <2>3. built.workspace /\ built.metadata => Grown(mem, mem', "barriers", plan.size, plan.dev)
    <3>1. "barriers" \in Slots \ {"schedule"} /\ MemOK(started, mem)
      BY <1>2, PlanFacts DEF Slots
    <3>2. built.workspace /\ built.metadata => Grown(w, mem', "barriers", plan.size, plan.dev)
      BY <1>6, ConfigFacts DEF PlanInv
    <3> QED BY <1>5, <3>1, <3>2, GrownStays DEF Grown
  <2> QED BY <2>1, <2>2, <2>3 DEF Grows, Used
<1> QED BY <1>14, <1>15, <1>16 DEF PlanInv

LEMMA ScheduledStays ==
  ASSUME NEW k, NEW m, NEW w, NEW S \in SUBSET Slots, {"schedule", "barriers"} \cap S = {},
         MemOK(k, m), MemOK(k, w), Keeps(m, w, S), NEW p, Scheduled(m, p)
  PROVE  Scheduled(w, p)
<1>1. "schedule" \in Slots \ S /\ "barriers" \in Slots \ S
  BY DEF Slots
<1> QED BY <1>1, HasStays DEF Scheduled, HasOrNone

LEMMA PlanCommunicationStep ==
  ASSUME PlanInv, PlanCommunication PROVE PlanInv' /\ Grows({"topology"})
<1> DEFINE t == Topology(mem)
<1>1. /\ stage = "scheduler" /\ stage' = "planner" /\ mem' = t.mem
      /\ plan' = [plan EXCEPT !.local = plan.schedule, !.remote = NoView,
                              !.topology = t.view]
      /\ UNCHANGED <<built, config, previous, rows, results, started>>
  BY DEF PlanCommunication, EmptyTensor
<1>2. /\ Active /\ Assigned(mem, plan) /\ Scheduled(mem, plan) /\ plan.id = started
      /\ \A k \in DOMAIN results : results[k].id # started
  BY <1>1 DEF Active, PlanInv, StageInv
<1>3. /\ MemOK(started, mem') /\ Keeps(mem, mem', {"topology"})
      /\ HasOrNone(mem', t.view, plan.dev, "topology", Zero) /\ t.view \in View
      /\ ~built.workspace => mem'.slot = mem.slot
  <2>1. "topology" \in Slots
    BY DEF Slots
  <2>2. t = Filled(mem, "topology", 1, plan.dev, Zero) \/ t = Unneeded(mem)
    BY DEF Topology
  <2> HIDE DEF t
  <2>3. MemOK(started, mem) /\ 1 \in Nat \ {0}
    BY <1>2, PlanFacts
  <2>4. /\ MemOK(started, t.mem) /\ Keeps(mem, t.mem, {"topology"})
        /\ HasOrNone(t.mem, t.view, plan.dev, "topology", Zero) /\ t.view \in View
        /\ ~config.workspace => t.mem.slot = mem.slot
    BY <1>2, <2>1, <2>2, <2>3, FilledOrNone
  <2> QED BY <1>1, <1>2, <2>4, PlanFacts
<1> DEFINE v == t.view
<1> HIDE DEF t
<1>4. plan' = [plan EXCEPT !.local = plan.schedule, !.remote = NoView, !.topology = v]
  BY <1>1
<1>5. v \in View /\ HasOrNone(mem', v, plan.dev, "topology", Zero)
  BY <1>3
<1> HIDE DEF v
<1>6. plan \in PlanRecord /\ plan.schedule \in View
  BY <1>2, PlanFacts DEF PlanRecord
<1>7. /\ plan' \in PlanRecord /\ plan'.id = plan.id /\ plan'.size = plan.size
      /\ plan'.dev = plan.dev /\ plan'.input = plan.input
      /\ plan'.assignments = plan.assignments /\ plan'.schedule = plan.schedule
      /\ plan'.barriers = plan.barriers /\ plan'.local = plan.schedule /\ plan'.topology = v
      /\ Viewed(plan') \subseteq Viewed(plan) \cup {v}
  <2>1. NoView \in View
    BY DEF View, NoView
  <2> QED BY <1>4, <1>5, <1>6, <2>1 DEF PlanRecord, Viewed
<1>8. {"topology"} \in SUBSET Slots /\ "assignments" \notin {"topology"}
      /\ {"schedule", "barriers"} \cap {"topology"} = {}
  BY DEF Slots
<1>9. Assigned(mem', plan) /\ Scheduled(mem', plan)
  BY <1>2, <1>3, <1>8, PlanFacts, AssignedStays, ScheduledStays
<1>10. Prepared(mem', plan')
  BY <1>5, <1>7, <1>9 DEF Prepared, Assigned, Scheduled
<1>11. /\ ConfigInv' /\ MemInv' /\ ResultInv' /\ ForwardInv'
       /\ Known(mem', rows', started', Len(results'), plan')
  <2>1. ViewOK(mem', v, plan.dev)
    BY <1>5 DEF ViewOK, Has, HasOrNone
  <2>2. /\ rows'.plan \in 0..started /\ RowsFor(rows', plan)
        /\ \A k \in DOMAIN results : RowsFor(rows', results[k])
    BY <1>1, <1>2, PlanFacts
  <2> QED BY <1>1, <1>2, <1>3, <1>7, <1>8, <2>1, <2>2, StageKeeps
<1>12. StageInv'
  BY <1>1, <1>10, <1>11 DEF StageInv, Prepared
<1>13. Grows({"topology"})
  BY <1>3 DEF Grows, Used
<1> QED BY <1>11, <1>12, <1>13 DEF PlanInv

-----------------------------------------------------------------------------
(* The executor: its outputs, the rows it runs over, what it computes.     *)

OutputSlots == {"packed", "weighted"}

OutputsGot(o) ==
  /\ MemOK(started, o.mem) /\ Keeps(mem, o.mem, OutputSlots)
  /\ ~config.workspace => o.mem.slot = mem.slot
  /\ Within(o.mem, o.rows, plan.dev) /\ o.rows.len = plan.size
  /\ Fresh(mem, o.rows.buf, OutputSlots)
  /\ config.accumulate => \A t \in Slots : o.rows.buf # o.mem.slot[t]
  /\ ~config.accumulate => \A t \in Slots \ {"weighted"} : o.rows.buf # o.mem.slot[t]
  /\ config.packed =>
       /\ Within(o.mem, o.packed, plan.dev) /\ o.packed.len = plan.size
       /\ Fresh(mem, o.packed.buf, OutputSlots) /\ o.packed.buf # o.rows.buf
       /\ \A t \in Slots \ {"packed"} : o.packed.buf # o.mem.slot[t]
  /\ ~config.packed => o.packed = NoView
  /\ config.workspace =>
       /\ config.packed => Grown(mem, o.mem, "packed", plan.size, plan.dev)
       /\ ~config.accumulate => Grown(mem, o.mem, "weighted", plan.size, plan.dev)

LEMMA FreshLater ==
  ASSUME NEW k, NEW m, NEW w, NEW S, NEW T, MemOK(k, m), MemOK(k, w), Keeps(m, w, S),
         S \subseteq T, T \subseteq Slots, NEW b \in Nat, Fresh(w, b, T)
  PROVE  Fresh(m, b, T)
<1>1. Len(m.heap) <= Len(w.heap) /\ Len(m.heap) \in Nat /\ Len(w.heap) \in Nat
  BY DEF Keeps, MemOK
<1>2. ASSUME NEW s \in T, b = w.slot[s] PROVE Fresh(m, b, T)
  <2>1. w.slot[s] = m.slot[s] \/ w.slot[s] > Len(m.heap)
    BY DEF Keeps
  <2> QED BY <1>2, <2>1 DEF Fresh
<1> QED BY <1>1, <1>2 DEF Fresh

LEMMA PackedGot ==
  ASSUME PlanInv, Active, NEW p, p = Packed(mem)
  PROVE  /\ MemOK(started, p.mem) /\ Keeps(mem, p.mem, {"packed"})
         /\ ~config.workspace => p.mem.slot = mem.slot
         /\ config.packed =>
              Got(started, mem, p.mem, p.view, "packed", plan.size, plan.dev)
         /\ ~config.packed => p.view = NoView
<1>1. CASE config.packed
  <2>1. p = Obtain(mem, "packed", plan.size, plan.dev) /\ "packed" \in Slots
    BY <1>1 DEF Packed, Slots
  <2>2. Got(started, mem, p.mem, p.view, "packed", plan.size, plan.dev)
    BY <2>1, PlanFacts, ObtainGot
  <2> QED BY <1>1, <2>2 DEF Got
<1>2. CASE ~config.packed
  <2>1. p = [mem |-> mem, view |-> NoView]
    BY <1>2 DEF Packed, Unneeded
  <2> QED BY <1>2, <2>1, PlanFacts, KeepsNone
<1> QED BY <1>1, <1>2, ConfigFacts DEF PlanInv

(* A buffer is not among those obtained after it.                          *)
LEMMA LaterDiffers ==
  ASSUME NEW k, NEW w, MemOK(k, w), NEW v, NEW d, Within(w, v, d), NEW s \in Slots,
         NEW b, Fresh(w, b, {s}), v.buf # w.slot[s], b \in Nat
  PROVE  v.buf # b
BY DEF Fresh, Within, MemOK

LEMMA OutputsAreGot ==
  ASSUME PlanInv, Active PROVE OutputsGot(Outputs)
<1> DEFINE p == Packed(mem)
           w == p.mem
           a == Allocated(w, plan.size, plan.dev)
           u == Newest(a, plan.size)
           q == Obtain(w, "weighted", plan.size, plan.dev)
           o == Outputs
<1>1. /\ MemOK(started, w) /\ Keeps(mem, w, {"packed"})
      /\ ~config.workspace => w.slot = mem.slot
      /\ config.packed => Got(started, mem, w, p.view, "packed", plan.size, plan.dev)
      /\ ~config.packed => p.view = NoView
  BY PackedGot
<1>2. /\ o.packed = p.view
      /\ ~config.accumulate => o.mem = q.mem /\ o.rows = q.view
      /\ config.accumulate => o.mem = Written(a, u, Zero) /\ o.rows = u
  BY DEF Outputs
<1> DEFINE v == p.view
<1>3. o.packed = v /\ (config.packed => Got(started, mem, w, v, "packed", plan.size, plan.dev))
      /\ (~config.packed => v = NoView)
  BY <1>1, <1>2
<1>4. \E T \in SUBSET OutputSlots :
        /\ MemOK(started, o.mem) /\ Keeps(w, o.mem, T) /\ "packed" \notin T
        /\ ~config.workspace => o.mem.slot = w.slot
        /\ Within(o.mem, o.rows, plan.dev) /\ o.rows.len = plan.size
        /\ Fresh(w, o.rows.buf, {"weighted"})
        /\ config.accumulate => \A t \in Slots : o.rows.buf # o.mem.slot[t]
        /\ ~config.accumulate => \A t \in Slots \ {"weighted"} : o.rows.buf # o.mem.slot[t]
        /\ config.workspace /\ ~config.accumulate =>
             Grown(w, o.mem, "weighted", plan.size, plan.dev)
  <2>1. CASE ~config.accumulate
    <3>1. Got(started, w, q.mem, q.view, "weighted", plan.size, plan.dev)
      <4>1. "weighted" \in Slots
        BY DEF Slots
      <4> HIDE DEF w
      <4> QED BY <1>1, <4>1, PlanFacts, ObtainGot
    <3> HIDE DEF o, w, q
    <3>2. Got(started, w, o.mem, o.rows, "weighted", plan.size, plan.dev)
      BY <1>2, <2>1, <3>1
    <3> QED BY <2>1, <3>2 DEF Got, OutputSlots
  <2>2. CASE config.accumulate
    <3> HIDE DEF w
    <3>1. /\ MemOK(started, a) /\ Keeps(w, a, {}) /\ Within(a, u, plan.dev)
          /\ \A s \in Slots : u.buf # a.slot[s]
          /\ u = [buf |-> Len(w.heap) + 1, len |-> plan.size]
      <4>1. /\ a = Allocated(w, plan.size, plan.dev) /\ u = Newest(a, plan.size)
            /\ MemOK(started, w) /\ plan.size \in Nat /\ plan.dev \in Devs
        BY <1>1, PlanFacts
      <4> HIDE DEF a, u
      <4>2. OwnTensor(started, w, plan.size, plan.dev, a, u)
        BY ONLY <4>1, AllocatedKeeps
      <4> QED BY <4>2 DEF OwnTensor
    <3>2. a.slot = w.slot
      BY <1>1 DEF Allocated, MemOK
    <3> HIDE DEF a, u
    <3>3. Fresh(w, u.buf, {}) /\ Fresh(w, u.buf, {"weighted"}) /\ u.len = plan.size
      BY <1>1, <3>1 DEF Fresh, MemOK
    <3>4. /\ MemOK(started, Written(a, u, Zero)) /\ Written(a, u, Zero).slot = a.slot
          /\ Within(Written(a, u, Zero), u, plan.dev)
      BY <3>1, PlanFacts, WrittenFacts
    <3>5. Keeps(w, Written(a, u, Zero), {})
      BY <1>1, <3>1, <3>3, PlanFacts, WrittenKeeps
    <3> HIDE DEF o
    <3> QED BY <1>2, <2>2, <3>1, <3>2, <3>3, <3>4, <3>5
  <2> QED BY <2>1, <2>2, ConfigFacts DEF PlanInv
<1> PICK T \in SUBSET OutputSlots :
        /\ MemOK(started, o.mem) /\ Keeps(w, o.mem, T) /\ "packed" \notin T
        /\ ~config.workspace => o.mem.slot = w.slot
        /\ Within(o.mem, o.rows, plan.dev) /\ o.rows.len = plan.size
        /\ Fresh(w, o.rows.buf, {"weighted"})
        /\ config.accumulate => \A t \in Slots : o.rows.buf # o.mem.slot[t]
        /\ ~config.accumulate => \A t \in Slots \ {"weighted"} : o.rows.buf # o.mem.slot[t]
        /\ config.workspace /\ ~config.accumulate =>
             Grown(w, o.mem, "weighted", plan.size, plan.dev)
  BY <1>4
<1> HIDE DEF o, v, w
<1>5. OutputSlots \subseteq Slots /\ {"packed"} \in SUBSET Slots /\ T \in SUBSET Slots
      /\ {"packed"} \cup T \subseteq OutputSlots /\ MemOK(started, mem)
  BY PlanFacts DEF OutputSlots, Slots
<1>6. Keeps(mem, o.mem, OutputSlots)
  <2>1. Keeps(mem, o.mem, {"packed"} \cup T)
    BY <1>1, <1>5, KeepsBoth
  <2> QED BY <1>5, <2>1 DEF Keeps
<1>7. o.rows.buf \in Nat
  BY DEF Within, View
<1>8. Fresh(mem, o.rows.buf, OutputSlots)
  <2>1. Fresh(w, o.rows.buf, OutputSlots)
    BY DEF Fresh, OutputSlots
  <2> QED BY <1>1, <1>5, <1>7, <2>1, FreshLater DEF OutputSlots
<1>9. ASSUME config.packed
      PROVE  /\ Within(o.mem, v, plan.dev) /\ v.len = plan.size
             /\ Fresh(mem, v.buf, OutputSlots) /\ v.buf # o.rows.buf
             /\ \A t \in Slots \ {"packed"} : v.buf # o.mem.slot[t]
  <2>1. /\ Within(w, v, plan.dev) /\ v.len = plan.size /\ Fresh(mem, v.buf, {"packed"})
        /\ \A t \in Slots \ {"packed"} : v.buf # w.slot[t]
    BY <1>3, <1>9 DEF Got
  <2>2. Within(o.mem, v, plan.dev)
    BY <1>1, <2>1, WithinStays
  <2>3. Fresh(mem, v.buf, OutputSlots)
    BY <2>1 DEF Fresh, OutputSlots
  <2>4. v.buf # o.rows.buf
    <3>1. "weighted" \in Slots /\ v.buf # w.slot["weighted"]
      BY <2>1 DEF Slots
    <3> QED BY <1>1, <1>7, <2>1, <3>1, LaterDiffers
  <2>5. ASSUME NEW t \in Slots \ {"packed"} PROVE v.buf # o.mem.slot[t]
    <3>1. o.mem.slot[t] = w.slot[t] \/ o.mem.slot[t] > Len(w.heap)
      BY DEF Keeps
    <3>2. v.buf \in 1..Len(w.heap) /\ Len(w.heap) \in Nat /\ o.mem.slot[t] \in Nat
      BY <1>1, <2>1 DEF Within, MemOK
    <3> QED BY <2>1, <3>1, <3>2
  <2> QED BY <2>1, <2>2, <2>3, <2>4, <2>5
<1>10. ASSUME config.workspace
       PROVE  /\ config.packed => Grown(mem, o.mem, "packed", plan.size, plan.dev)
              /\ ~config.accumulate => Grown(mem, o.mem, "weighted", plan.size, plan.dev)
  <2>1. "packed" \in Slots \ T /\ "weighted" \in Slots \ {"packed"}
    BY DEF Slots
  <2>2. ASSUME config.packed PROVE Grown(mem, o.mem, "packed", plan.size, plan.dev)
    <3>1. Grown(mem, w, "packed", plan.size, plan.dev)
      BY <1>3, <1>10, <2>2 DEF Got
    <3> QED BY <1>1, <2>1, <3>1, GrownStays DEF Grown
  <2>3. ASSUME ~config.accumulate PROVE Grown(mem, o.mem, "weighted", plan.size, plan.dev)
    <3>1. Grown(w, o.mem, "weighted", plan.size, plan.dev)
      BY <1>10, <2>3
    <3> QED BY <1>1, <1>5, <2>1, <3>1, GrownStays DEF Grown
  <2> QED BY <2>2, <2>3
<1>11. OutputsGot(o)
  BY <1>1, <1>3, <1>6, <1>8, <1>9, <1>10 DEF OutputsGot
<1> QED BY <1>11 DEF o

LEMMA OutputSlotsAre == OutputSlots \in SUBSET Slots /\ OutputSlots \subseteq Slots \ Planning
BY DEF OutputSlots, Slots, Planning

(* The host rows are the schedule of the plan at hand, old or new copy.    *)
LEMMA ScheduleRowsAre ==
  ASSUME PlanInv, stage = "planner"
  PROVE  /\ ScheduleRows.data = [i \in 1..plan.size |-> plan.id]
         /\ ScheduleRows.plan = plan.id /\ RowsFor(ScheduleRows, plan)
         /\ \A k \in DOMAIN results : RowsFor(ScheduleRows, results[k])
<1>1. Active /\ Scheduled(mem, plan)
  BY DEF Active, PlanInv, StageInv
<1>2. Tags(mem, plan.schedule) = [i \in 1..plan.size |-> plan.id]
  <2>1. /\ Within(mem, plan.schedule, plan.dev) /\ Holds(mem, plan.schedule, plan.id)
        /\ plan.schedule.len = plan.size
    BY <1>1 DEF Scheduled, Has
  <2>2. Tags(mem, plan.schedule) = [i \in 1..plan.schedule.len |-> plan.id]
    BY <1>1, <2>1, PlanFacts, TagsAre
  <2> QED BY <2>1, <2>2
<1>3. ScheduleRows.plan = plan.id /\ ScheduleRows.data = [i \in 1..plan.size |-> plan.id]
  <2>1. CASE config.workspace /\ rows.plan = plan.id
    <3>1. RowsFor(rows, plan)
      BY <1>1, PlanFacts
    <3>2. ScheduleRows = rows
      BY <2>1 DEF ScheduleRows
    <3> QED BY <2>1, <3>1, <3>2 DEF RowsFor
  <2>2. CASE ~(config.workspace /\ rows.plan = plan.id)
    <3>1. ScheduleRows = [plan |-> plan.id, view |-> plan.schedule,
                          data |-> Tags(mem, plan.schedule)]
      BY <2>2 DEF ScheduleRows
    <3> QED BY <1>2, <3>1
  <2> QED BY <2>1, <2>2
<1>4. ASSUME NEW k \in DOMAIN results PROVE RowsFor(ScheduleRows, results[k])
  <2>1. SameForward(results[k], plan)
    BY <1>1 DEF PlanInv, ForwardInv
  <2> QED BY <1>3, <2>1 DEF RowsFor, SameForward
<1> QED BY <1>3, <1>4 DEF RowsFor

(* What an executor computes from intact inputs is its forward's.          *)
LEMMA ComputedIs ==
  ASSUME PlanInv, stage = "planner", NEW m, MemOK(started, m), Keeps(mem, m, OutputSlots),
         NEW h, h = [i \in 1..plan.size |-> plan.id]
  PROVE  Computed(m, h) = plan.id
<1>1. Active /\ Assigned(mem, plan)
  BY DEF Active, PlanInv, StageInv
<1>2. Holds(m, plan.assignments, plan.id)
  <2>1. "assignments" \notin OutputSlots
    BY DEF OutputSlots
  <2>2. Assigned(m, plan)
    BY <1>1, <2>1, PlanFacts, OutputSlotsAre, AssignedStays
  <2> QED BY <2>2 DEF Assigned, Has
<1>3. InputIntact(m)
  <2> SUFFICES ASSUME plan.input # 0
               PROVE  Holds(m, results[plan.input].hidden, results[plan.input].id)
    BY DEF InputIntact
  <2>1. plan.input \in DOMAIN results
    <3>1. plan.input \in 0..Len(results) /\ Len(results) \in Nat
      BY <1>1, PlanFacts DEF Known
    <3>2. results \in Seq(PlanRecord)
      BY DEF PlanInv, ResultInv
    <3> QED BY <3>1, <3>2
  <2> DEFINE r == results[plan.input]
  <2>2. OwnView(mem, r.hidden, r.dev, r.id)
    BY <2>1 DEF PlanInv, ResultInv, ResultOK
  <2> HIDE DEF r
  <2>3. OwnView(m, r.hidden, r.dev, r.id)
    BY <1>1, <2>2, PlanFacts, OutputSlotsAre, OwnStays
  <2> QED BY <2>3 DEF OwnView, r
<1>4. plan.size \in Nat
  BY <1>1, PlanFacts
<1>5. Len(h) = plan.size /\ \A i \in DOMAIN h : h[i] = plan.id
  BY <1>4
<1> QED BY <1>2, <1>3, <1>5 DEF Computed

(* Writing the outputs: the packed rows first, then the weighted ones.     *)
LEMMA OutputsWritten ==
  ASSUME PlanInv, Active, NEW o, OutputsGot(o), NEW tag \in Tag(started), NEW w, NEW x,
         w = IF config.packed THEN Written(o.mem, o.packed, tag) ELSE o.mem,
         x = Written(w, o.rows, tag)
  PROVE  /\ MemOK(started, x) /\ Keeps(mem, x, OutputSlots)
         /\ ~config.workspace => x.slot = mem.slot
         /\ config.accumulate => OwnView(x, o.rows, plan.dev, tag)
         /\ ~config.accumulate => Has(x, o.rows, plan.dev, "weighted", tag)
         /\ config.packed => Has(x, o.packed, plan.dev, "packed", tag)
         /\ config.workspace =>
              /\ config.packed => Grown(mem, x, "packed", plan.size, plan.dev)
              /\ ~config.accumulate => Grown(mem, x, "weighted", plan.size, plan.dev)
<1>1. /\ MemOK(started, o.mem) /\ Keeps(mem, o.mem, OutputSlots)
      /\ ~config.workspace => o.mem.slot = mem.slot
      /\ Within(o.mem, o.rows, plan.dev) /\ Fresh(mem, o.rows.buf, OutputSlots)
  BY DEF OutputsGot
<1>2. MemOK(started, mem) /\ OutputSlots \in SUBSET Slots /\ config.packed \in BOOLEAN
  BY PlanFacts, OutputSlotsAre, ConfigFacts DEF PlanInv
<1>3. /\ MemOK(started, w) /\ Keeps(mem, w, OutputSlots) /\ w.slot = o.mem.slot
      /\ Within(w, o.rows, plan.dev)
      /\ config.packed => Within(w, o.packed, plan.dev) /\ Holds(w, o.packed, tag)
  <2>1. CASE config.packed
    <3>1. w = Written(o.mem, o.packed, tag)
      BY <2>1
    <3>2. Within(o.mem, o.packed, plan.dev) /\ Fresh(mem, o.packed.buf, OutputSlots)
          /\ o.rows.buf # o.packed.buf
      BY <2>1 DEF OutputsGot
    <3>3. /\ MemOK(started, w) /\ w.slot = o.mem.slot
          /\ Within(w, o.packed, plan.dev) /\ Holds(w, o.packed, tag)
      BY <1>1, <3>1, <3>2, WrittenFacts
    <3>4. Keeps(mem, w, OutputSlots)
      BY <1>1, <1>2, <3>1, <3>2, WrittenKeeps
    <3>5. Within(w, o.rows, plan.dev)
      BY <1>1, <3>1, <3>2, WrittenElsewhere
    <3> QED BY <3>3, <3>4, <3>5
  <2>2. CASE ~config.packed
    BY <1>1, <2>2
  <2> QED BY <1>2, <2>1, <2>2
<1>4. /\ MemOK(started, x) /\ x.slot = w.slot
      /\ Within(x, o.rows, plan.dev) /\ Holds(x, o.rows, tag)
  BY <1>3, WrittenFacts
<1>5. Keeps(mem, x, OutputSlots)
  BY <1>1, <1>2, <1>3, WrittenKeeps
<1>6. ASSUME config.packed PROVE Has(x, o.packed, plan.dev, "packed", tag)
  <2>1. o.packed.buf # o.rows.buf /\ \A t \in Slots \ {"packed"} : o.packed.buf # w.slot[t]
    BY <1>3, <1>6 DEF OutputsGot
  <2>2. Has(w, o.packed, plan.dev, "packed", tag)
    BY <1>3, <1>6, <2>1 DEF Has
  <2> QED BY <1>3, <2>1, <2>2, WrittenElsewhere
<1>7. config.accumulate => OwnView(x, o.rows, plan.dev, tag)
  BY <1>3, <1>4 DEF OwnView, OutputsGot
<1>8. ~config.accumulate => Has(x, o.rows, plan.dev, "weighted", tag)
  BY <1>3, <1>4 DEF Has, OutputsGot
<1>9. ASSUME NEW s \in Slots, Grown(mem, o.mem, s, plan.size, plan.dev)
      PROVE  Grown(mem, x, s, plan.size, plan.dev)
  <2>1. Grown(mem, w, s, plan.size, plan.dev)
    <3>1. CASE config.packed
      <4>1. Within(o.mem, o.packed, plan.dev) /\ w = Written(o.mem, o.packed, tag)
        BY <3>1 DEF OutputsGot
      <4> QED BY <1>1, <1>9, <4>1, WrittenGrown
    <3>2. CASE ~config.packed
      BY <1>9, <3>2
    <3> QED BY <1>2, <3>1, <3>2
  <2> QED BY <1>3, <2>1, WrittenGrown
<1>10. "packed" \in Slots /\ "weighted" \in Slots
  BY DEF Slots
<1>11. config.workspace =>
              /\ config.packed => Grown(mem, x, "packed", plan.size, plan.dev)
              /\ ~config.accumulate => Grown(mem, x, "weighted", plan.size, plan.dev)
  BY <1>9, <1>10 DEF OutputsGot
<1> QED BY <1>1, <1>3, <1>4, <1>5, <1>6, <1>7, <1>8, <1>11

LEMMA ExecuteStep == ASSUME PlanInv, Execute PROVE PlanInv' /\ Grows(OutputSlots)
<1> DEFINE o == Outputs
           tag == Computed(o.mem, ScheduleRows.data)
           w == IF config.packed THEN Written(o.mem, o.packed, tag) ELSE o.mem
<1>1. /\ stage = "planner" /\ stage' = "executor" /\ rows' = ScheduleRows
      /\ mem' = Written(w, o.rows, tag)
      /\ plan' = [plan EXCEPT !.packed = o.packed, !.rows = o.rows]
      /\ UNCHANGED <<built, config, previous, results, started>>
  BY DEF Execute
<1>2. Active /\ Prepared(mem, plan)
  BY <1>1 DEF Active, PlanInv, StageInv
<1>3. OutputsGot(o)
  BY <1>2, OutputsAreGot
<1> HIDE DEF o
<1>4. tag = plan.id
  <2>1. MemOK(started, o.mem) /\ Keeps(mem, o.mem, OutputSlots)
    BY <1>3 DEF OutputsGot
  <2>2. ScheduleRows.data = [i \in 1..plan.size |-> plan.id]
    BY <1>1, ScheduleRowsAre
  <2> DEFINE h == ScheduleRows.data
  <2>3. h = [i \in 1..plan.size |-> plan.id]
    BY <2>2
  <2> HIDE DEF h
  <2>4. Computed(o.mem, h) = plan.id
    BY <1>1, <2>1, <2>3, ComputedIs
  <2> QED BY <2>4 DEF h
<1> HIDE DEF tag
<1>5. /\ MemOK(started, mem') /\ Keeps(mem, mem', OutputSlots)
      /\ ~config.workspace => mem'.slot = mem.slot
      /\ config.accumulate => OwnView(mem', o.rows, plan.dev, plan.id)
      /\ ~config.accumulate => Has(mem', o.rows, plan.dev, "weighted", plan.id)
      /\ config.packed => Has(mem', o.packed, plan.dev, "packed", plan.id)
      /\ config.workspace =>
           /\ config.packed => Grown(mem, mem', "packed", plan.size, plan.dev)
           /\ ~config.accumulate => Grown(mem, mem', "weighted", plan.size, plan.dev)
  <2>1. w = IF config.packed THEN Written(o.mem, o.packed, plan.id) ELSE o.mem
    BY <1>4
  <2>2. mem' = Written(w, o.rows, plan.id)
    BY <1>1, <1>4
  <2> HIDE DEF w
  <2> QED BY <1>2, <1>3, <2>1, <2>2, PlanFacts, OutputsWritten
<1>6. o.rows \in View /\ o.packed \in View
  <2>1. NoView \in View
    BY DEF View, NoView
  <2> QED BY <1>3, <2>1, ConfigFacts DEF OutputsGot, Within, PlanInv
<1> DEFINE u == o.packed
           v == o.rows
<1>7. plan' = [plan EXCEPT !.packed = u, !.rows = v] /\ u \in View /\ v \in View
  BY <1>1, <1>6
<1> HIDE DEF u, v
<1>8. /\ plan' \in PlanRecord /\ plan'.id = plan.id /\ plan'.size = plan.size
      /\ plan'.dev = plan.dev /\ plan'.input = plan.input
      /\ plan'.assignments = plan.assignments /\ plan'.schedule = plan.schedule
      /\ plan'.barriers = plan.barriers /\ plan'.local = plan.local
      /\ plan'.topology = plan.topology /\ plan'.packed = u /\ plan'.rows = v
      /\ Viewed(plan') \subseteq Viewed(plan) \cup {u, v}
  BY <1>2, <1>7, PlanFacts DEF PlanRecord, Viewed
<1>9. Executed(mem', built', plan')
  BY <1>1, <1>5, <1>8, ConfigFacts DEF Executed, PlanInv, u, v
<1>10. Prepared(mem', plan')
  <2>1. Prepared(mem', plan)
    BY <1>2, <1>5, PlanFacts, OutputSlotsAre, PreparedStays
  <2> QED BY <1>8, <2>1 DEF Prepared, Assigned, Scheduled
<1>11. /\ ConfigInv' /\ MemInv' /\ ResultInv' /\ ForwardInv'
       /\ Known(mem', rows', started', Len(results'), plan')
  <2>1. ViewOK(mem', v, plan.dev) /\ ViewOK(mem', u, plan.dev)
    <3>1. ViewOK(mem', v, plan.dev)
      BY <1>5, ConfigFacts DEF ViewOK, Has, OwnView, v, PlanInv
    <3>2. CASE config.packed
      BY <1>5, <3>1, <3>2 DEF ViewOK, Has, u
    <3>3. CASE ~config.packed
      BY <1>3, <3>1, <3>3 DEF ViewOK, OutputsGot, u
    <3> QED BY <3>2, <3>3, ConfigFacts DEF PlanInv
  <2>2. /\ RowsFor(rows', plan) /\ \A k \in DOMAIN results : RowsFor(rows', results[k])
        /\ rows'.plan = plan.id
    BY <1>1, ScheduleRowsAre
  <2>3. rows'.plan \in 0..started
    BY <1>2, <2>2, PlanFacts DEF Known
  <2>4. ~built.workspace => mem'.slot = mem.slot
    BY <1>2, <1>5, PlanFacts
  <2> QED BY <1>1, <1>2, <1>5, <1>8, <2>1, <2>2, <2>3, <2>4, OutputSlotsAre, StageKeeps
<1>12. rows'.plan = plan'.id
  BY <1>1, <1>8, ScheduleRowsAre
<1>13. StageInv'
  BY <1>1, <1>9, <1>10, <1>11, <1>12 DEF StageInv, Prepared
<1>14. Grows(OutputSlots)
  BY <1>5, ConfigFacts DEF Grows, Used, OutputSlots, PlanInv
<1> QED BY <1>11, <1>13, <1>14 DEF PlanInv

(* The end of a forward, returned or raised.                               *)
LEMMA EndKeeps ==
  ASSUME PlanInv, Active, Restored, stage' = "idle", plan' = NoPlan,
         UNCHANGED <<built, started>>, MemOK(started, mem'),
         NEW S \in SUBSET OutputSlots, Keeps(mem, mem', S),
         ~built.workspace => mem'.slot = mem.slot,
         rows'.plan \in 0..started, \A k \in DOMAIN results : RowsFor(rows', results[k]),
         NEW p, RowsFor(rows', p),
         \/ UNCHANGED results
         \/ /\ results' = Append(results, p) /\ p \in PlanRecord /\ SameForward(p, plan)
            /\ p.id = plan.id /\ ResultOK(mem', built, rows', started, Len(results), p)
  PROVE  PlanInv'
<1>1. MemOK(started, mem) /\ Len(results) \in Nat /\ results \in Seq(PlanRecord)
      /\ S \in SUBSET Slots /\ S \subseteq Slots \ Planning
  BY PlanFacts, OutputSlotsAre DEF PlanInv, ResultInv
<1>2. Len(results') \in Nat /\ Len(results) <= Len(results') /\ results' \in Seq(PlanRecord)
      /\ DOMAIN results' = 1..Len(results')
  BY <1>1
<1>3. ASSUME NEW k \in DOMAIN results
      PROVE  ResultOK(mem', built, rows', started, Len(results'), results[k])
  <2>1. ResultOK(mem, built, rows, started, Len(results), results[k])
    BY DEF PlanInv, ResultInv
  <2>2. ~built.workspace => mem'.slot = mem.slot /\ \A s \in Slots : mem.slot[s] = 0
    BY DEF PlanInv, MemInv
  <2>3. RowsFor(rows', results[k])
    OBVIOUS
  <2> QED BY <1>1, <1>2, <2>1, <2>2, <2>3, ResultStays
<1>4. \A k \in DOMAIN results' :
        \/ k \in DOMAIN results /\ results'[k] = results[k]
        \/ /\ results'[k] = p /\ SameForward(p, plan) /\ p.id = plan.id
           /\ ResultOK(mem', built, rows', started, Len(results), p)
  BY <1>1
<1>5. ASSUME ResultOK(mem', built, rows', started, Len(results), p)
      PROVE  ResultOK(mem', built, rows', started, Len(results'), p)
  <2>1. Known(mem', rows', started, Len(results), p)
    BY <1>5 DEF ResultOK
  <2>2. Known(mem', rows', started, Len(results'), p)
    <3>1. p.input \in 0..Len(results')
      <4> DEFINE i == p.input
                 n == Len(results)
      <4>1. i \in 0..n
        BY <2>1 DEF Known
      <4>2. n \in Nat /\ Len(results') \in Nat /\ n <= Len(results')
        BY <1>1, <1>2
      <4> HIDE DEF i, n
      <4>3. i \in 0..Len(results')
        BY <4>1, <4>2
      <4> QED BY <4>3 DEF i
    <3> QED BY <2>1, <3>1 DEF Known
  <2> QED BY <1>5, <2>2 DEF ResultOK
<1>6. ResultInv'
  <2>1. \A k \in DOMAIN results' :
          ResultOK(mem', built, rows', started, Len(results'), results'[k])
    BY <1>3, <1>4, <1>5
  <2> QED BY <1>2, <2>1 DEF ResultInv
<1>7. MemInv'
  BY DEF PlanInv, MemInv
<1>8. ConfigInv'
  BY DEF PlanInv, ConfigInv, Restored
<1>9. StageInv'
  BY DEF StageInv
<1>10. ForwardInv'
  <2>1. \A j, k \in DOMAIN results : SameForward(results[j], results[k])
    BY DEF PlanInv, ForwardInv
  <2>2. \A k \in DOMAIN results : SameForward(results[k], plan)
    BY DEF PlanInv, ForwardInv
  <2>3. ASSUME NEW j \in DOMAIN results', NEW k \in DOMAIN results'
        PROVE  SameForward(results'[j], results'[k])
    BY <1>4, <2>1, <2>2, <2>3 DEF SameForward
  <2> QED BY <2>3 DEF ForwardInv, Active
<1> QED BY <1>6, <1>7, <1>8, <1>9, <1>10 DEF PlanInv

LEMMA ExecuteRaisesStep ==
  ASSUME PlanInv, ExecuteRaises PROVE PlanInv' /\ (Grows({}) \/ Grows(OutputSlots))
<1>1. /\ stage = "planner" /\ rows' = ScheduleRows /\ stage' = "idle" /\ plan' = NoPlan
      /\ Restored /\ UNCHANGED <<built, results, started>>
  BY DEF ExecuteRaises
<1>2. Active
  BY <1>1 DEF Active
<1>3. /\ \A k \in DOMAIN results : RowsFor(rows', results[k])
      /\ rows'.plan \in 0..started /\ RowsFor(rows', plan)
  <2>1. rows'.plan = plan.id
    BY <1>1, ScheduleRowsAre
  <2>2. plan.id \in 1..started /\ started \in Nat
    BY <1>2, PlanFacts DEF Known
  <2> QED BY <1>1, <2>1, <2>2, ScheduleRowsAre
<1>4. \E S \in SUBSET OutputSlots :
        /\ MemOK(started, mem') /\ Keeps(mem, mem', S)
        /\ ~built.workspace => mem'.slot = mem.slot
        /\ Grows(S) /\ (S = {} \/ S = OutputSlots)
  <2>1. CASE UNCHANGED mem
    <3>1. MemOK(started, mem) /\ Keeps(mem, mem, {})
      BY <1>2, PlanFacts, KeepsNone
    <3>2. Grows({})
      BY <2>1, <3>1 DEF Grows
    <3> QED BY <2>1, <3>1, <3>2
  <2>2. CASE ~UNCHANGED mem
    <3> DEFINE o == Outputs
               v == [o.rows EXCEPT !.len = 1]
               tag == Computed(o.mem, ScheduleRows.data)
    <3>1. mem' = Written(o.mem, v, tag)
      BY <2>2 DEF ExecuteRaises
    <3>2. tag \in Tag(started)
      <4>1. tag \in {plan.id, Unset}
        BY DEF Computed
      <4> HIDE DEF tag
      <4> QED BY <1>2, <4>1, PlanFacts
    <3>3. OutputsGot(o)
      BY <1>2, OutputsAreGot
    <3> HIDE DEF o, tag
    <3>4. /\ MemOK(started, o.mem) /\ Keeps(mem, o.mem, OutputSlots)
          /\ ~config.workspace => o.mem.slot = mem.slot
          /\ Within(o.mem, o.rows, plan.dev) /\ o.rows.len = plan.size
          /\ Fresh(mem, o.rows.buf, OutputSlots)
      BY <3>3 DEF OutputsGot
    <3>5. v \in View /\ v.buf = o.rows.buf /\ v.len = 1
      BY <3>4 DEF Within, View
    <3>6. Within(o.mem, v, plan.dev) /\ Fresh(mem, v.buf, OutputSlots)
      <4>1. 1 <= plan.size /\ plan.size \in Nat
        BY <1>2, PlanFacts
      <4>2. Room(o.mem, o.rows.buf) \in Nat
        <5>1. o.mem.heap \in Seq(Buffer(started)) /\ o.rows.buf \in 1..Len(o.mem.heap)
          BY <3>4 DEF MemOK, Within
        <5>2. o.mem.heap[o.rows.buf] \in Buffer(started)
          BY <5>1
        <5> QED BY <5>2 DEF Buffer, Room
      <4> QED BY <3>4, <3>5, <4>1, <4>2 DEF Within
    <3> HIDE DEF v
    <3>7. MemOK(started, mem') /\ mem'.slot = o.mem.slot
      BY <3>1, <3>2, <3>4, <3>6, WrittenFacts
    <3>8. Keeps(mem, mem', OutputSlots)
      BY <1>2, <3>1, <3>2, <3>4, <3>6, PlanFacts, OutputSlotsAre, WrittenKeeps
    <3>9. ASSUME NEW s \in Slots, Grown(mem, o.mem, s, plan.size, plan.dev)
          PROVE  Grown(mem, mem', s, plan.size, plan.dev)
      BY <3>1, <3>2, <3>4, <3>6, <3>9, WrittenGrown
    <3>10. "packed" \in Slots /\ "weighted" \in Slots
      BY DEF Slots
    <3>11. Grows(OutputSlots)
      BY <3>3, <3>8, <3>9, <3>10, ConfigFacts DEF Grows, Used, OutputSlots, OutputsGot, PlanInv
    <3> QED BY <1>2, <3>4, <3>7, <3>8, <3>11, PlanFacts
  <2> QED BY <2>1, <2>2
<1> QED BY <1>1, <1>2, <1>3, <1>4, EndKeeps

LEMMA MergeRaisesStep == ASSUME PlanInv, MergeRaises PROVE PlanInv'
<1>1. /\ stage' = "idle" /\ plan' = NoPlan /\ stage = "executor"
      /\ Restored /\ UNCHANGED <<built, mem, rows, results, started>>
  BY DEF MergeRaises
<1>2. Active
  BY <1>1 DEF Active
<1>3. MemOK(started, mem') /\ Keeps(mem, mem', {}) /\ {} \in SUBSET OutputSlots
  BY <1>1, <1>2, PlanFacts, KeepsNone
<1>4. /\ \A k \in DOMAIN results : RowsFor(rows', results[k])
      /\ rows'.plan \in 0..started /\ RowsFor(rows', plan)
  BY <1>1, <1>2, PlanFacts
<1> QED BY <1>1, <1>2, <1>3, <1>4, EndKeeps

LEMMA MergeStep == ASSUME PlanInv, Merge PROVE PlanInv' /\ Grows({})
<1> DEFINE v == Merged.view
           p == RuntimeOutput(v)
<1>1. /\ stage' = "idle" /\ plan' = NoPlan /\ stage = "executor" /\ ~MergerRefuses
      /\ Restored /\ UNCHANGED <<built, rows, started>>
      /\ mem' = Merged.mem /\ results' = Append(results, p)
  BY DEF Merge
<1>2. Active /\ Prepared(mem, plan) /\ Executed(mem, built, plan)
  BY <1>1 DEF Active, PlanInv, StageInv
<1>3. /\ config.accumulate = built.accumulate /\ config.packed = built.packed
      /\ config.weigh = built.weigh /\ built.accumulate \in BOOLEAN
      /\ built.packed \in BOOLEAN /\ built.weigh \in BOOLEAN
  BY ConfigFacts DEF PlanInv
<1>4. /\ MemOK(started, mem') /\ Keeps(mem, mem', {}) /\ mem'.slot = mem.slot
      /\ OwnView(mem', v, plan.dev, plan.id) /\ v \in View
  <2>1. CASE config.accumulate
    <3>1. mem' = mem /\ v = plan.rows
      BY <1>1, <2>1 DEF Merged
    <3>2. OwnView(mem, plan.rows, plan.dev, plan.id)
      BY <1>2, <1>3, <2>1 DEF Executed
    <3> HIDE DEF v
    <3> QED BY <1>2, <3>1, <3>2, PlanFacts, KeepsNone DEF OwnView, Within
  <2>2. CASE ~config.accumulate
    <3> DEFINE a == Allocated(mem, plan.size, plan.dev)
               u == Newest(a, plan.size)
               tag == IF Holds(mem, Source, plan.id) /\ Holds(mem, plan.assignments, plan.id)
                      THEN plan.id ELSE Unset
    <3>1. mem' = Written(a, u, tag) /\ v = u
      BY <1>1, <2>2 DEF Merged
    <3>2. tag = plan.id
      <4>1. Holds(mem, plan.assignments, plan.id)
        BY <1>2 DEF Prepared, Assigned, Has
      <4>2. Holds(mem, Source, plan.id)
        <5>1. CASE config.weigh
          <6>1. config.packed
            BY <1>1, <1>3, <5>1 DEF MergerRefuses
          <6> QED BY <1>2, <1>3, <5>1, <6>1 DEF Source, Executed, Has
        <5>2. CASE ~config.weigh
          BY <1>2, <1>3, <2>2, <5>2 DEF Source, Executed, Has
        <5> QED BY <1>3, <5>1, <5>2
      <4> QED BY <4>1, <4>2
    <3>3. /\ MemOK(started, a) /\ Keeps(mem, a, {}) /\ Within(a, u, plan.dev)
          /\ \A s \in Slots : u.buf # a.slot[s]
          /\ u = [buf |-> Len(mem.heap) + 1, len |-> plan.size]
      <4>1. /\ a = Allocated(mem, plan.size, plan.dev) /\ u = Newest(a, plan.size)
            /\ MemOK(started, mem) /\ plan.size \in Nat /\ plan.dev \in Devs
        BY <1>2, PlanFacts
      <4> HIDE DEF a, u
      <4>2. OwnTensor(started, mem, plan.size, plan.dev, a, u)
        BY ONLY <4>1, AllocatedKeeps
      <4> QED BY <4>2 DEF OwnTensor
    <3>4. a.slot = mem.slot
      BY <1>2, PlanFacts DEF Allocated, MemOK
    <3> HIDE DEF v, a, u, tag
    <3>5. Fresh(mem, u.buf, {})
      BY <1>2, <3>3, PlanFacts DEF Fresh, MemOK
    <3>6. /\ MemOK(started, mem') /\ mem'.slot = a.slot /\ Within(mem', u, plan.dev)
          /\ Holds(mem', u, plan.id)
      BY <1>2, <3>1, <3>2, <3>3, PlanFacts, WrittenFacts
    <3>7. Keeps(mem, mem', {})
      BY <1>2, <3>1, <3>2, <3>3, <3>5, PlanFacts, WrittenKeeps
    <3> QED BY <3>1, <3>3, <3>4, <3>6, <3>7 DEF OwnView, Within
  <2> QED BY <1>3, <2>1, <2>2
<1>5. p = [plan EXCEPT !.hidden = v]
  BY DEF RuntimeOutput
<1> HIDE DEF v, p
<1>6. /\ p \in PlanRecord /\ p.id = plan.id /\ p.size = plan.size
      /\ p.dev = plan.dev /\ p.input = plan.input
      /\ p.assignments = plan.assignments /\ p.schedule = plan.schedule
      /\ p.barriers = plan.barriers /\ p.local = plan.local
      /\ p.topology = plan.topology /\ p.hidden = v
      /\ Viewed(p) \subseteq Viewed(plan) \cup {v}
  BY <1>2, <1>4, <1>5, PlanFacts DEF PlanRecord, Viewed
<1>7. ResultOK(mem', built, rows', started, Len(results), p)
  <2>1. Known(mem', rows', started, Len(results), plan)
    BY <1>1, <1>2, <1>4, PlanFacts, KnownStays
  <2>2. ViewOK(mem', v, plan.dev)
    BY <1>4 DEF ViewOK, OwnView
  <2>3. Known(mem', rows', started, Len(results), p)
    BY <1>6, <2>1, <2>2 DEF Known, RowsFor
  <2>4. Prepared(mem', plan)
    BY <1>2, <1>4, PlanFacts, PreparedStays
  <2>5. Prepared(mem', p)
    BY <1>6, <2>4 DEF Prepared, Assigned, Scheduled
  <2> QED BY <1>4, <1>6, <2>3, <2>5 DEF ResultOK
<1>8. {} \in SUBSET OutputSlots /\ SameForward(p, plan)
  BY <1>6 DEF SameForward
<1>9. /\ \A k \in DOMAIN results : RowsFor(rows', results[k])
      /\ rows'.plan \in 0..started /\ RowsFor(rows', p)
  BY <1>1, <1>2, <1>6, PlanFacts DEF RowsFor
<1>10. Grows({})
  BY <1>4 DEF Grows
<1> QED BY <1>1, <1>2, <1>4, <1>6, <1>7, <1>8, <1>9, <1>10, EndKeeps

LEMMA ReexecuteStep ==
  ASSUME PlanInv, NEW k \in DOMAIN results, Reexecute(k) PROVE PlanInv'
<1> DEFINE r == results[k]
<1>1. /\ stage = "idle" /\ stage' = "planner" /\ Lasting(r)
      /\ plan' = [r EXCEPT !.packed = NoView, !.rows = NoView, !.hidden = NoView]
      /\ UNCHANGED <<built, config, previous, mem, rows, results, started>>
  BY DEF Reexecute
<1>2. ResultOK(mem, built, rows, started, Len(results), r)
  BY DEF PlanInv, ResultInv
<1> HIDE DEF r
<1>3. Known(mem, rows, started, Len(results), r) /\ r \in PlanRecord
  BY <1>2 DEF ResultOK, Known
<1>4. Prepared(mem, r)
  <2>1. config.workspace = built.workspace
    BY ConfigFacts DEF PlanInv
  <2> QED BY <1>1, <1>2, <2>1 DEF Lasting, ResultOK
<1>5. /\ plan' \in PlanRecord /\ plan'.id = r.id /\ plan'.size = r.size
      /\ plan'.dev = r.dev /\ plan'.input = r.input
      /\ plan'.assignments = r.assignments /\ plan'.schedule = r.schedule
      /\ plan'.barriers = r.barriers /\ plan'.local = r.local
      /\ plan'.topology = r.topology
      /\ Viewed(plan') \subseteq Viewed(r) \cup {NoView}
  <2>1. NoView \in View
    BY DEF View, NoView
  <2> QED BY <1>1, <1>3, <2>1 DEF PlanRecord, Viewed
<1>6. Prepared(mem, plan')
  BY <1>4, <1>5 DEF Prepared, Assigned, Scheduled
<1>7. Known(mem, rows, started, Len(results), plan')
  BY <1>3, <1>5 DEF Known, RowsFor, ViewOK
<1>8. StageInv'
  BY <1>1, <1>6, <1>7 DEF StageInv, Prepared
<1>9. ForwardInv'
  <2>1. \A j \in DOMAIN results : SameForward(results[j], r)
    BY DEF PlanInv, ForwardInv, r
  <2> QED BY <1>1, <1>5, <2>1 DEF PlanInv, ForwardInv, SameForward
<1>10. ConfigInv' /\ MemInv' /\ ResultInv'
  BY <1>1 DEF PlanInv, ConfigInv, MemInv, ResultInv
<1> QED BY <1>8, <1>9, <1>10 DEF PlanInv

LEMMA PlanStep == PlanInv /\ [PlanNext]_planVars => PlanInv'
<1> SUFFICES ASSUME PlanInv, [PlanNext]_planVars PROVE PlanInv'
  OBVIOUS
<1>1. ASSUME NEW i \in Inputs, NEW src \in {0, Len(results)},
             Forward(i, src) \/ Profile(i, src)
      PROVE  PlanInv'
  <2>1. Begin(i, src) /\ stage = "idle"
    BY <1>1 DEF Forward, Profile, Begin
  <2>2. MemInv' /\ StageInv' /\ ResultInv' /\ ForwardInv' /\ stage' # "idle"
    BY <2>1, BeginStep
  <2>3. ConfigInv'
    <3>1. previous = <<>> /\ config = built /\ UNCHANGED built
      BY <2>1 DEF PlanInv, ConfigInv, Begin
    <3> QED BY <1>1, <2>2, <3>1 DEF PlanInv, ConfigInv, Forward, Profile
  <2> QED BY <2>2, <2>3 DEF PlanInv
<1>2. CASE Dispatch
  BY <1>2, DispatchStep
<1>3. CASE MakeSchedule
  BY <1>3, MakeScheduleStep
<1>4. CASE PlanCommunication
  BY <1>4, PlanCommunicationStep
<1>5. CASE Execute
  BY <1>5, ExecuteStep
<1>6. CASE ExecuteRaises
  BY <1>6, ExecuteRaisesStep
<1>7. CASE Merge
  BY <1>7, MergeStep
<1>8. CASE MergeRaises
  BY <1>8, MergeRaisesStep
<1>9. ASSUME NEW k \in DOMAIN results, Reexecute(k) PROVE PlanInv'
  BY <1>9, ReexecuteStep
<1>10. CASE UNCHANGED planVars
  BY <1>10 DEF planVars, PlanInv, ConfigInv, MemInv, StageInv, ResultInv, ForwardInv, Active
<1> QED BY <1>1, <1>2, <1>3, <1>4, <1>5, <1>6, <1>7, <1>8, <1>9, <1>10 DEF PlanNext

LEMMA PlanInvariant == PlanSpec => []PlanInv
BY PlanInitOK, PlanStep, PTL DEF PlanSpec

LEMMA PlanTypes == PlanInv => PlanTypeOK
<1> SUFFICES ASSUME PlanInv PROVE PlanTypeOK
  OBVIOUS
<1>1. MemOK(started, mem) /\ started \in Nat /\ started <= MaxForwards
  BY DEF PlanInv, MemInv, MemOK
<1>2. mem.slot \in [Slots -> 0..Len(mem.heap)]
  <2>1. mem.slot \in [Slots -> Nat] /\ Len(mem.heap) \in Nat
        /\ \A s \in Slots : mem.slot[s] <= Len(mem.heap)
    BY <1>1 DEF MemOK
  <2> DEFINE f == mem.slot
             n == Len(mem.heap)
  <2>2. f \in [Slots -> Nat] /\ n \in Nat /\ \A s \in Slots : f[s] <= n
    BY <2>1
  <2> HIDE DEF f, n
  <2>3. f \in [Slots -> 0..n]
    BY <2>2
  <2> QED BY <2>3 DEF f, n
<1>3. ASSUME NEW b \in DOMAIN mem.heap, NEW j \in DOMAIN mem.heap[b].data
      PROVE  mem.heap[b].data[j] \in Unset..started
  <2>1. mem.heap \in Seq(Buffer(started))
    BY <1>1 DEF MemOK
  <2>2. mem.heap[b] \in Buffer(started)
    BY <2>1
  <2> DEFINE q == mem.heap[b].data
  <2>3. q \in Seq(Tag(started)) /\ j \in DOMAIN q
    BY <2>2 DEF Buffer
  <2> HIDE DEF q
  <2>4. q[j] \in Tag(started)
    BY <2>3
  <2> QED BY <2>4 DEF q, Tag
<1>4. ASSUME NEW p \in {plan} \cup {results[k] : k \in DOMAIN results},
             NEW v \in Viewed(p) \ {NoView}
      PROVE  v.buf \in DOMAIN mem.heap /\ v.len <= Len(mem.heap[v.buf].data)
  <2>1. \E d : Within(mem, v, d)
    <3>1. CASE p = plan /\ stage = "idle"
      <4>1. Viewed(p) = {NoView}
        BY <3>1 DEF PlanInv, StageInv, NoPlan, Blank, Viewed
      <4> QED BY <4>1
    <3>2. CASE p = plan /\ stage # "idle"
      BY <3>2, PlanFacts DEF Known, ViewOK, Active
    <3>3. CASE \E k \in DOMAIN results : p = results[k]
      BY <3>3 DEF PlanInv, ResultInv, ResultOK, Known, ViewOK
    <3> QED BY <3>1, <3>2, <3>3
  <2>2. DOMAIN mem.heap = 1..Len(mem.heap)
    BY <1>1 DEF MemOK
  <2> QED BY <2>1, <2>2 DEF Within, Room
<1>5. /\ built \in Builds /\ config \in {built, [built EXCEPT !.profiling = TRUE]}
      /\ previous \in {<<>>, <<built>>}
      /\ stage \in {"idle", "router", "dispatcher", "scheduler", "planner", "executor"}
      /\ rows.plan \in 0..started /\ started \in 0..MaxForwards
  BY <1>1, BoundAssumption DEF PlanInv, ConfigInv, StageInv, MemInv
<1> QED BY <1>2, <1>3, <1>4, <1>5 DEF PlanTypeOK

(* runtime.py and the workspaces: whatever later forwards, of whatever     *)
(* size and device, failures, profiles and re-executions do, a kept result *)
(* holds what its own forward computed, its plans stay good as long as     *)
(* they are promised to, an executor runs over the schedule it was given,  *)
(* and every tensor of a forward is on the device of its input.            *)
THEOREM KeptResultsAreRight == PlanSpec => []ResultsOwned
<1>1. PlanInv => ResultsOwned
  <2> SUFFICES ASSUME PlanInv PROVE ResultsOwned
    OBVIOUS
  <2>1. HiddenStatesOwned
    BY DEF PlanInv, ResultInv, ResultOK, OwnView, HiddenStatesOwned
  <2>2. PlansLast
    <3> SUFFICES ASSUME NEW k \in DOMAIN results, Lasting(results[k])
                 PROVE  /\ Holds(mem, results[k].assignments, results[k].id)
                        /\ Holds(mem, results[k].schedule, results[k].id)
                        /\ Holds(mem, results[k].local, results[k].id)
                        /\ Holds(mem, results[k].barriers, Zero)
                        /\ Holds(mem, results[k].topology, Zero)
      BY DEF PlansLast
    <3> DEFINE r == results[k]
    <3>1. Prepared(mem, r)
      <4>1. config.workspace = built.workspace
        BY ConfigFacts DEF PlanInv
      <4> QED BY <4>1 DEF PlanInv, ResultInv, ResultOK, Lasting
    <3> HIDE DEF r
    <3>2. ASSUME NEW v, NEW s, HasOrNone(mem, v, r.dev, s, Zero) PROVE Holds(mem, v, Zero)
      BY <3>2 DEF HasOrNone, Has, Holds, NoView
    <3>3. /\ Holds(mem, r.assignments, r.id) /\ Holds(mem, r.schedule, r.id)
          /\ Holds(mem, r.local, r.id)
          /\ Holds(mem, r.barriers, Zero) /\ Holds(mem, r.topology, Zero)
      BY <3>1, <3>2 DEF Prepared, Assigned, Scheduled, Has
    <3> QED BY <3>3 DEF r
  <2>3. RowsOfPlan
    <3> SUFFICES ASSUME stage = "executor" PROVE rows.data = Tags(mem, plan.schedule)
      BY DEF RowsOfPlan
    <3>1. Active /\ Scheduled(mem, plan) /\ rows.plan = plan.id
      BY DEF Active, PlanInv, StageInv
    <3>2. rows.data = [i \in 1..plan.size |-> plan.id]
      BY <3>1, PlanFacts DEF RowsFor
    <3>3. /\ Within(mem, plan.schedule, plan.dev) /\ Holds(mem, plan.schedule, plan.id)
          /\ plan.schedule.len = plan.size
      BY <3>1 DEF Scheduled, Has
    <3>4. Tags(mem, plan.schedule) = [i \in 1..plan.schedule.len |-> plan.id]
      BY <3>1, <3>3, PlanFacts, TagsAre
    <3> QED BY <3>2, <3>3, <3>4
  <2>4. OnInputDevice
    <3> SUFFICES ASSUME NEW v \in Viewed(plan) \ {NoView} PROVE mem.heap[v.buf].dev = plan.dev
      BY DEF OnInputDevice
    <3>1. CASE stage = "idle"
      <4>1. Viewed(plan) = {NoView}
        BY <3>1 DEF PlanInv, StageInv, NoPlan, Blank, Viewed
      <4> QED BY <4>1
    <3>2. CASE stage # "idle"
      <4>1. Within(mem, v, plan.dev)
        BY <3>2, PlanFacts DEF Known, ViewOK, Active
      <4> QED BY <4>1 DEF Within, Place
    <3> QED BY <3>1, <3>2
  <2> QED BY <2>1, <2>2, <2>3, <2>4, PlanTypes DEF ResultsOwned
<1> QED BY <1>1, PlanInvariant, PTL

-----------------------------------------------------------------------------
(* How large the workspaces have become: as long as every forward begun    *)
(* has finished and all were on one device, a workspace is as large as the *)
(* largest of those that have used it.                                     *)

Visited(st, s) ==
  \/ s = "assignments" /\ st \in {"dispatcher", "scheduler", "planner", "executor"}
  \/ s \in {"schedule", "barriers"} /\ st \in {"scheduler", "planner", "executor"}
  \/ s \in {"packed", "weighted"} /\ st = "executor"

Ids == {results[k].id : k \in DOMAIN results}
ResultSizes == {results[k].size : k \in DOMAIN results}
Sizes(s) == ResultSizes \cup {z \in {plan.size} : Visited(stage, s)}
Unbroken == 1..started \subseteq Ids \cup {plan.id}
OnOne(d) == (\A k \in DOMAIN results : results[k].dev = d) /\ (Active => plan.dev = d)

Fits(m, s, d, Z) ==
  IF Z = {} THEN m.slot[s] = 0
  ELSE /\ m.slot[s] # 0 /\ Place(m, m.slot[s]) = d
       /\ Capacity(m, s) \in Z /\ \A z \in Z : z <= Capacity(m, s)

SettleInv ==
  built.workspace /\ Unbroken => \A d, s : OnOne(d) /\ s \in Slots /\ Used(built, s) =>
    Fits(mem, s, d, Sizes(s))

LEMMA FitsStay ==
  ASSUME NEW k, NEW m, NEW w, NEW S, MemOK(k, m), MemOK(k, w), Keeps(m, w, S),
         NEW s \in Slots \ S, NEW d, NEW Z, Fits(m, s, d, Z)
  PROVE  Fits(w, s, d, Z)
BY GrownStays DEF Fits

LEMMA FitsGrown ==
  ASSUME NEW m, NEW w, NEW s, NEW d, NEW Z \in SUBSET Nat, NEW n \in Nat, Fits(m, s, d, Z),
         Grown(m, w, s, n, d)
  PROVE  Fits(w, s, d, Z \cup {n})
<1>1. CASE Z = {}
  <2>1. Capacity(w, s) = n
    BY <1>1 DEF Fits, Grown
  <2> QED BY <1>1, <2>1 DEF Fits, Grown
<1>2. CASE Z # {}
  <2>1. /\ m.slot[s] # 0 /\ Place(m, m.slot[s]) = d
        /\ Capacity(m, s) \in Z /\ \A z \in Z : z <= Capacity(m, s)
    BY <1>2 DEF Fits
  <2>2. CASE Capacity(m, s) < n
    <3>1. Capacity(w, s) = n
      BY <2>2 DEF Grown
    <3>2. \A z \in Z \cup {n} : z <= n
      <4>1. PICK c \in Nat : c = Capacity(m, s) /\ c < n /\ \A z \in Z : z <= c
        BY <2>1, <2>2
      <4>2. \A z \in Z : z \in Nat
        OBVIOUS
      <4> QED BY ONLY <4>1, <4>2, n \in Nat
    <3> QED BY <3>1, <3>2 DEF Fits, Grown
  <2>3. CASE ~(Capacity(m, s) < n)
    <3>1. Capacity(w, s) = Capacity(m, s)
      BY <2>1, <2>3 DEF Grown
    <3>2. n <= Capacity(m, s)
      <4> DEFINE c == Capacity(m, s)
      <4>1. c \in Nat /\ ~(c < n)
        BY <2>1, <2>3
      <4> HIDE DEF c
      <4>2. n <= c
        BY <4>1
      <4> QED BY <4>2 DEF c
    <3>3. \A z \in Z \cup {n} : z <= Capacity(m, s)
      BY <2>1, <3>2
    <3> QED BY <2>1, <3>1, <3>3 DEF Fits, Grown
  <2> QED BY <2>2, <2>3
<1> QED BY <1>1, <1>2

LEMMA SizesAre ==
  ASSUME PlanInv
  PROVE  /\ ResultSizes \subseteq Nat
         /\ Active => plan.size \in Nat /\ plan.id \in 1..started
         /\ plan.id = 0 \/ Active
         /\ \A s : Visited(stage, s) => Active /\ Sizes(s) = ResultSizes \cup {plan.size}
         /\ \A s : ~Visited(stage, s) => Sizes(s) = ResultSizes
<1>1. \A k \in DOMAIN results : results[k] \in PlanRecord
  BY DEF PlanInv, ResultInv, ResultOK, Known
<1>2. ResultSizes \subseteq Nat
  BY <1>1 DEF ResultSizes, PlanRecord
<1>3. Active => plan.size \in Nat /\ plan.id \in 1..started
  BY PlanFacts DEF Known
<1>4. plan.id = 0 \/ Active
  BY DEF PlanInv, StageInv, Active, NoPlan, Blank
<1>5. \A s : Visited(stage, s) => Active /\ Sizes(s) = ResultSizes \cup {plan.size}
  BY DEF Visited, Active, Sizes
<1>6. \A s : ~Visited(stage, s) => Sizes(s) = ResultSizes
  BY DEF Sizes
<1> QED BY <1>2, <1>3, <1>4, <1>5, <1>6

(* A plan of a finished forward has that forward's size and device.        *)
LEMMA FinishedPlan ==
  ASSUME PlanInv, Active, plan.id \in Ids
  PROVE  /\ plan.size \in ResultSizes
         /\ \A d : (\A k \in DOMAIN results : results[k].dev = d) => OnOne(d)
<1>1. PICK k \in DOMAIN results : results[k].id = plan.id
  BY DEF Ids
<1>2. results[k].size = plan.size /\ results[k].dev = plan.dev
  BY <1>1 DEF PlanInv, ForwardInv, SameForward
<1> QED BY <1>2 DEF ResultSizes, OnOne

(* The stages that only look at the plan, or start a new one.              *)
LEMMA SettleBegin ==
  ASSUME PlanInv, SettleInv, NEW i \in Inputs, NEW src \in {0, Len(results)}, Begin(i, src)
  PROVE  SettleInv'
<1>1. /\ stage = "idle" /\ stage' = "router" /\ plan' = Blank(started + 1, i, src)
      /\ UNCHANGED <<built, mem, results>> /\ started' = started + 1
  BY DEF Begin
<1>2. started \in Nat /\ \A k \in DOMAIN results : results[k].id \in 1..started
  BY DEF PlanInv, MemInv, MemOK, ResultInv, ResultOK, Known
<1>3. plan'.id = started + 1
  BY <1>1 DEF Blank
<1>4. Unbroken' => Unbroken
  <2> SUFFICES ASSUME Unbroken', NEW n \in 1..started PROVE n \in Ids
    BY DEF Unbroken
  <2>1. n \in 1..(started + 1) /\ n # started + 1
    BY <1>2
  <2> QED BY <1>1, <1>3, <2>1 DEF Unbroken, Ids
<1>5. ASSUME NEW d PROVE OnOne(d)' => OnOne(d)
  BY <1>1 DEF OnOne, Active
<1>6. ASSUME NEW s PROVE Sizes(s)' = Sizes(s)
  BY <1>1 DEF Sizes, Visited, ResultSizes
<1> QED BY <1>1, <1>4, <1>5, <1>6 DEF SettleInv

LEMMA SettleReexecute ==
  ASSUME PlanInv, SettleInv, NEW k \in DOMAIN results, Reexecute(k)
  PROVE  SettleInv'
<1>1. /\ stage = "idle" /\ stage' = "planner"
      /\ plan' = [results[k] EXCEPT !.packed = NoView, !.rows = NoView, !.hidden = NoView]
      /\ UNCHANGED <<built, mem, results, started>>
  BY DEF Reexecute
<1>2. results[k] \in PlanRecord
  BY DEF PlanInv, ResultInv, ResultOK, Known
<1>3. plan'.id = results[k].id /\ plan'.size = results[k].size
  BY <1>1, <1>2 DEF PlanRecord
<1>4. Unbroken' => Unbroken
  BY <1>1, <1>3 DEF Unbroken, Ids
<1>5. ASSUME NEW d PROVE OnOne(d)' => OnOne(d)
  BY <1>1 DEF OnOne, Active
<1>6. ASSUME NEW s PROVE Sizes(s)' = Sizes(s)
  BY <1>1, <1>3 DEF Sizes, Visited, ResultSizes
<1> QED BY <1>1, <1>4, <1>5, <1>6 DEF SettleInv

(* A stage that asks for the workspaces of S and leaves the others.        *)
LEMMA SettleStage ==
  ASSUME PlanInv, SettleInv, Active, PlanInv', NEW S \in SUBSET Slots, Grows(S),
         stage' # "idle", UNCHANGED <<built, results, started>>,
         plan'.id = plan.id, plan'.size = plan.size, plan'.dev = plan.dev,
         \A s \in S : Used(built, s) => ~Visited(stage, s) /\ Visited(stage', s),
         \A s \in Slots \ S : Used(built, s) => (Visited(stage', s) <=> Visited(stage, s))
  PROVE  SettleInv'
<1>1. Unbroken' = Unbroken
  BY DEF Unbroken, Ids
<1>2. ASSUME NEW d PROVE OnOne(d)' = OnOne(d)
  BY DEF OnOne, Active
<1>3. MemOK(started, mem) /\ MemOK(started, mem')
  BY DEF PlanInv, MemInv
<1>4. ASSUME NEW s \in Slots, Used(built, s), built.workspace, NEW d, d = plan.dev,
             Fits(mem, s, d, Sizes(s))
      PROVE  Fits(mem', s, d, Sizes(s)')
  <2>1. CASE s \in S
    <3>1. Grown(mem, mem', s, plan.size, d)
      BY <1>4, <2>1 DEF Grows
    <3>2. Sizes(s) = ResultSizes /\ plan.size \in Nat /\ ResultSizes \in SUBSET Nat
      BY <1>4, <2>1, SizesAre
    <3>3. Sizes(s)' = ResultSizes \cup {plan.size}
      BY <1>4, <2>1 DEF Sizes, ResultSizes
    <3>4. Fits(mem, s, d, ResultSizes)
      BY <1>4, <3>2
    <3>5. Fits(mem', s, d, ResultSizes \cup {plan.size})
      BY <3>1, <3>2, <3>4, FitsGrown
    <3> QED BY <3>3, <3>5
  <2>2. CASE s \notin S
    <3>1. Sizes(s)' = Sizes(s)
      BY <1>4, <2>2 DEF Sizes, ResultSizes
    <3>2. Keeps(mem, mem', S) /\ s \in Slots \ S
      BY <2>2 DEF Grows
    <3>3. Fits(mem', s, d, Sizes(s))
      BY <1>3, <1>4, <3>2, FitsStay
    <3> QED BY <3>1, <3>3
  <2> QED BY <2>1, <2>2
<1>5. ASSUME built.workspace, Unbroken, NEW d, NEW s \in Slots, OnOne(d), Used(built, s)
      PROVE  Fits(mem', s, d, Sizes(s)')
  <2>1. d = plan.dev
    BY <1>5 DEF OnOne
  <2>2. Fits(mem, s, d, Sizes(s))
    BY <1>5 DEF SettleInv
  <2> QED BY <1>4, <1>5, <2>1, <2>2
<1> QED BY <1>1, <1>2, <1>5 DEF SettleInv

(* The end of a forward whose result is kept, or of one that had one.      *)
LEMMA SettleEnd ==
  ASSUME PlanInv, SettleInv, Active, PlanInv', NEW S \in SUBSET Slots, Grows(S),
         stage' = "idle", UNCHANGED <<built, started>>,
         \/ UNCHANGED results
         \/ S = {} /\ (\A s \in Slots : Used(built, s) => Visited(stage, s))
              /\ \E p : results' = Append(results, p) /\ p.id = plan.id
                          /\ p.size = plan.size /\ p.dev = plan.dev
  PROVE  SettleInv'
<1>1. MemOK(started, mem) /\ MemOK(started, mem') /\ results \in Seq(PlanRecord)
  BY DEF PlanInv, MemInv, ResultInv
<1>2. plan'.id = 0 /\ ~Active'
  BY DEF PlanInv, StageInv, NoPlan, Blank, Active
<1>3. \A s : Sizes(s)' = ResultSizes'
  BY DEF Sizes, Visited, ResultSizes
<1>4. CASE UNCHANGED results
  <2> SUFFICES ASSUME built.workspace, Unbroken', NEW d, NEW s \in Slots, OnOne(d)',
                      Used(built, s)
               PROVE  Fits(mem', s, d, ResultSizes)
    BY <1>3, <1>4 DEF SettleInv, ResultSizes
  <2>1. plan.id \in Ids
    <3>1. plan.id \in 1..started /\ plan.id # 0
      BY SizesAre
    <3> QED BY <1>2, <1>4, <3>1 DEF Unbroken, Ids
  <2>2. plan.size \in ResultSizes /\ OnOne(d)
    BY <1>4, <2>1, FinishedPlan DEF OnOne
  <2>3. Unbroken
    BY <1>2, <1>4, <2>1 DEF Unbroken, Ids
  <2>4. Sizes(s) = ResultSizes /\ ResultSizes \in SUBSET Nat /\ plan.size \in Nat
    BY <2>2, SizesAre
  <2>5. Fits(mem, s, d, ResultSizes)
    BY <2>2, <2>3, <2>4 DEF SettleInv
  <2>6. CASE s \in S
    <3>1. Grown(mem, mem', s, plan.size, d)
      BY <2>2, <2>6 DEF Grows, OnOne
    <3>2. Fits(mem', s, d, ResultSizes \cup {plan.size})
      BY <2>4, <2>5, <3>1, FitsGrown
    <3>3. ResultSizes \cup {plan.size} = ResultSizes
      BY <2>2
    <3> QED BY <3>2, <3>3
  <2>7. CASE s \notin S
    <3>1. Keeps(mem, mem', S) /\ s \in Slots \ S
      BY <2>7 DEF Grows
    <3> QED BY <1>1, <2>5, <3>1, FitsStay
  <2> QED BY <2>6, <2>7
<1>5. ASSUME S = {}, \A s \in Slots : Used(built, s) => Visited(stage, s),
             NEW p, results' = Append(results, p), p.id = plan.id,
             p.size = plan.size, p.dev = plan.dev
      PROVE  SettleInv'
  <2>1. /\ DOMAIN results' = 1..(Len(results) + 1) /\ Len(results) \in Nat
        /\ DOMAIN results = 1..Len(results)
        /\ results'[Len(results) + 1] = p
        /\ \A k \in 1..Len(results) : results'[k] = results[k]
    BY <1>1, <1>5
  <2> DEFINE l == Len(results) + 1
  <2>6. /\ DOMAIN results' = DOMAIN results \cup {l} /\ results'[l] = p
        /\ \A k \in DOMAIN results : results'[k] = results[k]
    BY <2>1
  <2> HIDE DEF l
  <2>2. ResultSizes' = ResultSizes \cup {plan.size}
    BY <1>5, <2>6 DEF ResultSizes
  <2>3. Unbroken' => Unbroken
    <3>1. Ids' \subseteq Ids \cup {plan.id}
      BY <1>5, <2>6 DEF Ids
    <3>2. 0 \notin 1..started
      BY <1>1 DEF MemOK
    <3> QED BY <1>2, <3>1, <3>2 DEF Unbroken
  <2>4. ASSUME NEW d, OnOne(d)' PROVE OnOne(d)
    BY <1>5, <2>4, <2>6 DEF OnOne
  <2>5. ASSUME built.workspace, Unbroken', NEW d, NEW s \in Slots, OnOne(d)', Used(built, s)
        PROVE  Fits(mem', s, d, Sizes(s)')
    <3>1. Fits(mem, s, d, Sizes(s))
      BY <2>3, <2>4, <2>5 DEF SettleInv
    <3>2. Sizes(s) = Sizes(s)'
      BY <1>3, <1>5, <2>2, <2>5, SizesAre
    <3>3. Keeps(mem, mem', {}) /\ s \in Slots \ {}
      BY <1>5 DEF Grows
    <3> QED BY <1>1, <3>1, <3>2, <3>3, FitsStay
  <2> QED BY <2>5 DEF SettleInv
<1> QED BY <1>4, <1>5

LEMMA SettleStep ==
  PlanInv /\ SettleInv /\ [PlanNext]_planVars => SettleInv'
<1> SUFFICES ASSUME PlanInv, SettleInv, [PlanNext]_planVars PROVE SettleInv'
  OBVIOUS
<1>1. ASSUME NEW i \in Inputs, NEW src \in {0, Len(results)},
             Forward(i, src) \/ Profile(i, src)
      PROVE  SettleInv'
  BY <1>1, SettleBegin DEF Forward, Profile
<1>2. CASE Dispatch
  <2>1. /\ stage = "router" /\ stage' = "dispatcher" /\ Active
        /\ plan' = [plan EXCEPT !.assignments = Assignments(mem).view]
        /\ UNCHANGED <<built, results, started>>
    BY <1>2 DEF Dispatch, Active
  <2>2. plan \in PlanRecord
    BY <2>1, PlanFacts
  <2>3. plan'.id = plan.id /\ plan'.size = plan.size /\ plan'.dev = plan.dev
    BY <2>1, <2>2 DEF PlanRecord
  <2>4. /\ {"assignments"} \in SUBSET Slots
        /\ \A s \in {"assignments"} : ~Visited(stage, s) /\ Visited(stage', s)
        /\ \A s \in Slots \ {"assignments"} : Visited(stage', s) <=> Visited(stage, s)
    BY <2>1 DEF Visited, Slots
  <2> QED BY <1>2, <2>1, <2>3, <2>4, DispatchStep, SettleStage
<1>3. CASE MakeSchedule
  <2>1. /\ stage = "dispatcher" /\ stage' = "scheduler" /\ Active
        /\ \E v, u, t : plan' = [plan EXCEPT !.schedule = v, !.barriers = u,
                                   !.dependencies = Dependencies, !.statistics = t]
        /\ UNCHANGED <<built, results, started>>
    BY <1>3 DEF MakeSchedule, Active
  <2>2. plan \in PlanRecord
    BY <2>1, PlanFacts
  <2>3. plan'.id = plan.id /\ plan'.size = plan.size /\ plan'.dev = plan.dev
    BY <2>1, <2>2 DEF PlanRecord
  <2>4. /\ {"schedule", "barriers"} \in SUBSET Slots
        /\ \A s \in {"schedule", "barriers"} : ~Visited(stage, s) /\ Visited(stage', s)
        /\ \A s \in Slots \ {"schedule", "barriers"} :
             Visited(stage', s) <=> Visited(stage, s)
    BY <2>1 DEF Visited, Slots
  <2> QED BY <1>3, <2>1, <2>3, <2>4, MakeScheduleStep, SettleStage
<1>4. CASE PlanCommunication
  <2>1. /\ stage = "scheduler" /\ stage' = "planner" /\ Active
        /\ \E v : plan' = [plan EXCEPT !.local = plan.schedule, !.remote = EmptyTensor,
                             !.topology = v]
        /\ UNCHANGED <<built, results, started>>
    BY <1>4 DEF PlanCommunication, Active
  <2>2. plan \in PlanRecord
    BY <2>1, PlanFacts
  <2>3. plan'.id = plan.id /\ plan'.size = plan.size /\ plan'.dev = plan.dev
    BY <2>1, <2>2 DEF PlanRecord
  <2>4. /\ {"topology"} \in SUBSET Slots
        /\ \A s \in {"topology"} : ~Used(built, s)
        /\ \A s \in Slots \ {"topology"} : Visited(stage', s) <=> Visited(stage, s)
    BY <2>1 DEF Visited, Used, Slots
  <2> QED BY <1>4, <2>1, <2>3, <2>4, PlanCommunicationStep, SettleStage
<1>5. CASE Execute
  <2>1. /\ stage = "planner" /\ stage' = "executor" /\ Active
        /\ \E v, u : plan' = [plan EXCEPT !.packed = v, !.rows = u]
        /\ UNCHANGED <<built, results, started>>
    BY <1>5 DEF Execute, Active
  <2>2. plan \in PlanRecord
    BY <2>1, PlanFacts
  <2>3. plan'.id = plan.id /\ plan'.size = plan.size /\ plan'.dev = plan.dev
    BY <2>1, <2>2 DEF PlanRecord
  <2>4. OutputSlots \in SUBSET Slots
    BY OutputSlotsAre
  <2>5. PlanInv' /\ Grows(OutputSlots)
    BY <1>5, ExecuteStep
  <2>6. /\ Active /\ stage' # "idle"
        /\ UNCHANGED <<built, results, started>>
    BY <2>1
  <2>7. ASSUME NEW s \in OutputSlots PROVE ~Visited(stage, s) /\ Visited(stage', s)
    BY <2>1 DEF Visited, OutputSlots
  <2>8. ASSUME NEW s \in Slots \ OutputSlots PROVE Visited(stage', s) <=> Visited(stage, s)
    BY <2>1 DEF Visited, OutputSlots
  <2> QED BY <2>3, <2>4, <2>5, <2>6, <2>7, <2>8, SettleStage
<1>6. CASE ExecuteRaises
  <2>1. Active /\ stage' = "idle" /\ UNCHANGED <<built, started, results>>
    BY <1>6 DEF ExecuteRaises, Active
  <2>2. PlanInv' /\ \E S \in SUBSET Slots : Grows(S)
    BY <1>6, ExecuteRaisesStep, OutputSlotsAre
  <2> QED BY <2>1, <2>2, SettleEnd
<1>7. CASE Merge
  <2>1. /\ Active /\ stage = "executor" /\ stage' = "idle" /\ UNCHANGED <<built, started>>
        /\ results' = Append(results, RuntimeOutput(Merged.view))
    BY <1>7 DEF Merge, Active
  <2>2. plan \in PlanRecord
    BY <2>1, PlanFacts
  <2> DEFINE p == RuntimeOutput(Merged.view)
  <2>3. p.id = plan.id /\ p.size = plan.size /\ p.dev = plan.dev
    BY <2>2 DEF RuntimeOutput, PlanRecord
  <2>4. results' = Append(results, p)
    BY <2>1
  <2> HIDE DEF p
  <2>5. \A s \in Slots : Used(built, s) => Visited(stage, s)
    BY <2>1 DEF Used, Visited
  <2>6. {} \in SUBSET Slots /\ PlanInv' /\ Grows({})
    BY <1>7, MergeStep
  <2> QED BY <2>1, <2>3, <2>4, <2>5, <2>6, SettleEnd
<1>8. CASE MergeRaises
  <2>1. Active /\ stage' = "idle" /\ UNCHANGED <<built, started, results, mem>>
    BY <1>8 DEF MergeRaises, Active
  <2>2. Grows({}) /\ {} \in SUBSET Slots
    BY <2>1, PlanFacts, KeepsNone DEF Grows
  <2>3. PlanInv'
    BY <1>8, MergeRaisesStep
  <2> QED BY <2>1, <2>2, <2>3, SettleEnd
<1>9. ASSUME NEW k \in DOMAIN results, Reexecute(k) PROVE SettleInv'
  BY <1>9, SettleReexecute
<1>10. CASE UNCHANGED planVars
  BY <1>10 DEF planVars, SettleInv, Unbroken, Ids, OnOne, Active, Sizes, ResultSizes
<1> QED BY <1>1, <1>2, <1>3, <1>4, <1>5, <1>6, <1>7, <1>8, <1>9, <1>10 DEF PlanNext

LEMMA SettleInitOK == PlanInit => SettleInv
BY DEF PlanInit, SettleInv, Fits, Sizes, ResultSizes, Visited

(* workspace.py and profile(): between forwards the runtime has the        *)
(* configuration it was built with, and once forwards of whatever sizes    *)
(* have all finished on one device, each workspace is exactly as large as  *)
(* the largest of them: alternating shapes do not allocate again.          *)
THEOREM WorkspacesSettle == PlanSpec => []RuntimeSettles
<1>1. PlanInv /\ SettleInv => RuntimeSettles
  <2> SUFFICES ASSUME PlanInv, SettleInv PROVE RuntimeSettles
    OBVIOUS
  <2>1. ProfileLeavesNoTrace
    BY DEF ProfileLeavesNoTrace, PlanInv, ConfigInv
  <2>2. WorkspaceSettles
    <3> SUFFICES ASSUME stage = "idle", started > 0, config.workspace,
                        Finished = 1..started,
                        \A k \in DOMAIN results : results[k].dev = results[1].dev,
                        NEW s \in Slots, Uses(s)
                 PROVE  /\ \A k \in DOMAIN results : results[k].size <= Capacity(mem, s)
                        /\ \E k \in DOMAIN results : results[k].size = Capacity(mem, s)
      BY DEF WorkspaceSettles
    <3>1. built.workspace /\ Used(built, s)
      BY ConfigFacts DEF PlanInv, Uses, Used, Slots
    <3>2. Unbroken /\ OnOne(results[1].dev)
      BY DEF Unbroken, Ids, Finished, OnOne, Active
    <3>3. Sizes(s) = ResultSizes
      BY SizesAre DEF Visited
    <3>4. ResultSizes # {}
      <4>1. 1 \in Finished
        BY DEF PlanInv, MemInv, MemOK
      <4> QED BY <4>1 DEF Finished, ResultSizes
    <3>5. Fits(mem, s, results[1].dev, ResultSizes)
      BY <3>1, <3>2, <3>3 DEF SettleInv
    <3> QED BY <3>4, <3>5 DEF Fits, ResultSizes
  <2> QED BY <2>1, <2>2 DEF RuntimeSettles
<1>2. PlanSpec => [](PlanInv /\ SettleInv)
  BY PlanInitOK, SettleInitOK, PlanStep, SettleStep, PTL DEF PlanSpec
<1> QED BY <1>1, <1>2, PTL
=============================================================================
