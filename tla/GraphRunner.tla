----------------------------- MODULE GraphRunner -----------------------------
(***************************************************************************)
(* The CUDA graph runner: one graph per input shape, captured on the first *)
(* call of that shape and replayed afterwards, eager execution wherever    *)
(* capture is impossible.  A callable maps an input to an output of the    *)
(* same shape; an input is a shape and a value.                            *)
(***************************************************************************)
EXTENDS Naturals

CONSTANTS
  Shapes,     \* shape keys
  Unkeyed,    \* the key of arguments that are neither tensors nor scalars
  Values,     \* contents of an input tensor
  Holders,    \* callers that keep results across calls
  MaxCalls    \* bound: calls of the runner, and of capture

ASSUME GraphAssumption == MaxCalls \in Nat

VARIABLES
  enabled,    \* the runner's flag and CUDA's availability
  graphs,     \* shape -> contents of the static input and output of its graph
  failed,     \* shapes whose capture failed
  pool,       \* whether the memory pool exists
  stats,      \* captures, replays, fallbacks
  served,     \* calls answered so far
  attempts,   \* shape -> captures tried since the last reset
  kept        \* holder -> the call it remembers and where its result lives

graphVars == <<enabled, graphs, failed, pool, stats, served, attempts, kept>>

NoStats == [captures |-> 0, replays |-> 0, fallbacks |-> 0]
GraphInit ==
  /\ enabled \in BOOLEAN
  /\ graphs = [k \in {} |-> 0] /\ failed = {} /\ pool = FALSE
  /\ stats = NoStats /\ served = 0 /\ attempts = [k \in Shapes |-> 0]
  /\ kept = [h \in Holders |-> <<>>]

-----------------------------------------------------------------------------
\* The callable, on the value of its input.
Apply(v) == <<v>>
\* What the output of a graph holds before its first replay.
Garbage == <<>>

\* Static inputs are clones of the arguments.
Captured(k, v) == [x \in DOMAIN graphs \cup {k} |->
  IF x = k THEN [input |-> v, output |-> Garbage] ELSE graphs[x]]

\* A result in memory of its own, and one in the static output of a graph.
Own(content) == [own |-> TRUE, content |-> content]
Static(k) == [own |-> FALSE, content |-> k]

Keep(h, v, at) ==
  /\ kept' = [kept EXCEPT ![h] = [value |-> v, at |-> at]]
  /\ served' = served + 1

\* Mutant of Replay: the static output itself is handed out.
ReplayShared(h, k, v, known) ==
  /\ graphs' = [known EXCEPT ![k] = [input |-> v, output |-> Apply(v)]]
  /\ stats' = [stats EXCEPT !.replays = @ + 1,
                            !.captures = IF k \in DOMAIN graphs THEN @ ELSE @ + 1]
  /\ Keep(h, v, Static(k))

\* The input is copied into the graph's, the graph runs, its output is cloned.
Replay(h, k, v, known) ==
  /\ graphs' = [known EXCEPT ![k] = [input |-> v, output |-> Apply(v)]]
  /\ stats' = [stats EXCEPT !.replays = @ + 1,
                            !.captures = IF k \in DOMAIN graphs THEN @ ELSE @ + 1]
  /\ Keep(h, v, Own(Apply(v)))

Fallback(h, v) ==
  /\ stats' = [stats EXCEPT !.fallbacks = @ + 1]
  /\ Keep(h, v, Own(Apply(v)))
  /\ UNCHANGED graphs

-----------------------------------------------------------------------------
\* Disabled, no CUDA, arguments without a key, or a shape that failed.
CallEager(h, k, v) ==
  /\ served < MaxCalls
  /\ ~enabled \/ k = Unkeyed \/ (k \notin DOMAIN graphs /\ k \in failed)
  /\ Fallback(h, v)
  /\ UNCHANGED <<enabled, failed, pool, attempts>>

CallReplay(h, k, v) ==
  /\ served < MaxCalls /\ enabled /\ k \in DOMAIN graphs
  /\ Replay(h, k, v, graphs)
  /\ UNCHANGED <<enabled, failed, pool, attempts>>

Capturable(k) == enabled /\ k # Unkeyed /\ k \notin failed /\ k \notin DOMAIN graphs

\* The pool is asked for after the warm-up, so a failed attempt may leave one.
Attempt(k) == attempts' = [attempts EXCEPT ![k] = @ + 1]

\* The first call of a shape captures and then replays; or the capture raises,
\* before or after the pool exists, and the call runs eagerly.
CallCapture(h, k, v) ==
  /\ served < MaxCalls /\ Capturable(k) /\ Attempt(k)
  /\ Replay(h, k, v, Captured(k, v))
  /\ pool' = TRUE
  /\ UNCHANGED <<enabled, failed>>

CallCaptureFails(h, k, v) ==
  /\ served < MaxCalls /\ Capturable(k) /\ Attempt(k)
  /\ failed' = failed \cup {k}
  /\ pool' \in {pool, TRUE}
  /\ Fallback(h, v)
  /\ UNCHANGED enabled

\* capture() called directly: it leaves a graph nobody has replayed.
Capture(k, v) ==
  /\ stats.captures < MaxCalls /\ Capturable(k) /\ Attempt(k)
  /\ graphs' = Captured(k, v)
  /\ pool' = TRUE
  /\ stats' = [stats EXCEPT !.captures = @ + 1]
  /\ UNCHANGED <<enabled, failed, served, kept>>

CaptureFails(k) ==
  /\ Capturable(k) /\ Attempt(k)
  /\ failed' = failed \cup {k}
  /\ pool' \in {pool, TRUE}
  /\ UNCHANGED <<enabled, graphs, stats, served, kept>>

\* Graphs, marks and pool go; the counters stay.
Reset ==
  /\ served < MaxCalls
  /\ graphs' = [k \in {} |-> 0] /\ failed' = {} /\ pool' = FALSE
  /\ attempts' = [k \in Shapes |-> 0]
  /\ UNCHANGED <<enabled, stats, served, kept>>

GraphNext ==
  \/ \E h \in Holders, k \in Shapes \cup {Unkeyed}, v \in Values :
       CallEager(h, k, v) \/ CallReplay(h, k, v)
         \/ CallCapture(h, k, v) \/ CallCaptureFails(h, k, v)
  \/ \E k \in Shapes, v \in Values : Capture(k, v)
  \/ \E k \in Shapes : CaptureFails(k)
  \/ Reset

GraphSpec == GraphInit /\ [][GraphNext]_graphVars

-----------------------------------------------------------------------------
\* What a holder reads from the result it keeps.
Content(at) ==
  IF at.own THEN at.content
  ELSE IF at.content \in DOMAIN graphs THEN graphs[at.content].output ELSE Garbage

\* Every result a caller holds is, and stays across later calls, captures and
\* resets, the output for the input of its own call.
ResultsKept ==
  \A h \in Holders : kept[h] # <<>> => Content(kept[h].at) = Apply(kept[h].value)

\* Capture is attempted at most once for a shape between two resets: a shape
\* that failed stays eager, one that succeeded is replayed.
OneAttempt == \A k \in Shapes : attempts[k] <= 1

\* Both together: what the runner answers, and what it costs.
RunnerRight == ResultsKept /\ OneAttempt
=============================================================================
