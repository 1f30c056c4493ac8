------------------------------ MODULE MCServing ------------------------------
(***************************************************************************)
(* The adapters, the graph runner on a callable of its own, the paged      *)
(* cache, and a runtime with its workspaces share nothing; a behaviour of  *)
(* this module moves one of the four.                                      *)
(***************************************************************************)
EXTENDS Serving, GraphRunner, PagedKVCache, PlanBuffers

CONSTANTS a1, a2, g0, g1

VARIABLE part
mcVars == <<part, servingVars, graphVars, kvVars, planVars>>

Using(b, c) == [a \in {a1, a2} |-> IF a = a1 THEN b ELSE c]
MCConfigs == {Using("pytorch", "triton"), Using("triton", "triton"),
              Using("triton_fp8", "triton_fp8_tma"),
              Using("triton_fp8_tma", "triton_fp8_tma")}
MCDevices == {[cuda |-> FALSE, fp8 |-> FALSE, tma |-> FALSE],
              [cuda |-> TRUE, fp8 |-> FALSE, tma |-> FALSE],
              [cuda |-> TRUE, fp8 |-> TRUE, tma |-> FALSE],
              [cuda |-> TRUE, fp8 |-> TRUE, tma |-> TRUE]}

\* A runtime that weighs in the executor, one without workspaces that weighs in
\* the merger, one that accumulates per token, and one whose merger refuses.
MCPlain == [workspace |-> TRUE, accumulate |-> FALSE, packed |-> TRUE,
          weigh |-> FALSE, metadata |-> FALSE, profiling |-> FALSE]
MCBuilds == {MCPlain,
  [MCPlain EXCEPT !.workspace = FALSE, !.metadata = TRUE, !.weigh = TRUE],
  [MCPlain EXCEPT !.accumulate = TRUE, !.packed = FALSE, !.metadata = TRUE],
  [MCPlain EXCEPT !.weigh = TRUE, !.accumulate = TRUE, !.profiling = TRUE]}
MCInputs == {[size |-> 1, dev |-> g0], [size |-> 2, dev |-> g0],
             [size |-> 1, dev |-> g1]}

\* What a part that stays behind starts from is fixed.
MCInit ==
  /\ part \in {"serving", "graphs", "cache", "plans"}
  /\ ServingInit /\ GraphInit /\ KVInit /\ PlanInit
  /\ part # "serving" => /\ backend = Using("pytorch", "triton")
                         /\ ~device.cuda
  /\ part # "graphs" => enabled
  /\ part # "cache" => careful
  /\ part # "plans" => built = MCPlain

MCNext ==
  \/ part = "serving" /\ ServingNext /\ UNCHANGED <<part, graphVars, kvVars, planVars>>
  \/ part = "graphs" /\ GraphNext /\ UNCHANGED <<part, servingVars, kvVars, planVars>>
  \/ part = "cache" /\ KVNext /\ UNCHANGED <<part, servingVars, graphVars, planVars>>
  \/ part = "plans" /\ PlanNext /\ UNCHANGED <<part, servingVars, graphVars, kvVars>>

MCSpec == MCInit /\ [][MCNext]_mcVars
=============================================================================
