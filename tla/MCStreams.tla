----------------------------- MODULE MCStreams -----------------------------
(***************************************************************************)
(* The two places that rely on the order of CUDA streams: the shared       *)
(* expert of a block and the staging buffers of the engine.  They use      *)
(* different streams; a behaviour of this module moves one of the two.     *)
(***************************************************************************)
EXTENDS SharedExpert, StagedReads

CONSTANTS d0, d1

VARIABLE part
mcVars == <<part, overlapVars, stagedVars>>

MCStream == {d0, d1, Compute, "copy", "compute", "caller"}
\* Every layer on one device; the second layer on another.
MCPlacements == {[l \in 1..Layers |-> d0],
                 [l \in 1..Layers |-> IF l = 2 THEN d1 ELSE d0]}
\* A caller that waits for the device itself ...
Synchronizing == {[beforeRead |-> TRUE, beforeSwap |-> TRUE]}
\* ... and one that leaves it to the engine before it reads.
Trusting == {[beforeRead |-> FALSE, beforeSwap |-> TRUE]}

MCInit ==
  /\ part \in {"overlap", "staged"}
  /\ OverlapInit /\ StagedInit
  /\ part # "overlap" => enabled /\ \A l \in 1..Layers : place[l] = d0

MCNext ==
  \/ part = "overlap" /\ OverlapNext
       /\ UNCHANGED <<part, usage, records, recorded, requests, available,
                      front, bytes, pointer>>
  \/ part = "staged" /\ StagedNext
       /\ UNCHANGED <<part, hostVars, pool, content, lost, answers>>

MCSpec == MCInit /\ [][MCNext]_mcVars
=============================================================================
