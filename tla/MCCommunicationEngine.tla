----------------------- MODULE MCCommunicationEngine -----------------------
(* Instances of the engine for TLC. *)
EXTENDS CommunicationEngine, TLC

CONSTANTS a, b, far, c1, c2

(* Local experts fill a staging buffer; an imported one, which nothing     *)
(* compares with a buffer, takes a larger share of the cache.              *)
MCSize == [e \in Expert |-> IF e \in Local THEN 2 ELSE 3]

\* Local experts are interchangeable, and so are clients.
Symmetry == Permutations(Local) \cup Permutations(Client)

=============================================================================
