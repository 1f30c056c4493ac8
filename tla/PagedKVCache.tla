---------------------------- MODULE PagedKVCache ----------------------------
(***************************************************************************)
(* The block manager of the paged KV cache: sequences allocate blocks and  *)
(* give them back by id.  Both calls are loops over blocks; nothing runs   *)
(* between two of their iterations.                                        *)
(***************************************************************************)
EXTENDS Integers, Sequences

CONSTANTS
  NumBlocks,   \* blocks of the pool
  Sequence,    \* callers
  Callers      \* whether callers may be careful (TRUE), careless (FALSE)

ASSUME KVAssumption == NumBlocks \in Nat /\ Callers \subseteq BOOLEAN

VARIABLES
  free,      \* free_blocks, a list
  used,      \* used_blocks: block id -> reference count
  holding,   \* ids each caller was given and has not given back
  known,     \* ids each caller was ever given
  careful,   \* callers give back exactly what they hold
  call       \* the call under way: what it does, for whom, what is left

kvVars == <<free, used, holding, known, careful, call>>

Block == 0 .. NumBlocks - 1
NoCall == [op |-> "none", for |-> "nobody", left |-> 0, ids |-> <<>>]

KVInit ==
  /\ free = [i \in 1 .. NumBlocks |-> i - 1]
  /\ used = [b \in {} |-> 0]
  /\ holding = [s \in Sequence |-> {}]
  /\ known = [s \in Sequence |-> {}]
  /\ careful \in Callers
  /\ call = NoCall

-----------------------------------------------------------------------------
\* allocate raises before it changes anything when too few blocks are free.
Allocate(s, n) ==
  /\ call = NoCall /\ Len(free) >= n
  /\ call' = [op |-> "allocate", for |-> s, left |-> n, ids |-> <<>>]
  /\ UNCHANGED <<free, used, holding, known, careful>>

PopBlock ==
  /\ call.op = "allocate"
  /\ LET b == Head(free)
         given(s) == IF s = call.for THEN {b} ELSE {} IN
     /\ free' = Tail(free)
     /\ used' = [x \in DOMAIN used \cup {b} |-> IF x = b THEN 1 ELSE used[x]]
     /\ holding' = [s \in Sequence |-> holding[s] \cup given(s)]
     /\ known' = [s \in Sequence |-> known[s] \cup given(s)]
  /\ call' = IF call.left = 1 THEN NoCall ELSE [call EXCEPT !.left = @ - 1]
  /\ UNCHANGED careful

\* A caller gives back ids it holds, or, careless, a list of ids it once got.
Offers(s) ==
  IF careful THEN {ids \in [1 .. 1 -> holding[s]] \cup [1 .. 2 -> holding[s]] :
                     \A i, j \in DOMAIN ids : ids[i] = ids[j] => i = j}
  ELSE [1 .. 1 -> known[s]] \cup [1 .. 2 -> known[s]]

Free(s) ==
  /\ call = NoCall
  /\ \E ids \in Offers(s) :
     /\ call' = [op |-> "free", for |-> s, left |-> 0, ids |-> ids]
     /\ holding' = [holding EXCEPT ![s] = @ \ {ids[i] : i \in DOMAIN ids}]
  /\ UNCHANGED <<free, used, known, careful>>

\* Mutant of FreeBlock: an id not in use is given to the pool again.
FreeBlockUnused ==
  /\ call.op = "free"
  /\ LET b == Head(call.ids) IN
     /\ used' = [x \in DOMAIN used \ {b} |-> used[x]]
     /\ free' = Append(free, b)
  /\ call' = IF Len(call.ids) = 1 THEN NoCall ELSE [call EXCEPT !.ids = Tail(@)]
  /\ UNCHANGED <<holding, known, careful>>

\* A block not in use is skipped; one in use goes when its count drops to zero.
FreeBlock ==
  /\ call.op = "free"
  /\ LET b == Head(call.ids) IN
     IF b \in DOMAIN used /\ used[b] <= 1
     THEN /\ used' = [x \in DOMAIN used \ {b} |-> used[x]]
          /\ free' = Append(free, b)
     ELSE /\ used' = [x \in DOMAIN used |-> IF x = b THEN used[x] - 1 ELSE used[x]]
          /\ UNCHANGED free
  /\ call' = IF Len(call.ids) = 1 THEN NoCall ELSE [call EXCEPT !.ids = Tail(@)]
  /\ UNCHANGED <<holding, known, careful>>

KVNext ==
  \/ \E s \in Sequence, n \in 1 .. NumBlocks : Allocate(s, n)
  \/ \E s \in Sequence : Free(s)
  \/ PopBlock \/ FreeBlock

KVSpec == KVInit /\ [][KVNext]_kvVars

-----------------------------------------------------------------------------
\* Every block is free or used, never both, and never twice in the free list,
\* whatever ids callers give back and in whatever order: free skips what is
\* not in use.
BlocksPartitioned ==
  /\ \A i, j \in 1 .. Len(free) : free[i] = free[j] => i = j
  /\ {free[i] : i \in 1 .. Len(free)} \cap DOMAIN used = {}
  /\ {free[i] : i \in 1 .. Len(free)} \cup DOMAIN used = Block

\* Callers that give back what they hold never share a block, and what they
\* hold is what is in use once their calls are over.
OwnersDisjoint ==
  careful =>
    /\ \A s, t \in Sequence : s # t => holding[s] \cap holding[t] = {}
    /\ call = NoCall => DOMAIN used = UNION {holding[s] : s \in Sequence}

\* The pool as a whole: no block is lost, doubled or shared by two careful
\* callers.
BlocksOwned == BlocksPartitioned /\ OwnersDisjoint
=============================================================================
