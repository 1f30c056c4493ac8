------------------------------ MODULE CacheOps ------------------------------
(***************************************************************************)
(* The residency cache of DWDP/communication/cache_manager.{h,cpp}, as     *)
(* operators on its state.  Each method of CacheManager holds the cache's  *)
(* mutex throughout, so each operator is one atomic step of its caller.    *)
(*                                                                         *)
(* A cache is a record:                                                    *)
(*   cached  the ids in entries_,                                          *)
(*   pins    the pin count of each entry (0 for an id that has none),      *)
(*   lru     lru_, least recently used first,                              *)
(*   used    used_bytes_, which the code maintains beside the entries.     *)
(* The bytes of an entry are those its expert was registered with.         *)
(***************************************************************************)
EXTENDS Integers, Sequences, FiniteSets
LOCAL INSTANCE FiniteSetsExt

CONSTANTS
  Expert,    (* expert ids                                    *)
  Size,      (* Size[e]: registered size of an expert         *)
  Capacity   (* capacity_bytes_                               *)

ASSUME CacheAssumption ==
  /\ Size \in [Expert -> Nat \ {0}]
  /\ Capacity \in Nat \ {0}

Bytes(S) == MapThenSumSet(LAMBDA e : Size[e], S)

EmptyCache ==
  [cached |-> {}, pins |-> [e \in Expert |-> 0], lru |-> <<>>, used |-> 0]

\* The list s with the members of V unlinked.
Without(s, V) ==
  LET kept[n \in 0..Len(s)] ==
        IF n = 0 THEN <<>>
        ELSE IF s[n] \in V THEN kept[n - 1] ELSE Append(kept[n - 1], s[n])
  IN  kept[Len(s)]

\* touchLocked: splice the entry to the most recent end.
Touch(c, e) == [c EXCEPT !.lru = Append(Without(@, {e}), e)]

CanPin(c, e) == e \in c.cached

Pin(c, e) == [Touch(c, e) EXCEPT !.pins[e] = @ + 1]

CanUnpin(c, e) == e \in c.cached /\ c.pins[e] # 0

Unpin(c, e) == [c EXCEPT !.pins[e] = @ - 1]

\* Remove a set of entries from the map, the list and the byte count.
Drop(c, V) ==
  [c EXCEPT !.cached = @ \ V,
            !.lru    = Without(@, V),
            !.used   = @ - Bytes(V)]

\* Mutant of CanErase: a pinned entry can be erased.
CanErasePinned(c, e) == TRUE

CanErase(c, e) == e \notin c.cached \/ c.pins[e] = 0

\* Mutant of Erase: the entry is unlinked from the list and stays in the map.
EraseFromList(c, e) == [c EXCEPT !.lru = Without(@, {e})]

Erase(c, e) == IF e \in c.cached THEN Drop(c, {e}) ELSE c

-----------------------------------------------------------------------------
(* admit: the loop evicts the least recently used unpinned entry until the *)
(* new one fits, and throws when only pinned entries are left.             *)

UnpinnedAmong(c, n) == {c.lru[i] : i \in {j \in 1..n : c.pins[c.lru[j]] = 0}}

\* Mutant of Fits: the bytes of the new entry are not counted.
FitsAlready(c, e, V) == c.used - Bytes(V) <= Capacity

Fits(c, e, V) == c.used - Bytes(V) + Size[e] <= Capacity

\* How far into the list the loop may have walked when the entry fits.
Enough(c, e) == {n \in 0..Len(c.lru) : Fits(c, e, UnpinnedAmong(c, n))}

\* Mutant of Shortest: the loop does not stop when there is room.
Longest(S) == CHOOSE n \in S : \A m \in S : n >= m

Shortest(S) == CHOOSE n \in S : \A m \in S : n <= m

CanAdmit(c, e) ==
  /\ Size[e] <= Capacity
  /\ e \in c.cached \/ Enough(c, e) # {}

Victims(c, e) ==
  IF Size[e] > Capacity \/ e \in c.cached THEN {}
  ELSE UnpinnedAmong(c, IF Enough(c, e) = {} THEN Len(c.lru)
                        ELSE Shortest(Enough(c, e)))

Insert(c, e) ==
  [c EXCEPT !.cached = @ \cup {e}, !.pins[e] = 0,
            !.lru = Append(@, e), !.used = @ + Size[e]]

\* The state admit leaves behind.  When it throws for want of unpinned
\* entries, the victims found so far are gone and nobody is told of them.
Admit(c, e) ==
  LET rest == Drop(c, Victims(c, e)) IN
  IF Size[e] > Capacity THEN c
  ELSE IF e \in c.cached THEN Touch(c, e)
  ELSE IF CanAdmit(c, e) THEN Insert(rest, e)
  ELSE rest

\* What admit returns when it does not throw, in eviction order.
Evicted(c, e) == Without(c.lru, Expert \ Victims(c, e))

=============================================================================
