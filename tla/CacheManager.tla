---------------------------- MODULE CacheManager ----------------------------
(***************************************************************************)
(* CacheManager on its own: any thread may call any public method at any   *)
(* time, and the mutex makes every call one step.  A call that throws and  *)
(* leaves the state as it was is not a step; the one that throws after it  *)
(* has evicted entries is (AdmitThrows).                                   *)
(***************************************************************************)
EXTENDS CacheOps

CONSTANT MaxPins   (* bound on the pin count of an entry *)

VARIABLE cache

CacheType ==
  [ cached : SUBSET Expert,
    pins   : [Expert -> Nat],
    lru    : Seq(Expert),
    used   : Int ]

Init == cache = EmptyCache

AdmitEntry(e) ==
  /\ CanAdmit(cache, e)
  /\ cache' = Admit(cache, e)

AdmitThrows(e) ==
  /\ ~CanAdmit(cache, e)
  /\ cache' = Admit(cache, e)

TouchEntry(e) ==
  /\ e \in cache.cached
  /\ cache' = Touch(cache, e)

PinEntry(e) ==
  /\ CanPin(cache, e)
  /\ cache.pins[e] < MaxPins
  /\ cache' = Pin(cache, e)

UnpinEntry(e) ==
  /\ CanUnpin(cache, e)
  /\ cache' = Unpin(cache, e)

EraseEntry(e) ==
  /\ CanErase(cache, e)
  /\ cache' = Erase(cache, e)

Next ==
  \E e \in Expert :
    \/ AdmitEntry(e)
    \/ AdmitThrows(e)
    \/ TouchEntry(e)
    \/ PinEntry(e)
    \/ UnpinEntry(e)
    \/ EraseEntry(e)

Spec == Init /\ [][Next]_cache

-----------------------------------------------------------------------------
\* Type invariant of the cache state.
TypeOK == cache \in CacheType

(* used_bytes_, entries_ and lru_ are three records of one thing, updated  *)
(* separately on admission, eviction and erasure: the byte count is the    *)
(* sum over the entries, and the list names every entry exactly once.      *)
BooksAgree ==
  /\ cache.used = Bytes(cache.cached)
  /\ {cache.lru[i] : i \in 1..Len(cache.lru)} = cache.cached
  /\ Len(cache.lru) = Cardinality(cache.cached)

(* The cache never holds more bytes than its capacity, whatever mix of     *)
(* sizes is admitted: the eviction loop runs until the new entry fits.     *)
WithinCapacity == cache.used <= Capacity

(* No call removes an entry somebody has pinned: "Pinned experts are never *)
(* evicted" (runtime_invariants.h), at the level of the cache.             *)
PinnedStays ==
  [][\A e \in Expert : cache.pins[e] > 0 => e \in cache'.cached]_cache

\* Only an id that has an entry carries pins, so a new entry starts at 0.
PinnedIsCached == \A e \in Expert : cache.pins[e] > 0 => e \in cache.cached

(* admit evicts in LRU order and no more than it must: an unpinned entry   *)
(* that survives an admission was used after every entry evicted by it,    *)
(* and putting the last victim back would not leave room.                  *)
Before(x, y) ==
  \E i, j \in 1..Len(cache.lru) : i < j /\ cache.lru[i] = x /\ cache.lru[j] = y

Admitted == cache'.cached \ cache.cached
Lost     == cache.cached \ cache'.cached

EvictionIsLeastRecent ==
  [][ Admitted # {} =>
        /\ \A x \in Lost, y \in cache.cached \cap cache'.cached :
             cache.pins[y] = 0 => Before(x, y)
        /\ \A x \in Lost :
             (\A z \in Lost \ {x} : Before(z, x))
               => cache'.used + Size[x] > Capacity ]_cache

\* The cache is sound after every call, returned or thrown: types, books, and no
\* more bytes than it was given.
CacheConsistent == TypeOK /\ BooksAgree /\ WithinCapacity
=============================================================================
