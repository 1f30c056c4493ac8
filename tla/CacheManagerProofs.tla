------------------------- MODULE CacheManagerProofs -------------------------
(***************************************************************************)
(* Theorems about the cache behind the engine: its books are kept by every *)
(* call, pins sit on entries and protect them, and admit evicts in LRU     *)
(* order and no more than it must.                                         *)
(***************************************************************************)
EXTENDS CacheManager, CacheOpsProofs
LOCAL INSTANCE FiniteSetTheorems

\* c is a cache record; its list and byte count may be anything.
Shape(c) ==
  c \in [ cached : SUBSET Expert, pins : [Expert -> Nat],
          lru : {c.lru}, used : {c.used} ]

PinsOnEntries(c) == \A e \in Expert : c.pins[e] > 0 => e \in c.cached

\* The inductive invariant: without it a pin count left behind by a removed
\* entry would come back to life when its id is admitted again.
Inv == Shape(cache) /\ PinsOnEntries(cache)

\* b keeps every entry that is pinned in a.
Keeps(a, b) == \A e \in Expert : a.pins[e] > 0 => e \in b.cached

(* The eviction loop chooses only entries that nobody has pinned, however  *)
(* far into the list it has to walk.                                       *)
LEMMA VictimsUnpinned ==
  ASSUME NEW c, NEW e \in Expert, NEW x \in Victims(c, e)
  PROVE  c.pins[x] = 0
<1>1. CASE Size[e] > Capacity \/ e \in c.cached
  BY <1>1 DEF Victims
<1>2. CASE ~(Size[e] > Capacity \/ e \in c.cached)
  <2> DEFINE n == IF Enough(c, e) = {} THEN Len(c.lru)
                  ELSE Shortest(Enough(c, e))
  <2>1. x \in UnpinnedAmong(c, n)
    BY <1>2 DEF Victims
  <2> HIDE DEF n
  <2>2. QED
    BY <2>1 DEF UnpinnedAmong
<1>3. QED
  BY <1>1, <1>2

\* Dropping entries removes those entries and touches no pin count.
LEMMA DropShape ==
  ASSUME NEW c, Shape(c), NEW V
  PROVE  /\ Shape(Drop(c, V))
         /\ Drop(c, V).cached = c.cached \ V
         /\ Drop(c, V).pins = c.pins
BY DEF Drop, Shape

\* A touched cache differs in its list alone.
LEMMA TouchShape ==
  ASSUME NEW c, Shape(c), NEW e \in Expert
  PROVE  /\ Shape(Touch(c, e))
         /\ Touch(c, e).cached = c.cached
         /\ Touch(c, e).pins = c.pins
BY DEF Touch, Shape

LEMMA InsertShape ==
  ASSUME NEW c, Shape(c), NEW e \in Expert
  PROVE  /\ Shape(Insert(c, e))
         /\ Insert(c, e).cached = c.cached \cup {e}
         /\ Insert(c, e).pins = [c.pins EXCEPT ![e] = 0]
BY DEF Insert, Shape

(* An admission, whether it succeeds or throws, keeps every pinned entry   *)
(* and changes no pin count.                                               *)
LEMMA AdmitKeeps ==
  ASSUME NEW c, Shape(c), PinsOnEntries(c), NEW e \in Expert
  PROVE  /\ Shape(Admit(c, e))
         /\ Admit(c, e).pins = c.pins
         /\ Keeps(c, Admit(c, e))
<1> DEFINE rest == Drop(c, Victims(c, e))
<1>1. Shape(rest) /\ rest.cached = c.cached \ Victims(c, e) /\ rest.pins = c.pins
  BY DropShape
<1>2. Keeps(c, rest)
  BY <1>1, VictimsUnpinned DEF PinsOnEntries, Keeps
<1>3. CASE Size[e] > Capacity
  BY <1>3 DEF Admit, Keeps, PinsOnEntries
<1>4. CASE ~(Size[e] > Capacity) /\ e \in c.cached
  <2>1. Admit(c, e) = Touch(c, e)
    BY <1>4 DEF Admit
  <2>2. QED
    BY <2>1, TouchShape DEF Keeps, PinsOnEntries
<1>5. CASE ~(Size[e] > Capacity) /\ e \notin c.cached /\ ~CanAdmit(c, e)
  <2>1. Admit(c, e) = rest
    BY <1>5 DEF Admit
  <2>2. QED
    BY <2>1, <1>1, <1>2
<1>6. CASE ~(Size[e] > Capacity) /\ e \notin c.cached /\ CanAdmit(c, e)
  <2>1. Admit(c, e) = Insert(rest, e)
    BY <1>6 DEF Admit
  <2>2. c.pins[e] = 0
    BY <1>6 DEF PinsOnEntries, Shape
  <2> HIDE DEF rest
  <2>3. [rest.pins EXCEPT ![e] = 0] = c.pins
    BY <1>1, <2>2 DEF Shape
  <2>4. QED
    BY <2>1, <2>3, <1>1, <1>2, InsertShape DEF Keeps
<1>7. QED
  BY <1>3, <1>4, <1>5, <1>6

-----------------------------------------------------------------------------
LEMMA InitInv == Init => Inv
BY DEF Init, Inv, EmptyCache, Shape, PinsOnEntries

(* Every call preserves the invariant and keeps the pinned entries. *)
LEMMA StepInv ==
  ASSUME Inv, Next
  PROVE  Inv' /\ Keeps(cache, cache')
<1> USE DEF Inv
<1>1. PICK e \in Expert :
        \/ AdmitEntry(e) \/ AdmitThrows(e) \/ TouchEntry(e)
        \/ PinEntry(e) \/ UnpinEntry(e) \/ EraseEntry(e)
  BY DEF Next
<1>2. CASE AdmitEntry(e) \/ AdmitThrows(e)
  <2>1. cache' = Admit(cache, e)
    BY <1>2 DEF AdmitEntry, AdmitThrows
  <2>2. QED
    BY <2>1, AdmitKeeps DEF Keeps, PinsOnEntries
<1>3. CASE TouchEntry(e)
  BY <1>3, TouchShape DEF TouchEntry, Keeps, PinsOnEntries
<1>4. CASE PinEntry(e)
  <2> DEFINE t == Touch(cache, e)
  <2>1. Shape(t) /\ t.cached = cache.cached /\ t.pins = cache.pins
    BY TouchShape
  <2>2. cache' = [t EXCEPT !.pins[e] = @ + 1] /\ e \in cache.cached
    BY <1>4 DEF PinEntry, Pin, CanPin
  <2> HIDE DEF t
  <2>3. /\ Shape(cache') /\ cache'.cached = t.cached
        /\ \A x \in Expert : x # e => cache'.pins[x] = t.pins[x]
    BY <2>1, <2>2 DEF Shape
  <2>4. QED
    BY <2>1, <2>2, <2>3 DEF Keeps, PinsOnEntries
<1>5. CASE UnpinEntry(e)
  <2>1. /\ Shape(cache') /\ cache'.cached = cache.cached
        /\ cache'.pins[e] = cache.pins[e] - 1
        /\ \A x \in Expert : x # e => cache'.pins[x] = cache.pins[x]
    BY <1>5 DEF UnpinEntry, Unpin, CanUnpin, Shape
  <2>2. e \in cache.cached
    BY <1>5 DEF UnpinEntry, CanUnpin
  <2>3. QED
    BY <2>1, <2>2 DEF Keeps, PinsOnEntries
<1>6. CASE EraseEntry(e)
  <2>1. cache' = IF e \in cache.cached THEN Drop(cache, {e}) ELSE cache
    BY <1>6 DEF EraseEntry, Erase
  <2>2. e \notin cache.cached \/ cache.pins[e] = 0
    BY <1>6 DEF EraseEntry, CanErase
  <2>3. QED
    BY <2>1, <2>2, DropShape DEF Keeps, PinsOnEntries
<1>7. QED
  BY <1>1, <1>2, <1>3, <1>4, <1>5, <1>6

(* For any experts, sizes and capacity: the cache always is a record whose *)
(* pins all sit on entries (cache_manager.cpp: pin refuses a missing entry *)
(* and no removal leaves a pin behind).                                    *)
THEOREM PinsSitOnEntries == Spec => [](Shape(cache) /\ PinnedIsCached)
<1>1. Inv /\ [Next]_cache => Inv'
  BY StepInv DEF Inv
<1>2. Inv => Shape(cache) /\ PinnedIsCached
  BY DEF Inv, PinsOnEntries, PinnedIsCached
<1>3. QED
  BY InitInv, <1>1, <1>2, PTL DEF Spec

(* For any experts, sizes and capacity: no call, not even an admission     *)
(* that throws halfway, removes an entry that somebody has pinned.         *)
THEOREM PinnedEntriesStay == Spec => PinnedStays
<1>1. Inv /\ [Next]_cache => Inv'
  BY StepInv DEF Inv
<1>2. Inv /\ [Next]_cache =>
        [\A e \in Expert : cache.pins[e] > 0 => e \in cache'.cached]_cache
  BY StepInv DEF Keeps
<1>3. QED
  BY InitInv, <1>1, <1>2, PTL DEF Spec, PinnedStays

-----------------------------------------------------------------------------
LEMMA SoundStep ==
  ASSUME Sound(cache), [Next]_cache
  PROVE  Sound(cache')
<1>1. CASE UNCHANGED cache
  BY <1>1
<1>2. CASE Next
  <2>1. PICK e \in Expert :
          \/ AdmitEntry(e) \/ AdmitThrows(e) \/ TouchEntry(e)
          \/ PinEntry(e) \/ UnpinEntry(e) \/ EraseEntry(e)
    BY <1>2 DEF Next
  <2>2. CASE AdmitEntry(e) \/ AdmitThrows(e)
    BY <2>2, AdmitSound DEF AdmitEntry, AdmitThrows
  <2>3. CASE TouchEntry(e)
    BY <2>3, TouchSound DEF TouchEntry
  <2>4. CASE PinEntry(e)
    BY <2>4, PinSound DEF PinEntry
  <2>5. CASE UnpinEntry(e)
    BY <2>5, UnpinSound DEF UnpinEntry
  <2>6. CASE EraseEntry(e)
    BY <2>6, EraseSound DEF EraseEntry
  <2> QED BY <2>1, <2>2, <2>3, <2>4, <2>5, <2>6
<1> QED BY <1>1, <1>2

LEMMA AlwaysSound == Spec => []Sound(cache)
<1>1. Init => Sound(cache)
  BY EmptySound DEF Init
<1>2. Sound(cache) /\ [Next]_cache => Sound(cache)'
  BY SoundStep
<1> QED BY <1>1, <1>2, PTL DEF Spec

(* For any experts, sizes and capacity, after any calls that return or     *)
(* throw: used_bytes_ is the sum over the entries and at most the capacity, *)
(* and the list names every entry exactly once.                            *)
THEOREM CacheIsConsistent == Spec => []CacheConsistent
<1>1. Sound(cache) => CacheConsistent
  <2> SUFFICES ASSUME Sound(cache) PROVE CacheConsistent
    OBVIOUS
  <2>1. Cardinality(cache.cached) = Len(cache.lru)
    BY DistinctCount DEF Sound, CacheRecord
  <2> QED BY <2>1 DEF Sound, CacheRecord, CacheConsistent, TypeOK, CacheType,
                      BooksAgree, WithinCapacity, Elems
<1> QED BY <1>1, AlwaysSound, PTL

-----------------------------------------------------------------------------
(* Where the eviction loop stops: the entry it looked at last is a victim, *)
(* and without that one the new entry would not have fit.                  *)
LEMMA LastVictim ==
  ASSUME NEW c, Sound(c), NEW e \in Expert, e \notin c.cached, CanAdmit(c, e),
         NEW n, n = Shortest(Enough(c, e)), n # 0
  PROVE  /\ n \in 1..Len(c.lru) /\ c.lru[n] \in Victims(c, e)
         /\ Victims(c, e) \ {c.lru[n]} = UnpinnedAmong(c, n - 1)
         /\ ~Fits(c, e, UnpinnedAmong(c, n - 1))
<1>1. Len(c.lru) \in Nat /\ c.lru \in Seq(Expert)
  BY DEF Sound, CacheRecord
<1>2. Enough(c, e) \subseteq 0..Len(c.lru) /\ Enough(c, e) # {}
  BY DEF Enough, CanAdmit
<1>3. n \in Enough(c, e) /\ \A m \in Enough(c, e) : n <= m
  BY <1>1, <1>2, ShortestIs
<1>4. n \in 1..Len(c.lru) /\ n - 1 \in 0..Len(c.lru) /\ n - 1 \notin Enough(c, e)
  BY <1>1, <1>2, <1>3
<1>5. ~Fits(c, e, UnpinnedAmong(c, n - 1))
  BY <1>4 DEF Enough
<1>6. Fits(c, e, UnpinnedAmong(c, n))
  BY <1>3 DEF Enough
<1>7. Victims(c, e) = UnpinnedAmong(c, n)
  <2>1. ~(Size[e] > Capacity \/ e \in c.cached)
    BY CacheAssumption DEF CanAdmit
  <2> QED BY <1>2, <2>1 DEF Victims
<1>8. 1..n = (1..(n - 1)) \cup {n}
  BY <1>1, <1>4
<1>9. c.pins[c.lru[n]] = 0
  <2>1. CASE c.pins[c.lru[n]] # 0
    <3>1. UnpinnedAmong(c, n) = UnpinnedAmong(c, n - 1)
      BY <1>8, <2>1 DEF UnpinnedAmong
    <3> QED BY <1>5, <1>6, <3>1
  <2> QED BY <2>1
<1>10. c.lru[n] \in UnpinnedAmong(c, n)
  BY <1>4, <1>9 DEF UnpinnedAmong
<1>11. UnpinnedAmong(c, n) = UnpinnedAmong(c, n - 1) \cup {c.lru[n]}
  BY <1>8, <1>9 DEF UnpinnedAmong
<1>12. c.lru[n] \notin UnpinnedAmong(c, n - 1)
  <2>1. \A j \in 1..(n - 1) : c.lru[j] # c.lru[n]
    BY <1>1, <1>4 DEF Sound, Distinct
  <2> QED BY <2>1 DEF UnpinnedAmong
<1> QED BY <1>4, <1>5, <1>7, <1>10, <1>11, <1>12

(* For any experts, sizes and capacity: admit evicts the least recently    *)
(* used unpinned entries first, and never one more than the new entry      *)
(* needs.                                                                  *)
THEOREM EvictsLeastRecent == Spec => EvictionIsLeastRecent
<1> DEFINE A == Admitted # {} =>
      /\ \A x \in Lost, y \in cache.cached \cap cache'.cached :
           cache.pins[y] = 0 => Before(x, y)
      /\ \A x \in Lost :
           (\A z \in Lost \ {x} : Before(z, x))
             => cache'.used + Size[x] > Capacity
<1>1. ASSUME Sound(cache), Next, Admitted # {} PROVE A
  <2>1. PICK e \in Expert : AdmitEntry(e) /\ e \notin cache.cached
    <3>1. PICK e \in Expert :
            \/ AdmitEntry(e) \/ AdmitThrows(e) \/ TouchEntry(e)
            \/ PinEntry(e) \/ UnpinEntry(e) \/ EraseEntry(e)
      BY <1>1 DEF Next
    <3>2. CASE AdmitThrows(e)
      <4>1. cache' \in {cache, Drop(cache, Victims(cache, e)), Touch(cache, e)}
            /\ (cache' = Touch(cache, e) => e \in cache.cached \/ cache' = cache
                   \/ cache' = Drop(cache, Victims(cache, e)))
        BY <3>2 DEF AdmitThrows, Admit
      <4> QED BY <1>1, <4>1, VictimsMakeRoom, DropSound, TouchSound DEF Admitted
    <3>3. CASE AdmitEntry(e) /\ e \in cache.cached
      <4>1. cache' = Touch(cache, e)
        BY <3>3, CacheAssumption DEF AdmitEntry, Admit, CanAdmit
      <4> QED BY <1>1, <3>3, <4>1, TouchSound DEF Admitted
    <3>4. CASE TouchEntry(e) \/ PinEntry(e) \/ UnpinEntry(e) \/ EraseEntry(e)
      <4>1. cache'.cached \subseteq cache.cached
        <5>1. CASE TouchEntry(e)
          BY <1>1, <5>1, TouchSound DEF TouchEntry
        <5>2. CASE PinEntry(e)
          BY <1>1, <5>2, PinSound DEF PinEntry
        <5>3. CASE UnpinEntry(e)
          BY <1>1, <5>3, UnpinSound DEF UnpinEntry
        <5>4. CASE EraseEntry(e)
          BY <1>1, <5>4, EraseSound DEF EraseEntry
        <5> QED BY <3>4, <5>1, <5>2, <5>3, <5>4
      <4> QED BY <1>1, <4>1 DEF Admitted
    <3> QED BY <3>1, <3>2, <3>3, <3>4
  <2> DEFINE V == Victims(cache, e)
             rest == Drop(cache, V)
             n == Shortest(Enough(cache, e))
  <2>2. /\ CanAdmit(cache, e) /\ cache' = Insert(rest, e)
        /\ ~(Size[e] > Capacity \/ e \in cache.cached)
    BY <2>1, CacheAssumption DEF AdmitEntry, Admit, CanAdmit
  <2>3. V \in SUBSET cache.cached
        /\ cache.used - Bytes(V) + Size[e] <= Capacity
    BY <1>1, <2>1, <2>2, VictimsMakeRoom
  <2>4. /\ Sound(rest) /\ rest.cached = cache.cached \ V
        /\ rest.used = cache.used - Bytes(V)
    BY <1>1, <2>3, DropSound
  <2>5. Enough(cache, e) # {} /\ V = UnpinnedAmong(cache, n)
    BY <2>2 DEF CanAdmit, Victims
  <2>6. Enough(cache, e) \subseteq 0..Len(cache.lru) /\ Len(cache.lru) \in Nat
    BY <1>1 DEF Enough, Sound, CacheRecord
  <2>7. n \in 0..Len(cache.lru)
    BY <2>5, <2>6, ShortestIs
  <2> HIDE DEF rest, n
  <2>8. cache'.cached = rest.cached \cup {e} /\ cache'.used = rest.used + Size[e]
    <3>1. cache'.cached = rest.cached \cup {e}
      BY <2>1, <2>2, <2>3, <2>4, InsertSound
    <3>2. cache'.used = rest.used + Size[e]
      BY <2>2, <2>4 DEF Insert, Sound, CacheRecord
    <3> QED BY <3>1, <3>2
  <2> HIDE DEF V
  <2>9. Lost = V
    BY <2>1, <2>3, <2>4, <2>8 DEF Lost
  <2>10. ASSUME NEW x \in Lost, NEW y \in cache.cached \cap cache'.cached,
                cache.pins[y] = 0
         PROVE  Before(x, y)
    <3>1. PICK i \in 1..n : cache.lru[i] = x
      BY <2>5, <2>9 DEF UnpinnedAmong
    <3>2. PICK j \in 1..Len(cache.lru) : cache.lru[j] = y
      BY <1>1 DEF Sound, Elems
    <3>3. y \notin V
      BY <2>1, <2>4, <2>8
    <3>4. ~(j \in 1..n)
      BY <2>5, <2>10, <3>2, <3>3 DEF UnpinnedAmong
    <3>5. i \in 1..Len(cache.lru) /\ i < j
      BY <2>6, <2>7, <3>4
    <3> QED BY <3>1, <3>2, <3>5 DEF Before
  <2>11. ASSUME NEW x \in Lost, \A z \in Lost \ {x} : Before(z, x)
         PROVE  cache'.used + Size[x] > Capacity
    <3>1. n # 0
      BY <2>5, <2>9 DEF UnpinnedAmong
    <3>2. /\ n \in 1..Len(cache.lru) /\ cache.lru[n] \in V
          /\ V \ {cache.lru[n]} = UnpinnedAmong(cache, n - 1)
          /\ ~Fits(cache, e, UnpinnedAmong(cache, n - 1))
      BY <1>1, <2>1, <2>2, <3>1, LastVictim DEF n, V
    <3>3. x = cache.lru[n]
      <4> SUFFICES ASSUME x # cache.lru[n] PROVE FALSE
        OBVIOUS
      <4>1. PICK i, j \in 1..Len(cache.lru) :
              i < j /\ cache.lru[i] = cache.lru[n] /\ cache.lru[j] = x
        BY <2>9, <2>11, <3>2 DEF Before
      <4>2. PICK k \in 1..n : cache.lru[k] = x
        BY <2>5, <2>9 DEF UnpinnedAmong
      <4>3. i = n /\ k = j
        BY <1>1, <2>6, <2>7, <3>2, <4>1, <4>2 DEF Sound, Distinct
      <4> QED BY <2>6, <2>7, <4>1, <4>2, <4>3
    <3>4. ~(cache.used - Bytes(V \ {x}) + Size[e] <= Capacity)
      BY <3>2, <3>3 DEF Fits
    <3>5. V \in SUBSET Expert /\ IsFiniteSet(V) /\ IsFiniteSet(V \ {x})
      BY <1>1, <2>3, FS_Subset DEF Sound, CacheRecord
    <3>6. Bytes(V) = Size[x] + Bytes(V \ {x})
      BY <2>9, <3>5, BytesRemove
    <3>7. /\ cache.used \in Int /\ Bytes(V \ {x}) \in Nat /\ Size[x] \in Nat
          /\ Size[e] \in Nat /\ Capacity \in Nat
      BY <1>1, <2>9, <3>5, BytesType, CacheAssumption DEF Sound, CacheRecord
    <3> QED BY <2>4, <2>8, <3>4, <3>6, <3>7
  <2> QED BY <2>10, <2>11
<1>2. Sound(cache) /\ [Next]_cache => [A]_cache
  BY <1>1
<1> QED BY <1>2, AlwaysSound, PTL DEF Spec, EvictionIsLeastRecent
=============================================================================
