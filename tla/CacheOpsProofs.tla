--------------------------- MODULE CacheOpsProofs ---------------------------
(***************************************************************************)
(* What the operators on a cache compute: the sum of the bytes over a set  *)
(* of entries, the list without some of its members, and what each call    *)
(* leaves of a sound cache.  The library states its induction principles   *)
(* with a predicate as a parameter; here they are used in the form that a  *)
(* nonempty set of candidates has a smallest one.                          *)
(***************************************************************************)
EXTENDS CacheOps, TLAPS
LOCAL INSTANCE FiniteSetsExt
LOCAL INSTANCE FiniteSetTheorems

-----------------------------------------------------------------------------
(* Induction on a finite set, without a predicate as a parameter: a set of *)
(* subsets of it that is not empty has a smallest member.                  *)
LEMMA SmallestSet ==
  ASSUME NEW S, IsFiniteSet(S), NEW T, T \subseteq SUBSET S, T # {}
  PROVE  \E U \in T : \A V \in T : V \subseteq U => V = U
<1>1. FiniteSubsetsOf(S) = SUBSET S
  BY FS_FiniteSubsetsOfFinite
<1>2. IsWellFoundedOn(StrictSubsetOrdering(S), SUBSET S)
  BY <1>1, FS_StrictSubsetOrderingWellFounded
<1>3. PICK U \in T : \A V \in T : ~(<<V, U>> \in StrictSubsetOrdering(S))
  BY <1>2, WFMin
<1>4. ASSUME NEW V \in T, V \subseteq U PROVE V = U
  BY <1>3, <1>4 DEF StrictSubsetOrdering
<1> QED BY <1>4

-----------------------------------------------------------------------------
Pick(s) == CHOOSE x \in s : TRUE

\* f is the table of the sums over the subsets of T that the fold builds.
Sums(f, T) ==
  f = [s \in SUBSET T |->
         IF s = {} THEN 0 ELSE Size[Pick(s)] + f[s \ {Pick(s)}]]

LEMMA BytesSums == ASSUME NEW S PROVE Bytes(S) = (CHOOSE f : Sums(f, S))[S]
BY DEF Bytes, MapThenSumSet, MapThenFoldSet, Sums, Pick

LEMMA PickIn == ASSUME NEW s, s # {} PROVE Pick(s) \in s
BY DEF Pick

LEMMA SumsAt ==
  ASSUME NEW T, NEW f, Sums(f, T), NEW s \in SUBSET T
  PROVE  f[s] = IF s = {} THEN 0 ELSE Size[Pick(s)] + f[s \ {Pick(s)}]
BY DEF Sums

\* Two tables agree wherever both are defined.
LEMMA SumsUnique ==
  ASSUME NEW S, IsFiniteSet(S), NEW T \in SUBSET S,
         NEW f, NEW g, Sums(f, S), Sums(g, T), NEW s \in SUBSET T
  PROVE  f[s] = g[s]
<1> DEFINE Bad == {r \in SUBSET T : f[r] # g[r]}
<1> SUFFICES ASSUME Bad # {} PROVE FALSE
  OBVIOUS
<1>0. IsFiniteSet(T) /\ Bad \subseteq SUBSET T
  BY FS_Subset
<1>1. PICK u \in Bad : \A v \in Bad : v \subseteq u => v = u
  <2> HIDE DEF Bad
  <2> QED BY <1>0, SmallestSet
<1>2. u # {}
  BY SumsAt
<1>3. u \ {Pick(u)} \subseteq u /\ u \ {Pick(u)} # u
  BY <1>2, PickIn
<1>4. f[u \ {Pick(u)}] = g[u \ {Pick(u)}]
  BY <1>1, <1>3
<1> QED BY <1>1, <1>2, <1>4, SumsAt

LEMMA SumsExist ==
  ASSUME NEW S, IsFiniteSet(S)
  PROVE  \E f : Sums(f, S)
<1> DEFINE Bad == {r \in SUBSET S : ~ \E f : Sums(f, r)}
           G(r) == CHOOSE f : Sums(f, r)
<1> SUFFICES ASSUME Bad # {} PROVE FALSE
  OBVIOUS
<1>1. PICK u \in Bad : \A v \in Bad : v \subseteq u => v = u
  <2>1. Bad \subseteq SUBSET S
    OBVIOUS
  <2> HIDE DEF Bad
  <2> QED BY <2>1, SmallestSet
<1>2. \A r : r \subseteq u /\ r # u => Sums(G(r), r)
  BY <1>1
<1>3. \A r, t : r \subseteq t /\ t \subseteq u /\ t # u => G(t)[r] = G(r)[r]
  <2> SUFFICES ASSUME NEW r, NEW t, r \subseteq t, t \subseteq u, t # u
               PROVE  G(t)[r] = G(r)[r]
    OBVIOUS
  <2>1. IsFiniteSet(t)
    BY FS_Subset
  <2>2. Sums(G(t), t) /\ Sums(G(r), r)
    BY <1>2
  <2> HIDE DEF G
  <2> QED BY <2>1, <2>2, SumsUnique
<1> HIDE DEF G
<1> DEFINE h == [s \in SUBSET u |->
                   IF s = {} THEN 0
                   ELSE Size[Pick(s)] + G(s \ {Pick(s)})[s \ {Pick(s)}]]
<1>4. ASSUME NEW r \in SUBSET u, r # u PROVE h[r] = G(r)[r]
  <2>1. Sums(G(r), r)
    BY <1>2, <1>4
  <2>2. CASE r = {}
    <3>1. G(r)[r] = 0
      BY <2>1, <2>2, SumsAt
    <3> QED BY <2>2, <3>1
  <2>3. CASE r # {}
    <3>1. h[r] = Size[Pick(r)] + G(r \ {Pick(r)})[r \ {Pick(r)}]
      BY <2>3
    <3>2. G(r)[r] = Size[Pick(r)] + G(r)[r \ {Pick(r)}]
      BY <2>1, <2>3, SumsAt
    <3>3. G(r)[r \ {Pick(r)}] = G(r \ {Pick(r)})[r \ {Pick(r)}]
      BY <1>3, <1>4
    <3> QED BY <3>1, <3>2, <3>3
  <2> QED BY <2>2, <2>3
<1>5. ASSUME NEW s \in SUBSET u, s # {}
      PROVE  h[s \ {Pick(s)}] = G(s \ {Pick(s)})[s \ {Pick(s)}]
  <2>1. s \ {Pick(s)} \in SUBSET u /\ s \ {Pick(s)} # u
    BY <1>5, PickIn
  <2> HIDE DEF h
  <2> QED BY <2>1, <1>4
<1>6. Sums(h, u)
  BY <1>5 DEF Sums
<1> QED BY <1>1, <1>6

(* The sum over a set is that over the rest of it and the one it picks.    *)
LEMMA BytesStep ==
  ASSUME NEW S, IsFiniteSet(S)
  PROVE  Bytes(S) = IF S = {} THEN 0 ELSE Size[Pick(S)] + Bytes(S \ {Pick(S)})
<1> DEFINE G(r) == CHOOSE f : Sums(f, r)
           r0 == S \ {Pick(S)}
<1>1. IsFiniteSet(r0)
  BY FS_Subset
<1>2. Sums(G(S), S) /\ Sums(G(r0), r0)
  BY <1>1, SumsExist
<1>3. Bytes(S) = G(S)[S] /\ Bytes(r0) = G(r0)[r0]
  BY BytesSums
<1> HIDE DEF G
<1>4. G(S)[r0] = G(r0)[r0]
  BY <1>2, SumsUnique
<1> QED BY <1>2, <1>3, <1>4, SumsAt
LEMMA BytesEmpty == Bytes({}) = 0
BY BytesStep, FS_EmptySet

LEMMA BytesType ==
  ASSUME NEW S \in SUBSET Expert, IsFiniteSet(S)
  PROVE  Bytes(S) \in Nat
<1> DEFINE Bad == {r \in SUBSET S : Bytes(r) \notin Nat}
<1> SUFFICES ASSUME Bad # {} PROVE FALSE
  OBVIOUS
<1>1. PICK u \in Bad : \A v \in Bad : v \subseteq u => v = u
  <2>1. Bad \subseteq SUBSET S
    OBVIOUS
  <2> HIDE DEF Bad
  <2> QED BY <2>1, SmallestSet
<1>2. u # {} /\ IsFiniteSet(u)
  <2>1. u # {}
    BY BytesEmpty
  <2>2. u \in SUBSET S
    OBVIOUS
  <2> QED BY <2>1, <2>2, FS_Subset
<1>3. Pick(u) \in u
  BY <1>2, PickIn
<1>4. Bytes(u \ {Pick(u)}) \in Nat
  BY <1>1, <1>3
<1>5. Bytes(u) = Size[Pick(u)] + Bytes(u \ {Pick(u)})
  BY <1>2, BytesStep
<1>6. Size[Pick(u)] \in Nat
  BY <1>3, CacheAssumption
<1> QED BY <1>4, <1>5, <1>6

(* In whatever order the fold takes the members, each counts once.         *)
LEMMA BytesRemove ==
  ASSUME NEW S \in SUBSET Expert, IsFiniteSet(S), NEW e \in S
  PROVE  Bytes(S) = Size[e] + Bytes(S \ {e})
<1> DEFINE Bad == {r \in SUBSET S : \E x \in r : Bytes(r) # Size[x] + Bytes(r \ {x})}
<1> SUFFICES ASSUME Bad # {} PROVE FALSE
  OBVIOUS
<1>1. PICK u \in Bad : \A v \in Bad : v \subseteq u => v = u
  <2>1. Bad \subseteq SUBSET S
    OBVIOUS
  <2> HIDE DEF Bad
  <2> QED BY <2>1, SmallestSet
<1>2. PICK x \in u : Bytes(u) # Size[x] + Bytes(u \ {x})
  OBVIOUS
<1>3. u # {} /\ u \in SUBSET S
  BY <1>2
<1> DEFINE y == Pick(u)
<1>4. y \in u
  BY <1>3, PickIn
<1>5. /\ IsFiniteSet(u) /\ IsFiniteSet(u \ {x}) /\ IsFiniteSet(u \ {y})
      /\ IsFiniteSet((u \ {x}) \ {y})
  BY <1>3, FS_Subset
<1>6. Bytes(u) = Size[y] + Bytes(u \ {y})
  BY <1>3, <1>5, BytesStep
<1> HIDE DEF y
<1>7. x # y
  BY <1>2, <1>6
<1>0. ASSUME NEW v \in SUBSET u, v # u, NEW z \in v
      PROVE  Bytes(v) = Size[z] + Bytes(v \ {z})
  <2>1. v \notin Bad /\ v \in SUBSET S
    BY <1>0, <1>1, <1>3
  <2> QED BY <2>1
<1> HIDE DEF Bad
<1>8. Bytes(u \ {y}) = Size[x] + Bytes((u \ {y}) \ {x})
  <2>1. u \ {y} \in SUBSET u /\ u \ {y} # u /\ x \in u \ {y}
    BY <1>2, <1>4, <1>7
  <2> QED BY <1>0, <2>1
<1>9. Bytes(u \ {x}) = Size[y] + Bytes((u \ {x}) \ {y})
  <2>1. u \ {x} \in SUBSET u /\ u \ {x} # u /\ y \in u \ {x}
    BY <1>2, <1>4, <1>7
  <2> QED BY <1>0, <2>1
<1>10. (u \ {y}) \ {x} = (u \ {x}) \ {y}
  OBVIOUS
<1>11. Size[x] \in Nat /\ Size[y] \in Nat /\ Bytes((u \ {x}) \ {y}) \in Nat
  <2>1. x \in Expert /\ y \in Expert /\ (u \ {x}) \ {y} \in SUBSET Expert
    BY <1>2, <1>3, <1>4
  <2> QED BY <1>5, <2>1, BytesType, CacheAssumption
<1> QED BY <1>2, <1>6, <1>8, <1>9, <1>10, <1>11

LEMMA BytesAdd ==
  ASSUME NEW S \in SUBSET Expert, IsFiniteSet(S), NEW e \in Expert, e \notin S
  PROVE  Bytes(S \cup {e}) = Bytes(S) + Size[e]
<1>1. IsFiniteSet(S \cup {e}) /\ (S \cup {e}) \ {e} = S
  BY FS_AddElement
<1>2. Bytes(S \cup {e}) = Size[e] + Bytes(S)
  <2>1. e \in S \cup {e} /\ S \cup {e} \in SUBSET Expert
    OBVIOUS
  <2> QED BY <1>1, <2>1, BytesRemove
<1> QED BY <1>2, BytesType, CacheAssumption

LEMMA BytesOne == ASSUME NEW e \in Expert PROVE Bytes({e}) = Size[e]
<1>1. Bytes({} \cup {e}) = Bytes({}) + Size[e]
  BY BytesAdd, FS_EmptySet
<1>2. {} \cup {e} = {e}
  OBVIOUS
<1> QED BY <1>1, <1>2, BytesEmpty, CacheAssumption

(* Removing a subset takes its sum away.                                   *)
LEMMA BytesDrop ==
  ASSUME NEW S \in SUBSET Expert, IsFiniteSet(S), NEW V \in SUBSET S
  PROVE  Bytes(S \ V) = Bytes(S) - Bytes(V)
<1> DEFINE Bad == {r \in SUBSET V : Bytes(S \ r) # Bytes(S) - Bytes(r)}
<1> SUFFICES ASSUME Bad # {} PROVE FALSE
  OBVIOUS
<1>0. IsFiniteSet(V)
  BY FS_Subset
<1>1. PICK u \in Bad : \A v \in Bad : v \subseteq u => v = u
  <2>1. Bad \subseteq SUBSET V
    OBVIOUS
  <2> HIDE DEF Bad
  <2> QED BY <1>0, <2>1, SmallestSet
<1>2. u # {}
  <2>1. S \ {} = S /\ Bytes(S) \in Nat
    BY BytesType
  <2> QED BY <2>1, BytesEmpty
<1>3. PICK y \in u : TRUE
  BY <1>2
<1> DEFINE r == u \ {y}
<1>4. r \in SUBSET V /\ r # u /\ r \subseteq u
  BY <1>3
<1>5. Bytes(S \ r) = Bytes(S) - Bytes(r)
  BY <1>1, <1>4
<1>6. /\ IsFiniteSet(u) /\ IsFiniteSet(r) /\ IsFiniteSet(S \ r) /\ IsFiniteSet(S \ u)
  BY FS_Subset
<1>7. Bytes(u) = Size[y] + Bytes(r)
  BY <1>6, BytesRemove
<1>8. (S \ r) \ {y} = S \ u /\ y \in S \ r
  BY <1>3
<1> HIDE DEF r
<1>9. Bytes(S \ r) = Size[y] + Bytes(S \ u)
  BY <1>6, <1>8, BytesRemove
<1>10. /\ Bytes(S) \in Nat /\ Bytes(r) \in Nat /\ Bytes(S \ u) \in Nat
       /\ Size[y] \in Nat
  BY <1>4, <1>6, BytesType, CacheAssumption
<1> QED BY <1>5, <1>7, <1>9, <1>10

-----------------------------------------------------------------------------
(* Induction on the natural numbers in the same form.                      *)
LEMMA SmallestNat ==
  ASSUME NEW T, T \subseteq Nat, T # {}
  PROVE  \E n \in T : \A m \in T : n <= m
<1>1. PICK n \in T : \A m \in T : ~ (<<m, n>> \in OpToRel(<, Nat))
  BY NatLessThanWellFounded, WFMin
<1>2. ASSUME NEW m \in T, m < n PROVE FALSE
  BY <1>1, <1>2 DEF OpToRel
<1> QED BY <1>2

\* k is the table of the first n steps of unlinking V from s.
Unlinks(k, s, V, n) ==
  k = [i \in 0..n |->
         IF i = 0 THEN <<>>
         ELSE IF s[i] \in V THEN k[i - 1] ELSE Append(k[i - 1], s[i])]

LEMMA WithoutTable ==
  ASSUME NEW s, NEW V
  PROVE  Without(s, V) = (CHOOSE k : Unlinks(k, s, V, Len(s)))[Len(s)]
BY DEF Without, Unlinks

LEMMA UnlinksAt ==
  ASSUME NEW s, NEW V, NEW n, NEW k, Unlinks(k, s, V, n), NEW i \in 0..n
  PROVE  k[i] = IF i = 0 THEN <<>>
                ELSE IF s[i] \in V THEN k[i - 1] ELSE Append(k[i - 1], s[i])
BY DEF Unlinks

LEMMA UnlinksExist ==
  ASSUME NEW s, NEW V, NEW n \in Nat
  PROVE  \E k : Unlinks(k, s, V, n)
<1> DEFINE Bad == {m \in Nat : ~ \E k : Unlinks(k, s, V, m)}
<1> SUFFICES ASSUME Bad # {} PROVE FALSE
  OBVIOUS
<1>1. PICK m \in Bad : \A j \in Bad : m <= j
  <2>1. Bad \subseteq Nat
    OBVIOUS
  <2> HIDE DEF Bad
  <2> QED BY <2>1, SmallestNat
<1>2. CASE m = 0
  <2>1. Unlinks([i \in 0..0 |-> <<>>], s, V, 0)
    BY DEF Unlinks
  <2> QED BY <1>2, <2>1
<1>3. CASE m # 0
  <2>1. m - 1 \in Nat /\ m - 1 \notin Bad
    BY <1>1, <1>3
  <2>2. PICK k : Unlinks(k, s, V, m - 1)
    BY <2>1
  <2> DEFINE last == IF s[m] \in V THEN k[m - 1] ELSE Append(k[m - 1], s[m])
             h == [i \in 0..m |-> IF i = m THEN last ELSE k[i]]
  <2>3. ASSUME NEW i \in 0..m
        PROVE  h[i] = IF i = 0 THEN <<>>
                      ELSE IF s[i] \in V THEN h[i - 1] ELSE Append(h[i - 1], s[i])
    <3>1. CASE i = m
      <4>1. h[i] = last /\ i - 1 \in 0..m /\ i - 1 # m /\ i # 0
        BY <1>3, <3>1
      <4>2. h[i - 1] = k[i - 1]
        BY <4>1
      <4> QED BY <3>1, <4>1, <4>2
    <3>2. CASE i # m /\ i # 0
      <4>1. h[i] = k[i] /\ i \in 0..(m - 1) /\ i - 1 \in 0..m /\ i - 1 # m
        BY <1>3, <3>2
      <4>2. h[i - 1] = k[i - 1]
        BY <4>1
      <4>3. k[i] = IF s[i] \in V THEN k[i - 1] ELSE Append(k[i - 1], s[i])
        BY <2>2, <3>2, <4>1 DEF Unlinks
      <4> QED BY <3>2, <4>1, <4>2, <4>3
    <3>3. CASE i # m /\ i = 0
      <4>1. h[i] = k[i] /\ i \in 0..(m - 1)
        BY <1>3, <3>3
      <4> QED BY <2>2, <3>3, <4>1 DEF Unlinks
    <3> QED BY <3>1, <3>2, <3>3
  <2>4. h = [i \in 0..m |->
               IF i = 0 THEN <<>>
               ELSE IF s[i] \in V THEN h[i - 1] ELSE Append(h[i - 1], s[i])]
    <3> HIDE DEF last
    <3>1. h = [i \in 0..m |-> h[i]]
      OBVIOUS
    <3> HIDE DEF h
    <3> QED BY <2>3, <3>1
  <2> HIDE DEF h
  <2>5. Unlinks(h, s, V, m)
    BY <2>4 DEF Unlinks
  <2> QED BY <2>5
<1> QED BY <1>2, <1>3

Elems(s) == {s[i] : i \in 1..Len(s)}

Distinct(s) == \A i, j \in 1..Len(s) : s[i] = s[j] => i = j

LEMMA AppendFacts ==
  ASSUME NEW S, NEW t \in Seq(S), NEW x \in S
  PROVE  /\ Append(t, x) \in Seq(S)
         /\ Elems(Append(t, x)) = Elems(t) \cup {x}
         /\ Distinct(t) /\ x \notin Elems(t) => Distinct(Append(t, x))
<1> DEFINE u == Append(t, x)
<1>1. u \in Seq(S) /\ Len(u) = Len(t) + 1 /\ Len(t) \in Nat
  OBVIOUS
<1>2. \A i \in 1..Len(t) : u[i] = t[i]
  OBVIOUS
<1>3. u[Len(t) + 1] = x
  OBVIOUS
<1> HIDE DEF u
<1>4. Elems(u) = Elems(t) \cup {x}
  <2>1. ASSUME NEW i \in 1..Len(u) PROVE u[i] \in Elems(t) \cup {x}
    <3>1. CASE i = Len(t) + 1
      BY <1>3, <3>1
    <3>2. CASE i # Len(t) + 1
      <4>1. i \in 1..Len(t)
        BY <1>1, <3>2
      <4> QED BY <1>2, <4>1 DEF Elems
    <3> QED BY <3>1, <3>2
  <2>2. ASSUME NEW i \in 1..Len(t) PROVE t[i] \in Elems(u)
    <3>1. i \in 1..Len(u)
      BY <1>1
    <3> QED BY <1>2, <3>1 DEF Elems
  <2>3. x \in Elems(u)
    <3>1. Len(t) + 1 \in 1..Len(u)
      BY <1>1
    <3> QED BY <1>3, <3>1 DEF Elems
  <2> QED BY <2>1, <2>2, <2>3 DEF Elems
<1>5. ASSUME Distinct(t), x \notin Elems(t) PROVE Distinct(u)
  <2> SUFFICES ASSUME NEW i \in 1..Len(u), NEW j \in 1..Len(u), u[i] = u[j]
               PROVE  i = j
    BY DEF Distinct
  <2>1. CASE i = Len(t) + 1 /\ j # Len(t) + 1
    <3>1. j \in 1..Len(t)
      BY <1>1, <2>1
    <3> QED BY <1>2, <1>3, <1>5, <2>1, <3>1 DEF Elems
  <2>2. CASE i # Len(t) + 1 /\ j = Len(t) + 1
    <3>1. i \in 1..Len(t)
      BY <1>1, <2>2
    <3> QED BY <1>2, <1>3, <1>5, <2>2, <3>1 DEF Elems
  <2>3. CASE i # Len(t) + 1 /\ j # Len(t) + 1
    <3>1. i \in 1..Len(t) /\ j \in 1..Len(t)
      BY <1>1, <2>3
    <3> QED BY <1>2, <1>5, <3>1 DEF Distinct
  <2> QED BY <2>1, <2>2, <2>3
<1> QED BY <1>1, <1>4, <1>5 DEF u

(* Unlinking removes exactly the members of V and makes no duplicates.     *)
LEMMA WithoutFacts ==
  ASSUME NEW S, NEW s \in Seq(S), NEW V
  PROVE  /\ Without(s, V) \in Seq(S)
         /\ Elems(Without(s, V)) = Elems(s) \ V
         /\ Distinct(s) => Distinct(Without(s, V))
<1> DEFINE k == CHOOSE k : Unlinks(k, s, V, Len(s))
           Prefix(n) == {s[i] : i \in 1..n}
           Good(n) == /\ k[n] \in Seq(S)
                      /\ Elems(k[n]) = Prefix(n) \ V
                      /\ Distinct(s) => Distinct(k[n])
           Bad == {n \in 0..Len(s) : ~Good(n)}
<1>1. Len(s) \in Nat
  OBVIOUS
<1>2. Unlinks(k, s, V, Len(s)) /\ Without(s, V) = k[Len(s)]
  BY <1>1, UnlinksExist, WithoutTable
<1> HIDE DEF k
<1>3. Good(0)
  <2>1. k[0] = <<>>
    <3>1. 0 \in 0..Len(s)
      BY <1>1
    <3> QED BY <1>2, <3>1, UnlinksAt
  <2>2. Prefix(0) = {} /\ <<>> \in Seq(S) /\ Elems(<<>>) = {} /\ Distinct(<<>>)
    BY DEF Elems, Distinct
  <2> QED BY <2>1, <2>2
<1>4. ASSUME NEW n \in 1..Len(s), Good(n - 1) PROVE Good(n)
  <2>1. k[n] = IF s[n] \in V THEN k[n - 1] ELSE Append(k[n - 1], s[n])
    <3>1. n \in 0..Len(s) /\ n # 0
      BY <1>1
    <3> QED BY <1>2, <3>1, UnlinksAt
  <2>2. Prefix(n) = Prefix(n - 1) \cup {s[n]}
    <3>1. 1..n = (1..(n - 1)) \cup {n}
      BY <1>1
    <3> QED BY <3>1
  <2>3. s[n] \in S
    OBVIOUS
  <2>4. Distinct(s) => s[n] \notin Prefix(n - 1)
    BY <1>1 DEF Distinct
  <2> HIDE DEF Prefix
  <2>5. CASE s[n] \in V
    BY <1>4, <2>1, <2>2, <2>5
  <2>6. CASE s[n] \notin V
    <3>1. k[n] = Append(k[n - 1], s[n])
      BY <2>1, <2>6
    <3>2. /\ k[n] \in Seq(S)
          /\ Elems(k[n]) = Elems(k[n - 1]) \cup {s[n]}
          /\ Distinct(k[n - 1]) /\ s[n] \notin Elems(k[n - 1]) => Distinct(k[n])
      BY <1>4, <2>3, <3>1, AppendFacts
    <3> QED BY <1>4, <2>2, <2>4, <2>6, <3>2
  <2> QED BY <2>5, <2>6
<1>5. Good(Len(s))
  <2> HIDE DEF Good
  <2>0. Len(s) \in 0..Len(s)
    BY <1>1
  <2> SUFFICES ASSUME Bad # {} PROVE FALSE
    BY <2>0
  <2>1. Bad \subseteq Nat
    BY <1>1
  <2>2. PICK n \in Bad : \A m \in Bad : n <= m
    <3> HIDE DEF Bad
    <3> QED BY <2>1, SmallestNat
  <2>3. n # 0
    BY <1>3
  <2>4. n - 1 \in 0..Len(s) /\ n \in 1..Len(s) /\ ~(n <= n - 1)
    BY <1>1, <2>3
  <2>5. Good(n - 1)
    BY <2>2, <2>4
  <2> QED BY <1>4, <2>4, <2>5
<1> QED BY <1>2, <1>5 DEF Elems

LEMMA DistinctCount ==
  ASSUME NEW S, NEW s \in Seq(S), Distinct(s)
  PROVE  Cardinality(Elems(s)) = Len(s) /\ IsFiniteSet(Elems(s))
<1>1. Len(s) \in Nat
  OBVIOUS
<1>2. s \in Bijection(1..Len(s), Elems(s))
  <2>1. s \in [1..Len(s) -> Elems(s)]
    BY DEF Elems
  <2> QED BY <2>1 DEF Bijection, Injection, Surjection, Distinct, Elems, IsInjective
<1>3. ExistsBijection(1..Len(s), Elems(s))
  BY <1>2 DEF ExistsBijection
<1> QED BY <1>1, <1>3, FS_CountingElements, FS_NatBijection

-----------------------------------------------------------------------------
(* A sound cache: the byte count is the sum over the entries and within    *)
(* the capacity, and the list names every entry once.                      *)
CacheRecord ==
  [ cached : SUBSET Expert, pins : [Expert -> Nat],
    lru : Seq(Expert), used : Int ]

Sound(c) ==
  /\ c \in CacheRecord
  /\ IsFiniteSet(c.cached)
  /\ c.used = Bytes(c.cached) /\ c.used <= Capacity
  /\ Elems(c.lru) = c.cached /\ Distinct(c.lru)

LEMMA EmptySound == Sound(EmptyCache)
<1>1. EmptyCache \in CacheRecord
  BY DEF EmptyCache, CacheRecord
<1>2. /\ EmptyCache.cached = {} /\ EmptyCache.lru = <<>> /\ EmptyCache.used = 0
  BY DEF EmptyCache
<1>3. Elems(<<>>) = {} /\ Distinct(<<>>)
  BY DEF Elems, Distinct
<1> QED BY <1>1, <1>2, <1>3, BytesEmpty, FS_EmptySet, CacheAssumption DEF Sound

LEMMA DropSound ==
  ASSUME NEW c, Sound(c), NEW V \in SUBSET c.cached
  PROVE  /\ Sound(Drop(c, V))
         /\ Drop(c, V).cached = c.cached \ V
         /\ Drop(c, V).pins = c.pins
         /\ Drop(c, V).used = c.used - Bytes(V)
<1> DEFINE d == Drop(c, V)
<1>1. IsFiniteSet(V) /\ IsFiniteSet(c.cached \ V) /\ Bytes(V) \in Nat
  BY FS_Subset, BytesType DEF Sound, CacheRecord
<1>2. /\ Without(c.lru, V) \in Seq(Expert)
      /\ Elems(Without(c.lru, V)) = c.cached \ V
      /\ Distinct(Without(c.lru, V))
  BY WithoutFacts DEF Sound, CacheRecord
<1>3. /\ d.cached = c.cached \ V /\ d.pins = c.pins
      /\ d.lru = Without(c.lru, V) /\ d.used = c.used - Bytes(V)
  BY DEF Drop, Sound, CacheRecord
<1>4. d \in CacheRecord
  <2>1. c.used - Bytes(V) \in Int
    BY <1>1 DEF Sound, CacheRecord
  <2> QED BY <1>2, <2>1 DEF Drop, Sound, CacheRecord
<1>5. Bytes(c.cached \ V) = Bytes(c.cached) - Bytes(V)
  BY BytesDrop DEF Sound, CacheRecord
<1> HIDE DEF d
<1>6. Sound(d)
  BY <1>1, <1>2, <1>3, <1>4, <1>5, CacheAssumption DEF Sound, CacheRecord
<1> QED BY <1>3, <1>6 DEF d

LEMMA TouchSound ==
  ASSUME NEW c, Sound(c), NEW e \in c.cached
  PROVE  /\ Sound(Touch(c, e))
         /\ Touch(c, e).cached = c.cached
         /\ Touch(c, e).pins = c.pins
<1> DEFINE d == Touch(c, e)
           t == Without(c.lru, {e})
<1>0. e \in Expert
  BY DEF Sound, CacheRecord
<1>1. t \in Seq(Expert) /\ Elems(t) = c.cached \ {e} /\ Distinct(t)
  BY WithoutFacts DEF Sound, CacheRecord
<1>2. d.cached = c.cached /\ d.pins = c.pins /\ d.used = c.used
      /\ d.lru = Append(t, e)
  BY DEF Touch, Sound, CacheRecord
<1> HIDE DEF t
<1>3. /\ Append(t, e) \in Seq(Expert)
      /\ Elems(Append(t, e)) = (c.cached \ {e}) \cup {e}
      /\ Distinct(Append(t, e))
  BY <1>0, <1>1, AppendFacts
<1>4. d \in CacheRecord
  BY <1>3 DEF Touch, Sound, CacheRecord, t
<1> HIDE DEF d
<1>5. Sound(d)
  BY <1>2, <1>3, <1>4 DEF Sound
<1> QED BY <1>2, <1>5 DEF d

LEMMA InsertSound ==
  ASSUME NEW c, Sound(c), NEW e \in Expert, e \notin c.cached,
         c.used + Size[e] <= Capacity
  PROVE  /\ Sound(Insert(c, e))
         /\ Insert(c, e).cached = c.cached \cup {e}
         /\ Insert(c, e).pins = [c.pins EXCEPT ![e] = 0]
<1> DEFINE d == Insert(c, e)
<1>1. /\ Append(c.lru, e) \in Seq(Expert)
      /\ Elems(Append(c.lru, e)) = c.cached \cup {e}
      /\ Distinct(Append(c.lru, e))
  BY AppendFacts DEF Sound, CacheRecord
<1>2. Bytes(c.cached \cup {e}) = Bytes(c.cached) + Size[e]
  BY BytesAdd DEF Sound, CacheRecord
<1>3. d.cached = c.cached \cup {e} /\ d.pins = [c.pins EXCEPT ![e] = 0]
      /\ d.lru = Append(c.lru, e) /\ d.used = c.used + Size[e]
  BY DEF Insert, Sound, CacheRecord
<1>4. d \in CacheRecord
  <2>1. c.used + Size[e] \in Int
    BY CacheAssumption DEF Sound, CacheRecord
  <2> QED BY <1>1, <2>1 DEF Insert, Sound, CacheRecord
<1>5. IsFiniteSet(c.cached \cup {e})
  BY FS_AddElement DEF Sound
<1> HIDE DEF d
<1>6. Sound(d)
  BY <1>1, <1>2, <1>3, <1>4, <1>5 DEF Sound
<1> QED BY <1>3, <1>6 DEF d

\* A sound cache stays sound when only its pin counts change.
LEMMA PinsSound ==
  ASSUME NEW c, Sound(c), NEW e \in Expert, NEW n \in Nat
  PROVE  /\ Sound([c EXCEPT !.pins[e] = n])
         /\ [c EXCEPT !.pins[e] = n].cached = c.cached
         /\ [c EXCEPT !.pins[e] = n].pins = [c.pins EXCEPT ![e] = n]
<1> DEFINE d == [c EXCEPT !.pins[e] = n]
<1>1. /\ d.cached = c.cached /\ d.lru = c.lru /\ d.used = c.used
      /\ d.pins = [c.pins EXCEPT ![e] = n] /\ d \in CacheRecord
  BY DEF Sound, CacheRecord
<1> HIDE DEF d
<1>2. Sound(d)
  BY <1>1 DEF Sound
<1> QED BY <1>1, <1>2 DEF d

LEMMA PinSound ==
  ASSUME NEW c, Sound(c), NEW e \in Expert, CanPin(c, e)
  PROVE  /\ Sound(Pin(c, e))
         /\ Pin(c, e).cached = c.cached
         /\ Pin(c, e).pins = [c.pins EXCEPT ![e] = @ + 1]
<1>1. /\ Sound(Touch(c, e)) /\ Touch(c, e).cached = c.cached
      /\ Touch(c, e).pins = c.pins
  BY TouchSound DEF CanPin
<1>2. c.pins[e] + 1 \in Nat
  BY DEF Sound, CacheRecord
<1>3. Pin(c, e) = [Touch(c, e) EXCEPT !.pins[e] = c.pins[e] + 1]
  BY <1>1 DEF Pin
<1> QED BY <1>1, <1>2, <1>3, PinsSound

LEMMA UnpinSound ==
  ASSUME NEW c, Sound(c), NEW e \in Expert, CanUnpin(c, e)
  PROVE  /\ Sound(Unpin(c, e))
         /\ Unpin(c, e).cached = c.cached
         /\ Unpin(c, e).pins = [c.pins EXCEPT ![e] = @ - 1]
<1>1. c.pins[e] - 1 \in Nat
  BY DEF Sound, CacheRecord, CanUnpin
<1>2. Unpin(c, e) = [c EXCEPT !.pins[e] = c.pins[e] - 1]
  BY DEF Unpin
<1> QED BY <1>1, <1>2, PinsSound

LEMMA EraseSound ==
  ASSUME NEW c, Sound(c), NEW e \in Expert
  PROVE  /\ Sound(Erase(c, e))
         /\ Erase(c, e).cached = c.cached \ {e}
         /\ Erase(c, e).pins = c.pins
<1>1. CASE e \in c.cached
  BY <1>1, DropSound DEF Erase
<1>2. CASE e \notin c.cached
  BY <1>2 DEF Erase
<1> QED BY <1>1, <1>2

-----------------------------------------------------------------------------
LEMMA UnpinnedListed ==
  ASSUME NEW c, Sound(c), NEW n \in 0..Len(c.lru)
  PROVE  UnpinnedAmong(c, n) \in SUBSET c.cached
<1>1. Len(c.lru) \in Nat
  BY DEF Sound, CacheRecord
<1> QED BY <1>1 DEF UnpinnedAmong, Sound, Elems

LEMMA ShortestIs ==
  ASSUME NEW S, S \subseteq Nat, S # {}
  PROVE  Shortest(S) \in S /\ \A m \in S : Shortest(S) <= m
BY SmallestNat DEF Shortest

(* The victims are entries, and when admit does not throw they are enough  *)
(* to make room for the new one.                                           *)
LEMMA VictimsMakeRoom ==
  ASSUME NEW c, Sound(c), NEW e \in Expert
  PROVE  /\ Victims(c, e) \in SUBSET c.cached
         /\ CanAdmit(c, e) /\ e \notin c.cached =>
              c.used - Bytes(Victims(c, e)) + Size[e] <= Capacity
<1>1. Len(c.lru) \in Nat
  BY DEF Sound, CacheRecord
<1>2. Enough(c, e) \subseteq 0..Len(c.lru)
  BY DEF Enough
<1>3. CASE Size[e] > Capacity \/ e \in c.cached
  <2>1. ~(CanAdmit(c, e) /\ e \notin c.cached)
    BY <1>3, CacheAssumption DEF CanAdmit
  <2> QED BY <1>3, <2>1 DEF Victims
<1>4. CASE ~(Size[e] > Capacity \/ e \in c.cached) /\ Enough(c, e) = {}
  <2>1. Victims(c, e) = UnpinnedAmong(c, Len(c.lru)) /\ ~CanAdmit(c, e)
    BY <1>4 DEF Victims, CanAdmit
  <2> QED BY <1>1, <2>1, UnpinnedListed
<1>5. CASE ~(Size[e] > Capacity \/ e \in c.cached) /\ Enough(c, e) # {}
  <2>1. Victims(c, e) = UnpinnedAmong(c, Shortest(Enough(c, e)))
    BY <1>5 DEF Victims
  <2>2. Shortest(Enough(c, e)) \in Enough(c, e)
    BY <1>1, <1>2, <1>5, ShortestIs
  <2>3. Fits(c, e, Victims(c, e))
    BY <2>1, <2>2 DEF Enough
  <2> QED BY <1>2, <2>1, <2>2, <2>3, UnpinnedListed DEF Fits
<1> QED BY <1>3, <1>4, <1>5

\* admit leaves a sound cache behind, whether it returns or throws.
LEMMA AdmitSound ==
  ASSUME NEW c, Sound(c), NEW e \in Expert
  PROVE  Sound(Admit(c, e))
<1> DEFINE rest == Drop(c, Victims(c, e))
<1>1. /\ Sound(rest) /\ rest.cached = c.cached \ Victims(c, e)
      /\ rest.used = c.used - Bytes(Victims(c, e))
  BY VictimsMakeRoom, DropSound
<1> HIDE DEF rest
<1>2. CASE e \notin c.cached /\ CanAdmit(c, e)
  <2>1. Sound(Insert(rest, e))
    BY <1>1, <1>2, VictimsMakeRoom, InsertSound
  <2> QED BY <1>2, <2>1, CacheAssumption DEF Admit, CanAdmit, rest
<1>3. CASE ~(e \notin c.cached /\ CanAdmit(c, e))
  BY <1>1, <1>3, TouchSound DEF Admit, rest
<1> QED BY <1>2, <1>3

=============================================================================
