-------------------------- MODULE MoEForwardProofs --------------------------
(***************************************************************************)
(* The forwards of one rank, for any number of experts, programs, tiles    *)
(* and forwards, and for whatever the router returns: the programs of a    *)
(* persistent kernel never share a tile, a finished plan is the stable     *)
(* expert-major order of its forward, the second kernel reads what the     *)
(* first one has written, and every settled forward put out what its       *)
(* router asked for.                                                       *)
(***************************************************************************)
EXTENDS MoEForward, TLAPS, FiniteSetTheorems, WellFoundedInduction

IsSequence(s) == s \in Seq(Range(s))

\* The claims that are out: of the running kernel only, by programs still in
\* its grid, and behind its counter.
ClaimOpen(p) ==
  /\ stream # <<>> /\ Head(stream).kind \in QueueKernels
  /\ p \in grid
  /\ prog[p] \in Nat /\ prog[p] < dev.counter[Head(stream).kind]

ClaimInv ==
  /\ IsSequence(stream)
  /\ "counter" \in DOMAIN dev /\ dev.counter \in [gather : Nat, down : Nat]
  /\ DOMAIN prog = Program
  /\ \A p \in Program : prog[p] # Idle => ClaimOpen(p)
  /\ ClaimsExclusive

\* A sequence over some set is one over its own elements.
LEMMA SequenceOfItsRange == ASSUME NEW S, NEW s \in Seq(S) PROVE IsSequence(s)
  BY DEF IsSequence, Range

\* Appending keeps the head, and what it appends to may be anything.
LEMMA AppendKeepsHead ==
  ASSUME NEW s, NEW t, IsSequence(s), IsSequence(t)
  PROVE  /\ IsSequence(s \o t)
         /\ s # <<>> => s \o t # <<>> /\ Head(s \o t) = Head(s)
<1>1. s \in Seq(Range(s) \cup Range(t)) /\ t \in Seq(Range(s) \cup Range(t))
  BY DEF IsSequence
<1>2. s \o t \in Seq(Range(s) \cup Range(t))
  BY <1>1
<1>3. IsSequence(s \o t)
  BY <1>2, SequenceOfItsRange
<1>4. s # <<>> => s \o t # <<>> /\ Head(s \o t) = Head(s)
  BY <1>1
<1> QED
  BY <1>3, <1>4

LEMMA TailIsSequence ==
  ASSUME NEW s, IsSequence(s), s # <<>>  PROVE IsSequence(Tail(s))
<1>1. Tail(s) \in Seq(Range(s))
  BY DEF IsSequence
<1> QED
  BY <1>1, SequenceOfItsRange

\* What the host issues leaves the running kernel and its programs alone.
LEMMA IssueKeepsClaims ==
  ASSUME ClaimInv, NEW ops, IsSequence(ops), Issue(ops), prog' = prog,
         "counter" \in DOMAIN dev', dev'.counter = dev.counter
  PROVE  ClaimInv'
<1>1. IsSequence(stream')
  BY AppendKeepsHead DEF ClaimInv, Issue
<1>2. \A p \in Program : prog'[p] # Idle => ClaimOpen(p)'
  <2> SUFFICES ASSUME NEW p \in Program, prog[p] # Idle PROVE ClaimOpen(p)'
    OBVIOUS
  <2>1. ClaimOpen(p)
    BY DEF ClaimInv
  <2>2. grid' = grid
    BY <2>1 DEF Issue, ClaimOpen, Drained
  <2>3. stream' # <<>> /\ Head(stream') = Head(stream)
    BY <2>1, AppendKeepsHead DEF ClaimInv, Issue, ClaimOpen
  <2> QED
    BY <2>1, <2>2, <2>3 DEF ClaimOpen
<1> QED
  BY <1>1, <1>2 DEF ClaimInv, ClaimsExclusive

\* While another operation runs no program holds a tile, so that its end
\* disturbs no claim.
LEMMA OtherOpKeepsClaims ==
  ASSUME ClaimInv, stream # <<>>, Head(stream).kind \notin QueueKernels,
         stream' \in {stream, Tail(stream)}, prog' = prog,
         "counter" \in DOMAIN dev', dev'.counter \in [gather : Nat, down : Nat]
  PROVE  ClaimInv'
<1>1. \A p \in Program : prog[p] = Idle
  BY DEF ClaimInv, ClaimOpen
<1>2. IsSequence(stream')
  BY TailIsSequence DEF ClaimInv
<1> QED
  BY <1>1, <1>2 DEF ClaimInv, ClaimsExclusive

\* A step that touches neither the stream nor the programs nor the counters.
LEMMA IdleStepKeepsClaims ==
  ASSUME ClaimInv, UNCHANGED <<stream, grid, prog, dev>>
  PROVE  ClaimInv'
BY DEF ClaimInv, ClaimOpen, ClaimsExclusive, IsSequence

\* The sequences of operations the host issues.
LEMMA IssuedAreSequences ==
  /\ IsSequence(<<Op("empty", 0)>>)
  /\ \A n : IsSequence(<<Op("zero", n), Op("histogram", n), Op("reserve", n),
                         Op("starts", n), Op("pack", n)>>)
  /\ \A n : IsSequence(<<Op("descriptors", n)>>)
  /\ \A n, m : IsSequence(<<Op("gatherQueue", n), Op("downQueue", m),
                            Op("counters", 0)>>)
  /\ IsSequence(<<Op("event", 0)>> \o (IF rows = <<>> THEN <<>> ELSE Kernels))
  /\ \A n : IsSequence(<<Op("merge", n)>>)
<1>1. \A x : IsSequence(<<x>>)
  <2> SUFFICES ASSUME NEW x PROVE IsSequence(<<x>>)
    OBVIOUS
  <2>1. <<x>> \in Seq({x})
    OBVIOUS
  <2> QED
    BY <2>1, SequenceOfItsRange
<1>2. \A x, y : IsSequence(<<x, y>>)
  <2> SUFFICES ASSUME NEW x, NEW y PROVE IsSequence(<<x, y>>)
    OBVIOUS
  <2>1. <<x, y>> \in Seq({x, y})
    OBVIOUS
  <2> QED
    BY <2>1, SequenceOfItsRange
<1>3. \A x, y, z : IsSequence(<<x, y, z>>)
  <2> SUFFICES ASSUME NEW x, NEW y, NEW z PROVE IsSequence(<<x, y, z>>)
    OBVIOUS
  <2>1. <<x, y, z>> \in Seq({x, y, z})
    OBVIOUS
  <2> QED
    BY <2>1, SequenceOfItsRange
<1>4. \A v, w, x, y, z : IsSequence(<<v, w, x, y, z>>)
  <2> SUFFICES ASSUME NEW v, NEW w, NEW x, NEW y, NEW z
               PROVE  IsSequence(<<v, w, x, y, z>>)
    OBVIOUS
  <2>1. <<v, w, x, y, z>> \in Seq({v, w, x, y, z})
    OBVIOUS
  <2> QED
    BY <2>1, SequenceOfItsRange
<1>5. IsSequence(<<>>)
  <2>1. <<>> \in Seq({})
    OBVIOUS
  <2> QED
    BY <2>1, SequenceOfItsRange
<1>6. IsSequence(IF rows = <<>> THEN <<>> ELSE Kernels)
  BY <1>2, <1>5 DEF Kernels
<1>7. IsSequence(<<Op("event", 0)>> \o (IF rows = <<>> THEN <<>> ELSE Kernels))
  BY <1>1, <1>6, AppendKeepsHead
<1> QED
  BY <1>1, <1>3, <1>4, <1>7

LEMMA HostKeepsClaims == ASSUME ClaimInv, HostStep PROVE ClaimInv'
<1>1. CASE DispatchHost
  BY <1>1, IdleStepKeepsClaims DEF DispatchHost, execVars
<1>2. CASE DispatchTiled
  <2>1. prog' = prog /\ dev' = dev
    BY <1>2 DEF DispatchTiled, execVars
  <2>2. PICK ops : IsSequence(ops) /\ Issue(ops)
    BY <1>2, IssuedAreSequences DEF DispatchTiled
  <2> QED
    BY <2>1, <2>2, IssueKeepsClaims DEF ClaimInv
<1>3. CASE Schedule
  BY <1>3, IdleStepKeepsClaims DEF Schedule
<1>4. CASE RowRaise
  BY <1>4, IdleStepKeepsClaims DEF RowRaise, Raise, execVars
<1>5. CASE RowRun
  BY <1>5, IdleStepKeepsClaims DEF RowRun
<1>6. CASE RowsDone
  BY <1>6, IdleStepKeepsClaims DEF RowsDone, execVars
<1>7. CASE LimitRaise
  BY <1>7, IdleStepKeepsClaims DEF LimitRaise, Raise, execVars
<1>8. CASE Fill
  <2>1. prog' = prog
    BY <1>8 DEF Fill, FillDescriptors
  <2>2. "counter" \in DOMAIN dev' /\ dev'.counter = dev.counter
    BY <1>8 DEF Fill, FillDescriptors, ClaimInv
  <2>3. PICK ops : IsSequence(ops) /\ Issue(ops)
    BY <1>8, IssuedAreSequences DEF Fill
  <2> QED
    BY <2>1, <2>2, <2>3, IssueKeepsClaims
<1>9. CASE Queue
  <2>1. prog' = prog
    BY <1>9 DEF Queue, BuildQueues
  <2>2. "counter" \in DOMAIN dev' /\ dev'.counter = dev.counter
    BY <1>9 DEF Queue, BuildQueues, ClaimInv
  <2>3. PICK ops : IsSequence(ops) /\ Issue(ops)
    BY <1>9, IssuedAreSequences DEF Queue
  <2> QED
    BY <2>1, <2>2, <2>3, IssueKeepsClaims
<1>10. CASE Launch
  <2>1. prog' = prog /\ dev' = dev
    BY <1>10 DEF Launch, execVars
  <2>2. PICK ops : IsSequence(ops) /\ Issue(ops)
    BY <1>10, IssuedAreSequences DEF Launch
  <2> QED
    BY <2>1, <2>2, IssueKeepsClaims DEF ClaimInv
<1>11. CASE Merge
  <2>1. prog' = prog /\ dev' = dev
    BY <1>11 DEF Merge, execVars
  <2>2. PICK ops : IsSequence(ops) /\ Issue(ops)
    BY <1>11, IssuedAreSequences DEF Merge
  <2> QED
    BY <2>1, <2>2, IssueKeepsClaims DEF ClaimInv
<1> QED
  BY <1>1, <1>2, <1>3, <1>4, <1>5, <1>6, <1>7, <1>8, <1>9, <1>10, <1>11
  DEF HostStep

\* The operations that are no persistent kernel.
LEMMA OtherOpsKeepClaims ==
  ASSUME ClaimInv,
         (\E t \in grid : TileProgram(t)) \/ DispatchOp \/ CopyOp \/ EventOp \/ MergeOp
  PROVE  ClaimInv'
<1>1. CASE \E t \in grid : TileProgram(t)
  <2>1. PICK t \in grid : TileProgram(t)
    BY <1>1
  <2>2. prog' = prog /\ dev' = dev
    BY <2>1 DEF TileProgram, execVars
  <2>3. stream # <<>> /\ Head(stream).kind \notin QueueKernels
    BY <2>1 DEF TileProgram, Running, Drained, QueueKernels
  <2>4. stream' \in {stream, Tail(stream)}
    BY <2>1 DEF TileProgram, ProgramEnds, Pop
  <2> QED
    BY <2>2, <2>3, <2>4, OtherOpKeepsClaims DEF ClaimInv
<1>2. CASE DispatchOp
  <2>1. prog' = prog /\ dev' = dev /\ stream' = Tail(stream)
    BY <1>2 DEF DispatchOp, Pop, execVars
  <2>2. stream # <<>> /\ Head(stream).kind \notin QueueKernels
    BY <1>2 DEF DispatchOp, Running, Drained, QueueKernels
  <2> QED
    BY <2>1, <2>2, OtherOpKeepsClaims DEF ClaimInv
<1>3. CASE CopyOp
  <2>1. stream' = Tail(stream)
    BY <1>3 DEF CopyOp, Pop
  <2>2. stream # <<>> /\ Head(stream).kind \notin QueueKernels
    BY <1>3 DEF CopyOp, Running, Drained, QueueKernels
  <2>3. prog' = prog
    BY <1>3 DEF CopyOp, CopyIn, ZeroCounters
  <2>4. "counter" \in DOMAIN dev' /\ dev'.counter \in [gather : Nat, down : Nat]
    <3>1. CASE ZeroCounters
      BY <3>1 DEF ZeroCounters, ClaimInv
    <3>2. CASE \E field \in {"descriptors", "gather", "down"} :
                 CopyIn(field, Head(stream).size)
      BY <3>2 DEF CopyIn, ClaimInv
    <3> QED
      BY <1>3, <3>1, <3>2 DEF CopyOp
  <2> QED
    BY <2>1, <2>2, <2>3, <2>4, OtherOpKeepsClaims
<1>4. CASE EventOp
  <2>1. prog' = prog /\ dev' = dev /\ stream' = Tail(stream)
    BY <1>4 DEF EventOp, Pop, execVars
  <2>2. stream # <<>> /\ Head(stream).kind \notin QueueKernels
    BY <1>4 DEF EventOp, Running, Drained, QueueKernels
  <2> QED
    BY <2>1, <2>2, OtherOpKeepsClaims DEF ClaimInv
<1>5. CASE MergeOp
  <2>1. prog' = prog /\ dev' = dev /\ stream' = Tail(stream)
    BY <1>5 DEF MergeOp, Pop, execVars
  <2>2. stream # <<>> /\ Head(stream).kind \notin QueueKernels
    BY <1>5 DEF MergeOp, Running, Drained, QueueKernels
  <2> QED
    BY <2>1, <2>2, OtherOpKeepsClaims DEF ClaimInv
<1> QED
  BY <1>1, <1>2, <1>3, <1>4, <1>5

\* A claim takes the counter's value, which is above every claim still out.
LEMMA ClaimKeepsClaims ==
  ASSUME ClaimInv, NEW p \in Program, ClaimTile(p)  PROVE ClaimInv'
<1>1. PICK kernel \in QueueKernels : p \in grid /\ Running(kernel) /\ Claim(p, kernel)
  BY DEF ClaimTile
<1>2. UNCHANGED <<stream, grid>>
  BY DEF ClaimTile, hostVars
<1>3. stream # <<>> /\ Head(stream).kind = kernel
  BY <1>1 DEF Running, Drained
<1>4. /\ DOMAIN prog' = Program /\ prog'[p] = dev.counter[kernel]
      /\ \A q \in Program \ {p} : prog'[q] = prog[q]
  BY <1>1 DEF Claim, ClaimInv
<1>5. dev.counter[kernel] \in Nat
  BY DEF ClaimInv, QueueKernels
<1>6. /\ "counter" \in DOMAIN dev' /\ dev'.counter \in [gather : Nat, down : Nat]
      /\ dev'.counter[kernel] = dev.counter[kernel] + 1
  <2>1. "counter" \in DOMAIN dev'
        /\ dev'.counter = [dev.counter EXCEPT ![kernel] = @ + 1]
    BY <1>1 DEF Claim, ClaimInv
  <2> QED
    BY <2>1 DEF ClaimInv, QueueKernels
<1>7. \A q \in Program \ {p} : prog[q] # Idle =>
        prog[q] \in Nat /\ prog[q] < dev.counter[kernel]
  BY <1>3 DEF ClaimInv, ClaimOpen
<1>8. \A q \in Program : prog'[q] # Idle => ClaimOpen(q)'
  <2> SUFFICES ASSUME NEW q \in Program, prog'[q] # Idle PROVE ClaimOpen(q)'
    OBVIOUS
  <2>1. q \in grid
    BY <1>1, <1>4 DEF ClaimInv, ClaimOpen
  <2>2. prog'[q] \in Nat /\ prog'[q] < dev.counter[kernel] + 1
    BY <1>4, <1>5, <1>7
  <2> QED
    BY <1>2, <1>3, <1>6, <2>1, <2>2 DEF ClaimOpen
<1>9. ClaimsExclusive'
  <2> SUFFICES ASSUME NEW q \in Program, NEW r \in Program, q # r, prog'[q] # Idle
               PROVE  prog'[q] # prog'[r]
    BY DEF ClaimsExclusive, Idle
  <2>1. CASE q = p
    BY <2>1, <1>4, <1>5, <1>7 DEF Idle
  <2>2. CASE r = p
    BY <2>2, <1>4, <1>5, <1>7 DEF Idle
  <2>3. CASE q # p /\ r # p
    BY <2>3, <1>4 DEF ClaimInv, ClaimsExclusive
  <2> QED
    BY <2>1, <2>2, <2>3
<1> QED
  BY <1>2, <1>4, <1>6, <1>8, <1>9 DEF ClaimInv, IsSequence

\* A program that lets go of its tile, and the end of the last one.
LEMMA ReleaseKeepsClaims ==
  ASSUME ClaimInv, NEW p \in Program, p \in grid, Release(p), dev' = dev,
         \/ UNCHANGED <<stream, grid>>
         \/ ProgramEnds(p) /\ stream # <<>>
  PROVE  ClaimInv'
<1>1. /\ DOMAIN prog' = Program /\ prog'[p] = Idle
      /\ \A q \in Program \ {p} : prog'[q] = prog[q]
  BY DEF Release, ClaimInv
<1>2. IsSequence(stream')
  BY TailIsSequence DEF ClaimInv, ProgramEnds, Pop, IsSequence
<1>3. \A q \in Program : prog'[q] # Idle => ClaimOpen(q)'
  <2> SUFFICES ASSUME NEW q \in Program, prog'[q] # Idle PROVE ClaimOpen(q)'
    OBVIOUS
  <2>1. q # p /\ prog'[q] = prog[q] /\ ClaimOpen(q)
    BY <1>1 DEF ClaimInv
  <2>2. grid # {p}
    BY <2>1 DEF ClaimOpen
  <2>3. stream' = stream /\ q \in grid'
    BY <2>1, <2>2 DEF ClaimOpen, ProgramEnds
  <2> QED
    BY <2>1, <2>3 DEF ClaimOpen
<1>4. ClaimsExclusive'
  BY <1>1 DEF ClaimInv, ClaimsExclusive
<1> QED
  BY <1>1, <1>2, <1>3, <1>4 DEF ClaimInv

LEMMA DeviceKeepsClaims == ASSUME ClaimInv, DeviceStep PROVE ClaimInv'
<1>1. CASE (\E t \in grid : TileProgram(t)) \/ DispatchOp \/ CopyOp \/ EventOp \/ MergeOp
  BY <1>1, OtherOpsKeepClaims
<1>2. ASSUME NEW p \in Program, ClaimTile(p) PROVE ClaimInv'
  BY <1>2, ClaimKeepsClaims
<1>3. ASSUME NEW p \in Program, WorkTile(p) PROVE ClaimInv'
  <2>1. p \in grid /\ UNCHANGED <<stream, grid>>
    BY <1>3 DEF WorkTile, hostVars
  <2>2. Release(p) /\ dev' = dev
    BY <1>3 DEF WorkTile, GatherTile, DownTile
  <2> QED
    BY <2>1, <2>2, ReleaseKeepsClaims
<1>4. ASSUME NEW p \in Program, ExitKernel(p) PROVE ClaimInv'
  <2>1. p \in grid /\ Release(p) /\ ProgramEnds(p) /\ dev' = dev
    BY <1>4 DEF ExitKernel
  <2>2. stream # <<>>
    BY <1>4 DEF ExitKernel, Running, Drained
  <2> QED
    BY <2>1, <2>2, ReleaseKeepsClaims
<1> QED
  BY <1>1, <1>2, <1>3, <1>4 DEF DeviceStep


LEMMA ClaimInvInit == Init => ClaimInv
<1> SUFFICES ASSUME Init PROVE ClaimInv
  OBVIOUS
<1>1. IsSequence(stream)
  <2>1. stream \in Seq({})
    BY DEF Init
  <2> QED
    BY <2>1, SequenceOfItsRange
<1>2. "counter" \in DOMAIN dev /\ dev.counter \in [gather : Nat, down : Nat]
  BY DEF Init, ExecInit
<1>3. DOMAIN prog = Program /\ \A p \in Program : prog[p] = Idle
  BY DEF Init, ExecInit
<1> QED
  BY <1>1, <1>2, <1>3 DEF ClaimInv, ClaimsExclusive

LEMMA ClaimInvNext == ClaimInv /\ [Next]_vars => ClaimInv'
<1> SUFFICES ASSUME ClaimInv, [Next]_vars PROVE ClaimInv'
  OBVIOUS
<1>1. ASSUME NEW f \in Routing, StartForward(f) PROVE ClaimInv'
  BY <1>1, IdleStepKeepsClaims DEF StartForward, execVars
<1>2. CASE HostStep
  BY <1>2, HostKeepsClaims
<1>3. CASE DeviceStep
  BY <1>3, DeviceKeepsClaims
<1>4. CASE UNCHANGED vars
  BY <1>4, IdleStepKeepsClaims DEF vars, hostVars, execVars
<1> QED
  BY <1>1, <1>2, <1>3, <1>4 DEF Next

(* No two programs of a persistent kernel ever work on one tile, whatever  *)
(* the number of programs, experts, blocks and forwards                    *)
(* (executor/kernels/persistent.py:264).                                   *)
THEOREM TilesClaimedOnce == Spec => []ClaimsExclusive
<1>1. ClaimInv => ClaimsExclusive
  BY DEF ClaimInv
<1> QED
  BY ClaimInvInit, ClaimInvNext, <1>1, PTL DEF Spec

-----------------------------------------------------------------------------
(* Smallest members, and sums.                                             *)

\* A set of numbers that is not empty has a least one.
LEMMA FirstNumber ==
  ASSUME NEW T, T \subseteq Nat, T # {}
  PROVE  \E n \in T : \A m \in T : n <= m
<1>1. PICK n \in T : \A m \in T : ~ (<<m, n>> \in OpToRel(<, Nat))
  BY NatLessThanWellFounded, WFMin
<1>2. ASSUME NEW m \in T, m < n PROVE FALSE
  BY <1>1, <1>2 DEF OpToRel
<1> QED BY <1>2

\* A set of finite sets that is not empty has a smallest one.
LEMMA SmallestSubset ==
  ASSUME NEW S, IsFiniteSet(S), NEW T, T \subseteq SUBSET S, T # {}
  PROVE  \E U \in T : \A V \in T : V \subseteq U => V = U
<1>1. FiniteSubsetsOf(S) = SUBSET S
  BY FS_FiniteSubsetsOfFinite
<1>2. IsWellFoundedOn(StrictSubsetOrdering(S), SUBSET S)
  BY <1>1, FS_StrictSubsetOrderingWellFounded
<1>3. PICK U \in T : \A V \in T : ~(<<V, U>> \in StrictSubsetOrdering(S))
  BY <1>2, WFMin
<1>4. ASSUME NEW V \in T, V \subseteq U PROVE V = U
  BY <1>3, <1>4 DEF StrictSubsetOrdering
<1> QED BY <1>4

First(s) == CHOOSE x \in s : TRUE

\* f is the table of the sums of w over the subsets of T that the fold builds.
SumTable(w, f, T) ==
  f = [s \in SUBSET T |->
         IF s = {} THEN 0 ELSE w[First(s)] + f[s \ {First(s)}]]

Total(w, S) == (CHOOSE f : SumTable(w, f, S))[S]

\* What a fold with + over a set of numbers comes to.
LEMMA FoldIsTotal ==
  \A w, S : FoldFunctionOnSet(+, 0, w, S) = Total(w, S)
BY DEF FoldFunctionOnSet, MapThenFoldSet, SumTable, First, Total

\* The offsets add up the counts of the experts below.
LEMMA OffsetsAreTotals ==
  ASSUME NEW c PROVE Offsets(c) = [e \in 0 .. NumExperts |-> Total(c, Index(e))]
BY DEF Offsets, FoldFunctionOnSet, MapThenFoldSet, SumTable, First, Total

\* The element a choice takes is one.
LEMMA FirstIn == ASSUME NEW s, s # {} PROVE First(s) \in s
BY DEF First

\* What a table of partial sums holds.
LEMMA TableAt ==
  ASSUME NEW w, NEW T, NEW f, SumTable(w, f, T), NEW s \in SUBSET T
  PROVE  f[s] = IF s = {} THEN 0 ELSE w[First(s)] + f[s \ {First(s)}]
BY DEF SumTable

\* Two tables agree wherever both are defined.
LEMMA TablesAgree ==
  ASSUME NEW w, NEW S, IsFiniteSet(S), NEW T \in SUBSET S,
         NEW f, NEW g, SumTable(w, f, S), SumTable(w, g, T), NEW s \in SUBSET T
  PROVE  f[s] = g[s]
<1> DEFINE Bad == {r \in SUBSET T : f[r] # g[r]}
<1> SUFFICES ASSUME Bad # {} PROVE FALSE
  OBVIOUS
<1>0. IsFiniteSet(T) /\ Bad \subseteq SUBSET T
  BY FS_Subset
<1>1. PICK u \in Bad : \A v \in Bad : v \subseteq u => v = u
  <2> HIDE DEF Bad
  <2> QED BY <1>0, SmallestSubset
<1>2. /\ f[u] = IF u = {} THEN 0 ELSE w[First(u)] + f[u \ {First(u)}]
      /\ g[u] = IF u = {} THEN 0 ELSE w[First(u)] + g[u \ {First(u)}]
  <2>1. u \in SUBSET T /\ u \in SUBSET S
    OBVIOUS
  <2> HIDE DEF Bad
  <2>2. f[u] = IF u = {} THEN 0 ELSE w[First(u)] + f[u \ {First(u)}]
    BY <2>1, TableAt
  <2>3. g[u] = IF u = {} THEN 0 ELSE w[First(u)] + g[u \ {First(u)}]
    BY <2>1, TableAt
  <2> QED BY <2>2, <2>3
<1>3. u # {}
  BY <1>2
<1>4. u \ {First(u)} \subseteq u /\ u \ {First(u)} # u
  BY <1>3, FirstIn
<1>5. f[u \ {First(u)}] = g[u \ {First(u)}]
  BY <1>1, <1>4
<1> QED BY <1>1, <1>2, <1>3, <1>5

\* Every finite set of summands has such a table.
LEMMA TablesExist ==
  ASSUME NEW w, NEW S, IsFiniteSet(S)
  PROVE  \E f : SumTable(w, f, S)
<1> DEFINE Bad == {r \in SUBSET S : ~ \E f : SumTable(w, f, r)}
           G(r) == CHOOSE f : SumTable(w, f, r)
<1> SUFFICES ASSUME Bad # {} PROVE FALSE
  OBVIOUS
<1>1. PICK u \in Bad : \A v \in Bad : v \subseteq u => v = u
  <2>1. Bad \subseteq SUBSET S
    OBVIOUS
  <2> HIDE DEF Bad
  <2> QED BY <2>1, SmallestSubset
<1>2. \A r : r \subseteq u /\ r # u => SumTable(w, G(r), r)
  BY <1>1
<1>3. \A r, t : r \subseteq t /\ t \subseteq u /\ t # u => G(t)[r] = G(r)[r]
  <2> SUFFICES ASSUME NEW r, NEW t, r \subseteq t, t \subseteq u, t # u
               PROVE  G(t)[r] = G(r)[r]
    OBVIOUS
  <2>1. IsFiniteSet(t)
    BY FS_Subset
  <2>2. SumTable(w, G(t), t) /\ SumTable(w, G(r), r)
    BY <1>2
  <2> HIDE DEF G
  <2> QED BY <2>1, <2>2, TablesAgree
<1> HIDE DEF G
<1> DEFINE h == [s \in SUBSET u |->
                   IF s = {} THEN 0
                   ELSE w[First(s)] + G(s \ {First(s)})[s \ {First(s)}]]
<1>4. ASSUME NEW r \in SUBSET u, r # u PROVE h[r] = G(r)[r]
  <2>1. SumTable(w, G(r), r)
    BY <1>2, <1>4
  <2>2. CASE r = {}
    <3>1. G(r)[r] = 0
      BY <2>1, <2>2, TableAt
    <3> QED BY <2>2, <3>1
  <2>3. CASE r # {}
    <3>1. h[r] = w[First(r)] + G(r \ {First(r)})[r \ {First(r)}]
      BY <2>3
    <3>2. G(r)[r] = w[First(r)] + G(r)[r \ {First(r)}]
      BY <2>1, <2>3, TableAt
    <3>3. G(r)[r \ {First(r)}] = G(r \ {First(r)})[r \ {First(r)}]
      BY <1>3, <1>4
    <3> QED BY <3>1, <3>2, <3>3
  <2> QED BY <2>2, <2>3
<1>5. ASSUME NEW s \in SUBSET u, s # {}
      PROVE  h[s \ {First(s)}] = G(s \ {First(s)})[s \ {First(s)}]
  <2>1. s \ {First(s)} \in SUBSET u /\ s \ {First(s)} # u
    BY <1>5, FirstIn
  <2> HIDE DEF h
  <2> QED BY <2>1, <1>4
<1>6. SumTable(w, h, u)
  BY <1>5 DEF SumTable
<1> QED BY <1>1, <1>6

\* A sum with its chosen element taken out.
LEMMA TotalStep ==
  ASSUME NEW w, NEW S, IsFiniteSet(S)
  PROVE  Total(w, S) = IF S = {} THEN 0 ELSE w[First(S)] + Total(w, S \ {First(S)})
<1> DEFINE G(r) == CHOOSE f : SumTable(w, f, r)
           r0 == S \ {First(S)}
<1>1. IsFiniteSet(r0)
  BY FS_Subset
<1>2. SumTable(w, G(S), S) /\ SumTable(w, G(r0), r0)
  BY <1>1, TablesExist
<1>3. Total(w, S) = G(S)[S] /\ Total(w, r0) = G(r0)[r0]
  BY DEF Total
<1> HIDE DEF G
<1>4. r0 \in SUBSET S
  OBVIOUS
<1>5. G(S)[S] = IF S = {} THEN 0 ELSE w[First(S)] + G(S)[r0]
  BY <1>2, TableAt
<1> HIDE DEF r0
<1>6. G(S)[r0] = G(r0)[r0]
  BY <1>2, <1>4, TablesAgree
<1> QED BY <1>3, <1>5, <1>6 DEF r0

\* A sum of numbers is a number.
LEMMA TotalType ==
  ASSUME NEW w, NEW S, IsFiniteSet(S), \A x \in S : w[x] \in Nat
  PROVE  Total(w, S) \in Nat
<1> DEFINE Bad == {r \in SUBSET S : Total(w, r) \notin Nat}
<1> SUFFICES ASSUME Bad # {} PROVE FALSE
  OBVIOUS
<1>1. PICK u \in Bad : \A v \in Bad : v \subseteq u => v = u
  <2>1. Bad \subseteq SUBSET S
    OBVIOUS
  <2> HIDE DEF Bad
  <2> QED BY <2>1, SmallestSubset
<1>2. IsFiniteSet(u) /\ u \in SUBSET S
  BY FS_Subset
<1>3. Total(w, u) = IF u = {} THEN 0 ELSE w[First(u)] + Total(w, u \ {First(u)})
  BY <1>2, TotalStep
<1>4. u # {}
  BY <1>1, <1>3
<1>5. First(u) \in u
  BY <1>4, FirstIn
<1>6. Total(w, u \ {First(u)}) \in Nat
  BY <1>1, <1>5
<1>7. w[First(u)] \in Nat
  BY <1>2, <1>5
<1> QED BY <1>1, <1>3, <1>4, <1>6, <1>7

\* In whatever order the fold takes the members, each counts once.
LEMMA TotalRemove ==
  ASSUME NEW w, NEW S, IsFiniteSet(S), \A x \in S : w[x] \in Nat, NEW e \in S
  PROVE  Total(w, S) = w[e] + Total(w, S \ {e})
<1> DEFINE Bad == {r \in SUBSET S : \E x \in r : Total(w, r) # w[x] + Total(w, r \ {x})}
<1> SUFFICES ASSUME Bad # {} PROVE FALSE
  OBVIOUS
<1>1. PICK u \in Bad : \A v \in Bad : v \subseteq u => v = u
  <2>1. Bad \subseteq SUBSET S
    OBVIOUS
  <2> HIDE DEF Bad
  <2> QED BY <2>1, SmallestSubset
<1>2. PICK x \in u : Total(w, u) # w[x] + Total(w, u \ {x})
  OBVIOUS
<1>3. u # {} /\ u \in SUBSET S
  BY <1>2
<1> DEFINE y == First(u)
<1>4. y \in u
  BY <1>3, FirstIn
<1>5. /\ IsFiniteSet(u) /\ IsFiniteSet(u \ {x}) /\ IsFiniteSet(u \ {y})
      /\ IsFiniteSet((u \ {x}) \ {y})
  BY <1>3, FS_Subset
<1>6. Total(w, u) = w[y] + Total(w, u \ {y})
  BY <1>3, <1>5, TotalStep
<1> HIDE DEF y
<1>7. x # y
  BY <1>2, <1>6
<1>0. ASSUME NEW v \in SUBSET u, v # u, NEW z \in v
      PROVE  Total(w, v) = w[z] + Total(w, v \ {z})
  <2>1. v \notin Bad /\ v \in SUBSET S
    BY <1>0, <1>1, <1>3
  <2> QED BY <2>1
<1>8. Total(w, u \ {y}) = w[x] + Total(w, (u \ {y}) \ {x})
  BY <1>0, <1>4, <1>7
<1>9. Total(w, u \ {x}) = w[y] + Total(w, (u \ {x}) \ {y})
  BY <1>0, <1>2, <1>4, <1>7
<1>10. (u \ {y}) \ {x} = (u \ {x}) \ {y}
  OBVIOUS
<1>11. w[x] \in Nat /\ w[y] \in Nat
  BY <1>3, <1>4
<1>12. Total(w, (u \ {x}) \ {y}) \in Nat
  <2>1. \A z \in (u \ {x}) \ {y} : w[z] \in Nat
    BY <1>3
  <2> QED BY <1>5, <2>1, TotalType
<1> HIDE DEF Bad
<1>13. PICK i \in Nat, j \in Nat, k \in Nat :
         i = w[x] /\ j = w[y] /\ k = Total(w, (u \ {x}) \ {y})
  BY <1>11, <1>12
<1>14. Total(w, u \ {y}) = i + k /\ Total(w, u \ {x}) = j + k
  BY <1>8, <1>9, <1>10, <1>13
<1>15. Total(w, u) = j + (i + k)
  BY <1>6, <1>13, <1>14
<1>16. Total(w, u) # i + (j + k)
  BY <1>2, <1>13, <1>14
<1> QED BY ONLY <1>13, <1>15, <1>16

\* The indices below a number are finitely many.
LEMMA Finite == \A n \in Nat : IsFiniteSet(Index(n)) /\ Cardinality(Index(n)) = n
<1> SUFFICES ASSUME NEW n \in Nat PROVE IsFiniteSet(Index(n)) /\ Cardinality(Index(n)) = n
  OBVIOUS
<1>1. n - 1 \in Int
  OBVIOUS
<1> QED BY <1>1, FS_Interval DEF Index

Level(D, g, m) == {i \in D : g[i] = m}
Under(D, g, n) == {i \in D : g[i] < n}

(* If w counts, for every number, the members of D that g maps to it, the  *)
(* sums of w below n count the members g maps below n.                     *)
LEMMA CountBelow ==
  ASSUME NEW D, IsFiniteSet(D), NEW g \in [D -> Nat], NEW N \in Nat, NEW w,
         \A m \in Index(N) : w[m] = Cardinality(Level(D, g, m))
  PROVE  \A n \in 0 .. N :
           /\ Total(w, Index(n)) = Cardinality(Under(D, g, n))
           /\ Total(w, Index(n)) \in Nat
<1> DEFINE B(n) == Under(D, g, n)
           L(m) == Level(D, g, m)
           Bad == {n \in 0 .. N : Total(w, Index(n)) # Cardinality(B(n))}
<1>0. \A n : /\ IsFiniteSet(B(n)) /\ Cardinality(B(n)) \in Nat
             /\ IsFiniteSet(L(n)) /\ Cardinality(L(n)) \in Nat
  <2> SUFFICES ASSUME NEW n
               PROVE  /\ IsFiniteSet(B(n)) /\ Cardinality(B(n)) \in Nat
                      /\ IsFiniteSet(L(n)) /\ Cardinality(L(n)) \in Nat
    OBVIOUS
  <2>1. B(n) \in SUBSET D /\ L(n) \in SUBSET D
    BY DEF Level, Under
  <2>2. IsFiniteSet(B(n)) /\ IsFiniteSet(L(n))
    BY <2>1, FS_Subset
  <2> QED BY <2>2, FS_CardinalityType
<1> SUFFICES ASSUME Bad # {} PROVE FALSE
  <2>1. \A n \in 0 .. N : Total(w, Index(n)) = Cardinality(B(n))
    OBVIOUS
  <2> QED BY <1>0, <2>1
<1>1. PICK n \in Bad : \A m \in Bad : n <= m
  <2>1. Bad \subseteq Nat
    OBVIOUS
  <2> HIDE DEF Bad
  <2> QED BY <2>1, FirstNumber
<1>2. n # 0
  <2>1. Index(0) = {} /\ B(0) = {}
    BY DEF Index, Under
  <2>2. Total(w, Index(0)) = 0
    BY <2>1, TotalStep, FS_EmptySet
  <2>3. Cardinality(B(0)) = 0
    BY <2>1, FS_EmptySet
  <2> QED BY <1>1, <2>2, <2>3
<1> DEFINE p == n - 1
<1>3. p \in Nat /\ p \in 0 .. N /\ p \in Index(N) /\ n = p + 1 /\ p < n
  BY <1>1, <1>2 DEF Index
<1>4. Total(w, Index(p)) = Cardinality(B(p))
  BY <1>1, <1>3
<1>5. \A x \in Index(n) : x \in Index(N)
  BY <1>1 DEF Index
<1>6. \A x \in Index(n) : w[x] = Cardinality(L(x)) /\ w[x] \in Nat
  <2> SUFFICES ASSUME NEW x \in Index(n)
               PROVE  w[x] = Cardinality(L(x)) /\ w[x] \in Nat
    OBVIOUS
  <2>1. w[x] = Cardinality(L(x))
    BY <1>5
  <2>2. Cardinality(L(x)) \in Nat
    BY <1>0
  <2> HIDE DEF L
  <2> QED BY <2>1, <2>2
<1>7. Index(n) \ {p} = Index(p) /\ p \in Index(n)
  BY <1>3 DEF Index
<1>8. n \in Nat
  BY <1>1
<1> HIDE DEF p, B, L, Bad
<1>9. Total(w, Index(n)) = w[p] + Total(w, Index(p))
  BY <1>6, <1>7, <1>8, Finite, TotalRemove
<1>10. B(n) = B(p) \cup L(p) /\ B(p) \cap L(p) = {}
  BY <1>3 DEF B, L, Level, Under
<1>11. Cardinality(B(n)) = Cardinality(B(p)) + Cardinality(L(p))
  <2>1. Cardinality(B(p) \cup L(p)) =
          Cardinality(B(p)) + Cardinality(L(p)) - Cardinality(B(p) \cap L(p))
    BY <1>0, FS_Union
  <2>2. Cardinality(B(p) \cap L(p)) = 0
    BY <1>10, FS_EmptySet
  <2> QED BY <1>0, <1>10, <2>1, <2>2
<1>12. w[p] = Cardinality(L(p))
  BY <1>6, <1>7
<1>13. Total(w, Index(n)) = Cardinality(B(n))
  BY <1>0, <1>4, <1>9, <1>11, <1>12
<1> QED BY <1>1, <1>13 DEF Bad

-----------------------------------------------------------------------------
(* The stable order of a routing, counted in four ways.                    *)

Below(f, e) == {i \in DOMAIN f : f[i] < e}
Before(f, i) == {j \in DOMAIN f : f[j] < f[i] \/ (f[j] = f[i] /\ j < i)}
Equal(f, e) == {i \in DOMAIN f : f[i] = e}

\* The experts are the numbers below their count.
LEMMA ExpertsAre == /\ NumExperts \in Nat /\ Expert \subseteq Nat /\ NumExperts > 0
                    /\ \A e \in Expert : e < NumExperts /\ e + 1 \in 0 .. NumExperts /\ e \in 0 .. NumExperts
BY DispatcherAssumption DEF Expert

\* What is counted is finite, and fewer are no more.
LEMMA Fewer ==
  ASSUME NEW n \in Nat, NEW S \in SUBSET Index(n)
  PROVE  /\ IsFiniteSet(S) /\ Cardinality(S) \in Nat /\ Cardinality(S) <= n
         /\ \A T \in SUBSET S : /\ IsFiniteSet(T) /\ Cardinality(T) \in Nat
                                /\ Cardinality(T) <= Cardinality(S)
         /\ \A T \in SUBSET S, i \in S : i \notin T => Cardinality(T) + 1 <= Cardinality(S)
<1>1. IsFiniteSet(Index(n)) /\ Cardinality(Index(n)) = n
  BY Finite
<1>2. IsFiniteSet(S) /\ Cardinality(S) <= n
  BY <1>1, FS_Subset
<1>3. Cardinality(S) \in Nat
  BY <1>2, FS_CardinalityType
<1>4. \A T \in SUBSET S : /\ IsFiniteSet(T) /\ Cardinality(T) \in Nat
                          /\ Cardinality(T) <= Cardinality(S)
  BY <1>2, FS_Subset, FS_CardinalityType
<1>5. ASSUME NEW T \in SUBSET S, NEW i \in S, i \notin T
      PROVE  Cardinality(T) + 1 <= Cardinality(S)
  <2>1. Cardinality(T \cup {i}) = Cardinality(T) + 1
    BY <1>4, <1>5, FS_AddElement
  <2>2. T \cup {i} \in SUBSET S
    OBVIOUS
  <2> QED BY <1>4, <2>1, <2>2
<1> QED BY <1>2, <1>3, <1>4, <1>5

\* Two parts without a common member.
LEMMA Parts ==
  ASSUME NEW n \in Nat, NEW S \in SUBSET Index(n), NEW T \in SUBSET Index(n), S \cap T = {}
  PROVE  Cardinality(S \cup T) = Cardinality(S) + Cardinality(T)
<1>1. IsFiniteSet(S) /\ IsFiniteSet(T) /\ Cardinality(S) \in Nat /\ Cardinality(T) \in Nat
  BY Fewer
<1>2. Cardinality(S \cup T) = Cardinality(S) + Cardinality(T) - Cardinality(S \cap T)
  BY <1>1, FS_Union
<1>3. Cardinality(S \cap T) = 0
  BY FS_EmptySet
<1> QED BY <1>1, <1>2, <1>3

\* The histogram counts each expert in the assignments.
LEMMA HistogramIs ==
  ASSUME NEW n \in Nat, NEW f \in [Index(n) -> Expert]
  PROVE  /\ Histogram(f) \in [Expert -> Nat]
         /\ \A e \in Expert : Histogram(f)[e] = Cardinality(Equal(f, e))
<1>1. \A e : Equal(f, e) \in SUBSET Index(n)
  BY DEF Equal
<1>2. \A e : Cardinality(Equal(f, e)) \in Nat
  BY <1>1, Fewer
<1>3. Histogram(f) = [e \in Expert |-> Cardinality(Equal(f, e))]
  BY DEF Histogram, Equal
<1> QED BY <1>2, <1>3

\* The offsets count the assignments to the experts before.
LEMMA OffsetsAre ==
  ASSUME NEW n \in Nat, NEW f \in [Index(n) -> Expert]
  PROVE  /\ Offsets(Histogram(f)) \in [0 .. NumExperts -> Nat]
         /\ \A e \in 0 .. NumExperts :
              /\ Offsets(Histogram(f))[e] = Cardinality(Below(f, e))
              /\ Cardinality(Below(f, e)) \in Nat
<1> DEFINE w == Histogram(f)
           D == Index(n)
<1>1. IsFiniteSet(D) /\ f \in [D -> Nat] /\ DOMAIN f = D
  BY Finite, ExpertsAre
<1>2. Index(NumExperts) = Expert /\ NumExperts \in Nat
  BY ExpertsAre DEF Index, Expert
<1>3. \A m \in Index(NumExperts) : w[m] = Cardinality(Level(D, f, m))
  <2>1. \A e \in Expert : w[e] = Cardinality(Equal(f, e))
    BY HistogramIs
  <2>2. \A e : Equal(f, e) = Level(D, f, e)
    BY <1>1 DEF Equal, Level
  <2> HIDE DEF w, D
  <2> QED BY <1>2, <2>1, <2>2
<1>4. Offsets(w) = [e \in 0 .. NumExperts |-> Total(w, Index(e))]
  BY OffsetsAreTotals
<1> HIDE DEF w, D
<1>5. \A e \in 0 .. NumExperts :
        /\ Total(w, Index(e)) = Cardinality(Under(D, f, e))
        /\ Total(w, Index(e)) \in Nat
  BY <1>1, <1>2, <1>3, CountBelow
<1>6. \A e : Below(f, e) = Under(D, f, e)
  BY <1>1 DEF Below, Under
<1>7. \A e \in 0 .. NumExperts : /\ Offsets(w)[e] = Cardinality(Below(f, e))
                                 /\ Cardinality(Below(f, e)) \in Nat
  BY <1>4, <1>5, <1>6
<1>8. Offsets(w) \in [0 .. NumExperts -> Nat]
  BY <1>4, <1>5
<1> QED BY <1>7, <1>8 DEF w

\* What comes before an assignment: the lower experts, and its own so far.
LEMMA BeforeIs ==
  ASSUME NEW n \in Nat, NEW f \in [Index(n) -> Expert]
  PROVE  /\ \A i : Before(f, i) \in SUBSET Index(n)
         /\ \A e : Below(f, e) \in SUBSET Index(n)
         /\ DOMAIN f = Index(n) /\ Index(n) \subseteq Nat
         /\ \A i \in Index(n) : i \notin Before(f, i) /\ f[i] \in Nat
<1>1. DOMAIN f = Index(n) /\ Index(n) \subseteq Nat
  BY DEF Index
<1>2. \A i \in Index(n) : f[i] \in Nat
  BY ExpertsAre
<1>3. \A i : Before(f, i) \in SUBSET Index(n)
  BY <1>1 DEF Before
<1>4. \A e : Below(f, e) \in SUBSET Index(n)
  BY <1>1 DEF Below
<1>5. ASSUME NEW i \in Index(n) PROVE i \notin Before(f, i)
  <2>1. f[i] \in Nat /\ i \in Nat
    BY <1>1, <1>2
  <2>2. ~(f[i] < f[i]) /\ ~(i < i)
    BY <2>1
  <2> QED BY <2>2 DEF Before
<1> QED BY <1>1, <1>2, <1>3, <1>4, <1>5

(* The places are a permutation of the slots, and those of one expert are  *)
(* the slots from its offset to the next.                                  *)
LEMMA PlacesAre ==
  ASSUME NEW n \in Nat, NEW f \in [Index(n) -> Expert]
  PROVE  LET place == StablePlace(f) IN
         /\ place \in [Index(n) -> Index(n)]
         /\ \A i \in Index(n) : place[i] = Cardinality(Before(f, i))
         /\ \A i, j \in Index(n) : place[i] = place[j] => i = j
         /\ \A s \in Index(n) : \E i \in Index(n) : place[i] = s
         /\ \A i \in Index(n) : /\ Cardinality(Below(f, f[i])) <= place[i]
                                /\ place[i] < Cardinality(Below(f, f[i] + 1))
<1> DEFINE place == StablePlace(f)
<1>1. place = [i \in Index(n) |-> Cardinality(Before(f, i))]
  BY BeforeIs DEF StablePlace, Before
<1> HIDE DEF place
<1>2. \A i \in Index(n) : /\ Cardinality(Before(f, i)) \in Nat
                          /\ Cardinality(Before(f, i)) + 1 <= n
  <2> SUFFICES ASSUME NEW i \in Index(n)
               PROVE  /\ Cardinality(Before(f, i)) \in Nat
                      /\ Cardinality(Before(f, i)) + 1 <= n
    OBVIOUS
  <2>1. Before(f, i) \in SUBSET Index(n) /\ i \notin Before(f, i)
    BY BeforeIs
  <2>2. Cardinality(Index(n)) = n /\ Index(n) \in SUBSET Index(n)
    BY Finite
  <2>3. Cardinality(Before(f, i)) \in Nat
    BY <2>1, Fewer
  <2>4. Cardinality(Before(f, i)) + 1 <= Cardinality(Index(n))
    BY <2>1, <2>2, Fewer
  <2> QED BY <2>2, <2>3, <2>4
<1>3. place \in [Index(n) -> Index(n)]
  BY <1>1, <1>2 DEF Index
<1>4. ASSUME NEW i \in Index(n), NEW j \in Index(n), i \in Before(f, j)
      PROVE  place[i] + 1 <= place[j]
  <2>1. Before(f, i) \subseteq Before(f, j)
    BY <1>4, BeforeIs DEF Before
  <2>2. Before(f, i) \in SUBSET Before(f, j) /\ i \notin Before(f, i) /\ Before(f, j) \in SUBSET Index(n)
    BY <2>1, BeforeIs
  <2>3. Cardinality(Before(f, i)) + 1 <= Cardinality(Before(f, j))
    BY <1>4, <2>2, Fewer
  <2> QED BY <1>1, <2>3
<1>5. ASSUME NEW i \in Index(n), NEW j \in Index(n), place[i] = place[j] PROVE i = j
  <2>1. i = j \/ i \in Before(f, j) \/ j \in Before(f, i)
    BY BeforeIs DEF Before
  <2>2. place[i] \in Nat /\ place[j] \in Nat
    BY <1>3 DEF Index
  <2> QED BY <1>4, <1>5, <2>1, <2>2
<1>6. \A s \in Index(n) : \E i \in Index(n) : place[i] = s
  <2>1. place \in Injection(Index(n), Index(n))
    BY <1>3, <1>5 DEF Injection, IsInjective
  <2>2. place \in Surjection(Index(n), Index(n))
    BY <2>1, Finite, FS_Injection
  <2> QED BY <2>2 DEF Surjection
<1>7. ASSUME NEW i \in Index(n)
      PROVE  /\ Cardinality(Below(f, f[i])) <= place[i]
             /\ place[i] < Cardinality(Below(f, f[i] + 1))
  <2>1. Below(f, f[i]) \in SUBSET Before(f, i)
    BY DEF Below, Before
  <2>2. Before(f, i) \in SUBSET Below(f, f[i] + 1) /\ i \in Below(f, f[i] + 1)
    BY BeforeIs DEF Below, Before
  <2>3. /\ Before(f, i) \in SUBSET Index(n) /\ Below(f, f[i] + 1) \in SUBSET Index(n)
        /\ i \notin Before(f, i)
    BY BeforeIs
  <2>4. /\ Cardinality(Below(f, f[i])) <= Cardinality(Before(f, i))
        /\ Cardinality(Before(f, i)) \in Nat
    BY <2>1, <2>3, Fewer
  <2>5. /\ Cardinality(Before(f, i)) + 1 <= Cardinality(Below(f, f[i] + 1))
        /\ Cardinality(Below(f, f[i] + 1)) \in Nat
    BY <2>2, <2>3, Fewer
  <2> QED BY <1>1, <2>4, <2>5
<1> QED BY <1>1, <1>3, <1>5, <1>6, <1>7 DEF place

\* A slot between two offsets holds an assignment to that expert.
LEMMA SlotExpert ==
  ASSUME NEW n \in Nat, NEW f \in [Index(n) -> Expert], NEW i \in Index(n), NEW e \in Expert,
         Cardinality(Below(f, e)) <= StablePlace(f)[i],
         StablePlace(f)[i] < Cardinality(Below(f, e + 1))
  PROVE  f[i] = e
<1>1. /\ \A d \in Nat : Below(f, d) \in SUBSET Index(n) /\ Cardinality(Below(f, d)) \in Nat
      /\ StablePlace(f)[i] \in Nat /\ f[i] \in Nat /\ e \in Nat
  <2>1. StablePlace(f)[i] \in Index(n)
    BY PlacesAre
  <2>2. \A d \in Nat : Below(f, d) \in SUBSET Index(n)
    BY BeforeIs
  <2> QED BY <2>1, <2>2, BeforeIs, Fewer, ExpertsAre
<1>2. ASSUME f[i] < e PROVE FALSE
  <2>1. f[i] + 1 <= e
    BY <1>1, <1>2
  <2>2. Below(f, f[i] + 1) \in SUBSET Below(f, e)
    BY <2>1, <1>1, BeforeIs DEF Below
  <2>3. Cardinality(Below(f, f[i] + 1)) <= Cardinality(Below(f, e))
    BY <1>1, <2>2, Fewer
  <2>4. StablePlace(f)[i] < Cardinality(Below(f, f[i] + 1))
    BY PlacesAre
  <2>5. f[i] + 1 \in Nat
    BY <1>1
  <2> QED BY <1>1, <2>3, <2>4, <2>5
<1>3. ASSUME e < f[i] PROVE FALSE
  <2>1. e + 1 <= f[i]
    BY <1>1, <1>3
  <2>2. Below(f, e + 1) \in SUBSET Below(f, f[i])
    BY <2>1, <1>1, BeforeIs DEF Below
  <2>3. Cardinality(Below(f, e + 1)) <= Cardinality(Below(f, f[i]))
    BY <1>1, <2>2, Fewer
  <2>4. Cardinality(Below(f, f[i])) <= StablePlace(f)[i]
    BY PlacesAre
  <2>5. e + 1 \in Nat
    BY <1>1
  <2> QED BY <1>1, <2>3, <2>4, <2>5
<1> QED BY <1>1, <1>2, <1>3

\* Sorting and inverting the permutation leads to the stable places.
LEMMA SortPlaces ==
  ASSUME NEW n \in Nat, NEW f \in [Index(n) -> Expert]
  PROVE  InvertPermutation(SortPermutation(f)) = StablePlace(f)
<1> DEFINE place == StablePlace(f)
           perm == SortPermutation(f)
           inv == InvertPermutation(perm)
<1>1. /\ place \in [Index(n) -> Index(n)]
      /\ \A i, j \in Index(n) : place[i] = place[j] => i = j
      /\ \A s \in Index(n) : \E i \in Index(n) : place[i] = s
  BY PlacesAre
<1>2. perm = [s \in Index(n) |-> CHOOSE i \in Index(n) : place[i] = s]
  BY DEF SortPermutation
<1> HIDE DEF place, perm
<1>3. \A s \in Index(n) : perm[s] \in Index(n) /\ place[perm[s]] = s
  BY <1>1, <1>2
<1>4. inv = [i \in Index(n) |-> CHOOSE s \in Index(n) : perm[s] = i]
  BY <1>2 DEF InvertPermutation
<1> HIDE DEF inv
<1>5. ASSUME NEW i \in Index(n) PROVE inv[i] = place[i]
  <2>1. place[i] \in Index(n) /\ perm[place[i]] = i
    BY <1>1, <1>3
  <2>2. inv[i] \in Index(n) /\ perm[inv[i]] = i
    BY <1>4, <2>1
  <2> QED BY <1>3, <2>2
<1>6. inv = place
  BY <1>1, <1>4, <1>5
<1> QED BY <1>6 DEF inv, perm, place

-----------------------------------------------------------------------------
(* Division.                                                               *)

\* Division with rest, on numbers.
LEMMA Divides ==
  ASSUME NEW a \in Nat, NEW N \in Nat \ {0}
  PROVE  /\ a \div N \in Nat /\ a % N \in Nat /\ a % N < N
         /\ a = (a \div N) * N + (a % N)
<1> DEFINE q == a \div N
           x == a % N
<1>1. q \in Int
  OBVIOUS
<1>2. x \in 0 .. N - 1
  OBVIOUS
<1>3. a = N * q + x
  OBVIOUS
<1>4. q >= 0
  OBVIOUS
<1> HIDE DEF q, x
<1>5. q \in Nat /\ x \in Nat /\ x < N /\ N * q = q * N
  BY <1>1, <1>2, <1>4
<1>6. a = q * N + x
  BY <1>3, <1>5
<1> QED BY <1>5, <1>6 DEF q, x

\* Multiplying keeps the order.
LEMMA MultMonotone ==
  ASSUME NEW a \in Nat, NEW b \in Nat, NEW N \in Nat, a < b
  PROVE  a * N + N <= b * N
<1>1. PICK d \in Nat : b = (a + 1) + d
  <2>1. b - (a + 1) \in Nat /\ b = (a + 1) + (b - (a + 1))
    OBVIOUS
  <2> QED BY <2>1
<1>2. d * N \in Nat /\ a * N \in Nat /\ b * N = a * N + N + d * N
  BY <1>1
<1> QED BY <1>2

\* Multiples of N with something smaller on top are ordered as pairs.
LEMMA PairOrder ==
  ASSUME NEW N \in Nat \ {0}, NEW a \in Nat, NEW b \in Nat, NEW x \in Index(N), NEW y \in Index(N)
  PROVE  (a * N + x < b * N + y) <=> (a < b \/ (a = b /\ x < y))
<1>1. x \in Nat /\ y \in Nat /\ x < N /\ y < N
  BY DEF Index
<1>2. a * N \in Nat /\ b * N \in Nat
  OBVIOUS
<1>3. CASE a < b
  <2>1. a * N + N <= b * N
    BY <1>3, MultMonotone
  <2> QED BY <1>1, <1>2, <1>3, <2>1
<1>4. CASE b < a
  <2>1. b * N + N <= a * N
    BY <1>4, MultMonotone
  <2> QED BY <1>1, <1>2, <1>4, <2>1
<1>5. CASE a = b
  BY <1>1, <1>2, <1>5
<1> QED BY <1>3, <1>4, <1>5

\* There is one quotient and one rest.
LEMMA DivUnique ==
  ASSUME NEW q \in Nat, NEW N \in Nat \ {0}, NEW x \in Index(N)
  PROVE  (q * N + x) \div N = q /\ (q * N + x) % N = x
<1> DEFINE a == q * N + x
           p == a \div N
           y == a % N
<1>1. a \in Nat /\ q * N \in Nat /\ x \in Nat /\ x < N
  BY DEF Index
<1>2. p \in Nat /\ y \in Nat /\ y < N /\ a = p * N + y
  BY <1>1, Divides
<1>3. y \in Index(N)
  BY <1>2 DEF Index
<1> HIDE DEF p, y
<1>4. ~(p * N + y < q * N + x) /\ ~(q * N + x < p * N + y)
  <2>1. p * N + y = q * N + x /\ p * N \in Nat
    BY <1>2
  <2> QED BY <1>1, <2>1
<1>5. ~(p < q) /\ ~(q < p)
  BY <1>2, <1>3, <1>4, PairOrder
<1>6. p = q
  BY <1>2, <1>5
<1>7. y = x
  BY <1>1, <1>2, <1>6
<1> QED BY <1>6, <1>7 DEF p, y

\* Numbers are ordered by quotient, then by remainder.
LEMMA DivOrder ==
  ASSUME NEW N \in Nat \ {0}, NEW i \in Nat, NEW j \in Nat
  PROVE  (i < j) <=> (i \div N < j \div N \/ (i \div N = j \div N /\ i % N < j % N))
<1> DEFINE a == i \div N
           x == i % N
           b == j \div N
           y == j % N
<1>1. a \in Nat /\ b \in Nat /\ x \in Index(N) /\ y \in Index(N)
  BY Divides DEF Index
<1>2. i = a * N + x /\ j = b * N + y
  BY Divides
<1> HIDE DEF a, b, x, y
<1>3. (a * N + x < b * N + y) <=> (a < b \/ (a = b /\ x < y))
  BY <1>1, PairOrder
<1>4. (i < j) <=> (a < b \/ (a = b /\ x < y))
  BY <1>2, <1>3
<1> QED BY <1>4 DEF a, b, x, y

\* How many pieces of N cover n.
LEMMA CeilDivIs ==
  ASSUME NEW n \in Nat, NEW N \in Nat \ {0}
  PROVE  /\ CeilDiv(n, N) \in Nat /\ (n = 0 <=> CeilDiv(n, N) = 0)
         /\ \A i \in Index(n) : i \div N \in Index(CeilDiv(n, N))
         /\ \A t \in Index(CeilDiv(n, N)) : t * N \in Index(n)
<1> DEFINE m == n + N - 1
           T == CeilDiv(n, N)
           r == m % N
<1>1. m \in Nat
  OBVIOUS
<1>2. T \in Nat /\ r \in Nat /\ r < N /\ m = T * N + r
  <2>1. T = m \div N
    BY DEF CeilDiv
  <2> HIDE DEF T
  <2> QED BY <1>1, <2>1, Divides
<1> HIDE DEF T, r
<1>3. T * N \in Nat /\ T * N >= n /\ T * N < n + N
  BY <1>2
<1>4. ASSUME NEW i \in Index(n) PROVE i \div N \in Index(T)
  <2> DEFINE q == i \div N
             x == i % N
  <2>1. i \in Nat /\ i < n
    BY DEF Index
  <2>2. q \in Nat /\ x \in Nat /\ x < N /\ i = q * N + x
    BY <2>1, Divides
  <2> HIDE DEF q, x
  <2>3. q * N \in Nat
    BY <2>2
  <2>4. ~(T <= q)
    <3>1. T = q => T * N = q * N
      OBVIOUS
    <3>2. T < q => T * N + N <= q * N
      BY <1>2, <2>2, MultMonotone
    <3> QED BY <1>2, <1>3, <2>1, <2>2, <2>3, <3>1, <3>2
  <2>5. q \in Index(T)
    BY <1>2, <2>2, <2>4 DEF Index
  <2> QED BY <2>5 DEF q
<1>5. ASSUME NEW t \in Index(T) PROVE t * N \in Index(n)
  <2>1. t \in Nat /\ t < T
    BY <1>2 DEF Index
  <2>2. t * N + N <= T * N
    BY <1>2, <2>1, MultMonotone
  <2>3. t * N \in Nat
    BY <2>1
  <2> QED BY <1>3, <2>2, <2>3 DEF Index
<1>6. n = 0 => T = 0
  <2> SUFFICES ASSUME n = 0, T # 0 PROVE FALSE
    OBVIOUS
  <2>1. 0 < T
    BY <1>2
  <2>2. 0 * N + N <= T * N
    BY <1>2, <2>1, MultMonotone
  <2>3. 0 * N = 0
    OBVIOUS
  <2> QED BY <1>3, <2>2, <2>3
<1>7. T = 0 => n = 0
  <2> SUFFICES ASSUME T = 0, n # 0 PROVE FALSE
    OBVIOUS
  <2>1. T * N = 0
    OBVIOUS
  <2> QED BY <1>3, <2>1
<1> QED BY <1>2, <1>4, <1>5, <1>6, <1>7 DEF T

-----------------------------------------------------------------------------
(* The counting pass.                                                      *)

SoFar(f, i, e) == {j \in DOMAIN f : j < i /\ f[j] = e}

CursorTable(c, f, offsets) ==
  c = [i \in 0 .. Size(f) |->
         IF i = 0 THEN offsets ELSE [c[i - 1] EXCEPT ![f[i - 1]] = @ + 1]]

\* The cursor of the host loop starts at the expert's offset.
LEMMA PositionsAre ==
  ASSUME NEW f, NEW offsets
  PROVE  DestinationPositions(f, offsets) =
           [i \in DOMAIN f |-> (CHOOSE c : CursorTable(c, f, offsets))[i][f[i]]]
BY DEF DestinationPositions, CursorTable

\* One more assignment is in the part of the loop behind it.
LEMMA SoFarIs ==
  ASSUME NEW n \in Nat, NEW f \in [Index(n) -> Expert]
  PROVE  /\ \A i, e : SoFar(f, i, e) \in SUBSET Index(n) /\ Cardinality(SoFar(f, i, e)) \in Nat
         /\ \A e : Cardinality(SoFar(f, 0, e)) = 0
         /\ \A i \in Index(n) : \A e :
              Cardinality(SoFar(f, i + 1, e)) =
                IF f[i] = e THEN Cardinality(SoFar(f, i, e)) + 1 ELSE Cardinality(SoFar(f, i, e))
<1>1. DOMAIN f = Index(n) /\ Index(n) \subseteq Nat
  BY DEF Index
<1>2. \A i, e : SoFar(f, i, e) \in SUBSET Index(n)
  BY <1>1 DEF SoFar
<1>3. \A i, e : IsFiniteSet(SoFar(f, i, e)) /\ Cardinality(SoFar(f, i, e)) \in Nat
  BY <1>2, Fewer
<1>4. ASSUME NEW e PROVE Cardinality(SoFar(f, 0, e)) = 0
  <2>1. SoFar(f, 0, e) = {}
    BY <1>1 DEF SoFar
  <2> QED BY <2>1, FS_EmptySet
<1>5. ASSUME NEW i \in Index(n), NEW e
      PROVE  Cardinality(SoFar(f, i + 1, e)) =
                IF f[i] = e THEN Cardinality(SoFar(f, i, e)) + 1 ELSE Cardinality(SoFar(f, i, e))
  <2>1. i \in Nat /\ \A j \in Nat : j < i + 1 <=> (j < i \/ j = i)
    BY <1>1
  <2>2. CASE f[i] = e
    <3>1. SoFar(f, i + 1, e) = SoFar(f, i, e) \cup {i}
      BY <1>1, <2>1, <2>2 DEF SoFar
    <3>2. i \notin SoFar(f, i, e)
      BY <2>1 DEF SoFar
    <3>3. Cardinality(SoFar(f, i, e) \cup {i}) = Cardinality(SoFar(f, i, e)) + 1
      BY <1>3, <3>2, FS_AddElement
    <3> QED BY <2>2, <3>1, <3>3
  <2>3. CASE f[i] # e
    <3>1. SoFar(f, i + 1, e) = SoFar(f, i, e)
      BY <1>1, <2>1, <2>3 DEF SoFar
    <3> QED BY <2>3, <3>1
  <2> QED BY <2>2, <2>3
<1> QED BY <1>2, <1>3, <1>4, <1>5

\* The cursors after i assignments.
LEMMA CursorsAre ==
  ASSUME NEW n \in Nat, NEW f \in [Index(n) -> Expert], NEW o \in [0 .. NumExperts -> Nat]
  PROVE  LET c == CHOOSE c : CursorTable(c, f, o) IN
         \A i \in 0 .. n : c[i] = [e \in 0 .. NumExperts |-> o[e] + Cardinality(SoFar(f, i, e))]
<1> DEFINE Row(i) == [e \in 0 .. NumExperts |-> o[e] + Cardinality(SoFar(f, i, e))]
           c0 == [i \in 0 .. n |-> Row(i)]
           c == CHOOSE c : CursorTable(c, f, o)
<1>1. Size(f) = n
  <2>1. DOMAIN f = Index(n)
    OBVIOUS
  <2> QED BY <2>1, Finite DEF Size
<1>2. Row(0) = o
  BY SoFarIs
<1>3. ASSUME NEW i \in 0 .. n, i # 0
      PROVE  Row(i) = [Row(i - 1) EXCEPT ![f[i - 1]] = @ + 1]
  <2>1. i - 1 \in Index(n) /\ (i - 1) + 1 = i
    BY <1>3 DEF Index
  <2>2. f[i - 1] \in 0 .. NumExperts
    BY <2>1, ExpertsAre
  <2>3. \A e : Cardinality(SoFar(f, i, e)) =
                IF f[i - 1] = e THEN Cardinality(SoFar(f, i - 1, e)) + 1 ELSE Cardinality(SoFar(f, i - 1, e))
    BY <2>1, SoFarIs
  <2>4. \A e \in 0 .. NumExperts : Cardinality(SoFar(f, i - 1, e)) \in Nat /\ o[e] \in Nat
    BY SoFarIs
  <2>5. \A e \in 0 .. NumExperts :
          Row(i)[e] = IF e = f[i - 1] THEN Row(i - 1)[e] + 1 ELSE Row(i - 1)[e]
    BY <2>3, <2>4
  <2>6. Row(i) = [e \in 0 .. NumExperts |-> Row(i)[e]] /\ DOMAIN Row(i - 1) = 0 .. NumExperts
    OBVIOUS
  <2> HIDE DEF Row
  <2> QED BY <2>2, <2>5, <2>6
<1> HIDE DEF Row
<1>4. CursorTable(c0, f, o)
  <2>1. \A i \in 0 .. n : c0[i] = IF i = 0 THEN o ELSE [c0[i - 1] EXCEPT ![f[i - 1]] = @ + 1]
    <3> SUFFICES ASSUME NEW i \in 0 .. n
                 PROVE c0[i] = IF i = 0 THEN o ELSE [c0[i - 1] EXCEPT ![f[i - 1]] = @ + 1]
      OBVIOUS
    <3>1. CASE i = 0
      BY <3>1, <1>2
    <3>2. CASE i # 0
      <4>1. i - 1 \in 0 .. n
        BY <3>2
      <4> QED BY <4>1, <3>2, <1>3
    <3> QED BY <3>1, <3>2
  <2>2. c0 = [i \in 0 .. n |-> c0[i]]
    OBVIOUS
  <2> HIDE DEF c0
  <2> QED BY <1>1, <2>1, <2>2 DEF CursorTable
<1>5. CursorTable(c, f, o)
  BY <1>4
<1> HIDE DEF c, c0
<1>6. \A i \in 0 .. n : c[i] = IF i = 0 THEN o ELSE [c[i - 1] EXCEPT ![f[i - 1]] = @ + 1]
  BY <1>1, <1>5 DEF CursorTable
<1> DEFINE Bad == {i \in 0 .. n : c[i] # Row(i)}
<1>7. Bad = {}
  <2> SUFFICES ASSUME Bad # {} PROVE FALSE
    OBVIOUS
  <2>1. PICK i \in Bad : \A j \in Bad : i <= j
    <3>1. Bad \subseteq Nat
      OBVIOUS
    <3> HIDE DEF Bad
    <3> QED BY <3>1, FirstNumber
  <2>2. i # 0
    BY <1>2, <1>6
  <2>3. i - 1 \in 0 .. n /\ i - 1 < i
    BY <2>2
  <2>4. c[i - 1] = Row(i - 1)
    BY <2>1, <2>3
  <2> QED BY <1>3, <1>6, <2>2, <2>4
<1>8. \A i \in 0 .. n : c[i] = Row(i)
  BY <1>7
<1> QED BY <1>8 DEF c, Row

\* One cursor per expert and one pass lead to the stable places.
LEMMA CountingPlaces ==
  ASSUME NEW n \in Nat, NEW f \in [Index(n) -> Expert]
  PROVE  DestinationPositions(f, Offsets(Histogram(f))) = StablePlace(f)
<1> DEFINE o == Offsets(Histogram(f))
           c == CHOOSE c : CursorTable(c, f, o)
<1>1. /\ o \in [0 .. NumExperts -> Nat]
      /\ \A e \in 0 .. NumExperts : o[e] = Cardinality(Below(f, e))
  BY OffsetsAre
<1>2. DOMAIN f = Index(n) /\ DestinationPositions(f, o) = [i \in Index(n) |-> c[i][f[i]]]
  BY PositionsAre
<1> HIDE DEF o
<1>3. \A i \in 0 .. n : c[i] = [e \in 0 .. NumExperts |-> o[e] + Cardinality(SoFar(f, i, e))]
  BY <1>1, CursorsAre
<1> HIDE DEF c
<1>4. ASSUME NEW i \in Index(n) PROVE c[i][f[i]] = StablePlace(f)[i]
  <2>1. i \in 0 .. n /\ f[i] \in 0 .. NumExperts
    <3>1. f[i] \in Expert
      OBVIOUS
    <3>2. i \in 0 .. n
      BY DEF Index
    <3> QED BY <3>1, <3>2, ExpertsAre
  <2>2. c[i][f[i]] = Cardinality(Below(f, f[i])) + Cardinality(SoFar(f, i, f[i]))
    <3>1. c[i] = [e \in 0 .. NumExperts |-> o[e] + Cardinality(SoFar(f, i, e))]
      BY <1>3, <2>1
    <3>2. c[i][f[i]] = o[f[i]] + Cardinality(SoFar(f, i, f[i]))
      BY <2>1, <3>1
    <3> QED BY <1>1, <2>1, <3>2
  <2>3. Before(f, i) = Below(f, f[i]) \cup SoFar(f, i, f[i])
    BY DEF Before, Below, SoFar
  <2>4. Below(f, f[i]) \cap SoFar(f, i, f[i]) = {}
    <3>1. ~(f[i] < f[i])
      BY BeforeIs
    <3> QED BY <3>1 DEF Below, SoFar
  <2>5. Below(f, f[i]) \in SUBSET Index(n) /\ SoFar(f, i, f[i]) \in SUBSET Index(n)
    BY BeforeIs, SoFarIs
  <2>6. Cardinality(Before(f, i)) = Cardinality(Below(f, f[i])) + Cardinality(SoFar(f, i, f[i]))
    BY <2>3, <2>4, <2>5, Parts
  <2> QED BY <2>2, <2>6, PlacesAre
<1>5. StablePlace(f) \in [Index(n) -> Index(n)]
  BY PlacesAre
<1> QED BY <1>2, <1>4, <1>5 DEF o

-----------------------------------------------------------------------------
(* The tiles.                                                              *)

Routed(f) == \E n \in Nat : n % TopK = 0 /\ Size(f) = n /\ f \in [Index(n) -> Expert]

Here(e, t) == {i \in Sources(t) : flat[i] = e}
HereBelow(e, t) == {i \in Sources(t) : flat[i] < e}
Earlier(e, t) == {i \in DOMAIN flat : flat[i] = e /\ i \div TileSize < t}
Column(e) == [t \in Index(NumTiles(flat)) |-> tiles.counts[t][e]]

\* The tiles are as many as the assignments need.
LEMMA TilesAre ==
  ASSUME NEW n \in Nat, flat \in [Index(n) -> Expert]
  PROVE  /\ TileSize \in Nat \ {0} /\ DOMAIN flat = Index(n) /\ Index(n) \subseteq Nat
         /\ Size(flat) = n /\ NumTiles(flat) \in Nat /\ (NumTiles(flat) = 0 <=> n = 0)
         /\ \A i \in Index(n) : /\ i \div TileSize \in Index(NumTiles(flat))
                                /\ i \in Sources(i \div TileSize) /\ flat[i] \in Expert
                                /\ i \div TileSize \in Nat
         /\ \A t : Sources(t) \in SUBSET Index(n)
         /\ \A e, t : /\ Here(e, t) \in SUBSET Index(n) /\ HereBelow(e, t) \in SUBSET Index(n)
                      /\ Earlier(e, t) \in SUBSET Index(n)
<1>1. TileSize \in Nat \ {0} /\ DOMAIN flat = Index(n) /\ Index(n) \subseteq Nat
  BY DispatcherAssumption DEF Index
<1>2. Size(flat) = n
  BY <1>1, Finite DEF Size
<1>3. NumTiles(flat) = CeilDiv(n, TileSize)
  BY <1>2 DEF NumTiles
<1>4. /\ CeilDiv(n, TileSize) \in Nat /\ (n = 0 <=> CeilDiv(n, TileSize) = 0)
      /\ \A i \in Index(n) : i \div TileSize \in Index(CeilDiv(n, TileSize))
  BY <1>1, CeilDivIs
<1>5. \A i \in Index(n) : i \in Sources(i \div TileSize) /\ flat[i] \in Expert
  BY <1>1 DEF Sources
<1>6. \A t : Sources(t) \in SUBSET Index(n)
  BY <1>1 DEF Sources
<1>7. \A e, t : /\ Here(e, t) \in SUBSET Index(n) /\ HereBelow(e, t) \in SUBSET Index(n)
                /\ Earlier(e, t) \in SUBSET Index(n)
  BY <1>1, <1>6 DEF Here, HereBelow, Earlier
<1>8. \A i \in Index(n) : i \div TileSize \in Nat
  BY <1>1, Divides
<1> QED BY <1>1, <1>2, <1>3, <1>4, <1>5, <1>6, <1>7, <1>8

\* What the earlier tiles hold of an expert, and what all of them hold.
LEMMA ColumnsAre ==
  ASSUME NEW n \in Nat, flat \in [Index(n) -> Expert], NEW e \in Expert,
         \A t \in Index(NumTiles(flat)) : tiles.counts[t][e] = Cardinality(Here(e, t))
  PROVE  /\ \A t \in 0 .. NumTiles(flat) :
              Total(Column(e), Index(t)) = Cardinality(Earlier(e, t))
         /\ Total(Column(e), DOMAIN Column(e)) = Histogram(flat)[e]
<1> DEFINE D == Equal(flat, e)
           g == [i \in D |-> i \div TileSize]
           T == NumTiles(flat)
           w == Column(e)
<1>1. T \in Nat /\ D \in SUBSET Index(n) /\ IsFiniteSet(D) /\ g \in [D -> Nat]
  <2>1. D \in SUBSET Index(n)
    BY TilesAre DEF Equal
  <2>2. IsFiniteSet(D)
    BY <2>1, Fewer
  <2>3. \A i \in D : i \div TileSize \in Nat
    BY <2>1, TilesAre
  <2> HIDE DEF D
  <2> QED BY <2>1, <2>2, <2>3, TilesAre
<1>2. ASSUME NEW m \in Index(T) PROVE w[m] = Cardinality(Level(D, g, m))
  <2>1. w[m] = Cardinality(Here(e, m))
    BY DEF Column
  <2>2. Here(e, m) = Level(D, g, m)
    BY DEF Here, Sources, Equal, Level
  <2> HIDE DEF D, w
  <2> QED BY <2>1, <2>2
<1>3. \A t \in 0 .. T : Total(w, Index(t)) = Cardinality(Under(D, g, t))
  <2>1. \A m \in Index(T) : w[m] = Cardinality(Level(D, g, m))
    BY <1>2
  <2> HIDE DEF D, g, T, w
  <2>2. \A t \in 0 .. T : /\ Total(w, Index(t)) = Cardinality(Under(D, g, t))
                          /\ Total(w, Index(t)) \in Nat
    BY <1>1, <2>1, CountBelow
  <2> QED BY <2>2
<1>4. \A t : Under(D, g, t) = Earlier(e, t)
  BY DEF Earlier, Equal, Under
<1>5. \A t \in 0 .. T : Total(w, Index(t)) = Cardinality(Earlier(e, t))
  <2> HIDE DEF D, g, T, w
  <2> QED BY <1>3, <1>4
<1>6. Earlier(e, T) = D
  <2>1. \A i \in Index(n) : i \div TileSize < T
    <3>1. \A i \in Index(n) : i \div TileSize \in Index(T)
      BY TilesAre
    <3> HIDE DEF T
    <3> QED BY <3>1, <1>1 DEF Index
  <2> HIDE DEF T
  <2> QED BY <2>1, <1>1, TilesAre DEF Earlier, Equal
<1>7. DOMAIN w = Index(T) /\ T \in 0 .. T
  BY <1>1 DEF Column
<1>8. Histogram(flat)[e] = Cardinality(D)
  BY HistogramIs
<1> HIDE DEF D, g, T, w
<1>9. Total(w, DOMAIN w) = Histogram(flat)[e]
  BY <1>5, <1>6, <1>7, <1>8
<1> QED BY <1>5, <1>9 DEF w, T

\* The exclusive sums over the row of a tile.
LEMMA StartsAre ==
  ASSUME NEW n \in Nat, flat \in [Index(n) -> Expert], NEW t, NEW row,
         \A e \in Expert : row[e] = Cardinality(Here(e, t))
  PROVE  \A e \in Expert : Offsets(row)[e] = Cardinality(HereBelow(e, t))
<1> DEFINE D == Sources(t)
           g == [i \in D |-> flat[i]]
<1>1. NumExperts \in Nat /\ Index(NumExperts) = Expert
  BY ExpertsAre DEF Index, Expert
<1>2. D \in SUBSET Index(n) /\ IsFiniteSet(D)
  BY TilesAre, Fewer
<1>3. g \in [D -> Nat]
  <2> HIDE DEF D
  <2> QED BY <1>2, ExpertsAre
<1>4. ASSUME NEW m \in Index(NumExperts) PROVE row[m] = Cardinality(Level(D, g, m))
  <2>1. Here(m, t) = Level(D, g, m)
    BY DEF Here, Level
  <2> HIDE DEF D, g
  <2> QED BY <1>1, <2>1
<1>5. \A e \in 0 .. NumExperts : Total(row, Index(e)) = Cardinality(Under(D, g, e))
  <2> HIDE DEF D, g
  <2> QED BY <1>1, <1>2, <1>3, <1>4, CountBelow
<1>6. \A e : Under(D, g, e) = HereBelow(e, t)
  BY DEF HereBelow, Under
<1>7. Offsets(row) = [e \in 0 .. NumExperts |-> Total(row, Index(e))]
  BY OffsetsAreTotals
<1> HIDE DEF D, g
<1>8. \A e \in Expert : e \in 0 .. NumExperts
  BY ExpertsAre
<1> QED BY <1>5, <1>6, <1>7, <1>8

\* Keys are ordered by expert, and by position within one.
LEMMA KeyOrder ==
  ASSUME NEW n \in Nat, flat \in [Index(n) -> Expert], NEW t,
         NEW i \in Sources(t), NEW j \in Sources(t)
  PROVE  TileKey(j) < TileKey(i) <=> (flat[j] < flat[i] \/ (flat[j] = flat[i] /\ j < i))
<1>1. /\ TileSize \in Nat \ {0} /\ i \in Nat /\ j \in Nat
      /\ flat[i] \in Nat /\ flat[j] \in Nat
      /\ i \div TileSize = t /\ j \div TileSize = t
  <2>1. i \in Index(n) /\ j \in Index(n) /\ i \div TileSize = t /\ j \div TileSize = t
    BY TilesAre DEF Sources
  <2> QED BY <2>1, TilesAre, ExpertsAre
<1> DEFINE T == TileSize
           x == i % TileSize
           y == j % TileSize
<1>2. x \in Index(T) /\ y \in Index(T)
  BY <1>1, Divides DEF Index
<1>3. i = t * T + x /\ j = t * T + y /\ t \in Nat
  BY <1>1, Divides
<1>4. TileKey(i) = flat[i] * T + x /\ TileKey(j) = flat[j] * T + y
  BY DEF TileKey
<1> HIDE DEF T, x, y
<1>5. T \in Nat \ {0}
  BY <1>1 DEF T
<1>6. TileKey(j) < TileKey(i) <=> (flat[j] < flat[i] \/ (flat[j] = flat[i] /\ y < x))
  <2> DEFINE a == flat[j]
             b == flat[i]
  <2>0. a \in Nat /\ b \in Nat
    BY <1>1
  <2> HIDE DEF a, b
  <2>1. (a * T + y < b * T + x) <=> (a < b \/ (a = b /\ y < x))
    BY <2>0, <1>2, <1>5, PairOrder
  <2> QED BY <1>4, <2>1 DEF a, b
<1>7. j < i <=> y < x
  <2>1. t * T + y < t * T + x <=> (t < t \/ (t = t /\ y < x))
    BY <1>2, <1>3, <1>5, PairOrder
  <2> QED BY <1>3, <2>1
<1> QED BY <1>6, <1>7

\* Moving the lanes from the local starts to the reservations leads to the
\* stable places.
LEMMA TilePlaces ==
  ASSUME NEW n \in Nat, flat \in [Index(n) -> Expert], NEW t \in Nat,
         plan.offsets = Offsets(Histogram(flat)),
         \A e \in Expert : /\ tiles.offsets[t][e] = Cardinality(Earlier(e, t))
                           /\ tiles.counts[t][e] = Cardinality(HereBelow(e, t))
  PROVE  TileDestinations(t) = [i \in Sources(t) |-> StablePlace(flat)[i]]
<1>1. SUFFICES ASSUME NEW i \in Sources(t)
               PROVE  LET lane == Cardinality({j \in Sources(t) : TileKey(j) < TileKey(i)})
                      IN plan.offsets[flat[i]] + tiles.offsets[t][flat[i]]
                           + (lane - tiles.counts[t][flat[i]]) = StablePlace(flat)[i]
  BY DEF TileDestinations
<1> DEFINE e == flat[i]
           A == Below(flat, e)
           B == Earlier(e, t)
           C == HereBelow(e, t)
           L == {j \in Sources(t) : flat[j] = e /\ j < i}
           K == {j \in Sources(t) : TileKey(j) < TileKey(i)}
<1>2. /\ i \in Index(n) /\ i \in Nat /\ e \in Expert /\ e \in Nat /\ e \in 0 .. NumExperts
      /\ i \div TileSize = t /\ TileSize \in Nat \ {0}
  <2>1. i \in Index(n) /\ i \div TileSize = t
    BY TilesAre DEF Sources
  <2> QED BY <2>1, TilesAre, ExpertsAre
<1>3. /\ A \in SUBSET Index(n) /\ B \in SUBSET Index(n) /\ C \in SUBSET Index(n)
      /\ L \in SUBSET Index(n) /\ K \in SUBSET Index(n)
  <2>1. Sources(t) \in SUBSET Index(n)
    BY TilesAre
  <2> QED BY <2>1, BeforeIs, TilesAre
<1>4. K = C \cup L
  BY KeyOrder DEF HereBelow
<1>5. \A j \in Index(n) : j \in Nat /\ flat[j] \in Nat
  BY TilesAre, ExpertsAre
<1>6. C \cap L = {}
  <2>1. \A j \in C : flat[j] < e /\ j \in Index(n)
    BY <1>3 DEF HereBelow
  <2> HIDE DEF e
  <2> QED BY <1>2, <1>5, <2>1
<1>7. Before(flat, i) = (A \cup B) \cup L
  <2>1. ASSUME NEW j \in Index(n), flat[j] = e
        PROVE  j < i <=> (j \div TileSize < t \/ (j \div TileSize = t /\ j < i))
    <3>1. j \in Nat /\ j \div TileSize \in Nat /\ t \in Nat
      BY TilesAre
    <3>2. (j < i) <=> (j \div TileSize < t \/ (j \div TileSize = t /\ j % TileSize < i % TileSize))
      BY <1>2, <3>1, DivOrder
    <3>3. j \div TileSize = t => (~(j \div TileSize < t))
      BY <3>1
    <3> QED BY <3>2, <3>3
  <2>2. \A j \in Index(n) : j \in L <=> (j \div TileSize = t /\ flat[j] = e /\ j < i)
    BY TilesAre DEF Sources
  <2>3. \A j \in Index(n) : j \in B <=> (j \div TileSize < t /\ flat[j] = e)
    BY TilesAre DEF Earlier
  <2>4. \A j \in Index(n) : j \in A <=> flat[j] < e
    BY TilesAre DEF Below
  <2>5. \A j \in Index(n) : j \in Before(flat, i) <=> (flat[j] < e \/ (flat[j] = e /\ j < i))
    BY TilesAre DEF Before
  <2>6. Before(flat, i) \in SUBSET Index(n)
    BY BeforeIs
  <2> HIDE DEF A, B, L, e
  <2>7. \A j \in Index(n) : j \in Before(flat, i) <=> j \in (A \cup B) \cup L
    BY <2>1, <2>2, <2>3, <2>4, <2>5
  <2> QED BY <1>3, <2>6, <2>7
<1>8. A \cap B = {}
  <2>1. \A j \in A : flat[j] < e /\ j \in Index(n)
    BY <1>3 DEF Below
  <2>2. \A j \in B : flat[j] = e
    BY DEF Earlier
  <2> HIDE DEF A, B, e
  <2> QED BY <1>2, <1>5, <2>1, <2>2
<1>9. (A \cup B) \cap L = {}
  <2>1. \A j \in A : flat[j] < e /\ j \in Index(n)
    BY <1>3 DEF Below
  <2>2. \A j \in B : j \div TileSize < t
    BY DEF Earlier
  <2>3. \A j \in L : flat[j] = e /\ j \div TileSize = t
    BY DEF Sources
  <2> HIDE DEF A, B, L, e
  <2>4. ~(t < t)
    OBVIOUS
  <2> QED BY <1>2, <1>5, <2>1, <2>2, <2>3, <2>4
<1>10. Cardinality(K) = Cardinality(C) + Cardinality(L)
  <2> HIDE DEF K, C, L
  <2> QED BY <1>3, <1>4, <1>6, Parts
<1>11. Cardinality(Before(flat, i)) = (Cardinality(A) + Cardinality(B)) + Cardinality(L)
  <2> HIDE DEF A, B, L
  <2>1. Cardinality(A \cup B) = Cardinality(A) + Cardinality(B)
    BY <1>3, <1>8, Parts
  <2>2. A \cup B \in SUBSET Index(n)
    BY <1>3
  <2>3. Cardinality((A \cup B) \cup L) = Cardinality(A \cup B) + Cardinality(L)
    BY <1>3, <1>9, <2>2, Parts
  <2> QED BY <1>7, <2>1, <2>3
<1>12. /\ Cardinality(A) \in Nat /\ Cardinality(B) \in Nat /\ Cardinality(C) \in Nat
       /\ Cardinality(L) \in Nat
  <2> HIDE DEF A, B, C, L
  <2> QED BY <1>3, Fewer
<1>13. plan.offsets[e] = Cardinality(A)
  BY <1>2, OffsetsAre
<1>14. tiles.offsets[t][e] = Cardinality(B) /\ tiles.counts[t][e] = Cardinality(C)
  BY <1>2
<1>15. StablePlace(flat)[i] = Cardinality(Before(flat, i))
  BY <1>2, PlacesAre
<1> HIDE DEF A, B, C, L, K, e
<1>16. plan.offsets[e] + tiles.offsets[t][e] + (Cardinality(K) - tiles.counts[t][e]) = StablePlace(flat)[i]
  BY <1>10, <1>11, <1>12, <1>13, <1>14, <1>15
<1> QED BY <1>16 DEF K, e

-----------------------------------------------------------------------------
(* The plan and the tiles, through a dispatch.                             *)

Tensor(x) == \E m \in Nat : x = [i \in Index(m) |-> x[i]]

PlanShape ==
  /\ plan = [slots |-> plan.slots, inverse |-> plan.inverse,
             counts |-> plan.counts, offsets |-> plan.offsets]
  /\ Tensor(plan.slots) /\ Tensor(plan.inverse)
  /\ plan.counts \in [Expert -> Nat] /\ plan.offsets \in [0 .. NumExperts -> Nat]

TilesShape ==
  /\ tiles = [counts |-> tiles.counts, offsets |-> tiles.offsets]
  /\ Tensor(tiles.counts) /\ Tensor(tiles.offsets)

Sized ==
  /\ Index(Size(flat)) \subseteq DOMAIN plan.slots
  /\ Index(Size(flat)) \subseteq DOMAIN plan.inverse
  /\ Index(NumTiles(flat)) \subseteq DOMAIN tiles.counts
  /\ Index(NumTiles(flat)) \subseteq DOMAIN tiles.offsets

\* Assignment i of forward b is where the stable order puts it.
Placed(p, f, b, i) ==
  /\ p.inverse[i] = StablePlace(f)[i]
  /\ p.slots[StablePlace(f)[i]] = [source |-> i, expert |-> f[i], token |-> i \div TopK,
                                   weight |-> <<b, i>>]

\* p is the finished plan of forward b.
LaidOut(p, f, b) ==
  /\ p.counts = Histogram(f) /\ p.offsets = Offsets(Histogram(f))
  /\ \A i \in DOMAIN f : Placed(p, f, b, i)

HereRow(t) == [e \in Expert |-> Cardinality(Here(e, t))]
BelowRow(t) == [e \in Expert |-> Cardinality(HereBelow(e, t))]

\* The kernels, while the programs in G have still to run.
Counting(G) ==
  \A t \in Index(NumTiles(flat)) : tiles.counts[t] = IF t \in G THEN NoRow ELSE HereRow(t)

Reserved ==
  /\ plan.counts = Histogram(flat) /\ plan.offsets = Offsets(Histogram(flat))
  /\ \A t \in Index(NumTiles(flat)), e \in Expert : tiles.offsets[t][e] = Cardinality(Earlier(e, t))

Starting(G) ==
  \A t \in Index(NumTiles(flat)) : tiles.counts[t] = IF t \in G THEN HereRow(t) ELSE BelowRow(t)

Packing(G) ==
  \A t \in Index(NumTiles(flat)) :
    t \notin G => \A i \in Sources(t) : Placed(plan, flat, batch, i)

\* Two fields of a plan replaced at once.
LEMMA PlanFields ==
  ASSUME NEW r, NEW x, NEW y, NEW a, NEW b, NEW c, NEW d,
         r = [slots |-> a, inverse |-> b, counts |-> c, offsets |-> d]
  PROVE  /\ [r EXCEPT !.counts = x, !.offsets = y] =
              [slots |-> a, inverse |-> b, counts |-> x, offsets |-> y]
         /\ [r EXCEPT !.slots = x, !.inverse = y] =
              [slots |-> x, inverse |-> y, counts |-> c, offsets |-> d]
<1> DEFINE k == [r EXCEPT !.counts = x]
           s == [r EXCEPT !.slots = x]
<1>1. k = [slots |-> a, inverse |-> b, counts |-> x, offsets |-> d]
  OBVIOUS
<1>2. s = [slots |-> x, inverse |-> b, counts |-> c, offsets |-> d]
  OBVIOUS
<1>3. [r EXCEPT !.counts = x, !.offsets = y] = [k EXCEPT !.offsets = y]
  OBVIOUS
<1>4. [r EXCEPT !.slots = x, !.inverse = y] = [s EXCEPT !.inverse = y]
  OBVIOUS
<1> HIDE DEF k, s
<1>5. [k EXCEPT !.offsets = y] = [slots |-> a, inverse |-> b, counts |-> x, offsets |-> y]
  BY <1>1
<1>6. [s EXCEPT !.inverse = y] = [slots |-> x, inverse |-> y, counts |-> c, offsets |-> d]
  BY <1>2
<1> QED BY <1>3, <1>4, <1>5, <1>6

\* What a tensor is.
LEMMA TensorIs ==
  ASSUME NEW x, Tensor(x)
  PROVE  /\ Size(x) \in Nat /\ DOMAIN x = Index(Size(x)) /\ x = [i \in DOMAIN x |-> x[i]]
<1>1. PICK m \in Nat : x = [i \in Index(m) |-> x[i]]
  BY DEF Tensor
<1>2. DOMAIN x = Index(m)
  BY <1>1
<1>3. Size(x) = m
  BY <1>2, Finite DEF Size
<1> QED BY <1>1, <1>2, <1>3

\* A function over the first indices is a tensor.
LEMMA TensorOf == \A m \in Nat : \A x : DOMAIN x = Index(m) /\ x = [i \in DOMAIN x |-> x[i]] => Tensor(x)
BY DEF Tensor

\* Growing a workspace keeps what it held, and never shrinks it.
LEMMA EnsureIs ==
  ASSUME NEW x, Tensor(x), NEW n \in Nat, NEW u
  PROVE  Tensor(Ensure(x, n, u)) /\ Index(n) \subseteq DOMAIN Ensure(x, n, u)
<1>1. CASE Size(x) < n
  <2>1. Ensure(x, n, u) = [i \in Index(n) |-> u]
    BY <1>1 DEF Ensure
  <2>2. [i \in Index(n) |-> u] = [i \in Index(n) |-> [j \in Index(n) |-> u][i]]
    OBVIOUS
  <2>3. Tensor([i \in Index(n) |-> u])
    BY <2>2 DEF Tensor
  <2> QED BY <2>1, <2>3
<1>2. CASE ~(Size(x) < n)
  <2>1. Ensure(x, n, u) = x
    BY <1>2 DEF Ensure
  <2>2. Index(n) \subseteq Index(Size(x))
    BY <1>2, TensorIs DEF Index
  <2> QED BY <2>1, <2>2, TensorIs
<1> QED BY <1>1, <1>2

\* A tensor whose elements are replaced in place.
LEMMA InPlace ==
  ASSUME NEW x, Tensor(x), NEW y, y = [i \in DOMAIN x |-> y[i]]
  PROVE  Tensor(y) /\ DOMAIN y = DOMAIN x
<1>1. DOMAIN y = DOMAIN x
  BY Zenon
<1>2. Size(x) \in Nat /\ DOMAIN x = Index(Size(x))
  BY TensorIs
<1> QED BY <1>1, <1>2, TensorOf

\* q is the plan p with the assignments of D in their places, the others where they were.
PackedInto(p, q, n, f, D) ==
  /\ q = [slots |-> q.slots, inverse |-> q.inverse, counts |-> p.counts, offsets |-> p.offsets]
  /\ Tensor(q.slots) /\ DOMAIN q.slots = DOMAIN p.slots
  /\ Tensor(q.inverse) /\ DOMAIN q.inverse = DOMAIN p.inverse
  /\ \A i \in D : Placed(q, f, batch, i)
  /\ \A i \in Index(n) \ D : Placed(p, f, batch, i) => Placed(q, f, batch, i)

\* What is packed is placed, and nothing else moves.
LEMMA PackedIs ==
  ASSUME NEW n \in Nat, NEW f \in [Index(n) -> Expert], f = flat, NEW p,
         p = [slots |-> p.slots, inverse |-> p.inverse, counts |-> p.counts, offsets |-> p.offsets],
         Tensor(p.slots), Tensor(p.inverse),
         Index(n) \subseteq DOMAIN p.slots, Index(n) \subseteq DOMAIN p.inverse,
         NEW D \in SUBSET Index(n), NEW dest, dest = [i \in D |-> StablePlace(f)[i]],
         NEW q, q = Packed(p, dest)
  PROVE  PackedInto(p, q, n, f, D)
<1> DEFINE place == StablePlace(f)
           v == [i \in DOMAIN dest |-> Assignment(i)]
           inv == [i \in DOMAIN p.inverse |-> IF i \in DOMAIN dest THEN dest[i] ELSE p.inverse[i]]
           slots == Scatter(p.slots, dest, v)
<1>1. /\ place \in [Index(n) -> Index(n)]
      /\ \A i, j \in Index(n) : place[i] = place[j] => i = j
  BY PlacesAre
<1>2. DOMAIN dest = D /\ \A i \in D : dest[i] = place[i]
  OBVIOUS
<1>3. q = [slots |-> slots, inverse |-> inv, counts |-> p.counts, offsets |-> p.offsets]
  <2> HIDE DEF place
  <2>1. Packed(p, dest) = [p EXCEPT !.slots = slots, !.inverse = inv]
    <3>1. [[p EXCEPT !.slots = slots] EXCEPT !.inverse = inv] = [p EXCEPT !.slots = slots, !.inverse = inv]
      OBVIOUS
    <3> QED BY <3>1 DEF Packed
  <2> HIDE DEF slots, inv
  <2> QED BY <2>1
<1>4. slots = [s \in DOMAIN p.slots |->
                 IF s \in Range(dest) THEN v[CHOOSE i \in DOMAIN dest : dest[i] = s] ELSE p.slots[s]]
  BY DEF Scatter
<1> HIDE DEF place
<1>5. ASSUME NEW i \in D PROVE slots[place[i]] = Assignment(i)
  <2>1. place[i] \in DOMAIN p.slots /\ dest[i] = place[i] /\ i \in DOMAIN dest
    BY <1>1, <1>2
  <2>2. place[i] \in Range(dest)
    BY <2>1 DEF Range
  <2>3. \A j \in DOMAIN dest : dest[j] = place[i] => j = i
    BY <1>1, <1>2
  <2>4. (CHOOSE j \in DOMAIN dest : dest[j] = place[i]) = i
    BY <2>1, <2>3
  <2>5. slots[place[i]] = v[CHOOSE j \in DOMAIN dest : dest[j] = place[i]]
    BY <1>4, <2>1, <2>2
  <2>6. v[i] = Assignment(i)
    BY <2>1
  <2> QED BY <2>4, <2>5, <2>6
<1>6. ASSUME NEW i \in Index(n) \ D PROVE slots[place[i]] = p.slots[place[i]]
  <2>1. place[i] \in DOMAIN p.slots
    BY <1>1
  <2>2. place[i] \notin Range(dest)
    BY <1>1, <1>2 DEF Range
  <2> QED BY <1>4, <2>1, <2>2
<1>7. \A i \in D : inv[i] = place[i]
  BY <1>2
<1>8. \A i \in Index(n) \ D : inv[i] = p.inverse[i]
  BY <1>2
<1>9. slots = [s \in DOMAIN p.slots |-> slots[s]] /\ inv = [i \in DOMAIN p.inverse |-> inv[i]]
  BY <1>4
<1>10. Tensor(slots) /\ DOMAIN slots = DOMAIN p.slots /\ Tensor(inv) /\ DOMAIN inv = DOMAIN p.inverse
  <2> HIDE DEF slots, inv
  <2> QED BY <1>9, InPlace
<1> HIDE DEF slots, inv, v
<1>11. q.slots = slots /\ q.inverse = inv
  BY <1>3
<1>12. \A i \in D : Placed(q, f, batch, i)
  BY <1>5, <1>7, <1>11 DEF Placed, Assignment, place
<1>13. \A i \in Index(n) \ D : Placed(p, f, batch, i) => Placed(q, f, batch, i)
  BY <1>6, <1>8, <1>11 DEF Placed, place
<1> QED BY <1>3, <1>10, <1>11, <1>12, <1>13 DEF PackedInto

DispatchShape == PlanShape /\ TilesShape

\* What the assumption says of the router's tensors.
LEMMA RoutedIs ==
  ASSUME Routed(flat)
  PROVE  \E n \in Nat : n = Size(flat) /\ flat \in [Index(n) -> Expert] /\ DOMAIN flat = Index(n)
BY DEF Routed

\* The tile kernels' rows hold counts.
LEMMA RowsTyped ==
  ASSUME Routed(flat)
  PROVE  \A t : /\ HereRow(t) \in [Expert -> Nat] /\ BelowRow(t) \in [Expert -> Nat]
                /\ \A e : Cardinality(Earlier(e, t)) \in Nat
<1>1. PICK n \in Nat : flat \in [Index(n) -> Expert]
  BY RoutedIs
<1>2. \A e, t : /\ Here(e, t) \in SUBSET Index(n) /\ HereBelow(e, t) \in SUBSET Index(n)
                /\ Earlier(e, t) \in SUBSET Index(n)
  BY <1>1, TilesAre
<1>3. \A e, t : /\ Cardinality(Here(e, t)) \in Nat /\ Cardinality(HereBelow(e, t)) \in Nat
                /\ Cardinality(Earlier(e, t)) \in Nat
  BY <1>2, Fewer
<1> QED BY <1>3 DEF HereRow, BelowRow

\* What a plan of this routing counts is well typed.
LEMMA CountsTyped ==
  ASSUME NEW f, Routed(f)
  PROVE  Histogram(f) \in [Expert -> Nat] /\ Offsets(Histogram(f)) \in [0 .. NumExperts -> Nat]
<1>1. PICK n \in Nat : f \in [Index(n) -> Expert]
  BY DEF Routed
<1> QED BY <1>1, HistogramIs, OffsetsAre

\* Both dispatches on the host lay the forward out.
LEMMA HostLaysOut ==
  ASSUME PlanShape, Routed(flat), NEW algorithm \in {"counting_scatter", "stable_sort"},
         DispatchOnHost(algorithm)
  PROVE  /\ PlanShape' /\ LaidOut(plan', flat, batch)
         /\ UNCHANGED <<batch, flat, reuse, tiles>>
<1>1. PICK n \in Nat : n = Size(flat) /\ flat \in [Index(n) -> Expert] /\ DOMAIN flat = Index(n)
  BY RoutedIs
<1>2. PICK f : f = flat
  OBVIOUS
<1> DEFINE c == Histogram(f)
           o == Offsets(c)
           p == [WithBuffers(Size(flat)) EXCEPT !.counts = c, !.offsets = o]
           dest == Destinations(algorithm, f, o)
<1>3. plan' = Packed(p, dest) /\ UNCHANGED <<batch, flat, reuse, tiles>>
  BY <1>2 DEF DispatchOnHost
<1>4. dest = StablePlace(f)
  <2>1. CASE algorithm = "counting_scatter"
    BY <1>1, <1>2, <2>1, CountingPlaces DEF Destinations
  <2>2. CASE algorithm = "stable_sort"
    BY <1>1, <1>2, <2>2, SortPlaces DEF Destinations
  <2> QED BY <2>1, <2>2
<1> DEFINE s0 == Ensure(plan.slots, n, NoSlot)
           i0 == Ensure(plan.inverse, n, Undefined)
<1>5. p = [slots |-> s0, inverse |-> i0, counts |-> c, offsets |-> o]
  <2>1. WithBuffers(n) = [plan EXCEPT !.slots = s0, !.inverse = i0]
    BY DEF WithBuffers
  <2>2. plan = [slots |-> plan.slots, inverse |-> plan.inverse,
                counts |-> plan.counts, offsets |-> plan.offsets]
    BY DEF PlanShape
  <2> HIDE DEF s0, i0, c, o
  <2>3. WithBuffers(n) = [slots |-> s0, inverse |-> i0, counts |-> plan.counts, offsets |-> plan.offsets]
    BY <2>1, <2>2
  <2>4. WithBuffers(Size(flat)) = [slots |-> s0, inverse |-> i0, counts |-> plan.counts, offsets |-> plan.offsets]
    BY <1>1, <2>3
  <2>5. PICK r : r = WithBuffers(Size(flat))
    OBVIOUS
  <2>6. r = [slots |-> s0, inverse |-> i0, counts |-> plan.counts, offsets |-> plan.offsets]
    BY <2>4, <2>5
  <2>7. PICK a, b, x, y : a = s0 /\ b = i0 /\ x = c /\ y = o
    OBVIOUS
  <2>8. r = [slots |-> a, inverse |-> b, counts |-> plan.counts, offsets |-> plan.offsets]
    BY <2>6, <2>7
  <2>9. [r EXCEPT !.counts = x, !.offsets = y] = [slots |-> a, inverse |-> b, counts |-> x, offsets |-> y]
    <3>1. [r EXCEPT !.counts = x] = [slots |-> a, inverse |-> b, counts |-> x, offsets |-> plan.offsets]
      BY <2>8
    <3>2. PICK k : k = [r EXCEPT !.counts = x]
      OBVIOUS
    <3>3. k = [slots |-> a, inverse |-> b, counts |-> x, offsets |-> plan.offsets]
      BY <3>1, <3>2
    <3>5. [k EXCEPT !.offsets = y] = [slots |-> a, inverse |-> b, counts |-> x, offsets |-> y]
      BY <3>3
    <3>4. [r EXCEPT !.counts = x, !.offsets = y] = [k EXCEPT !.offsets = y]
      BY <3>2
    <3> QED BY <3>4, <3>5
  <2>10. p = [r EXCEPT !.counts = x, !.offsets = y]
    BY <2>5, <2>7 DEF c, o
  <2> QED BY <2>7, <2>9, <2>10
<1>6. /\ Tensor(s0) /\ Index(n) \subseteq DOMAIN s0
      /\ Tensor(i0) /\ Index(n) \subseteq DOMAIN i0
  BY EnsureIs DEF PlanShape
<1>7. StablePlace(f) = [i \in Index(n) |-> StablePlace(f)[i]]
  BY <1>1, <1>2, PlacesAre
<1>8. c \in [Expert -> Nat] /\ o \in [0 .. NumExperts -> Nat]
  BY <1>2, CountsTyped
<1> HIDE DEF s0, i0, c, o, p, dest
<1>9. /\ p.slots = s0 /\ p.inverse = i0 /\ p.counts = c /\ p.offsets = o
      /\ p = [slots |-> p.slots, inverse |-> p.inverse, counts |-> p.counts, offsets |-> p.offsets]
  BY <1>5
<1>10. Index(n) \in SUBSET Index(n) /\ f \in [Index(n) -> Expert] /\ dest = [i \in Index(n) |-> StablePlace(f)[i]]
  BY <1>1, <1>2, <1>4, <1>7
<1>11. PICK q : q = Packed(p, dest)
  OBVIOUS
<1>12. /\ q = [slots |-> q.slots, inverse |-> q.inverse, counts |-> p.counts, offsets |-> p.offsets]
       /\ Tensor(q.slots) /\ Tensor(q.inverse)
       /\ \A i \in Index(n) : Placed(q, f, batch, i)
  <2>1. /\ n \in Nat /\ f \in [Index(n) -> Expert] /\ f = flat
        /\ p = [slots |-> p.slots, inverse |-> p.inverse, counts |-> p.counts, offsets |-> p.offsets]
        /\ Tensor(p.slots) /\ Tensor(p.inverse)
        /\ Index(n) \subseteq DOMAIN p.slots /\ Index(n) \subseteq DOMAIN p.inverse
        /\ Index(n) \in SUBSET Index(n) /\ dest = [i \in Index(n) |-> StablePlace(f)[i]]
        /\ q = Packed(p, dest)
    BY <1>1, <1>2, <1>6, <1>9, <1>10, <1>11
  <2>2. PackedInto(p, q, n, f, Index(n))
    BY ONLY <2>1, PackedIs
  <2> QED BY <2>2 DEF PackedInto
<1>13. q.counts = c /\ q.offsets = o
  BY <1>9, <1>12
<1>14. plan' = q
  BY <1>3, <1>11
<1>15. PlanShape'
  BY <1>8, <1>9, <1>12, <1>13, <1>14 DEF PlanShape
<1>16. LaidOut(plan', flat, batch)
  BY <1>1, <1>2, <1>12, <1>13, <1>14 DEF LaidOut, c, o
<1> QED BY <1>3, <1>15, <1>16

\* The workspaces are made to fit the forward's tiles.
LEMMA BeginTiles ==
  ASSUME DispatchShape, Routed(flat), TiledBegin
  PROVE  /\ DispatchShape' /\ Sized' /\ Counting(Index(NumTiles(flat)))'
         /\ UNCHANGED <<batch, flat, reuse>>
<1>1. PICK n \in Nat : n = Size(flat) /\ flat \in [Index(n) -> Expert] /\ DOMAIN flat = Index(n)
  BY RoutedIs
<1>2. NumTiles(flat) \in Nat
  BY <1>1, TilesAre
<1>3. PICK T \in Nat : T = NumTiles(flat)
  BY <1>2
<1> DEFINE s0 == Ensure(plan.slots, n, NoSlot)
           i0 == Ensure(plan.inverse, n, Undefined)
           d0 == Ensure(tiles.counts, T, NoRow)
           c0 == [t \in DOMAIN d0 |-> IF t < T THEN NoRow ELSE tiles.counts[t]]
           o0 == Ensure(tiles.offsets, T, NoRow)
<1>4. plan' = [slots |-> s0, inverse |-> i0, counts |-> plan.counts, offsets |-> plan.offsets]
  <2>1. plan' = [plan EXCEPT !.slots = s0, !.inverse = i0]
    BY <1>1 DEF TiledBegin, WithBuffers
  <2>2. plan = [slots |-> plan.slots, inverse |-> plan.inverse,
                counts |-> plan.counts, offsets |-> plan.offsets]
    BY DEF DispatchShape, PlanShape
  <2> HIDE DEF s0, i0
  <2> QED BY <2>1, <2>2
<1>5. tiles' = [counts |-> c0, offsets |-> o0] /\ UNCHANGED <<batch, flat, reuse>>
  BY <1>3 DEF TiledBegin
<1>6. /\ Tensor(s0) /\ Index(n) \subseteq DOMAIN s0
      /\ Tensor(i0) /\ Index(n) \subseteq DOMAIN i0
      /\ Tensor(d0) /\ Index(T) \subseteq DOMAIN d0
      /\ Tensor(o0) /\ Index(T) \subseteq DOMAIN o0
  BY EnsureIs DEF DispatchShape, PlanShape, TilesShape
<1>7. Tensor(c0) /\ DOMAIN c0 = DOMAIN d0
  <2>1. c0 = [t \in DOMAIN d0 |-> c0[t]]
    OBVIOUS
  <2> HIDE DEF c0, d0
  <2> QED BY <1>6, <2>1, InPlace
<1>8. \A t \in Index(T) : c0[t] = NoRow
  <2>1. \A t \in Index(T) : t < T /\ t \in DOMAIN d0
    BY <1>6 DEF Index
  <2> HIDE DEF d0
  <2> QED BY <2>1
<1> HIDE DEF s0, i0, c0, o0, d0
<1>9. /\ plan'.slots = s0 /\ plan'.inverse = i0 /\ plan'.counts = plan.counts /\ plan'.offsets = plan.offsets
      /\ tiles'.counts = c0 /\ tiles'.offsets = o0
  BY <1>4, <1>5
<1>10. PlanShape'
  BY <1>4, <1>6, <1>9 DEF DispatchShape, PlanShape
<1>11. TilesShape'
  BY <1>5, <1>6, <1>7, <1>9 DEF TilesShape
<1>12. Size(flat') = n /\ NumTiles(flat') = T /\ flat' = flat
  BY <1>1, <1>3, <1>5
<1>13. Sized'
  BY <1>6, <1>7, <1>9, <1>12 DEF Sized
<1>14. Counting(Index(NumTiles(flat)))'
  BY <1>8, <1>9, <1>12 DEF Counting
<1> QED BY <1>5, <1>10, <1>11, <1>13, <1>14 DEF DispatchShape

\* Steps that overwrite the row of one tile.
LEMMA RowWritten ==
  ASSUME DispatchShape, Sized, NEW t \in Index(NumTiles(flat)), NEW row,
         tiles' = [tiles EXCEPT !.counts[t] = row], UNCHANGED <<batch, flat, reuse, plan>>
  PROVE  /\ DispatchShape' /\ Sized'
         /\ tiles'.offsets = tiles.offsets /\ tiles'.counts[t] = row
         /\ \A u \in DOMAIN tiles.counts : u # t => tiles'.counts[u] = tiles.counts[u]
<1> DEFINE c == [tiles.counts EXCEPT ![t] = row]
<1>1. tiles = [counts |-> tiles.counts, offsets |-> tiles.offsets]
  BY DEF DispatchShape, TilesShape
<1>2. tiles' = [counts |-> c, offsets |-> tiles.offsets]
  BY <1>1
<1>3. t \in DOMAIN tiles.counts /\ Tensor(tiles.counts)
  BY DEF Sized, DispatchShape, TilesShape
<1>4. tiles.counts = [u \in DOMAIN tiles.counts |-> tiles.counts[u]]
  BY <1>3, TensorIs
<1>5. c = [u \in DOMAIN tiles.counts |-> c[u]]
  BY <1>4
<1>6. Tensor(c) /\ DOMAIN c = DOMAIN tiles.counts
  <2> HIDE DEF c
  <2> QED BY <1>3, <1>5, InPlace
<1>7. c[t] = row /\ \A u \in DOMAIN tiles.counts : u # t => c[u] = tiles.counts[u]
  BY <1>3, <1>4
<1> HIDE DEF c
<1>8. tiles'.counts = c /\ tiles'.offsets = tiles.offsets
  BY <1>2
<1>9. TilesShape'
  BY <1>2, <1>6, <1>8 DEF DispatchShape, TilesShape
<1>10. PlanShape'
  BY DEF DispatchShape, PlanShape
<1>11. Sized'
  BY <1>6, <1>8 DEF Sized
<1> QED BY <1>7, <1>8, <1>9, <1>10, <1>11 DEF DispatchShape

\* One tile counts its experts.
LEMMA HistogramStep ==
  ASSUME DispatchShape, Sized, Routed(flat), NEW G, Counting(G),
         NEW t \in Index(NumTiles(flat)), t \in G, TileHistogram(t)
  PROVE  /\ DispatchShape' /\ Sized' /\ Counting(G \ {t})'
         /\ UNCHANGED <<batch, flat, reuse, plan>>
<1> DEFINE row == [e \in Expert |-> tiles.counts[t][e] + Cardinality({i \in Sources(t) : flat[i] = e})]
<1>1. tiles' = [tiles EXCEPT !.counts[t] = row] /\ UNCHANGED <<batch, flat, reuse, plan>>
  BY DEF TileHistogram
<1>2. tiles.counts[t] = NoRow
  BY DEF Counting
<1>3. row = HereRow(t)
  <2>1. \A e \in Expert : HereRow(t)[e] = Cardinality(Here(e, t)) /\ HereRow(t)[e] \in Nat
    BY RowsTyped DEF HereRow
  <2>2. \A e : {i \in Sources(t) : flat[i] = e} = Here(e, t)
    BY DEF Here
  <2>3. \A e \in Expert : row[e] = HereRow(t)[e]
    <3> SUFFICES ASSUME NEW e \in Expert PROVE row[e] = HereRow(t)[e]
      OBVIOUS
    <3>1. tiles.counts[t][e] = 0
      BY <1>2 DEF NoRow
    <3>2. row[e] = tiles.counts[t][e] + Cardinality(Here(e, t))
      BY <2>2
    <3> QED BY <2>1, <3>1, <3>2
  <2>4. HereRow(t) = [e \in Expert |-> HereRow(t)[e]] /\ row = [e \in Expert |-> row[e]]
    BY DEF HereRow
  <2> HIDE DEF row
  <2> QED BY <2>3, <2>4
<1> HIDE DEF row
<1>4. /\ DispatchShape' /\ Sized' /\ tiles'.counts[t] = row
      /\ \A u \in DOMAIN tiles.counts : u # t => tiles'.counts[u] = tiles.counts[u]
  BY <1>1, RowWritten
<1>5. flat' = flat /\ \A u : HereRow(u)' = HereRow(u)
  BY <1>1 DEF HereRow, Here, Sources
<1>6. Counting(G \ {t})'
  <2> SUFFICES ASSUME NEW u \in Index(NumTiles(flat))
               PROVE  tiles'.counts[u] = IF u \in G \ {t} THEN NoRow ELSE HereRow(u)
    BY <1>5 DEF Counting
  <2>1. u \in DOMAIN tiles.counts
    BY DEF Sized
  <2> QED BY <1>3, <1>4, <2>1 DEF Counting
<1> QED BY <1>1, <1>4, <1>6

\* One tile finds where its experts start.
LEMMA StartStep ==
  ASSUME DispatchShape, Sized, Routed(flat), NEW G, Reserved, Starting(G),
         NEW t \in Index(NumTiles(flat)), t \in G, TileLocalStart(t)
  PROVE  /\ DispatchShape' /\ Sized' /\ Reserved' /\ Starting(G \ {t})'
         /\ UNCHANGED <<batch, flat, reuse, plan>>
<1> DEFINE row == [e \in Expert |-> Offsets(tiles.counts[t])[e]]
<1>1. tiles' = [tiles EXCEPT !.counts[t] = row] /\ UNCHANGED <<batch, flat, reuse, plan>>
  BY DEF TileLocalStart
<1>2. tiles.counts[t] = HereRow(t)
  BY DEF Starting
<1>3. row = BelowRow(t)
  <2>1. PICK n \in Nat : flat \in [Index(n) -> Expert]
    BY RoutedIs
  <2>2. \A e \in Expert : HereRow(t)[e] = Cardinality(Here(e, t))
    BY DEF HereRow
  <2>3. \A e \in Expert : Offsets(HereRow(t))[e] = Cardinality(HereBelow(e, t))
    BY <2>1, <2>2, StartsAre
  <2> QED BY <1>2, <2>3 DEF BelowRow
<1> HIDE DEF row
<1>4. /\ DispatchShape' /\ Sized' /\ tiles'.counts[t] = row /\ tiles'.offsets = tiles.offsets
      /\ \A u \in DOMAIN tiles.counts : u # t => tiles'.counts[u] = tiles.counts[u]
  BY <1>1, RowWritten
<1>5. /\ flat' = flat /\ plan' = plan
      /\ \A u : HereRow(u)' = HereRow(u) /\ BelowRow(u)' = BelowRow(u)
      /\ \A e, u : Earlier(e, u)' = Earlier(e, u)
  BY <1>1 DEF HereRow, Here, Sources, BelowRow, HereBelow, Earlier
<1>6. Starting(G \ {t})'
  <2> SUFFICES ASSUME NEW u \in Index(NumTiles(flat))
               PROVE  tiles'.counts[u] = IF u \in G \ {t} THEN HereRow(u) ELSE BelowRow(u)
    BY <1>5 DEF Starting
  <2>1. u \in DOMAIN tiles.counts
    BY DEF Sized
  <2> QED BY <1>3, <1>4, <2>1 DEF Starting
<1>7. Reserved'
  BY <1>4, <1>5 DEF Reserved
<1> QED BY <1>1, <1>4, <1>6, <1>7

\* What the reservation computes, as totals.
LEMMA ReserveIs ==
  ASSUME TileReserve
  PROVE  LET counts == IF reuse THEN Histogram(flat)
                       ELSE [e \in Expert |-> Total(Column(e), DOMAIN Column(e))]
         IN /\ plan' = [plan EXCEPT !.counts = counts, !.offsets = Offsets(counts)]
            /\ tiles' = [tiles EXCEPT !.offsets =
                          [t \in DOMAIN @ |->
                             IF t \in Index(NumTiles(flat))
                             THEN [e \in Expert |-> Total(Column(e), Index(t))]
                             ELSE @[t]]]
            /\ UNCHANGED <<batch, flat, reuse>>
BY DEF TileReserve, Column, FoldFunction, FoldFunctionOnSet, MapThenFoldSet, SumTable, First, Total

\* From the tiles' counts, the offsets of the forward and of each tile.
LEMMA ReserveStep ==
  ASSUME DispatchShape, Sized, Routed(flat), Counting({}), TileReserve
  PROVE  /\ DispatchShape' /\ Sized' /\ Reserved' /\ Starting(Index(NumTiles(flat)))'
         /\ UNCHANGED <<batch, flat, reuse>>
<1>1. PICK n \in Nat : flat \in [Index(n) -> Expert]
  BY RoutedIs
<1>2. \A e \in Expert, t \in Index(NumTiles(flat)) : tiles.counts[t][e] = Cardinality(Here(e, t))
  BY DEF Counting, HereRow
<1>3. ASSUME NEW e \in Expert
      PROVE  /\ \A t \in 0 .. NumTiles(flat) : Total(Column(e), Index(t)) = Cardinality(Earlier(e, t))
             /\ Total(Column(e), DOMAIN Column(e)) = Histogram(flat)[e]
  BY <1>1, <1>2, ColumnsAre
<1> DEFINE counts == IF reuse THEN Histogram(flat)
                     ELSE [e \in Expert |-> Total(Column(e), DOMAIN Column(e))]
           o0 == [t \in DOMAIN tiles.offsets |->
                    IF t \in Index(NumTiles(flat))
                    THEN [e \in Expert |-> Total(Column(e), Index(t))]
                    ELSE tiles.offsets[t]]
<1>4. /\ plan' = [plan EXCEPT !.counts = counts, !.offsets = Offsets(counts)]
      /\ tiles' = [tiles EXCEPT !.offsets = o0]
      /\ UNCHANGED <<batch, flat, reuse>>
  BY ReserveIs
<1>5. counts = Histogram(flat)
  <2>1. Histogram(flat) = [e \in Expert |-> Histogram(flat)[e]]
    BY DEF Histogram
  <2>2. [e \in Expert |-> Total(Column(e), DOMAIN Column(e))] = [e \in Expert |-> Histogram(flat)[e]]
    BY <1>3
  <2> QED BY <2>1, <2>2
<1> HIDE DEF counts
<1> DEFINE h == Histogram(flat)
           o == Offsets(h)
<1>6. h \in [Expert -> Nat] /\ o \in [0 .. NumExperts -> Nat]
  BY CountsTyped
<1> HIDE DEF h, o
<1>7. plan' = [slots |-> plan.slots, inverse |-> plan.inverse, counts |-> h, offsets |-> o]
  <2>1. plan = [slots |-> plan.slots, inverse |-> plan.inverse,
                counts |-> plan.counts, offsets |-> plan.offsets]
    BY DEF DispatchShape, PlanShape
  <2>2. plan' = [plan EXCEPT !.counts = h, !.offsets = o]
    BY <1>4, <1>5 DEF h, o
  <2> QED BY <2>1, <2>2, PlanFields
<1>8. tiles' = [counts |-> tiles.counts, offsets |-> o0]
  <2>1. tiles = [counts |-> tiles.counts, offsets |-> tiles.offsets]
    BY DEF DispatchShape, TilesShape
  <2> HIDE DEF o0
  <2> QED BY <1>4, <2>1
<1>9. Tensor(o0) /\ DOMAIN o0 = DOMAIN tiles.offsets
  <2>1. o0 = [t \in DOMAIN tiles.offsets |-> o0[t]]
    OBVIOUS
  <2>2. Tensor(tiles.offsets)
    BY DEF DispatchShape, TilesShape
  <2> HIDE DEF o0
  <2> QED BY <2>1, <2>2, InPlace
<1>10. ASSUME NEW t \in Index(NumTiles(flat)), NEW e \in Expert
       PROVE  o0[t][e] = Cardinality(Earlier(e, t))
  <2>1. t \in DOMAIN tiles.offsets
    BY DEF Sized
  <2>2. o0[t][e] = Total(Column(e), Index(t))
    BY <2>1
  <2>3. t \in 0 .. NumTiles(flat)
    BY <1>1, TilesAre DEF Index
  <2> HIDE DEF o0
  <2> QED BY <1>3, <2>2, <2>3
<1> HIDE DEF o0
<1>11. /\ plan'.slots = plan.slots /\ plan'.inverse = plan.inverse
       /\ plan'.counts = h /\ plan'.offsets = o
       /\ tiles'.counts = tiles.counts /\ tiles'.offsets = o0
  BY <1>7, <1>8
<1>12. PlanShape'
  BY <1>6, <1>7, <1>11 DEF DispatchShape, PlanShape
<1>13. TilesShape'
  BY <1>8, <1>9, <1>11 DEF DispatchShape, TilesShape
<1>14. Sized'
  BY <1>4, <1>9, <1>11 DEF Sized
<1>15. /\ flat' = flat
       /\ \A u : HereRow(u)' = HereRow(u) /\ BelowRow(u)' = BelowRow(u)
       /\ \A e, u : Earlier(e, u)' = Earlier(e, u)
  BY <1>4 DEF HereRow, Here, Sources, BelowRow, HereBelow, Earlier
<1>16. Reserved'
  BY <1>10, <1>11, <1>15 DEF Reserved, h, o
<1>17. Starting(Index(NumTiles(flat)))'
  BY <1>11, <1>15 DEF Starting, Counting
<1> QED BY <1>4, <1>12, <1>13, <1>14, <1>16, <1>17 DEF DispatchShape

\* The rows of the tiles say where the assignments go.
LEMMA DestinationsAre ==
  ASSUME Routed(flat), Reserved, Starting({}), NEW t \in Index(NumTiles(flat))
  PROVE  TileDestinations(t) = [i \in Sources(t) |-> StablePlace(flat)[i]]
<1>1. PICK n \in Nat : flat \in [Index(n) -> Expert]
  BY RoutedIs
<1>2. t \in Nat
  BY <1>1, TilesAre DEF Index
<1>3. \A e \in Expert : tiles.counts[t][e] = Cardinality(HereBelow(e, t))
  BY DEF Starting, BelowRow
<1>4. \A e \in Expert : tiles.offsets[t][e] = Cardinality(Earlier(e, t))
  BY DEF Reserved
<1> QED BY <1>1, <1>2, <1>3, <1>4, TilePlaces DEF Reserved

\* One tile packs its assignments, the last one lays the forward out.
LEMMA PackStep ==
  ASSUME DispatchShape, Sized, Routed(flat), Reserved, Starting({}), NEW G, Packing(G),
         NEW t \in Index(NumTiles(flat)), TilePack(t)
  PROVE  /\ DispatchShape' /\ Sized' /\ Reserved' /\ Starting({})' /\ Packing(G \ {t})'
         /\ UNCHANGED <<batch, flat, reuse, tiles>>
         /\ G \subseteq {t} => LaidOut(plan', flat, batch)
<1>1. PICK n \in Nat : n = Size(flat) /\ flat \in [Index(n) -> Expert] /\ DOMAIN flat = Index(n)
  BY RoutedIs
<1>2. PICK f : f = flat
  OBVIOUS
<1>3. PICK D : D = Sources(t)
  OBVIOUS
<1>4. PICK dest : dest = TileDestinations(t)
  OBVIOUS
<1>5. PICK p : p = plan
  OBVIOUS
<1>6. PICK q : q = Packed(p, dest)
  OBVIOUS
<1>7. plan' = q /\ UNCHANGED <<batch, flat, reuse, tiles>>
  BY <1>4, <1>5, <1>6 DEF TilePack
<1>8. dest = [i \in D |-> StablePlace(f)[i]]
  BY <1>2, <1>3, <1>4, DestinationsAre
<1>9. D \in SUBSET Index(n) /\ f \in [Index(n) -> Expert]
  BY <1>1, <1>2, <1>3, TilesAre
<1>10. /\ p = [slots |-> p.slots, inverse |-> p.inverse, counts |-> p.counts, offsets |-> p.offsets]
       /\ Tensor(p.slots) /\ Tensor(p.inverse)
       /\ Index(n) \subseteq DOMAIN p.slots /\ Index(n) \subseteq DOMAIN p.inverse
  BY <1>1, <1>5 DEF DispatchShape, PlanShape, Sized
<1>11. /\ q = [slots |-> q.slots, inverse |-> q.inverse, counts |-> p.counts, offsets |-> p.offsets]
       /\ Tensor(q.slots) /\ DOMAIN q.slots = DOMAIN p.slots
       /\ Tensor(q.inverse) /\ DOMAIN q.inverse = DOMAIN p.inverse
       /\ \A i \in D : Placed(q, f, batch, i)
       /\ \A i \in Index(n) \ D : Placed(p, f, batch, i) => Placed(q, f, batch, i)
  <2>1. /\ n \in Nat /\ f \in [Index(n) -> Expert] /\ f = flat
        /\ p = [slots |-> p.slots, inverse |-> p.inverse, counts |-> p.counts, offsets |-> p.offsets]
        /\ Tensor(p.slots) /\ Tensor(p.inverse)
        /\ Index(n) \subseteq DOMAIN p.slots /\ Index(n) \subseteq DOMAIN p.inverse
        /\ D \in SUBSET Index(n) /\ dest = [i \in D |-> StablePlace(f)[i]]
        /\ q = Packed(p, dest)
    BY <1>1, <1>2, <1>6, <1>8, <1>9, <1>10
  <2>2. PackedInto(p, q, n, f, D)
    BY ONLY <2>1, PackedIs
  <2> QED BY <2>2 DEF PackedInto
<1>12. q.counts = p.counts /\ q.offsets = p.offsets
  BY <1>11
<1>13. PlanShape'
  BY <1>5, <1>7, <1>11, <1>12 DEF DispatchShape, PlanShape
<1>14. TilesShape'
  BY <1>7 DEF DispatchShape, TilesShape
<1>15. Sized'
  BY <1>5, <1>7, <1>11 DEF Sized
<1>16. /\ \A u : HereRow(u)' = HereRow(u) /\ BelowRow(u)' = BelowRow(u)
       /\ \A e, u : Earlier(e, u)' = Earlier(e, u)
       /\ \A u : Sources(u)' = Sources(u)
  BY <1>7 DEF HereRow, Here, Sources, BelowRow, HereBelow, Earlier
<1>17. Reserved' /\ Starting({})'
  BY <1>5, <1>7, <1>12, <1>16 DEF Reserved, Starting
<1>18. Packing(G \ {t})'
  <2> SUFFICES ASSUME NEW u \in Index(NumTiles(flat)), u \notin G \ {t}, NEW i \in Sources(u)
               PROVE  Placed(q, f, batch, i)
    BY <1>2, <1>7, <1>16 DEF Packing
  <2>1. i \in Index(n)
    BY <1>1, TilesAre
  <2>2. CASE i \in D
    BY <1>11, <2>2
  <2>3. CASE i \notin D
    <3>1. u \notin G
      BY <1>3, <2>3
    <3>2. Placed(p, f, batch, i)
      BY <1>2, <1>5, <3>1 DEF Packing
    <3> QED BY <1>11, <2>1, <2>3, <3>2
  <2> QED BY <2>2, <2>3
<1>19. ASSUME G \subseteq {t} PROVE LaidOut(plan', flat, batch)
  <2>1. ASSUME NEW i \in Index(n) PROVE Placed(q, f, batch, i)
    <3>1. i \div TileSize \in Index(NumTiles(flat)) /\ i \in Sources(i \div TileSize)
      BY <1>1, TilesAre
    <3>2. CASE i \in D
      BY <1>11, <3>2
    <3>3. CASE i \notin D
      <4>1. i \div TileSize \notin G
        BY <1>3, <1>19, <3>1, <3>3
      <4>2. Placed(p, f, batch, i)
        BY <1>2, <1>5, <3>1, <4>1 DEF Packing
      <4> QED BY <1>11, <3>3, <4>2
    <3> QED BY <3>2, <3>3
  <2> QED BY <1>1, <1>2, <1>5, <1>7, <1>12, <2>1 DEF LaidOut, Reserved
<1> QED BY <1>7, <1>13, <1>14, <1>15, <1>17, <1>18, <1>19 DEF DispatchShape

\* A forward of no assignments is laid out at once.
LEMMA EmptyStep ==
  ASSUME DispatchShape, Routed(flat), NumTiles(flat) = 0, TiledEmpty
  PROVE  /\ DispatchShape' /\ LaidOut(plan', flat, batch)
         /\ UNCHANGED <<batch, flat, reuse, tiles>>
<1>1. PICK n \in Nat : flat \in [Index(n) -> Expert]
  BY RoutedIs
<1> DEFINE h == Histogram(flat)
           o == Offsets(h)
<1>2. h \in [Expert -> Nat] /\ o \in [0 .. NumExperts -> Nat]
  BY CountsTyped
<1>3. plan' = [plan EXCEPT !.counts = h, !.offsets = o] /\ UNCHANGED <<batch, flat, reuse, tiles>>
  BY DEF TiledEmpty
<1> HIDE DEF h, o
<1>4. plan' = [slots |-> plan.slots, inverse |-> plan.inverse, counts |-> h, offsets |-> o]
  <2>1. plan = [slots |-> plan.slots, inverse |-> plan.inverse,
                counts |-> plan.counts, offsets |-> plan.offsets]
    BY DEF DispatchShape, PlanShape
  <2> QED BY <1>3, <2>1, PlanFields
<1>5. /\ plan'.slots = plan.slots /\ plan'.inverse = plan.inverse
      /\ plan'.counts = h /\ plan'.offsets = o
  BY <1>4
<1>6. PlanShape' /\ TilesShape'
  BY <1>2, <1>3, <1>4, <1>5 DEF DispatchShape, PlanShape, TilesShape
<1>7. DOMAIN flat = {}
  <2>1. n = 0
    BY <1>1, TilesAre
  <2> QED BY <1>1, <2>1 DEF Index
<1>8. LaidOut(plan', flat, batch)
  BY <1>5, <1>7 DEF LaidOut, h, o
<1> QED BY <1>3, <1>6, <1>8 DEF DispatchShape

(* No two tiles write one slot.                                            *)
LEMMA DisjointTiles ==
  ASSUME Routed(flat), Reserved, Starting({})
  PROVE  \A t \in Index(NumTiles(flat)) :
           LET places == Range(TileDestinations(t)) IN
           /\ places \subseteq DOMAIN flat
           /\ Cardinality(places) = Cardinality(Sources(t))
           /\ \A u \in Index(t) : places \cap Range(TileDestinations(u)) = {}
<1>1. PICK n \in Nat : flat \in [Index(n) -> Expert] /\ DOMAIN flat = Index(n)
  BY RoutedIs
<1> DEFINE place == StablePlace(flat)
<1>2. /\ place \in [Index(n) -> Index(n)]
      /\ \A i, j \in Index(n) : place[i] = place[j] => i = j
  BY <1>1, PlacesAre
<1>3. \A t \in Index(NumTiles(flat)) : TileDestinations(t) = [i \in Sources(t) |-> place[i]]
  BY DestinationsAre
<1> HIDE DEF place
<1>4. \A t : Sources(t) \in SUBSET Index(n)
  BY <1>1, TilesAre
<1> SUFFICES ASSUME NEW t \in Index(NumTiles(flat))
             PROVE  /\ Range(TileDestinations(t)) \subseteq DOMAIN flat
                    /\ Cardinality(Range(TileDestinations(t))) = Cardinality(Sources(t))
                    /\ \A u \in Index(t) :
                         Range(TileDestinations(t)) \cap Range(TileDestinations(u)) = {}
  OBVIOUS
<1>5. \A u \in Index(NumTiles(flat)) : Range(TileDestinations(u)) = {place[i] : i \in Sources(u)}
  BY <1>3 DEF Range
<1>6. Range(TileDestinations(t)) \subseteq DOMAIN flat
  BY <1>1, <1>2, <1>4, <1>5
<1>7. Cardinality(Range(TileDestinations(t))) = Cardinality(Sources(t))
  <2> DEFINE S == Sources(t)
             R == Range(TileDestinations(t))
             m == [i \in S |-> place[i]]
  <2>1. IsFiniteSet(S)
    BY <1>4, Fewer
  <2>2. R = {place[i] : i \in S} /\ S \in SUBSET Index(n)
    BY <1>4, <1>5
  <2> HIDE DEF S, R
  <2>3. m \in Bijection(S, R)
    <3>1. m \in [S -> R]
      BY <2>2
    <3>2. \A a, b \in S : m[a] = m[b] => a = b
      BY <1>2, <2>2
    <3>3. \A r \in R : \E s \in S : m[s] = r
      BY <2>2
    <3> QED BY <3>1, <3>2, <3>3 DEF Bijection, Injection, Surjection, IsInjective
  <2>4. ExistsBijection(S, R)
    BY <2>3 DEF ExistsBijection
  <2> QED BY <2>1, <2>4, FS_Bijection DEF S, R
<1>8. ASSUME NEW u \in Index(t)
      PROVE  Range(TileDestinations(t)) \cap Range(TileDestinations(u)) = {}
  <2>1. u \in Index(NumTiles(flat)) /\ u # t
    <3>1. t \in Nat /\ t < NumTiles(flat) /\ NumTiles(flat) \in Nat
      BY <1>1, TilesAre DEF Index
    <3> QED BY <3>1 DEF Index
  <2>2. Sources(t) \cap Sources(u) = {}
    BY <2>1 DEF Sources
  <2> QED BY <1>2, <1>4, <1>5, <2>1, <2>2
<1> QED BY <1>6, <1>7, <1>8

-----------------------------------------------------------------------------
(* The stream: one rank for each kind of operation, lowest first.          *)

ExecKinds == {"descriptors", "gatherQueue", "downQueue", "counters", "event",
              "gather", "down", "merge"}
Kinds == ExecKinds \cup DispatchKinds

Rank(kind) ==
  CASE kind = "descriptors" -> 1
    [] kind = "gatherQueue" -> 2
    [] kind = "downQueue"   -> 3
    [] kind = "counters"    -> 4
    [] kind = "event"       -> 5
    [] kind = "gather"      -> 6
    [] kind = "down"        -> 7
    [] kind = "merge"       -> 8
    [] kind = "empty"       -> 9
    [] kind = "zero"        -> 9
    [] kind = "histogram"   -> 10
    [] kind = "reserve"     -> 11
    [] kind = "starts"      -> 12
    [] kind = "pack"        -> 13

Ranked(s) ==
  /\ IsSequence(s)
  /\ \A i \in 1 .. Len(s) : s[i].kind \in Kinds
  /\ \A i, j \in 1 .. Len(s) : i < j => Rank(s[i].kind) < Rank(s[j].kind)

KindsOf(s) == {s[i].kind : i \in 1 .. Len(s)}
Queued == KindsOf(stream)

\* The forward whose operations the executor's part of the stream holds.
Active == IF hpc \in {"dispatch", "schedule"} THEN batch - 1 ELSE batch

OpSize ==
  [kind \in Kinds |->
     CASE kind = "descriptors" -> Len(rows)
       [] kind \in {"gather", "gatherQueue"} -> Len(TileQueue(GatherBlocks))
       [] kind \in {"down", "downQueue"} -> Len(TileQueue(DownBlocks))
       [] kind \in {"counters", "event", "empty"} -> 0
       [] kind = "merge" -> Tokens(asked[Active])
       [] kind \in TileKernels \cup {"zero", "reserve"} -> NumTiles(flat)]

OpBatch == [kind \in Kinds |-> IF kind \in DispatchKinds THEN batch ELSE Active]

Described(s) ==
  \A i \in 1 .. Len(s) : s[i].size = OpSize[s[i].kind] /\ s[i].batch = OpBatch[s[i].kind]

Exec == Queued \cap ExecKinds
Dispatching == Queued \cap DispatchKinds

\* What the stream may hold while the host is where it is.
Phase ==
  /\ hpc \in {"rows", "fill"} => Queued = {}
  /\ hpc = "queue" => Exec \subseteq {"descriptors"}
  /\ hpc = "launch" => Exec \subseteq {"descriptors", "gatherQueue", "downQueue", "counters"}
  /\ hpc = "merge" => "merge" \notin Queued
  /\ hpc \notin {"queue", "launch", "merge"} /\ Exec # {} => "merge" \in Queued
  /\ Dispatching # {} => hpc = "schedule"
  /\ hpc = "schedule" /\ Queued # {} => Queued \cap {"empty", "pack"} # {}
  /\ "empty" \in Queued => Dispatching = {"empty"} /\ NumTiles(flat) = 0
  /\ Exec # {} /\ Dispatching # {} => Queued \cap {"zero", "empty"} # {}
  /\ "zero" \in Queued => "histogram" \in Queued
  /\ "histogram" \in Queued => "reserve" \in Queued
  /\ "reserve" \in Queued => "starts" \in Queued
  /\ "starts" \in Queued => "pack" \in Queued

StreamInv ==
  /\ Ranked(stream) /\ Described(stream)
  /\ grid \subseteq Grid(stream)
  /\ Phase

HostInv ==
  /\ asked \in Seq(Routing) /\ batch = Len(asked)
  /\ batch # 0 => flat = asked[batch]
  /\ batch = 0 => hpc = "idle" /\ stream = <<>>
  /\ IsSequence(out) /\ Len(out) = batch /\ raised \subseteq 1 .. batch
  /\ setup \in Setup
  /\ hpc \in {"idle", "dispatch", "schedule", "rows", "fill", "queue", "launch", "merge"}
  /\ event \in {"none", "pending", "done"}

DispatchInv ==
  /\ DispatchShape
  /\ Running("histogram") => Sized /\ Counting(grid)
  /\ Running("reserve") => Sized /\ Counting({})
  /\ Running("starts") => Sized /\ Reserved /\ Starting(grid)
  /\ Running("pack") => Sized /\ Reserved /\ Starting({}) /\ Packing(grid)
  /\ batch # 0 /\ hpc # "dispatch" /\ Dispatching = {} => LaidOut(plan, asked[batch], batch)
  /\ hpc \in {"dispatch", "schedule"} /\ Exec # {} => LaidOut(plan, asked[batch - 1], batch - 1)

Busy == hpc \in {"queue", "launch", "merge"} \/ Exec # {}

Descriptor == [expert : Expert \cup {Undefined}, offset : Nat, m : Nat, input : Nat]
Entry == [descriptor : Nat, m : Nat, n : Nat]

Fits(buffer, s) == Len(s) <= Len(buffer)
Staged(buffer, s) == Fits(buffer, s) /\ \A k \in 1 .. Len(s) : buffer[k] = s[k]

DescriptorList ==
  [k \in 1 .. Len(rows) |-> [expert |-> rows[k].expert, offset |-> rows[k].start,
                             m |-> rows[k].count, input |-> Active]]

\* A staging buffer and its device copy, before and after the copy runs.
Copied(kind, field, s) ==
  /\ Fits(dev[field], s)
  /\ kind \in Queued => Staged(host[field], s)
  /\ kind \notin Queued => Staged(dev[field], s)

BufferShape ==
  /\ host \in [descriptors : Seq(Descriptor), gather : Seq(Entry), down : Seq(Entry)]
  /\ dev \in [descriptors : Seq(Descriptor), gather : Seq(Entry), down : Seq(Entry),
              counter : [gather : Nat, down : Nat]]
  /\ \E n \in Nat : /\ intermediate \in [Index(n) -> [Index(GatherBlocks) -> Cell]]
                    /\ weighted = [s \in Index(n) |-> [b \in Index(DownBlocks) |-> weighted[s][b]]]
  /\ prog = [p \in Program |-> prog[p]]

ActiveSlots == Index(Size(asked[Active]))
RightCell(s) == [input |-> Active, expert |-> plan.slots[s].expert, token |-> plan.slots[s].token]
RightOutput(s) == [input |-> Active, expert |-> plan.slots[s].expert, token |-> plan.slots[s].token,
                   weight |-> plan.slots[s].weight]

TileRows(entry) ==
  {rows[entry.descriptor].start + r :
     r \in {r \in Index(rows[entry.descriptor].count) : r \div BlockM = entry.m}}

Gathered(j) ==
  LET entry == TileQueue(GatherBlocks)[j + 1] IN
  \A s \in TileRows(entry) : intermediate[s][entry.n] = RightCell(s)

Downed(j) ==
  LET entry == TileQueue(DownBlocks)[j + 1] IN
  \A s \in TileRows(entry) : weighted[s][entry.n] = RightOutput(s)

Held(kernel, j) == Running(kernel) /\ \E p \in grid : prog[p] = j

\* Rows, descriptors and queues are those of the active forward, from when they
\* are written until its last operation has run.
RowsKept == hpc = "fill" \/ Busy => rows = RoundRobinSchedule(plan.counts, plan.offsets)

DescriptorsCopied ==
  Busy => ActiveSlots \subseteq DOMAIN intermediate /\ Copied("descriptors", "descriptors", DescriptorList)

QueuesCopied ==
  Busy /\ hpc # "queue" => /\ Copied("gatherQueue", "gather", TileQueue(GatherBlocks))
                           /\ Copied("downQueue", "down", TileQueue(DownBlocks))

\* A tile that was claimed is done, or a program is at it.
GatherClaims ==
  "counters" \notin Queued /\ (hpc = "launch" \/ "gather" \in Queued) =>
    \A j \in Index(Len(TileQueue(GatherBlocks))) :
      j < dev.counter.gather => Gathered(j) \/ Held("gather", j)

DownClaims ==
  "counters" \notin Queued /\ (hpc = "launch" \/ "down" \in Queued) =>
    \A j \in Index(Len(TileQueue(DownBlocks))) :
      j < dev.counter.down => Downed(j) \/ Held("down", j)

AllGathered ==
  "down" \in Queued /\ "gather" \notin Queued =>
    \A s \in ActiveSlots, b \in Index(GatherBlocks) : intermediate[s][b] = RightCell(s)

AllDowned ==
  (hpc = "merge" \/ "merge" \in Queued) /\ "down" \notin Queued =>
    \A s \in ActiveSlots, b \in Index(DownBlocks) : weighted[s][b] = RightOutput(s)

ExecInv ==
  /\ BufferShape
  /\ Exec # {} => Active \in 1 .. batch
  /\ RowsKept /\ DescriptorsCopied /\ QueuesCopied
  /\ GatherClaims /\ DownClaims /\ AllGathered /\ AllDowned

RowOf(row, f) ==
  /\ row.expert \in Expert
  /\ row.start = Cardinality(Below(f, row.expert))
  /\ row.end = Cardinality(Below(f, row.expert + 1))
  /\ row.count = Histogram(f)[row.expert]

-----------------------------------------------------------------------------
\* The ranks, one by one.
LEMMA RankIs ==
  /\ Rank("descriptors") = 1 /\ Rank("gatherQueue") = 2 /\ Rank("downQueue") = 3
  /\ Rank("counters") = 4 /\ Rank("event") = 5 /\ Rank("gather") = 6 /\ Rank("down") = 7
  /\ Rank("merge") = 8 /\ Rank("empty") = 9 /\ Rank("zero") = 9 /\ Rank("histogram") = 10
  /\ Rank("reserve") = 11 /\ Rank("starts") = 12 /\ Rank("pack") = 13
BY DEF Rank

\* The executor's operations rank below those of the dispatch.
LEMMA KindsRanked ==
  /\ \A k \in Kinds : Rank(k) \in Nat
  /\ \A k \in ExecKinds : Rank(k) < 9
  /\ \A k \in DispatchKinds : 9 <= Rank(k)
  /\ ExecKinds \cap DispatchKinds = {}
<1>1. \A k \in ExecKinds : Rank(k) \in Nat /\ Rank(k) < 9
  BY RankIs DEF ExecKinds
<1>2. \A k \in DispatchKinds : Rank(k) \in Nat /\ 9 <= Rank(k)
  BY RankIs DEF DispatchKinds, TileKernels
<1>3. ExecKinds \cap DispatchKinds = {}
  BY DEF ExecKinds, DispatchKinds, TileKernels
<1> QED BY <1>1, <1>2, <1>3 DEF Kinds

\* A sequence's elements, and what is left when the first is taken.
LEMMA TailIs ==
  ASSUME NEW s, IsSequence(s), s # <<>>
  PROVE  /\ IsSequence(Tail(s)) /\ Len(s) \in Nat \ {0} /\ Len(Tail(s)) = Len(s) - 1
         /\ Head(s) = s[1] /\ \A i \in 1 .. Len(s) - 1 : Tail(s)[i] = s[i + 1]
<1>1. s \in Seq(Range(s))
  BY DEF IsSequence
<1>2. Len(s) \in Nat \ {0} /\ Len(Tail(s)) = Len(s) - 1 /\ Head(s) = s[1]
  BY <1>1
<1>3. \A i \in 1 .. Len(s) - 1 : Tail(s)[i] = s[i + 1]
  BY <1>1, <1>2
<1> QED BY <1>2, <1>3, TailIsSequence

\* The kinds left in a ranked stream when its head is taken.
LEMMA KindsTail ==
  ASSUME NEW s, Ranked(s), s # <<>>
  PROVE  /\ Ranked(Tail(s)) /\ Head(s).kind \in KindsOf(s)
         /\ KindsOf(Tail(s)) = KindsOf(s) \ {Head(s).kind}
         /\ \A k \in KindsOf(Tail(s)) : Rank(Head(s).kind) < Rank(k)
<1> DEFINE n == Len(s)
           t == Tail(s)
<1>1. /\ IsSequence(t) /\ n \in Nat \ {0} /\ Len(t) = n - 1 /\ Head(s) = s[1]
      /\ \A i \in 1 .. n - 1 : t[i] = s[i + 1]
  BY TailIs DEF Ranked
<1>2. /\ \A i \in 1 .. n : s[i].kind \in Kinds
      /\ \A i, j \in 1 .. n : i < j => Rank(s[i].kind) < Rank(s[j].kind)
  BY DEF Ranked
<1> HIDE DEF n, t
<1>3. \A i \in 1 .. n - 1 : i + 1 \in 1 .. n /\ 1 < i + 1
  BY <1>1
<1>4. 1 \in 1 .. n
  BY <1>1
<1>5. Ranked(t)
  <2>1. \A i \in 1 .. n - 1 : t[i].kind \in Kinds
    BY <1>1, <1>2, <1>3
  <2>2. \A i, j \in 1 .. n - 1 : i < j => i + 1 < j + 1
    BY <1>1
  <2>3. \A i, j \in 1 .. n - 1 : i < j => Rank(t[i].kind) < Rank(t[j].kind)
    BY <1>1, <1>2, <1>3, <2>2
  <2> QED BY <1>1, <2>1, <2>3 DEF Ranked
<1>6. \A k : k \in KindsOf(t) <=> \E i \in 1 .. n - 1 : k = s[i + 1].kind
  BY <1>1 DEF KindsOf
<1>7. \A k : k \in KindsOf(s) <=> \E i \in 1 .. n : k = s[i].kind
  BY DEF KindsOf, n
<1>8. \A k \in KindsOf(t) : Rank(s[1].kind) < Rank(k)
  BY <1>2, <1>3, <1>4, <1>6
<1>9. s[1].kind \in Kinds /\ Rank(s[1].kind) \in Nat
  BY <1>2, <1>4, KindsRanked
<1>10. s[1].kind \notin KindsOf(t)
  <2>1. ~(Rank(s[1].kind) < Rank(s[1].kind))
    BY <1>9
  <2> QED BY <2>1, <1>8
<1>11. \A i \in 1 .. n : i = 1 \/ (i - 1 \in 1 .. n - 1 /\ (i - 1) + 1 = i)
  BY <1>1
<1>12. \A k : k \in KindsOf(s) <=> (k = s[1].kind \/ k \in KindsOf(t))
  BY <1>3, <1>4, <1>6, <1>7, <1>11
<1> QED BY <1>1, <1>4, <1>5, <1>7, <1>8, <1>10, <1>12 DEF t

\* A single operation, and none.
LEMMA KindsNone == Ranked(<<>>) /\ KindsOf(<<>>) = {} /\ \A s : IsSequence(s) /\ KindsOf(s) = {} => s = <<>>
<1>1. IsSequence(<<>>)
  <2>1. <<>> \in Seq({})
    OBVIOUS
  <2> QED BY <2>1, SequenceOfItsRange
<1>2. ASSUME NEW s, IsSequence(s), KindsOf(s) = {} PROVE s = <<>>
  <2>1. s \in Seq(Range(s))
    BY <1>2 DEF IsSequence
  <2>2. 1 \notin 1 .. Len(s)
    BY <1>2 DEF KindsOf
  <2> QED BY <2>1, <2>2
<1>3. 1 .. Len(<<>>) = {}
  OBVIOUS
<1>4. Ranked(<<>>)
  BY <1>1, <1>3 DEF Ranked
<1>5. KindsOf(<<>>) = {}
  BY <1>3 DEF KindsOf
<1> QED BY <1>2, <1>4, <1>5

\* The kinds of a stream that is issued more.
LEMMA KindsAppend ==
  ASSUME NEW s, NEW t, Ranked(s), Ranked(t),
         \A a \in KindsOf(s), b \in KindsOf(t) : Rank(a) < Rank(b)
  PROVE  /\ Ranked(s \o t) /\ KindsOf(s \o t) = KindsOf(s) \cup KindsOf(t)
         /\ \A i \in 1 .. Len(s \o t) : \/ \E j \in 1 .. Len(s) : (s \o t)[i] = s[j]
                                       \/ \E j \in 1 .. Len(t) : (s \o t)[i] = t[j]
<1> DEFINE u == s \o t
           m == Len(s)
           n == Len(t)
<1>1. s \in Seq(Range(s) \cup Range(t)) /\ t \in Seq(Range(s) \cup Range(t))
  BY DEF Ranked, IsSequence
<1>2. /\ m \in Nat /\ n \in Nat /\ Len(u) = m + n
      /\ \A i \in 1 .. m + n : u[i] = IF i <= m THEN s[i] ELSE t[i - m]
  BY <1>1
<1>3. IsSequence(u)
  BY AppendKeepsHead DEF Ranked
<1> HIDE DEF m, n, u
<1>4. \A i \in 1 .. m + n : \/ i \in 1 .. m /\ u[i] = s[i]
                            \/ i - m \in 1 .. n /\ u[i] = t[i - m] /\ m < i
  BY <1>2
<1>5. /\ \A i \in 1 .. m : i \in 1 .. m + n /\ i <= m
      /\ \A i \in 1 .. n : i + m \in 1 .. m + n /\ ~(i + m <= m) /\ (i + m) - m = i
  BY <1>2
<1>6. /\ \A i \in 1 .. m : u[i] = s[i]
      /\ \A i \in 1 .. n : u[i + m] = t[i]
  BY <1>2, <1>5
<1>7. /\ \A k : k \in KindsOf(s) <=> \E i \in 1 .. m : k = s[i].kind
      /\ \A k : k \in KindsOf(t) <=> \E i \in 1 .. n : k = t[i].kind
      /\ \A k : k \in KindsOf(u) <=> \E i \in 1 .. m + n : k = u[i].kind
  BY <1>2 DEF KindsOf, m, n
<1>8. \A k : k \in KindsOf(u) <=> k \in KindsOf(s) \/ k \in KindsOf(t)
  BY <1>4, <1>5, <1>6, <1>7
<1>9. \A i \in 1 .. m + n : u[i].kind \in Kinds
  BY <1>4 DEF Ranked, m, n
<1>10. ASSUME NEW i \in 1 .. m + n, NEW j \in 1 .. m + n, i < j
       PROVE  Rank(u[i].kind) < Rank(u[j].kind)
  <2>1. CASE i \in 1 .. m /\ u[i] = s[i]
    <3>1. CASE j \in 1 .. m /\ u[j] = s[j]
      BY <1>10, <2>1, <3>1 DEF Ranked, m
    <3>2. CASE j - m \in 1 .. n /\ u[j] = t[j - m] /\ m < j
      BY <1>7, <2>1, <3>2
    <3> QED BY <1>4, <3>1, <3>2
  <2>2. CASE i - m \in 1 .. n /\ u[i] = t[i - m] /\ m < i
    <3>1. j - m \in 1 .. n /\ u[j] = t[j - m] /\ i - m < j - m
      <4>1. ~(j \in 1 .. m)
        BY <1>2, <1>10, <2>2
      <4>2. i - m < j - m
        BY <1>2, <1>10
      <4> QED BY <1>4, <4>1, <4>2
    <3> QED BY <2>2, <3>1 DEF Ranked, n
  <2> QED BY <1>4, <2>1, <2>2
<1>11. Ranked(u)
  BY <1>2, <1>3, <1>9, <1>10 DEF Ranked
<1>12. \A i \in 1 .. Len(u) : \/ \E j \in 1 .. m : u[i] = s[j]
                              \/ \E j \in 1 .. n : u[i] = t[j]
  BY <1>2, <1>4
<1> QED BY <1>8, <1>11, <1>12 DEF u, m, n

\* The operation that runs is the one of the lowest rank.
LEMMA HeadIs ==
  ASSUME NEW s, Ranked(s), s # <<>>
  PROVE  \A k : Head(s).kind = k <=> k \in KindsOf(s) /\ \A j \in KindsOf(s) : j = k \/ Rank(k) < Rank(j)
<1>1. /\ Head(s).kind \in KindsOf(s)
      /\ \A j \in KindsOf(s) : j = Head(s).kind \/ Rank(Head(s).kind) < Rank(j)
  BY KindsTail
<1>2. \A k \in KindsOf(s) : Rank(k) \in Nat
  BY KindsRanked DEF KindsOf, Ranked
<1>3. ASSUME NEW k \in KindsOf(s), \A j \in KindsOf(s) : j = k \/ Rank(k) < Rank(j)
      PROVE  Head(s).kind = k
  <2> SUFFICES ASSUME Head(s).kind # k PROVE FALSE
    OBVIOUS
  <2>1. Rank(k) < Rank(Head(s).kind) /\ Rank(Head(s).kind) < Rank(k)
    BY <1>1, <1>3
  <2> QED BY <1>1, <1>2, <2>1
<1> QED BY <1>1, <1>3

\* The running operation is the lowest in the stream.
LEMMA RunningIs ==
  ASSUME Ranked(stream)
  PROVE  /\ \A k : Running(k) <=> k \in Queued /\ \A j \in Queued : j = k \/ Rank(k) < Rank(j)
         /\ Drained <=> Queued = {}
<1>1. CASE stream = <<>>
  BY <1>1, KindsNone DEF Running, Drained, Queued
<1>2. CASE stream # <<>>
  <2>1. Head(stream).kind \in Queued
    BY <1>2, KindsTail DEF Queued
  <2> QED BY <1>2, <2>1, HeadIs DEF Queued, Running, Drained
<1> QED BY <1>1, <1>2

\* A short sequence of operations.
LEMMA OneOp ==
  ASSUME NEW x, x.kind \in Kinds
  PROVE  /\ Ranked(<<x>>) /\ KindsOf(<<x>>) = {x.kind}
         /\ \A i \in 1 .. Len(<<x>>) : <<x>>[i] = x
<1>1. IsSequence(<<x>>)
  <2>1. <<x>> \in Seq({x})
    OBVIOUS
  <2> QED BY <2>1, SequenceOfItsRange
<1>2. /\ 1 .. Len(<<x>>) = {1} /\ <<x>>[1] = x
  OBVIOUS
<1>3. \A i, j \in {1} : ~(i < j)
  OBVIOUS
<1>4. Ranked(<<x>>)
  BY <1>1, <1>2, <1>3 DEF Ranked
<1>5. KindsOf(<<x>>) = {x.kind}
  BY <1>2 DEF KindsOf
<1> QED BY <1>2, <1>4, <1>5

\* Two operations, in order.
LEMMA TwoOps ==
  ASSUME NEW x, NEW y, x.kind \in Kinds, y.kind \in Kinds, Rank(x.kind) < Rank(y.kind)
  PROVE  /\ Ranked(<<x, y>>) /\ KindsOf(<<x, y>>) = {x.kind, y.kind}
         /\ \A i \in 1 .. Len(<<x, y>>) : <<x, y>>[i] \in {x, y}
<1>1. IsSequence(<<x, y>>)
  <2>1. <<x, y>> \in Seq({x, y})
    OBVIOUS
  <2> QED BY <2>1, SequenceOfItsRange
<1>2. /\ 1 .. Len(<<x, y>>) = {1, 2} /\ <<x, y>>[1] = x /\ <<x, y>>[2] = y
  OBVIOUS
<1>3. \A i, j \in {1, 2} : i < j => i = 1 /\ j = 2
  OBVIOUS
<1>4. \A i \in {1, 2} : i = 1 \/ i = 2
  OBVIOUS
<1>5. Ranked(<<x, y>>)
  BY <1>1, <1>2, <1>3, <1>4 DEF Ranked
<1>6. KindsOf(<<x, y>>) = {x.kind, y.kind}
  BY <1>2 DEF KindsOf
<1> QED BY <1>2, <1>4, <1>5, <1>6

\* Three operations, in order.
LEMMA ThreeOps ==
  ASSUME NEW x, NEW y, NEW z, x.kind \in Kinds, y.kind \in Kinds, z.kind \in Kinds,
         Rank(x.kind) < Rank(y.kind), Rank(y.kind) < Rank(z.kind)
  PROVE  /\ Ranked(<<x, y, z>>) /\ KindsOf(<<x, y, z>>) = {x.kind, y.kind, z.kind}
         /\ \A i \in 1 .. Len(<<x, y, z>>) : <<x, y, z>>[i] \in {x, y, z}
<1>1. <<x, y, z>> = <<x, y>> \o <<z>>
  OBVIOUS
<1>2. Rank(x.kind) < Rank(z.kind)
  BY KindsRanked
<1>3. \A a \in {x.kind, y.kind}, b \in {z.kind} : Rank(a) < Rank(b)
  BY <1>2
<1>4. /\ Ranked(<<x, y>>) /\ KindsOf(<<x, y>>) = {x.kind, y.kind}
      /\ \A i \in 1 .. Len(<<x, y>>) : <<x, y>>[i] \in {x, y}
  BY TwoOps
<1>5. Ranked(<<z>>) /\ KindsOf(<<z>>) = {z.kind} /\ \A i \in 1 .. Len(<<z>>) : <<z>>[i] = z
  BY OneOp
<1>6. PICK s : s = <<x, y>>
  OBVIOUS
<1>7. PICK t : t = <<z>>
  OBVIOUS
<1>8. /\ Ranked(s \o t) /\ KindsOf(s \o t) = {x.kind, y.kind} \cup {z.kind}
      /\ \A i \in 1 .. Len(s \o t) : \/ \E j \in 1 .. Len(s) : (s \o t)[i] = s[j]
                                     \/ \E j \in 1 .. Len(t) : (s \o t)[i] = t[j]
  BY <1>3, <1>4, <1>5, <1>6, <1>7, KindsAppend
<1>9. \A i \in 1 .. Len(s \o t) : (s \o t)[i] \in {x, y, z}
  BY <1>4, <1>5, <1>6, <1>7, <1>8
<1> QED BY <1>1, <1>6, <1>7, <1>8, <1>9

\* Five operations, in order.
LEMMA FiveOps ==
  ASSUME NEW v, NEW w, NEW x, NEW y, NEW z,
         {v.kind, w.kind, x.kind, y.kind, z.kind} \subseteq Kinds,
         Rank(v.kind) < Rank(w.kind), Rank(w.kind) < Rank(x.kind), Rank(x.kind) < Rank(y.kind),
         Rank(y.kind) < Rank(z.kind)
  PROVE  /\ Ranked(<<v, w, x, y, z>>)
         /\ KindsOf(<<v, w, x, y, z>>) = {v.kind, w.kind, x.kind, y.kind, z.kind}
         /\ \A i \in 1 .. Len(<<v, w, x, y, z>>) : <<v, w, x, y, z>>[i] \in {v, w, x, y, z}
<1>1. <<v, w, x, y, z>> = <<v, w, x>> \o <<y, z>>
  OBVIOUS
<1>2. /\ Rank(v.kind) < Rank(y.kind) /\ Rank(v.kind) < Rank(z.kind)
      /\ Rank(w.kind) < Rank(y.kind) /\ Rank(w.kind) < Rank(z.kind)
      /\ Rank(x.kind) < Rank(z.kind)
  BY KindsRanked
<1>3. \A a \in {v.kind, w.kind, x.kind}, b \in {y.kind, z.kind} : Rank(a) < Rank(b)
  BY <1>2
<1>4. /\ Ranked(<<v, w, x>>) /\ KindsOf(<<v, w, x>>) = {v.kind, w.kind, x.kind}
      /\ \A i \in 1 .. Len(<<v, w, x>>) : <<v, w, x>>[i] \in {v, w, x}
  BY ThreeOps
<1>5. /\ Ranked(<<y, z>>) /\ KindsOf(<<y, z>>) = {y.kind, z.kind}
      /\ \A i \in 1 .. Len(<<y, z>>) : <<y, z>>[i] \in {y, z}
  BY TwoOps
<1>6. PICK s : s = <<v, w, x>>
  OBVIOUS
<1>7. PICK t : t = <<y, z>>
  OBVIOUS
<1>8. /\ Ranked(s \o t) /\ KindsOf(s \o t) = {v.kind, w.kind, x.kind} \cup {y.kind, z.kind}
      /\ \A i \in 1 .. Len(s \o t) : \/ \E j \in 1 .. Len(s) : (s \o t)[i] = s[j]
                                     \/ \E j \in 1 .. Len(t) : (s \o t)[i] = t[j]
  BY <1>3, <1>4, <1>5, <1>6, <1>7, KindsAppend
<1>9. \A i \in 1 .. Len(s \o t) : (s \o t)[i] \in {v, w, x, y, z}
  BY <1>4, <1>5, <1>6, <1>7, <1>8
<1> QED BY <1>1, <1>6, <1>7, <1>8, <1>9

\* What the host issues joins the end of the stream.
LEMMA Issued ==
  ASSUME Ranked(stream), grid \subseteq Grid(stream), NEW ops, Ranked(ops), Issue(ops),
         \A a \in Queued, b \in KindsOf(ops) : Rank(a) < Rank(b)
  PROVE  /\ Ranked(stream') /\ Queued' = Queued \cup KindsOf(ops)
         /\ grid' \subseteq Grid(stream')
         /\ ~Drained => Head(stream') = Head(stream) /\ grid' = grid /\ stream' # <<>>
         /\ \A i \in 1 .. Len(stream') : \/ \E j \in 1 .. Len(stream) : stream'[i] = stream[j]
                                         \/ \E j \in 1 .. Len(ops) : stream'[i] = ops[j]
<1>1. /\ stream' = stream \o ops
      /\ grid' = IF Drained THEN Grid(ops) ELSE grid
  BY DEF Issue
<1>2. /\ Ranked(stream \o ops) /\ KindsOf(stream \o ops) = KindsOf(stream) \cup KindsOf(ops)
      /\ \A i \in 1 .. Len(stream \o ops) : \/ \E j \in 1 .. Len(stream) : (stream \o ops)[i] = stream[j]
                                            \/ \E j \in 1 .. Len(ops) : (stream \o ops)[i] = ops[j]
  BY KindsAppend DEF Queued
<1>3. IsSequence(stream) /\ IsSequence(ops)
  BY DEF Ranked
<1>4. CASE Drained
  <2>1. stream \o ops = ops
    <3>1. ops \in Seq(Range(ops)) /\ stream = <<>>
      BY <1>3, <1>4 DEF Drained, IsSequence
    <3> QED BY <3>1
  <2> QED BY <1>1, <1>2, <1>4, <2>1 DEF Queued
<1>5. CASE ~Drained
  <2>1. stream \o ops # <<>> /\ Head(stream \o ops) = Head(stream)
    BY <1>3, <1>5, AppendKeepsHead DEF Drained
  <2>2. Grid(stream \o ops) = Grid(stream)
    BY <1>5, <2>1 DEF Grid, Drained
  <2> QED BY <1>1, <1>2, <1>5, <2>1, <2>2 DEF Queued
<1> QED BY <1>4, <1>5

\* The running operation ends.
LEMMA Popped ==
  ASSUME Ranked(stream), ~Drained, Pop
  PROVE  /\ Ranked(stream') /\ Queued' = Queued \ {Head(stream).kind} /\ Head(stream).kind \in Queued
         /\ grid' \subseteq Grid(stream')
         /\ \A k \in Queued' : Rank(Head(stream).kind) < Rank(k)
         /\ \A i \in 1 .. Len(stream') : \E j \in 1 .. Len(stream) : stream'[i] = stream[j]
<1>1. stream # <<>> /\ stream' = Tail(stream) /\ grid' = Grid(Tail(stream))
  BY DEF Drained, Pop
<1>2. /\ Ranked(Tail(stream)) /\ Head(stream).kind \in KindsOf(stream)
      /\ KindsOf(Tail(stream)) = KindsOf(stream) \ {Head(stream).kind}
      /\ \A k \in KindsOf(Tail(stream)) : Rank(Head(stream).kind) < Rank(k)
  BY <1>1, KindsTail
<1>3. \A i \in 1 .. Len(Tail(stream)) : \E j \in 1 .. Len(stream) : Tail(stream)[i] = stream[j]
  <2>1. /\ Len(stream) \in Nat \ {0} /\ Len(Tail(stream)) = Len(stream) - 1
        /\ \A i \in 1 .. Len(stream) - 1 : Tail(stream)[i] = stream[i + 1]
    BY <1>1, TailIs DEF Ranked
  <2>2. \A i \in 1 .. Len(stream) - 1 : i + 1 \in 1 .. Len(stream)
    BY <2>1
  <2> QED BY <2>1, <2>2
<1> QED BY <1>1, <1>2, <1>3 DEF Queued

\* What describes the operations in the stream does not move under them.
LEMMA ExecOpsStay ==
  ASSUME UNCHANGED rows, Active' = Active, asked'[Active] = asked[Active]
  PROVE  \A k \in ExecKinds : OpSize'[k] = OpSize[k] /\ OpBatch'[k] = OpBatch[k]
<1>1. \A n : TileQueue(n)' = TileQueue(n)
  BY DEF TileQueue
<1>2. \A k \in ExecKinds : k \notin TileKernels \cup {"zero", "reserve"} /\ k \notin DispatchKinds
  BY DEF ExecKinds, TileKernels, DispatchKinds
<1>3. TileQueue(GatherBlocks)' = TileQueue(GatherBlocks) /\ TileQueue(DownBlocks)' = TileQueue(DownBlocks)
  BY DEF TileQueue
<1>4. \A k \in ExecKinds : OpBatch'[k] = OpBatch[k]
  BY <1>2 DEF OpBatch, Kinds
<1>5. Tokens(asked[Active])' = Tokens(asked[Active])
  OBVIOUS
<1>6. \A k \in ExecKinds : OpSize'[k] = OpSize[k]
  <2> SUFFICES ASSUME NEW k \in ExecKinds PROVE OpSize'[k] = OpSize[k]
    OBVIOUS
  <2>1. CASE k = "descriptors"
    BY <2>1 DEF OpSize, Kinds, ExecKinds
  <2>2. CASE k \in {"gather", "gatherQueue"}
    BY <2>2, <1>3 DEF OpSize, Kinds, ExecKinds
  <2>3. CASE k \in {"down", "downQueue"}
    BY <2>3, <1>3 DEF OpSize, Kinds, ExecKinds
  <2>4. CASE k \in {"counters", "event"}
    BY <2>4 DEF OpSize, Kinds, ExecKinds
  <2>5. CASE k = "merge"
    BY <2>5, <1>5 DEF OpSize, Kinds, ExecKinds
  <2> QED BY <2>1, <2>2, <2>3, <2>4, <2>5 DEF ExecKinds
<1> QED BY <1>4, <1>6

\* The same of the operations of the dispatch.
LEMMA DispatchOpsStay ==
  ASSUME UNCHANGED <<flat, batch>>
  PROVE  \A k \in DispatchKinds : OpSize'[k] = OpSize[k] /\ OpBatch'[k] = OpBatch[k]
<1>1. \A k \in DispatchKinds : OpBatch'[k] = OpBatch[k]
  BY DEF OpBatch, Kinds
<1>2. NumTiles(flat)' = NumTiles(flat)
  OBVIOUS
<1>3. \A k \in DispatchKinds : OpSize'[k] = OpSize[k]
  <2> SUFFICES ASSUME NEW k \in DispatchKinds PROVE OpSize'[k] = OpSize[k]
    OBVIOUS
  <2>1. CASE k = "empty"
    BY <2>1 DEF OpSize, TileKernels, Kinds, DispatchKinds
  <2>2. CASE k \in TileKernels \cup {"zero", "reserve"}
    <3>1. k \notin {"descriptors", "gather", "gatherQueue", "down", "downQueue", "counters", "event", "empty", "merge"}
      BY <2>2 DEF TileKernels
    <3>2. OpSize[k] = NumTiles(flat) /\ OpSize'[k] = NumTiles(flat)'
      BY <2>2, <3>1 DEF OpSize, Kinds, DispatchKinds, TileKernels
    <3> QED BY <1>2, <3>2
  <2> QED BY <2>1, <2>2 DEF DispatchKinds
<1> QED BY <1>1, <1>3

\* The stream after an operation is issued or ends.
LEMMA StillDescribed ==
  ASSUME Ranked(stream), Described(stream), NEW ops,
         \A k \in Queued : OpSize'[k] = OpSize[k] /\ OpBatch'[k] = OpBatch[k],
         \A i \in 1 .. Len(ops) : ops[i].size = OpSize'[ops[i].kind] /\ ops[i].batch = OpBatch'[ops[i].kind],
         \A i \in 1 .. Len(stream') : \/ \E j \in 1 .. Len(stream) : stream'[i] = stream[j]
                                      \/ \E j \in 1 .. Len(ops) : stream'[i] = ops[j]
  PROVE  Described(stream)'
<1> SUFFICES ASSUME NEW i \in 1 .. Len(stream')
             PROVE  stream'[i].size = OpSize'[stream'[i].kind] /\ stream'[i].batch = OpBatch'[stream'[i].kind]
  BY DEF Described
<1>1. CASE \E j \in 1 .. Len(stream) : stream'[i] = stream[j]
  <2>1. PICK j \in 1 .. Len(stream) : stream'[i] = stream[j]
    BY <1>1
  <2>2. PICK op : op = stream[j]
    OBVIOUS
  <2>3. op.kind \in Queued /\ op.size = OpSize[op.kind] /\ op.batch = OpBatch[op.kind]
    BY <2>2 DEF Queued, KindsOf, Described
  <2>4. op.size = OpSize'[op.kind] /\ op.batch = OpBatch'[op.kind] /\ stream'[i] = op
    BY <2>1, <2>2, <2>3
  <2> QED BY <2>4
<1>2. CASE \E j \in 1 .. Len(ops) : stream'[i] = ops[j]
  <2>1. PICK j \in 1 .. Len(ops) : stream'[i] = ops[j]
    BY <1>2
  <2>2. PICK op : op = ops[j]
    OBVIOUS
  <2>3. op.size = OpSize'[op.kind] /\ op.batch = OpBatch'[op.kind] /\ stream'[i] = op
    BY <2>1, <2>2
  <2> QED BY <2>3
<1> QED BY <1>1, <1>2

\* A sequence with one element replaced.
LEMMA ExceptKeeps ==
  ASSUME NEW s, IsSequence(s), NEW i, NEW v
  PROVE  IsSequence([s EXCEPT ![i] = v]) /\ Len([s EXCEPT ![i] = v]) = Len(s)
<1> DEFINE t == [s EXCEPT ![i] = v]
<1>1. s \in Seq(Range(s) \cup {v})
  BY DEF IsSequence
<1>2. DOMAIN s = 1 .. Len(s) /\ Len(s) \in Nat /\ \A k \in 1 .. Len(s) : s[k] \in Range(s) \cup {v}
  BY <1>1
<1>3. t = [k \in 1 .. Len(s) |-> IF k = i THEN v ELSE s[k]]
  BY <1>1, <1>2
<1>4. t \in [1 .. Len(s) -> Range(s) \cup {v}]
  BY <1>2, <1>3
<1> HIDE DEF t
<1>5. t \in Seq(Range(s) \cup {v}) /\ Len(t) = Len(s)
  BY <1>2, <1>4
<1> QED BY <1>5, SequenceOfItsRange DEF t

\* A sequence with one element more.
LEMMA AppendIs ==
  ASSUME NEW s, IsSequence(s), NEW x
  PROVE  /\ IsSequence(Append(s, x)) /\ Len(s) \in Nat /\ Len(Append(s, x)) = Len(s) + 1
         /\ Append(s, x)[Len(s) + 1] = x
         /\ \A i \in 1 .. Len(s) : Append(s, x)[i] = s[i]
<1>1. s \in Seq(Range(s) \cup {x})
  BY DEF IsSequence
<1>2. /\ Append(s, x) \in Seq(Range(s) \cup {x}) /\ Len(s) \in Nat /\ Len(Append(s, x)) = Len(s) + 1
      /\ Append(s, x)[Len(s) + 1] = x /\ \A i \in 1 .. Len(s) : Append(s, x)[i] = s[i]
  BY <1>1
<1> QED BY <1>2, SequenceOfItsRange

\* The host, before its first forward.
LEMMA HostInitially == Init => HostInv
<1> SUFFICES ASSUME Init PROVE HostInv
  OBVIOUS
<1>1. IsSequence(out)
  BY KindsNone DEF Init, Ranked
<1>2. asked \in Seq(Routing) /\ Len(asked) = 0 /\ Len(out) = 0 /\ batch = 0
  BY DEF Init, DispatchInit
<1> QED BY <1>1, <1>2 DEF Init, HostInv

\* The host's own state through every step.
LEMMA HostKept == ASSUME HostInv, [Next]_vars PROVE HostInv'
<1>1. ASSUME NEW f \in Routing, StartForward(f) PROVE HostInv'
  <2>1. /\ asked' = Append(asked, f) /\ batch' = batch + 1 /\ flat' = f /\ hpc' = "dispatch"
        /\ UNCHANGED <<setup, event, raised>>
    BY <1>1 DEF StartForward
  <2>2. asked' \in Seq(Routing) /\ Len(asked') = batch + 1 /\ asked'[batch + 1] = f /\ batch \in Nat
    BY <2>1 DEF HostInv
  <2>3. IsSequence(out') /\ Len(out') = batch + 1
    BY <1>1, AppendIs DEF StartForward, HostInv
  <2>4. raised' \subseteq 1 .. batch + 1
    BY <2>1, <2>2 DEF HostInv
  <2>5. batch' # 0
    BY <2>1, <2>2
  <2> QED BY <2>1, <2>2, <2>3, <2>4, <2>5 DEF HostInv
<1>2. ASSUME UNCHANGED <<batch, flat, asked>>,
             hpc' \in {"idle", "dispatch", "schedule", "rows", "fill", "queue", "launch", "merge"},
             event' \in {"none", "pending", "done"}, setup' = setup,
             raised' \in {raised, raised \cup {batch}}, IsSequence(out'), Len(out') = Len(out),
             batch # 0
      PROVE  HostInv'
  <2>1. batch \in 1 .. batch
    BY <1>2 DEF HostInv
  <2>2. raised' \subseteq 1 .. batch
    BY <1>2, <2>1 DEF HostInv
  <2> QED BY <1>2, <2>2 DEF HostInv
<1>3. CASE HostStep
  <2>1. batch # 0
    BY <1>3 DEF HostInv, HostStep, DispatchHost, DispatchTiled, Schedule, RowRaise, RowRun, RowsDone,
                LimitRaise, Fill, Queue, Launch, Merge
  <2>2. CASE RowRun
    <3>1. PICK v : out' = [out EXCEPT ![batch] = v]
      BY <2>2 DEF RowRun
    <3>2. IsSequence(out') /\ Len(out') = Len(out)
      BY <3>1, ExceptKeeps DEF HostInv
    <3> QED BY <1>2, <2>1, <2>2, <3>2 DEF RowRun, HostInv, dispatchVars
  <2>3. CASE RowRaise \/ LimitRaise
    BY <1>2, <2>1, <2>3 DEF RowRaise, LimitRaise, Raise, HostInv, dispatchVars
  <2>4. CASE DispatchHost
    <3>1. UNCHANGED <<batch, flat, asked, event, setup, raised, out>> /\ hpc' = "schedule"
      BY <2>4 DEF DispatchHost, DispatchOnHost
    <3> QED BY <1>2, <2>1, <3>1 DEF HostInv
  <2>5. CASE DispatchTiled
    BY <1>2, <2>1, <2>5 DEF DispatchTiled, HostInv, dispatchVars
  <2>6. CASE Schedule
    BY <1>2, <2>1, <2>6 DEF Schedule, HostInv, dispatchVars
  <2>7. CASE RowsDone
    BY <1>2, <2>1, <2>7 DEF RowsDone, HostInv, dispatchVars
  <2>8. CASE Fill
    BY <1>2, <2>1, <2>8 DEF Fill, HostInv, dispatchVars
  <2>9. CASE Queue
    BY <1>2, <2>1, <2>9 DEF Queue, HostInv, dispatchVars
  <2>10. CASE Launch
    BY <1>2, <2>1, <2>10 DEF Launch, HostInv, dispatchVars
  <2>11. CASE Merge
    BY <1>2, <2>1, <2>11 DEF Merge, HostInv, dispatchVars
  <2> QED BY <1>3, <2>2, <2>3, <2>4, <2>5, <2>6, <2>7, <2>8, <2>9, <2>10, <2>11 DEF HostStep
<1>4. CASE DeviceStep
  <2>1. ASSUME NEW t \in grid, TileProgram(t) PROVE HostInv'
    <3>1. UNCHANGED <<batch, flat>>
      BY <2>1 DEF TileProgram, TileHistogram, TileLocalStart, TilePack
    <3>2. batch # 0
      BY <2>1 DEF HostInv, TileProgram, Running, Drained
    <3> QED BY <1>2, <2>1, <3>1, <3>2 DEF TileProgram, HostRest, HostInv
  <2>2. CASE DispatchOp
    <3>1. UNCHANGED <<batch, flat>>
      BY <2>2 DEF DispatchOp, TiledBegin, TileReserve, TiledEmpty
    <3>2. batch # 0
      BY <2>2 DEF HostInv, DispatchOp, Running, Drained
    <3> QED BY <1>2, <2>2, <3>1, <3>2 DEF DispatchOp, HostRest, HostInv
  <2>3. CASE CopyOp
    <3>1. batch # 0
      BY <2>3 DEF HostInv, CopyOp, Running, Drained
    <3> QED BY <1>2, <2>3, <3>1 DEF CopyOp, HostRest, HostInv, dispatchVars
  <2>4. CASE EventOp
    <3>1. batch # 0
      BY <2>4 DEF HostInv, EventOp, Running, Drained
    <3> QED BY <1>2, <2>4, <3>1 DEF EventOp, HostRest, HostInv, dispatchVars
  <2>5. CASE MergeOp
    <3>1. batch # 0
      BY <2>5 DEF HostInv, MergeOp, Running, Drained
    <3>2. IsSequence(out') /\ Len(out') = Len(out)
      BY <2>5, ExceptKeeps DEF MergeOp, HostInv
    <3> QED BY <1>2, <2>5, <3>1, <3>2 DEF MergeOp, HostRest, HostInv, dispatchVars
  <2>6. ASSUME NEW p \in Program, ClaimTile(p) \/ WorkTile(p) \/ ExitKernel(p) PROVE HostInv'
    <3>1. UNCHANGED <<batch, flat, asked, hpc, setup, event, raised, out>>
      BY <2>6 DEF ClaimTile, WorkTile, ExitKernel, dispatchVars, hostVars, HostRest
    <3>2. stream # <<>>
      BY <2>6 DEF ClaimTile, WorkTile, ExitKernel, Running, Drained
    <3>3. batch # 0
      BY <3>2 DEF HostInv
    <3> QED BY <1>2, <3>1, <3>3 DEF HostInv
  <2> QED BY <1>4, <2>1, <2>2, <2>3, <2>4, <2>5, <2>6 DEF DeviceStep
<1>5. CASE UNCHANGED vars
  BY <1>5 DEF HostInv, vars, dispatchVars, hostVars
<1> QED BY <1>1, <1>3, <1>4, <1>5 DEF Next

-----------------------------------------------------------------------------
\* What is queued has a rank.
LEMMA QueuedIs == Ranked(stream) => Queued \subseteq Kinds /\ \A k \in Queued : Rank(k) \in Nat
BY KindsRanked DEF Ranked, Queued, KindsOf

\* An operation that ends leaves a stream the host may have left.
LEMMA PopKeepsPhase ==
  ASSUME Ranked(stream), ~Drained, Pop, Phase, UNCHANGED <<hpc, flat>>
  PROVE  Phase'
<1> DEFINE h == Head(stream).kind
<1>1. Queued' = Queued \ {h} /\ h \in Queued /\ \A k \in Queued' : Rank(h) < Rank(k)
  BY Popped
<1>2. \A k \in Queued : Rank(k) \in Nat
  BY QueuedIs
<1>3. PICK Q, R : Q = Queued /\ R = Queued'
  OBVIOUS
<1>4. PICK g : g = h
  OBVIOUS
<1> HIDE DEF h
<1>5. R = Q \ {g} /\ g \in Q /\ (\A k \in R : Rank(g) < Rank(k)) /\ (\A k \in Q : Rank(k) \in Nat)
  BY <1>1, <1>2, <1>3, <1>4
<1>6. /\ Exec = Q \cap ExecKinds /\ Dispatching = Q \cap DispatchKinds
      /\ Exec' = R \cap ExecKinds /\ Dispatching' = R \cap DispatchKinds
  BY <1>3 DEF Exec, Dispatching
<1>7. /\ hpc \notin {"rows", "fill"}
      /\ hpc = "queue" => Exec' \subseteq {"descriptors"}
      /\ hpc = "launch" => Exec' \subseteq {"descriptors", "gatherQueue", "downQueue", "counters"}
      /\ hpc = "merge" => "merge" \notin Q
  BY <1>3, <1>5, <1>6 DEF Phase
<1>8. hpc \notin {"queue", "launch", "merge"} /\ Exec' # {} => "merge" \in R
  <2> SUFFICES ASSUME hpc \notin {"queue", "launch", "merge"}, Exec' # {}, "merge" \notin R PROVE FALSE
    OBVIOUS
  <2>1. Exec # {}
    BY <1>5, <1>6
  <2>2. "merge" \in Q
    BY <1>3, <2>1 DEF Phase
  <2>3. g = "merge"
    BY <1>5, <2>2
  <2>4. \A k \in R : 8 < Rank(k)
    BY <1>5, <2>3, RankIs
  <2>5. \A k \in Exec' : 8 < Rank(k) /\ Rank(k) < 9 /\ Rank(k) \in Nat
    BY <1>5, <1>6, <2>4, KindsRanked
  <2> QED BY <2>5
<1>9. (Dispatching' # {} => hpc = "schedule") /\ ("empty" \in R => Dispatching' = {"empty"} /\ NumTiles(flat) = 0)
  <2>1. Dispatching' \subseteq Dispatching
    BY <1>5, <1>6
  <2>2. "empty" \in DispatchKinds
    BY DEF DispatchKinds
  <2>3. "empty" \in R => Dispatching = {"empty"} /\ NumTiles(flat) = 0
    BY <1>3, <1>5 DEF Phase
  <2>4. "empty" \in R => "empty" \in Dispatching'
    BY <1>6, <2>2
  <2>5. Dispatching # {} => hpc = "schedule"
    BY DEF Phase
  <2>6. Dispatching' # {} => hpc = "schedule"
    BY <2>1, <2>5
  <2>7. "empty" \in R => Dispatching' = {"empty"}
    BY <2>1, <2>3, <2>4
  <2> QED BY <2>3, <2>6, <2>7
<1>10. hpc = "schedule" /\ R # {} => R \cap {"empty", "pack"} # {}
  <2> SUFFICES ASSUME hpc = "schedule", R # {}, R \cap {"empty", "pack"} = {} PROVE FALSE
    OBVIOUS
  <2>1. Q \cap {"empty", "pack"} # {}
    BY <1>3, <1>5 DEF Phase
  <2>2. g \in {"empty", "pack"}
    BY <1>5, <2>1
  <2>3. \A k \in R : 9 < Rank(k) /\ Rank(k) \in Nat
    BY <1>5, <2>2, RankIs
  <2>4. CASE g = "pack"
    <3>1. \A k \in R : 13 < Rank(k) /\ k \in Kinds
      BY <1>3, <1>5, <2>4, RankIs, QueuedIs
    <3> QED BY <3>1, RankIs DEF Kinds, ExecKinds, DispatchKinds, TileKernels
  <2>5. CASE g = "empty"
    <3>1. Dispatching = {"empty"}
      BY <1>3, <1>5, <2>5 DEF Phase
    <3>2. Dispatching' = {}
      BY <1>5, <1>6, <2>5, <3>1
    <3>3. \A k \in R : k \in ExecKinds
      BY <1>3, <1>5, <1>6, <3>2, QueuedIs DEF Kinds
    <3>4. \A k \in R : 9 < Rank(k) /\ Rank(k) < 9
      BY <2>3, <3>3, KindsRanked
    <3> QED BY <2>3, <3>4
  <2> QED BY <2>2, <2>4, <2>5
<1>11. /\ "zero" \in R => "histogram" \in R
       /\ "histogram" \in R => "reserve" \in R
       /\ "reserve" \in R => "starts" \in R
       /\ "starts" \in R => "pack" \in R
  <2>1. /\ "zero" \in Q => "histogram" \in Q
        /\ "histogram" \in Q => "reserve" \in Q
        /\ "reserve" \in Q => "starts" \in Q
        /\ "starts" \in Q => "pack" \in Q
    BY <1>3 DEF Phase
  <2>2. g = "histogram" => "zero" \notin R
    BY <1>5, RankIs
  <2>3. g = "reserve" => "histogram" \notin R
    BY <1>5, RankIs
  <2>4. g = "starts" => "reserve" \notin R
    BY <1>5, RankIs
  <2>5. g = "pack" => "starts" \notin R
    BY <1>5, RankIs
  <2> QED BY <1>5, <2>1, <2>2, <2>3, <2>4, <2>5
<1>12. hpc = "merge" => "merge" \notin R
  BY <1>5, <1>7
<1>13. Exec' # {} /\ Dispatching' # {} => R \cap {"zero", "empty"} # {}
  <2> SUFFICES ASSUME Exec' # {}, Dispatching' # {}, R \cap {"zero", "empty"} = {} PROVE FALSE
    OBVIOUS
  <2>1. Exec # {} /\ Dispatching # {}
    BY <1>5, <1>6
  <2>2. Q \cap {"zero", "empty"} # {}
    BY <1>3, <2>1 DEF Phase
  <2>3. g \in {"zero", "empty"}
    BY <1>5, <2>2
  <2>4. \A k \in R : 9 < Rank(k)
    BY <1>5, <2>3, RankIs
  <2>5. \A k \in Exec' : 9 < Rank(k) /\ Rank(k) < 9 /\ Rank(k) \in Nat
    BY <1>5, <1>6, <2>4, KindsRanked
  <2> QED BY <2>5
<1> QED BY <1>3, <1>7, <1>8, <1>9, <1>10, <1>11, <1>12, <1>13 DEF Phase

\* What every step of the device leaves alone.
LEMMA DeviceFrame ==
  ASSUME DeviceStep
  PROVE  /\ UNCHANGED <<hpc, asked, batch, flat, rows, raised, setup, reuse>>
         /\ ~Drained
         /\ Pop \/ (stream' = stream /\ grid' \subseteq grid)
<1>1. ASSUME NEW t \in grid, TileProgram(t)
      PROVE  /\ UNCHANGED <<hpc, asked, batch, flat, rows, raised, setup, reuse>> /\ ~Drained
             /\ Pop \/ (stream' = stream /\ grid' \subseteq grid)
  <2>1. UNCHANGED <<batch, flat, reuse>>
    BY <1>1 DEF TileProgram, TileHistogram, TileLocalStart, TilePack
  <2>2. Pop \/ (stream' = stream /\ grid' \subseteq grid)
    BY <1>1 DEF TileProgram, ProgramEnds
  <2> QED BY <1>1, <2>1, <2>2 DEF TileProgram, HostRest, execVars, Running
<1>2. CASE DispatchOp
  <2>1. UNCHANGED <<batch, flat, reuse>>
    BY <1>2 DEF DispatchOp, TiledBegin, TileReserve, TiledEmpty
  <2> QED BY <1>2, <2>1 DEF DispatchOp, HostRest, execVars, Running
<1>3. CASE CopyOp
  <2>1. UNCHANGED rows
    BY <1>3 DEF CopyOp, CopyIn, ZeroCounters
  <2> QED BY <1>3, <2>1 DEF CopyOp, HostRest, dispatchVars, Running
<1>4. CASE EventOp
  BY <1>4 DEF EventOp, HostRest, execVars, dispatchVars, Running
<1>5. CASE MergeOp
  BY <1>5 DEF MergeOp, HostRest, execVars, dispatchVars, Running
<1>6. ASSUME NEW p \in Program, ClaimTile(p) \/ WorkTile(p) \/ ExitKernel(p)
      PROVE  /\ UNCHANGED <<hpc, asked, batch, flat, rows, raised, setup, reuse>> /\ ~Drained
             /\ Pop \/ (stream' = stream /\ grid' \subseteq grid)
  <2>1. CASE ClaimTile(p)
    <3>1. UNCHANGED rows
      BY <2>1 DEF ClaimTile, Claim
    <3> QED BY <2>1, <3>1 DEF ClaimTile, dispatchVars, hostVars, Running
  <2>2. CASE WorkTile(p)
    <3>1. UNCHANGED rows
      BY <2>2 DEF WorkTile, GatherTile, DownTile
    <3> QED BY <2>2, <3>1 DEF WorkTile, dispatchVars, hostVars, Running
  <2>3. CASE ExitKernel(p)
    <3>1. Pop \/ (stream' = stream /\ grid' \subseteq grid)
      BY <2>3 DEF ExitKernel, ProgramEnds
    <3> QED BY <2>3, <3>1 DEF ExitKernel, dispatchVars, HostRest, Running
  <2> QED BY <1>6, <2>1, <2>2, <2>3
<1> QED BY <1>1, <1>2, <1>3, <1>4, <1>5, <1>6 DEF DeviceStep

\* With the forward and its rows, the operations are the same.
LEMMA SameOps ==
  ASSUME UNCHANGED <<hpc, asked, batch, flat, rows>>, Queued \subseteq Kinds
  PROVE  \A k \in Queued : OpSize'[k] = OpSize[k] /\ OpBatch'[k] = OpBatch[k]
<1>1. Active' = Active /\ asked'[Active] = asked[Active]
  BY DEF Active
<1> QED BY <1>1, ExecOpsStay, DispatchOpsStay DEF Kinds

\* And so is what is in the stream.
LEMMA SameStream ==
  ASSUME Ranked(stream), Described(stream), UNCHANGED stream,
         \A k \in Queued : OpSize'[k] = OpSize[k] /\ OpBatch'[k] = OpBatch[k]
  PROVE  Ranked(stream)' /\ Described(stream)' /\ Queued' = Queued
<1>1. Queued' = Queued
  BY DEF Queued
<1>2. Described(stream)'
  <2>1. 1 .. Len(<<>>) = {}
    OBVIOUS
  <2>2. \A i \in 1 .. Len(stream') : \E j \in 1 .. Len(stream) : stream'[i] = stream[j]
    OBVIOUS
  <2>3. PICK ops : ops = <<>>
    OBVIOUS
  <2>4. \A i \in 1 .. Len(ops) : ops[i].size = OpSize'[ops[i].kind] /\ ops[i].batch = OpBatch'[ops[i].kind]
    BY <2>1, <2>3
  <2> QED BY <2>2, <2>4, StillDescribed
<1> QED BY <1>1, <1>2

\* The device takes the operations in the order of their ranks.
LEMMA DeviceKeepsStream == ASSUME StreamInv, DeviceStep PROVE StreamInv'
<1>1. UNCHANGED <<hpc, asked, batch, flat, rows>> /\ ~Drained
  BY DeviceFrame
<1>2. Queued \subseteq Kinds /\ Ranked(stream) /\ Described(stream) /\ grid \subseteq Grid(stream) /\ Phase
  BY QueuedIs DEF StreamInv
<1>3. \A k \in Queued : OpSize'[k] = OpSize[k] /\ OpBatch'[k] = OpBatch[k]
  BY <1>1, <1>2, SameOps
<1>4. CASE Pop
  <2>1. /\ Ranked(stream') /\ grid' \subseteq Grid(stream')
        /\ \A i \in 1 .. Len(stream') : \E j \in 1 .. Len(stream) : stream'[i] = stream[j]
    BY <1>1, <1>2, <1>4, Popped
  <2>2. Phase'
    BY <1>1, <1>2, <1>4, PopKeepsPhase
  <2>3. Described(stream)'
    <3>1. PICK ops : ops = <<>>
      OBVIOUS
    <3>2. 1 .. Len(ops) = {}
      BY <3>1
    <3>3. \A i \in 1 .. Len(ops) : ops[i].size = OpSize'[ops[i].kind] /\ ops[i].batch = OpBatch'[ops[i].kind]
      BY <3>2
    <3> QED BY <1>2, <1>3, <2>1, <3>3, StillDescribed
  <2> QED BY <2>1, <2>2, <2>3 DEF StreamInv
<1>5. CASE stream' = stream /\ grid' \subseteq grid
  <2>1. Ranked(stream)' /\ Described(stream)' /\ Queued' = Queued
    BY <1>2, <1>3, <1>5, SameStream
  <2>2. grid' \subseteq Grid(stream')
    BY <1>2, <1>5
  <2>3. Phase'
    BY <1>1, <1>2, <2>1 DEF Phase, Exec, Dispatching
  <2> QED BY <2>1, <2>2, <2>3 DEF StreamInv
<1> QED BY <1>4, <1>5, DeviceFrame

\* Nothing is in the stream, before and after.
LEMMA EmptyStream ==
  ASSUME StreamInv, Queued = {}, UNCHANGED <<stream, grid>>
  PROVE  StreamInv'
<1>1. stream = <<>> /\ stream' = <<>> /\ Ranked(stream)
  BY KindsNone DEF StreamInv, Ranked, Queued
<1>2. Queued' = {} /\ Exec' = {} /\ Dispatching' = {}
  BY DEF Queued, Exec, Dispatching
<1>3. Phase'
  BY <1>2 DEF Phase
<1>4. Described(stream)'
  <2>1. 1 .. Len(stream') = {}
    BY <1>1
  <2> QED BY <2>1 DEF Described
<1>5. grid' \subseteq Grid(stream')
  BY DEF StreamInv
<1> QED BY <1>1, <1>3, <1>4, <1>5 DEF StreamInv

\* What is issued goes behind what is queued.
LEMMA IssueKeepsStream ==
  ASSUME StreamInv, NEW ops, Ranked(ops), Issue(ops), UNCHANGED <<asked, batch, flat, rows>>,
         Active' = Active,
         \A a \in Queued, b \in KindsOf(ops) : Rank(a) < Rank(b),
         \A i \in 1 .. Len(ops) : ops[i].size = OpSize'[ops[i].kind] /\ ops[i].batch = OpBatch'[ops[i].kind]
  PROVE  /\ Ranked(stream)' /\ Described(stream)' /\ grid' \subseteq Grid(stream')
         /\ Queued' = Queued \cup KindsOf(ops)
<1>1. Ranked(stream) /\ Described(stream) /\ grid \subseteq Grid(stream) /\ Queued \subseteq Kinds
  BY QueuedIs DEF StreamInv
<1>2. \A k \in Queued : OpSize'[k] = OpSize[k] /\ OpBatch'[k] = OpBatch[k]
  BY <1>1, ExecOpsStay, DispatchOpsStay DEF Kinds
<1>3. /\ Ranked(stream') /\ Queued' = Queued \cup KindsOf(ops)
      /\ grid' \subseteq Grid(stream')
      /\ \A i \in 1 .. Len(stream') : \/ \E j \in 1 .. Len(stream) : stream'[i] = stream[j]
                                      \/ \E j \in 1 .. Len(ops) : stream'[i] = ops[j]
  BY <1>1, Issued
<1>4. Ranked(stream) /\ Described(stream)
  BY <1>1
<1>5. \A i \in 1 .. Len(stream') : \/ \E j \in 1 .. Len(stream) : stream'[i] = stream[j]
                                   \/ \E j \in 1 .. Len(ops) : stream'[i] = ops[j]
  BY <1>3
<1>6. \A i \in 1 .. Len(ops) : ops[i].size = OpSize'[ops[i].kind] /\ ops[i].batch = OpBatch'[ops[i].kind]
  OBVIOUS
<1>7. Described(stream)'
  BY ONLY <1>2, <1>4, <1>5, <1>6, StillDescribed
<1> QED BY <1>3, <1>7

\* The kinds by name.
LEMMA KindNames ==
  /\ {"descriptors", "gatherQueue", "downQueue", "counters", "event", "gather", "down", "merge"} = ExecKinds
  /\ {"empty", "zero", "histogram", "reserve", "starts", "pack"} = DispatchKinds
  /\ ExecKinds \subseteq Kinds /\ DispatchKinds \subseteq Kinds
BY DEF ExecKinds, DispatchKinds, TileKernels, Kinds

\* The stream is empty at first.
LEMMA StreamInitially == Init => StreamInv
<1> SUFFICES ASSUME Init PROVE StreamInv
  OBVIOUS
<1>1. stream = <<>> /\ grid = {} /\ hpc = "idle"
  BY DEF Init
<1>2. Ranked(stream) /\ Queued = {} /\ Exec = {} /\ Dispatching = {}
  BY <1>1, KindsNone DEF Queued, Exec, Dispatching
<1>3. Phase
  BY <1>1, <1>2 DEF Phase
<1>4. Described(stream)
  <2>1. 1 .. Len(stream) = {}
    BY <1>1
  <2> QED BY <2>1 DEF Described
<1> QED BY <1>1, <1>2, <1>3, <1>4 DEF StreamInv

\* A forward may begin behind the last one's kernels.
LEMMA StartKeepsStream ==
  ASSUME HostInv, StreamInv, NEW f \in Routing, StartForward(f)
  PROVE  StreamInv' /\ Queued' = Queued /\ Active' = batch /\ Active = batch
<1>1. /\ hpc = "idle" /\ hpc' = "dispatch" /\ batch' = batch + 1 /\ asked' = Append(asked, f)
      /\ UNCHANGED <<rows, stream, grid>>
  BY DEF StartForward, execVars
<1>2. asked \in Seq(Routing) /\ batch = Len(asked) /\ batch \in Nat
  BY DEF HostInv
<1>3. Active = batch /\ Active' = batch
  BY <1>1, <1>2 DEF Active
<1>4. Queued' = Queued /\ Dispatching = {} /\ Queued \subseteq ExecKinds
  <2>1. Dispatching = {}
    BY <1>1 DEF StreamInv, Phase
  <2>2. Queued \subseteq Kinds
    BY QueuedIs DEF StreamInv
  <2> QED BY <1>1, <2>1, <2>2 DEF Queued, Dispatching, Kinds
<1>5. CASE batch = 0
  <2>1. Queued = {}
    <3>1. stream = <<>>
      BY <1>5 DEF HostInv
    <3> QED BY <3>1, KindsNone DEF Queued
  <2> QED BY <1>1, <1>3, <1>4, <2>1, EmptyStream
<1>6. CASE batch # 0
  <2>1. asked'[Active] = asked[Active]
    BY <1>1, <1>2, <1>3, <1>6
  <2>2. \A k \in Queued : OpSize'[k] = OpSize[k] /\ OpBatch'[k] = OpBatch[k]
    BY <1>1, <1>3, <1>4, <2>1, ExecOpsStay
  <2>3. Ranked(stream)' /\ Described(stream)'
    BY <1>1, <2>2, SameStream DEF StreamInv
  <2>4. Exec' = Exec /\ Dispatching' = Dispatching
    BY <1>4 DEF Exec, Dispatching
  <2>5. "empty" \notin Queued /\ "zero" \notin Queued /\ "histogram" \notin Queued
        /\ "reserve" \notin Queued /\ "starts" \notin Queued
    BY <1>4, KindNames DEF Dispatching
  <2>6. Phase'
    BY <1>1, <1>4, <2>4, <2>5 DEF Phase, StreamInv
  <2>7. grid' \subseteq Grid(stream')
    BY <1>1 DEF StreamInv
  <2> QED BY <1>3, <1>4, <2>3, <2>6, <2>7 DEF StreamInv
<1> QED BY <1>5, <1>6

\* Where nothing is running.
LEMMA IdleStepsKeepStream ==
  ASSUME StreamInv, DispatchHost \/ Schedule \/ RowRaise \/ RowRun \/ RowsDone \/ LimitRaise
  PROVE  StreamInv' /\ Queued = {} /\ Queued' = {}
<1>1. UNCHANGED <<stream, grid>>
  BY DEF DispatchHost, Schedule, RowRaise, RowRun, RowsDone, LimitRaise, Raise
<1>2. Queued = {}
  <2>1. CASE DispatchHost \/ Schedule
    BY <2>1, RunningIs DEF DispatchHost, Schedule, StreamInv
  <2>2. CASE RowRaise \/ RowRun \/ RowsDone \/ LimitRaise
    BY <2>2 DEF RowRaise, RowRun, RowsDone, LimitRaise, StreamInv, Phase
  <2> QED BY <2>1, <2>2
<1> QED BY <1>1, <1>2, EmptyStream DEF Queued

\* The tile kernels are issued behind what the executor left.
LEMMA TiledKeepsStream ==
  ASSUME HostInv, StreamInv, DispatchTiled
  PROVE  /\ StreamInv' /\ Active' = Active /\ Exec' = Exec
         /\ Queued' = Queued \cup (IF NumTiles(flat) = 0 THEN {"empty"}
                                   ELSE {"zero", "histogram", "reserve", "starts", "pack"})
         /\ Queued \subseteq ExecKinds
<1> DEFINE n == NumTiles(flat)
           none == <<Op("empty", 0)>>
           five == <<Op("zero", n), Op("histogram", n), Op("reserve", n), Op("starts", n), Op("pack", n)>>
<1>1. /\ hpc = "dispatch" /\ hpc' = "schedule" /\ UNCHANGED <<asked, batch, flat, rows>>
      /\ Issue(IF n = 0 THEN none ELSE five)
  BY DEF DispatchTiled, dispatchVars, execVars
<1>2. PICK ops : ops = IF n = 0 THEN none ELSE five
  OBVIOUS
<1>3. PICK ks : ks = IF n = 0 THEN {"empty"} ELSE {"zero", "histogram", "reserve", "starts", "pack"}
  OBVIOUS
<1>4. Active' = Active
  BY <1>1 DEF Active
<1>5. \A k \in DispatchKinds : OpBatch'[k] = batch /\ (k = "empty" => OpSize'[k] = 0)
                               /\ (k # "empty" => OpSize'[k] = n)
  <2>1. \A k \in DispatchKinds : OpBatch'[k] = batch
    BY <1>1, KindNames DEF OpBatch
  <2>2. OpSize'["empty"] = 0
    <3>1. "empty" \in Kinds
      BY KindNames
    <3> QED BY <3>1 DEF OpSize, TileKernels
  <2>3. ASSUME NEW k \in {"zero", "histogram", "reserve", "starts", "pack"} PROVE OpSize'[k] = n
    <3>1. k \in Kinds /\ k \in TileKernels \cup {"zero", "reserve"}
      BY KindNames DEF TileKernels
    <3>2. k \notin {"descriptors", "gather", "gatherQueue", "down", "downQueue", "counters", "event", "empty", "merge"}
      OBVIOUS
    <3>3. OpSize'[k] = NumTiles(flat)'
      BY <3>1, <3>2 DEF OpSize
    <3> QED BY <1>1, <3>3
  <2> QED BY <2>1, <2>2, <2>3, KindNames
<1>6. /\ Ranked(ops) /\ KindsOf(ops) = ks
      /\ \A i \in 1 .. Len(ops) : ops[i].size = OpSize'[ops[i].kind] /\ ops[i].batch = OpBatch'[ops[i].kind]
  <2>1. CASE n = 0
    <3>1. PICK x : x = Op("empty", 0)
      OBVIOUS
    <3>2. x.kind = "empty" /\ x.size = 0 /\ x.batch = batch
      BY <3>1 DEF Op
    <3>3. ops = <<x>> /\ ks = {"empty"}
      BY <1>2, <1>3, <2>1, <3>1
    <3>4. x.kind \in Kinds /\ x.kind \in DispatchKinds
      BY <3>2, KindNames
    <3>5. /\ Ranked(<<x>>) /\ KindsOf(<<x>>) = {x.kind}
          /\ \A i \in 1 .. Len(<<x>>) : <<x>>[i] = x
      BY <3>4, OneOp
    <3>6. x.size = OpSize'[x.kind] /\ x.batch = OpBatch'[x.kind]
      BY <1>5, <3>2, <3>4
    <3> QED BY <3>2, <3>3, <3>5, <3>6
  <2>2. CASE n # 0
    <3>1. PICK v : v = Op("zero", n)
      OBVIOUS
    <3>2. PICK w : w = Op("histogram", n)
      OBVIOUS
    <3>3. PICK x : x = Op("reserve", n)
      OBVIOUS
    <3>4. PICK y : y = Op("starts", n)
      OBVIOUS
    <3>5. PICK z : z = Op("pack", n)
      OBVIOUS
    <3>6. /\ v.kind = "zero" /\ w.kind = "histogram" /\ x.kind = "reserve" /\ y.kind = "starts" /\ z.kind = "pack"
          /\ \A op \in {v, w, x, y, z} : op.size = n /\ op.batch = batch
      BY <3>1, <3>2, <3>3, <3>4, <3>5 DEF Op
    <3>7. ops = <<v, w, x, y, z>> /\ ks = {"zero", "histogram", "reserve", "starts", "pack"}
      BY <1>2, <1>3, <2>2, <3>1, <3>2, <3>3, <3>4, <3>5
    <3>8. /\ {v.kind, w.kind, x.kind, y.kind, z.kind} \subseteq Kinds
          /\ Rank(v.kind) < Rank(w.kind) /\ Rank(w.kind) < Rank(x.kind) /\ Rank(x.kind) < Rank(y.kind)
          /\ Rank(y.kind) < Rank(z.kind)
      BY <3>6, KindNames, RankIs
    <3>9. /\ Ranked(<<v, w, x, y, z>>)
          /\ KindsOf(<<v, w, x, y, z>>) = {v.kind, w.kind, x.kind, y.kind, z.kind}
          /\ \A i \in 1 .. Len(<<v, w, x, y, z>>) : <<v, w, x, y, z>>[i] \in {v, w, x, y, z}
      BY <3>8, FiveOps
    <3>10. \A op \in {v, w, x, y, z} : op.kind \in DispatchKinds /\ op.kind # "empty"
      BY <3>6, KindNames
    <3> HIDE DEF n
    <3>11. \A op \in {v, w, x, y, z} : op.size = OpSize'[op.kind] /\ op.batch = OpBatch'[op.kind]
      BY <1>5, <3>6, <3>10
    <3> QED BY <3>6, <3>7, <3>9, <3>11
  <2> QED BY <2>1, <2>2
<1>7. Dispatching = {} /\ Queued \subseteq ExecKinds /\ ks \subseteq DispatchKinds
  <2>1. Dispatching = {}
    BY <1>1 DEF StreamInv, Phase
  <2>2. Queued \subseteq Kinds
    BY QueuedIs DEF StreamInv
  <2> QED BY <1>3, <2>1, <2>2, KindNames DEF Dispatching, Kinds
<1>8. \A a \in Queued, b \in KindsOf(ops) : Rank(a) < Rank(b)
  <2>1. \A a \in Queued : Rank(a) < 9 /\ Rank(a) \in Nat
    BY <1>7, KindsRanked, KindNames
  <2>2. \A b \in ks : 9 <= Rank(b) /\ Rank(b) \in Nat
    BY <1>7, KindsRanked, KindNames
  <2>3. \A a \in Queued, b \in ks : Rank(a) < Rank(b)
    BY <2>1, <2>2
  <2> QED BY <1>6, <2>3
<1>9. Issue(ops)
  BY <1>1, <1>2
<1>10. /\ Ranked(stream)' /\ Described(stream)' /\ grid' \subseteq Grid(stream')
       /\ Queued' = Queued \cup ks
  BY <1>1, <1>4, <1>6, <1>8, <1>9, IssueKeepsStream
<1>11. Exec' = Exec /\ Dispatching' = ks
  BY <1>7, <1>10, KindsRanked DEF Exec, Dispatching
<1>12. Phase'
  <2>1. Exec # {} => "merge" \in Queued
    BY <1>1 DEF StreamInv, Phase
  <2>2. /\ "empty" \in Queued' => ks = {"empty"} /\ n = 0
        /\ Queued' \cap {"empty", "pack"} # {}
        /\ Queued' \cap {"zero", "empty"} # {}
        /\ "zero" \in Queued' => "histogram" \in Queued'
        /\ "histogram" \in Queued' => "reserve" \in Queued'
        /\ "reserve" \in Queued' => "starts" \in Queued'
        /\ "starts" \in Queued' => "pack" \in Queued'
    <3>1. Queued \cap {"empty", "zero", "histogram", "reserve", "starts", "pack"} = {}
      BY <1>7, KindNames, KindsRanked
    <3> HIDE DEF n
    <3> QED BY <1>3, <1>10, <3>1
  <2> QED BY <1>1, <1>10, <1>11, <2>1, <2>2 DEF Phase
<1> QED BY <1>3, <1>4, <1>7, <1>10, <1>11, <1>12 DEF StreamInv

\* The sizes of the executor's operations.
LEMMA ExecSizes ==
  /\ OpSize["descriptors"] = Len(rows)
  /\ OpSize["gatherQueue"] = Len(TileQueue(GatherBlocks)) /\ OpSize["gather"] = Len(TileQueue(GatherBlocks))
  /\ OpSize["downQueue"] = Len(TileQueue(DownBlocks)) /\ OpSize["down"] = Len(TileQueue(DownBlocks))
  /\ OpSize["counters"] = 0 /\ OpSize["event"] = 0 /\ OpSize["merge"] = Tokens(asked[Active])
  /\ \A k \in ExecKinds : OpBatch[k] = Active
<1>1. ExecKinds \subseteq Kinds /\ \A k \in ExecKinds : k \notin DispatchKinds
  BY KindNames, KindsRanked
<1>2. \A k \in ExecKinds : OpBatch[k] = Active
  BY <1>1 DEF OpBatch
<1>3. {"descriptors", "gatherQueue", "downQueue", "counters", "event", "gather", "down", "merge"} \subseteq Kinds
  BY <1>1, KindNames
<1>4. OpSize["descriptors"] = Len(rows)
  BY <1>3 DEF OpSize, TileKernels
<1>5. OpSize["gatherQueue"] = Len(TileQueue(GatherBlocks)) /\ OpSize["gather"] = Len(TileQueue(GatherBlocks))
  BY <1>3 DEF OpSize, TileKernels
<1>6. OpSize["downQueue"] = Len(TileQueue(DownBlocks)) /\ OpSize["down"] = Len(TileQueue(DownBlocks))
  <2>1. /\ "downQueue" \in Kinds /\ "downQueue" # "descriptors" /\ "downQueue" \notin {"gather", "gatherQueue"}
        /\ "down" \in Kinds /\ "down" # "descriptors" /\ "down" \notin {"gather", "gatherQueue"}
    BY <1>3
  <2> QED BY <2>1 DEF OpSize, TileKernels
<1>7. OpSize["counters"] = 0 /\ OpSize["event"] = 0
  BY <1>3 DEF OpSize, TileKernels
<1>8. OpSize["merge"] = Tokens(asked[Active])
  BY <1>3 DEF OpSize, TileKernels
<1> QED BY <1>2, <1>4, <1>5, <1>6, <1>7, <1>8

\* What the executor issues goes to the end of a stream of its own.
LEMMA ExecIssue ==
  ASSUME HostInv, StreamInv, NEW ops, Ranked(ops), Issue(ops), UNCHANGED <<asked, batch, flat, rows>>,
         hpc \in {"fill", "queue", "launch", "merge"}, hpc' \in {"queue", "launch", "merge", "idle"},
         KindsOf(ops) \subseteq ExecKinds,
         \A a \in Queued, b \in KindsOf(ops) : Rank(a) < Rank(b),
         \A i \in 1 .. Len(ops) : ops[i].size = OpSize[ops[i].kind] /\ ops[i].batch = batch
  PROVE  /\ Ranked(stream)' /\ Described(stream)' /\ grid' \subseteq Grid(stream')
         /\ Queued' = Queued \cup KindsOf(ops) /\ Queued \subseteq ExecKinds
         /\ Exec = Queued /\ Exec' = Queued' /\ Dispatching' = {} /\ Active = batch /\ Active' = batch
         /\ "empty" \notin Queued' /\ "zero" \notin Queued' /\ "histogram" \notin Queued'
         /\ "reserve" \notin Queued' /\ "starts" \notin Queued'
<1>1. Active = batch /\ Active' = batch
  BY DEF Active
<1>2. Dispatching = {} /\ Queued \subseteq ExecKinds /\ Exec = Queued
  <2>1. Dispatching = {}
    BY DEF StreamInv, Phase
  <2>2. Queued \subseteq Kinds
    BY QueuedIs DEF StreamInv
  <2> QED BY <2>1, <2>2 DEF Dispatching, Kinds, Exec
<1>3. \A i \in 1 .. Len(ops) : ops[i].size = OpSize'[ops[i].kind] /\ ops[i].batch = OpBatch'[ops[i].kind]
  <2>1. asked'[Active] = asked[Active]
    OBVIOUS
  <2>2. \A k \in ExecKinds : OpSize'[k] = OpSize[k] /\ OpBatch'[k] = OpBatch[k] /\ OpBatch[k] = batch
    BY <1>1, <2>1, ExecOpsStay, ExecSizes
  <2>3. \A i \in 1 .. Len(ops) : ops[i].kind \in ExecKinds
    BY DEF KindsOf
  <2> QED BY <2>2, <2>3
<1>4. /\ Ranked(stream)' /\ Described(stream)' /\ grid' \subseteq Grid(stream')
      /\ Queued' = Queued \cup KindsOf(ops)
  BY <1>1, <1>3, IssueKeepsStream
<1>5. Queued' \subseteq ExecKinds /\ Exec' = Queued' /\ Dispatching' = {}
  BY <1>2, <1>4, KindsRanked DEF Exec, Dispatching
<1>6. ExecKinds \cap {"empty", "zero", "histogram", "reserve", "starts"} = {}
  BY KindsRanked, KindNames
<1> QED BY <1>1, <1>2, <1>4, <1>5, <1>6

\* The descriptors' copy is issued.
LEMMA FillKeepsStream ==
  ASSUME HostInv, StreamInv, Fill
  PROVE  StreamInv' /\ Queued = {} /\ Queued' = {"descriptors"} /\ Active = batch /\ Active' = batch
<1>1. /\ hpc = "fill" /\ hpc' = "queue" /\ UNCHANGED <<asked, batch, flat, rows>>
      /\ Issue(<<Op("descriptors", Len(rows))>>)
  BY DEF Fill, FillDescriptors, dispatchVars
<1>2. Queued = {}
  BY <1>1 DEF StreamInv, Phase
<1>3. PICK x : x = Op("descriptors", Len(rows))
  OBVIOUS
<1>4. x.kind = "descriptors" /\ x.size = OpSize["descriptors"] /\ x.batch = batch
  BY <1>3, ExecSizes DEF Op
<1>5. PICK ops : ops = <<x>>
  OBVIOUS
<1>6. x.kind \in Kinds /\ x.kind \in ExecKinds
  BY <1>4, KindNames
<1>7. Ranked(ops) /\ KindsOf(ops) = {"descriptors"} /\ \A i \in 1 .. Len(ops) : ops[i] = x
  BY <1>4, <1>5, <1>6, OneOp
<1>8. \A i \in 1 .. Len(ops) : ops[i].size = OpSize[ops[i].kind] /\ ops[i].batch = batch
  BY <1>4, <1>7
<1>9. Issue(ops)
  BY <1>1, <1>3, <1>5
<1>10. KindsOf(ops) \subseteq ExecKinds
  BY <1>4, <1>6, <1>7
<1>11. /\ Ranked(stream)' /\ Described(stream)' /\ grid' \subseteq Grid(stream')
       /\ Queued' = Queued \cup KindsOf(ops) /\ Exec' = Queued' /\ Dispatching' = {}
       /\ Active = batch /\ Active' = batch
       /\ "empty" \notin Queued' /\ "zero" \notin Queued' /\ "histogram" \notin Queued'
       /\ "reserve" \notin Queued' /\ "starts" \notin Queued'
  BY <1>1, <1>2, <1>7, <1>8, <1>9, <1>10, ExecIssue
<1>12. Queued' = {"descriptors"}
  BY <1>2, <1>7, <1>11
<1>13. Phase'
  BY <1>1, <1>11, <1>12 DEF Phase
<1> QED BY <1>2, <1>11, <1>12, <1>13 DEF StreamInv

\* The copies of the queues and the reset of the counters are issued.
LEMMA QueueKeepsStream ==
  ASSUME HostInv, StreamInv, Queue
  PROVE  /\ StreamInv' /\ Queued \subseteq {"descriptors"}
         /\ Queued' = Queued \cup {"gatherQueue", "downQueue", "counters"}
         /\ Active = batch /\ Active' = batch
<1>1. /\ hpc = "queue" /\ hpc' = "launch" /\ UNCHANGED <<asked, batch, flat, rows>>
      /\ Issue(<<Op("gatherQueue", Len(TileQueue(GatherBlocks))),
                 Op("downQueue", Len(TileQueue(DownBlocks))), Op("counters", 0)>>)
  BY DEF Queue, BuildQueues, dispatchVars
<1>2. PICK x : x = Op("gatherQueue", Len(TileQueue(GatherBlocks)))
  OBVIOUS
<1>3. PICK y : y = Op("downQueue", Len(TileQueue(DownBlocks)))
  OBVIOUS
<1>4. PICK z : z = Op("counters", 0)
  OBVIOUS
<1>5. /\ x.kind = "gatherQueue" /\ x.size = OpSize["gatherQueue"]
      /\ y.kind = "downQueue" /\ y.size = OpSize["downQueue"]
      /\ z.kind = "counters" /\ z.size = OpSize["counters"]
      /\ x.batch = batch /\ y.batch = batch /\ z.batch = batch
  BY <1>2, <1>3, <1>4, ExecSizes DEF Op
<1>6. PICK ops : ops = <<x, y, z>>
  OBVIOUS
<1>7. /\ x.kind \in Kinds /\ y.kind \in Kinds /\ z.kind \in Kinds
      /\ Rank(x.kind) < Rank(y.kind) /\ Rank(y.kind) < Rank(z.kind)
      /\ {x.kind, y.kind, z.kind} \subseteq ExecKinds
  BY <1>5, KindNames, RankIs
<1>8. Ranked(ops) /\ KindsOf(ops) = {x.kind, y.kind, z.kind} /\ \A i \in 1 .. Len(ops) : ops[i] \in {x, y, z}
  BY <1>6, <1>7, ThreeOps
<1>9. \A i \in 1 .. Len(ops) : ops[i].size = OpSize[ops[i].kind] /\ ops[i].batch = batch
  BY <1>5, <1>8
<1>10. Issue(ops)
  BY <1>1, <1>2, <1>3, <1>4, <1>6
<1>11. KindsOf(ops) \subseteq ExecKinds
  BY <1>7, <1>8
<1>12. Queued \subseteq {"descriptors"}
  <2>1. Dispatching = {} /\ Exec \subseteq {"descriptors"}
    BY <1>1 DEF StreamInv, Phase
  <2>2. Queued \subseteq Kinds
    BY QueuedIs DEF StreamInv
  <2> QED BY <2>1, <2>2 DEF Dispatching, Kinds, Exec
<1>13. \A a \in Queued, b \in KindsOf(ops) : Rank(a) < Rank(b)
  BY <1>5, <1>8, <1>12, RankIs
<1>14. /\ Ranked(stream)' /\ Described(stream)' /\ grid' \subseteq Grid(stream')
       /\ Queued' = Queued \cup KindsOf(ops) /\ Exec' = Queued' /\ Dispatching' = {}
       /\ Active = batch /\ Active' = batch
       /\ "empty" \notin Queued' /\ "zero" \notin Queued' /\ "histogram" \notin Queued'
       /\ "reserve" \notin Queued' /\ "starts" \notin Queued'
  BY <1>1, <1>8, <1>9, <1>10, <1>11, <1>13, ExecIssue
<1>15. Queued' = Queued \cup {"gatherQueue", "downQueue", "counters"}
  BY <1>5, <1>8, <1>14
<1>16. Phase'
  BY <1>1, <1>12, <1>14, <1>15 DEF Phase
<1> QED BY <1>12, <1>14, <1>15, <1>16 DEF StreamInv

\* The event and the kernels are issued.
LEMMA LaunchKeepsStream ==
  ASSUME HostInv, StreamInv, Launch
  PROVE  /\ StreamInv' /\ Queued \subseteq {"descriptors", "gatherQueue", "downQueue", "counters"}
         /\ Queued' = Queued \cup (IF rows = <<>> THEN {"event"} ELSE {"event", "gather", "down"})
         /\ Active = batch /\ Active' = batch
<1>1. /\ hpc = "launch" /\ hpc' = "merge" /\ UNCHANGED <<asked, batch, flat, rows>>
      /\ Issue(<<Op("event", 0)>> \o (IF rows = <<>> THEN <<>> ELSE Kernels))
  BY DEF Launch, execVars, dispatchVars
<1>2. PICK x : x = Op("event", 0)
  OBVIOUS
<1>3. PICK y : y = Op("gather", Len(TileQueue(GatherBlocks)))
  OBVIOUS
<1>4. PICK z : z = Op("down", Len(TileQueue(DownBlocks)))
  OBVIOUS
<1>5. /\ x.kind = "event" /\ x.size = OpSize["event"]
      /\ y.kind = "gather" /\ y.size = OpSize["gather"]
      /\ z.kind = "down" /\ z.size = OpSize["down"]
      /\ x.batch = batch /\ y.batch = batch /\ z.batch = batch
  BY <1>2, <1>3, <1>4, ExecSizes DEF Op
<1>6. /\ x.kind \in Kinds /\ y.kind \in Kinds /\ z.kind \in Kinds
      /\ Rank(x.kind) < Rank(y.kind) /\ Rank(y.kind) < Rank(z.kind)
      /\ {x.kind, y.kind, z.kind} \subseteq ExecKinds
  BY <1>5, KindNames, RankIs
<1>7. PICK ops : ops = <<x>> \o (IF rows = <<>> THEN <<>> ELSE <<y, z>>)
  OBVIOUS
<1>8. PICK ks : ks = IF rows = <<>> THEN {"event"} ELSE {"event", "gather", "down"}
  OBVIOUS
<1>9. Ranked(ops) /\ KindsOf(ops) = ks /\ \A i \in 1 .. Len(ops) : ops[i] \in {x, y, z}
  <2>1. CASE rows = <<>>
    <3>1. ops = <<x>>
      BY <1>7, <2>1
    <3>2. Ranked(<<x>>) /\ KindsOf(<<x>>) = {x.kind} /\ \A i \in 1 .. Len(<<x>>) : <<x>>[i] = x
      BY <1>6, OneOp
    <3> QED BY <1>5, <1>8, <2>1, <3>1, <3>2
  <2>2. CASE rows # <<>>
    <3>1. ops = <<x, y, z>>
      <4>1. /\ <<x>> \in Seq({x, y, z}) /\ <<y, z>> \in Seq({x, y, z}) /\ <<x, y, z>> \in Seq({x, y, z})
            /\ Len(<<x>>) = 1 /\ Len(<<y, z>>) = 2 /\ Len(<<x, y, z>>) = 3
            /\ <<x>>[1] = x /\ <<y, z>>[1] = y /\ <<y, z>>[2] = z
        OBVIOUS
      <4>2. ops = <<x>> \o <<y, z>>
        BY <1>7, <2>2
      <4>3. ops \in Seq({x, y, z}) /\ Len(ops) = 3 /\ ops[1] = x /\ ops[2] = y /\ ops[3] = z
        BY <4>1, <4>2
      <4> QED BY <4>1, <4>3
    <3>2. /\ Ranked(<<x, y, z>>) /\ KindsOf(<<x, y, z>>) = {x.kind, y.kind, z.kind}
          /\ \A i \in 1 .. Len(<<x, y, z>>) : <<x, y, z>>[i] \in {x, y, z}
      BY <1>6, ThreeOps
    <3> QED BY <1>5, <1>8, <2>2, <3>1, <3>2
  <2> QED BY <2>1, <2>2
<1>10. \A i \in 1 .. Len(ops) : ops[i].size = OpSize[ops[i].kind] /\ ops[i].batch = batch
  BY <1>5, <1>9
<1>11. Issue(ops)
  BY <1>1, <1>2, <1>3, <1>4, <1>7 DEF Kernels
<1>12. KindsOf(ops) \subseteq ExecKinds /\ ks \subseteq {"event", "gather", "down"}
  BY <1>5, <1>6, <1>8, <1>9
<1>13. Queued \subseteq {"descriptors", "gatherQueue", "downQueue", "counters"}
  <2>1. Dispatching = {} /\ Exec \subseteq {"descriptors", "gatherQueue", "downQueue", "counters"}
    BY <1>1 DEF StreamInv, Phase
  <2>2. Queued \subseteq Kinds
    BY QueuedIs DEF StreamInv
  <2> QED BY <2>1, <2>2 DEF Dispatching, Kinds, Exec
<1>14. \A a \in Queued, b \in KindsOf(ops) : Rank(a) < Rank(b)
  <2>1. \A a \in {"descriptors", "gatherQueue", "downQueue", "counters"} : \A b \in {"event", "gather", "down"} :
          Rank(a) < Rank(b)
    BY RankIs
  <2> QED BY <1>9, <1>12, <1>13, <2>1
<1>15. /\ Ranked(stream)' /\ Described(stream)' /\ grid' \subseteq Grid(stream')
       /\ Queued' = Queued \cup KindsOf(ops) /\ Exec' = Queued' /\ Dispatching' = {}
       /\ Active = batch /\ Active' = batch
       /\ "empty" \notin Queued' /\ "zero" \notin Queued' /\ "histogram" \notin Queued'
       /\ "reserve" \notin Queued' /\ "starts" \notin Queued'
  BY <1>1, <1>9, <1>10, <1>11, <1>12, <1>14, ExecIssue
<1>16. Queued' = Queued \cup ks
  BY <1>9, <1>15
<1>17. "merge" \notin Queued'
  BY <1>12, <1>13, <1>16
<1>18. Phase'
  BY <1>1, <1>15, <1>17 DEF Phase
<1> QED BY <1>8, <1>13, <1>15, <1>16, <1>18 DEF StreamInv

\* The merge is issued.
LEMMA MergeKeepsStream ==
  ASSUME HostInv, StreamInv, Merge
  PROVE  /\ StreamInv' /\ Queued \subseteq ExecKinds /\ Queued' = Queued \cup {"merge"} /\ "merge" \notin Queued
         /\ Active = batch /\ Active' = batch
<1>1. /\ hpc = "merge" /\ hpc' = "idle" /\ UNCHANGED <<asked, batch, flat, rows>>
      /\ Issue(<<Op("merge", Tokens(flat))>>)
  BY DEF Merge, execVars, dispatchVars
<1>2. PICK x : x = Op("merge", Tokens(flat))
  OBVIOUS
<1>3. flat = asked[Active] /\ Active = batch
  <2>1. batch # 0
    BY <1>1 DEF HostInv
  <2> QED BY <1>1, <2>1 DEF HostInv, Active
<1>4. x.kind = "merge" /\ x.size = OpSize["merge"] /\ x.batch = batch
  BY <1>2, <1>3, ExecSizes DEF Op
<1>5. PICK ops : ops = <<x>>
  OBVIOUS
<1>6. x.kind \in Kinds /\ x.kind \in ExecKinds
  BY <1>4, KindNames
<1>7. Ranked(ops) /\ KindsOf(ops) = {"merge"} /\ \A i \in 1 .. Len(ops) : ops[i] = x
  BY <1>4, <1>5, <1>6, OneOp
<1>8. \A i \in 1 .. Len(ops) : ops[i].size = OpSize[ops[i].kind] /\ ops[i].batch = batch
  BY <1>4, <1>7
<1>9. Issue(ops)
  BY <1>1, <1>2, <1>5
<1>10. KindsOf(ops) \subseteq ExecKinds
  BY <1>4, <1>6, <1>7
<1>11. "merge" \notin Queued /\ Queued \subseteq ExecKinds
  <2>1. Dispatching = {} /\ "merge" \notin Queued
    BY <1>1 DEF StreamInv, Phase
  <2>2. Queued \subseteq Kinds
    BY QueuedIs DEF StreamInv
  <2> QED BY <2>1, <2>2 DEF Dispatching, Kinds
<1>12. \A a \in Queued, b \in KindsOf(ops) : Rank(a) < Rank(b)
  <2>1. \A a \in ExecKinds : a # "merge" => Rank(a) < Rank("merge")
    BY RankIs DEF ExecKinds
  <2> QED BY <1>7, <1>11, <2>1
<1>13. /\ Ranked(stream)' /\ Described(stream)' /\ grid' \subseteq Grid(stream')
       /\ Queued' = Queued \cup KindsOf(ops) /\ Exec' = Queued' /\ Dispatching' = {}
       /\ Active = batch /\ Active' = batch
       /\ "empty" \notin Queued' /\ "zero" \notin Queued' /\ "histogram" \notin Queued'
       /\ "reserve" \notin Queued' /\ "starts" \notin Queued'
  BY <1>1, <1>7, <1>8, <1>9, <1>10, <1>12, ExecIssue
<1>14. Queued' = Queued \cup {"merge"}
  BY <1>7, <1>13
<1>15. Phase'
  BY <1>1, <1>13, <1>14 DEF Phase
<1> QED BY <1>11, <1>13, <1>14, <1>15 DEF StreamInv

\* The stream through every step.
LEMMA StreamKept == ASSUME HostInv, StreamInv, [Next]_vars PROVE StreamInv'
<1>1. ASSUME NEW f \in Routing, StartForward(f) PROVE StreamInv'
  BY <1>1, StartKeepsStream
<1>2. CASE HostStep
  BY <1>2, IdleStepsKeepStream, TiledKeepsStream, FillKeepsStream, QueueKeepsStream, LaunchKeepsStream,
     MergeKeepsStream DEF HostStep
<1>3. CASE DeviceStep
  BY <1>3, DeviceKeepsStream
<1>4. CASE UNCHANGED vars
  <2>1. UNCHANGED <<hpc, asked, batch, flat, rows, stream, grid>>
    BY <1>4 DEF vars, dispatchVars, execVars, hostVars
  <2>2. Ranked(stream) /\ Described(stream) /\ grid \subseteq Grid(stream) /\ Phase /\ Queued \subseteq Kinds
    BY QueuedIs DEF StreamInv
  <2>3. Ranked(stream)' /\ Described(stream)' /\ Queued' = Queued
    BY <2>1, <2>2, SameOps, SameStream
  <2>4. Phase'
    BY <2>1, <2>2, <2>3 DEF Phase, Exec, Dispatching
  <2>5. grid' \subseteq Grid(stream')
    BY <2>1, <2>2
  <2> QED BY <2>3, <2>4, <2>5 DEF StreamInv
<1> QED BY <1>1, <1>2, <1>3, <1>4 DEF Next

\* The forward the host is at was routed.
LEMMA RoutedNow ==
  ASSUME HostInv
  PROVE  /\ \A k \in 1 .. batch : Routed(asked[k])
         /\ batch # 0 => Routed(flat)
         /\ batch \in Nat /\ batch # 0 => batch \in 1 .. batch
<1>1. \A f \in Routing : Routed(f)
  <2> SUFFICES ASSUME NEW f \in Routing PROVE Routed(f)
    OBVIOUS
  <2>1. IsFiniteSet(DOMAIN f) /\ Size(f) % TopK = 0 /\ f \in [Index(Size(f)) -> Expert]
    BY ForwardAssumption
  <2>2. Size(f) \in Nat
    BY <2>1, FS_CardinalityType DEF Size
  <2> QED BY <2>1, <2>2 DEF Routed
<1>2. asked \in Seq(Routing) /\ batch = Len(asked)
  BY DEF HostInv
<1>3. batch \in Nat /\ \A k \in 1 .. batch : asked[k] \in Routing
  BY <1>2
<1>4. batch # 0 => batch \in 1 .. batch /\ flat = asked[batch]
  BY <1>3 DEF HostInv
<1> QED BY <1>1, <1>3, <1>4

\* Nothing is laid out at first.
LEMMA DispatchInitially == Init => DispatchInv
<1> SUFFICES ASSUME Init PROVE DispatchInv
  OBVIOUS
<1>1. /\ stream = <<>> /\ hpc = "idle" /\ batch = 0
      /\ plan = [slots |-> [i \in {} |-> NoSlot], inverse |-> [i \in {} |-> Undefined],
                 counts |-> NoRow, offsets |-> [e \in 0 .. NumExperts |-> 0]]
      /\ tiles = [counts |-> [t \in {} |-> NoRow], offsets |-> [t \in {} |-> NoRow]]
  BY DEF Init, DispatchInit
<1>2. \A u : Tensor([i \in {} |-> u])
  <2> SUFFICES ASSUME NEW u PROVE Tensor([i \in {} |-> u])
    OBVIOUS
  <2>1. Index(0) = {}
    BY DEF Index
  <2>2. [i \in {} |-> u] = [i \in Index(0) |-> [j \in {} |-> u][i]]
    BY <2>1
  <2> QED BY <2>2 DEF Tensor
<1>3. DispatchShape
  <2>1. NoRow \in [Expert -> Nat] /\ [e \in 0 .. NumExperts |-> 0] \in [0 .. NumExperts -> Nat]
    BY DEF NoRow
  <2> QED BY <1>1, <1>2, <2>1 DEF DispatchShape, PlanShape, TilesShape
<1>4. \A k : ~Running(k)
  BY <1>1 DEF Running, Drained
<1>5. Exec = {}
  BY <1>1, KindsNone DEF Exec, Queued
<1> QED BY <1>1, <1>3, <1>4, <1>5 DEF DispatchInv

\* Steps that write neither the plan nor the tiles.
LEMMA PlanStays ==
  ASSUME DispatchInv, UNCHANGED <<plan, tiles, batch, flat, asked>>,
         \A k \in {"histogram", "reserve", "starts", "pack"} : ~Running(k)',
         batch # 0 /\ hpc' # "dispatch" /\ Dispatching' = {} => hpc # "dispatch" /\ Dispatching = {},
         hpc' \in {"dispatch", "schedule"} /\ Exec' # {} => hpc \in {"dispatch", "schedule"} /\ Exec # {}
  PROVE  DispatchInv'
<1>1. DispatchShape'
  BY DEF DispatchInv, DispatchShape, PlanShape, TilesShape
<1>2. /\ ~Running("histogram")' /\ ~Running("reserve")' /\ ~Running("starts")' /\ ~Running("pack")'
  OBVIOUS
<1> QED BY <1>1, <1>2 DEF DispatchInv

\* While the executor's part of the stream runs, no tile does.
LEMMA ExecFirst ==
  ASSUME StreamInv, NEW g \in ExecKinds, Running(g)
  PROVE  \A k \in DispatchKinds : ~Running(k)
<1>1. Ranked(stream)
  BY DEF StreamInv
<1> QED BY <1>1, KindsRanked DEF Running

\* The executor's operations leave the plan alone.
LEMMA ExecStepKeepsDispatch ==
  ASSUME HostInv, StreamInv, StreamInv', DispatchInv, NEW g \in ExecKinds, Running(g),
         UNCHANGED <<plan, tiles, batch, flat, asked, hpc>>,
         Pop \/ (stream' = stream /\ grid' \subseteq grid)
  PROVE  DispatchInv'
<1>1. Ranked(stream) /\ ~Drained /\ Head(stream).kind = g
  BY DEF StreamInv, Running
<1>2. g \notin DispatchKinds /\ g \in Queued /\ Exec # {}
  <2>1. g \in Queued
    BY <1>1, RunningIs
  <2> QED BY <2>1, KindsRanked DEF Exec
<1>3. Queued' = Queued \/ Queued' = Queued \ {g}
  BY <1>1, Popped DEF Queued
<1>4. Dispatching' = Dispatching /\ Exec' \subseteq Exec
  BY <1>2, <1>3 DEF Dispatching, Exec
<1>5. ASSUME NEW k \in {"histogram", "reserve", "starts", "pack"}, Running(k)' PROVE FALSE
  <2>1. Ranked(stream')
    BY DEF StreamInv
  <2>2. /\ \A j : Running(j)' <=> j \in Queued' /\ \A i \in Queued' : i = j \/ Rank(j) < Rank(i)
    <3>1. CASE stream' = <<>>
      BY <3>1, KindsNone DEF Running, Drained, Queued
    <3>2. CASE stream' # <<>>
      BY <2>1, <3>2, HeadIs DEF Queued, Running, Drained
    <3> QED BY <3>1, <3>2
  <2>3. k \in Queued' /\ \A i \in Queued' : i = k \/ Rank(k) < Rank(i)
    BY <1>5, <2>2
  <2>4. Dispatching # {}
    BY <1>3, <2>3, KindNames DEF Dispatching
  <2>5. Queued \cap {"zero", "empty"} # {}
    BY <1>2, <2>4 DEF StreamInv, Phase
  <2>6. PICK z \in {"zero", "empty"} : z \in Queued'
    BY <1>2, <1>3, <2>5, KindNames
  <2>7. Rank(k) < Rank(z)
    BY <2>3, <2>6
  <2> QED BY <2>7, RankIs
<1> QED BY <1>2, <1>4, <1>5, PlanStays

\* While a dispatch operation runs, none of the executor's is left.
LEMMA DispatchRuns ==
  ASSUME StreamInv, NEW k \in DispatchKinds, Running(k)
  PROVE  /\ Exec = {} /\ hpc = "schedule" /\ k \in Queued /\ Queued \subseteq DispatchKinds
         /\ Head(stream).size = OpSize[k]
         /\ k # "empty" => OpSize[k] = NumTiles(flat)
         /\ k \in TileKernels => grid \subseteq Index(NumTiles(flat))
<1>1. Ranked(stream) /\ Described(stream) /\ stream # <<>> /\ Head(stream).kind = k
  BY DEF StreamInv, Running, Drained
<1>2. k \in Queued /\ \A j \in Queued : j = k \/ Rank(k) < Rank(j)
  BY <1>1, RunningIs
<1>3. Exec = {}
  <2>1. \A j \in Exec : Rank(j) \in Nat /\ Rank(k) \in Nat /\ Rank(j) < 9 /\ 9 <= Rank(k) /\ (j = k \/ Rank(k) < Rank(j))
    BY <1>1, <1>2, KindsRanked, QueuedIs, KindNames DEF Exec
  <2>2. \A j \in Exec : ~(Rank(k) < Rank(j)) /\ j # k
    BY <2>1
  <2> QED BY <2>1, <2>2
<1>4. Dispatching # {} /\ hpc = "schedule"
  BY <1>2 DEF Dispatching, StreamInv, Phase
<1>5. Head(stream).size = OpSize[k]
  <2>1. Head(stream) = stream[1] /\ 1 \in 1 .. Len(stream)
    BY <1>1, TailIs DEF Ranked
  <2> QED BY <1>1, <2>1 DEF Described
<1>6. /\ OpSize["empty"] = 0
      /\ k # "empty" => OpSize[k] = NumTiles(flat)
  <2>1. OpSize["empty"] = 0
    <3>1. "empty" \in Kinds
      BY KindNames
    <3> QED BY <3>1 DEF OpSize, TileKernels
  <2>2. ASSUME k # "empty" PROVE OpSize[k] = NumTiles(flat)
    <3>1. k \in {"zero", "histogram", "reserve", "starts", "pack"} /\ k \in Kinds
      BY <2>2, KindNames
    <3>2. k \in TileKernels \cup {"zero", "reserve"}
      BY <3>1 DEF TileKernels
    <3>3. k \notin {"descriptors", "gather", "gatherQueue", "down", "downQueue", "counters", "event", "empty", "merge"}
      BY <3>1
    <3> QED BY <3>1, <3>2, <3>3 DEF OpSize
  <2> QED BY <2>1, <2>2
<1>7. Queued \subseteq DispatchKinds
  BY <1>1, <1>3, QueuedIs DEF Exec, Kinds
<1>8. ASSUME k \in TileKernels PROVE grid \subseteq Index(NumTiles(flat))
  <2>1. k # "empty"
    BY <1>8 DEF TileKernels
  <2>2. Head(stream).size = NumTiles(flat) /\ Head(stream).kind \in TileKernels
    BY <1>1, <1>5, <1>6, <1>8, <2>1
  <2>3. Grid(stream) = Index(NumTiles(flat))
    <3>1. Head(stream).kind \notin QueueKernels
      BY <2>2 DEF TileKernels, QueueKernels
    <3> QED BY <1>1, <2>2, <3>1 DEF Grid
  <2> QED BY <2>3 DEF StreamInv
<1> QED BY <1>2, <1>3, <1>4, <1>5, <1>6, <1>7, <1>8

\* The operation behind the one that ends.
LEMMA NextRuns ==
  ASSUME StreamInv, NEW k, NEW m \in Queued, Running(k), Pop, Rank(m) = Rank(k) + 1, k # m
  PROVE  \A j : Running(j)' <=> j = m
<1>1. Ranked(stream) /\ ~Drained /\ Head(stream).kind = k
  BY DEF StreamInv, Running
<1>2. Ranked(stream') /\ Queued' = Queued \ {k} /\ k \in Queued /\ \A j \in Queued' : Rank(k) < Rank(j)
  BY <1>1, Popped
<1>3. \A j \in Queued : Rank(j) \in Nat
  BY <1>1, QueuedIs
<1>4. m \in Queued' /\ stream' # <<>>
  <2>1. m \in Queued'
    BY <1>2
  <2> QED BY <2>1, KindsNone DEF Queued
<1> DEFINE h == Head(stream').kind
<1>5. h \in Queued' /\ \A j \in Queued' : j = h \/ Rank(h) < Rank(j)
  BY <1>2, <1>4, HeadIs DEF Queued
<1> HIDE DEF h
<1>6. h = m
  <2> SUFFICES ASSUME h # m PROVE FALSE
    OBVIOUS
  <2>1. Rank(h) < Rank(m) /\ Rank(k) < Rank(h) /\ h \in Queued /\ m \in Queued
    BY <1>2, <1>4, <1>5
  <2> QED BY <1>2, <1>3, <2>1
<1> QED BY <1>4, <1>6 DEF Running, Drained, h

\* The grid of the tile kernel that is launched next.
LEMMA NextGrid ==
  ASSUME StreamInv, StreamInv', Pop, Running("histogram")' \/ Running("starts")' \/ Running("pack")'
  PROVE  grid' = Index(NumTiles(flat)')
<1>1. PICK k \in TileKernels : Running(k)'
  BY DEF TileKernels
<1>2. /\ stream' # <<>> /\ Head(stream').kind = k /\ k \notin QueueKernels
      /\ k \in {"histogram", "starts", "pack"}
  BY <1>1 DEF Running, Drained, TileKernels, QueueKernels
<1>3. Ranked(stream)' /\ Described(stream)'
  BY DEF StreamInv
<1>4. Head(stream').size = OpSize'[k]
  <2>1. Head(stream') = stream'[1] /\ 1 \in 1 .. Len(stream')
    BY <1>2, <1>3, TailIs DEF Ranked
  <2> QED BY <1>2, <1>3, <2>1 DEF Described
<1>5. OpSize'[k] = NumTiles(flat)'
  <2>1. k \in Kinds
    BY <1>2, KindNames
  <2>2. k \notin {"descriptors", "gather", "gatherQueue", "down", "downQueue", "counters", "event", "empty", "merge"}
    BY <1>2
  <2> QED BY <1>1, <2>1, <2>2 DEF OpSize
<1>6. grid' = Grid(stream')
  BY DEF Pop
<1>7. Grid(stream') = Index(Head(stream').size)
  BY <1>1, <1>2 DEF Grid
<1> QED BY <1>4, <1>5, <1>6, <1>7

\* One operation runs at a time.
LEMMA OtherRuns == \A k, m : Running(k) /\ Running(m) => k = m
BY DEF Running

\* The dispatch's operations of one program.
LEMMA DispatchOpKeeps ==
  ASSUME HostInv, StreamInv, StreamInv', DispatchInv, DispatchOp
  PROVE  DispatchInv'
<1>1. Pop /\ UNCHANGED <<hpc, asked>> /\ ~Drained
  BY DEF DispatchOp, HostRest, Running
<1>2. batch # 0 /\ Routed(flat) /\ flat = asked[batch]
  <2>1. batch # 0
    BY <1>1 DEF HostInv, Drained
  <2> QED BY <2>1, RoutedNow DEF HostInv
<1>3. CASE Running("zero") /\ TiledBegin
  <2>1. /\ DispatchShape' /\ Sized' /\ Counting(Index(NumTiles(flat)))' /\ UNCHANGED <<batch, flat, reuse>>
    BY <1>2, <1>3, BeginTiles DEF DispatchInv
  <2>2. "zero" \in Queued /\ Exec = {} /\ "zero" \in DispatchKinds
    BY <1>3, DispatchRuns, KindNames
  <2>3. "histogram" \in Queued
    BY <2>2 DEF StreamInv, Phase
  <2>4. \A j : Running(j)' <=> j = "histogram"
    BY <1>1, <1>3, <2>3, NextRuns, RankIs
  <2>5. grid' = Index(NumTiles(flat)')
    BY <1>1, <2>4, NextGrid
  <2>6. Counting(grid)'
    BY <2>1, <2>5
  <2>7. Exec' = {} /\ Dispatching' # {}
    <3>1. Queued' = Queued \ {"zero"}
      BY <1>1, <1>3, Popped DEF StreamInv, Running
    <3>2. "histogram" \in Queued' /\ "histogram" \in DispatchKinds
      BY <2>3, <3>1, KindNames
    <3> QED BY <2>2, <3>1, <3>2 DEF Exec, Dispatching
  <2> QED BY <2>1, <2>4, <2>6, <2>7 DEF DispatchInv
<1>4. CASE Running("reserve") /\ TileReserve
  <2>1. Sized /\ Counting({}) /\ DispatchShape
    BY <1>4 DEF DispatchInv
  <2>2. /\ DispatchShape' /\ Sized' /\ Reserved' /\ Starting(Index(NumTiles(flat)))'
        /\ UNCHANGED <<batch, flat, reuse>>
    BY <1>2, <1>4, <2>1, ReserveStep
  <2>3. "reserve" \in Queued /\ Exec = {}
    BY <1>4, DispatchRuns, KindNames
  <2>4. "starts" \in Queued
    BY <2>3 DEF StreamInv, Phase
  <2>5. \A j : Running(j)' <=> j = "starts"
    BY <1>1, <1>4, <2>4, NextRuns, RankIs
  <2>6. grid' = Index(NumTiles(flat)')
    BY <1>1, <2>5, NextGrid
  <2>7. Starting(grid)'
    BY <2>2, <2>6
  <2>8. Exec' = {} /\ Dispatching' # {}
    <3>1. Queued' = Queued \ {"reserve"}
      BY <1>1, <1>4, Popped DEF StreamInv, Running
    <3>2. "starts" \in Queued' /\ "starts" \in DispatchKinds
      BY <2>4, <3>1, KindNames
    <3> QED BY <2>3, <3>1, <3>2 DEF Exec, Dispatching
  <2> QED BY <2>2, <2>5, <2>7, <2>8 DEF DispatchInv
<1>5. CASE Running("empty") /\ TiledEmpty
  <2>1. "empty" \in Queued /\ Exec = {} /\ "empty" \in DispatchKinds /\ Queued \subseteq DispatchKinds
    BY <1>5, DispatchRuns, KindNames
  <2>2. NumTiles(flat) = 0 /\ Dispatching = {"empty"}
    BY <2>1 DEF StreamInv, Phase
  <2>3. /\ DispatchShape' /\ LaidOut(plan', flat, batch) /\ UNCHANGED <<batch, flat, reuse, tiles>>
    BY <1>2, <1>5, <2>2, EmptyStep DEF DispatchInv
  <2>4. Queued' = {}
    <3>1. Queued' = Queued \ {"empty"}
      BY <1>1, <1>5, Popped DEF StreamInv, Running
    <3> QED BY <2>1, <2>2, <3>1 DEF Dispatching
  <2>5. stream' = <<>> /\ Exec' = {}
    <3>1. IsSequence(stream')
      BY DEF StreamInv, Ranked
    <3> QED BY <2>4, <3>1, KindsNone DEF Queued, Exec
  <2>6. \A k : ~Running(k)'
    BY <2>5 DEF Running, Drained
  <2>7. LaidOut(plan', asked'[batch'], batch')
    BY <1>1, <1>2, <2>3
  <2> QED BY <2>3, <2>5, <2>6, <2>7 DEF DispatchInv
<1> QED BY <1>3, <1>4, <1>5 DEF DispatchOp

\* A program of a tile kernel ends: the grid shrinks, or the next one runs.
LEMMA TileEnds ==
  ASSUME StreamInv, NEW k \in TileKernels, Running(k), NEW t \in grid, ProgramEnds(t)
  PROVE  /\ t \in Index(NumTiles(flat)) /\ Exec = {}
         /\ grid \ {t} # {} => /\ grid' = grid \ {t} /\ stream' = stream /\ Queued' = Queued
                               /\ \A j : Running(j)' <=> j = k
         /\ grid \ {t} = {} => Pop /\ Queued' = Queued \ {k}
<1>1. k \in DispatchKinds /\ Ranked(stream) /\ ~Drained /\ Head(stream).kind = k
  BY DEF DispatchKinds, StreamInv, Running
<1>2. Exec = {} /\ grid \subseteq Index(NumTiles(flat))
  BY <1>1, DispatchRuns
<1>3. ASSUME grid \ {t} # {}
      PROVE  grid' = grid \ {t} /\ stream' = stream /\ Queued' = Queued /\ \A j : Running(j)' <=> j = k
  <2>1. grid # {t}
    BY <1>3
  <2>2. grid' = grid \ {t} /\ stream' = stream
    BY <2>1 DEF ProgramEnds
  <2> QED BY <1>1, <2>2 DEF Queued, Running, Drained
<1>4. ASSUME grid \ {t} = {} PROVE Pop /\ Queued' = Queued \ {k}
  <2>1. Pop
    BY <1>4 DEF ProgramEnds
  <2> QED BY <1>1, <2>1, Popped
<1> QED BY <1>2, <1>3, <1>4

\* A tile of the histogram ends.
LEMMA HistogramKeeps ==
  ASSUME HostInv, StreamInv, StreamInv', DispatchInv, NEW t \in grid, Running("histogram"),
         TileHistogram(t), ProgramEnds(t), UNCHANGED <<hpc, asked>>, Routed(flat)
  PROVE  DispatchInv'
<1>1. PICK G : G = grid
  OBVIOUS
<1>2. /\ t \in Index(NumTiles(flat)) /\ Exec = {}
      /\ grid \ {t} # {} => /\ grid' = grid \ {t} /\ stream' = stream /\ Queued' = Queued
                            /\ \A j : Running(j)' <=> j = "histogram"
      /\ grid \ {t} = {} => Pop /\ Queued' = Queued \ {"histogram"}
  BY TileEnds DEF TileKernels
<1>3. /\ DispatchShape' /\ Sized' /\ Counting(G \ {t})' /\ UNCHANGED <<batch, flat, reuse, plan>>
  BY <1>1, <1>2, HistogramStep DEF DispatchInv
<1>4. "histogram" \in Queued /\ "reserve" \in Queued
  <2>1. "histogram" \in Queued
    BY DispatchRuns, KindNames
  <2> QED BY <2>1 DEF StreamInv, Phase
<1>5. "reserve" \in Queued' /\ Exec' = {} /\ Dispatching' # {}
  BY <1>2, <1>4, KindNames DEF Exec, Dispatching
<1>6. CASE grid \ {t} # {}
  <2>1. Counting(grid)'
    BY <1>1, <1>2, <1>3, <1>6
  <2> QED BY <1>2, <1>3, <1>5, <1>6, <2>1 DEF DispatchInv
<1>7. CASE grid \ {t} = {}
  <2>1. \A j : Running(j)' <=> j = "reserve"
    BY <1>2, <1>4, <1>7, NextRuns, RankIs
  <2>2. Counting({})'
    <3>1. G \ {t} = {}
      BY <1>1, <1>7
    <3> QED BY <1>3, <3>1
  <2> QED BY <1>3, <1>5, <2>1, <2>2 DEF DispatchInv
<1> QED BY <1>6, <1>7

\* A tile of the starts ends.
LEMMA StartsKeep ==
  ASSUME HostInv, StreamInv, StreamInv', DispatchInv, NEW t \in grid, Running("starts"),
         TileLocalStart(t), ProgramEnds(t), UNCHANGED <<hpc, asked>>, Routed(flat)
  PROVE  DispatchInv'
<1>1. PICK G : G = grid
  OBVIOUS
<1>2. /\ t \in Index(NumTiles(flat)) /\ Exec = {}
      /\ grid \ {t} # {} => /\ grid' = grid \ {t} /\ stream' = stream /\ Queued' = Queued
                            /\ \A j : Running(j)' <=> j = "starts"
      /\ grid \ {t} = {} => Pop /\ Queued' = Queued \ {"starts"}
  BY TileEnds DEF TileKernels
<1>3. /\ DispatchShape' /\ Sized' /\ Reserved' /\ Starting(G \ {t})' /\ UNCHANGED <<batch, flat, reuse, plan>>
  BY <1>1, <1>2, StartStep DEF DispatchInv
<1>4. "starts" \in Queued /\ "pack" \in Queued
  <2>1. "starts" \in Queued
    BY DispatchRuns, KindNames
  <2> QED BY <2>1 DEF StreamInv, Phase
<1>5. "pack" \in Queued' /\ Exec' = {} /\ Dispatching' # {}
  BY <1>2, <1>4, KindNames DEF Exec, Dispatching
<1>6. CASE grid \ {t} # {}
  <2>1. Starting(grid)'
    BY <1>1, <1>2, <1>3, <1>6
  <2> QED BY <1>2, <1>3, <1>5, <1>6, <2>1 DEF DispatchInv
<1>7. CASE grid \ {t} = {}
  <2>1. \A j : Running(j)' <=> j = "pack"
    BY <1>2, <1>4, <1>7, NextRuns, RankIs
  <2>2. Starting({})'
    <3>1. G \ {t} = {}
      BY <1>1, <1>7
    <3> QED BY <1>3, <3>1
  <2>3. grid' = Index(NumTiles(flat)')
    BY <1>2, <1>7, <2>1, NextGrid
  <2>4. Packing(grid)'
    <3>1. \A u \in Index(NumTiles(flat')) : u \in grid'
      BY <2>3
    <3> QED BY <3>1 DEF Packing
  <2> QED BY <1>3, <1>5, <2>1, <2>2, <2>4 DEF DispatchInv
<1> QED BY <1>6, <1>7

\* A tile of the packing ends.
LEMMA PackKeeps ==
  ASSUME HostInv, StreamInv, StreamInv', DispatchInv, NEW t \in grid, Running("pack"),
         TilePack(t), ProgramEnds(t), UNCHANGED <<hpc, asked>>, Routed(flat), flat = asked[batch]
  PROVE  DispatchInv'
<1>1. PICK G : G = grid
  OBVIOUS
<1>2. /\ t \in Index(NumTiles(flat)) /\ Exec = {}
      /\ grid \ {t} # {} => /\ grid' = grid \ {t} /\ stream' = stream /\ Queued' = Queued
                            /\ \A j : Running(j)' <=> j = "pack"
      /\ grid \ {t} = {} => Pop /\ Queued' = Queued \ {"pack"}
  BY TileEnds DEF TileKernels
<1>3. /\ DispatchShape' /\ Sized' /\ Reserved' /\ Starting({})' /\ Packing(G \ {t})'
      /\ UNCHANGED <<batch, flat, reuse, tiles>>
      /\ G \subseteq {t} => LaidOut(plan', flat, batch)
  BY <1>1, <1>2, PackStep DEF DispatchInv
<1>4. "pack" \in Queued /\ "pack" \in DispatchKinds
  BY DispatchRuns, KindNames
<1>5. Exec' = {}
  BY <1>2 DEF Exec
<1>6. CASE grid \ {t} # {}
  <2>1. Packing(grid)'
    BY <1>1, <1>2, <1>3, <1>6
  <2>2. Dispatching' # {}
    BY <1>2, <1>4, <1>6 DEF Dispatching
  <2> QED BY <1>2, <1>3, <1>5, <1>6, <2>1, <2>2 DEF DispatchInv
<1>7. CASE grid \ {t} = {}
  <2>1. LaidOut(plan', asked'[batch'], batch')
    <3>1. G \subseteq {t}
      BY <1>1, <1>7
    <3> QED BY <1>3, <3>1
  <2>2. \A k \in Queued' : 13 < Rank(k) /\ k \in Kinds
    BY <1>2, <1>7, Popped, QueuedIs, RankIs DEF StreamInv, Running
  <2>3. Queued' = {}
    BY <2>2, RankIs DEF Kinds, ExecKinds, DispatchKinds, TileKernels
  <2>4. stream' = <<>>
    <3>1. IsSequence(stream')
      BY DEF StreamInv, Ranked
    <3> QED BY <2>3, <3>1, KindsNone DEF Queued
  <2>5. \A k : ~Running(k)'
    BY <2>4 DEF Running, Drained
  <2> QED BY <1>3, <1>5, <2>1, <2>5 DEF DispatchInv
<1> QED BY <1>6, <1>7

\* A tile of any kernel ends.
LEMMA TilesKeepDispatch ==
  ASSUME HostInv, StreamInv, StreamInv', DispatchInv, NEW t \in grid, TileProgram(t)
  PROVE  DispatchInv'
<1>1. ProgramEnds(t) /\ UNCHANGED <<hpc, asked>> /\ ~Drained
  BY DEF TileProgram, HostRest, Running
<1>2. batch # 0 /\ Routed(flat) /\ flat = asked[batch]
  <2>1. batch # 0
    BY <1>1 DEF HostInv, Drained
  <2> QED BY <2>1, RoutedNow DEF HostInv
<1>3. CASE Running("histogram") /\ TileHistogram(t)
  BY <1>1, <1>2, <1>3, HistogramKeeps
<1>4. CASE Running("starts") /\ TileLocalStart(t)
  BY <1>1, <1>2, <1>4, StartsKeep
<1>5. CASE Running("pack") /\ TilePack(t)
  BY <1>1, <1>2, <1>5, PackKeeps
<1> QED BY <1>3, <1>4, <1>5 DEF TileProgram

\* The executor's operations and kernels.
LEMMA ExecSteps ==
  ASSUME CopyOp \/ EventOp \/ MergeOp \/ \E p \in Program : ClaimTile(p) \/ WorkTile(p) \/ ExitKernel(p)
  PROVE  (\E g \in ExecKinds : Running(g)) /\ UNCHANGED <<plan, tiles>>
<1>1. CASE CopyOp
  BY <1>1, KindNames DEF CopyOp, dispatchVars
<1>2. CASE EventOp
  BY <1>2, KindNames DEF EventOp, dispatchVars
<1>3. CASE MergeOp
  BY <1>3, KindNames DEF MergeOp, dispatchVars
<1>4. ASSUME NEW p \in Program, ClaimTile(p) \/ WorkTile(p) \/ ExitKernel(p)
      PROVE  (\E g \in ExecKinds : Running(g)) /\ UNCHANGED <<plan, tiles>>
  BY <1>4, KindNames DEF ClaimTile, WorkTile, ExitKernel, dispatchVars, QueueKernels
<1> QED BY <1>1, <1>2, <1>3, <1>4

\* The dispatch through the device's steps.
LEMMA DeviceKeepsDispatch ==
  ASSUME HostInv, StreamInv, StreamInv', DispatchInv, DeviceStep
  PROVE  DispatchInv'
<1>1. CASE \E t \in grid : TileProgram(t)
  BY <1>1, TilesKeepDispatch
<1>2. CASE DispatchOp
  BY <1>2, DispatchOpKeeps
<1>3. CASE CopyOp \/ EventOp \/ MergeOp \/ \E p \in Program : ClaimTile(p) \/ WorkTile(p) \/ ExitKernel(p)
  <2>1. PICK g \in ExecKinds : Running(g)
    BY <1>3, ExecSteps
  <2>2. UNCHANGED <<plan, tiles>>
    BY <1>3, ExecSteps
  <2>3. UNCHANGED <<batch, flat, asked, hpc>> /\ (Pop \/ (stream' = stream /\ grid' \subseteq grid))
    BY DeviceFrame
  <2> QED BY <2>1, <2>2, <2>3, ExecStepKeepsDispatch
<1> QED BY <1>1, <1>2, <1>3 DEF DeviceStep

\* What is issued behind a running operation does not run yet.
LEMMA RunningNext ==
  ASSUME StreamInv'
  PROVE  \A k : Running(k)' <=> k \in Queued' /\ \A j \in Queued' : j = k \/ Rank(k) < Rank(j)
<1>1. Ranked(stream')
  BY DEF StreamInv
<1>2. CASE stream' = <<>>
  BY <1>2, KindsNone DEF Running, Drained, Queued
<1>3. CASE stream' # <<>>
  <2>1. Head(stream').kind \in Queued'
    BY <1>1, <1>3, KindsTail DEF Queued
  <2> QED BY <1>1, <1>3, <2>1, HeadIs DEF Queued, Running, Drained
<1> QED BY <1>2, <1>3

\* A new forward leaves the last one's plan in place.
LEMMA StartKeepsDispatch ==
  ASSUME HostInv, StreamInv, StreamInv', DispatchInv, NEW f \in Routing, StartForward(f)
  PROVE  DispatchInv'
<1>1. /\ hpc = "idle" /\ hpc' = "dispatch" /\ batch' = batch + 1 /\ asked' = Append(asked, f)
      /\ UNCHANGED <<plan, tiles, stream>>
  BY DEF StartForward
<1>2. Queued' = Queued /\ Dispatching = {}
  BY <1>1 DEF Queued, StreamInv, Phase
<1>3. \A k \in DispatchKinds : k \notin Queued'
  BY <1>2 DEF Dispatching
<1>4. \A k \in {"histogram", "reserve", "starts", "pack"} : ~Running(k)'
  BY <1>3, RunningNext, KindNames
<1>5. ASSUME Exec' # {} PROVE LaidOut(plan', asked'[batch' - 1], batch' - 1)
  <2>1. Exec # {} /\ stream # <<>>
    <3>1. Exec' = Exec
      BY <1>2 DEF Exec
    <3> QED BY <1>5, <3>1, KindsNone DEF Exec, Queued
  <2>2. batch # 0 /\ asked \in Seq(Routing) /\ batch = Len(asked)
    BY <2>1 DEF HostInv
  <2>3. LaidOut(plan, asked[batch], batch)
    BY <1>1, <1>2, <2>2 DEF DispatchInv
  <2>4. batch' - 1 = batch /\ asked'[batch] = asked[batch]
    BY <1>1, <2>2
  <2> QED BY <1>1, <2>3, <2>4
<1>6. DispatchShape'
  BY <1>1 DEF DispatchInv, DispatchShape, PlanShape, TilesShape
<1>7. ~Running("histogram")' /\ ~Running("reserve")' /\ ~Running("starts")' /\ ~Running("pack")'
  BY <1>4
<1> QED BY <1>1, <1>5, <1>6, <1>7 DEF DispatchInv

\* The dispatch through the host's steps.
LEMMA HostKeepsDispatch ==
  ASSUME HostInv, StreamInv, StreamInv', DispatchInv, HostStep
  PROVE  DispatchInv'
<1>1. ASSUME Queued' \subseteq ExecKinds PROVE \A k \in {"histogram", "reserve", "starts", "pack"} : ~Running(k)'
  BY <1>1, RunningNext, KindNames, KindsRanked
<1>2. CASE DispatchHost
  <2>1. Queued' = {} /\ Queued = {}
    BY <1>2, IdleStepsKeepStream
  <2>2. batch # 0 /\ Routed(flat) /\ flat = asked[batch]
    <3>1. batch # 0
      BY <1>2 DEF HostInv, DispatchHost
    <3> QED BY <3>1, RoutedNow DEF HostInv
  <2>3. setup.dispatch \in {"counting_scatter", "stable_sort"}
    <3>1. setup.dispatch \in Algorithms
      BY ForwardAssumption DEF HostInv
    <3> QED BY <1>2, <3>1 DEF DispatchHost, Algorithms
  <2>4. DispatchOnHost(setup.dispatch) /\ hpc' = "schedule" /\ asked' = asked
    BY <1>2 DEF DispatchHost
  <2>5. /\ PlanShape' /\ LaidOut(plan', flat, batch)
        /\ UNCHANGED <<batch, flat, reuse, tiles>>
    <3>1. PlanShape
      BY DEF DispatchInv, DispatchShape
    <3>2. PICK a \in {"counting_scatter", "stable_sort"} : a = setup.dispatch
      BY <2>3
    <3>3. DispatchOnHost(a)
      BY <2>4, <3>2
    <3> QED BY <2>2, <3>1, <3>2, <3>3, HostLaysOut
  <2>6. DispatchShape'
    BY <2>5 DEF DispatchInv, DispatchShape, TilesShape
  <2>7. ~Running("histogram")' /\ ~Running("reserve")' /\ ~Running("starts")' /\ ~Running("pack")'
    BY <1>1, <2>1
  <2>8. Exec' = {}
    BY <2>1 DEF Exec
  <2>9. LaidOut(plan', asked'[batch'], batch')
    BY <2>2, <2>4, <2>5
  <2> QED BY <2>6, <2>7, <2>8, <2>9 DEF DispatchInv
<1>3. CASE DispatchTiled
  <2>1. /\ Exec' = Exec /\ Queued \subseteq ExecKinds
        /\ Queued' = Queued \cup (IF NumTiles(flat) = 0 THEN {"empty"}
                                  ELSE {"zero", "histogram", "reserve", "starts", "pack"})
    BY <1>3, TiledKeepsStream
  <2>2. UNCHANGED <<plan, tiles, batch, flat, asked>> /\ hpc = "dispatch"
    BY <1>3 DEF DispatchTiled, dispatchVars
  <2>3. Dispatching' # {}
    BY <2>1, KindNames DEF Dispatching
  <2>4. ASSUME NEW k \in {"histogram", "reserve", "starts", "pack"}, Running(k)' PROVE FALSE
    <3>1. k \in Queued' /\ \A j \in Queued' : j = k \/ Rank(k) < Rank(j)
      BY <2>4, RunningNext
    <3>2. k \notin Queued
      BY <2>1, KindNames, KindsRanked
    <3>3. "zero" \in Queued'
      BY <2>1, <3>1, <3>2
    <3> QED BY <3>1, <3>3, RankIs
  <2> QED BY <2>1, <2>2, <2>3, <2>4, PlanStays
<1>4. ASSUME UNCHANGED <<plan, tiles, batch, flat, asked>>, hpc # "dispatch", Queued' \subseteq ExecKinds,
             hpc' \notin {"dispatch", "schedule"}, Dispatching = {}
      PROVE  DispatchInv'
  BY <1>1, <1>4, PlanStays
<1>5. CASE Schedule \/ RowRaise \/ RowRun \/ RowsDone \/ LimitRaise
  <2>1. Queued' = {} /\ Queued = {}
    BY <1>5, IdleStepsKeepStream
  <2>2. UNCHANGED <<plan, tiles, batch, flat, asked>> /\ hpc # "dispatch" /\ hpc' \notin {"dispatch", "schedule"}
    BY <1>5 DEF Schedule, RowRaise, RowRun, RowsDone, LimitRaise, Raise, dispatchVars
  <2> QED BY <1>4, <2>1, <2>2 DEF Dispatching
<1>6. CASE Fill \/ Queue \/ Launch \/ Merge
  <2>1. UNCHANGED <<plan, tiles, batch, flat, asked>> /\ hpc \notin {"dispatch", "schedule"}
        /\ hpc' \notin {"dispatch", "schedule"}
    BY <1>6 DEF Fill, Queue, Launch, Merge, dispatchVars
  <2>2. Dispatching = {} /\ Dispatching' = {}
    BY <2>1 DEF StreamInv, Phase
  <2>3. Queued' \subseteq ExecKinds
    <3>1. Queued' \subseteq Kinds
      <4>1. Ranked(stream')
        BY DEF StreamInv
      <4> QED BY <4>1 DEF Ranked, Queued, KindsOf
    <3> QED BY <2>2, <3>1 DEF Dispatching, Kinds
  <2> QED BY <1>4, <2>1, <2>2, <2>3
<1> QED BY <1>2, <1>3, <1>5, <1>6 DEF HostStep

\* The dispatch through every step.
LEMMA DispatchKept ==
  ASSUME HostInv, StreamInv, StreamInv', DispatchInv, [Next]_vars
  PROVE  DispatchInv'
<1>1. ASSUME NEW f \in Routing, StartForward(f) PROVE DispatchInv'
  BY <1>1, StartKeepsDispatch
<1>2. CASE HostStep
  BY <1>2, HostKeepsDispatch
<1>3. CASE DeviceStep
  BY <1>3, DeviceKeepsDispatch
<1>4. CASE UNCHANGED vars
  <2>1. UNCHANGED <<plan, tiles, batch, flat, asked, hpc, stream, grid>>
    BY <1>4 DEF vars, dispatchVars, hostVars
  <2>2. Queued' = Queued /\ \A k : Running(k)' <=> Running(k)
    BY <2>1 DEF Queued, Running, Drained
  <2>3. Exec' = Exec /\ Dispatching' = Dispatching
    BY <2>2 DEF Exec, Dispatching
  <2>4. DispatchShape'
    BY <2>1 DEF DispatchInv, DispatchShape, PlanShape, TilesShape
  <2>5. /\ Sized => Sized'
        /\ Counting(grid) => Counting(grid)'
        /\ Counting({}) => Counting({})'
        /\ Reserved => Reserved'
        /\ Starting(grid) => Starting(grid)'
        /\ Starting({}) => Starting({})'
        /\ Packing(grid) => Packing(grid)'
    <3>1. /\ \A u : HereRow(u)' = HereRow(u) /\ BelowRow(u)' = BelowRow(u)
          /\ \A e, u : Earlier(e, u)' = Earlier(e, u)
          /\ \A u : Sources(u)' = Sources(u)
      BY <2>1 DEF HereRow, Here, Sources, BelowRow, HereBelow, Earlier
    <3>2. Sized => Sized'
      BY <2>1 DEF Sized
    <3>3. Counting(grid) => Counting(grid)'
      BY <2>1, <3>1 DEF Counting
    <3>4. Counting({}) => Counting({})'
      BY <2>1, <3>1 DEF Counting
    <3>5. Reserved => Reserved'
      BY <2>1, <3>1 DEF Reserved
    <3>6. Starting(grid) => Starting(grid)'
      BY <2>1, <3>1 DEF Starting
    <3>7. Starting({}) => Starting({})'
      BY <2>1, <3>1 DEF Starting
    <3>8. Packing(grid) => Packing(grid)'
      BY <2>1, <3>1 DEF Packing
    <3> QED BY <3>2, <3>3, <3>4, <3>5, <3>6, <3>7, <3>8
  <2>6. /\ Running("histogram")' => Sized' /\ Counting(grid)'
        /\ Running("reserve")' => Sized' /\ Counting({})'
        /\ Running("starts")' => Sized' /\ Reserved' /\ Starting(grid)'
        /\ Running("pack")' => Sized' /\ Reserved' /\ Starting({})' /\ Packing(grid)'
    BY <2>2, <2>5 DEF DispatchInv
  <2> QED BY <2>1, <2>3, <2>4, <2>6 DEF DispatchInv
<1> QED BY <1>1, <1>2, <1>3, <1>4 DEF Next

-----------------------------------------------------------------------------
(* The tile queues.                                                        *)

FlatTable(c, ss, n) == c = [i \in 1 .. n |-> IF i = 1 THEN ss[i] ELSE c[i - 1] \o ss[i]]

\* What the flattened sequence of the community module is.
LEMMA FlattenIsTable ==
  ASSUME NEW ss, Len(ss) # 0
  PROVE  FlattenSeq(ss) = (CHOOSE c : FlatTable(c, ss, Len(ss)))[Len(ss)]
BY DEF FlattenSeq, FlatTable

\* The table the flattening builds exists.
LEMMA FlatTablesExist ==
  ASSUME NEW ss, NEW n \in Nat
  PROVE  \E c : FlatTable(c, ss, n)
<1> DEFINE Bad == {m \in Nat : ~ \E c : FlatTable(c, ss, m)}
<1> SUFFICES ASSUME Bad # {} PROVE FALSE
  OBVIOUS
<1>1. PICK m \in Bad : \A j \in Bad : m <= j
  <2>1. Bad \subseteq Nat
    OBVIOUS
  <2> HIDE DEF Bad
  <2> QED BY <2>1, FirstNumber
<1>2. m # 0
  <2> SUFFICES ASSUME m = 0 PROVE FALSE
    OBVIOUS
  <2>1. 1 .. 0 = {}
    OBVIOUS
  <2> DEFINE c == [i \in 1 .. 0 |-> 0]
  <2>2. c = [i \in 1 .. 0 |-> IF i = 1 THEN ss[i] ELSE c[i - 1] \o ss[i]]
    BY <2>1
  <2>3. FlatTable(c, ss, 0)
    BY <2>2 DEF FlatTable
  <2> QED BY <2>3
<1>3. m \in Nat /\ m - 1 \in Nat /\ m - 1 < m
  BY <1>2
<1>4. PICK d : FlatTable(d, ss, m - 1)
  <2>1. m - 1 \notin Bad
    BY <1>1, <1>3
  <2> QED BY <1>3, <2>1
<1>5. d = [i \in 1 .. m - 1 |-> IF i = 1 THEN ss[i] ELSE d[i - 1] \o ss[i]]
  BY <1>4 DEF FlatTable
<1> DEFINE c == [i \in 1 .. m |-> IF i = 1 THEN ss[i] ELSE d[i - 1] \o ss[i]]
<1>6. ASSUME NEW i \in 1 .. m PROVE c[i] = IF i = 1 THEN ss[i] ELSE c[i - 1] \o ss[i]
  <2>1. c[i] = IF i = 1 THEN ss[i] ELSE d[i - 1] \o ss[i]
    OBVIOUS
  <2>2. CASE i = 1
    BY <2>1, <2>2
  <2>3. CASE i # 1
    <3>1. i - 1 \in 1 .. m - 1 /\ i - 1 \in 1 .. m
      BY <1>3, <2>3
    <3>2. c[i - 1] = d[i - 1]
      BY <1>5, <3>1
    <3> HIDE DEF c
    <3> QED BY <2>1, <2>3, <3>2
  <2> QED BY <2>2, <2>3
<1>7. c = [i \in 1 .. m |-> c[i]]
  OBVIOUS
<1> HIDE DEF c
<1>8. FlatTable(c, ss, m)
  BY <1>6, <1>7 DEF FlatTable
<1> QED BY <1>8

\* The sequence q holds the elements of the parts ss, and no others.
Flattened(E, ss, q) ==
  /\ q \in Seq(E)
  /\ \A j \in 1 .. Len(q) : \E k \in 1 .. Len(ss) : \E i \in 1 .. Len(ss[k]) : q[j] = ss[k][i]
  /\ \A k \in 1 .. Len(ss) : \A i \in 1 .. Len(ss[k]) : \E j \in 1 .. Len(q) : q[j] = ss[k][i]

\* A flattened sequence holds what its parts hold.
LEMMA FlattenIs ==
  ASSUME NEW E, NEW ss, IsSequence(ss), \A k \in 1 .. Len(ss) : ss[k] \in Seq(E)
  PROVE  Flattened(E, ss, FlattenSeq(ss))
<1> SUFFICES /\ FlattenSeq(ss) \in Seq(E)
             /\ \A j \in 1 .. Len(FlattenSeq(ss)) :
                  \E k \in 1 .. Len(ss) : \E i \in 1 .. Len(ss[k]) : FlattenSeq(ss)[j] = ss[k][i]
             /\ \A k \in 1 .. Len(ss) : \A i \in 1 .. Len(ss[k]) :
                  \E j \in 1 .. Len(FlattenSeq(ss)) : FlattenSeq(ss)[j] = ss[k][i]
  BY DEF Flattened
<1> DEFINE n == Len(ss)
           F == FlattenSeq(ss)
<1>1. n \in Nat
  BY DEF IsSequence
<1>2. CASE n = 0
  <2>1. F = ss /\ ss = <<>>
    BY <1>2 DEF FlattenSeq, IsSequence
  <2> QED BY <1>2, <2>1
<1>3. CASE n # 0
  <2> DEFINE c == CHOOSE c : FlatTable(c, ss, n)
  <2>1. FlatTable(c, ss, n)
    BY <1>1, FlatTablesExist
  <2>2. F = c[n]
    BY <1>3, FlattenIsTable
  <2> HIDE DEF c, F
  <2>3. \A i \in 1 .. n : c[i] = IF i = 1 THEN ss[i] ELSE c[i - 1] \o ss[i]
    BY <2>1 DEF FlatTable
  <2> DEFINE Good(m) == /\ c[m] \in Seq(E)
                        /\ \A j \in 1 .. Len(c[m]) :
                             \E k \in 1 .. m : \E i \in 1 .. Len(ss[k]) : c[m][j] = ss[k][i]
                        /\ \A k \in 1 .. m : \A i \in 1 .. Len(ss[k]) :
                             \E j \in 1 .. Len(c[m]) : c[m][j] = ss[k][i]
             Bad == {m \in 1 .. n : ~Good(m)}
  <2>4. Good(1)
    <3>1. 1 .. 1 = {1} /\ 1 \in 1 .. n
      BY <1>1, <1>3
    <3>2. c[1] = ss[1]
      BY <2>3, <3>1
    <3> QED BY <3>1, <3>2
  <2>5. ASSUME NEW m \in 1 .. n, m # 1, Good(m - 1) PROVE Good(m)
    <3> DEFINE a == c[m - 1]
               b == ss[m]
               p == Len(a)
               q == Len(b)
    <3>1. m \in 1 .. n /\ m - 1 \in 1 .. n /\ \A k : k \in 1 .. m <=> k \in 1 .. m - 1 \/ k = m
      BY <1>1, <2>5
    <3>2. c[m] = a \o b /\ a \in Seq(E) /\ b \in Seq(E)
      BY <2>3, <2>5, <3>1
    <3>3. /\ c[m] \in Seq(E) /\ p \in Nat /\ q \in Nat /\ Len(c[m]) = p + q
          /\ \A j \in 1 .. p + q : c[m][j] = IF j <= p THEN a[j] ELSE b[j - p]
      <4> HIDE DEF a, b
      <4> USE <3>2 DEF p, q
      <4>1. Len(a) \in Nat /\ Len(b) \in Nat /\ a \o b \in Seq(E) /\ Len(a \o b) = Len(a) + Len(b)
        OBVIOUS
      <4>2. \A j \in 1 .. Len(a) + Len(b) : (a \o b)[j] = IF j <= Len(a) THEN a[j] ELSE b[j - Len(a)]
        OBVIOUS
      <4> QED BY <4>1, <4>2
    <3>4. /\ \A j \in 1 .. p : \E k \in 1 .. m - 1 : \E i \in 1 .. Len(ss[k]) : a[j] = ss[k][i]
          /\ \A k \in 1 .. m - 1 : \A i \in 1 .. Len(ss[k]) : \E j \in 1 .. p : a[j] = ss[k][i]
      BY <2>5
    <3> HIDE DEF a, p, q
    <3>5. \A j \in 1 .. p + q : \/ j \in 1 .. p /\ c[m][j] = a[j]
                                \/ j - p \in 1 .. q /\ c[m][j] = b[j - p]
      <4>1. ASSUME NEW j \in 1 .. p + q, j <= p PROVE j \in 1 .. p /\ c[m][j] = a[j]
        BY <3>3, <4>1
      <4>2. ASSUME NEW j \in 1 .. p + q, ~(j <= p) PROVE j - p \in 1 .. q /\ c[m][j] = b[j - p]
        BY <3>3, <4>2
      <4> QED BY <4>1, <4>2
    <3>6. /\ \A j \in 1 .. p : j \in 1 .. p + q /\ c[m][j] = a[j]
          /\ \A i \in 1 .. q : i + p \in 1 .. p + q /\ c[m][i + p] = b[i]
      <4>1. \A j \in 1 .. p : j \in 1 .. p + q /\ j <= p
        BY <3>3
      <4>2. \A i \in 1 .. q : i + p \in 1 .. p + q /\ ~(i + p <= p) /\ (i + p) - p = i
        BY <3>3
      <4> QED BY <3>3, <4>1, <4>2
    <3>7. \A j \in 1 .. p + q :
            \E k \in 1 .. m : \E i \in 1 .. Len(ss[k]) : c[m][j] = ss[k][i]
      <4> SUFFICES ASSUME NEW j \in 1 .. p + q
                   PROVE  \E k \in 1 .. m : \E i \in 1 .. Len(ss[k]) : c[m][j] = ss[k][i]
        OBVIOUS
      <4>1. CASE j \in 1 .. p /\ c[m][j] = a[j]
        BY <3>1, <3>4, <4>1
      <4>2. CASE j - p \in 1 .. q /\ c[m][j] = b[j - p]
        BY <3>1, <4>2 DEF q
      <4> QED BY <3>5, <4>1, <4>2
    <3>8. \A k \in 1 .. m : \A i \in 1 .. Len(ss[k]) : \E j \in 1 .. p + q : c[m][j] = ss[k][i]
      <4> SUFFICES ASSUME NEW k \in 1 .. m, NEW i \in 1 .. Len(ss[k])
                   PROVE  \E j \in 1 .. p + q : c[m][j] = ss[k][i]
        OBVIOUS
      <4>1. CASE k \in 1 .. m - 1
        BY <3>4, <3>6, <4>1
      <4>2. CASE k = m
        BY <3>6, <4>2 DEF q
      <4> QED BY <3>1, <4>1, <4>2
    <3> QED BY <3>3, <3>7, <3>8
  <2> HIDE DEF Good
  <2>6. Bad = {}
    <3> SUFFICES ASSUME Bad # {} PROVE FALSE
      OBVIOUS
    <3>1. PICK m \in Bad : \A j \in Bad : m <= j
      <4>1. Bad \subseteq Nat
        OBVIOUS
      <4> HIDE DEF Bad
      <4> QED BY <4>1, FirstNumber
    <3>2. m # 1
      BY <2>4, <3>1
    <3>3. m - 1 \in 1 .. n /\ m - 1 < m
      BY <1>1, <3>2
    <3>4. Good(m - 1)
      <4>1. ~(m <= m - 1)
        BY <3>3
      <4> QED BY <3>1, <3>3, <4>1
    <3> QED BY <2>5, <3>1, <3>2, <3>4
  <2>7. Good(n)
    BY <1>1, <1>3, <2>6
  <2>8. Good(n) <=> /\ F \in Seq(E)
                    /\ \A j \in 1 .. Len(F) :
                         \E k \in 1 .. n : \E i \in 1 .. Len(ss[k]) : F[j] = ss[k][i]
                    /\ \A k \in 1 .. n : \A i \in 1 .. Len(ss[k]) :
                         \E j \in 1 .. Len(F) : F[j] = ss[k][i]
    BY <2>2 DEF Good
  <2> QED BY <2>7, <2>8 DEF F
<1> QED BY <1>2, <1>3

TilesOf(k, blocks) ==
  [j \in 1 .. RowTiles(rows[k].count) * blocks |->
     [descriptor |-> k, m |-> (j - 1) \div blocks, n |-> (j - 1) % blocks]]

\* The queue entries s are of row k, and cover its slots with every block of columns.
TilesOfRow(k, blocks, s) ==
  /\ s \in Seq(Entry)
  /\ \A j \in 1 .. Len(s) : s[j].descriptor = k /\ s[j].n \in Index(blocks)
  /\ \A r \in Index(rows[k].count), n \in Index(blocks) :
       \E j \in 1 .. Len(s) : s[j] = [descriptor |-> k, m |-> r \div BlockM, n |-> n]

\* The tiles of one row are whole: one entry for each row tile and column.
LEMMA TilesOfIs ==
  ASSUME NEW k \in Nat, rows[k].count \in Nat, NEW blocks \in Nat \ {0}
  PROVE  TilesOfRow(k, blocks, TilesOf(k, blocks))
<1> DEFINE c == rows[k].count
           T == RowTiles(c)
           N == T * blocks
           s == TilesOf(k, blocks)
<1>1. c \in Nat /\ blocks \in Nat \ {0} /\ BlockM \in Nat \ {0}
  BY ExecutorAssumption
<1>2. T \in Nat /\ \A r \in Index(c) : r \div BlockM \in Nat /\ r \div BlockM < T
  <2>1. T = CeilDiv(c, BlockM)
    BY DEF RowTiles
  <2>2. CeilDiv(c, BlockM) \in Nat /\ \A r \in Index(c) : r \div BlockM \in Index(CeilDiv(c, BlockM))
    BY <1>1, CeilDivIs
  <2>3. \A r \in Index(c) : r \in Nat
    BY <1>1 DEF Index
  <2>4. \A r \in Index(c) : r \div BlockM \in Nat
    BY <1>1, <2>3, Divides
  <2> HIDE DEF T, c
  <2> QED BY <2>1, <2>2, <2>4 DEF Index
<1> HIDE DEF c, T
<1>3. N \in Nat
  BY <1>1, <1>2
<1>4. s = [j \in 1 .. N |-> [descriptor |-> k, m |-> (j - 1) \div blocks, n |-> (j - 1) % blocks]]
  BY DEF TilesOf, c, T
<1>5. \A j \in 1 .. N : (j - 1) \div blocks \in Nat /\ (j - 1) % blocks \in Index(blocks)
  <2> SUFFICES ASSUME NEW j \in 1 .. N PROVE (j - 1) \div blocks \in Nat /\ (j - 1) % blocks \in Index(blocks)
    OBVIOUS
  <2>1. j - 1 \in Nat
    BY <1>3
  <2>2. (j - 1) \div blocks \in Nat /\ (j - 1) % blocks \in Nat /\ (j - 1) % blocks < blocks
    BY <1>1, <2>1, Divides
  <2>3. (j - 1) % blocks \in 0 .. blocks - 1
    BY <1>1, <2>2
  <2> QED BY <2>2, <2>3 DEF Index
<1>6. ASSUME NEW r \in Index(c), NEW n \in Index(blocks)
      PROVE  \E j \in 1 .. N : (j - 1) \div blocks = r \div BlockM /\ (j - 1) % blocks = n
  <2> DEFINE m == r \div BlockM
             x == m * blocks
  <2>1. m \in Nat /\ m < T /\ n \in Nat /\ n < blocks
    BY <1>1, <1>2, <1>6 DEF Index
  <2> HIDE DEF m
  <2>2. x + blocks <= N
    BY <1>1, <1>2, <2>1, MultMonotone
  <2>3. x \in Nat
    BY <1>1, <2>1
  <2>4. (x + n) \div blocks = m /\ (x + n) % blocks = n
    BY <1>1, <1>6, <2>1, DivUnique
  <2> HIDE DEF x, N
  <2>5. x + n + 1 \in 1 .. N /\ (x + n + 1) - 1 = x + n
    BY <1>1, <1>3, <2>1, <2>2, <2>3
  <2> QED BY <2>4, <2>5 DEF m
<1> HIDE DEF N, s
<1>7. s \in Seq(Entry) /\ Len(s) = N
  <2>1. \A j \in 1 .. N : s[j] \in Entry
    BY <1>4, <1>5 DEF Entry
  <2>2. s \in [1 .. N -> Entry]
    BY <1>4, <2>1
  <2> QED BY <1>3, <2>2
<1>8. \A j \in 1 .. N : s[j].descriptor = k /\ s[j].n \in Index(blocks)
  BY <1>4, <1>5
<1>9. \A r \in Index(c), n \in Index(blocks) :
        \E j \in 1 .. N : s[j] = [descriptor |-> k, m |-> r \div BlockM, n |-> n]
  BY <1>4, <1>6
<1> QED BY <1>7, <1>8, <1>9 DEF TilesOfRow, s, c

Counted(s) == IsSequence(s) /\ \A k \in 1 .. Len(s) : s[k].count \in Nat

\* A queue holds the tiles of every row, and nothing else.
LEMMA TileQueueIs ==
  ASSUME Counted(rows), NEW blocks \in Nat \ {0}
  PROVE  /\ TileQueue(blocks) \in Seq(Entry) /\ Len(TileQueue(blocks)) \in Nat
         /\ \A j \in 1 .. Len(TileQueue(blocks)) :
              /\ TileQueue(blocks)[j].descriptor \in 1 .. Len(rows)
              /\ TileQueue(blocks)[j].n \in Index(blocks)
         /\ \A k \in 1 .. Len(rows) : \A r \in Index(rows[k].count), n \in Index(blocks) :
              \E j \in 1 .. Len(TileQueue(blocks)) :
                TileQueue(blocks)[j] = [descriptor |-> k, m |-> r \div BlockM, n |-> n]
<1> DEFINE ss == [k \in 1 .. Len(rows) |-> TilesOf(k, blocks)]
           q == FlattenSeq(ss)
<1>1. DOMAIN rows = 1 .. Len(rows) /\ Len(rows) \in Nat
  BY DEF Counted, IsSequence
<1>2. TileQueue(blocks) = q
  BY <1>1 DEF TileQueue, TilesOf
<1>3. \A k \in 1 .. Len(rows) : k \in Nat /\ rows[k].count \in Nat
  BY DEF Counted
<1>4. \A k \in 1 .. Len(rows) : ss[k] = TilesOf(k, blocks) /\ ss[k] \in Seq(Entry)
  BY <1>3, TilesOfIs DEF TilesOfRow
<1>5. IsSequence(ss) /\ Len(ss) = Len(rows)
  <2>1. ss \in [1 .. Len(rows) -> Seq(Entry)]
    BY <1>4
  <2>2. ss \in Seq(Seq(Entry)) /\ Len(ss) = Len(rows)
    BY <1>1, <2>1
  <2> QED BY <2>2, SequenceOfItsRange
<1>11. \A k \in 1 .. Len(ss) : ss[k] \in Seq(Entry)
  BY <1>4, <1>5
<1>12. \A k \in 1 .. Len(rows) :
         /\ \A j \in 1 .. Len(ss[k]) : ss[k][j].descriptor = k /\ ss[k][j].n \in Index(blocks)
         /\ \A r \in Index(rows[k].count), n \in Index(blocks) :
              \E j \in 1 .. Len(ss[k]) : ss[k][j] = [descriptor |-> k, m |-> r \div BlockM, n |-> n]
  <2> SUFFICES ASSUME NEW k \in 1 .. Len(rows)
               PROVE  /\ \A j \in 1 .. Len(ss[k]) : ss[k][j].descriptor = k /\ ss[k][j].n \in Index(blocks)
                      /\ \A r \in Index(rows[k].count), n \in Index(blocks) :
                           \E j \in 1 .. Len(ss[k]) : ss[k][j] = [descriptor |-> k, m |-> r \div BlockM, n |-> n]
    OBVIOUS
  <2>1. ss[k] = TilesOf(k, blocks)
    BY <1>4
  <2>2. k \in Nat /\ rows[k].count \in Nat
    BY <1>3
  <2>3. TilesOfRow(k, blocks, TilesOf(k, blocks))
    BY <2>2, TilesOfIs
  <2> HIDE DEF ss
  <2> QED BY <2>1, <2>3 DEF TilesOfRow
<1> HIDE DEF ss
<1>6. /\ q \in Seq(Entry)
      /\ \A j \in 1 .. Len(q) : \E k \in 1 .. Len(rows) : \E i \in 1 .. Len(ss[k]) : q[j] = ss[k][i]
      /\ \A k \in 1 .. Len(rows) : \A i \in 1 .. Len(ss[k]) : \E j \in 1 .. Len(q) : q[j] = ss[k][i]
  <2>1. PICK z : z = ss
    OBVIOUS
  <2>2. IsSequence(z) /\ \A k \in 1 .. Len(z) : z[k] \in Seq(Entry)
    BY <1>5, <1>11, <2>1
  <2>3. PICK E : E = Entry
    OBVIOUS
  <2>4. \A k \in 1 .. Len(z) : z[k] \in Seq(E)
    BY <2>2, <2>3
  <2>5. Flattened(E, z, FlattenSeq(z))
    BY ONLY <2>2, <2>4, FlattenIs
  <2>6. q = FlattenSeq(z) /\ ss = z
    BY <2>1
  <2>7. Flattened(Entry, ss, q)
    BY <2>3, <2>5, <2>6
  <2>8. Len(ss) = Len(rows)
    BY <1>5
  <2> HIDE DEF q
  <2>9. /\ q \in Seq(Entry)
        /\ \A j \in 1 .. Len(q) : \E k \in 1 .. Len(ss) : \E i \in 1 .. Len(ss[k]) : q[j] = ss[k][i]
        /\ \A k \in 1 .. Len(ss) : \A i \in 1 .. Len(ss[k]) : \E j \in 1 .. Len(q) : q[j] = ss[k][i]
    BY ONLY <2>7 DEF Flattened
  <2> QED BY ONLY <2>8, <2>9
<1> HIDE DEF q
<1>7. \A j \in 1 .. Len(q) : q[j].descriptor \in 1 .. Len(rows) /\ q[j].n \in Index(blocks)
  BY <1>6, <1>12
<1>8. ASSUME NEW k \in 1 .. Len(rows), NEW r \in Index(rows[k].count), NEW n \in Index(blocks)
      PROVE  \E j \in 1 .. Len(q) : q[j] = [descriptor |-> k, m |-> r \div BlockM, n |-> n]
  <2>1. PICK i \in 1 .. Len(ss[k]) : ss[k][i] = [descriptor |-> k, m |-> r \div BlockM, n |-> n]
    BY <1>12
  <2>2. PICK j \in 1 .. Len(q) : q[j] = ss[k][i]
    BY <1>6
  <2> QED BY <2>1, <2>2
<1>9. Len(q) \in Nat
  BY <1>6
<1> QED BY <1>2, <1>6, <1>7, <1>8, <1>9

-----------------------------------------------------------------------------
(* The rows of the schedule.                                               *)

ToDo(c) == {e \in Expert : c[e] > 0}
ToDoBelow(c, e) == {d \in ToDo(c) : d < e}

\* Every expert with something to do has a turn, and one only.
LEMMA ActiveIs ==
  ASSUME NEW c, NEW N, N = Cardinality(ToDo(c))
  PROVE  /\ N \in Nat
         /\ ActiveExperts(c) = [k \in 1 .. N |-> ActiveExperts(c)[k]]
         /\ \A k \in 1 .. N : ActiveExperts(c)[k] \in ToDo(c)
         /\ \A j, k \in 1 .. N : ActiveExperts(c)[j] = ActiveExperts(c)[k] => j = k
         /\ \A e \in ToDo(c) : \E k \in 1 .. N : ActiveExperts(c)[k] = e
<1> DEFINE A == ToDo(c)
           q == ActiveExperts(c)
           place == [e \in A |-> Cardinality(ToDoBelow(c, e)) + 1]
<1>1. q = [k \in 1 .. N |-> CHOOSE e \in A : Cardinality(ToDoBelow(c, e)) = k - 1]
  BY DEF ActiveExperts, ToDo, ToDoBelow
<1>2. A \in SUBSET Index(NumExperts) /\ NumExperts \in Nat /\ A \subseteq Nat
  BY ExpertsAre DEF ToDo, Expert, Index
<1>3. IsFiniteSet(A) /\ N \in Nat
  BY <1>2, Fewer
<1>4. \A e : ToDoBelow(c, e) \in SUBSET A /\ ToDoBelow(c, e) \in SUBSET Index(NumExperts)
  BY <1>2 DEF ToDoBelow
<1>5. \A e \in A : e \notin ToDoBelow(c, e)
  BY <1>2 DEF ToDoBelow
<1> HIDE DEF A, q
<1>6. \A e \in A : /\ Cardinality(ToDoBelow(c, e)) \in Nat
                   /\ Cardinality(ToDoBelow(c, e)) + 1 <= N
  BY <1>2, <1>4, <1>5, Fewer DEF A
<1>7. place \in [A -> 1 .. N]
  BY <1>3, <1>6
<1>8. ASSUME NEW d \in A, NEW e \in A, d < e PROVE Cardinality(ToDoBelow(c, d)) + 1 <= Cardinality(ToDoBelow(c, e))
  <2>1. ToDoBelow(c, d) \in SUBSET ToDoBelow(c, e) /\ d \in ToDoBelow(c, e)
    BY <1>2, <1>8 DEF ToDoBelow, A
  <2> QED BY <1>2, <1>4, <1>5, <2>1, Fewer
<1>9. ASSUME NEW d \in A, NEW e \in A, place[d] = place[e] PROVE d = e
  <2>1. Cardinality(ToDoBelow(c, d)) = Cardinality(ToDoBelow(c, e))
    BY <1>6, <1>9
  <2>2. ~(d < e) /\ ~(e < d)
    BY <1>6, <1>8, <2>1
  <2> QED BY <1>2, <2>2
<1> HIDE DEF place
<1>10. \A k \in 1 .. N : \E e \in A : place[e] = k
  <2>1. place \in Injection(A, 1 .. N)
    BY <1>7, <1>9 DEF Injection, IsInjective
  <2>2. IsFiniteSet(1 .. N) /\ Cardinality(1 .. N) = N
    BY <1>3, FS_Interval
  <2>3. place \in Surjection(A, 1 .. N)
    BY <1>3, <2>1, <2>2, FS_Injection DEF A
  <2> QED BY <2>3 DEF Surjection
<1>11. \A e \in A : place[e] = Cardinality(ToDoBelow(c, e)) + 1
  BY DEF place
<1>12. ASSUME NEW k \in 1 .. N PROVE q[k] \in A /\ place[q[k]] = k
  <2>1. PICK e \in A : place[e] = k
    BY <1>10
  <2>2. Cardinality(ToDoBelow(c, e)) = k - 1
    BY <1>6, <1>11, <2>1
  <2>3. q[k] = CHOOSE d \in A : Cardinality(ToDoBelow(c, d)) = k - 1
    BY <1>1
  <2>4. q[k] \in A /\ Cardinality(ToDoBelow(c, q[k])) = k - 1
    BY <2>2, <2>3
  <2> QED BY <1>3, <1>11, <2>4
<1>13. ASSUME NEW e \in A PROVE \E k \in 1 .. N : q[k] = e
  <2>1. place[e] \in 1 .. N
    BY <1>7
  <2>2. q[place[e]] = e
    BY <1>9, <1>12, <2>1
  <2> QED BY <2>1, <2>2
<1>14. \A j, k \in 1 .. N : q[j] = q[k] => j = k
  BY <1>12
<1>15. q = [k \in 1 .. N |-> q[k]]
  BY <1>1
<1> QED BY <1>3, <1>12, <1>13, <1>14, <1>15 DEF q, A

\* Every slot of a finished plan has an assignment.
LEMMA SlotsAre ==
  ASSUME NEW n \in Nat, NEW f \in [Index(n) -> Expert], NEW p, NEW b, LaidOut(p, f, b),
         NEW s \in Index(n)
  PROVE  \E i \in Index(n) : StablePlace(f)[i] = s /\ Placed(p, f, b, i)
<1>1. PICK i \in Index(n) : StablePlace(f)[i] = s
  BY PlacesAre
<1> QED BY <1>1 DEF LaidOut

\* The offsets of an expert and the next are its count apart.
LEMMA BelowNext ==
  ASSUME NEW n \in Nat, NEW f \in [Index(n) -> Expert], NEW e \in Expert
  PROVE  /\ Cardinality(Below(f, e)) \in Nat /\ Cardinality(Below(f, e + 1)) \in Nat
         /\ Cardinality(Below(f, e + 1)) = Cardinality(Below(f, e)) + Histogram(f)[e]
         /\ Cardinality(Below(f, e + 1)) <= n
<1>1. \A d : Below(f, d) \in SUBSET Index(n)
  BY BeforeIs
<1>2. \A d : Cardinality(Below(f, d)) \in Nat /\ Cardinality(Below(f, d)) <= n
  BY <1>1, Fewer
<1>3. Equal(f, e) \in SUBSET Index(n)
  BY DEF Equal
<1>4. e \in Nat /\ \A i \in Index(n) : f[i] \in Nat
  BY ExpertsAre
<1>5. Below(f, e) \cap Equal(f, e) = {} /\ Below(f, e + 1) = Below(f, e) \cup Equal(f, e)
  <2>1. \A x \in Nat : (x < e + 1 <=> (x < e \/ x = e)) /\ (x = e => ~(x < e))
    BY <1>4
  <2>2. DOMAIN f = Index(n)
    OBVIOUS
  <2> QED BY <1>4, <2>1, <2>2 DEF Below, Equal
<1>6. Cardinality(Below(f, e + 1)) = Cardinality(Below(f, e)) + Cardinality(Equal(f, e))
  BY <1>1, <1>3, <1>5, Parts
<1> QED BY <1>2, <1>6, HistogramIs

\* R is a row for every expert chosen in f, over the slots of p that hold its assignments.
RowsOf(R, n, f, p) ==
  /\ IsSequence(R) /\ Len(R) \in Nat /\ DOMAIN R = 1 .. Len(R)
  /\ \A k \in 1 .. Len(R) :
       /\ RowOf(R[k], f) /\ R[k].start \in Nat /\ R[k].count \in Nat
       /\ R[k].end = R[k].start + R[k].count /\ R[k].end <= n
       /\ R[k].start \in Nat /\ Slots(R[k]) \subseteq Index(n)
  /\ \A j, k \in 1 .. Len(R) : R[j].expert = R[k].expert => j = k
  /\ \A i \in Index(n) : \E k \in 1 .. Len(R) : R[k].expert = f[i]
  /\ \A k \in 1 .. Len(R) : \A s \in Slots(R[k]) : p.slots[s].expert = R[k].expert
  /\ \A s \in Index(n) : \E k \in 1 .. Len(R) : s \in Slots(R[k])

(* The schedule of a finished plan: a row for every expert that was chosen,  *)
(* over exactly the slots that hold its assignments.                         *)
LEMMA RowsAre ==
  ASSUME NEW n \in Nat, NEW f \in [Index(n) -> Expert], NEW p, NEW b, LaidOut(p, f, b),
         NEW R, R = RoundRobinSchedule(p.counts, p.offsets)
  PROVE  RowsOf(R, n, f, p)
<1> DEFINE c == Histogram(f)
           o == Offsets(c)
           q == ActiveExperts(c)
           N == Cardinality(ToDo(c))
<1>1. p.counts = c /\ p.offsets = o
  BY DEF LaidOut
<1>2. /\ N \in Nat /\ q = [k \in 1 .. N |-> q[k]]
      /\ \A k \in 1 .. N : q[k] \in ToDo(c)
      /\ \A j, k \in 1 .. N : q[j] = q[k] => j = k
      /\ \A e \in ToDo(c) : \E k \in 1 .. N : q[k] = e
  BY ActiveIs
<1>3. DOMAIN q = 1 .. N
  <2> HIDE DEF q, N
  <2> QED BY <1>2
<1>4. R = [k \in 1 .. N |->
             [expert   |-> q[k], start |-> o[q[k]], end |-> o[q[k] + 1], count |-> c[q[k]],
              priority |-> k - 1, stream |-> (k - 1) % StreamCount]]
  BY <1>1, <1>3 DEF RoundRobinSchedule
<1>5. \A e \in 0 .. NumExperts : o[e] = Cardinality(Below(f, e))
  BY OffsetsAre
<1>6. \A k \in 1 .. N : q[k] \in Expert
  BY <1>2 DEF ToDo
<1>7. c \in [Expert -> Nat]
  BY HistogramIs
<1> HIDE DEF q, N, o, c
<1>8. IsSequence(R) /\ Len(R) = N /\ DOMAIN R = 1 .. N
  <2>1. R \in Seq(Range(R)) /\ Len(R) = N
    BY <1>2, <1>4 DEF Range
  <2> QED BY <1>4, <2>1 DEF IsSequence
<1>9. \A k \in 1 .. N : /\ R[k].expert = q[k] /\ R[k].start = o[q[k]] /\ R[k].end = o[q[k] + 1]
                        /\ R[k].count = c[q[k]]
  BY <1>4
<1>10. ASSUME NEW k \in 1 .. N
       PROVE  /\ RowOf(R[k], f) /\ R[k].start \in Nat /\ R[k].count \in Nat
              /\ R[k].end = R[k].start + R[k].count /\ R[k].end <= n
              /\ R[k].start \in Nat /\ Slots(R[k]) \subseteq Index(n)
  <2> DEFINE e == q[k]
  <2>1. e \in Expert /\ e \in 0 .. NumExperts /\ e + 1 \in 0 .. NumExperts
    BY <1>6, ExpertsAre
  <2>2. /\ R[k].expert = e /\ R[k].start = Cardinality(Below(f, e))
        /\ R[k].end = Cardinality(Below(f, e + 1)) /\ R[k].count = c[e]
    BY <1>5, <1>9, <2>1
  <2> HIDE DEF e
  <2>3. /\ Cardinality(Below(f, e)) \in Nat /\ Cardinality(Below(f, e + 1)) \in Nat
        /\ Cardinality(Below(f, e + 1)) = Cardinality(Below(f, e)) + c[e]
        /\ Cardinality(Below(f, e + 1)) <= n
    BY <2>1, BelowNext DEF c
  <2>4. c[e] \in Nat
    BY <1>7, <2>1
  <2>5. RowOf(R[k], f)
    BY <2>1, <2>2 DEF RowOf, c
  <2>6. Slots(R[k]) \subseteq Index(n)
    BY <2>2, <2>3 DEF Slots, Index
  <2> QED BY <2>2, <2>3, <2>4, <2>5, <2>6
<1>11. \A j, k \in 1 .. N : R[j].expert = R[k].expert => j = k
  BY <1>2, <1>9
<1>12. ASSUME NEW i \in Index(n) PROVE \E k \in 1 .. N : R[k].expert = f[i]
  <2>1. f[i] \in Expert /\ i \in Equal(f, f[i]) /\ Equal(f, f[i]) \in SUBSET Index(n)
    BY DEF Equal
  <2>2. c[f[i]] = Cardinality(Equal(f, f[i]))
    BY <2>1, HistogramIs DEF c
  <2>3. Cardinality(Equal(f, f[i])) # 0 /\ Cardinality(Equal(f, f[i])) \in Nat
    BY <2>1, Fewer, FS_EmptySet
  <2>4. f[i] \in ToDo(c)
    BY <2>1, <2>2, <2>3 DEF ToDo
  <2> QED BY <1>2, <1>9, <2>4
<1>13. ASSUME NEW k \in 1 .. N, NEW s \in Slots(R[k]) PROVE p.slots[s].expert = R[k].expert
  <2> DEFINE e == q[k]
  <2>1. s \in Index(n) /\ e \in Expert /\ e \in 0 .. NumExperts /\ e + 1 \in 0 .. NumExperts
    BY <1>6, <1>10, ExpertsAre
  <2>2. R[k].expert = e /\ R[k].start = Cardinality(Below(f, e)) /\ R[k].end = Cardinality(Below(f, e + 1))
    BY <1>5, <1>9, <2>1
  <2>3. R[k].start \in Nat /\ R[k].end \in Nat
    <3>1. R[k].start \in Nat /\ R[k].count \in Nat /\ R[k].end = R[k].start + R[k].count
      BY <1>10
    <3> QED BY <3>1
  <2>4. R[k].start <= s /\ s < R[k].end
    BY <2>3 DEF Slots
  <2>5. PICK i \in Index(n) : StablePlace(f)[i] = s
    BY <2>1, PlacesAre
  <2>7. p.slots[s].expert = f[i]
    <3>1. i \in DOMAIN f
      OBVIOUS
    <3>2. Placed(p, f, b, i)
      BY <3>1 DEF LaidOut
    <3> QED BY <2>5, <3>2 DEF Placed
  <2> HIDE DEF e
  <2>6. f[i] = e
    BY <2>1, <2>2, <2>4, <2>5, SlotExpert
  <2> QED BY <2>2, <2>6, <2>7
<1>14. ASSUME NEW s \in Index(n) PROVE \E k \in 1 .. N : s \in Slots(R[k])
  <2>1. PICK i \in Index(n) : StablePlace(f)[i] = s
    BY PlacesAre
  <2>2. PICK k \in 1 .. N : R[k].expert = f[i]
    BY <1>12
  <2>3. Cardinality(Below(f, f[i])) <= s /\ s < Cardinality(Below(f, f[i] + 1))
    BY <2>1, PlacesAre
  <2>4. R[k].start = Cardinality(Below(f, f[i])) /\ R[k].end = Cardinality(Below(f, f[i] + 1))
    BY <1>10, <2>2 DEF RowOf
  <2>5. R[k].start \in Nat /\ R[k].end \in Nat /\ s \in Nat
    <3>1. R[k].start \in Nat /\ R[k].count \in Nat /\ R[k].end = R[k].start + R[k].count
      BY <1>10
    <3> QED BY <3>1 DEF Index
  <2>6. R[k].start <= s /\ s < R[k].end
    BY <2>3, <2>4
  <2> QED BY <2>5, <2>6 DEF Slots
<1> QED BY <1>2, <1>8, <1>10, <1>11, <1>12, <1>13, <1>14 DEF RowsOf

-----------------------------------------------------------------------------
(* Metadata buffers.                                                       *)

\* The larger of two.
LEMMA LargestOf ==
  /\ \A a, b \in Nat : Max({a, b}) \in Nat /\ a <= Max({a, b}) /\ b <= Max({a, b})
  /\ \A a, b, c \in Nat :
       Max({a, b, c}) \in Nat /\ a <= Max({a, b, c}) /\ b <= Max({a, b, c}) /\ c <= Max({a, b, c})
<1>1. ASSUME NEW a \in Nat, NEW b \in Nat
      PROVE  Max({a, b}) \in Nat /\ a <= Max({a, b}) /\ b <= Max({a, b})
  <2>1. \E x \in {a, b} : \A y \in {a, b} : x >= y
    BY <1>1
  <2>2. Max({a, b}) \in {a, b} /\ \A y \in {a, b} : Max({a, b}) >= y
    BY <2>1 DEF Max
  <2> QED BY <1>1, <2>2
<1>2. ASSUME NEW a \in Nat, NEW b \in Nat, NEW c \in Nat
      PROVE  Max({a, b, c}) \in Nat /\ a <= Max({a, b, c}) /\ b <= Max({a, b, c}) /\ c <= Max({a, b, c})
  <2>1. \E x \in {a, b, c} : \A y \in {a, b, c} : x >= y
    BY <1>2
  <2>2. Max({a, b, c}) \in {a, b, c} /\ \A y \in {a, b, c} : Max({a, b, c}) >= y
    BY <2>1 DEF Max
  <2> QED BY <1>2, <2>2
<1> QED BY <1>1, <1>2

\* A buffer that is made ready has the room that was asked for.
LEMMA ReserveFits ==
  ASSUME NEW E, NEW s \in Seq(E), NEW n \in Nat, NEW u \in E
  PROVE  Reserve(s, n, u) \in Seq(E) /\ n <= Len(Reserve(s, n, u))
<1> DEFINE L == Max({n, 1, 2 * Len(s)})
<1>1. Len(s) \in Nat /\ 2 * Len(s) \in Nat
  OBVIOUS
<1>2. Max({n, 1}) \in Nat /\ n <= Max({n, 1}) /\ L \in Nat /\ n <= L
  BY <1>1, LargestOf
<1> HIDE DEF L
<1>3. CASE Len(s) < Max({n, 1})
  <2> DEFINE r == [i \in 1 .. L |-> u]
  <2>1. Reserve(s, n, u) = r
    BY <1>3 DEF Reserve, L
  <2>2. r \in Seq(E) /\ Len(r) = L
    BY <1>2
  <2> QED BY <1>2, <2>1, <2>2
<1>4. CASE ~(Len(s) < Max({n, 1}))
  <2>1. Reserve(s, n, u) = s
    BY <1>4 DEF Reserve
  <2> QED BY <1>1, <1>2, <1>4, <2>1
<1> QED BY <1>3, <1>4

\* What is written over a buffer is at its beginning, and nothing is longer.
LEMMA OverwriteStages ==
  ASSUME NEW E, NEW buffer \in Seq(E), NEW s \in Seq(E), Len(s) <= Len(buffer)
  PROVE  /\ Overwrite(buffer, s) \in Seq(E) /\ Len(Overwrite(buffer, s)) = Len(buffer)
         /\ Staged(Overwrite(buffer, s), s)
<1> DEFINE a == Len(s)
           b == Len(buffer)
           rest == SubSeq(buffer, a + 1, b)
<1>1. a \in Nat /\ b \in Nat /\ a <= b
  OBVIOUS
<1>2. rest \in Seq(E) /\ Len(rest) = b - a
  OBVIOUS
<1> HIDE DEF rest
<1>3. s \o rest \in Seq(E) /\ Len(s \o rest) = a + (b - a) /\ \A i \in 1 .. a : (s \o rest)[i] = s[i]
  BY <1>2
<1>4. Overwrite(buffer, s) = s \o rest
  BY DEF Overwrite, rest
<1>5. a + (b - a) = b
  BY <1>1
<1> QED BY <1>1, <1>3, <1>4, <1>5 DEF Staged, Fits

\* A copy carries over what is staged.
LEMMA CopyStages ==
  ASSUME NEW E, NEW from \in Seq(E), NEW to \in Seq(E), NEW s \in Seq(E),
         Staged(from, s), Fits(to, s)
  PROVE  /\ Overwrite(to, SubSeq(from, 1, Len(s))) \in Seq(E)
         /\ Staged(Overwrite(to, SubSeq(from, 1, Len(s))), s)
<1>1. SubSeq(from, 1, Len(s)) = s
  <2>1. Len(s) \in Nat /\ Len(s) <= Len(from) /\ \A k \in 1 .. Len(s) : from[k] = s[k]
    BY DEF Staged, Fits
  <2> DEFINE t == SubSeq(from, 1, Len(s))
  <2>2. t \in Seq(E) /\ Len(t) = Len(s) /\ \A k \in 1 .. Len(s) : t[k] = from[k]
    BY <2>1
  <2> HIDE DEF t
  <2>3. t = s
    BY <2>1, <2>2
  <2> QED BY <2>3 DEF t
<1> QED BY <1>1, OverwriteStages DEF Fits

-----------------------------------------------------------------------------
(* The forward whose work the executor's part of the stream is.            *)

\* While the executor has work queued, the plan is its forward's.
LEMMA BusyForward ==
  ASSUME HostInv, StreamInv, DispatchInv, ExecInv, Busy \/ hpc = "fill"
  PROVE  /\ Active \in 1 .. batch /\ Routed(asked[Active]) /\ LaidOut(plan, asked[Active], Active)
         /\ rows = RoundRobinSchedule(plan.counts, plan.offsets)
         /\ hpc \in {"fill", "queue", "launch", "merge"} => Active = batch /\ flat = asked[Active]
<1>1. batch \in Nat /\ batch # 0
  <2>1. batch = Len(asked) /\ Len(asked) \in Nat
    BY DEF HostInv
  <2>2. Exec # {} => stream # <<>>
    BY KindsNone DEF Exec, Queued
  <2> QED BY <2>1, <2>2 DEF HostInv, Busy
<1>2. CASE hpc \in {"fill", "queue", "launch", "merge"}
  <2>1. Dispatching = {} /\ Active = batch
    BY <1>2 DEF StreamInv, Phase, Active
  <2>2. LaidOut(plan, asked[batch], batch)
    BY <1>1, <1>2, <2>1 DEF DispatchInv
  <2>3. batch \in 1 .. batch
    BY <1>1
  <2> QED BY <1>1, <1>2, <2>1, <2>2, <2>3, RoutedNow DEF ExecInv, RowsKept, HostInv
<1>3. CASE hpc \notin {"fill", "queue", "launch", "merge"}
  <2>1. Exec # {} /\ Busy
    BY <1>3 DEF Busy
  <2>2. Active \in 1 .. batch
    BY <2>1 DEF ExecInv
  <2>3. CASE hpc \in {"dispatch", "schedule"}
    BY <2>1, <2>2, <2>3, <1>3, RoutedNow DEF DispatchInv, ExecInv, RowsKept, Active
  <2>4. CASE hpc \notin {"dispatch", "schedule"}
    <3>1. Dispatching = {} /\ Active = batch
      BY <2>4 DEF StreamInv, Phase, Active
    <3>2. LaidOut(plan, asked[batch], batch)
      BY <1>1, <2>4, <3>1 DEF DispatchInv
    <3> QED BY <1>3, <2>1, <2>2, <3>1, <3>2, RoutedNow DEF ExecInv, RowsKept
  <2> QED BY <2>3, <2>4
<1> QED BY <1>2, <1>3

-----------------------------------------------------------------------------
(* The executor's buffers, through the steps that leave them alone.        *)

\* Buffers that are not touched keep their shape.
LEMMA ShapeStays ==
  ASSUME BufferShape, UNCHANGED <<host, dev, intermediate, weighted, prog>>
  PROVE  BufferShape'
BY DEF BufferShape

\* With none of the executor's operations queued there is little to keep.
LEMMA QuietExec ==
  ASSUME BufferShape', Exec' = {}, hpc' \notin {"queue", "launch", "merge"},
         hpc' = "fill" => rows' = RoundRobinSchedule(plan'.counts, plan'.offsets)
  PROVE  ExecInv'
<1>1. "gather" \notin Queued' /\ "down" \notin Queued' /\ "merge" \notin Queued'
  BY DEF Exec, ExecKinds
<1>2. ~Busy'
  BY DEF Busy
<1>3. RowsKept' /\ DescriptorsCopied' /\ QueuesCopied'
  BY <1>2 DEF RowsKept, DescriptorsCopied, QueuesCopied
<1>4. GatherClaims' /\ DownClaims' /\ AllGathered' /\ AllDowned'
  BY <1>1 DEF GatherClaims, DownClaims, AllGathered, AllDowned
<1> QED BY <1>3, <1>4 DEF ExecInv

\* The same rows and plan ask the same of the buffers.
LEMMA SameData ==
  ASSUME UNCHANGED <<rows, plan>>, Active' = Active, asked'[Active] = asked[Active]
  PROVE  /\ ActiveSlots' = ActiveSlots /\ DescriptorList' = DescriptorList
         /\ TileQueue(GatherBlocks)' = TileQueue(GatherBlocks)
         /\ TileQueue(DownBlocks)' = TileQueue(DownBlocks)
         /\ \A s : RightCell(s)' = RightCell(s) /\ RightOutput(s)' = RightOutput(s)
         /\ \A e : TileRows(e)' = TileRows(e)
<1>1. ActiveSlots' = ActiveSlots
  BY DEF ActiveSlots
<1>2. DescriptorList' = DescriptorList
  BY DEF DescriptorList
<1>3. /\ TileQueue(GatherBlocks)' = TileQueue(GatherBlocks)
      /\ TileQueue(DownBlocks)' = TileQueue(DownBlocks)
  BY DEF TileQueue
<1>4. \A s : RightCell(s)' = RightCell(s) /\ RightOutput(s)' = RightOutput(s)
  BY DEF RightCell, RightOutput
<1>5. \A e : TileRows(e)' = TileRows(e)
  BY DEF TileRows
<1> QED BY <1>1, <1>2, <1>3, <1>4, <1>5

\* What is gathered or brought down stays so while it is not overwritten.
LEMMA SameTiles ==
  ASSUME UNCHANGED <<rows, plan>>, Active' = Active, asked'[Active] = asked[Active]
  PROVE  /\ UNCHANGED intermediate => \A j : Gathered(j)' <=> Gathered(j)
         /\ UNCHANGED weighted => \A j : Downed(j)' <=> Downed(j)
<1>1. /\ TileQueue(GatherBlocks)' = TileQueue(GatherBlocks)
      /\ TileQueue(DownBlocks)' = TileQueue(DownBlocks)
      /\ \A s : RightCell(s)' = RightCell(s) /\ RightOutput(s)' = RightOutput(s)
      /\ \A e : TileRows(e)' = TileRows(e)
  BY SameData
<1>2. ASSUME UNCHANGED intermediate, NEW j PROVE Gathered(j)' <=> Gathered(j)
  BY <1>1, <1>2 DEF Gathered
<1>3. ASSUME UNCHANGED weighted, NEW j PROVE Downed(j)' <=> Downed(j)
  BY <1>1, <1>3 DEF Downed
<1> QED BY <1>2, <1>3

\* Steps of the host that leave the executor and its operations alone.
LEMMA KeptExec ==
  ASSUME ExecInv, UNCHANGED <<rows, host, dev, intermediate, weighted, prog, plan>>,
         Exec' = Exec, hpc \notin {"fill", "queue", "launch", "merge"},
         hpc' \notin {"fill", "queue", "launch", "merge"},
         Exec # {} => /\ Active' = Active /\ asked'[Active] = asked[Active] /\ Active \in 1 .. batch'
                      /\ grid' = grid /\ \A k \in QueueKernels : Running(k)' <=> Running(k)
  PROVE  ExecInv'
<1>1. BufferShape'
  BY ShapeStays DEF ExecInv
<1>2. CASE Exec = {}
  BY <1>1, <1>2, QuietExec
<1>3. CASE Exec # {}
  <2>1. /\ ActiveSlots' = ActiveSlots /\ DescriptorList' = DescriptorList
        /\ TileQueue(GatherBlocks)' = TileQueue(GatherBlocks)
        /\ TileQueue(DownBlocks)' = TileQueue(DownBlocks)
        /\ \A s : RightCell(s)' = RightCell(s) /\ RightOutput(s)' = RightOutput(s)
    BY <1>3, SameData
  <2>2. \A j : (Gathered(j)' <=> Gathered(j)) /\ (Downed(j)' <=> Downed(j))
    BY <1>3, SameTiles
  <2>3. \A k \in ExecKinds : k \in Queued' <=> k \in Queued
    BY DEF Exec
  <2>4. /\ "descriptors" \in ExecKinds /\ "gatherQueue" \in ExecKinds /\ "downQueue" \in ExecKinds
        /\ "counters" \in ExecKinds /\ "gather" \in ExecKinds /\ "down" \in ExecKinds
        /\ "merge" \in ExecKinds
    BY DEF ExecKinds
  <2>5. Busy /\ Busy'
    BY <1>3 DEF Busy
  <2>6. RowsKept'
    BY <2>5 DEF ExecInv, RowsKept
  <2>7. DescriptorsCopied'
    BY <2>1, <2>3, <2>4, <2>5 DEF ExecInv, DescriptorsCopied, Copied
  <2>8. QueuesCopied'
    BY <2>1, <2>3, <2>4, <2>5 DEF ExecInv, QueuesCopied, Copied
  <2>9. \A k \in QueueKernels : \A j : Held(k, j)' <=> Held(k, j)
    BY <1>3 DEF Held
  <2>10. "gather" \in QueueKernels /\ "down" \in QueueKernels
    BY DEF QueueKernels
  <2>11. GatherClaims'
    BY <2>1, <2>2, <2>3, <2>4, <2>9, <2>10 DEF ExecInv, GatherClaims
  <2>12. DownClaims'
    BY <2>1, <2>2, <2>3, <2>4, <2>9, <2>10 DEF ExecInv, DownClaims
  <2>13. AllGathered'
    BY <2>1, <2>3, <2>4 DEF ExecInv, AllGathered
  <2>14. AllDowned'
    BY <2>1, <2>3, <2>4 DEF ExecInv, AllDowned
  <2>15. Active' \in 1 .. batch'
    BY <1>3
  <2> QED BY <1>1, <2>6, <2>7, <2>8, <2>11, <2>12, <2>13, <2>14, <2>15 DEF ExecInv
<1> QED BY <1>2, <1>3

\* The executor's buffers at first.
LEMMA ExecInitially == Init => ExecInv
<1> SUFFICES ASSUME Init PROVE ExecInv
  OBVIOUS
<1>1. Exec = {} /\ ~Busy /\ "gather" \notin Queued /\ "down" \notin Queued /\ "merge" \notin Queued
  BY KindsNone DEF Init, Exec, Queued, Busy
<1>2. hpc = "idle"
  BY DEF Init
<1>3. BufferShape
  <2>1. /\ host = [descriptors |-> <<>>, gather |-> <<>>, down |-> <<>>]
        /\ dev = [descriptors |-> <<>>, gather |-> <<>>, down |-> <<>>,
                  counter |-> [gather |-> 0, down |-> 0]]
        /\ intermediate = [s \in {} |-> [b \in Index(GatherBlocks) |-> NoCell]]
        /\ weighted = [s \in {} |-> [b \in Index(DownBlocks) |-> NoOutput]]
        /\ prog = [p \in Program |-> Idle]
    BY DEF Init, ExecInit
  <2>2. <<>> \in Seq(Descriptor) /\ <<>> \in Seq(Entry) /\ [gather |-> 0, down |-> 0] \in [gather : Nat, down : Nat]
    OBVIOUS
  <2>3. Index(0) = {} /\ 0 \in Nat
    BY DEF Index
  <2>4. /\ intermediate \in [Index(0) -> [Index(GatherBlocks) -> Cell]]
        /\ weighted = [s \in Index(0) |-> [b \in Index(DownBlocks) |-> weighted[s][b]]]
    BY <2>1, <2>3
  <2>5. prog = [p \in Program |-> prog[p]]
    BY <2>1
  <2>6. /\ host \in [descriptors : Seq(Descriptor), gather : Seq(Entry), down : Seq(Entry)]
        /\ dev \in [descriptors : Seq(Descriptor), gather : Seq(Entry), down : Seq(Entry),
                    counter : [gather : Nat, down : Nat]]
    BY <2>1, <2>2
  <2> QED BY <2>3, <2>4, <2>5, <2>6 DEF BufferShape
<1>4. RowsKept /\ DescriptorsCopied /\ QueuesCopied
  BY <1>1, <1>2 DEF RowsKept, DescriptorsCopied, QueuesCopied
<1>5. GatherClaims /\ DownClaims /\ AllGathered /\ AllDowned
  BY <1>1, <1>2 DEF GatherClaims, DownClaims, AllGathered, AllDowned
<1> QED BY <1>1, <1>3, <1>4, <1>5 DEF ExecInv

\* A forward begins, or its dispatch is issued, behind what still runs.
LEMMA BeginKeepsExec ==
  ASSUME HostInv, HostInv', StreamInv, StreamInv', ExecInv,
         (\E f \in Routing : StartForward(f)) \/ DispatchTiled
  PROVE  ExecInv'
<1>1. CASE \E f \in Routing : StartForward(f)
  <2>1. PICK f \in Routing : StartForward(f)
    BY <1>1
  <2>2. Queued' = Queued /\ Active' = batch /\ Active = batch
    BY <2>1, StartKeepsStream
  <2>3. /\ hpc = "idle" /\ hpc' = "dispatch" /\ batch' = batch + 1 /\ asked' = Append(asked, f)
        /\ UNCHANGED <<rows, host, dev, intermediate, weighted, prog, plan, stream, grid>>
    BY <2>1 DEF StartForward, execVars
  <2>4. Exec' = Exec
    BY <2>2 DEF Exec
  <2>5. \A k \in QueueKernels : Running(k)' <=> Running(k)
    BY <2>3 DEF Running, Drained
  <2>6. ASSUME Exec # {} PROVE asked'[Active] = asked[Active] /\ Active \in 1 .. batch'
    <3>1. Active \in 1 .. batch
      BY <2>6 DEF ExecInv
    <3>2. asked \in Seq(Routing) /\ batch = Len(asked) /\ Len(asked) \in Nat
      BY DEF HostInv
    <3> QED BY <2>3, <3>1, <3>2
  <2> QED BY <2>2, <2>3, <2>4, <2>5, <2>6, KeptExec
<1>2. CASE DispatchTiled
  <2>1. Active' = Active /\ Exec' = Exec
    BY <1>2, TiledKeepsStream
  <2>2. PICK ops : IsSequence(ops) /\ Issue(ops)
    BY <1>2, IssuedAreSequences DEF DispatchTiled
  <2>3. /\ hpc = "dispatch" /\ hpc' = "schedule" /\ UNCHANGED <<batch, asked>>
        /\ UNCHANGED <<rows, host, dev, intermediate, weighted, prog, plan>>
    BY <1>2 DEF DispatchTiled, execVars, dispatchVars
  <2>4. ASSUME Exec # {} PROVE grid' = grid /\ \A k \in QueueKernels : Running(k)' <=> Running(k)
    <3>1. stream # <<>>
      BY <2>4, KindsNone DEF Exec, Queued
    <3>2. grid' = grid /\ stream' = stream \o ops
      BY <2>2, <3>1 DEF Issue, Drained
    <3>3. stream' # <<>> /\ Head(stream') = Head(stream)
      BY <2>2, <3>1, <3>2, AppendKeepsHead DEF StreamInv, Ranked
    <3> QED BY <3>1, <3>2, <3>3 DEF Running, Drained
  <2>5. Exec # {} => Active \in 1 .. batch'
    BY <2>3 DEF ExecInv
  <2> QED BY <2>1, <2>3, <2>4, <2>5, KeptExec
<1> QED BY <1>1, <1>2

-----------------------------------------------------------------------------
(* What the executor works on.                                             *)

Schedules(R, p, S) ==
  /\ IsSequence(R) /\ Len(R) \in Nat /\ DOMAIN R = 1 .. Len(R)
  /\ \A k \in 1 .. Len(R) :
       /\ R[k].expert \in Expert /\ R[k].start \in Nat /\ R[k].count \in Nat
       /\ R[k].end = R[k].start + R[k].count /\ Slots(R[k]) \subseteq S
       /\ \A s \in Slots(R[k]) : p.slots[s].expert = R[k].expert
  /\ \A j, k \in 1 .. Len(R) : R[j].expert = R[k].expert => j = k
  /\ \A s \in S : \E k \in 1 .. Len(R) : s \in Slots(R[k])

\* The rows of a laid-out forward schedule all its slots.
LEMMA RowsSchedule ==
  ASSUME NEW f, Routed(f), NEW p, NEW b, LaidOut(p, f, b)
  PROVE  Schedules(RoundRobinSchedule(p.counts, p.offsets), p, Index(Size(f)))
<1>1. PICK n \in Nat : Size(f) = n /\ f \in [Index(n) -> Expert]
  BY DEF Routed
<1>4. PICK R : R = RoundRobinSchedule(p.counts, p.offsets)
  OBVIOUS
<1>2. RowsOf(R, n, f, p)
  <2>1. n \in Nat /\ f \in [Index(n) -> Expert] /\ LaidOut(p, f, b)
        /\ R = RoundRobinSchedule(p.counts, p.offsets)
    BY <1>1, <1>4
  <2> QED BY ONLY <2>1, RowsAre
<1>3. \A k \in 1 .. Len(R) : R[k].expert \in Expert
  BY <1>2 DEF RowsOf, RowOf
<1> QED BY <1>1, <1>2, <1>3, <1>4 DEF Schedules, RowsOf

\* While the executor has work queued, its rows are its forward's.
LEMMA BusyRows ==
  ASSUME HostInv, StreamInv, DispatchInv, ExecInv, Busy \/ hpc = "fill"
  PROVE  Schedules(rows, plan, ActiveSlots) /\ Counted(rows)
<1>1. Schedules(rows, plan, ActiveSlots)
  BY BusyForward, RowsSchedule DEF ActiveSlots
<1> QED BY <1>1 DEF Schedules, Counted

\* The list the host fills in is one of descriptors.
LEMMA ListTyped ==
  ASSUME NEW S, NEW p, Schedules(rows, p, S), Active \in Nat
  PROVE  DescriptorList \in Seq(Descriptor) /\ Len(DescriptorList) = Len(rows)
<1>1. \A k \in 1 .. Len(rows) : rows[k].expert \in Expert /\ rows[k].start \in Nat /\ rows[k].count \in Nat
  BY DEF Schedules
<1>2. DescriptorList \in [1 .. Len(rows) -> Descriptor]
  BY <1>1 DEF DescriptorList, Descriptor
<1>3. Len(rows) \in Nat
  BY DEF Schedules
<1> QED BY <1>2, <1>3

\* The slots of a tile are slots of its row.
LEMMA TileInRow ==
  ASSUME NEW S, NEW p, Schedules(rows, p, S), NEW e, e.descriptor \in 1 .. Len(rows)
  PROVE  TileRows(e) \subseteq Slots(rows[e.descriptor]) /\ TileRows(e) \subseteq S
<1> DEFINE row == rows[e.descriptor]
<1>1. row.start \in Nat /\ row.count \in Nat /\ row.end = row.start + row.count /\ Slots(row) \subseteq S
  BY DEF Schedules
<1>2. TileRows(e) = {row.start + r : r \in {r \in Index(row.count) : r \div BlockM = e.m}}
  BY DEF TileRows
<1> HIDE DEF row
<1>3. \A r \in Index(row.count) : row.start + r \in Slots(row)
  BY <1>1 DEF Index, Slots
<1>4. TileRows(e) \subseteq Slots(row)
  BY <1>2, <1>3
<1> QED BY <1>1, <1>4 DEF row

\* Every slot, in every column, is in a tile of the queue.
LEMMA TilesCover ==
  ASSUME NEW S, NEW p, Schedules(rows, p, S), NEW blocks \in Nat \ {0},
         NEW s \in S, NEW b \in Index(blocks)
  PROVE  \E j \in Index(Len(TileQueue(blocks))) :
           s \in TileRows(TileQueue(blocks)[j + 1]) /\ TileQueue(blocks)[j + 1].n = b
<1> DEFINE q == TileQueue(blocks)
<1>1. PICK k \in 1 .. Len(rows) : s \in Slots(rows[k])
  BY DEF Schedules
<1> DEFINE row == rows[k]
           r == s - row.start
<1>2. row.start \in Nat /\ row.count \in Nat /\ row.end = row.start + row.count
  BY DEF Schedules
<1>3. r \in Index(row.count) /\ row.start + r = s
  BY <1>1, <1>2 DEF Slots, Index
<1>4. Counted(rows)
  BY DEF Counted, Schedules
<1> HIDE DEF r
<1>5. Len(q) \in Nat /\ \E i \in 1 .. Len(q) : q[i] = [descriptor |-> k, m |-> r \div BlockM, n |-> b]
  BY <1>3, <1>4, TileQueueIs
<1> HIDE DEF q
<1>6. PICK i \in 1 .. Len(q) : q[i] = [descriptor |-> k, m |-> r \div BlockM, n |-> b]
  BY <1>5
<1>7. i - 1 \in Index(Len(q)) /\ (i - 1) + 1 = i
  BY <1>5 DEF Index
<1>8. q[i].descriptor = k /\ q[i].m = r \div BlockM /\ q[i].n = b
  BY <1>6
<1>9. s \in TileRows(q[i])
  BY <1>3, <1>8 DEF TileRows
<1> QED BY <1>7, <1>8, <1>9 DEF q

-----------------------------------------------------------------------------
(* Steps with none of the executor's operations queued.                    *)

\* The host's steps before and after the executor's.
LEMMA QuietHost ==
  ASSUME HostInv, StreamInv, ExecInv, DispatchHost \/ Schedule \/ RowRaise \/ RowRun \/ RowsDone \/ LimitRaise
  PROVE  ExecInv'
<1>1. Queued' = {}
  BY IdleStepsKeepStream
<1>2. UNCHANGED <<host, dev, intermediate, weighted, prog>>
  BY DEF DispatchHost, Schedule, RowRaise, RowRun, RowsDone, LimitRaise, Raise, execVars
<1>3. hpc' \notin {"queue", "launch", "merge"}
  BY DEF DispatchHost, Schedule, RowRaise, RowRun, RowsDone, LimitRaise, Raise
<1>4. hpc' = "fill" => rows' = RoundRobinSchedule(plan'.counts, plan'.offsets)
  BY DEF DispatchHost, Schedule, RowRaise, RowRun, RowsDone, LimitRaise, Raise, dispatchVars
<1>5. BufferShape'
  BY <1>2, ShapeStays DEF ExecInv
<1>6. Exec' = {}
  BY <1>1 DEF Exec
<1> QED BY <1>3, <1>4, <1>5, <1>6, QuietExec

\* The operations that are not the executor's kernels or copies.
LEMMA QuietDevice ==
  ASSUME HostInv, StreamInv, StreamInv', ExecInv,
         (\E t \in grid : TileProgram(t)) \/ DispatchOp \/ MergeOp
  PROVE  ExecInv'
<1>1. UNCHANGED <<host, dev, intermediate, weighted, prog, hpc>>
  BY DEF TileProgram, DispatchOp, MergeOp, HostRest, execVars
<1>2. Pop \/ stream' = stream
  BY DEF TileProgram, DispatchOp, MergeOp, ProgramEnds
<1>3. Ranked(stream) /\ ~Drained
  BY DEF StreamInv, TileProgram, DispatchOp, MergeOp, Running
<1>4. Queued' = Queued \/ Queued' = Queued \ {Head(stream).kind}
  BY <1>2, <1>3, Popped DEF Queued
<1>5. Exec' = {} /\ hpc \notin {"fill", "queue", "launch", "merge"}
  <2>1. CASE (\E t \in grid : TileProgram(t)) \/ DispatchOp
    <3>1. PICK k \in DispatchKinds : Running(k)
      <4>1. PICK k \in {"histogram", "starts", "pack", "zero", "reserve", "empty"} : Running(k)
        BY <2>1 DEF TileProgram, DispatchOp
      <4> QED BY <4>1 DEF DispatchKinds, TileKernels
    <3>2. Exec = {} /\ hpc = "schedule"
      BY <3>1, DispatchRuns
    <3> QED BY <1>4, <3>2 DEF Exec
  <2>2. CASE MergeOp
    <3>1. Running("merge") /\ Pop
      BY <2>2 DEF MergeOp
    <3>2. "merge" \in Queued /\ \A j \in Queued : j = "merge" \/ Rank("merge") < Rank(j)
      BY <1>3, <3>1, RunningIs
    <3>3. Queued' = Queued \ {"merge"}
      <4>1. Head(stream).kind = "merge"
        BY <3>1 DEF Running
      <4> QED BY <1>3, <3>1, <4>1, Popped
    <3>4. \A j \in ExecKinds : ~(Rank("merge") < Rank(j))
      BY RankIs DEF ExecKinds
    <3>5. Exec' = {}
      BY <3>2, <3>3, <3>4 DEF Exec
    <3>6. "merge" \in Exec
      BY <3>2 DEF Exec, ExecKinds
    <3>7. hpc \notin {"fill", "queue", "launch", "merge"}
      BY <3>2, <3>6 DEF StreamInv, Phase
    <3> QED BY <3>5, <3>7
  <2> QED BY <2>1, <2>2
<1>6. BufferShape'
  BY <1>1, ShapeStays DEF ExecInv
<1> QED BY <1>1, <1>5, <1>6, QuietExec

-----------------------------------------------------------------------------
(* The host fills, queues, launches and merges.                            *)

HostBuffers == [descriptors : Seq(Descriptor), gather : Seq(Entry), down : Seq(Entry)]
DeviceBuffers == [descriptors : Seq(Descriptor), gather : Seq(Entry), down : Seq(Entry),
                  counter : [gather : Nat, down : Nat]]

WithQueues(h, x, y) == [h EXCEPT !.gather = x, !.down = y]

\* The staging buffers after the host has written them.
LEMMA HostWritten ==
  ASSUME NEW h \in HostBuffers
  PROVE  /\ \A x \in Seq(Descriptor) :
              LET k == [h EXCEPT !.descriptors = x] IN
              k \in HostBuffers /\ k.descriptors = x /\ k.gather = h.gather /\ k.down = h.down
         /\ \A x, y \in Seq(Entry) :
              LET k == WithQueues(h, x, y) IN
              k \in HostBuffers /\ k.descriptors = h.descriptors /\ k.gather = x /\ k.down = y
<1>1. ASSUME NEW x \in Seq(Descriptor)
      PROVE  LET k == [h EXCEPT !.descriptors = x] IN
              k \in HostBuffers /\ k.descriptors = x /\ k.gather = h.gather /\ k.down = h.down
  BY DEF HostBuffers
<1>2. ASSUME NEW x \in Seq(Entry), NEW y \in Seq(Entry)
      PROVE  LET k == WithQueues(h, x, y) IN
              k \in HostBuffers /\ k.descriptors = h.descriptors /\ k.gather = x /\ k.down = y
  <2>1. PICK r : r = [h EXCEPT !.gather = x]
    OBVIOUS
  <2>2. r \in HostBuffers /\ r.descriptors = h.descriptors /\ r.gather = x
    BY <2>1 DEF HostBuffers
  <2>3. PICK k : k = [r EXCEPT !.down = y]
    OBVIOUS
  <2>4. k \in HostBuffers /\ k.descriptors = h.descriptors /\ k.gather = x /\ k.down = y
    BY <2>2, <2>3 DEF HostBuffers
  <2>5. WithQueues(h, x, y) = k
    BY <2>1, <2>3 DEF WithQueues
  <2> QED BY <2>4, <2>5
<1> QED BY <1>1, <1>2

\* The device buffers after the host has made room in them.
LEMMA DeviceWritten ==
  ASSUME NEW h \in DeviceBuffers
  PROVE  /\ \A x \in Seq(Descriptor) :
              LET k == [h EXCEPT !.descriptors = x] IN
              /\ k \in DeviceBuffers /\ k.descriptors = x /\ k.gather = h.gather /\ k.down = h.down
              /\ k.counter = h.counter
         /\ \A x, y \in Seq(Entry) :
              LET k == WithQueues(h, x, y) IN
              /\ k \in DeviceBuffers /\ k.descriptors = h.descriptors /\ k.gather = x /\ k.down = y
              /\ k.counter = h.counter
<1>1. ASSUME NEW x \in Seq(Descriptor)
      PROVE  LET k == [h EXCEPT !.descriptors = x] IN
              /\ k \in DeviceBuffers /\ k.descriptors = x /\ k.gather = h.gather /\ k.down = h.down
              /\ k.counter = h.counter
  BY DEF DeviceBuffers
<1>2. ASSUME NEW x \in Seq(Entry), NEW y \in Seq(Entry)
      PROVE  LET k == WithQueues(h, x, y) IN
              /\ k \in DeviceBuffers /\ k.descriptors = h.descriptors /\ k.gather = x /\ k.down = y
              /\ k.counter = h.counter
  <2>1. PICK r : r = [h EXCEPT !.gather = x]
    OBVIOUS
  <2>2. r \in DeviceBuffers /\ r.descriptors = h.descriptors /\ r.gather = x /\ r.counter = h.counter
    BY <2>1 DEF DeviceBuffers
  <2>3. PICK k : k = [r EXCEPT !.down = y]
    OBVIOUS
  <2>4. /\ k \in DeviceBuffers /\ k.descriptors = h.descriptors /\ k.gather = x /\ k.down = y
        /\ k.counter = h.counter
    BY <2>2, <2>3 DEF DeviceBuffers
  <2>5. WithQueues(h, x, y) = k
    BY <2>1, <2>3 DEF WithQueues
  <2> QED BY <2>4, <2>5
<1> QED BY <1>1, <1>2

Columns(y, m) == y = [s \in Index(m) |-> [b \in Index(DownBlocks) |-> y[s][b]]]
Cells(x, m) == x \in [Index(m) -> [Index(GatherBlocks) -> Cell]]
NewCells(x, n) == Ensure(x, n, [b \in Index(GatherBlocks) |-> NoCell])
NewColumns(x, n) == Ensure(x, n, [b \in Index(DownBlocks) |-> NoOutput])

\* The activations have room for the forward, both alike.
LEMMA EnsureBoth ==
  ASSUME NEW m \in Nat, NEW n \in Nat, NEW x, Cells(x, m), NEW y, Columns(y, m)
  PROVE  \E k \in Nat : /\ Cells(NewCells(x, n), k) /\ Columns(NewColumns(y, n), k)
                        /\ Index(n) \subseteq Index(k)
<1> DEFINE u == NewCells(x, n)
           v == NewColumns(y, n)
<1>4. /\ x \in [Index(m) -> [Index(GatherBlocks) -> Cell]]
      /\ y = [s \in Index(m) |-> [b \in Index(DownBlocks) |-> y[s][b]]]
      /\ u = Ensure(x, n, [b \in Index(GatherBlocks) |-> NoCell])
      /\ v = Ensure(y, n, [b \in Index(DownBlocks) |-> NoOutput])
  BY DEF Cells, Columns, NewCells, NewColumns
<1> HIDE DEF u, v
<1>1. Size(x) = m /\ Size(y) = m
  <2>1. DOMAIN x = Index(m) /\ DOMAIN y = Index(m)
    BY <1>4
  <2> QED BY <2>1, Finite DEF Size
<1>2. CASE m < n
  <2>1. u = [i \in Index(n) |-> [b \in Index(GatherBlocks) |-> NoCell]]
    BY <1>1, <1>2, <1>4 DEF Ensure
  <2>2. v = [i \in Index(n) |-> [b \in Index(DownBlocks) |-> NoOutput]]
    BY <1>1, <1>2, <1>4 DEF Ensure
  <2>3. NoCell \in Cell
    BY DEF NoCell, Cell, Undefined
  <2>4. u \in [Index(n) -> [Index(GatherBlocks) -> Cell]]
    BY <2>1, <2>3
  <2>5. v = [s \in Index(n) |-> [b \in Index(DownBlocks) |-> v[s][b]]]
    BY <2>2
  <2> QED BY <2>4, <2>5 DEF Cells, Columns, u, v
<1>3. CASE ~(m < n)
  <2>1. u = x /\ v = y
    BY <1>1, <1>3, <1>4 DEF Ensure
  <2>2. Index(n) \subseteq Index(m)
    BY <1>3 DEF Index
  <2> QED BY <2>1, <2>2 DEF u, v
<1> QED BY <1>2, <1>3

\* The descriptors are staged.
LEMMA FillKeepsExec ==
  ASSUME HostInv, StreamInv, DispatchInv, ExecInv, Fill
  PROVE  ExecInv'
<1>1. /\ Queued = {} /\ Queued' = {"descriptors"} /\ Active = batch /\ Active' = batch
  BY FillKeepsStream
<1>2. /\ hpc = "fill" /\ hpc' = "queue" /\ UNCHANGED <<asked, batch, flat, plan, rows, prog>>
      /\ FillDescriptors
  BY DEF Fill, FillDescriptors, dispatchVars
<1>3. /\ Active \in 1 .. batch /\ Routed(asked[Active]) /\ flat = asked[Active]
      /\ rows = RoundRobinSchedule(plan.counts, plan.offsets)
      /\ Schedules(rows, plan, ActiveSlots)
  BY <1>2, BusyForward, BusyRows
<1>4. batch \in Nat /\ Active \in Nat
  <2>1. batch \in Nat
    BY DEF HostInv
  <2> QED BY <1>1, <2>1
<1>5. DescriptorList \in Seq(Descriptor) /\ Len(DescriptorList) = Len(rows) /\ Len(rows) \in Nat
  <2>1. Len(rows) \in Nat
    BY <1>3 DEF Schedules
  <2>2. DescriptorList \in Seq(Descriptor) /\ Len(DescriptorList) = Len(rows)
    BY <1>3, <1>4, ListTyped
  <2> QED BY <2>1, <2>2
<1>6. Descriptors = DescriptorList
  <2>1. DOMAIN rows = 1 .. Len(rows)
    BY <1>3 DEF Schedules
  <2> QED BY <1>1, <2>1 DEF Descriptors, DescriptorList
<1>7. DescriptorList' = DescriptorList /\ ActiveSlots' = ActiveSlots
  BY <1>1, <1>2 DEF DescriptorList, ActiveSlots
<1>8. host \in HostBuffers /\ dev \in DeviceBuffers
  BY DEF ExecInv, BufferShape, HostBuffers, DeviceBuffers
<1>9. PICK L : L = DescriptorList
  OBVIOUS
<1>10. PICK h : h = Reserve(host.descriptors, Len(rows), NoDescriptor)
  OBVIOUS
<1>11. PICK d : d = Reserve(dev.descriptors, Len(rows), NoDescriptor)
  OBVIOUS
<1>12. h \in Seq(Descriptor) /\ d \in Seq(Descriptor) /\ Len(rows) <= Len(h) /\ Len(rows) <= Len(d)
  <2>1. host.descriptors \in Seq(Descriptor) /\ dev.descriptors \in Seq(Descriptor)
    BY <1>8 DEF HostBuffers, DeviceBuffers
  <2>2. NoDescriptor \in Descriptor
    BY DEF NoDescriptor, Descriptor
  <2> QED BY <1>5, <1>10, <1>11, <2>1, <2>2, ReserveFits
<1>13. PICK o : o = Overwrite(h, L)
  OBVIOUS
<1>14. o \in Seq(Descriptor) /\ Staged(o, L) /\ Fits(d, L)
  BY <1>5, <1>9, <1>12, <1>13, OverwriteStages DEF Fits
<1>15. host' = [host EXCEPT !.descriptors = o] /\ dev' = [dev EXCEPT !.descriptors = d]
  BY <1>2, <1>6, <1>9, <1>10, <1>11, <1>13 DEF FillDescriptors
<1>16. host' \in HostBuffers /\ host'.descriptors = o /\ dev' \in DeviceBuffers /\ dev'.descriptors = d
  <2>1. /\ [host EXCEPT !.descriptors = o] \in HostBuffers
        /\ [host EXCEPT !.descriptors = o].descriptors = o
    BY <1>8, <1>14, HostWritten
  <2>2. /\ [dev EXCEPT !.descriptors = d] \in DeviceBuffers
        /\ [dev EXCEPT !.descriptors = d].descriptors = d
    BY <1>8, <1>12, DeviceWritten
  <2> QED BY <1>15, <2>1, <2>2
<1>17. PICK k \in Nat : /\ intermediate' \in [Index(k) -> [Index(GatherBlocks) -> Cell]]
                        /\ weighted' = [s \in Index(k) |-> [b \in Index(DownBlocks) |-> weighted'[s][b]]]
                        /\ ActiveSlots \subseteq Index(k)
  <2>1. PICK m \in Nat : /\ intermediate \in [Index(m) -> [Index(GatherBlocks) -> Cell]]
                         /\ weighted = [s \in Index(m) |-> [b \in Index(DownBlocks) |-> weighted[s][b]]]
    BY DEF ExecInv, BufferShape
  <2>2. Size(flat) \in Nat /\ ActiveSlots = Index(Size(flat))
    BY <1>3 DEF Routed, ActiveSlots
  <2>3. /\ intermediate' = Ensure(intermediate, Size(flat), [b \in Index(GatherBlocks) |-> NoCell])
        /\ weighted' = Ensure(weighted, Size(flat), [b \in Index(DownBlocks) |-> NoOutput])
    BY <1>2 DEF FillDescriptors
  <2>4. Cells(intermediate, m) /\ Columns(weighted, m)
    BY <2>1 DEF Cells, Columns
  <2>5. intermediate' = NewCells(intermediate, Size(flat)) /\ weighted' = NewColumns(weighted, Size(flat))
    BY <2>3 DEF NewCells, NewColumns
  <2>6. \E k \in Nat : /\ Cells(intermediate', k) /\ Columns(weighted', k)
                        /\ Index(Size(flat)) \subseteq Index(k)
    BY <2>2, <2>4, <2>5, EnsureBoth
  <2> QED BY <2>2, <2>6 DEF Cells, Columns
<1>18. BufferShape'
  <2>1. prog' = [p \in Program |-> prog'[p]]
    BY <1>2 DEF ExecInv, BufferShape
  <2> QED BY <1>16, <1>17, <2>1 DEF BufferShape, HostBuffers, DeviceBuffers
<1>19. DescriptorsCopied'
  <2>1. ActiveSlots' \subseteq DOMAIN intermediate'
    BY <1>7, <1>17
  <2>2. /\ Fits(dev'.descriptors, DescriptorList') /\ "descriptors" \in Queued'
        /\ Staged(host'.descriptors, DescriptorList')
    BY <1>1, <1>7, <1>9, <1>14, <1>16
  <2> QED BY <2>1, <2>2 DEF DescriptorsCopied, Copied
<1>20. RowsKept' /\ QueuesCopied'
  BY <1>2, <1>3 DEF RowsKept, QueuesCopied
<1>21. GatherClaims' /\ DownClaims' /\ AllGathered' /\ AllDowned'
  BY <1>1, <1>2 DEF GatherClaims, DownClaims, AllGathered, AllDowned
<1> QED BY <1>1, <1>2, <1>3, <1>18, <1>19, <1>20, <1>21 DEF ExecInv

\* The tile queues are staged.
LEMMA QueueKeepsExec ==
  ASSUME HostInv, StreamInv, DispatchInv, ExecInv, Queue
  PROVE  ExecInv'
<1>1. /\ Queued \subseteq {"descriptors"} /\ Queued' = Queued \cup {"gatherQueue", "downQueue", "counters"}
      /\ Active = batch /\ Active' = batch
  BY QueueKeepsStream
<1>2. /\ hpc = "queue" /\ hpc' = "launch" /\ BuildQueues
      /\ UNCHANGED <<asked, batch, flat, plan, rows, prog, intermediate, weighted>>
  BY DEF Queue, BuildQueues, dispatchVars
<1>3. /\ Active \in 1 .. batch /\ rows = RoundRobinSchedule(plan.counts, plan.offsets)
      /\ Schedules(rows, plan, ActiveSlots) /\ Counted(rows) /\ Busy /\ Busy'
  BY <1>2, BusyForward, BusyRows DEF Busy
<1>4. PICK G : G = TileQueue(GatherBlocks)
  OBVIOUS
<1>5. PICK D : D = TileQueue(DownBlocks)
  OBVIOUS
<1>6. G \in Seq(Entry) /\ D \in Seq(Entry) /\ Len(G) \in Nat /\ Len(D) \in Nat
  <2>1. GatherBlocks \in Nat \ {0} /\ DownBlocks \in Nat \ {0}
    BY ExecutorAssumption
  <2> QED BY <1>3, <1>4, <1>5, <2>1, TileQueueIs
<1>7. /\ ActiveSlots' = ActiveSlots /\ DescriptorList' = DescriptorList
      /\ TileQueue(GatherBlocks)' = G /\ TileQueue(DownBlocks)' = D
  BY <1>1, <1>2, <1>4, <1>5, SameData
<1>8. PICK need : need = Max({Len(G), Len(D)})
  OBVIOUS
<1>9. need \in Nat /\ Len(G) <= need /\ Len(D) <= need
  BY <1>6, <1>8, LargestOf
<1>10. host \in HostBuffers /\ dev \in DeviceBuffers
  BY DEF ExecInv, BufferShape, HostBuffers, DeviceBuffers
<1> DEFINE Ready(s) == Reserve(s, need, NoEntry)
<1>11. \A s \in Seq(Entry) : Ready(s) \in Seq(Entry) /\ need <= Len(Ready(s))
  <2>1. NoEntry \in Entry
    BY DEF NoEntry, Entry
  <2> QED BY <1>9, <2>1, ReserveFits
<1>12. \A s \in Seq(Entry) : \A t \in {G, D} :
          /\ Fits(Ready(s), t) /\ Overwrite(Ready(s), t) \in Seq(Entry)
          /\ Staged(Overwrite(Ready(s), t), t)
  <2> SUFFICES ASSUME NEW s \in Seq(Entry), NEW t \in {G, D}
               PROVE  /\ Fits(Ready(s), t) /\ Overwrite(Ready(s), t) \in Seq(Entry)
                      /\ Staged(Overwrite(Ready(s), t), t)
    OBVIOUS
  <2>1. PICK r : r = Ready(s)
    OBVIOUS
  <2>2. r \in Seq(Entry) /\ need <= Len(r) /\ t \in Seq(Entry) /\ Len(t) <= need
    BY <1>6, <1>9, <1>11, <2>1
  <2>3. Len(t) <= Len(r)
    BY <1>9, <2>2
  <2> HIDE DEF Ready
  <2>4. Fits(r, t) /\ Overwrite(r, t) \in Seq(Entry) /\ Staged(Overwrite(r, t), t)
    BY <2>2, <2>3, OverwriteStages DEF Fits
  <2> QED BY <2>1, <2>4
<1>13. /\ host' = [host EXCEPT !.gather = Overwrite(Ready(host.gather), G),
                               !.down = Overwrite(Ready(host.down), D)]
       /\ dev' = [dev EXCEPT !.gather = Ready(dev.gather), !.down = Ready(dev.down)]
  BY <1>2, <1>4, <1>5, <1>8 DEF BuildQueues
<1>14. /\ host.gather \in Seq(Entry) /\ host.down \in Seq(Entry)
       /\ dev.gather \in Seq(Entry) /\ dev.down \in Seq(Entry)
  BY <1>10 DEF HostBuffers, DeviceBuffers
<1> HIDE DEF Ready
<1>15. PICK a \in Seq(Entry) : a = Overwrite(Ready(host.gather), G)
  BY <1>12, <1>14
<1>16. PICK b \in Seq(Entry) : b = Overwrite(Ready(host.down), D)
  BY <1>12, <1>14
<1>17. PICK c \in Seq(Entry) : c = Ready(dev.gather)
  BY <1>11, <1>14
<1>18. PICK d \in Seq(Entry) : d = Ready(dev.down)
  BY <1>11, <1>14
<1>19. Staged(a, G) /\ Staged(b, D) /\ Fits(c, G) /\ Fits(d, D)
  BY <1>12, <1>14, <1>15, <1>16, <1>17, <1>18
<1>20. host' = [host EXCEPT !.gather = a, !.down = b] /\ dev' = [dev EXCEPT !.gather = c, !.down = d]
  BY <1>13, <1>15, <1>16, <1>17, <1>18
<1>21. /\ host' \in HostBuffers /\ host'.descriptors = host.descriptors /\ host'.gather = a /\ host'.down = b
       /\ dev' \in DeviceBuffers /\ dev'.descriptors = dev.descriptors /\ dev'.gather = c /\ dev'.down = d
  <2>1. LET k == WithQueues(host, a, b) IN
        k \in HostBuffers /\ k.descriptors = host.descriptors /\ k.gather = a /\ k.down = b
    BY <1>10, HostWritten
  <2>2. LET k == WithQueues(dev, c, d) IN
        k \in DeviceBuffers /\ k.descriptors = dev.descriptors /\ k.gather = c /\ k.down = d
    BY <1>10, DeviceWritten
  <2>3. host' = WithQueues(host, a, b) /\ dev' = WithQueues(dev, c, d)
    BY <1>20 DEF WithQueues
  <2> QED BY <2>1, <2>2, <2>3
<1>22. BufferShape'
  BY <1>2, <1>21 DEF ExecInv, BufferShape, HostBuffers, DeviceBuffers
<1>23. DescriptorsCopied'
  <2>1. "descriptors" \in Queued' <=> "descriptors" \in Queued
    BY <1>1
  <2> QED BY <1>2, <1>3, <1>7, <1>21, <2>1 DEF ExecInv, DescriptorsCopied, Copied
<1>24. QueuesCopied'
  <2>1. "gatherQueue" \in Queued' /\ "downQueue" \in Queued'
    BY <1>1
  <2> QED BY <1>7, <1>19, <1>21, <2>1 DEF QueuesCopied, Copied
<1>25. RowsKept'
  BY <1>2, <1>3 DEF RowsKept
<1>26. GatherClaims' /\ DownClaims' /\ AllGathered' /\ AllDowned'
  <2>1. "counters" \in Queued' /\ "down" \notin Queued' /\ "merge" \notin Queued' /\ hpc' # "merge"
    BY <1>1, <1>2
  <2> QED BY <2>1 DEF GatherClaims, DownClaims, AllGathered, AllDowned
<1> QED BY <1>1, <1>2, <1>3, <1>22, <1>23, <1>24, <1>25, <1>26 DEF ExecInv

\* The kernels are launched behind the copies.
LEMMA LaunchKeepsExec ==
  ASSUME HostInv, StreamInv, DispatchInv, ExecInv, Launch
  PROVE  ExecInv'
<1>1. /\ Queued \subseteq {"descriptors", "gatherQueue", "downQueue", "counters"}
      /\ Queued' = Queued \cup (IF rows = <<>> THEN {"event"} ELSE {"event", "gather", "down"})
      /\ Active = batch /\ Active' = batch
  BY LaunchKeepsStream
<1>2. /\ hpc = "launch" /\ hpc' = "merge"
      /\ UNCHANGED <<asked, batch, flat, plan, rows, host, dev, prog, intermediate, weighted>>
  BY DEF Launch, execVars, dispatchVars
<1>3. /\ Active \in 1 .. batch /\ rows = RoundRobinSchedule(plan.counts, plan.offsets)
      /\ Schedules(rows, plan, ActiveSlots) /\ Busy /\ Busy'
  BY <1>2, BusyForward, BusyRows DEF Busy
<1>4. /\ ActiveSlots' = ActiveSlots /\ DescriptorList' = DescriptorList
      /\ TileQueue(GatherBlocks)' = TileQueue(GatherBlocks)
      /\ TileQueue(DownBlocks)' = TileQueue(DownBlocks)
      /\ \A s : RightCell(s)' = RightCell(s) /\ RightOutput(s)' = RightOutput(s)
  BY <1>1, <1>2, SameData
<1>5. \A j : (Gathered(j)' <=> Gathered(j)) /\ (Downed(j)' <=> Downed(j))
  BY <1>1, <1>2, SameTiles
<1>6. /\ "descriptors" \in Queued' <=> "descriptors" \in Queued
      /\ "gatherQueue" \in Queued' <=> "gatherQueue" \in Queued
      /\ "downQueue" \in Queued' <=> "downQueue" \in Queued
      /\ "counters" \in Queued' <=> "counters" \in Queued
      /\ "gather" \notin Queued /\ "down" \notin Queued
  BY <1>1
<1>7. BufferShape'
  BY <1>2, ShapeStays DEF ExecInv
<1>8. RowsKept'
  BY <1>2, <1>3 DEF RowsKept
<1>9. DescriptorsCopied'
  BY <1>2, <1>3, <1>4, <1>6 DEF ExecInv, DescriptorsCopied, Copied
<1>10. QueuesCopied'
  BY <1>2, <1>3, <1>4, <1>6 DEF ExecInv, QueuesCopied, Copied
<1>11. \A j : ~Held("gather", j) /\ ~Held("down", j)
  BY <1>6, RunningIs DEF Held, StreamInv
<1>12. GatherClaims'
  BY <1>2, <1>4, <1>5, <1>6, <1>11 DEF ExecInv, GatherClaims
<1>13. DownClaims'
  BY <1>2, <1>4, <1>5, <1>6, <1>11 DEF ExecInv, DownClaims
<1>14. "down" \in Queued' => "gather" \in Queued'
  BY <1>1, <1>6
<1>15. AllGathered'
  BY <1>14 DEF AllGathered
<1>16. AllDowned'
  <2>1. ASSUME "down" \notin Queued' PROVE ActiveSlots' = {}
    <3>1. rows = <<>>
      BY <1>1, <2>1
    <3>2. 1 .. Len(rows) = {}
      BY <3>1
    <3> QED BY <1>3, <1>4, <3>2 DEF Schedules
  <2> QED BY <2>1 DEF AllDowned
<1> QED BY <1>1, <1>2, <1>3, <1>7, <1>8, <1>9, <1>10, <1>12, <1>13, <1>15, <1>16 DEF ExecInv

\* The merge is launched behind the kernels, if there are any.
LEMMA MergeKeepsExec ==
  ASSUME HostInv, StreamInv, DispatchInv, ExecInv, Merge
  PROVE  ExecInv'
<1>1. /\ Queued \subseteq ExecKinds /\ Queued' = Queued \cup {"merge"}
      /\ Active = batch /\ Active' = batch
  BY MergeKeepsStream
<1>2. /\ hpc = "merge" /\ hpc' = "idle"
      /\ UNCHANGED <<asked, batch, flat, plan, rows, host, dev, prog, intermediate, weighted>>
      /\ Issue(<<Op("merge", Tokens(flat))>>)
  BY DEF Merge, execVars, dispatchVars
<1>3. /\ Active \in 1 .. batch /\ rows = RoundRobinSchedule(plan.counts, plan.offsets) /\ Busy
  BY <1>2, BusyForward DEF Busy
<1>4. /\ ActiveSlots' = ActiveSlots /\ DescriptorList' = DescriptorList
      /\ TileQueue(GatherBlocks)' = TileQueue(GatherBlocks)
      /\ TileQueue(DownBlocks)' = TileQueue(DownBlocks)
      /\ \A s : RightCell(s)' = RightCell(s) /\ RightOutput(s)' = RightOutput(s)
  BY <1>1, <1>2, SameData
<1>5. \A j : (Gathered(j)' <=> Gathered(j)) /\ (Downed(j)' <=> Downed(j))
  BY <1>1, <1>2, SameTiles
<1>6. /\ "descriptors" \in Queued' <=> "descriptors" \in Queued
      /\ "gatherQueue" \in Queued' <=> "gatherQueue" \in Queued
      /\ "downQueue" \in Queued' <=> "downQueue" \in Queued
      /\ "counters" \in Queued' <=> "counters" \in Queued
      /\ "gather" \in Queued' <=> "gather" \in Queued
      /\ "down" \in Queued' <=> "down" \in Queued
      /\ "merge" \in Queued'
  BY <1>1
<1>7. BufferShape'
  BY <1>2, ShapeStays DEF ExecInv
<1>17. Busy'
  <2>1. "merge" \in Exec'
    BY <1>6 DEF Exec, ExecKinds
  <2> QED BY <2>1 DEF Busy
<1>8. RowsKept'
  BY <1>2, <1>3 DEF RowsKept
<1>9. DescriptorsCopied'
  BY <1>2, <1>3, <1>4, <1>6 DEF ExecInv, DescriptorsCopied, Copied
<1>10. QueuesCopied'
  BY <1>2, <1>3, <1>4, <1>6 DEF ExecInv, QueuesCopied, Copied
<1>11. ASSUME NEW k \in {"gather", "down"}, k \in Queued, NEW j PROVE Held(k, j) => Held(k, j)'
  <2>1. stream # <<>>
    BY <1>11, KindsNone DEF Queued
  <2>2. IsSequence(<<Op("merge", Tokens(flat))>>)
    BY IssuedAreSequences
  <2>3. grid' = grid /\ stream' = stream \o <<Op("merge", Tokens(flat))>>
    BY <1>2, <2>1 DEF Issue, Drained
  <2>4. stream' # <<>> /\ Head(stream') = Head(stream)
    BY <2>1, <2>2, <2>3, AppendKeepsHead DEF StreamInv, Ranked
  <2>5. Running(k)' <=> Running(k)
    BY <2>1, <2>4 DEF Running, Drained
  <2> QED BY <1>2, <2>3, <2>5 DEF Held
<1>12. GatherClaims'
  BY <1>2, <1>4, <1>5, <1>6, <1>11 DEF ExecInv, GatherClaims
<1>13. DownClaims'
  BY <1>2, <1>4, <1>5, <1>6, <1>11 DEF ExecInv, DownClaims
<1>14. AllGathered'
  BY <1>2, <1>4, <1>6 DEF ExecInv, AllGathered
<1>15. AllDowned'
  BY <1>2, <1>4, <1>6 DEF ExecInv, AllDowned
<1> QED BY <1>1, <1>2, <1>3, <1>7, <1>8, <1>9, <1>10, <1>12, <1>13, <1>14, <1>15 DEF ExecInv

-----------------------------------------------------------------------------
(* The device: copies, counters and the event.                             *)

\* What holds when one of the executor's operations runs.
LEMMA ExecRuns ==
  ASSUME HostInv, StreamInv, DispatchInv, ExecInv, NEW k \in ExecKinds, Running(k)
  PROVE  /\ k \in Queued /\ Busy /\ ~Drained /\ Head(stream).kind = k
         /\ Head(stream).size = OpSize[k] /\ Head(stream).batch = Active
         /\ \A j \in Queued : j = k \/ Rank(k) < Rank(j)
         /\ Active \in 1 .. batch /\ Routed(asked[Active]) /\ LaidOut(plan, asked[Active], Active)
         /\ rows = RoundRobinSchedule(plan.counts, plan.offsets)
         /\ Schedules(rows, plan, ActiveSlots) /\ Counted(rows)
         /\ Pop => Queued' = Queued \ {k}
<1>1. Ranked(stream) /\ Described(stream) /\ ~Drained /\ Head(stream).kind = k
  BY DEF StreamInv, Running
<1>2. k \in Queued /\ \A j \in Queued : j = k \/ Rank(k) < Rank(j)
  BY <1>1, RunningIs
<1>3. Busy
  BY <1>2 DEF Busy, Exec
<1>4. Head(stream).size = OpSize[k] /\ Head(stream).batch = Active
  <2>1. Head(stream) = stream[1] /\ 1 \in 1 .. Len(stream)
    BY <1>1, TailIs DEF Ranked, Drained
  <2>2. OpBatch[k] = Active
    BY ExecSizes
  <2> QED BY <1>1, <2>1, <2>2 DEF Described
<1>5. Pop => Queued' = Queued \ {k}
  BY <1>1, Popped
<1>6. /\ Active \in 1 .. batch /\ Routed(asked[Active]) /\ LaidOut(plan, asked[Active], Active)
      /\ rows = RoundRobinSchedule(plan.counts, plan.offsets)
  BY <1>3, BusyForward
<1>7. Schedules(rows, plan, ActiveSlots) /\ Counted(rows)
  BY <1>3, BusyRows
<1> QED BY <1>1, <1>2, <1>3, <1>4, <1>5, <1>6, <1>7

Stages == {"descriptors", "gatherQueue", "downQueue", "counters", "event"}

\* One of the operations before the kernels ends.
LEMMA PopStage ==
  ASSUME HostInv, StreamInv, DispatchInv, ExecInv, NEW k \in Stages, Running(k), Pop,
         UNCHANGED <<hpc, asked, batch, flat, rows, plan, host, intermediate, weighted, prog>>,
         BufferShape',
         k = "counters" \/ dev'.counter = dev.counter,
         k = "counters" => dev'.counter = [gather |-> 0, down |-> 0],
         k = "descriptors" \/ dev'.descriptors = dev.descriptors,
         k = "gatherQueue" \/ dev'.gather = dev.gather,
         k = "downQueue" \/ dev'.down = dev.down,
         k = "descriptors" => Staged(dev'.descriptors, DescriptorList),
         k = "gatherQueue" => Staged(dev'.gather, TileQueue(GatherBlocks)),
         k = "downQueue" => Staged(dev'.down, TileQueue(DownBlocks))
  PROVE  ExecInv'
<1>1. k \in ExecKinds
  BY DEF Stages, ExecKinds
<1>2. k \in Queued /\ Busy /\ Active \in 1 .. batch /\ Queued' = Queued \ {k}
  BY <1>1, ExecRuns
<1>3. Active' = Active
  BY DEF Active
<1>4. /\ ActiveSlots' = ActiveSlots /\ DescriptorList' = DescriptorList
      /\ TileQueue(GatherBlocks)' = TileQueue(GatherBlocks)
      /\ TileQueue(DownBlocks)' = TileQueue(DownBlocks)
      /\ \A s : RightCell(s)' = RightCell(s) /\ RightOutput(s)' = RightOutput(s)
  BY <1>3, SameData
<1>5. \A j : (Gathered(j)' <=> Gathered(j)) /\ (Downed(j)' <=> Downed(j))
  BY <1>3, SameTiles
<1>6. /\ "gather" \in Queued' <=> "gather" \in Queued
      /\ "down" \in Queued' <=> "down" \in Queued
      /\ "merge" \in Queued' <=> "merge" \in Queued
      /\ \A j : j \in Queued' <=> j \in Queued /\ j # k
  BY <1>2 DEF Stages
<1>7. Busy' => Busy
  BY <1>2
<1>8. RowsKept'
  BY <1>2 DEF ExecInv, RowsKept
<1>9. ActiveSlots \subseteq DOMAIN intermediate /\ Copied("descriptors", "descriptors", DescriptorList)
  BY <1>2 DEF ExecInv, DescriptorsCopied
<1>10. DescriptorsCopied'
  <2>1. CASE k = "descriptors"
    <3>1. "descriptors" \notin Queued' /\ Staged(dev'.descriptors, DescriptorList')
      BY <1>4, <1>6, <2>1
    <3>2. Fits(dev'.descriptors, DescriptorList')
      BY <3>1 DEF Staged
    <3>3. ActiveSlots' \subseteq DOMAIN intermediate'
      BY <1>4, <1>9
    <3> QED BY <3>1, <3>2, <3>3 DEF DescriptorsCopied, Copied
  <2>2. CASE k # "descriptors"
    <3>1. "descriptors" \in Queued' <=> "descriptors" \in Queued
      BY <1>6, <2>2
    <3> QED BY <1>4, <1>9, <2>2, <3>1 DEF DescriptorsCopied, Copied
  <2> QED BY <2>1, <2>2
<1>11. QueuesCopied'
  <2> SUFFICES ASSUME hpc # "queue" PROVE QueuesCopied'
    BY DEF QueuesCopied
  <2>1. /\ Copied("gatherQueue", "gather", TileQueue(GatherBlocks))
        /\ Copied("downQueue", "down", TileQueue(DownBlocks))
    BY <1>2 DEF ExecInv, QueuesCopied
  <2>2. Copied("gatherQueue", "gather", TileQueue(GatherBlocks))'
    <3>1. CASE k = "gatherQueue"
      <4>1. "gatherQueue" \notin Queued' /\ Staged(dev'.gather, TileQueue(GatherBlocks)')
        BY <1>4, <1>6, <3>1
      <4> QED BY <4>1 DEF Copied, Staged
    <3>2. CASE k # "gatherQueue"
      <4>1. "gatherQueue" \in Queued' <=> "gatherQueue" \in Queued
        BY <1>6, <3>2
      <4> QED BY <1>4, <2>1, <3>2, <4>1 DEF Copied
    <3> QED BY <3>1, <3>2
  <2>3. Copied("downQueue", "down", TileQueue(DownBlocks))'
    <3>1. CASE k = "downQueue"
      <4>1. "downQueue" \notin Queued' /\ Staged(dev'.down, TileQueue(DownBlocks)')
        BY <1>4, <1>6, <3>1
      <4> QED BY <4>1 DEF Copied, Staged
    <3>2. CASE k # "downQueue"
      <4>1. "downQueue" \in Queued' <=> "downQueue" \in Queued
        BY <1>6, <3>2
      <4> QED BY <1>4, <2>1, <3>2, <4>1 DEF Copied
    <3> QED BY <3>1, <3>2
  <2> QED BY <2>2, <2>3 DEF QueuesCopied
<1>12. \A j : ~Held("gather", j) /\ ~Held("down", j)
  BY DEF Held, Running, Stages
<1>13. GatherClaims' /\ DownClaims'
  <2>1. CASE k = "counters"
    <3>1. \A n : \A j \in Index(n) : ~(j < 0)
      BY DEF Index
    <3>2. dev'.counter.gather = 0 /\ dev'.counter.down = 0
      BY <2>1
    <3> QED BY <3>1, <3>2 DEF GatherClaims, DownClaims
  <2>2. CASE k # "counters"
    <3>1. "counters" \in Queued' <=> "counters" \in Queued
      BY <1>6, <2>2
    <3>2. dev'.counter = dev.counter
      BY <2>2
    <3>3. GatherClaims'
      BY <1>4, <1>5, <1>6, <1>12, <3>1, <3>2 DEF ExecInv, GatherClaims
    <3>4. DownClaims'
      BY <1>4, <1>5, <1>6, <1>12, <3>1, <3>2 DEF ExecInv, DownClaims
    <3> QED BY <3>3, <3>4
  <2> QED BY <2>1, <2>2
<1>14. AllGathered'
  BY <1>4, <1>6 DEF ExecInv, AllGathered
<1>15. AllDowned'
  BY <1>4, <1>6 DEF ExecInv, AllDowned
<1> QED BY <1>2, <1>3, <1>8, <1>10, <1>11, <1>13, <1>14, <1>15 DEF ExecInv

\* A copy or the reset of the counters.
LEMMA CopyKeepsExec ==
  ASSUME HostInv, StreamInv, DispatchInv, ExecInv, CopyOp \/ EventOp
  PROVE  ExecInv'
<1>1. Pop /\ UNCHANGED <<hpc, asked, batch, flat, rows, plan, host, intermediate, weighted, prog>>
  BY DEF CopyOp, EventOp, CopyIn, ZeroCounters, dispatchVars, execVars, HostRest
<1>2. dev \in DeviceBuffers /\ host \in HostBuffers
  BY DEF ExecInv, BufferShape, DeviceBuffers, HostBuffers
<1>3. dev' \in DeviceBuffers => BufferShape'
  BY <1>1 DEF ExecInv, BufferShape, DeviceBuffers
<1>4. {"descriptors", "gatherQueue", "downQueue", "counters", "event"} \subseteq ExecKinds \cap Stages
  BY DEF ExecKinds, Stages
<1>5. CASE EventOp
  <2>1. Running("event") /\ dev' = dev
    BY <1>5 DEF EventOp, execVars
  <2> QED BY <1>1, <1>2, <1>3, <1>4, <2>1, PopStage
<1>6. CASE Running("counters") /\ ZeroCounters
  <2>1. dev' = [dev EXCEPT !.counter = [gather |-> 0, down |-> 0]]
    BY <1>6 DEF ZeroCounters
  <2>2. /\ dev' \in DeviceBuffers /\ dev'.counter = [gather |-> 0, down |-> 0]
        /\ dev'.descriptors = dev.descriptors /\ dev'.gather = dev.gather /\ dev'.down = dev.down
    BY <1>2, <2>1 DEF DeviceBuffers
  <2> QED BY <1>1, <1>3, <1>4, <1>6, <2>2, PopStage
<1>7. CASE Running("descriptors") /\ CopyIn("descriptors", Head(stream).size)
  <2>1. /\ Busy /\ Head(stream).size = Len(rows) /\ "descriptors" \in Queued
        /\ Schedules(rows, plan, ActiveSlots) /\ Active \in 1 .. batch
    BY <1>4, <1>7, ExecRuns, ExecSizes
  <2>2. Active \in Nat
    <3>1. batch \in Nat
      BY DEF HostInv
    <3> QED BY <2>1, <3>1
  <2>3. DescriptorList \in Seq(Descriptor) /\ Len(DescriptorList) = Len(rows)
    BY <2>1, <2>2, ListTyped
  <2>4. Staged(host.descriptors, DescriptorList) /\ Fits(dev.descriptors, DescriptorList)
    BY <2>1 DEF ExecInv, DescriptorsCopied, Copied
  <2>5. PICK x : x = Overwrite(dev.descriptors, SubSeq(host.descriptors, 1, Len(DescriptorList)))
    OBVIOUS
  <2>6. x \in Seq(Descriptor) /\ Staged(x, DescriptorList)
    <3>1. host.descriptors \in Seq(Descriptor) /\ dev.descriptors \in Seq(Descriptor)
      BY <1>2 DEF DeviceBuffers, HostBuffers
    <3> QED BY <2>3, <2>4, <2>5, <3>1, CopyStages
  <2>7. dev' = [dev EXCEPT !.descriptors = x]
    BY <1>7, <2>1, <2>3, <2>5 DEF CopyIn
  <2>8. /\ dev' \in DeviceBuffers /\ dev'.descriptors = x /\ dev'.counter = dev.counter
        /\ dev'.gather = dev.gather /\ dev'.down = dev.down
    BY <1>2, <2>6, <2>7 DEF DeviceBuffers
  <2>9. Staged(dev'.descriptors, DescriptorList)
    BY <2>6, <2>8
  <2> QED BY <1>1, <1>3, <1>4, <1>7, <2>8, <2>9, PopStage
<1>8. CASE Running("gatherQueue") /\ CopyIn("gather", Head(stream).size)
  <2> DEFINE q == TileQueue(GatherBlocks)
  <2>1. /\ Busy /\ Head(stream).size = Len(q) /\ "gatherQueue" \in Queued /\ Counted(rows)
    BY <1>4, <1>8, ExecRuns, ExecSizes
  <2>2. hpc # "queue"
    BY <2>1, <1>4 DEF StreamInv, Phase, Exec
  <2>3. q \in Seq(Entry)
    BY <2>1, TileQueueIs, ExecutorAssumption
  <2>4. Staged(host.gather, q) /\ Fits(dev.gather, q)
    BY <2>1, <2>2 DEF ExecInv, QueuesCopied, Copied
  <2> HIDE DEF q
  <2>5. PICK x : x = Overwrite(dev.gather, SubSeq(host.gather, 1, Len(q)))
    OBVIOUS
  <2>6. x \in Seq(Entry) /\ Staged(x, q)
    <3>1. host.gather \in Seq(Entry) /\ dev.gather \in Seq(Entry)
      BY <1>2 DEF DeviceBuffers, HostBuffers
    <3> QED BY <2>3, <2>4, <2>5, <3>1, CopyStages
  <2>7. dev' = [dev EXCEPT !.gather = x]
    BY <1>8, <2>1, <2>5 DEF CopyIn
  <2>8. /\ dev' \in DeviceBuffers /\ dev'.gather = x /\ dev'.counter = dev.counter
        /\ dev'.descriptors = dev.descriptors /\ dev'.down = dev.down
    BY <1>2, <2>6, <2>7 DEF DeviceBuffers
  <2>9. Staged(dev'.gather, TileQueue(GatherBlocks))
    BY <2>6, <2>8 DEF q
  <2> QED BY <1>1, <1>3, <1>4, <1>8, <2>8, <2>9, PopStage
<1>9. CASE Running("downQueue") /\ CopyIn("down", Head(stream).size)
  <2> DEFINE q == TileQueue(DownBlocks)
  <2>1. /\ Busy /\ Head(stream).size = Len(q) /\ "downQueue" \in Queued /\ Counted(rows)
    BY <1>4, <1>9, ExecRuns, ExecSizes
  <2>2. hpc # "queue"
    BY <2>1, <1>4 DEF StreamInv, Phase, Exec
  <2>3. q \in Seq(Entry)
    BY <2>1, TileQueueIs, ExecutorAssumption
  <2>4. Staged(host.down, q) /\ Fits(dev.down, q)
    BY <2>1, <2>2 DEF ExecInv, QueuesCopied, Copied
  <2> HIDE DEF q
  <2>5. PICK x : x = Overwrite(dev.down, SubSeq(host.down, 1, Len(q)))
    OBVIOUS
  <2>6. x \in Seq(Entry) /\ Staged(x, q)
    <3>1. host.down \in Seq(Entry) /\ dev.down \in Seq(Entry)
      BY <1>2 DEF DeviceBuffers, HostBuffers
    <3> QED BY <2>3, <2>4, <2>5, <3>1, CopyStages
  <2>7. dev' = [dev EXCEPT !.down = x]
    BY <1>9, <2>1, <2>5 DEF CopyIn
  <2>8. /\ dev' \in DeviceBuffers /\ dev'.down = x /\ dev'.counter = dev.counter
        /\ dev'.descriptors = dev.descriptors /\ dev'.gather = dev.gather
    BY <1>2, <2>6, <2>7 DEF DeviceBuffers
  <2>9. Staged(dev'.down, TileQueue(DownBlocks))
    BY <2>6, <2>8 DEF q
  <2> QED BY <1>1, <1>3, <1>4, <1>9, <2>8, <2>9, PopStage
<1> QED BY <1>5, <1>6, <1>7, <1>8, <1>9 DEF CopyOp

-----------------------------------------------------------------------------
(* The device: the two kernels.                                            *)

\* What holds when one of the two kernels runs.
LEMMA KernelRuns ==
  ASSUME HostInv, StreamInv, DispatchInv, ExecInv, NEW k \in QueueKernels, Running(k)
  PROVE  /\ k \in ExecKinds /\ hpc \notin {"fill", "queue", "launch"} /\ "counters" \notin Queued
         /\ k = "down" => "gather" \notin Queued
         /\ ActiveSlots \subseteq DOMAIN intermediate
         /\ Staged(dev.descriptors, DescriptorList)
         /\ Staged(dev.gather, TileQueue(GatherBlocks)) /\ Staged(dev.down, TileQueue(DownBlocks))
         /\ k = "gather" => Head(stream).size = Len(TileQueue(GatherBlocks))
         /\ k = "down" => Head(stream).size = Len(TileQueue(DownBlocks))
         /\ \A m \in QueueKernels : m # k => \A j : ~Held(m, j)
<1>1. k \in ExecKinds
  BY DEF QueueKernels, ExecKinds
<1>2. /\ k \in Queued /\ Busy /\ Head(stream).size = OpSize[k]
      /\ \A j \in Queued : j = k \/ Rank(k) < Rank(j)
  BY <1>1, ExecRuns
<1>3. k \in Exec /\ k \in {"gather", "down"}
  BY <1>1, <1>2 DEF Exec, QueueKernels
<1>4. hpc \notin {"fill", "queue", "launch"}
  BY <1>2, <1>3 DEF StreamInv, Phase
<1>5. /\ "counters" \notin Queued /\ "descriptors" \notin Queued
      /\ "gatherQueue" \notin Queued /\ "downQueue" \notin Queued
      /\ k = "down" => "gather" \notin Queued
  BY <1>2, <1>3, RankIs
<1>6. ActiveSlots \subseteq DOMAIN intermediate /\ Staged(dev.descriptors, DescriptorList)
  BY <1>2, <1>5 DEF ExecInv, DescriptorsCopied, Copied
<1>7. Staged(dev.gather, TileQueue(GatherBlocks)) /\ Staged(dev.down, TileQueue(DownBlocks))
  BY <1>2, <1>4, <1>5 DEF ExecInv, QueuesCopied, Copied
<1>8. /\ k = "gather" => Head(stream).size = Len(TileQueue(GatherBlocks))
      /\ k = "down" => Head(stream).size = Len(TileQueue(DownBlocks))
  BY <1>2, ExecSizes
<1>9. \A m \in QueueKernels : m # k => \A j : ~Held(m, j)
  BY DEF Held, Running
<1> QED BY <1>1, <1>4, <1>5, <1>6, <1>7, <1>8, <1>9

\* A step of a running kernel keeps the buffers it does not write.
LEMMA KernelStep ==
  ASSUME ExecInv, UNCHANGED <<hpc, asked, batch, flat, rows, plan, host>>, NEW k \in QueueKernels,
         Queued' = Queued \/ Queued' = Queued \ {k},
         dev'.descriptors = dev.descriptors, dev'.gather = dev.gather, dev'.down = dev.down,
         DOMAIN intermediate' = DOMAIN intermediate, BufferShape',
         GatherClaims', DownClaims', AllGathered', AllDowned'
  PROVE  ExecInv'
<1>1. Active' = Active
  BY DEF Active
<1>2. /\ ActiveSlots' = ActiveSlots /\ DescriptorList' = DescriptorList
      /\ TileQueue(GatherBlocks)' = TileQueue(GatherBlocks)
      /\ TileQueue(DownBlocks)' = TileQueue(DownBlocks)
  BY <1>1, SameData
<1>3. Exec' \subseteq Exec /\ Queued' \subseteq Queued
  BY DEF Exec
<1>4. Busy' => Busy
  BY <1>3 DEF Busy
<1>5. /\ "descriptors" \in Queued' <=> "descriptors" \in Queued
      /\ "gatherQueue" \in Queued' <=> "gatherQueue" \in Queued
      /\ "downQueue" \in Queued' <=> "downQueue" \in Queued
  BY DEF QueueKernels
<1>6. RowsKept'
  BY <1>4 DEF ExecInv, RowsKept
<1>7. DescriptorsCopied'
  BY <1>2, <1>4, <1>5 DEF ExecInv, DescriptorsCopied, Copied
<1>8. QueuesCopied'
  BY <1>2, <1>4, <1>5 DEF ExecInv, QueuesCopied, Copied
<1>9. Exec' # {} => Active' \in 1 .. batch'
  BY <1>1, <1>3 DEF ExecInv
<1> QED BY <1>6, <1>7, <1>8, <1>9 DEF ExecInv

\* A program claims the next tile.
LEMMA ClaimKeepsExec ==
  ASSUME HostInv, StreamInv, DispatchInv, ExecInv, ClaimInv, NEW p \in Program, ClaimTile(p)
  PROVE  ExecInv'
<1>1. PICK k \in QueueKernels : Running(k) /\ Claim(p, k)
  BY DEF ClaimTile
<1>2. /\ UNCHANGED <<hpc, asked, batch, flat, rows, plan, host, intermediate, weighted, stream, grid>>
      /\ p \in grid /\ prog[p] = Idle /\ prog' = [prog EXCEPT ![p] = dev.counter[k]]
      /\ dev' = [dev EXCEPT !.counter[k] = @ + 1]
  BY <1>1 DEF ClaimTile, Claim, dispatchVars, hostVars
<1>3. dev \in DeviceBuffers /\ k \in {"gather", "down"} /\ prog = [q \in Program |-> prog[q]]
  BY DEF ExecInv, BufferShape, DeviceBuffers, QueueKernels
<1>4. /\ dev' \in DeviceBuffers /\ dev'.descriptors = dev.descriptors
      /\ dev'.gather = dev.gather /\ dev'.down = dev.down
      /\ dev'.counter[k] = dev.counter[k] + 1 /\ dev.counter[k] \in Nat
      /\ \A m \in {"gather", "down"} : m # k => dev'.counter[m] = dev.counter[m]
  <2>1. PICK c \in [gather : Nat, down : Nat] : c = dev.counter
    BY <1>3 DEF DeviceBuffers
  <2>2. c[k] \in Nat
    BY <1>3, <2>1
  <2>3. PICK d : d = [c EXCEPT ![k] = c[k] + 1]
    OBVIOUS
  <2>4. d \in [gather : Nat, down : Nat] /\ d[k] = c[k] + 1 /\ \A m \in {"gather", "down"} : m # k => d[m] = c[m]
    BY <1>3, <2>2, <2>3
  <2>5. dev' = [dev EXCEPT !.counter = d]
    BY <1>2, <2>1, <2>3
  <2>6. dev' \in DeviceBuffers /\ dev'.counter = d /\ dev'.descriptors = dev.descriptors
        /\ dev'.gather = dev.gather /\ dev'.down = dev.down
    BY <1>3, <2>4, <2>5 DEF DeviceBuffers
  <2> QED BY <2>1, <2>2, <2>4, <2>6
<1>5. BufferShape'
  <2>1. prog' = [q \in Program |-> prog'[q]]
    BY <1>2, <1>3
  <2> QED BY <1>2, <1>4, <2>1 DEF ExecInv, BufferShape, DeviceBuffers
<1>6. /\ k \in ExecKinds /\ hpc \notin {"fill", "queue", "launch"} /\ "counters" \notin Queued
      /\ k = "down" => "gather" \notin Queued
      /\ \A m \in QueueKernels : m # k => \A j : ~Held(m, j)
  BY <1>1, KernelRuns
<1>7. Queued' = Queued /\ (\A m : Running(m)' <=> Running(m)) /\ Active' = Active
  BY <1>2 DEF Queued, Running, Drained, Active
<1>8. \A j \in Int : (Held(k, j) \/ j = dev.counter[k]) /\ j # Idle => Held(k, j)'
  <2>1. prog'[p] = dev.counter[k] /\ \A q \in Program : q # p => prog'[q] = prog[q]
    BY <1>2, <1>3
  <2>2. grid \subseteq Program
    <3>1. Grid(stream) = Program
      <4>1. Head(stream).kind \in QueueKernels /\ Head(stream).kind \notin TileKernels /\ stream # <<>>
        BY <1>1, <1>3 DEF Running, Drained, TileKernels, QueueKernels
      <4> QED BY <4>1 DEF Grid
    <3> QED BY <3>1 DEF StreamInv
  <2> QED BY <1>1, <1>2, <1>7, <2>1, <2>2 DEF Held
<1>9. /\ ActiveSlots' = ActiveSlots /\ TileQueue(GatherBlocks)' = TileQueue(GatherBlocks)
      /\ TileQueue(DownBlocks)' = TileQueue(DownBlocks)
      /\ \A s : RightCell(s)' = RightCell(s) /\ RightOutput(s)' = RightOutput(s)
      /\ \A j : (Gathered(j)' <=> Gathered(j)) /\ (Downed(j)' <=> Downed(j))
  BY <1>2, <1>7, SameData, SameTiles
<1>10. \A n : \A j \in Index(n) : j \in Int /\ j # Idle
  BY DEF Index, Idle
<1>11. \A j \in Int : j < dev'.counter[k] => j < dev.counter[k] \/ j = dev.counter[k]
  BY <1>4
<1>12. "gather" \in QueueKernels /\ "down" \in QueueKernels
  BY DEF QueueKernels
<1>13. GatherClaims'
  <2>1. CASE k = "gather"
    <3>1. "gather" \in Queued
      BY <1>1, <2>1, RunningIs DEF StreamInv
    <3>2. \A j \in Index(Len(TileQueue(GatherBlocks))) :
            j < dev.counter.gather => Gathered(j) \/ Held("gather", j)
      BY <1>6, <3>1 DEF ExecInv, GatherClaims
    <3>3. dev'.counter["gather"] = dev'.counter.gather
      OBVIOUS
    <3> QED BY <1>8, <1>9, <1>10, <1>11, <2>1, <3>2 DEF GatherClaims
  <2>2. CASE k = "down"
    BY <1>2, <1>6, <1>7, <2>2 DEF GatherClaims
  <2> QED BY <1>3, <2>1, <2>2
<1>14. DownClaims'
  <2>1. CASE k = "down"
    <3>1. "down" \in Queued
      BY <1>1, <2>1, RunningIs DEF StreamInv
    <3>2. \A j \in Index(Len(TileQueue(DownBlocks))) :
            j < dev.counter.down => Downed(j) \/ Held("down", j)
      BY <1>6, <3>1 DEF ExecInv, DownClaims
    <3> QED BY <1>8, <1>9, <1>10, <1>11, <2>1, <3>2 DEF DownClaims
  <2>2. CASE k = "gather"
    <3>1. \A j : ~Held("down", j)
      BY <1>6, <1>12, <2>2
    <3>2. dev'.counter.down = dev.counter.down
      BY <1>4, <2>2
    <3> QED BY <1>2, <1>7, <1>9, <3>1, <3>2 DEF ExecInv, DownClaims
  <2> QED BY <1>3, <2>1, <2>2
<1>15. AllGathered'
  BY <1>2, <1>7, <1>9 DEF ExecInv, AllGathered
<1>16. AllDowned'
  BY <1>2, <1>7, <1>9 DEF ExecInv, AllDowned
<1>17. DOMAIN intermediate' = DOMAIN intermediate
  BY <1>2
<1> QED BY <1>2, <1>4, <1>5, <1>7, <1>13, <1>14, <1>15, <1>16, <1>17, KernelStep

-----------------------------------------------------------------------------
(* The device: a tile of work.                                             *)

\* What the running kernel finds in its queues and descriptors.
LEMMA StagedTile ==
  ASSUME NEW S, NEW p, Schedules(rows, p, S), NEW q, NEW buffer, Staged(buffer, q),
         Staged(dev.descriptors, DescriptorList),
         Active \in Nat, NEW n \in Nat, Len(q) = n, NEW j \in Index(n), q[j + 1].descriptor \in 1 .. Len(rows)
  PROVE  /\ buffer[j + 1] = q[j + 1]
         /\ dev.descriptors[q[j + 1].descriptor].expert = rows[q[j + 1].descriptor].expert
         /\ dev.descriptors[q[j + 1].descriptor].input = Active
         /\ TileSlots(q[j + 1]) = TileRows(q[j + 1])
         /\ TileRows(q[j + 1]) \subseteq S
         /\ \A s \in TileRows(q[j + 1]) : p.slots[s].expert = rows[q[j + 1].descriptor].expert
<1>1. j + 1 \in 1 .. n
  BY DEF Index
<1>2. buffer[j + 1] = q[j + 1]
  BY <1>1 DEF Staged
<1>3. PICK e : e = q[j + 1]
  OBVIOUS
<1>4. PICK k \in 1 .. Len(rows) : k = e.descriptor
  BY <1>3
<1>5. Len(rows) \in Nat
  BY DEF Schedules
<1>6. DescriptorList[k] = [expert |-> rows[k].expert, offset |-> rows[k].start,
                           m |-> rows[k].count, input |-> Active]
  BY DEF DescriptorList
<1>7. Len(DescriptorList) = Len(rows)
  BY ListTyped
<1>8. dev.descriptors[k] = DescriptorList[k]
  BY <1>7 DEF Staged
<1>9. TileSlots(e) = TileRows(e)
  BY <1>4, <1>6, <1>8 DEF TileSlots, TileRows
<1>10. TileRows(e) \subseteq Slots(rows[k]) /\ TileRows(e) \subseteq S
  BY <1>4, TileInRow
<1>11. \A s \in TileRows(e) : p.slots[s].expert = rows[k].expert
  BY <1>10 DEF Schedules
<1> QED BY <1>2, <1>3, <1>4, <1>6, <1>8, <1>9, <1>10, <1>11

\* What the slots of the running forward hold.
LEMMA SlotsTyped ==
  ASSUME NEW f, Routed(f), NEW b, LaidOut(plan, f, b), NEW s \in Index(Size(f))
  PROVE  plan.slots[s].expert \in Expert /\ plan.slots[s].token \in Nat
<1>1. PICK n \in Nat : Size(f) = n /\ f \in [Index(n) -> Expert]
  BY DEF Routed
<1>2. PICK q : q = plan
  OBVIOUS
<1>5. s \in Index(n) /\ LaidOut(q, f, b)
  BY <1>1, <1>2
<1>6. PICK i \in Index(n) : StablePlace(f)[i] = s /\ Placed(q, f, b, i)
  BY <1>1, <1>5, SlotsAre
<1>7. q.slots[s] = [source |-> i, expert |-> f[i], token |-> i \div TopK, weight |-> <<b, i>>]
  BY <1>6 DEF Placed
<1>3. i \in Nat /\ TopK \in Nat \ {0}
  BY <1>1, DispatcherAssumption DEF Index
<1>4. i \div TopK \in Nat
  BY <1>3, Divides
<1> QED BY <1>1, <1>2, <1>4, <1>7

\* The claims on the tiles, when a program leaves one.
LEMMA LeftTile ==
  ASSUME NEW k, Running(k), UNCHANGED <<stream, grid>>, NEW p \in Program, prog' = [prog EXCEPT ![p] = Idle],
         DOMAIN prog = Program, grid \subseteq Program
  PROVE  \A j : Held(k, j) => j = prog[p] \/ Held(k, j)'
<1>1. \A q \in Program : q # p => prog'[q] = prog[q]
  OBVIOUS
<1>2. Running(k)'
  BY DEF Running, Drained
<1> QED BY <1>1, <1>2 DEF Held

\* A program gathers a tile.
LEMMA GatherKeepsExec ==
  ASSUME HostInv, StreamInv, DispatchInv, ExecInv, NEW p \in Program, p \in grid, Running("gather"),
         prog[p] \in Index(Head(stream).size), GatherTile(p), UNCHANGED <<dispatchVars, hostVars>>
  PROVE  ExecInv'
<1>1. "gather" \in QueueKernels /\ "gather" \in ExecKinds /\ "down" \in QueueKernels /\ "down" # "gather"
  BY DEF QueueKernels, ExecKinds
<1>2. /\ hpc \notin {"fill", "queue", "launch"} /\ "counters" \notin Queued
      /\ ActiveSlots \subseteq DOMAIN intermediate
      /\ Staged(dev.descriptors, DescriptorList)
      /\ Staged(dev.gather, TileQueue(GatherBlocks))
      /\ Head(stream).size = Len(TileQueue(GatherBlocks))
      /\ \A m \in QueueKernels : m # "gather" => \A j : ~Held(m, j)
  BY <1>1, KernelRuns
<1>3. /\ "gather" \in Queued /\ Busy /\ Active \in 1 .. batch
      /\ Routed(asked[Active]) /\ LaidOut(plan, asked[Active], Active)
      /\ Schedules(rows, plan, ActiveSlots) /\ Counted(rows)
  BY <1>1, ExecRuns
<1>4. Active \in Nat
  <2>1. batch \in Nat
    BY DEF HostInv
  <2> QED BY <1>3, <2>1
<1>5. /\ UNCHANGED <<hpc, asked, batch, flat, rows, plan, host, dev, weighted, stream, grid>>
      /\ prog' = [prog EXCEPT ![p] = Idle]
  BY DEF GatherTile, Release, dispatchVars, hostVars
<1>6. PICK q : q = TileQueue(GatherBlocks)
  OBVIOUS
<1>7. PICK n \in Nat : n = Len(q)
  BY <1>3, <1>6, TileQueueIs, ExecutorAssumption
<1>8. PICK j \in Index(n) : j = prog[p]
  BY <1>2, <1>6, <1>7
<1>9. \A i \in Index(n) : i + 1 \in 1 .. n
  BY DEF Index
<1>10. PICK e : e = q[j + 1]
  OBVIOUS
<1>11. e.descriptor \in 1 .. Len(rows) /\ e.n \in Index(GatherBlocks)
  <2>1. \A i \in 1 .. Len(q) : q[i].descriptor \in 1 .. Len(rows) /\ q[i].n \in Index(GatherBlocks)
    BY <1>3, <1>6, TileQueueIs, ExecutorAssumption
  <2> QED BY <1>7, <1>9, <1>10, <2>1
<1>12. PICK S : S = ActiveSlots
  OBVIOUS
<1>13. PICK P : P = plan
  OBVIOUS
<1>14. /\ dev.gather[j + 1] = e
       /\ dev.descriptors[e.descriptor].expert = rows[e.descriptor].expert
       /\ dev.descriptors[e.descriptor].input = Active
       /\ TileSlots(e) = TileRows(e) /\ TileRows(e) \subseteq S
       /\ \A s \in TileRows(e) : P.slots[s].expert = rows[e.descriptor].expert
  BY <1>2, <1>3, <1>4, <1>6, <1>7, <1>10, <1>11, <1>12, <1>13, StagedTile
<1>15. \A s \in TileRows(e) :
         RightCell(s) = [input |-> dev.descriptors[e.descriptor].input,
                         expert |-> dev.descriptors[e.descriptor].expert, token |-> plan.slots[s].token]
  BY <1>13, <1>14 DEF RightCell
<1>16. intermediate' = [s \in DOMAIN intermediate |->
                          IF s \in TileRows(e) THEN [intermediate[s] EXCEPT ![e.n] = RightCell(s)]
                          ELSE intermediate[s]]
  BY <1>8, <1>14, <1>15 DEF GatherTile
<1>17. \A s \in S : RightCell(s) \in Cell
  <2>1. \A s \in S : plan.slots[s].expert \in Expert /\ plan.slots[s].token \in Nat
    BY <1>3, <1>12, SlotsTyped DEF ActiveSlots
  <2> QED BY <1>4, <2>1 DEF RightCell, Cell
<1>18. PICK m \in Nat : /\ intermediate \in [Index(m) -> [Index(GatherBlocks) -> Cell]]
                        /\ weighted = [s \in Index(m) |-> [b \in Index(DownBlocks) |-> weighted[s][b]]]
  BY DEF ExecInv, BufferShape
<1>19. \A s \in Index(m) : intermediate'[s] \in [Index(GatherBlocks) -> Cell]
  <2> SUFFICES ASSUME NEW s \in Index(m) PROVE intermediate'[s] \in [Index(GatherBlocks) -> Cell]
    OBVIOUS
  <2>1. intermediate[s] \in [Index(GatherBlocks) -> Cell]
    BY <1>18
  <2>2. CASE s \in TileRows(e)
    <3>1. intermediate'[s] = [intermediate[s] EXCEPT ![e.n] = RightCell(s)] /\ RightCell(s) \in Cell
      BY <1>14, <1>16, <1>17, <1>18, <2>2
    <3> QED BY <2>1, <3>1
  <2>3. CASE s \notin TileRows(e)
    BY <1>16, <1>18, <2>1, <2>3
  <2> QED BY <2>2, <2>3
<1>20. intermediate' \in [Index(m) -> [Index(GatherBlocks) -> Cell]] /\ DOMAIN intermediate' = DOMAIN intermediate
  BY <1>16, <1>18, <1>19
<1>21. \A s \in S : s \in Index(m)
  BY <1>2, <1>12, <1>18
<1>22. /\ \A s \in S, b \in Index(GatherBlocks) :
            intermediate[s][b] = RightCell(s) => intermediate'[s][b] = RightCell(s)
       /\ \A s \in TileRows(e) : intermediate'[s][e.n] = RightCell(s)
  <2> SUFFICES ASSUME NEW s \in S
               PROVE  /\ \A b \in Index(GatherBlocks) :
                            intermediate[s][b] = RightCell(s) => intermediate'[s][b] = RightCell(s)
                      /\ s \in TileRows(e) => intermediate'[s][e.n] = RightCell(s)
    BY <1>14
  <2>1. intermediate[s] \in [Index(GatherBlocks) -> Cell] /\ s \in DOMAIN intermediate
    BY <1>18, <1>21
  <2>2. CASE s \in TileRows(e)
    <3>1. intermediate'[s] = [intermediate[s] EXCEPT ![e.n] = RightCell(s)]
      BY <1>16, <2>1, <2>2
    <3> QED BY <1>11, <2>1, <3>1
  <2>3. CASE s \notin TileRows(e)
    BY <1>16, <2>1, <2>3
  <2> QED BY <2>2, <2>3
<1>23. Queued' = Queued /\ Active' = Active
  BY <1>5 DEF Queued, Active
<1>24. /\ ActiveSlots' = ActiveSlots /\ TileQueue(GatherBlocks)' = TileQueue(GatherBlocks)
       /\ TileQueue(DownBlocks)' = TileQueue(DownBlocks)
       /\ \A s : RightCell(s)' = RightCell(s) /\ RightOutput(s)' = RightOutput(s)
       /\ \A x : TileRows(x)' = TileRows(x)
  BY <1>5, <1>23, SameData
<1>25. \A i : Downed(i)' <=> Downed(i)
  BY <1>5, <1>23, SameTiles
<1>26. \A i \in Index(n) : Gathered(i) \/ i = j => Gathered(i)'
  <2> SUFFICES ASSUME NEW i \in Index(n), Gathered(i) \/ i = j PROVE Gathered(i)'
    OBVIOUS
  <2>1. PICK x : x = q[i + 1]
    OBVIOUS
  <2>2. x.descriptor \in 1 .. Len(rows) /\ x.n \in Index(GatherBlocks)
    <3>1. \A k \in 1 .. Len(q) : q[k].descriptor \in 1 .. Len(rows) /\ q[k].n \in Index(GatherBlocks)
      BY <1>3, <1>6, TileQueueIs, ExecutorAssumption
    <3> QED BY <1>7, <1>9, <2>1, <3>1
  <2>3. TileRows(x) \subseteq S
    BY <1>3, <1>12, <2>2, TileInRow
  <2>4. \A s \in TileRows(x) : intermediate'[s][x.n] = RightCell(s)
    <3>1. CASE i = j
      BY <1>10, <1>22, <2>1, <3>1
    <3>2. CASE Gathered(i)
      BY <1>6, <1>22, <2>1, <2>2, <2>3, <3>2 DEF Gathered
    <3> QED BY <3>1, <3>2
  <2> QED BY <1>6, <1>24, <2>1, <2>4 DEF Gathered
<1>27. grid \subseteq Program /\ prog = [x \in Program |-> prog[x]]
  <2>1. Head(stream).kind \in QueueKernels /\ Head(stream).kind \notin TileKernels /\ stream # <<>>
    BY <1>1 DEF Running, Drained, TileKernels, QueueKernels
  <2> QED BY <2>1 DEF StreamInv, Grid, ExecInv, BufferShape
<1>28. \A i : Held("gather", i) => i = j \/ Held("gather", i)'
  <2>1. DOMAIN prog = Program
    BY <1>27
  <2> QED BY <1>5, <1>8, <1>27, <2>1, LeftTile
<1>29. GatherClaims'
  <2>1. \A i \in Index(n) : i < dev.counter.gather => Gathered(i) \/ Held("gather", i)
    BY <1>2, <1>3, <1>6, <1>7 DEF ExecInv, GatherClaims
  <2> QED BY <1>5, <1>6, <1>7, <1>24, <1>26, <1>28, <2>1 DEF GatherClaims
<1>30. DownClaims'
  <2>1. \A i : ~Held("down", i)
    BY <1>1, <1>2
  <2> QED BY <1>5, <1>23, <1>24, <1>25, <2>1 DEF ExecInv, DownClaims
<1>31. AllGathered'
  BY <1>3, <1>23 DEF AllGathered
<1>32. AllDowned'
  BY <1>5, <1>23, <1>24 DEF ExecInv, AllDowned
<1>33. BufferShape'
  <2>1. prog' = [x \in Program |-> prog'[x]]
    BY <1>5, <1>27
  <2> QED BY <1>5, <1>18, <1>20, <2>1 DEF ExecInv, BufferShape
<1> QED BY <1>1, <1>5, <1>20, <1>23, <1>29, <1>30, <1>31, <1>32, <1>33, KernelStep

\* A program brings a tile down.
LEMMA DownKeepsExec ==
  ASSUME HostInv, StreamInv, DispatchInv, ExecInv, NEW p \in Program, p \in grid, Running("down"),
         prog[p] \in Index(Head(stream).size), DownTile(p), UNCHANGED <<dispatchVars, hostVars>>
  PROVE  ExecInv'
<1>1. "down" \in QueueKernels /\ "down" \in ExecKinds /\ "gather" \in QueueKernels /\ "down" # "gather"
  BY DEF QueueKernels, ExecKinds
<1>2. /\ hpc \notin {"fill", "queue", "launch"} /\ "counters" \notin Queued
      /\ "gather" \notin Queued
      /\ ActiveSlots \subseteq DOMAIN intermediate
      /\ Staged(dev.descriptors, DescriptorList)
      /\ Staged(dev.down, TileQueue(DownBlocks))
      /\ Head(stream).size = Len(TileQueue(DownBlocks))
      /\ \A m \in QueueKernels : m # "down" => \A j : ~Held(m, j)
  BY <1>1, KernelRuns
<1>3. /\ "down" \in Queued /\ Busy /\ Active \in 1 .. batch
      /\ Routed(asked[Active]) /\ LaidOut(plan, asked[Active], Active)
      /\ Schedules(rows, plan, ActiveSlots) /\ Counted(rows)
  BY <1>1, ExecRuns
<1>4. Active \in Nat
  <2>1. batch \in Nat
    BY DEF HostInv
  <2> QED BY <1>3, <2>1
<1>5. /\ UNCHANGED <<hpc, asked, batch, flat, rows, plan, host, dev, intermediate, stream, grid>>
      /\ prog' = [prog EXCEPT ![p] = Idle]
  BY DEF DownTile, Release, dispatchVars, hostVars
<1>6. PICK q : q = TileQueue(DownBlocks)
  OBVIOUS
<1>7. PICK n \in Nat : n = Len(q)
  BY <1>3, <1>6, TileQueueIs, ExecutorAssumption
<1>8. PICK j \in Index(n) : j = prog[p]
  BY <1>2, <1>6, <1>7
<1>9. \A i \in Index(n) : i + 1 \in 1 .. n
  BY DEF Index
<1>10. PICK e : e = q[j + 1]
  OBVIOUS
<1>11. e.descriptor \in 1 .. Len(rows) /\ e.n \in Index(DownBlocks)
  <2>1. \A i \in 1 .. Len(q) : q[i].descriptor \in 1 .. Len(rows) /\ q[i].n \in Index(DownBlocks)
    BY <1>3, <1>6, TileQueueIs, ExecutorAssumption
  <2> QED BY <1>7, <1>9, <1>10, <2>1
<1>12. PICK S : S = ActiveSlots
  OBVIOUS
<1>13. PICK P : P = plan
  OBVIOUS
<1>14. /\ dev.down[j + 1] = e
       /\ dev.descriptors[e.descriptor].expert = rows[e.descriptor].expert
       /\ dev.descriptors[e.descriptor].input = Active
       /\ TileSlots(e) = TileRows(e) /\ TileRows(e) \subseteq S
       /\ \A s \in TileRows(e) : P.slots[s].expert = rows[e.descriptor].expert
  BY <1>2, <1>3, <1>4, <1>6, <1>7, <1>10, <1>11, <1>12, <1>13, StagedTile
<1>15. \A s \in TileRows(e) : Project(s, dev.descriptors[e.descriptor].expert) = RightOutput(s)
  <2> SUFFICES ASSUME NEW s \in TileRows(e)
               PROVE  Project(s, dev.descriptors[e.descriptor].expert) = RightOutput(s)
    OBVIOUS
  <2>1. s \in ActiveSlots /\ plan.slots[s].expert = dev.descriptors[e.descriptor].expert
    BY <1>12, <1>13, <1>14
  <2>2. \A b \in Index(GatherBlocks) : intermediate[s][b] = RightCell(s)
    BY <1>2, <1>3, <2>1 DEF ExecInv, AllGathered
  <2>3. 0 \in Index(GatherBlocks)
    BY ExecutorAssumption DEF Index
  <2>4. intermediate[s][0] = RightCell(s)
    BY <2>2, <2>3
  <2>5. /\ RightCell(s).input = Active /\ RightCell(s).expert = plan.slots[s].expert
        /\ RightCell(s).token = plan.slots[s].token
    BY DEF RightCell
  <2> QED BY <2>1, <2>2, <2>4, <2>5 DEF Project, RightOutput
<1>16. weighted' = [s \in DOMAIN weighted |->
                      IF s \in TileRows(e) THEN [weighted[s] EXCEPT ![e.n] = RightOutput(s)]
                      ELSE weighted[s]]
  BY <1>8, <1>14, <1>15 DEF DownTile
<1>18. PICK m \in Nat : /\ intermediate \in [Index(m) -> [Index(GatherBlocks) -> Cell]]
                        /\ weighted = [s \in Index(m) |-> [b \in Index(DownBlocks) |-> weighted[s][b]]]
  BY DEF ExecInv, BufferShape
<1>17. DOMAIN weighted = Index(m) /\ DOMAIN intermediate = Index(m)
       /\ \A s \in Index(m) : weighted[s] = [b \in Index(DownBlocks) |-> weighted[s][b]]
  BY <1>18
<1>19. \A s \in Index(m) : weighted'[s] = [b \in Index(DownBlocks) |-> weighted'[s][b]]
  <2> SUFFICES ASSUME NEW s \in Index(m) PROVE weighted'[s] = [b \in Index(DownBlocks) |-> weighted'[s][b]]
    OBVIOUS
  <2>1. weighted[s] = [b \in Index(DownBlocks) |-> weighted[s][b]]
    BY <1>17
  <2>2. CASE s \in TileRows(e)
    <3>1. weighted'[s] = [weighted[s] EXCEPT ![e.n] = RightOutput(s)]
      BY <1>16, <1>17, <2>2
    <3> QED BY <2>1, <3>1
  <2>3. CASE s \notin TileRows(e)
    <3>1. weighted'[s] = weighted[s]
      BY <1>16, <1>17, <2>3
    <3> QED BY <2>1, <3>1
  <2> QED BY <2>2, <2>3
<1>20. weighted' = [s \in Index(m) |-> [b \in Index(DownBlocks) |-> weighted'[s][b]]]
  <2>1. weighted' = [s \in Index(m) |-> weighted'[s]]
    BY <1>16, <1>17
  <2> QED BY <1>19, <2>1
<1>21. \A s \in S : s \in Index(m)
  BY <1>2, <1>12, <1>17
<1>22. /\ \A s \in S, b \in Index(DownBlocks) :
            weighted[s][b] = RightOutput(s) => weighted'[s][b] = RightOutput(s)
       /\ \A s \in TileRows(e) : weighted'[s][e.n] = RightOutput(s)
  <2> SUFFICES ASSUME NEW s \in S
               PROVE  /\ \A b \in Index(DownBlocks) :
                            weighted[s][b] = RightOutput(s) => weighted'[s][b] = RightOutput(s)
                      /\ s \in TileRows(e) => weighted'[s][e.n] = RightOutput(s)
    BY <1>14
  <2>1. DOMAIN weighted[s] = Index(DownBlocks) /\ s \in DOMAIN weighted
    BY <1>17, <1>21
  <2>2. CASE s \in TileRows(e)
    <3>1. weighted'[s] = [weighted[s] EXCEPT ![e.n] = RightOutput(s)]
      BY <1>16, <2>1, <2>2
    <3> QED BY <1>11, <2>1, <3>1
  <2>3. CASE s \notin TileRows(e)
    BY <1>16, <2>1, <2>3
  <2> QED BY <2>2, <2>3
<1>23. Queued' = Queued /\ Active' = Active
  BY <1>5 DEF Queued, Active
<1>24. /\ ActiveSlots' = ActiveSlots /\ TileQueue(GatherBlocks)' = TileQueue(GatherBlocks)
       /\ TileQueue(DownBlocks)' = TileQueue(DownBlocks)
       /\ \A s : RightCell(s)' = RightCell(s) /\ RightOutput(s)' = RightOutput(s)
       /\ \A x : TileRows(x)' = TileRows(x)
  BY <1>5, <1>23, SameData
<1>25. \A i : Gathered(i)' <=> Gathered(i)
  BY <1>5, <1>23, SameTiles
<1>26. \A i \in Index(n) : Downed(i) \/ i = j => Downed(i)'
  <2> SUFFICES ASSUME NEW i \in Index(n), Downed(i) \/ i = j PROVE Downed(i)'
    OBVIOUS
  <2>1. PICK x : x = q[i + 1]
    OBVIOUS
  <2>2. x.descriptor \in 1 .. Len(rows) /\ x.n \in Index(DownBlocks)
    <3>1. \A k \in 1 .. Len(q) : q[k].descriptor \in 1 .. Len(rows) /\ q[k].n \in Index(DownBlocks)
      BY <1>3, <1>6, TileQueueIs, ExecutorAssumption
    <3> QED BY <1>7, <1>9, <2>1, <3>1
  <2>3. TileRows(x) \subseteq S
    BY <1>3, <1>12, <2>2, TileInRow
  <2>4. \A s \in TileRows(x) : weighted'[s][x.n] = RightOutput(s)
    <3>1. CASE i = j
      BY <1>10, <1>22, <2>1, <3>1
    <3>2. CASE Downed(i)
      BY <1>6, <1>22, <2>1, <2>2, <2>3, <3>2 DEF Downed
    <3> QED BY <3>1, <3>2
  <2> QED BY <1>6, <1>24, <2>1, <2>4 DEF Downed
<1>27. grid \subseteq Program /\ prog = [x \in Program |-> prog[x]]
  <2>1. Head(stream).kind \in QueueKernels /\ Head(stream).kind \notin TileKernels /\ stream # <<>>
    BY <1>1 DEF Running, Drained, TileKernels, QueueKernels
  <2> QED BY <2>1 DEF StreamInv, Grid, ExecInv, BufferShape
<1>28. \A i : Held("down", i) => i = j \/ Held("down", i)'
  <2>1. DOMAIN prog = Program
    BY <1>27
  <2> QED BY <1>5, <1>8, <1>27, <2>1, LeftTile
<1>29. DownClaims'
  <2>1. \A i \in Index(n) : i < dev.counter.down => Downed(i) \/ Held("down", i)
    BY <1>2, <1>3, <1>6, <1>7 DEF ExecInv, DownClaims
  <2> QED BY <1>5, <1>6, <1>7, <1>24, <1>26, <1>28, <2>1 DEF DownClaims
<1>30. GatherClaims'
  BY <1>2, <1>5, <1>23 DEF GatherClaims
<1>31. AllGathered'
  BY <1>5, <1>23, <1>24 DEF ExecInv, AllGathered
<1>32. AllDowned'
  BY <1>3, <1>23 DEF AllDowned
<1>33. BufferShape'
  <2>1. prog' = [x \in Program |-> prog'[x]]
    BY <1>5, <1>27
  <2> QED BY <1>5, <1>18, <1>20, <2>1 DEF ExecInv, BufferShape
<1> QED BY <1>1, <1>5, <1>23, <1>29, <1>30, <1>31, <1>32, <1>33, KernelStep

\* A program that finds the queue empty leaves the kernel; with the last one
\* the kernel ends, and every tile of its queue is done.
LEMMA ExitKeepsExec ==
  ASSUME HostInv, StreamInv, DispatchInv, ExecInv, ClaimInv, NEW p \in Program, ExitKernel(p)
  PROVE  ExecInv'
<1>1. PICK k \in QueueKernels : Running(k)
  BY DEF ExitKernel
<1>2. /\ hpc \notin {"fill", "queue", "launch"} /\ "counters" \notin Queued
      /\ k = "down" => "gather" \notin Queued
      /\ k = "gather" => Head(stream).size = Len(TileQueue(GatherBlocks))
      /\ k = "down" => Head(stream).size = Len(TileQueue(DownBlocks))
      /\ \A m \in QueueKernels : m # k => \A j : ~Held(m, j)
      /\ k \in ExecKinds
  BY <1>1, KernelRuns
<1>3. /\ k \in Queued /\ Busy /\ Active \in 1 .. batch
      /\ Schedules(rows, plan, ActiveSlots) /\ Counted(rows)
      /\ Pop => Queued' = Queued \ {k}
  BY <1>1, <1>2, ExecRuns
<1>4. k \in {"gather", "down"} /\ "gather" \in QueueKernels /\ "down" \in QueueKernels
  BY DEF QueueKernels
<1>5. /\ UNCHANGED <<hpc, asked, batch, flat, rows, plan, host, dev, intermediate, weighted>>
      /\ prog' = [prog EXCEPT ![p] = Idle]
      /\ p \in grid /\ prog[p] >= Head(stream).size /\ prog[p] # Idle
      /\ ProgramEnds(p)
  BY DEF ExitKernel, Release, dispatchVars, HostRest
<1>6. prog[p] \in Nat /\ prog[p] < dev.counter[k] /\ dev.counter[k] \in Nat
  <2>1. ClaimOpen(p)
    BY <1>5 DEF ClaimInv
  <2>2. Head(stream).kind = k
    BY <1>1 DEF Running
  <2>3. dev.counter \in [gather : Nat, down : Nat]
    BY DEF ClaimInv
  <2>4. dev.counter[k] \in Nat
    BY <1>4, <2>3
  <2> QED BY <2>1, <2>2, <2>4 DEF ClaimOpen
<1>7. prog = [x \in Program |-> prog[x]]
  BY DEF ExecInv, BufferShape
<1>8. Len(TileQueue(GatherBlocks)) \in Nat /\ Len(TileQueue(DownBlocks)) \in Nat
  BY <1>3, TileQueueIs, ExecutorAssumption
<1>9. PICK n \in Nat : n = Head(stream).size
  BY <1>2, <1>4, <1>8
<1>10. \A i \in Index(n) : i # prog[p] /\ i < dev.counter[k]
  <2>1. \A i \in Index(n) : i \in Int /\ i < n
    BY DEF Index
  <2>2. prog[p] >= n
    BY <1>5, <1>9
  <2>3. PICK x \in Nat : x = prog[p]
    BY <1>6
  <2>4. PICK c \in Nat : c = dev.counter[k]
    BY <1>6
  <2>5. n <= x /\ x < c
    BY <1>6, <2>2, <2>3, <2>4
  <2>6. \A i \in Index(n) : i # x /\ i < c
    BY <2>1, <2>5
  <2> QED BY <2>3, <2>4, <2>6
<1>11. Active' = Active
  BY <1>5 DEF Active
<1>12. /\ ActiveSlots' = ActiveSlots /\ TileQueue(GatherBlocks)' = TileQueue(GatherBlocks)
       /\ TileQueue(DownBlocks)' = TileQueue(DownBlocks)
       /\ \A s : RightCell(s)' = RightCell(s) /\ RightOutput(s)' = RightOutput(s)
       /\ \A j : (Gathered(j)' <=> Gathered(j)) /\ (Downed(j)' <=> Downed(j))
  BY <1>5, <1>11, SameData, SameTiles
<1>13. BufferShape'
  <2>1. prog' = [x \in Program |-> prog'[x]]
    BY <1>5, <1>7
  <2> QED BY <1>5, <2>1 DEF ExecInv, BufferShape
<1>14. /\ k = "gather" => \A i \in Index(n) : Gathered(i) \/ Held(k, i)
       /\ k = "down" => \A i \in Index(n) : Downed(i) \/ Held(k, i)
  <2>1. CASE k = "gather"
    <3>1. \A i \in Index(Len(TileQueue(GatherBlocks))) :
            i < dev.counter.gather => Gathered(i) \/ Held("gather", i)
      BY <1>2, <1>3, <2>1 DEF ExecInv, GatherClaims
    <3> QED BY <1>2, <1>9, <1>10, <2>1, <3>1
  <2>2. CASE k = "down"
    <3>1. \A i \in Index(Len(TileQueue(DownBlocks))) :
            i < dev.counter.down => Downed(i) \/ Held("down", i)
      BY <1>2, <1>3, <2>2 DEF ExecInv, DownClaims
    <3> QED BY <1>2, <1>9, <1>10, <2>2, <3>1
  <2> QED BY <1>4, <2>1, <2>2
<1>15. CASE grid # {p}
  <2>1. grid' = grid \ {p} /\ stream' = stream
    BY <1>5, <1>15 DEF ProgramEnds
  <2>2. Queued' = Queued /\ \A m : Running(m)' <=> Running(m)
    BY <2>1 DEF Queued, Running, Drained
  <2>3. \A i \in Index(n) : Held(k, i) => Held(k, i)'
    <3>1. \A x \in Program : x # p => prog'[x] = prog[x]
      BY <1>5, <1>7
    <3>2. grid \subseteq Program
      <4>1. Head(stream).kind \in QueueKernels /\ Head(stream).kind \notin TileKernels /\ stream # <<>>
        BY <1>1, <1>4 DEF Running, Drained, TileKernels
      <4> QED BY <4>1 DEF StreamInv, Grid
    <3> QED BY <1>10, <2>1, <2>2, <3>1, <3>2 DEF Held
  <2>4. GatherClaims'
    <3>1. CASE k = "gather"
      BY <1>2, <1>9, <1>12, <1>14, <2>3, <3>1 DEF GatherClaims
    <3>2. CASE k = "down"
      BY <1>2, <1>5, <2>2, <3>2 DEF GatherClaims
    <3> QED BY <1>4, <3>1, <3>2
  <2>5. DownClaims'
    <3>1. CASE k = "down"
      BY <1>2, <1>9, <1>12, <1>14, <2>3, <3>1 DEF DownClaims
    <3>2. CASE k = "gather"
      <4>1. \A i : ~Held("down", i)
        BY <1>2, <1>4, <3>2
      <4> QED BY <1>5, <1>12, <2>2, <4>1 DEF ExecInv, DownClaims
    <3> QED BY <1>4, <3>1, <3>2
  <2>6. AllGathered' /\ AllDowned'
    BY <1>5, <1>12, <2>2 DEF ExecInv, AllGathered, AllDowned
  <2>7. DOMAIN intermediate' = DOMAIN intermediate
    BY <1>5
  <2> QED BY <1>5, <1>13, <2>2, <2>4, <2>5, <2>6, <2>7, KernelStep
<1>16. CASE grid = {p}
  <2>1. Queued' = Queued \ {k}
    BY <1>3, <1>5, <1>16 DEF ProgramEnds
  <2>2. \A i \in Index(n) : ~Held(k, i)
    BY <1>10, <1>16 DEF Held
  <2>3. PICK S : S = ActiveSlots
    OBVIOUS
  <2>4. PICK P : P = plan
    OBVIOUS
  <2>5. Schedules(rows, P, S)
    BY <1>3, <2>3, <2>4
  <2>6. CASE k = "gather"
    <3>1. \A s \in S, b \in Index(GatherBlocks) : intermediate[s][b] = RightCell(s)
      <4> SUFFICES ASSUME NEW s \in S, NEW b \in Index(GatherBlocks) PROVE intermediate[s][b] = RightCell(s)
        OBVIOUS
      <4>1. GatherBlocks \in Nat \ {0}
        BY ExecutorAssumption
      <4>2. PICK j \in Index(Len(TileQueue(GatherBlocks))) :
              s \in TileRows(TileQueue(GatherBlocks)[j + 1]) /\ TileQueue(GatherBlocks)[j + 1].n = b
        BY <2>5, <4>1, TilesCover
      <4>3. Gathered(j)
        BY <1>2, <1>9, <1>14, <2>2, <2>6, <4>2
      <4> QED BY <4>2, <4>3 DEF Gathered
    <3>2. GatherClaims'
      BY <1>2, <1>5, <2>1, <2>6 DEF GatherClaims
    <3>3. DownClaims'
      <4>1. \A i : ~Held("down", i)
        BY <1>2, <1>4, <2>6
      <4> QED BY <1>2, <1>5, <1>12, <2>1, <4>1 DEF ExecInv, DownClaims
    <3>4. AllGathered'
      BY <1>5, <1>12, <2>3, <3>1 DEF AllGathered
    <3>5. AllDowned'
      BY <1>5, <1>12, <2>1, <2>6 DEF ExecInv, AllDowned
    <3>6. DOMAIN intermediate' = DOMAIN intermediate
      BY <1>5
    <3> QED BY <1>5, <1>13, <2>1, <3>2, <3>3, <3>4, <3>5, <3>6, KernelStep
  <2>7. CASE k = "down"
    <3>1. \A s \in S, b \in Index(DownBlocks) : weighted[s][b] = RightOutput(s)
      <4> SUFFICES ASSUME NEW s \in S, NEW b \in Index(DownBlocks) PROVE weighted[s][b] = RightOutput(s)
        OBVIOUS
      <4>1. DownBlocks \in Nat \ {0}
        BY ExecutorAssumption
      <4>2. PICK j \in Index(Len(TileQueue(DownBlocks))) :
              s \in TileRows(TileQueue(DownBlocks)[j + 1]) /\ TileQueue(DownBlocks)[j + 1].n = b
        BY <2>5, <4>1, TilesCover
      <4>3. Downed(j)
        BY <1>2, <1>9, <1>14, <2>2, <2>7, <4>2
      <4> QED BY <4>2, <4>3 DEF Downed
    <3>2. GatherClaims'
      BY <1>2, <1>5, <2>1, <2>7 DEF GatherClaims
    <3>3. DownClaims'
      BY <1>2, <1>5, <2>1, <2>7 DEF DownClaims
    <3>4. AllGathered'
      BY <2>1, <2>7 DEF AllGathered
    <3>5. AllDowned'
      BY <1>5, <1>12, <2>3, <3>1 DEF AllDowned
    <3>6. DOMAIN intermediate' = DOMAIN intermediate
      BY <1>5
    <3> QED BY <1>5, <1>13, <2>1, <3>2, <3>3, <3>4, <3>5, <3>6, KernelStep
  <2> QED BY <1>4, <2>6, <2>7
<1> QED BY <1>15, <1>16

\* The executor through every step.
LEMMA ExecKept ==
  ASSUME HostInv, StreamInv, DispatchInv, ExecInv, ClaimInv, [Next]_vars
  PROVE  ExecInv'
<1>1. HostInv' /\ StreamInv'
  BY HostKept, StreamKept
<1>2. CASE (\E f \in Routing : StartForward(f)) \/ HostStep
  BY <1>1, <1>2, BeginKeepsExec, QuietHost, FillKeepsExec, QueueKeepsExec, LaunchKeepsExec, MergeKeepsExec
     DEF HostStep
<1>3. CASE (\E t \in grid : TileProgram(t)) \/ DispatchOp \/ CopyOp \/ EventOp \/ MergeOp
  BY <1>1, <1>3, QuietDevice, CopyKeepsExec
<1>4. ASSUME NEW p \in Program, ClaimTile(p) \/ WorkTile(p) \/ ExitKernel(p) PROVE ExecInv'
  <2>1. CASE ClaimTile(p)
    BY <2>1, ClaimKeepsExec
  <2>2. CASE WorkTile(p)
    BY <2>2, GatherKeepsExec, DownKeepsExec DEF WorkTile
  <2>3. CASE ExitKernel(p)
    BY <2>3, ExitKeepsExec
  <2> QED BY <1>4, <2>1, <2>2, <2>3
<1>5. CASE UNCHANGED vars
  <2>1. UNCHANGED <<hpc, asked, batch, flat, rows, plan, host, dev, intermediate, weighted, prog, stream, grid>>
    BY <1>5 DEF vars, dispatchVars, execVars, hostVars
  <2>2. Queued' = Queued /\ Active' = Active /\ \A k : Running(k)' <=> Running(k)
    BY <2>1 DEF Queued, Active, Running, Drained
  <2>3. Exec' = Exec
    BY <2>2 DEF Exec
  <2>4. Busy' = Busy
    BY <2>1, <2>3 DEF Busy
  <2>5. /\ ActiveSlots' = ActiveSlots /\ DescriptorList' = DescriptorList
        /\ TileQueue(GatherBlocks)' = TileQueue(GatherBlocks)
        /\ TileQueue(DownBlocks)' = TileQueue(DownBlocks)
        /\ \A s : RightCell(s)' = RightCell(s) /\ RightOutput(s)' = RightOutput(s)
        /\ \A j : (Gathered(j)' <=> Gathered(j)) /\ (Downed(j)' <=> Downed(j))
    BY <2>1, <2>2, SameData, SameTiles
  <2>6. \A k, j : Held(k, j)' <=> Held(k, j)
    BY <2>1, <2>2 DEF Held
  <2>7. BufferShape'
    BY <2>1, ShapeStays DEF ExecInv
  <2>8. RowsKept' /\ DescriptorsCopied' /\ QueuesCopied'
    <3>1. RowsKept'
      BY <2>1, <2>4 DEF ExecInv, RowsKept
    <3>2. DescriptorsCopied'
      BY <2>1, <2>2, <2>4, <2>5 DEF ExecInv, DescriptorsCopied, Copied
    <3>3. QueuesCopied'
      BY <2>1, <2>2, <2>4, <2>5 DEF ExecInv, QueuesCopied, Copied
    <3> QED BY <3>1, <3>2, <3>3
  <2>9. GatherClaims' /\ DownClaims'
    BY <2>1, <2>2, <2>5, <2>6 DEF ExecInv, GatherClaims, DownClaims
  <2>10. AllGathered' /\ AllDowned'
    BY <2>1, <2>2, <2>5 DEF ExecInv, AllGathered, AllDowned
  <2>11. Exec' # {} => Active' \in 1 .. batch'
    BY <2>1, <2>2, <2>3 DEF ExecInv
  <2> QED BY <2>7, <2>8, <2>9, <2>10, <2>11 DEF ExecInv
<1> QED BY <1>2, <1>3, <1>4, <1>5 DEF Next, DeviceStep

-----------------------------------------------------------------------------
(* The forwards, but for what they put out.                                *)

CoreInv == HostInv /\ StreamInv /\ DispatchInv /\ ExecInv /\ ClaimInv

\* All of it at first.
LEMMA CoreInitially == Init => CoreInv
BY HostInitially, StreamInitially, DispatchInitially, ExecInitially, ClaimInvInit DEF CoreInv

\* All of it through every step.
LEMMA CoreKept == ASSUME CoreInv, [Next]_vars PROVE CoreInv'
<1>1. HostInv' /\ StreamInv'
  BY HostKept, StreamKept DEF CoreInv
<1> QED BY <1>1, DispatchKept, ExecKept, ClaimInvNext DEF CoreInv

\* All of it, always.
LEMMA CoreHolds == Spec => []CoreInv
BY CoreInitially, CoreKept, PTL DEF Spec

\* From the invariant: types.
LEMMA CoreIsTyped == CoreInv => TypeOK
<1> SUFFICES ASSUME CoreInv PROVE TypeOK
  OBVIOUS
<1>1. HostInv /\ StreamInv /\ DispatchInv /\ ExecInv /\ ClaimInv
  BY DEF CoreInv
<1>2. /\ batch = Len(asked) /\ Len(out) = batch /\ raised \subseteq 1 .. batch
      /\ hpc \in {"idle", "dispatch", "schedule", "rows", "fill", "queue", "launch", "merge"}
      /\ event \in {"none", "pending", "done"}
  BY <1>1 DEF HostInv
<1>3. grid \subseteq Program \cup Nat
  <2>1. grid \subseteq Grid(stream)
    BY <1>1 DEF StreamInv
  <2>2. CASE stream # <<>> /\ Head(stream).kind \in TileKernels
    <3>1. PICK k \in TileKernels : Head(stream).kind = k
      BY <2>2
    <3>2. k \in DispatchKinds /\ Running(k)
      BY <2>2, <3>1 DEF DispatchKinds, Running, Drained
    <3>3. grid \subseteq Index(NumTiles(flat))
      BY <1>1, <3>1, <3>2, DispatchRuns
    <3>4. batch # 0
      BY <1>1, <2>2 DEF HostInv
    <3>5. PICK n \in Nat : flat \in [Index(n) -> Expert]
      BY <1>1, <3>4, RoutedNow, RoutedIs
    <3>6. NumTiles(flat) \in Nat
      BY <3>5, TilesAre
    <3>7. \A m \in Nat : Index(m) \subseteq Nat
      BY DEF Index
    <3> QED BY <3>3, <3>6, <3>7
  <2>3. CASE stream # <<>> /\ Head(stream).kind \notin TileKernels
    BY <2>1, <2>3 DEF Grid
  <2>4. CASE stream = <<>>
    BY <2>1, <2>4 DEF Grid
  <2> QED BY <2>2, <2>3, <2>4
<1>4. prog \in [Program -> Nat \cup {Idle}]
  <2>1. prog = [p \in Program |-> prog[p]]
    BY <1>1 DEF ExecInv, BufferShape
  <2>2. \A p \in Program : prog[p] \in Nat \cup {Idle}
    BY <1>1 DEF ClaimInv, ClaimOpen
  <2> QED BY <2>1, <2>2
<1>5. plan.counts \in [Expert -> Nat] /\ plan.offsets \in [0 .. NumExperts -> Nat]
  BY <1>1 DEF DispatchInv, DispatchShape, PlanShape
<1>6. PICK m \in Nat : /\ intermediate \in [Index(m) -> [Index(GatherBlocks) -> Cell]]
                       /\ weighted = [s \in Index(m) |-> [b \in Index(DownBlocks) |-> weighted[s][b]]]
  BY <1>1 DEF ExecInv, BufferShape
<1>7. DOMAIN intermediate = Index(m) /\ DOMAIN weighted = Index(m)
  BY <1>6
<1>8. \A s \in DOMAIN intermediate : intermediate[s] \in [Index(GatherBlocks) -> Cell]
  BY <1>6
<1> QED BY <1>2, <1>3, <1>4, <1>5, <1>7, <1>8 DEF TypeOK

\* From the invariant: a finished plan is the stable order.
LEMMA CoreIsStable == CoreInv => StableLayout
<1> SUFFICES ASSUME CoreInv, PlanReady
             PROVE  LET place == StablePlace(flat) IN
                    /\ plan.counts = Histogram(flat)
                    /\ \A i \in DOMAIN flat :
                         plan.inverse[i] = place[i] /\ plan.slots[place[i]] = Assignment(i)
  BY DEF StableLayout
<1>1. HostInv /\ StreamInv /\ DispatchInv
  BY DEF CoreInv
<1>2. hpc # "dispatch" /\ batch # 0
  <2>1. asked \in Seq(Routing) /\ batch = Len(asked) /\ asked # <<>>
    BY <1>1 DEF HostInv, PlanReady
  <2> QED BY <2>1 DEF PlanReady
<1>3. Dispatching = {}
  <2>1. DOMAIN stream = 1 .. Len(stream)
    BY <1>1 DEF StreamInv, Ranked, IsSequence
  <2> QED BY <2>1 DEF PlanReady, Dispatching, Queued, KindsOf
<1>4. LaidOut(plan, flat, batch)
  BY <1>1, <1>2, <1>3 DEF DispatchInv, HostInv
<1>5. \A i \in DOMAIN flat : Placed(plan, flat, batch, i)
  BY <1>4 DEF LaidOut
<1> QED BY <1>4, <1>5 DEF LaidOut, Placed, Assignment

\* From the invariant: tiles are packed apart.
LEMMA CoreIsDisjoint == CoreInv => TilesDisjoint
<1> SUFFICES ASSUME CoreInv, Running("pack")
             PROVE  \A t \in Index(Head(stream).size) :
                      LET places == Range(TileDestinations(t)) IN
                      /\ places \subseteq DOMAIN flat
                      /\ Cardinality(places) = Cardinality(Sources(t))
                      /\ \A u \in Index(t) : places \cap Range(TileDestinations(u)) = {}
  BY DEF TilesDisjoint
<1>1. HostInv /\ StreamInv /\ DispatchInv
  BY DEF CoreInv
<1>2. "pack" \in DispatchKinds /\ "pack" # "empty"
  BY DEF DispatchKinds, TileKernels
<1>3. Head(stream).size = NumTiles(flat)
  BY <1>1, <1>2, DispatchRuns
<1>4. Reserved /\ Starting({})
  BY <1>1 DEF DispatchInv
<1>5. batch # 0
  BY <1>1 DEF HostInv, Running, Drained
<1>6. Routed(flat)
  BY <1>1, <1>5, RoutedNow
<1> QED BY <1>3, <1>4, <1>6, DisjointTiles

\* From the invariant: the rows cover the slots.
LEMMA CoreIsCovered == CoreInv => ScheduleCovers
<1> SUFFICES ASSUME CoreInv, hpc = "fill"
             PROVE  /\ \A s \in DOMAIN flat :
                         \E k \in DOMAIN rows : s \in Slots(rows[k]) /\ plan.slots[s].expert = rows[k].expert
                    /\ \A k \in DOMAIN rows :
                         /\ Slots(rows[k]) \subseteq DOMAIN flat
                         /\ Cardinality(Slots(rows[k])) = rows[k].count
                         /\ \A j \in 1 .. k - 1 : Slots(rows[j]) \cap Slots(rows[k]) = {}
  BY DEF ScheduleCovers
<1>1. HostInv /\ StreamInv /\ DispatchInv /\ ExecInv
  BY DEF CoreInv
<1>2. Schedules(rows, plan, ActiveSlots) /\ flat = asked[Active] /\ Routed(flat)
  BY <1>1, BusyRows, BusyForward
<1>3. DOMAIN flat = ActiveSlots
  <2>1. PICK n \in Nat : Size(flat) = n /\ flat \in [Index(n) -> Expert]
    BY <1>2 DEF Routed
  <2> QED BY <1>2, <2>1 DEF ActiveSlots
<1>4. PICK L \in Nat : L = Len(rows) /\ DOMAIN rows = 1 .. L
  BY <1>2 DEF Schedules
<1>5. \A s \in DOMAIN flat :
        \E k \in DOMAIN rows : s \in Slots(rows[k]) /\ plan.slots[s].expert = rows[k].expert
  BY <1>2, <1>3, <1>4 DEF Schedules
<1>6. ASSUME NEW k \in 1 .. L
      PROVE  /\ Slots(rows[k]) \subseteq DOMAIN flat
             /\ Cardinality(Slots(rows[k])) = rows[k].count
             /\ \A j \in 1 .. k - 1 : Slots(rows[j]) \cap Slots(rows[k]) = {}
  <2>1. /\ rows[k].start \in Nat /\ rows[k].count \in Nat /\ rows[k].end = rows[k].start + rows[k].count
        /\ Slots(rows[k]) \subseteq DOMAIN flat
    BY <1>2, <1>3, <1>4 DEF Schedules
  <2>2. Cardinality(Slots(rows[k])) = rows[k].count
    <3>1. PICK a \in Nat, c \in Nat : a = rows[k].start /\ c = rows[k].count
      BY <2>1
    <3>2. PICK z \in Int : z = (a + c) - 1
      OBVIOUS
    <3>3. Slots(rows[k]) = a .. z
      BY <2>1, <3>1, <3>2 DEF Slots
    <3>4. Cardinality(a .. z) = IF a > z THEN 0 ELSE z - a + 1
      BY FS_Interval
    <3>5. (IF a > z THEN 0 ELSE z - a + 1) = c
      BY <3>2
    <3> QED BY <3>1, <3>3, <3>4, <3>5
  <2>3. ASSUME NEW j \in 1 .. k - 1 PROVE Slots(rows[j]) \cap Slots(rows[k]) = {}
    <3>1. j \in 1 .. L /\ j # k
      BY <1>4
    <3>2. rows[j].expert # rows[k].expert
      BY <1>2, <1>4, <3>1 DEF Schedules
    <3>3. /\ \A s \in Slots(rows[j]) : plan.slots[s].expert = rows[j].expert
          /\ \A s \in Slots(rows[k]) : plan.slots[s].expert = rows[k].expert
      BY <1>2, <1>4, <3>1 DEF Schedules
    <3> QED BY <3>2, <3>3
  <2> QED BY <2>1, <2>2, <2>3
<1> QED BY <1>4, <1>5, <1>6

\* From the invariant: what the second kernel reads is written.
LEMMA CoreIsOrdered == CoreInv => StagesInOrder
<1> SUFFICES ASSUME CoreInv, Running("down"),
                    NEW k \in DOMAIN dev.down, NEW b \in Index(GatherBlocks), k <= Head(stream).size
             PROVE  LET d == dev.descriptors[dev.down[k].descriptor] IN
                    \A s \in d.offset .. d.offset + d.m - 1 :
                      intermediate[s][b] = [input |-> Head(stream).batch, expert |-> d.expert,
                                            token |-> plan.slots[s].token]
  BY DEF StagesInOrder
<1>1. HostInv /\ StreamInv /\ DispatchInv /\ ExecInv
  BY DEF CoreInv
<1>2. "down" \in QueueKernels /\ "down" \in ExecKinds
  BY DEF QueueKernels, ExecKinds
<1>3. /\ "gather" \notin Queued
      /\ Staged(dev.descriptors, DescriptorList)
      /\ Staged(dev.down, TileQueue(DownBlocks))
      /\ Head(stream).size = Len(TileQueue(DownBlocks))
  BY <1>1, <1>2, KernelRuns
<1>4. /\ "down" \in Queued /\ Head(stream).batch = Active /\ Active \in 1 .. batch
      /\ Schedules(rows, plan, ActiveSlots) /\ Counted(rows)
  BY <1>1, <1>2, ExecRuns
<1>5. PICK q : q = TileQueue(DownBlocks)
  OBVIOUS
<1>6. /\ Len(q) \in Nat
      /\ \A i \in 1 .. Len(q) : q[i].descriptor \in 1 .. Len(rows)
  BY <1>4, <1>5, TileQueueIs, ExecutorAssumption
<1>7. k \in 1 .. Len(q)
  <2>1. dev.down \in Seq(Entry)
    BY <1>1 DEF ExecInv, BufferShape
  <2>2. k \in Nat \ {0}
    BY <2>1
  <2> QED BY <1>3, <1>5, <1>6, <2>2
<1>8. dev.down[k] = q[k]
  BY <1>3, <1>5, <1>7 DEF Staged
<1>9. PICK i \in 1 .. Len(rows) : i = dev.down[k].descriptor
  BY <1>6, <1>7, <1>8
<1>10. Active \in Nat
  <2>1. batch \in Nat
    BY <1>1 DEF HostInv
  <2> QED BY <1>4, <2>1
<1>11. Len(DescriptorList) = Len(rows)
  BY <1>4, <1>10, ListTyped
<1>12. dev.descriptors[i] = [expert |-> rows[i].expert, offset |-> rows[i].start,
                             m |-> rows[i].count, input |-> Active]
  BY <1>3, <1>11 DEF Staged, DescriptorList
<1>13. /\ rows[i].start \in Nat /\ rows[i].count \in Nat /\ rows[i].end = rows[i].start + rows[i].count
       /\ Slots(rows[i]) \subseteq ActiveSlots
       /\ \A s \in Slots(rows[i]) : plan.slots[s].expert = rows[i].expert
  BY <1>4 DEF Schedules
<1>14. ASSUME NEW s \in rows[i].start .. rows[i].start + rows[i].count - 1
       PROVE  intermediate[s][b] = [input |-> Active, expert |-> rows[i].expert, token |-> plan.slots[s].token]
  <2>1. s \in Slots(rows[i])
    BY <1>13 DEF Slots
  <2>2. intermediate[s][b] = RightCell(s)
    BY <1>1, <1>3, <1>4, <1>13, <2>1 DEF ExecInv, AllGathered
  <2> QED BY <1>13, <2>1, <2>2 DEF RightCell
<1>15. PICK d : d = dev.descriptors[dev.down[k].descriptor]
  OBVIOUS
<1>16. d.expert = rows[i].expert /\ d.offset = rows[i].start /\ d.m = rows[i].count
  BY <1>9, <1>12, <1>15
<1> QED BY <1>4, <1>14, <1>15, <1>16

-----------------------------------------------------------------------------
(* What the forwards put out.                                              *)

Result(f, k, i) == Whole([input |-> k, expert |-> f[i], token |-> i \div TopK, weight |-> <<k, i>>])

\* What the experts of D give token t of forward k.
Results(f, k, t, D) == {Result(f, k, i) : i \in {i \in DOMAIN f : i \div TopK = t /\ f[i] \in D}}

\* The results of two sets of experts add up.
LEMMA ResultsAre ==
  /\ \A f, k, t, D, x : x \in Results(f, k, t, D) <=>
        \E i \in DOMAIN f : i \div TopK = t /\ f[i] \in D /\ x = Result(f, k, i)
  /\ \A f, k, t : Results(f, k, t, {}) = {}
  /\ \A f, k, t, D, E : Results(f, k, t, D \cup E) = Results(f, k, t, D) \cup Results(f, k, t, E)
<1>1. \A f, k, t, D, x : x \in Results(f, k, t, D) <=>
        \E i \in DOMAIN f : i \div TopK = t /\ f[i] \in D /\ x = Result(f, k, i)
  BY DEF Results
<1>2. \A f, k, t : Results(f, k, t, {}) = {}
  BY <1>1
<1>3. ASSUME NEW f, NEW k, NEW t, NEW D, NEW E
      PROVE  Results(f, k, t, D \cup E) = Results(f, k, t, D) \cup Results(f, k, t, E)
  BY <1>1
<1> QED BY <1>1, <1>2, <1>3

\* What is expected of a forward is the results of all experts.
LEMMA ExpectedIs ==
  ASSUME NEW f, Routed(f), NEW k
  PROVE  Expected(f, k) = [t \in Index(Tokens(f)) |-> Results(f, k, t, Expert)]
<1>1. \A i \in DOMAIN f : f[i] \in Expert
  BY DEF Routed
<1>2. ASSUME NEW t
      PROVE  {Whole([input |-> k, expert |-> f[i], token |-> t, weight |-> <<k, i>>]) :
                i \in {i \in DOMAIN f : i \div TopK = t}} = Results(f, k, t, Expert)
  <2> DEFINE W(i) == Whole([input |-> k, expert |-> f[i], token |-> t, weight |-> <<k, i>>])
  <2>1. \A i \in DOMAIN f : i \div TopK = t => W(i) = Result(f, k, i)
    BY DEF Result
  <2> HIDE DEF W
  <2>2. \A x : x \in {W(i) : i \in {i \in DOMAIN f : i \div TopK = t}} <=> x \in Results(f, k, t, Expert)
    BY <1>1, <2>1, ResultsAre
  <2>3. {W(i) : i \in {i \in DOMAIN f : i \div TopK = t}} = Results(f, k, t, Expert)
    BY <2>2
  <2> QED BY <2>3 DEF W
<1> QED BY <1>2 DEF Expected

\* What slot s of forward k's plan comes to.
SlotOutput(p, k, s) == Whole([input |-> k, expert |-> p.slots[s].expert, token |-> p.slots[s].token,
                              weight |-> p.slots[s].weight])

\* Each slot comes to the result of the assignment it holds.
LEMMA SlotGives ==
  ASSUME NEW n \in Nat, NEW f \in [Index(n) -> Expert], NEW p, NEW b, NEW i \in Index(n),
         Placed(p, f, b, i), NEW s, StablePlace(f)[i] = s
  PROVE  /\ SlotOutput(p, b, s) = Result(f, b, i)
         /\ p.slots[s].token = i \div TopK /\ p.slots[s].expert = f[i]
<1>1. p.slots[s] = [source |-> i, expert |-> f[i], token |-> i \div TopK, weight |-> <<b, i>>]
  BY DEF Placed
<1>2. /\ p.slots[s].token = i \div TopK /\ p.slots[s].expert = f[i] /\ p.slots[s].weight = <<b, i>>
  BY <1>1
<1> QED BY <1>2 DEF SlotOutput, Result

\* The rows of one expert, run.
LEMMA RowGives ==
  ASSUME NEW f, Routed(f), NEW b, LaidOut(plan, f, b), NEW row, RowOf(row, f), NEW t
  PROVE  RowOutputs(row, t, b) = Results(f, b, t, {row.expert})
<1>1. PICK n \in Nat : f \in [Index(n) -> Expert]
  BY DEF Routed
<1>2. PICK p : p = plan
  OBVIOUS
<1>3. PICK e \in Expert : e = row.expert
  BY DEF RowOf
<1>4. /\ row.start = Cardinality(Below(f, e)) /\ row.end = Cardinality(Below(f, e + 1))
      /\ Cardinality(Below(f, e)) \in Nat /\ Cardinality(Below(f, e + 1)) \in Nat
      /\ Cardinality(Below(f, e + 1)) <= n
  BY <1>1, <1>3, BelowNext DEF RowOf
<1>5. PICK a \in Nat, z \in Nat : a = row.start /\ z = row.end /\ z <= n
  BY <1>4
<1>6. \A s : s \in Slots(row) <=> s \in Nat /\ a <= s /\ s < z
  BY <1>5 DEF Slots
<1>7. \A i \in Index(n) : StablePlace(f)[i] \in Index(n)
  BY <1>1, PlacesAre
<1>8. \A i \in Index(n) : StablePlace(f)[i] \in Slots(row) <=> f[i] = e
  <2> SUFFICES ASSUME NEW i \in Index(n) PROVE StablePlace(f)[i] \in Slots(row) <=> f[i] = e
    OBVIOUS
  <2>1. StablePlace(f)[i] \in Nat
    BY <1>7 DEF Index
  <2>2. ASSUME StablePlace(f)[i] \in Slots(row) PROVE f[i] = e
    BY <1>1, <1>4, <1>5, <1>6, <2>2, SlotExpert
  <2>3. ASSUME f[i] = e PROVE StablePlace(f)[i] \in Slots(row)
    <3>1. Cardinality(Below(f, f[i])) <= StablePlace(f)[i] /\ StablePlace(f)[i] < Cardinality(Below(f, f[i] + 1))
      BY <1>1, PlacesAre
    <3> QED BY <1>4, <1>5, <1>6, <2>1, <2>3, <3>1
  <2> QED BY <2>2, <2>3
<1>9. \A i \in Index(n) : /\ SlotOutput(p, b, StablePlace(f)[i]) = Result(f, b, i)
                          /\ p.slots[StablePlace(f)[i]].token = i \div TopK
                          /\ p.slots[StablePlace(f)[i]].expert = f[i]
  <2> SUFFICES ASSUME NEW i \in Index(n)
               PROVE  /\ SlotOutput(p, b, StablePlace(f)[i]) = Result(f, b, i)
                      /\ p.slots[StablePlace(f)[i]].token = i \div TopK
                      /\ p.slots[StablePlace(f)[i]].expert = f[i]
    OBVIOUS
  <2>1. Placed(p, f, b, i)
    BY <1>1, <1>2 DEF LaidOut
  <2> QED BY <1>1, <2>1, SlotGives
<1>10. \A s \in Slots(row) : \E i \in Index(n) : StablePlace(f)[i] = s
  <2>1. \A s \in Slots(row) : s \in Index(n)
    BY <1>5, <1>6 DEF Index
  <2> QED BY <1>1, <2>1, PlacesAre
<1>11. \A x : x \in RowOutputs(row, t, b) <=>
          \E s \in Slots(row) : p.slots[s].token = t /\ x = SlotOutput(p, b, s)
  <2>1. \A s \in Slots(row) : p.slots[s].expert = e
    BY <1>8, <1>9, <1>10
  <2>2. \A s \in Slots(row) :
          p.slots[s].token = t =>
            Whole([input |-> b, expert |-> e, token |-> t, weight |-> p.slots[s].weight]) = SlotOutput(p, b, s)
    BY <2>1 DEF SlotOutput
  <2>3. RowOutputs(row, t, b) =
          {Whole([input |-> b, expert |-> e, token |-> t, weight |-> p.slots[s].weight]) :
             s \in {s \in Slots(row) : p.slots[s].token = t}}
    BY <1>2, <1>3 DEF RowOutputs
  <2> QED BY <2>2, <2>3
<1>12. DOMAIN f = Index(n)
  BY <1>1
<1>13. \A x : x \in RowOutputs(row, t, b) <=>
          \E i \in Index(n) : i \div TopK = t /\ f[i] = e /\ x = Result(f, b, i)
  BY <1>8, <1>9, <1>10, <1>11
<1>14. \A i : f[i] \in {row.expert} <=> f[i] = e
  BY <1>3
<1>15. \A x : x \in Results(f, b, t, {row.expert}) <=>
          \E i \in DOMAIN f : i \div TopK = t /\ f[i] \in {row.expert} /\ x = Result(f, b, i)
  BY ResultsAre
<1>16. \A x : x \in RowOutputs(row, t, b) <=> x \in Results(f, b, t, {row.expert})
  BY <1>12, <1>13, <1>14, <1>15
<1> QED BY <1>16

\* The weighted outputs of a forward's slots, merged.
LEMMA MergeGives ==
  ASSUME NEW f, Routed(f), NEW b, LaidOut(plan, f, b),
         \A s \in Index(Size(f)) : weighted[s] = SlotOutput(plan, b, s)
  PROVE  MergedOutputs(Tokens(f)) = Expected(f, b)
<1>1. PICK n \in Nat : Size(f) = n /\ n % TopK = 0 /\ f \in [Index(n) -> Expert]
  BY DEF Routed
<1>2. PICK p : p = plan
  OBVIOUS
<1>3. PICK m \in Nat : m = Tokens(f) /\ m * TopK = n
  <2>1. TopK \in Nat \ {0}
    BY DispatcherAssumption
  <2>2. n \div TopK \in Nat /\ n = (n \div TopK) * TopK + (n % TopK)
    BY <2>1, Divides
  <2>3. Tokens(f) = n \div TopK
    BY <1>1 DEF Tokens
  <2>4. (n \div TopK) * TopK \in Nat
    BY <2>1, <2>2
  <2>5. n = (n \div TopK) * TopK
    BY <1>1, <2>2, <2>4
  <2> QED BY <2>2, <2>3, <2>5
<1>4. \A i \in Index(n) : /\ StablePlace(f)[i] \in Index(n)
                          /\ SlotOutput(p, b, StablePlace(f)[i]) = Result(f, b, i)
                          /\ p.slots[StablePlace(f)[i]].token = i \div TopK
  <2> SUFFICES ASSUME NEW i \in Index(n)
               PROVE  /\ StablePlace(f)[i] \in Index(n)
                      /\ SlotOutput(p, b, StablePlace(f)[i]) = Result(f, b, i)
                      /\ p.slots[StablePlace(f)[i]].token = i \div TopK
    OBVIOUS
  <2>1. Placed(p, f, b, i)
    BY <1>1, <1>2 DEF LaidOut
  <2>2. StablePlace(f)[i] \in Index(n)
    BY <1>1, PlacesAre
  <2> QED BY <1>1, <2>1, <2>2, SlotGives
<1>5. \A s \in Index(n) : \E i \in Index(n) : StablePlace(f)[i] = s
  BY <1>1, PlacesAre
<1>6. DOMAIN f = Index(n) /\ \A i \in Index(n) : f[i] \in Expert
  BY <1>1
<1>7. \A s \in Index(n) : weighted[s] = SlotOutput(p, b, s)
  BY <1>1, <1>2
<1>8. ASSUME NEW t
      PROVE  {weighted[s] : s \in {s \in Index(n) : p.slots[s].token = t}} = Results(f, b, t, Expert)
  <2>1. \A x : x \in {weighted[s] : s \in {s \in Index(n) : p.slots[s].token = t}} <=>
          \E i \in Index(n) : i \div TopK = t /\ x = Result(f, b, i)
    BY <1>4, <1>5, <1>7
  <2>2. \A x : x \in Results(f, b, t, Expert) <=>
          \E i \in Index(n) : i \div TopK = t /\ x = Result(f, b, i)
    BY <1>6, ResultsAre
  <2> QED BY <2>1, <2>2
<1>9. MergedOutputs(Tokens(f)) =
        [t \in Index(Tokens(f)) |-> {weighted[s] : s \in {s \in Index(n) : p.slots[s].token = t}}]
  BY <1>2, <1>3 DEF MergedOutputs
<1> QED BY <1>8, <1>9, ExpectedIs

-----------------------------------------------------------------------------
(* The output under construction, and the forwards that are settled.       *)

Planned(R) == {R[k].expert : k \in 1 .. Len(R)}

RowsInv ==
  /\ hpc \in {"dispatch", "schedule"} => out[batch] = [t \in Index(Tokens(flat)) |-> {}]
  /\ hpc = "rows" =>
       /\ IsSequence(rows)
       /\ \A k \in 1 .. Len(rows) : RowOf(rows[k], flat)
       /\ \A j, k \in 1 .. Len(rows) : rows[j].expert = rows[k].expert => j = k
       /\ out[batch] = [t \in Index(Tokens(flat)) |-> Results(flat, batch, t, Expert \ Planned(rows))]

ForwardInv == CoreInv /\ RowsInv /\ OutputsRight

\* A forward is settled when the host is through with it and the executor's
\* part of the stream is another's.
Finished(k) ==
  /\ k \in 1 .. batch /\ k \notin raised /\ (k < batch \/ hpc = "idle")
  /\ Exec # {} => Active # k

\* The two say the same.
LEMMA SettledIs ==
  /\ HostInv /\ StreamInv => \A k : Settled(k) <=> Finished(k)
  /\ HostInv' /\ StreamInv' => \A k : Settled(k)' <=> Finished(k)'
<1>1. ASSUME HostInv, StreamInv, NEW k PROVE Settled(k) <=> Finished(k)
  <2>1. DOMAIN stream = 1 .. Len(stream) /\ DOMAIN asked = 1 .. batch /\ batch \in Nat
    BY <1>1 DEF StreamInv, Ranked, IsSequence, HostInv
  <2>2. \A i \in 1 .. Len(stream) : stream[i].kind \in Queued /\ stream[i].batch = OpBatch[stream[i].kind]
    BY <1>1 DEF StreamInv, Described, Queued, KindsOf
  <2>3. \A m \in Queued : \E i \in 1 .. Len(stream) : stream[i].kind = m
    BY DEF Queued, KindsOf
  <2>4. \A m \in ExecKinds : OpBatch[m] = Active
    BY ExecSizes
  <2>5. \A m \in DispatchKinds : m \in Kinds /\ OpBatch[m] = batch
    BY DEF OpBatch, Kinds
  <2>6. Queued \subseteq ExecKinds \cup DispatchKinds
    BY <1>1, QueuedIs DEF StreamInv, Kinds
  <2>7. Queued \cap DispatchKinds # {} => hpc = "schedule"
    BY <1>1 DEF StreamInv, Phase, Dispatching
  <2>8. ASSUME Settled(k) PROVE Finished(k)
    <3>1. ASSUME Exec # {} PROVE Active # k
      <4>1. PICK m \in Exec : TRUE
        BY <3>1
      <4>2. PICK i \in 1 .. Len(stream) : stream[i].kind = m
        BY <2>3, <4>1 DEF Exec
      <4>3. stream[i].batch = Active
        BY <2>2, <2>4, <4>1, <4>2 DEF Exec
      <4> QED BY <2>1, <2>8, <4>3 DEF Settled
    <3> QED BY <2>1, <2>8, <3>1 DEF Settled, Finished
  <2>9. ASSUME Finished(k) PROVE Settled(k)
    <3>1. ASSUME NEW i \in 1 .. Len(stream) PROVE stream[i].batch # k
      <4>1. CASE stream[i].kind \in ExecKinds
        BY <2>2, <2>4, <2>9, <4>1 DEF Finished, Exec
      <4>2. CASE stream[i].kind \in DispatchKinds
        <5>1. stream[i].batch = batch /\ hpc = "schedule"
          BY <2>2, <2>5, <2>7, <4>2
        <5>2. k < batch
          BY <2>9, <5>1 DEF Finished
        <5> QED BY <2>1, <2>9, <5>1, <5>2 DEF Finished
      <4> QED BY <2>2, <2>6, <4>1, <4>2
    <3> QED BY <2>1, <2>9, <3>1 DEF Settled, Finished
  <2> QED BY <2>8, <2>9
<1>2. ASSUME HostInv', StreamInv', NEW k PROVE Settled(k)' <=> Finished(k)'
  <2>1. DOMAIN stream' = 1 .. Len(stream') /\ DOMAIN asked' = 1 .. batch' /\ batch' \in Nat
    BY <1>2 DEF StreamInv, Ranked, IsSequence, HostInv
  <2>2. \A i \in 1 .. Len(stream') : stream'[i].kind \in Queued' /\ stream'[i].batch = OpBatch'[stream'[i].kind]
    BY <1>2 DEF StreamInv, Described, Queued, KindsOf
  <2>3. \A m \in Queued' : \E i \in 1 .. Len(stream') : stream'[i].kind = m
    BY DEF Queued, KindsOf
  <2>4. \A m \in ExecKinds : OpBatch'[m] = Active'
    <3>1. ExecKinds \subseteq Kinds /\ \A m \in ExecKinds : m \notin DispatchKinds
      BY KindNames, KindsRanked
    <3> QED BY <3>1 DEF OpBatch
  <2>5. \A m \in DispatchKinds : m \in Kinds /\ OpBatch'[m] = batch'
    BY DEF OpBatch, Kinds
  <2>6. Queued' \subseteq ExecKinds \cup DispatchKinds
    <3>1. \A i \in 1 .. Len(stream') : stream'[i].kind \in Kinds
      BY <1>2 DEF StreamInv, Ranked
    <3> QED BY <2>3, <3>1 DEF Kinds
  <2>7. Queued' \cap DispatchKinds # {} => hpc' = "schedule"
    BY <1>2 DEF StreamInv, Phase, Dispatching
  <2>8. ASSUME Settled(k)' PROVE Finished(k)'
    <3>1. ASSUME Exec' # {} PROVE Active' # k
      <4>1. PICK m \in Exec' : TRUE
        BY <3>1
      <4>2. PICK i \in 1 .. Len(stream') : stream'[i].kind = m
        BY <2>3, <4>1 DEF Exec
      <4>3. stream'[i].batch = Active'
        BY <2>2, <2>4, <4>1, <4>2 DEF Exec
      <4> QED BY <2>1, <2>8, <4>3 DEF Settled
    <3> QED BY <2>1, <2>8, <3>1 DEF Settled, Finished
  <2>9. ASSUME Finished(k)' PROVE Settled(k)'
    <3>1. ASSUME NEW i \in 1 .. Len(stream') PROVE stream'[i].batch # k
      <4>1. CASE stream'[i].kind \in ExecKinds
        BY <2>2, <2>4, <2>9, <4>1 DEF Finished, Exec
      <4>2. CASE stream'[i].kind \in DispatchKinds
        <5>1. stream'[i].batch = batch' /\ hpc' = "schedule"
          BY <2>2, <2>5, <2>7, <4>2
        <5>2. k < batch'
          BY <2>9, <5>1 DEF Finished
        <5> QED BY <2>1, <2>9, <5>1, <5>2 DEF Finished
      <4> QED BY <2>2, <2>6, <4>1, <4>2
    <3> QED BY <2>1, <2>9, <3>1 DEF Settled, Finished
  <2> QED BY <2>8, <2>9
<1> QED BY <1>1, <1>2

\* No forward, no output.
LEMMA OutputsInitially == Init => RowsInv /\ OutputsRight
<1> SUFFICES ASSUME Init PROVE RowsInv /\ OutputsRight
  OBVIOUS
<1>1. hpc = "idle" /\ DOMAIN asked = {}
  BY DEF Init
<1> QED BY <1>1 DEF RowsInv, OutputsRight

\* What a step that leaves the outputs alone has to show.
LEMMA OutputsStay ==
  ASSUME HostInv, StreamInv, HostInv', StreamInv', OutputsRight, UNCHANGED <<out, asked>>,
         \A k \in 1 .. batch : Finished(k)' => Finished(k) \/ out[k] = Expected(asked[k], k)
  PROVE  OutputsRight'
<1>1. \A k : (Settled(k) <=> Finished(k)) /\ (Settled(k)' <=> Finished(k)')
  BY SettledIs
<1>2. DOMAIN asked = 1 .. batch
  BY DEF HostInv
<1> QED BY <1>1, <1>2 DEF OutputsRight

\* A forward begins, with nothing put out.
LEMMA StartOutputs ==
  ASSUME HostInv, StreamInv, HostInv', StreamInv', OutputsRight, NEW f \in Routing, StartForward(f)
  PROVE  RowsInv' /\ OutputsRight'
<1>1. /\ hpc = "idle" /\ hpc' = "dispatch" /\ batch' = batch + 1 /\ flat' = f
      /\ asked' = Append(asked, f) /\ out' = Append(out, [t \in Index(Tokens(f)) |-> {}])
      /\ raised' = raised
  BY DEF StartForward
<1>2. Exec' = Exec /\ Active' = batch /\ Active = batch
  BY StartKeepsStream DEF Exec
<1>3. batch \in Nat /\ IsSequence(out) /\ Len(out) = batch /\ IsSequence(asked) /\ Len(asked) = batch
  <2>1. asked \in Seq(Routing) /\ batch = Len(asked)
    BY DEF HostInv
  <2>2. IsSequence(asked) /\ Len(asked) \in Nat
    BY <2>1, SequenceOfItsRange
  <2> QED BY <2>1, <2>2 DEF HostInv
<1>4. PICK z : z = [t \in Index(Tokens(f)) |-> {}]
  OBVIOUS
<1>5. /\ out'[batch + 1] = z /\ \A k \in 1 .. batch : out'[k] = out[k] /\ asked'[k] = asked[k]
  <2>1. out \in Seq(Range(out)) /\ asked \in Seq(Range(asked))
    BY <1>3 DEF IsSequence
  <2>2. out' = Append(out, z)
    BY <1>1, <1>4
  <2>3. out'[batch + 1] = z /\ \A k \in 1 .. batch : out'[k] = out[k]
    BY <1>3, <2>1, <2>2, AppendIs
  <2>4. \A k \in 1 .. batch : asked'[k] = asked[k]
    BY <1>1, <1>3, <2>1, AppendIs
  <2> QED BY <2>3, <2>4
<1>6. RowsInv'
  BY <1>1, <1>4, <1>5 DEF RowsInv
<1>7. \A k : (Settled(k) <=> Finished(k)) /\ (Settled(k)' <=> Finished(k)')
  BY SettledIs
<1>8. ASSUME NEW k, Finished(k)' PROVE k \in 1 .. batch /\ Finished(k)
  <2>1. k \in 1 .. batch + 1 /\ k < batch + 1 /\ k \notin raised /\ (Exec # {} => batch # k)
    BY <1>1, <1>2, <1>8 DEF Finished
  <2>2. k \in 1 .. batch
    BY <1>3, <2>1
  <2> QED BY <1>1, <1>2, <2>1, <2>2 DEF Finished
<1>9. DOMAIN asked = 1 .. batch
  BY DEF HostInv
<1>10. ASSUME NEW k, Settled(k)' PROVE out'[k] = Expected(asked'[k], k)
  <2>1. k \in 1 .. batch /\ Settled(k)
    BY <1>7, <1>8, <1>10
  <2>2. out[k] = Expected(asked[k], k)
    BY <1>9, <2>1 DEF OutputsRight
  <2> QED BY <1>5, <2>1, <2>2
<1> QED BY <1>6, <1>10 DEF OutputsRight

\* The dispatch, the queues and the launches put nothing out.
LEMMA QuietOutputs ==
  ASSUME HostInv, StreamInv, HostInv', StreamInv', OutputsRight, RowsInv,
         DispatchHost \/ DispatchTiled \/ Fill \/ Queue \/ Launch \/ Merge
  PROVE  RowsInv' /\ OutputsRight'
<1>1. UNCHANGED <<out, asked, raised, batch, flat>>
  BY DEF DispatchHost, DispatchTiled, Fill, FillDescriptors, Queue, BuildQueues, Launch, Merge, dispatchVars,
         DispatchOnHost
<1>2. /\ hpc # "idle"
      /\ hpc' \in {"schedule", "queue", "launch", "merge", "idle"} /\ (hpc' = "schedule" => hpc = "dispatch")
      /\ hpc' = "idle" => Merge
  BY DEF DispatchHost, DispatchTiled, Fill, Queue, Launch, Merge
<1>3. RowsInv'
  <2>1. hpc' # "rows" /\ hpc' # "dispatch"
    BY <1>2
  <2>2. CASE hpc' = "schedule"
    BY <1>1, <1>2, <2>1, <2>2 DEF RowsInv
  <2>3. CASE hpc' # "schedule"
    BY <2>1, <2>3 DEF RowsInv
  <2> QED BY <2>2, <2>3
<1>4. /\ Exec # {} => Exec' # {} /\ Active' = Active
      /\ hpc' = "idle" => Exec' # {} /\ Active' = batch
  <2>1. CASE DispatchHost
    <3>1. Exec = {}
      BY <2>1, IdleStepsKeepStream DEF Exec
    <3> QED BY <2>1, <3>1 DEF DispatchHost
  <2>2. CASE DispatchTiled
    BY <2>2, TiledKeepsStream DEF DispatchTiled
  <2>3. CASE Fill
    <3>1. Exec = {}
      BY <2>3, FillKeepsStream DEF Exec
    <3> QED BY <2>3, <3>1 DEF Fill
  <2>4. CASE Queue
    <3>1. Queued \subseteq Queued' /\ Active' = Active
      BY <2>4, QueueKeepsStream
    <3> QED BY <2>4, <3>1 DEF Queue, Exec
  <2>5. CASE Launch
    <3>1. Queued \subseteq Queued' /\ Active' = Active
      BY <2>5, LaunchKeepsStream
    <3> QED BY <2>5, <3>1 DEF Launch, Exec
  <2>6. CASE Merge
    <3>1. Queued \subseteq Queued' /\ "merge" \in Queued' /\ Active' = Active /\ Active' = batch
      BY <2>6, MergeKeepsStream
    <3>2. "merge" \in ExecKinds
      BY DEF ExecKinds
    <3> QED BY <3>1, <3>2 DEF Exec
  <2> QED BY <2>1, <2>2, <2>3, <2>4, <2>5, <2>6
<1>5. ASSUME NEW k \in 1 .. batch, Finished(k)' PROVE Finished(k)
  <2>1. batch \in Nat
    BY DEF HostInv
  <2>2. k < batch \/ hpc' = "idle"
    BY <1>1, <1>5 DEF Finished
  <2>3. k < batch
    BY <1>4, <1>5, <2>1, <2>2 DEF Finished
  <2> QED BY <1>1, <1>4, <1>5, <2>3 DEF Finished
<1> QED BY <1>1, <1>3, <1>5, OutputsStay

\* The plan the host reads once the stream is empty.
LEMMA PlanRead ==
  ASSUME HostInv, StreamInv, DispatchInv, hpc \in {"schedule", "rows"}, Queued = {}
  PROVE  /\ batch \in Nat /\ batch \in 1 .. batch /\ flat = asked[batch]
         /\ Routed(flat) /\ LaidOut(plan, flat, batch)
<1>1. batch # 0
  BY DEF HostInv
<1>2. batch \in Nat /\ batch \in 1 .. batch /\ flat = asked[batch] /\ Routed(flat)
  BY <1>1, RoutedNow DEF HostInv
<1>3. Dispatching = {}
  BY DEF Dispatching
<1> QED BY <1>1, <1>2, <1>3 DEF DispatchInv

\* Every expert that was chosen gets a row.
LEMMA ScheduleOutputs ==
  ASSUME HostInv, StreamInv, DispatchInv, HostInv', StreamInv', OutputsRight, RowsInv, Schedule
  PROVE  RowsInv' /\ OutputsRight'
<1>1. /\ hpc = "schedule" /\ hpc' \in {"rows", "fill"} /\ UNCHANGED <<out, asked, raised, batch, flat>>
      /\ rows' = RoundRobinSchedule(plan.counts, plan.offsets)
  BY DEF Schedule, dispatchVars
<1>2. Queued = {} /\ Queued' = {} /\ Exec = {} /\ Exec' = {}
  BY IdleStepsKeepStream DEF Exec
<1>3. batch \in Nat /\ batch \in 1 .. batch /\ Routed(flat) /\ LaidOut(plan, flat, batch)
  BY <1>1, <1>2, PlanRead
<1>4. PICK n \in Nat : flat \in [Index(n) -> Expert]
  BY <1>3 DEF Routed
<1>5. PICK f : f = flat
  OBVIOUS
<1>6. PICK p : p = plan
  OBVIOUS
<1>7. PICK R : R = RoundRobinSchedule(p.counts, p.offsets)
  OBVIOUS
<1>8. f \in [Index(n) -> Expert] /\ LaidOut(p, f, batch)
  BY <1>3, <1>4, <1>5, <1>6
<1>9. /\ IsSequence(R)
      /\ \A k \in 1 .. Len(R) : RowOf(R[k], f)
      /\ \A j, k \in 1 .. Len(R) : R[j].expert = R[k].expert => j = k
      /\ \A i \in Index(n) : \E k \in 1 .. Len(R) : R[k].expert = f[i]
  <2>1. n \in Nat /\ f \in [Index(n) -> Expert] /\ LaidOut(p, f, batch)
        /\ R = RoundRobinSchedule(p.counts, p.offsets)
    BY <1>7, <1>8
  <2>2. RowsOf(R, n, f, p)
    BY ONLY <2>1, RowsAre
  <2> QED BY <2>2 DEF RowsOf
<1>10. rows' = R
  BY <1>1, <1>6, <1>7
<1>11. \A t : Results(f, batch, t, Expert \ Planned(R)) = {}
  <2>1. \A i \in DOMAIN f : f[i] \notin Expert \ Planned(R)
    BY <1>8, <1>9 DEF Planned
  <2>2. \A t, x : x \notin Results(f, batch, t, Expert \ Planned(R))
    BY <2>1, ResultsAre
  <2> QED BY <2>2
<1>12. out[batch] = [t \in Index(Tokens(f)) |-> Results(f, batch, t, Expert \ Planned(R))]
  BY <1>1, <1>5, <1>11 DEF RowsInv
<1>13. RowsInv'
  BY <1>1, <1>5, <1>9, <1>10, <1>12 DEF RowsInv
<1>14. ASSUME NEW k \in 1 .. batch, Finished(k)' PROVE Finished(k)
  BY <1>1, <1>2, <1>14 DEF Finished
<1> QED BY <1>1, <1>13, <1>14, OutputsStay

\* A forward that raises puts nothing out that anyone reads.
LEMMA RaiseOutputs ==
  ASSUME HostInv, StreamInv, HostInv', StreamInv', OutputsRight, RowRaise \/ LimitRaise
  PROVE  RowsInv' /\ OutputsRight'
<1>1. /\ hpc' = "idle" /\ UNCHANGED <<out, asked, batch, flat>> /\ raised' = raised \cup {batch}
  BY DEF RowRaise, LimitRaise, Raise, dispatchVars
<1>2. Exec = {}
  BY IdleStepsKeepStream DEF Exec
<1>3. RowsInv'
  BY <1>1 DEF RowsInv
<1>4. ASSUME NEW k \in 1 .. batch, Finished(k)' PROVE Finished(k)
  <2>1. batch \in Nat
    BY DEF HostInv
  <2>2. k # batch /\ k \notin raised
    BY <1>1, <1>4 DEF Finished
  <2>3. k < batch
    BY <2>1, <2>2
  <2> QED BY <1>2, <2>2, <2>3 DEF Finished
<1> QED BY <1>1, <1>3, <1>4, OutputsStay

\* With the last row the output is whole.
LEMMA DoneOutputs ==
  ASSUME HostInv, StreamInv, DispatchInv, HostInv', StreamInv', OutputsRight, RowsInv, RowsDone
  PROVE  RowsInv' /\ OutputsRight'
<1>1. /\ hpc = "rows" /\ rows = <<>> /\ hpc' = "idle" /\ UNCHANGED <<out, asked, raised, batch, flat>>
  BY DEF RowsDone, dispatchVars
<1>2. Queued = {} /\ Exec = {}
  BY IdleStepsKeepStream DEF Exec
<1>3. batch \in Nat /\ flat = asked[batch] /\ Routed(flat)
  BY <1>1, <1>2, PlanRead
<1>4. Planned(rows) = {}
  BY <1>1 DEF Planned
<1>5. out[batch] = [t \in Index(Tokens(flat)) |-> Results(flat, batch, t, Expert)]
  <2>1. Expert \ Planned(rows) = Expert
    BY <1>4
  <2> QED BY <1>1, <2>1 DEF RowsInv
<1>6. out[batch] = Expected(asked[batch], batch)
  <2>1. PICK f : f = flat
    OBVIOUS
  <2>2. PICK b : b = batch
    OBVIOUS
  <2>3. Expected(f, b) = [t \in Index(Tokens(f)) |-> Results(f, b, t, Expert)]
    BY <1>3, <2>1, ExpectedIs
  <2> QED BY <1>3, <1>5, <2>1, <2>2, <2>3
<1>7. RowsInv'
  BY <1>1 DEF RowsInv
<1>8. ASSUME NEW k \in 1 .. batch, Finished(k)' PROVE Finished(k) \/ out[k] = Expected(asked[k], k)
  <2>1. k < batch \/ k = batch
    BY <1>3
  <2>2. CASE k < batch
    BY <1>1, <1>2, <1>8, <2>2 DEF Finished
  <2> QED BY <1>6, <2>1, <2>2
<1> QED BY <1>1, <1>7, <1>8, OutputsStay

\* A row adds its expert's results.
LEMMA RunOutputs ==
  ASSUME HostInv, StreamInv, DispatchInv, HostInv', StreamInv', OutputsRight, RowsInv, RowRun
  PROVE  RowsInv' /\ OutputsRight'
<1>1. /\ hpc = "rows" /\ rows # <<>> /\ hpc' = "rows" /\ rows' = Tail(rows)
      /\ UNCHANGED <<asked, raised, batch, flat>>
      /\ out' = [out EXCEPT ![batch] =
                   [t \in DOMAIN out[batch] |-> out[batch][t] \cup RowOutputs(Head(rows), t, batch)]]
  BY DEF RowRun, dispatchVars
<1>2. Queued = {} /\ Exec = {}
  BY IdleStepsKeepStream DEF Exec
<1>3. batch \in Nat /\ batch \in 1 .. batch /\ Routed(flat) /\ LaidOut(plan, flat, batch)
  BY <1>1, <1>2, PlanRead
<1>4. PICK f : f = flat
  OBVIOUS
<1>5. PICK b : b = batch
  OBVIOUS
<1>6. PICK R : R = rows
  OBVIOUS
<1>7. /\ IsSequence(R) /\ \A k \in 1 .. Len(R) : RowOf(R[k], f)
      /\ \A j, k \in 1 .. Len(R) : R[j].expert = R[k].expert => j = k
      /\ out[batch] = [t \in Index(Tokens(f)) |-> Results(f, b, t, Expert \ Planned(R))]
  BY <1>1, <1>4, <1>5, <1>6 DEF RowsInv
<1>8. /\ IsSequence(Tail(R)) /\ Len(R) \in Nat \ {0} /\ Len(Tail(R)) = Len(R) - 1
      /\ Head(R) = R[1] /\ \A i \in 1 .. Len(R) - 1 : Tail(R)[i] = R[i + 1]
  BY <1>1, <1>6, <1>7, TailIs
<1>9. PICK n \in Nat \ {0} : n = Len(R)
  BY <1>8
<1>10. 1 \in 1 .. n /\ \A i \in 1 .. n - 1 : i + 1 \in 1 .. n /\ i + 1 # 1
  BY <1>9
<1>11. \A i \in 1 .. n : i = 1 \/ (i - 1 \in 1 .. n - 1 /\ (i - 1) + 1 = i)
  BY <1>9
<1>12. PICK e \in Expert : e = R[1].expert
  BY <1>7, <1>9, <1>10 DEF RowOf
<1>13. \A d : d \in Planned(R) <=> d = e \/ d \in Planned(Tail(R))
  <2>1. \A d : d \in Planned(R) <=> \E i \in 1 .. n : d = R[i].expert
    BY <1>9 DEF Planned
  <2>2. \A d : d \in Planned(Tail(R)) <=> \E i \in 1 .. n - 1 : d = R[i + 1].expert
    BY <1>8, <1>9 DEF Planned
  <2> QED BY <1>10, <1>11, <1>12, <2>1, <2>2
<1>14. e \notin Planned(Tail(R))
  <2>1. \A i \in 1 .. n - 1 : R[i + 1].expert # R[1].expert
    BY <1>7, <1>9, <1>10
  <2> QED BY <1>8, <1>9, <1>12, <2>1 DEF Planned
<1>15. Expert \ Planned(Tail(R)) = (Expert \ Planned(R)) \cup {e}
  BY <1>12, <1>13, <1>14
<1>16. \A t : RowOutputs(Head(R), t, b) = Results(f, b, t, {e})
  <2> SUFFICES ASSUME NEW t PROVE RowOutputs(Head(R), t, b) = Results(f, b, t, {e})
    OBVIOUS
  <2>1. PICK row : row = Head(R)
    OBVIOUS
  <2>2. RowOf(row, f) /\ row.expert = e
    BY <1>7, <1>8, <1>9, <1>10, <1>12, <2>1
  <2>3. Routed(f) /\ LaidOut(plan, f, b)
    BY <1>3, <1>4, <1>5
  <2>4. RowOutputs(row, t, b) = Results(f, b, t, {row.expert})
    BY <2>2, <2>3, RowGives
  <2> QED BY <2>1, <2>2, <2>4
<1>17. PICK z : z = [t \in Index(Tokens(f)) |-> Results(f, b, t, Expert \ Planned(Tail(R)))]
  OBVIOUS
<1>18. [t \in DOMAIN out[batch] |-> out[batch][t] \cup RowOutputs(Head(rows), t, batch)] = z
  <2>1. \A t : Results(f, b, t, Expert \ Planned(Tail(R))) =
               Results(f, b, t, Expert \ Planned(R)) \cup Results(f, b, t, {e})
    BY <1>15, ResultsAre
  <2>2. \A t : Results(f, b, t, Expert \ Planned(Tail(R))) =
               Results(f, b, t, Expert \ Planned(R)) \cup RowOutputs(Head(rows), t, batch)
    BY <1>5, <1>6, <1>16, <2>1
  <2> QED BY <1>7, <1>17, <2>2
<1>19. out' = [out EXCEPT ![batch] = z]
  BY <1>1, <1>18
<1>20. out'[batch] = z /\ \A k \in 1 .. batch : k # batch => out'[k] = out[k]
  <2>1. DOMAIN out = 1 .. batch
    BY DEF HostInv, IsSequence
  <2> QED BY <1>3, <1>19, <2>1
<1>21. RowsInv'
  <2>1. \A k \in 1 .. Len(Tail(R)) : Tail(R)[k] = R[k + 1] /\ k + 1 \in 1 .. Len(R)
    BY <1>8, <1>9, <1>10
  <2>2. \A k \in 1 .. Len(Tail(R)) : RowOf(Tail(R)[k], f)
    BY <1>7, <2>1
  <2>3. \A j, k \in 1 .. Len(Tail(R)) : Tail(R)[j].expert = Tail(R)[k].expert => j = k
    <3> SUFFICES ASSUME NEW j \in 1 .. Len(Tail(R)), NEW k \in 1 .. Len(Tail(R)),
                        Tail(R)[j].expert = Tail(R)[k].expert
                 PROVE  j = k
      OBVIOUS
    <3>1. j + 1 = k + 1
      BY <1>7, <2>1
    <3> QED BY <1>8, <3>1
  <2>4. rows' = Tail(R) /\ flat' = f /\ batch' = b
    BY <1>1, <1>4, <1>5, <1>6
  <2>5. out'[b] = z
    BY <1>5, <1>20
  <2> QED BY <1>1, <1>8, <1>17, <2>2, <2>3, <2>4, <2>5 DEF RowsInv
<1>22. \A k : (Settled(k) <=> Finished(k)) /\ (Settled(k)' <=> Finished(k)')
  BY SettledIs
<1>23. ASSUME NEW k, Settled(k)' PROVE out'[k] = Expected(asked'[k], k)
  <2>1. Finished(k)'
    BY <1>22, <1>23
  <2>2. k \in 1 .. batch /\ k < batch /\ k \notin raised
    BY <1>1, <2>1 DEF Finished
  <2>3. Settled(k)
    BY <1>2, <1>22, <2>2 DEF Finished
  <2>4. out'[k] = out[k]
    BY <1>3, <1>20, <2>2
  <2>5. k \in DOMAIN asked
    BY <2>2 DEF HostInv
  <2> QED BY <1>1, <2>3, <2>4, <2>5 DEF OutputsRight
<1> QED BY <1>21, <1>23 DEF OutputsRight

\* Only the merge writes an output.
LEMMA DeviceOutputs ==
  ASSUME DeviceStep
  PROVE  /\ Running("merge") => MergeOp
         /\ ~Running("merge") => UNCHANGED out
<1>1. ASSUME NEW t \in grid, TileProgram(t) PROVE UNCHANGED out /\ ~Running("merge")
  BY <1>1 DEF TileProgram, Running
<1>2. CASE DispatchOp
  <2>1. UNCHANGED out /\ ~Running("merge")
    BY <1>2 DEF DispatchOp, Running
  <2> QED BY <2>1
<1>3. CASE CopyOp
  <2>1. UNCHANGED out /\ ~Running("merge")
    BY <1>3 DEF CopyOp, Running
  <2> QED BY <2>1
<1>4. CASE EventOp
  <2>1. UNCHANGED out /\ ~Running("merge")
    BY <1>4 DEF EventOp, Running
  <2> QED BY <2>1
<1>5. ASSUME NEW p \in Program, ClaimTile(p) \/ WorkTile(p) \/ ExitKernel(p)
      PROVE  UNCHANGED out /\ ~Running("merge")
  BY <1>5 DEF ClaimTile, WorkTile, ExitKernel, hostVars, Running, QueueKernels
<1>6. CASE MergeOp
  BY <1>6 DEF MergeOp
<1> QED BY <1>1, <1>2, <1>3, <1>4, <1>5, <1>6 DEF DeviceStep

\* Until the merge runs, no forward comes to be settled.
LEMMA QuietDeviceOutputs ==
  ASSUME HostInv, StreamInv, HostInv', StreamInv', OutputsRight, RowsInv, DeviceStep, ~Running("merge")
  PROVE  RowsInv' /\ OutputsRight'
<1>1. /\ UNCHANGED <<hpc, asked, batch, flat, rows, raised>> /\ ~Drained
      /\ Pop \/ (stream' = stream /\ grid' \subseteq grid)
  BY DeviceFrame
<1>2. out' = out
  BY DeviceOutputs
<1>3. RowsInv'
  BY <1>1, <1>2 DEF RowsInv
<1>4. Active' = Active
  BY <1>1 DEF Active
<1>5. "merge" \in ExecKinds
  BY DEF ExecKinds
<1>6. "merge" \in Queued => "merge" \in Queued'
  <2>1. CASE Pop
    <3>1. Queued' = Queued \ {Head(stream).kind}
      BY <1>1, <2>1, Popped DEF StreamInv
    <3> QED BY <1>1, <3>1 DEF Running
  <2>2. CASE stream' = stream
    BY <2>2 DEF Queued
  <2> QED BY <1>1, <2>1, <2>2
<1>7. ASSUME NEW k \in 1 .. batch, Finished(k)' PROVE Finished(k)
  <2>1. ASSUME Exec # {} PROVE Active # k
    <3>1. CASE Exec' # {}
      BY <1>4, <1>7, <3>1 DEF Finished
    <3>2. CASE Exec' = {}
      <4>1. "merge" \notin Queued
        BY <1>5, <1>6, <3>2 DEF Exec
      <4>2. hpc \in {"queue", "launch", "merge"}
        BY <2>1, <4>1 DEF StreamInv, Phase
      <4>3. Active = batch
        BY <4>2 DEF Active
      <4>4. k < batch
        BY <1>1, <1>7, <4>2 DEF Finished
      <4>5. batch \in Nat
        BY DEF HostInv
      <4> QED BY <4>3, <4>4, <4>5
    <3> QED BY <3>1, <3>2
  <2> QED BY <1>1, <1>7, <2>1 DEF Finished
<1> QED BY <1>1, <1>2, <1>3, <1>7, OutputsStay

\* The merge puts out what its forward is expected to.
LEMMA MergeRuns ==
  ASSUME HostInv, StreamInv, DispatchInv, ExecInv, MergeOp
  PROVE  /\ Active \in 1 .. batch /\ hpc # "rows" /\ "merge" \in Queued
         /\ out' = [out EXCEPT ![Active] = Expected(asked[Active], Active)]
<1>1. Running("merge") /\ out' = [out EXCEPT ![Head(stream).batch] = MergedOutputs(Head(stream).size)]
  BY DEF MergeOp
<1>2. "merge" \in ExecKinds
  BY DEF ExecKinds
<1>3. /\ "merge" \in Queued /\ Busy /\ Head(stream).size = OpSize["merge"] /\ Head(stream).batch = Active
      /\ \A j \in Queued : j = "merge" \/ Rank("merge") < Rank(j)
      /\ Active \in 1 .. batch /\ Routed(asked[Active]) /\ LaidOut(plan, asked[Active], Active)
  BY <1>1, <1>2, ExecRuns
<1>4. Head(stream).size = Tokens(asked[Active])
  BY <1>3, ExecSizes
<1>5. "down" \notin Queued
  <2>1. Rank("down") = 7 /\ Rank("merge") = 8
    BY RankIs
  <2> QED BY <1>3, <2>1
<1>6. PICK f : f = asked[Active]
  OBVIOUS
<1>7. PICK b : b = Active
  OBVIOUS
<1>8. ActiveSlots = Index(Size(f))
  BY <1>6 DEF ActiveSlots
<1>9. \A s \in Index(Size(f)), d \in Index(DownBlocks) : weighted[s][d] = RightOutput(s)
  BY <1>3, <1>5, <1>8 DEF ExecInv, AllDowned
<1>10. PICK m \in Nat : /\ intermediate \in [Index(m) -> [Index(GatherBlocks) -> Cell]]
                        /\ weighted = [s \in Index(m) |-> [d \in Index(DownBlocks) |-> weighted[s][d]]]
  BY DEF ExecInv, BufferShape
<1>11. Index(Size(f)) \subseteq Index(m)
  <2>1. DOMAIN intermediate = Index(m)
    BY <1>10
  <2> QED BY <1>3, <1>8, <2>1 DEF ExecInv, DescriptorsCopied
<1>12. ASSUME NEW s \in Index(Size(f)) PROVE weighted[s] = SlotOutput(plan, b, s)
  <2>1. weighted[s] = [d \in Index(DownBlocks) |-> weighted[s][d]]
    BY <1>10, <1>11
  <2>2. weighted[s] = [d \in Index(DownBlocks) |-> RightOutput(s)]
    BY <1>9, <2>1
  <2> QED BY <1>7, <2>2 DEF SlotOutput, Whole, RightOutput
<1>13. MergedOutputs(Tokens(f)) = Expected(f, b)
  BY <1>3, <1>6, <1>7, <1>12, MergeGives
<1>14. hpc # "rows"
  BY <1>3 DEF StreamInv, Phase
<1> QED BY <1>1, <1>3, <1>4, <1>6, <1>7, <1>13, <1>14

\* With the merge its forward may come to be settled, and is right.
LEMMA MergeOutputs ==
  ASSUME HostInv, StreamInv, DispatchInv, ExecInv, HostInv', StreamInv', OutputsRight, RowsInv,
         DeviceStep, MergeOp
  PROVE  RowsInv' /\ OutputsRight'
<1>1. UNCHANGED <<hpc, asked, batch, flat, rows, raised>>
  BY DeviceFrame
<1>2. PICK a \in 1 .. batch : a = Active
  BY MergeRuns
<1>3. PICK z : z = Expected(asked[a], a)
  OBVIOUS
<1>4. hpc # "rows" /\ "merge" \in Queued /\ out' = [out EXCEPT ![a] = z]
  BY <1>2, <1>3, MergeRuns
<1>5. batch \in Nat /\ DOMAIN out = 1 .. batch /\ DOMAIN asked = 1 .. batch
  BY DEF HostInv, IsSequence
<1>6. out'[a] = z /\ \A k \in 1 .. batch : k # a => out'[k] = out[k]
  BY <1>4, <1>5
<1>7. Active' = Active
  BY <1>1 DEF Active
<1>8. RowsInv'
  <2>1. ASSUME hpc \in {"dispatch", "schedule"} PROVE out'[batch] = out[batch]
    <3>1. a = batch - 1
      BY <1>2, <2>1 DEF Active
    <3>2. a # batch /\ batch \in 1 .. batch
      BY <1>5, <3>1
    <3> QED BY <1>6, <3>2
  <2> QED BY <1>1, <1>4, <2>1 DEF RowsInv
<1>9. \A k : (Settled(k) <=> Finished(k)) /\ (Settled(k)' <=> Finished(k)')
  BY SettledIs
<1>10. ASSUME NEW k, Settled(k)' PROVE out'[k] = Expected(asked'[k], k)
  <2>1. Finished(k)' /\ k \in 1 .. batch
    BY <1>1, <1>9, <1>10 DEF Finished
  <2>2. CASE k = a
    BY <1>1, <1>3, <1>6, <2>2
  <2>3. CASE k # a
    <3>1. Settled(k)
      BY <1>1, <1>2, <1>9, <2>1, <2>3 DEF Finished
    <3>2. out[k] = Expected(asked[k], k)
      BY <1>5, <2>1, <3>1 DEF OutputsRight
    <3> QED BY <1>1, <1>6, <2>1, <2>3, <3>2
  <2> QED BY <2>2, <2>3
<1> QED BY <1>8, <1>10 DEF OutputsRight

\* The outputs through every step.
LEMMA ForwardKept == ASSUME ForwardInv, [Next]_vars PROVE ForwardInv'
<1>1. CoreInv' /\ HostInv /\ StreamInv /\ DispatchInv /\ ExecInv /\ RowsInv /\ OutputsRight
  BY CoreKept DEF ForwardInv, CoreInv
<1>2. HostInv' /\ StreamInv'
  BY HostKept, StreamKept DEF ForwardInv, CoreInv
<1>3. CASE \E f \in Routing : StartForward(f)
  <2>1. RowsInv' /\ OutputsRight'
    BY <1>1, <1>2, <1>3, StartOutputs
  <2> QED BY <1>1, <2>1 DEF ForwardInv
<1>4. CASE HostStep
  <2>1. RowsInv' /\ OutputsRight'
    BY <1>1, <1>2, <1>4, QuietOutputs, ScheduleOutputs, RaiseOutputs, DoneOutputs, RunOutputs DEF HostStep
  <2> QED BY <1>1, <2>1 DEF ForwardInv
<1>5. CASE DeviceStep
  <2>1. RowsInv' /\ OutputsRight'
    BY <1>1, <1>2, <1>5, DeviceOutputs, QuietDeviceOutputs, MergeOutputs
  <2> QED BY <1>1, <2>1 DEF ForwardInv
<1>6. CASE UNCHANGED vars
  <2>1. UNCHANGED <<hpc, asked, batch, flat, rows, raised, out, stream>>
    BY <1>6 DEF vars, dispatchVars, execVars, hostVars
  <2>2. RowsInv'
    BY <1>1, <2>1 DEF RowsInv
  <2>3. OutputsRight'
    BY <1>1, <2>1 DEF OutputsRight, Settled
  <2> QED BY <1>1, <2>2, <2>3 DEF ForwardInv
<1> QED BY <1>3, <1>4, <1>5, <1>6 DEF Next

\* The outputs, always.
LEMMA ForwardHolds == Spec => []ForwardInv
<1>1. Init => ForwardInv
  BY CoreInitially, OutputsInitially DEF ForwardInv
<1>2. ForwardInv /\ [Next]_vars => ForwardInv'
  BY ForwardKept
<1> QED BY <1>1, <1>2, PTL DEF Spec

-----------------------------------------------------------------------------
(* Whatever the dispatch algorithm, the interleaving of its tiles, and the *)
(* contents the shared workspaces were left with, a finished dispatch plan *)
(* is the stable expert-major order of its own forward, the tiles that are *)
(* packed at once write disjoint slots, and the rows given to the executor *)
(* cover every slot once (dispatcher.py, scheduler.py).                    *)
THEOREM LayoutIsSound == Spec => []LayoutSound
<1>1. CoreInv => LayoutSound
  BY CoreIsTyped, CoreIsStable, CoreIsDisjoint, CoreIsCovered DEF LayoutSound
<1> QED BY <1>1, CoreHolds, PTL

(* Whenever the down kernel runs, every intermediate row its tiles read    *)
(* has been written whole by the gather kernel of the same forward, for    *)
(* the expert and the token of its slot: the stream order alone keeps the  *)
(* two kernels apart (persistent_executor.py).                             *)
THEOREM StagesAreOrdered == Spec => []StagesInOrder
BY CoreIsOrdered, CoreHolds, PTL

(* Whatever later forwards do to the shared workspaces, and whichever      *)
(* executor runs, the output of every settled forward is, token by token,  *)
(* the weighted results of the experts its router chose (engine.py,        *)
(* merge.py).                                                              *)
THEOREM OutputsAreRight == Spec => []OutputsRight
<1>1. ForwardInv => OutputsRight
  BY DEF ForwardInv
<1> QED BY <1>1, ForwardHolds, PTL
=============================================================================
