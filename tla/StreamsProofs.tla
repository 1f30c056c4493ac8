--------------------------- MODULE StreamsProofs ---------------------------
(***************************************************************************)
(* Theorems about what relies on the order of CUDA streams: the staging    *)
(* buffers of the engine, for a caller that synchronizes, and the shared   *)
(* expert that overlaps the routed ones.                                   *)
(***************************************************************************)
EXTENDS SharedExpert, StagedReads, Integers, TLAPS

-----------------------------------------------------------------------------
(* The staging buffers, for a caller that waits for the device before it   *)
(* launches a read and for its own kernels before it swaps.                *)

Synchronized == Usages \subseteq {[beforeRead |-> TRUE, beforeSwap |-> TRUE]}

CopyWork == [do : {"copy"}, by : Staged, reads : {{}}, writes : {{0}, {1}}]
ReadWork == [do : {"read"}, by : Staged, reads : {{0}, {1}}, writes : {{}}]
EventWait == [do : {"wait"}, on : {"copy"}, position : Nat]

\* Once the copies of q have run a buffer that has the bytes "now" has those of e.
Carries(q, now, e, b) ==
  \/ now = e /\ \A i \in 1..Len(q) : q[i].writes # {b}
  \/ \E i \in 1..Len(q) : /\ q[i].writes = {b} /\ q[i].by = e
                          /\ \A j \in 1..Len(q) : j > i => q[j].writes # {b}

StagedTypes ==
  /\ usage = [beforeRead |-> TRUE, beforeSwap |-> TRUE]
  /\ records \in [Staged -> ExpertRecord] /\ recorded \in [Staged -> Nat]
  /\ requests \in Seq(Staged) /\ available \in BOOLEAN /\ front \in {0, 1}
  /\ bytes \in [{0, 1} -> Staged \cup {NoBytes}]
  /\ pointer \in [Staged -> {0, 1, Null}]
StreamTypes ==
  /\ DOMAIN pending = Stream /\ ran \in [Stream -> Nat]
  /\ pending["copy"] \in Seq(CopyWork)
  /\ pending["compute"] \in Seq(EventWait)
  /\ pending["caller"] \in Seq(ReadWork)
  /\ \A s \in Stream \ {"copy", "compute", "caller"} : pending[s] = <<>>

\* A published record points at the buffer it is in, which has or will have its
\* bytes; while the worker may fill the next buffer nothing is published there.
RecordSound(r) ==
  /\ r.state \in {"Unloaded", "Staged", "Active", "Evicted"} /\ ~r.imported
  /\ (r.resident <=> Published(r)) /\ (Published(r) => r.ptr = r.buf)
RecordsSound ==
  \A e \in Staged :
    /\ RecordSound(records[e])
    /\ Published(records[e]) =>
         /\ Carries(pending["copy"], bytes[records[e].buf], e, records[e].buf)
         /\ available => records[e].buf = front

\* A pointer in a caller's hands keeps its expert in the front buffer.
PointersSound ==
  \A e \in Staged : pointer[e] # Null =>
    /\ pointer[e] = front /\ records[e].buf = front
    /\ Published(records[e]) /\ records[e].refs # 0

\* Kernels not yet run read the front buffer, which no copy is about to write.
ReadsSound ==
  \A i \in 1..Len(pending["caller"]) :
    LET op == pending["caller"][i] IN
    /\ op.reads = {front} /\ bytes[front] = op.by
    /\ \A j \in 1..Len(pending["copy"]) : pending["copy"][j].writes = {1 - front}

StagedInv == StagedTypes /\ StreamTypes /\ RecordsSound /\ PointersSound /\ ReadsSound

LEMMA StagedInitOK == Synchronized /\ StagedInit => StagedInv
<1> SUFFICES ASSUME Synchronized, StagedInit PROVE StagedInv
  OBVIOUS
<1>1. usage = [beforeRead |-> TRUE, beforeSwap |-> TRUE]
  BY DEF StagedInit, Synchronized
<1>2. NewRecord(FALSE) \in ExpertRecord /\ RecordSound(NewRecord(FALSE))
      /\ ~Published(NewRecord(FALSE))
  BY DEF NewRecord, NoRecord, ExpertRecord, RecordSound, Published, ResidentState, Buffer,
         Pointer, Null, IpcMapping
<1>3. StagedTypes
  <2>1. /\ records \in [Staged -> ExpertRecord] /\ recorded \in [Staged -> Nat]
        /\ pointer \in [Staged -> {0, 1, Null}]
    BY <1>2 DEF StagedInit
  <2>2. bytes \in [{0, 1} -> Staged \cup {NoBytes}]
    BY DEF StagedInit, Buffer
  <2>3. requests \in Seq(Staged) /\ available \in BOOLEAN /\ front \in {0, 1}
    BY DEF StagedInit
  <2> QED BY <1>1, <2>1, <2>2, <2>3 DEF StagedTypes
<1>4. pending = [s \in Stream |-> <<>>] /\ ran = [s \in Stream |-> 0]
  BY DEF StagedInit, StreamsInit
<1>5. StreamTypes
  BY <1>4, StagedReadsAssumption DEF StreamTypes
<1>6. RecordsSound /\ PointersSound
  BY <1>2 DEF StagedInit, RecordsSound, PointersSound
<1>7. ReadsSound
  BY <1>4, StagedReadsAssumption DEF ReadsSound
<1> QED BY <1>3, <1>5, <1>6, <1>7 DEF StagedInv

(* What a copy issued or run leaves of what a buffer will have.            *)
LEMMA CarriesIssued ==
  ASSUME NEW q \in Seq(CopyWork), NEW e \in Staged, NEW op \in CopyWork, NEW b \in {0, 1},
         NEW now
  PROVE  /\ op.writes = {b} /\ op.by = e => Carries(q \o <<op>>, now, e, b)
         /\ op.writes # {b} /\ Carries(q, now, e, b) => Carries(q \o <<op>>, now, e, b)
<1> DEFINE r == q \o <<op>>
<1>1. Len(q) \in Nat /\ Len(r) = Len(q) + 1 /\ r[Len(q) + 1] = op
      /\ \A i \in 1..Len(q) : r[i] = q[i]
  OBVIOUS
<1> HIDE DEF r
<1>2. ASSUME op.writes = {b}, op.by = e PROVE Carries(r, now, e, b)
  <2>1. Len(q) + 1 \in 1..Len(r) /\ \A j \in 1..Len(r) : ~(j > Len(q) + 1)
    BY <1>1
  <2> QED BY <1>1, <1>2, <2>1 DEF Carries
<1>3. ASSUME op.writes # {b}, Carries(q, now, e, b) PROVE Carries(r, now, e, b)
  <2>1. \A i \in 1..Len(r) : i \in 1..Len(q) \/ i = Len(q) + 1
    BY <1>1
  <2>2. \A i \in 1..Len(q) : i \in 1..Len(r)
    BY <1>1
  <2>3. CASE now = e /\ \A i \in 1..Len(q) : q[i].writes # {b}
    BY <1>1, <1>3, <2>1, <2>3 DEF Carries
  <2>4. ASSUME NEW i \in 1..Len(q), q[i].writes = {b}, q[i].by = e,
               \A j \in 1..Len(q) : j > i => q[j].writes # {b}
        PROVE  Carries(r, now, e, b)
    BY <1>1, <1>3, <2>1, <2>2, <2>4 DEF Carries
  <2> QED BY <1>3, <2>3, <2>4 DEF Carries
<1> QED BY <1>2, <1>3 DEF r

LEMMA CarriesRun ==
  ASSUME NEW q \in Seq(CopyWork), q # <<>>, NEW e \in Staged, NEW b \in {0, 1}, NEW now,
         NEW then, Carries(q, now, e, b),
         then = IF Head(q).writes = {b} THEN Head(q).by ELSE now
  PROVE  Carries(Tail(q), then, e, b)
<1> DEFINE r == Tail(q)
<1>1. Len(q) \in Nat \ {0} /\ Len(r) = Len(q) - 1 /\ Head(q) = q[1]
      /\ \A i \in 1..Len(r) : r[i] = q[i + 1]
  OBVIOUS
<1> HIDE DEF r
<1>2. \A i \in 1..Len(r) : i + 1 \in 1..Len(q)
  BY <1>1
<1>3. CASE now = e /\ \A i \in 1..Len(q) : q[i].writes # {b}
  <2>1. 1 \in 1..Len(q)
    BY <1>1
  <2>2. then = e
    BY <1>1, <1>3, <2>1
  <2> QED BY <1>1, <1>2, <1>3, <2>2 DEF Carries, r
<1>4. ASSUME NEW i \in 1..Len(q), q[i].writes = {b}, q[i].by = e,
             \A j \in 1..Len(q) : j > i => q[j].writes # {b}
      PROVE  Carries(r, then, e, b)
  <2>1. CASE i = 1
    <3>1. then = e
      BY <1>1, <1>4, <2>1
    <3>2. \A j \in 1..Len(r) : j + 1 > i /\ j + 1 \in 1..Len(q)
      BY <1>1, <2>1
    <3>3. \A j \in 1..Len(r) : r[j].writes # {b}
      BY <1>1, <1>4, <3>2
    <3> QED BY <3>1, <3>3 DEF Carries
  <2>2. CASE i # 1
    <3>1. i - 1 \in 1..Len(r) /\ (i - 1) + 1 = i
      BY <1>1, <1>4, <2>2
    <3>2. r[i - 1].writes = {b} /\ r[i - 1].by = e
      BY <1>1, <1>4, <3>1
    <3>3. \A j \in 1..Len(r) : j > i - 1 => j + 1 > i /\ j + 1 \in 1..Len(q)
      BY <1>1, <3>1
    <3>4. \A j \in 1..Len(r) : j > i - 1 => r[j].writes # {b}
      BY <1>1, <1>4, <3>3
    <3> QED BY <3>1, <3>2, <3>4 DEF Carries
  <2> QED BY <2>1, <2>2
<1> QED BY <1>3, <1>4 DEF Carries, r

(* What the worker publishes.                                              *)
LEMMA FillFacts ==
  ASSUME StagedInv, NEW e \in Staged, Reloadable(records[e]), NEW b \in {0, 1}, Fill(e, b)
  PROVE  /\ DOMAIN pending' = Stream /\ ran' = ran
         /\ pending'["copy"] = pending["copy"] \o <<Work(e, "copy", {}, {b})>>
         /\ \A s \in Stream \ {"copy"} : pending'[s] = pending[s]
         /\ recorded' \in [Staged -> Nat]
         /\ records' \in [Staged -> ExpertRecord]
         /\ RecordSound(records'[e]) /\ records'[e].buf = b /\ Published(records'[e])
         /\ \A f \in Staged \ {e} : records'[f] = records[f]
<1>1. /\ pending' = [pending EXCEPT !["copy"] = @ \o <<Work(e, "copy", {}, {b})>>]
      /\ ran' = ran
      /\ recorded' = [recorded EXCEPT ![e] = Issued("copy") + 1]
      /\ records' = [records EXCEPT ![e] = CompleteLoad(BeginLoad(@), b, b)]
  BY DEF Fill, Issue
<1>2. Issued("copy") \in Nat
  BY StagedReadsAssumption DEF StagedInv, StreamTypes, Issued
<1>3. records[e] \in ExpertRecord /\ records \in [Staged -> ExpertRecord]
      /\ recorded \in [Staged -> Nat] /\ DOMAIN pending = Stream /\ "copy" \in Stream
  BY StagedReadsAssumption DEF StagedInv, StagedTypes, StreamTypes
<1> DEFINE r == CompleteLoad(BeginLoad(records[e]), b, b)
<1>4. ~records[e].imported
  BY DEF StagedInv, RecordsSound, RecordSound
<1>5. r = [records[e] EXCEPT !.loading = FALSE, !.state = "Staged", !.buf = b,
                             !.resident = TRUE, !.ptr = b]
  BY <1>3 DEF CompleteLoad, BeginLoad, ExpertRecord
<1>6. r \in ExpertRecord
  BY <1>3, <1>5 DEF ExpertRecord, ResidentState, Pointer, Buffer
<1>7. RecordSound(r) /\ r.buf = b /\ Published(r)
  BY <1>3, <1>4, <1>5 DEF RecordSound, Published, ExpertRecord
<1>8. records' = [records EXCEPT ![e] = r]
  BY <1>1
<1> HIDE DEF r
<1>9. recorded' \in [Staged -> Nat]
  BY <1>1, <1>2, <1>3
<1>10. records' \in [Staged -> ExpertRecord] /\ records'[e] = r
       /\ \A f \in Staged \ {e} : records'[f] = records[f]
  BY <1>3, <1>6, <1>8
<1>11. /\ DOMAIN pending' = Stream
       /\ pending'["copy"] = pending["copy"] \o <<Work(e, "copy", {}, {b})>>
       /\ \A s \in Stream \ {"copy"} : pending'[s] = pending[s]
  BY <1>1, <1>3
<1> QED BY <1>1, <1>7, <1>9, <1>10, <1>11

LEMMA WorkIsCopy ==
  ASSUME NEW e \in Staged, NEW b \in {0, 1}
  PROVE  /\ Work(e, "copy", {}, {b}) \in CopyWork
         /\ Work(e, "copy", {}, {b}).by = e /\ Work(e, "copy", {}, {b}).writes = {b}
BY DEF Work, CopyWork

LEMMA ServeStep == ASSUME StagedInv, WorkerServe PROVE StagedInv'
<1> DEFINE e == Head(requests)
           b == 1 - front
           op == Work(e, "copy", {}, {b})
           q == pending["copy"]
<1>1. /\ requests # <<>> /\ Reloadable(records[e]) /\ available /\ ~available' /\ available' = FALSE
      /\ Fill(e, b) /\ requests' = Tail(requests)
      /\ UNCHANGED <<usage, front, bytes, pointer>>
  BY DEF WorkerServe
<1>2. requests \in Seq(Staged) /\ front \in {0, 1}
  BY DEF StagedInv, StagedTypes
<1>3. e \in Staged /\ requests' \in Seq(Staged)
  BY <1>1, <1>2
<1>4. b \in {0, 1} /\ b # front /\ {b} # {front}
  BY <1>2
<1>5. op \in CopyWork /\ op.by = e /\ op.writes = {b} /\ op.writes # {front}
  BY <1>3, <1>4, WorkIsCopy
<1> HIDE DEF e, op
<1>6. /\ DOMAIN pending' = Stream /\ ran' = ran /\ pending'["copy"] = q \o <<op>>
      /\ \A s \in Stream \ {"copy"} : pending'[s] = pending[s]
      /\ recorded' \in [Staged -> Nat] /\ records' \in [Staged -> ExpertRecord]
      /\ RecordSound(records'[e]) /\ records'[e].buf = b /\ Published(records'[e])
      /\ \A f \in Staged \ {e} : records'[f] = records[f]
  BY <1>1, <1>3, <1>4, FillFacts DEF op
<1>7. q \in Seq(CopyWork) /\ q \o <<op>> \in Seq(CopyWork)
  BY <1>5 DEF StagedInv, StreamTypes
<1> HIDE DEF q, b
<1>8. \A f \in Staged : Published(records[f]) => records[f].buf = front
  BY <1>1 DEF StagedInv, RecordsSound
<1>9. ~Published(records[e])
  BY <1>1 DEF Reloadable, Published
<1>10. StagedTypes'
  BY <1>1, <1>3, <1>6 DEF StagedInv, StagedTypes
<1>11. StreamTypes'
  BY <1>6, <1>7, StagedReadsAssumption DEF StagedInv, StreamTypes
<1>12. RecordsSound'
  <2> SUFFICES ASSUME NEW f \in Staged
               PROVE  /\ RecordSound(records'[f])
                      /\ Published(records'[f]) =>
                           Carries(pending'["copy"], bytes[records'[f].buf], f, records'[f].buf)
    BY <1>1 DEF RecordsSound
  <2>1. CASE f = e
    <3>1. Carries(q \o <<op>>, bytes[b], e, b)
      BY <1>3, <1>4, <1>5, <1>7, CarriesIssued
    <3> QED BY <1>6, <2>1, <3>1
  <2>2. CASE f # e
    <3>1. records'[f] = records[f] /\ RecordSound(records[f])
      BY <1>6, <2>2 DEF StagedInv, RecordsSound
    <3>2. ASSUME Published(records[f])
          PROVE  Carries(q \o <<op>>, bytes[front], f, front)
      <4>1. Carries(q, bytes[front], f, front)
        BY <1>8, <3>2 DEF StagedInv, RecordsSound, q
      <4> QED BY <1>2, <1>5, <1>7, <4>1, CarriesIssued
    <3> QED BY <1>6, <1>8, <3>1, <3>2
  <2> QED BY <2>1, <2>2
<1>13. PointersSound'
  BY <1>1, <1>6, <1>9 DEF StagedInv, PointersSound
<1>14. ReadsSound'
  <2>1. pending'["caller"] = pending["caller"]
    BY <1>6, StagedReadsAssumption
  <2>2. ASSUME NEW i \in 1..Len(pending["caller"]), NEW j \in 1..Len(q \o <<op>>)
        PROVE  (q \o <<op>>)[j].writes = {b}
    <3> DEFINE r == q \o <<op>>
    <3>1. Len(q) \in Nat /\ Len(r) = Len(q) + 1 /\ r[Len(q) + 1] = op
          /\ \A k \in 1..Len(q) : r[k] = q[k]
      BY <1>5, <1>7
    <3>2. \A k \in 1..Len(q) : q[k].writes = {b}
      BY <2>2 DEF StagedInv, ReadsSound, b, q
    <3> HIDE DEF r
    <3>3. r[j].writes = {b}
      BY <1>5, <3>1, <3>2 DEF r
    <3> QED BY <3>3 DEF r
  <2> QED BY <1>1, <1>6, <2>1, <2>2 DEF StagedInv, ReadsSound, b
<1> QED BY <1>10, <1>11, <1>12, <1>13, <1>14 DEF StagedInv

(* Calls that issue a wait, or nothing.                                    *)
LEMMA WaitIssued ==
  ASSUME StagedInv, NEW e \in Staged, AwaitEvent(e)
  PROVE  /\ StreamTypes' /\ ran' = ran
         /\ pending'["copy"] = pending["copy"] /\ pending'["caller"] = pending["caller"]
<1>1. pending' = [pending EXCEPT !["compute"] = @ \o <<WaitFor("copy", recorded[e])>>]
      /\ ran' = ran
  BY DEF AwaitEvent, Issue
<1>2. WaitFor("copy", recorded[e]) \in EventWait
  BY DEF StagedInv, StagedTypes, WaitFor, EventWait
<1>3. DOMAIN pending = Stream /\ {"copy", "compute", "caller"} \subseteq Stream
      /\ pending["compute"] \in Seq(EventWait)
  BY StagedReadsAssumption DEF StagedInv, StreamTypes
<1>4. pending["compute"] \o <<WaitFor("copy", recorded[e])>> \in Seq(EventWait)
  BY <1>2, <1>3
<1>5. /\ DOMAIN pending' = Stream
      /\ pending'["compute"] \in Seq(EventWait)
      /\ \A s \in Stream \ {"compute"} : pending'[s] = pending[s]
  BY <1>1, <1>3, <1>4
<1> QED BY <1>1, <1>3, <1>5 DEF StagedInv, StreamTypes

LEMMA GetStep == ASSUME StagedInv, NEW e \in Staged, GetPointer(e) PROVE StagedInv'
<1>1. /\ records[e].resident /\ AwaitEvent(e)
      /\ UNCHANGED <<usage, recorded, requests, available, front, bytes>>
      /\ \/ /\ records[e].buf = front
            /\ pointer' = [pointer EXCEPT ![e] = records[e].ptr]
            /\ records' = [records EXCEPT ![e] = MarkAccessed(Activate(@))]
         \/ UNCHANGED <<pointer, records>>
  BY DEF GetPointer
<1>2. /\ StreamTypes' /\ ran' = ran
      /\ pending'["copy"] = pending["copy"] /\ pending'["caller"] = pending["caller"]
  BY <1>1, WaitIssued
<1>3. CASE UNCHANGED <<pointer, records>>
  <2>1. StagedTypes'
    BY <1>1, <1>3 DEF StagedInv, StagedTypes
  <2>2. RecordsSound' /\ PointersSound'
    BY <1>1, <1>2, <1>3 DEF StagedInv, RecordsSound, PointersSound
  <2>3. ReadsSound'
    BY <1>1, <1>2 DEF StagedInv, ReadsSound
  <2> QED BY <1>2, <2>1, <2>2, <2>3 DEF StagedInv
<1>4. ASSUME records[e].buf = front,
             pointer' = [pointer EXCEPT ![e] = records[e].ptr],
             records' = [records EXCEPT ![e] = MarkAccessed(Activate(@))]
      PROVE  StagedInv'
  <2> DEFINE r == MarkAccessed(Activate(records[e]))
  <2>1. records[e] \in ExpertRecord /\ records \in [Staged -> ExpertRecord]
        /\ pointer \in [Staged -> {0, 1, Null}] /\ front \in {0, 1}
    BY DEF StagedInv, StagedTypes
  <2>2. RecordSound(records[e])
    BY DEF StagedInv, RecordsSound
  <2>3. Published(records[e]) /\ records[e].ptr = front
    BY <1>1, <1>4, <2>2 DEF RecordSound
  <2>4. r = [records[e] EXCEPT !.state = "Active", !.refs = @ + 1]
    BY <2>1 DEF MarkAccessed, Activate, ExpertRecord
  <2>5. r \in ExpertRecord /\ r.refs # 0
    <3>1. records[e].refs + 1 \in Nat \ {0}
      BY <2>1 DEF ExpertRecord
    <3>2. r.refs = records[e].refs + 1
      BY <2>1, <2>4 DEF ExpertRecord
    <3>3. r \in ExpertRecord
      BY <2>1, <2>4, <3>1 DEF ExpertRecord, ResidentState
    <3> QED BY <3>1, <3>2, <3>3
  <2>6. RecordSound(r) /\ Published(r) /\ r.buf = front
    BY <1>1, <1>4, <2>1, <2>2, <2>3, <2>4 DEF RecordSound, Published, ExpertRecord
  <2>7. records' = [records EXCEPT ![e] = r]
    BY <1>4
  <2> HIDE DEF r
  <2>8. records' \in [Staged -> ExpertRecord] /\ records'[e] = r
        /\ \A f \in Staged \ {e} : records'[f] = records[f]
    BY <2>1, <2>5, <2>7
  <2>9. pointer' \in [Staged -> {0, 1, Null}] /\ pointer'[e] = front
        /\ \A f \in Staged \ {e} : pointer'[f] = pointer[f]
    BY <1>4, <2>1, <2>3
  <2>10. StagedTypes'
    BY <1>1, <2>8, <2>9 DEF StagedInv, StagedTypes
  <2>11. RecordsSound'
    <3>1. Carries(pending["copy"], bytes[front], e, front)
      BY <1>4, <2>3 DEF StagedInv, RecordsSound
    <3> QED BY <1>1, <1>2, <2>6, <2>8, <3>1 DEF StagedInv, RecordsSound
  <2>12. PointersSound'
    BY <1>1, <2>5, <2>6, <2>8, <2>9 DEF StagedInv, PointersSound
  <2>13. ReadsSound'
    BY <1>1, <1>2 DEF StagedInv, ReadsSound
  <2> QED BY <1>2, <2>10, <2>11, <2>12, <2>13 DEF StagedInv
<1> QED BY <1>1, <1>3, <1>4

LEMMA ReadStep == ASSUME StagedInv, NEW e \in Staged, ReadThrough(e) PROVE StagedInv'
<1> DEFINE op == Work(e, "read", {pointer[e]}, {})
<1>1. /\ pointer[e] # Null /\ (usage.beforeRead => AllDrained)
      /\ Issue("caller", <<op>>)
      /\ UNCHANGED <<usage, records, recorded, requests, available, front, bytes, pointer>>
  BY DEF ReadThrough
<1>2. {"copy", "compute", "caller"} \subseteq Stream /\ DOMAIN pending = Stream
  BY StagedReadsAssumption DEF StagedInv, StreamTypes
<1>3. \A s \in Stream : pending[s] = <<>>
  BY <1>1 DEF AllDrained, Drained, StagedInv, StagedTypes
<1>4. /\ pointer[e] = front /\ front \in {0, 1} /\ records[e].buf = front
      /\ Published(records[e])
  BY <1>1 DEF StagedInv, StagedTypes, PointersSound
<1>5. bytes[front] = e
  <2>1. Carries(pending["copy"], bytes[front], e, front)
    BY <1>4 DEF StagedInv, RecordsSound
  <2>2. ~ \E i \in 1..Len(pending["copy"]) : TRUE
    BY <1>2, <1>3
  <2> QED BY <2>1, <2>2 DEF Carries
<1>6. op \in ReadWork /\ op.reads = {front} /\ op.by = e
  BY <1>4 DEF Work, ReadWork
<1> HIDE DEF op
<1>7. pending' = [pending EXCEPT !["caller"] = @ \o <<op>>] /\ ran' = ran
  BY <1>1 DEF Issue
<1>8. /\ DOMAIN pending' = Stream /\ pending'["caller"] = <<op>>
      /\ \A s \in Stream \ {"caller"} : pending'[s] = <<>>
  <2>1. <<>> \o <<op>> = <<op>>
    OBVIOUS
  <2> QED BY <1>2, <1>3, <1>7, <2>1
<1>9. <<op>> \in Seq(ReadWork) /\ \A i \in 1..Len(<<op>>) : <<op>>[i] = op
  BY <1>6
<1>10. StreamTypes'
  BY <1>2, <1>7, <1>8, <1>9 DEF StagedInv, StreamTypes
<1>11. pending'["copy"] = pending["copy"] /\ Len(pending'["copy"]) = 0
  BY <1>2, <1>3, <1>8
<1>12. StagedTypes' /\ PointersSound'
  BY <1>1 DEF StagedInv, StagedTypes, PointersSound
<1>13. RecordsSound'
  BY <1>1, <1>11 DEF StagedInv, RecordsSound
<1>14. ReadsSound'
  BY <1>1, <1>5, <1>6, <1>8, <1>9, <1>11 DEF ReadsSound
<1> QED BY <1>10, <1>12, <1>13, <1>14 DEF StagedInv

LEMMA ReleaseStep == ASSUME StagedInv, NEW e \in Staged, ReleaseExpert(e) PROVE StagedInv'
<1> DEFINE r == ReleaseRef(records[e])
<1>1. /\ pointer' = [pointer EXCEPT ![e] = Null]
      /\ records' = [records EXCEPT ![e] = r]
      /\ UNCHANGED <<usage, recorded, requests, available, front, bytes, pending, ran>>
  BY DEF ReleaseExpert, streamVars
<1>2. records[e] \in ExpertRecord /\ records \in [Staged -> ExpertRecord]
      /\ pointer \in [Staged -> {0, 1, Null}]
  BY DEF StagedInv, StagedTypes
<1>3. \E n \in Nat : r = [records[e] EXCEPT !.refs = n]
  <2>1. CASE records[e].refs # 0
    <3>1. records[e].refs - 1 \in Nat
      BY <1>2, <2>1 DEF ExpertRecord
    <3> QED BY <2>1, <3>1 DEF ReleaseRef
  <2>2. CASE records[e].refs = 0
    <3>1. r = [records[e] EXCEPT !.refs = 0]
      BY <1>2, <2>2 DEF ReleaseRef, ExpertRecord
    <3> QED BY <3>1
  <2> QED BY <2>1, <2>2
<1>4. r \in ExpertRecord /\ r.state = records[e].state /\ r.buf = records[e].buf
      /\ r.imported = records[e].imported /\ r.resident = records[e].resident
      /\ r.ptr = records[e].ptr
  BY <1>2, <1>3 DEF ExpertRecord
<1>5. (Published(r) <=> Published(records[e])) /\ (RecordSound(records[e]) => RecordSound(r))
  BY <1>4 DEF Published, RecordSound
<1> HIDE DEF r
<1>6. records' \in [Staged -> ExpertRecord] /\ records'[e] = r
      /\ \A f \in Staged \ {e} : records'[f] = records[f]
  BY <1>1, <1>2, <1>4
<1>7. pointer' \in [Staged -> {0, 1, Null}] /\ pointer'[e] = Null
      /\ \A f \in Staged \ {e} : pointer'[f] = pointer[f]
  BY <1>1, <1>2
<1>8. StagedTypes' /\ StreamTypes'
  BY <1>1, <1>6, <1>7 DEF StagedInv, StagedTypes, StreamTypes
<1>9. RecordsSound'
  BY <1>1, <1>4, <1>5, <1>6 DEF StagedInv, RecordsSound
<1>10. PointersSound'
  BY <1>1, <1>6, <1>7 DEF StagedInv, PointersSound
<1>11. ReadsSound'
  BY <1>1 DEF StagedInv, ReadsSound
<1> QED BY <1>8, <1>9, <1>10, <1>11 DEF StagedInv

(* A swap finds no pointer out and no read under way.                      *)
LEMMA SwapStep == ASSUME StagedInv, SwapBuffers PROVE StagedInv'
<1> DEFINE there == {e \in Staged : Occupies(records[e], front)}
<1>1. /\ usage.beforeSwap => Drained("caller")
      /\ \A e \in there : CanEvict(records[e])
      /\ records' = [e \in Staged |-> IF e \in there THEN Evict(records[e]) ELSE records[e]]
      /\ front' = 1 - front /\ available' = TRUE
      /\ UNCHANGED <<usage, recorded, requests, bytes, pointer, pending, ran>>
  BY DEF SwapBuffers, streamVars
<1>2. front \in {0, 1} /\ front' \in {0, 1} /\ front' # front
  BY <1>1 DEF StagedInv, StagedTypes
<1>3. pending["caller"] = <<>>
  BY <1>1 DEF StagedInv, StagedTypes, Drained
<1>4. records \in [Staged -> ExpertRecord] /\ \A e \in Staged : RecordSound(records[e])
  BY DEF StagedInv, StagedTypes, RecordsSound
<1>5. \A e \in Staged : pointer[e] = Null
  <2> SUFFICES ASSUME NEW e \in Staged, pointer[e] # Null PROVE FALSE
    OBVIOUS
  <2>1. records[e].buf = front /\ Published(records[e]) /\ records[e].refs # 0
    BY DEF StagedInv, PointersSound
  <2>2. e \in there
    BY <1>4, <2>1 DEF Occupies, RecordSound
  <2> QED BY <1>1, <2>1, <2>2 DEF CanEvict
<1>6. ASSUME NEW e \in Staged
      PROVE  /\ records'[e] \in ExpertRecord /\ RecordSound(records'[e])
             /\ Published(records'[e]) =>
                  records'[e] = records[e] /\ records[e].buf # front
  <2>1. CASE e \in there
    <3>1. records'[e] = [records[e] EXCEPT !.resident = FALSE, !.ptr = Null, !.state = "Evicted"]
      BY <1>1, <2>1 DEF Evict
    <3>2. records'[e] \in ExpertRecord /\ ~Published(records'[e])
      BY <1>4, <3>1 DEF ExpertRecord, Published, ResidentState, Pointer
    <3>3. RecordSound(records'[e])
      BY <1>4, <3>1, <3>2 DEF ExpertRecord, RecordSound
    <3> QED BY <3>2, <3>3
  <2>2. CASE e \notin there
    <3>1. records'[e] = records[e]
      BY <1>1, <2>2
    <3>2. Published(records[e]) => records[e].buf # front
      BY <1>4, <2>2 DEF Occupies, RecordSound
    <3> QED BY <1>4, <3>1, <3>2
  <2> QED BY <2>1, <2>2
<1>7. records' \in [Staged -> ExpertRecord]
  <2>1. records' = [e \in Staged |-> records'[e]]
    BY <1>1
  <2> QED BY <1>6, <2>1
<1>8. StagedTypes' /\ StreamTypes'
  BY <1>1, <1>2, <1>7 DEF StagedInv, StagedTypes, StreamTypes
<1> HIDE DEF there
<1>9. \A e \in Staged : Published(records'[e]) => records'[e].buf = front'
  <2>1. ASSUME NEW e \in Staged, Published(records'[e]) PROVE records'[e].buf = front'
    <3>1. records[e].buf \in {0, 1} /\ records[e].buf # front /\ records'[e] = records[e]
      BY <1>4, <1>6, <2>1 DEF ExpertRecord, Buffer
    <3> QED BY <1>1, <1>2, <3>1
  <2> QED BY <2>1
<1>10. RecordsSound'
  BY <1>1, <1>6, <1>9 DEF StagedInv, RecordsSound
<1>11. PointersSound'
  BY <1>1, <1>5 DEF PointersSound
<1>12. ReadsSound'
  BY <1>1, <1>3 DEF ReadsSound
<1> QED BY <1>8, <1>10, <1>11, <1>12 DEF StagedInv

(* The device runs the oldest operation of a stream.                       *)
LEMMA RunsStep == ASSUME StagedInv, NEW s \in Stream, StreamRuns(s) PROVE StagedInv'
<1> DEFINE q == pending["copy"]
           op == Head(pending[s])
<1>1. /\ pending[s] # <<>> /\ pending' = [pending EXCEPT ![s] = Tail(@)]
      /\ ran' = [ran EXCEPT ![s] = @ + 1]
      /\ UNCHANGED <<usage, records, recorded, requests, available, front, pointer>>
  BY DEF StreamRuns, RunOne, MayRun
<1>2. bytes' = IF op.do # "wait" /\ op.do = "copy"
               THEN [b \in {0, 1} |-> IF b \in op.writes THEN op.by ELSE bytes[b]]
               ELSE bytes
  BY <1>1 DEF StreamRuns, Waits, Front, Buffer
<1>3. /\ DOMAIN pending = Stream /\ ran \in [Stream -> Nat]
      /\ {"copy", "compute", "caller"} \subseteq Stream
      /\ q \in Seq(CopyWork)
      /\ pending["compute"] \in Seq(EventWait) /\ pending["caller"] \in Seq(ReadWork)
      /\ \A t \in Stream \ {"copy", "compute", "caller"} : pending[t] = <<>>
  BY StagedReadsAssumption DEF StagedInv, StreamTypes
<1>4. /\ DOMAIN pending' = Stream /\ pending'[s] = Tail(pending[s])
      /\ \A t \in Stream \ {s} : pending'[t] = pending[t]
  BY <1>1, <1>3
<1>5. ran' \in [Stream -> Nat]
  BY <1>1, <1>3
<1>6. front \in {0, 1} /\ bytes \in [{0, 1} -> Staged \cup {NoBytes}]
  BY DEF StagedInv, StagedTypes
<1>7. CASE s = "copy"
  <2>1. op \in CopyWork /\ Tail(q) \in Seq(CopyWork) /\ op = q[1] /\ Len(q) \in Nat \ {0}
        /\ Len(Tail(q)) = Len(q) - 1 /\ \A i \in 1..Len(Tail(q)) : Tail(q)[i] = q[i + 1]
    BY <1>1, <1>3, <1>7
  <2>2. op.do = "copy" /\ op.by \in Staged /\ op.writes \in {{0}, {1}}
    BY <2>1 DEF CopyWork
  <2>3. \A b \in {0, 1} : b \in op.writes <=> op.writes = {b}
    BY <2>2
  <2> HIDE DEF op
  <2>4. bytes' = [b \in {0, 1} |-> IF b \in op.writes THEN op.by ELSE bytes[b]]
    BY <1>2, <2>2
  <2>5. bytes' \in [{0, 1} -> Staged \cup {NoBytes}]
        /\ \A b \in {0, 1} : bytes'[b] = IF op.writes = {b} THEN op.by ELSE bytes[b]
    BY <1>6, <2>2, <2>3, <2>4
  <2>6. pending'["copy"] = Tail(q) /\ pending'["caller"] = pending["caller"]
        /\ pending'["compute"] = pending["compute"]
    BY <1>3, <1>4, <1>7
  <2>7. StagedTypes'
    BY <1>1, <2>5 DEF StagedInv, StagedTypes
  <2>8. StreamTypes'
    BY <1>3, <1>4, <1>5, <1>7, <2>1, <2>6 DEF StreamTypes
  <2>9. ASSUME NEW e \in Staged, Published(records[e])
        PROVE  Carries(Tail(q), bytes'[records[e].buf], e, records[e].buf)
    <3>1. records[e].buf \in {0, 1}
      BY DEF StagedInv, StagedTypes, ExpertRecord, Buffer
    <3>2. Carries(q, bytes[records[e].buf], e, records[e].buf)
      BY <2>9 DEF StagedInv, RecordsSound
    <3>3. bytes'[records[e].buf] = IF Head(q).writes = {records[e].buf} THEN Head(q).by
                                   ELSE bytes[records[e].buf]
      BY <1>7, <2>5, <3>1 DEF op
    <3> QED BY <1>1, <1>3, <1>7, <3>1, <3>2, <3>3, CarriesRun
  <2>10. RecordsSound'
    BY <1>1, <2>6, <2>9 DEF StagedInv, RecordsSound
  <2>11. PointersSound'
    BY <1>1 DEF StagedInv, PointersSound
  <2>12. ReadsSound'
    <3> SUFFICES ASSUME NEW i \in 1..Len(pending["caller"])
                 PROVE  LET r == pending["caller"][i] IN
                        /\ r.reads = {front} /\ bytes'[front] = r.by
                        /\ \A j \in 1..Len(Tail(q)) : Tail(q)[j].writes = {1 - front}
      BY <1>1, <2>6 DEF ReadsSound
    <3>1. /\ pending["caller"][i].reads = {front} /\ bytes[front] = pending["caller"][i].by
          /\ \A j \in 1..Len(q) : q[j].writes = {1 - front}
      BY DEF StagedInv, ReadsSound
    <3>2. 1 \in 1..Len(q) /\ \A j \in 1..Len(Tail(q)) : j + 1 \in 1..Len(q)
      BY <2>1
    <3>3. op.writes = {1 - front} /\ {1 - front} # {front}
      BY <1>6, <2>1, <3>1, <3>2
    <3>4. bytes'[front] = bytes[front]
      BY <1>6, <2>5, <3>3
    <3> QED BY <2>1, <3>1, <3>2, <3>4
  <2> QED BY <2>7, <2>8, <2>10, <2>11, <2>12 DEF StagedInv
<1>8. CASE s # "copy"
  <2>1. s \in {"compute", "caller"}
    BY <1>1, <1>3, <1>8
  <2>2. op.do # "copy"
    <3>1. CASE s = "compute"
      <4>1. op \in EventWait
        BY <1>1, <1>3, <3>1
      <4> QED BY <4>1 DEF EventWait
    <3>2. CASE s = "caller"
      <4>1. op \in ReadWork
        BY <1>1, <1>3, <3>2
      <4> QED BY <4>1 DEF ReadWork
    <3> QED BY <2>1, <3>1, <3>2
  <2>3. bytes' = bytes
    BY <1>2, <2>2
  <2>4. pending'["copy"] = q
    BY <1>3, <1>4, <1>8
  <2>5. StagedTypes' /\ PointersSound'
    BY <1>1, <2>3 DEF StagedInv, StagedTypes, PointersSound
  <2>6. RecordsSound'
    BY <1>1, <2>3, <2>4 DEF StagedInv, RecordsSound
  <2>7. CASE s = "compute"
    <3>1. Tail(pending["compute"]) \in Seq(EventWait)
      BY <1>1, <1>3, <2>7
    <3>2. pending'["compute"] \in Seq(EventWait) /\ pending'["caller"] = pending["caller"]
          /\ \A t \in Stream \ {"copy", "compute", "caller"} : pending'[t] = pending[t]
      BY <1>3, <1>4, <2>7, <3>1
    <3>3. StreamTypes'
      BY <1>3, <1>4, <1>5, <2>4, <3>2 DEF StreamTypes
    <3>4. ReadsSound'
      BY <1>1, <2>3, <2>4, <3>2 DEF StagedInv, ReadsSound
    <3> QED BY <2>5, <2>6, <3>3, <3>4 DEF StagedInv
  <2>8. CASE s = "caller"
    <3> DEFINE p == pending["caller"]
    <3>1. Tail(p) \in Seq(ReadWork) /\ \A i \in 1..Len(Tail(p)) : i + 1 \in 1..Len(p)
          /\ Tail(p)[i] = p[i + 1]
      BY <1>1, <1>3, <2>8
    <3>2. pending'["caller"] = Tail(p) /\ pending'["compute"] = pending["compute"]
          /\ \A t \in Stream \ {"copy", "compute", "caller"} : pending'[t] = pending[t]
      BY <1>3, <1>4, <2>8
    <3>3. StreamTypes'
      BY <1>3, <1>4, <1>5, <2>4, <3>1, <3>2 DEF StreamTypes
    <3>4. \A i \in 1..Len(p) : /\ p[i].reads = {front} /\ bytes[front] = p[i].by
                               /\ \A j \in 1..Len(q) : q[j].writes = {1 - front}
      BY DEF StagedInv, ReadsSound
    <3> HIDE DEF p, q
    <3>5. ASSUME NEW i \in 1..Len(Tail(p))
          PROVE  /\ Tail(p)[i].reads = {front} /\ bytes[front] = Tail(p)[i].by
                 /\ \A j \in 1..Len(q) : q[j].writes = {1 - front}
      BY <3>1, <3>4
    <3>6. ReadsSound'
      BY <1>1, <2>3, <2>4, <3>2, <3>5 DEF ReadsSound
    <3> QED BY <2>5, <2>6, <3>3, <3>6 DEF StagedInv
  <2> QED BY <2>1, <2>7, <2>8
<1> QED BY <1>7, <1>8

LEMMA StagedStep == StagedInv /\ [StagedNext]_stagedVars => StagedInv'
<1> SUFFICES ASSUME StagedInv, [StagedNext]_stagedVars PROVE StagedInv'
  OBVIOUS
<1>1. ASSUME UNCHANGED <<usage, records, available, front, bytes, pointer, recorded,
                         pending, ran>>, requests' \in Seq(Staged)
      PROVE  StagedInv'
  <2>1. StagedTypes' /\ StreamTypes'
    BY <1>1 DEF StagedInv, StagedTypes, StreamTypes
  <2>2. RecordsSound' /\ PointersSound' /\ ReadsSound'
    BY <1>1 DEF StagedInv, RecordsSound, PointersSound, ReadsSound
  <2> QED BY <2>1, <2>2 DEF StagedInv
<1>2. requests \in Seq(Staged)
  BY DEF StagedInv, StagedTypes
<1>3. CASE WorkerSkip
  <2>1. Tail(requests) \in Seq(Staged)
    BY <1>2, <1>3 DEF WorkerSkip
  <2> QED BY <1>1, <1>3, <2>1 DEF WorkerSkip, streamVars
<1>4. ASSUME NEW e \in Staged, Prefetch(e) PROVE StagedInv'
  <2>1. Append(requests, e) \in Seq(Staged)
    BY <1>2
  <2> QED BY <1>1, <1>4, <2>1 DEF Prefetch, streamVars
<1>5. ASSUME NEW e \in Staged, WaitCall(e) PROVE StagedInv'
  <2>1. UNCHANGED <<usage, records, recorded, requests, available, front, bytes, pointer>>
    BY <1>5 DEF WaitCall
  <2>2. /\ StreamTypes' /\ ran' = ran
        /\ pending'["copy"] = pending["copy"] /\ pending'["caller"] = pending["caller"]
    BY <1>5, WaitIssued DEF WaitCall
  <2>3. StagedTypes' /\ PointersSound'
    BY <2>1 DEF StagedInv, StagedTypes, PointersSound
  <2>4. RecordsSound' /\ ReadsSound'
    BY <2>1, <2>2 DEF StagedInv, RecordsSound, ReadsSound
  <2> QED BY <2>2, <2>3, <2>4 DEF StagedInv
<1>6. CASE UNCHANGED stagedVars
  BY <1>1, <1>2, <1>6 DEF stagedVars, streamVars
<1> QED BY <1>3, <1>4, <1>5, <1>6, ServeStep, GetStep, ReadStep, ReleaseStep, SwapStep,
           RunsStep DEF StagedNext

(* What runs next on the callers' stream reads the front buffer, on the    *)
(* copy stream writes the other.                                           *)
LEMMA StagedInvIsSafe == StagedInv => StagingSafe
<1> SUFFICES ASSUME StagedInv PROVE StagingSafe
  OBVIOUS
<1>1. /\ {"copy", "compute", "caller"} \subseteq Stream
      /\ pending["copy"] \in Seq(CopyWork)
      /\ pending["compute"] \in Seq(EventWait) /\ pending["caller"] \in Seq(ReadWork)
      /\ \A t \in Stream \ {"copy", "compute", "caller"} : pending[t] = <<>>
      /\ front \in {0, 1}
  BY StagedReadsAssumption DEF StagedInv, StreamTypes, StagedTypes
<1>2. ASSUME pending["caller"] # <<>>
      PROVE  /\ Front("caller").reads = {front} /\ bytes[front] = Front("caller").by
             /\ Front("caller").writes = {}
             /\ pending["copy"] # <<>> => Front("copy").writes = {1 - front}
  <2>1. 1 \in 1..Len(pending["caller"]) /\ Front("caller") = pending["caller"][1]
        /\ pending["caller"][1] \in ReadWork
    BY <1>1, <1>2 DEF Front
  <2>2. pending["copy"] # <<>> => 1 \in 1..Len(pending["copy"])
                                  /\ Front("copy") = pending["copy"][1]
    BY <1>1 DEF Front
  <2>3. Front("caller").writes = {}
    BY <2>1 DEF ReadWork
  <2> QED BY <2>1, <2>2, <2>3 DEF StagedInv, ReadsSound
<1>3. ReadsRight
  <2> SUFFICES ASSUME NEW s \in Stream, MayRunWork(s), Front(s).do = "read"
               PROVE  \A b \in Front(s).reads : bytes[b] = Front(s).by
    BY DEF ReadsRight
  <2>1. pending[s] # <<>>
    BY DEF MayRunWork, MayRun
  <2>2. CASE s = "copy"
    <3>1. Front(s) \in CopyWork
      BY <1>1, <2>1, <2>2 DEF Front
    <3> QED BY <3>1 DEF CopyWork
  <2>3. CASE s = "compute"
    <3>1. Front(s) \in EventWait
      BY <1>1, <2>1, <2>3 DEF Front
    <3> QED BY <3>1 DEF EventWait
  <2> QED BY <1>1, <1>2, <2>1, <2>2, <2>3
<1>4. NoBufferClash
  <2>1. ~Clash("copy", "caller")
    <3> SUFFICES ASSUME Clash("copy", "caller") PROVE FALSE
      OBVIOUS
    <3>1. pending["copy"] # <<>> /\ pending["caller"] # <<>>
      BY DEF Clash, MayRunWork, MayRun
    <3>2. {1 - front} \cap ({front} \cup {}) = {}
      BY <1>1
    <3> QED BY <1>2, <3>1, <3>2 DEF Clash
  <2>2. ~Clash("caller", "copy")
    <3> SUFFICES ASSUME Clash("caller", "copy") PROVE FALSE
      OBVIOUS
    <3>1. pending["caller"] # <<>>
      BY DEF Clash, MayRunWork, MayRun
    <3> QED BY <1>2, <3>1 DEF Clash
  <2> QED BY <2>1, <2>2 DEF NoBufferClash
<1> QED BY <1>3, <1>4 DEF StagingSafe

(* communication_engine.cpp, cuda_events.cpp: for any number of experts,   *)
(* copies and kernels, a caller that waits for the device before it reads  *)
(* through a pointer, and for its kernels before it swaps, always reads    *)
(* its expert's bytes, and no copy ever runs into a buffer being read.     *)
THEOREM SynchronizedReadsAreSafe ==
  ASSUME Synchronized PROVE StagedSpec => []StagingSafe
<1>1. StagedInit => StagedInv
  BY StagedInitOK
<1>2. StagedInv /\ [StagedNext]_stagedVars => StagedInv'
  BY StagedStep
<1>3. StagedInv => StagingSafe
  BY StagedInvIsSafe
<1> QED BY <1>1, <1>2, <1>3, PTL DEF StagedSpec

-----------------------------------------------------------------------------
(* The shared expert.  q stands for what is pending on the streams, r for  *)
(* how far they have got; an operation is known by its stream and by its   *)
(* position there, counted from the first ever issued.                     *)
EndOf(q, r, s) == r[s] + Len(q[s])
OpAt(q, r, s, k) == q[s][k - r[s]]
Due(q, r, s, k) == k \in Nat /\ r[s] < k /\ k <= EndOf(q, r, s)
WaitsAt(q, r, s, k) == Due(q, r, s, k) /\ OpAt(q, r, s, k).do = "wait"
WritesAt(q, r, s, k, b) ==
  /\ Due(q, r, s, k) /\ OpAt(q, r, s, k).do # "wait"
  /\ b \in OpAt(q, r, s, k).writes
ReadsAt(q, r, s, k, b) ==
  /\ Due(q, r, s, k) /\ OpAt(q, r, s, k).do # "wait"
  /\ b \in OpAt(q, r, s, k).reads
PassAt(q, r, s, k) == OpAt(q, r, s, k).by[2]

\* How far the streams may have got together, as far as the waits say.
Cut(q, r, n) ==
  /\ n \in [Stream -> Nat]
  /\ \A t \in Stream : r[t] <= n[t] /\ n[t] <= EndOf(q, r, t)
  /\ \A t \in Stream : \A k \in Nat :
       WaitsAt(q, r, t, k) /\ k <= n[t]
         => OpAt(q, r, t, k).position <= n[OpAt(q, r, t, k).on]

\* Once s has got to k, t has got to p.
Knows(q, r, s, k, t, p) ==
  \A n \in [Stream -> Nat] : Cut(q, r, n) /\ k <= n[s] => p <= n[t]
\* What is issued to s from now on comes after what t has at k.
Joined(q, r, s, t, k) == Knows(q, r, s, EndOf(q, r, s), t, k)
\* When t starts what it has at j, s is done with what it has at k.
Before(q, r, s, k, t, j) == Knows(q, r, t, j - 1, s, k)

-----------------------------------------------------------------------------
\* The operations of a forward pass.
Kernels == {"embed", "move", "shared", "routed", "sum", "after"}
Values == {"hidden", "shared", "routed", "sum"} \X Nat \X Nat
WellFormed(o) ==
  \E p \in Nat, l \in Nat, a \in Blocks, b \in Blocks, c \in Blocks :
    \/ o = Work(Value("hidden", p, l), "embed", {}, {b})
    \/ o = Work(Value("hidden", p, l), "move", {a}, {b})
    \/ o = Work(Value("shared", p, l), "shared", {a}, {b})
    \/ o = Work(Value("routed", p, l), "routed", {a}, {b})
    \/ a # c /\ o = Work(Value("sum", p, l), "sum", {a, c}, {a})
    \/ o = Work(Value("hidden", p, l + 1), "after", {a}, {b})
\* What it has to find in a block to leave what it is said to.
Needs(o, b) ==
  IF o.do = "move" THEN o.by
  ELSE IF o.do = "after" THEN Value("sum", o.by[2], o.by[3] - 1)
  ELSE IF o.do # "sum" THEN Value("hidden", o.by[2], o.by[3])
  ELSE IF b \in o.writes THEN Value("routed", o.by[2], o.by[3])
  ELSE Value("shared", o.by[2], o.by[3])

OverlapWait == [do : {"wait"}, on : Stream, position : Nat]
OverlapWork == [do : Kernels, by : Values, reads : SUBSET Blocks, writes : SUBSET Blocks]

\* Streams are well formed and wait only for what has been issued.
Wired(q, r) ==
  /\ q \in [Stream -> Seq(OverlapWait \cup OverlapWork)] /\ r \in [Stream -> Nat]
  /\ \A s \in Stream : \A k \in Nat : Due(q, r, s, k) =>
       IF OpAt(q, r, s, k).do = "wait"
       THEN OpAt(q, r, s, k).position <= EndOf(q, r, OpAt(q, r, s, k).on)
       ELSE WellFormed(OpAt(q, r, s, k))

\* Two streams never meet in a block that one of them writes; a pass that
\* raised may still read what has been given away.
Ordered(q, r, ls) ==
  \A s \in Stream, t \in Stream : \A k \in Nat, j \in Nat : \A b \in Blocks :
    s # t /\ WritesAt(q, r, s, k, b) =>
      /\ WritesAt(q, r, t, j, b) =>
           Before(q, r, s, k, t, j) \/ Before(q, r, t, j, s, k)
      /\ ReadsAt(q, r, t, j, b) =>
           \/ Before(q, r, s, k, t, j) \/ Before(q, r, t, j, s, k)
           \/ PassAt(q, r, t, j) \in ls

\* When t gets to j it finds v in b: it is there and nobody will have replaced
\* it, or the last to write b before then leaves it.
Gets(q, r, c, t, j, b, v) ==
  \/ /\ c[b] = v
     /\ \A s \in Stream : \A k \in Nat : WritesAt(q, r, s, k, b) =>
          (s = t /\ k = j) \/ Before(q, r, t, j, s, k)
  \/ \E u \in Stream : \E m \in Nat :
       /\ WritesAt(q, r, u, m, b) /\ OpAt(q, r, u, m).by = v
       /\ Before(q, r, u, m, t, j)
       /\ \A s \in Stream : \A k \in Nat : WritesAt(q, r, s, k, b) =>
            \/ s = u /\ k = m
            \/ Before(q, r, s, k, u, m)
            \/ s = t /\ k = j
            \/ Before(q, r, t, j, s, k)

\* When all is done v is in b.
Will(q, r, c, b, v) ==
  \/ /\ c[b] = v
     /\ \A s \in Stream : \A k \in Nat : ~WritesAt(q, r, s, k, b)
  \/ \E u \in Stream : \E m \in Nat :
       /\ WritesAt(q, r, u, m, b) /\ OpAt(q, r, u, m).by = v
       /\ \A s \in Stream : \A k \in Nat : WritesAt(q, r, s, k, b) =>
            (s = u /\ k = m) \/ Before(q, r, s, k, u, m)

\* Whatever a pass that is still wanted reads is what it needs.
Fed(q, r, c, ls) ==
  \A t \in Stream : \A j \in Nat : \A b \in Blocks :
    ReadsAt(q, r, t, j, b) /\ PassAt(q, r, t, j) \notin ls
      => Gets(q, r, c, t, j, b, Needs(OpAt(q, r, t, j), b))

\* The stream a block belongs to comes after all who write it, and after those
\* who read it unless they are excused.
Hub(q, r, pl, ls, E, B) ==
  \A b \in B : \A t \in Stream : \A k \in Nat :
    /\ WritesAt(q, r, t, k, b) => pl[b] \in Stream /\ Joined(q, r, pl[b], t, k)
    /\ ReadsAt(q, r, t, k, b) =>
         /\ pl[b] \in Stream
         /\ \/ Joined(q, r, pl[b], t, k)
            \/ PassAt(q, r, t, k) \in ls
            \/ <<b, t, PassAt(q, r, t, k)>> \in E
\* Readers the stream of a block has yet to wait for: of the blocks of the
\* compute stream, the current one, for which the next launch waits; of the
\* tensor a layer starts from, the shared expert, for which the sum waits.
Excused(cu, pl, h, sh, ps) ==
  {x \in Blocks \X Stream \X Nat :
     \/ pl[x[1]] = Compute /\ x[2] = cu
     \/ sh # None /\ x[1] = h /\ pl[h] = cu /\ x[2] = Compute /\ x[3] = ps}

HostTypes ==
  /\ place \in Placements /\ enabled \in BOOLEAN
  /\ bound \in {None, Current}
  /\ pass \in 0..MaxPasses /\ layer \in 0..Layers
  /\ phase \in {"between", "layer", "launched", "routed", "added"}
  /\ hidden \in Blocks \cup {None} /\ routed \in Blocks \cup {None}
  /\ shared \in Blocks \cup {None}
  /\ pool \in [Blocks -> Stream \cup {None}]
  /\ content = [b \in Blocks |-> content[b]]
  /\ lost \subseteq 0..pass
  /\ answers = [p \in 1..MaxPasses |-> answers[p]]
HostBetween ==
  phase = "between" => hidden = None /\ routed = None /\ shared = None
HostInPass ==
  phase # "between" =>
    /\ layer \in 1..Layers /\ pass \notin lost /\ pass \in 1..MaxPasses
    /\ hidden \in Blocks /\ pool[hidden] = Here
HostHolds ==
  /\ phase = "routed" => routed \in Blocks /\ pool[routed] = Here /\ routed # hidden
  /\ phase # "routed" => routed = None
  /\ phase \in {"layer", "added"} => shared = None
  /\ shared # None => /\ bound # None /\ pool[shared] = SharedRunsOn(layer, bound)
                      /\ shared # hidden /\ shared # routed
HostBound ==
  enabled /\ bound = None => phase = "between" \/ (phase = "layer" /\ layer = 1)
HostAnswers ==
  \A p \in 1..MaxPasses : answers[p] # None => answers[p] = Value("hidden", p, Layers + 1)
HostInv == HostTypes /\ HostBetween /\ HostInPass /\ HostHolds /\ HostBound /\ HostAnswers

WillInv ==
  /\ phase \in {"layer", "launched", "routed"} =>
       Will(pending, ran, content, hidden, Value("hidden", pass, layer))
  /\ phase = "added" =>
       Will(pending, ran, content, hidden, Value("hidden", pass, layer + 1))
  /\ phase = "routed" =>
       Will(pending, ran, content, routed, Value("routed", pass, layer))
  /\ shared # None =>
       Will(pending, ran, content, shared, Value("shared", pass, layer))

Core(q, r, c, ls) == Wired(q, r) /\ Ordered(q, r, ls) /\ Fed(q, r, c, ls)
HubInv ==
  Hub(pending, ran, pool, lost, Excused(Current, pool, hidden, shared, pass), Blocks)

-----------------------------------------------------------------------------
\* What the streams know.

\* Knowledge passes on from stream to stream.
LEMMA KnowsTransitive ==
  ASSUME NEW q, NEW r, NEW s, NEW k, NEW t \in Stream, NEW p, NEW u, NEW m,
         Knows(q, r, s, k, t, p), Knows(q, r, t, p, u, m)
  PROVE  Knows(q, r, s, k, u, m)
BY DEF Knows

\* What is known at a point is known after it.
LEMMA KnowsLater ==
  ASSUME NEW q, NEW r, NEW s \in Stream, NEW k \in Int, NEW h \in Int, NEW t, NEW p,
         k <= h, Knows(q, r, s, k, t, p)
  PROVE  Knows(q, r, s, h, t, p)
BY DEF Knows

\* A stream that has got to k has got to every p before.
LEMMA KnowsItself ==
  ASSUME NEW q, NEW r, NEW s \in Stream, NEW k \in Int, NEW p \in Int, p <= k
  PROVE  Knows(q, r, s, k, s, p)
BY DEF Knows

\* Nothing due comes before what a stream has next, nor before what it has run.
LEMMA NothingBeforeNext ==
  ASSUME NEW q, NEW r \in [Stream -> Nat], NEW s \in Stream, NEW t \in Stream,
         NEW p \in Int, \A x \in Stream : q[x] \in Seq(OverlapWait \cup OverlapWork),
         Knows(q, r, t, r[t], s, p)
  PROVE  p <= r[s]
<1>1. Cut(q, r, r)
  BY DEF Cut, EndOf, WaitsAt, Due
<1> QED BY <1>1 DEF Knows

-----------------------------------------------------------------------------
\* Issuing one operation.

AppendTo(q, s, o) == [q EXCEPT ![s] = Append(@, o)]
AnyOp == OverlapWait \cup OverlapWork

\* Q is q with one operation more on s, as the positions tell it.
Extends(q, r, s, o, Q) ==
  /\ q \in [Stream -> Seq(AnyOp)] /\ r \in [Stream -> Nat] /\ s \in Stream /\ o \in AnyOp
  /\ Q \in [Stream -> Seq(AnyOp)]
  /\ \A t \in Stream : EndOf(q, r, t) \in Nat /\ r[t] <= EndOf(q, r, t)
  /\ EndOf(Q, r, s) = EndOf(q, r, s) + 1
  /\ \A t \in Stream : t # s => EndOf(Q, r, t) = EndOf(q, r, t)
  /\ \A t \in Stream : \A k \in Nat :
       Due(Q, r, t, k)
         <=> Due(q, r, t, k) \/ (t = s /\ k = EndOf(q, r, s) + 1)
  /\ \A t \in Stream : \A k \in Nat :
       Due(q, r, t, k) =>
         /\ OpAt(Q, r, t, k) = OpAt(q, r, t, k)
         /\ ~(t = s /\ k = EndOf(q, r, s) + 1)
         /\ OpAt(q, r, t, k) \in AnyOp
  /\ OpAt(Q, r, s, EndOf(q, r, s) + 1) = o

\* Appending to the pending operations extends the stream.
LEMMA AppendFacts ==
  ASSUME NEW q \in [Stream -> Seq(AnyOp)], NEW r \in [Stream -> Nat],
         NEW s \in Stream, NEW o \in AnyOp, NEW Q, Q = AppendTo(q, s, o)
  PROVE  Extends(q, r, s, o, Q)
<1>1. Q \in [Stream -> Seq(AnyOp)] /\ Q[s] = Append(q[s], o)
      /\ \A t \in Stream : t # s => Q[t] = q[t]
  BY DEF AppendTo
<1>2. \A t \in Stream : Len(q[t]) \in Nat /\ r[t] \in Nat
  OBVIOUS
<1>3. Len(Q[s]) = Len(q[s]) + 1 /\ Q[s][Len(q[s]) + 1] = o
      /\ \A i \in 1..Len(q[s]) : Q[s][i] = q[s][i]
  BY <1>1
<1>4. \A t \in Stream : EndOf(q, r, t) \in Nat /\ r[t] <= EndOf(q, r, t)
  <2> TAKE t \in Stream
  <2>1. Len(q[t]) \in Nat /\ r[t] \in Nat
    BY <1>2
  <2> QED BY ONLY <2>1 DEF EndOf
<1>5. \A t \in Stream : EndOf(Q, r, t) = IF t = s THEN EndOf(q, r, t) + 1 ELSE EndOf(q, r, t)
  <2> TAKE t \in Stream
  <2>1. Len(q[t]) \in Nat /\ r[t] \in Nat
    BY <1>2
  <2>2. Len(Q[t]) = IF t = s THEN Len(q[t]) + 1 ELSE Len(q[t])
    BY <1>1, <1>3
  <2> QED BY ONLY <2>1, <2>2 DEF EndOf
<1>6. ASSUME NEW t \in Stream, NEW k \in Nat
      PROVE  Due(Q, r, t, k) <=> Due(q, r, t, k) \/ (t = s /\ k = EndOf(q, r, s) + 1)
  BY <1>2, <1>4, <1>5 DEF Due
<1>7. ASSUME NEW t \in Stream, NEW k \in Nat, Due(q, r, t, k)
      PROVE  /\ OpAt(Q, r, t, k) = OpAt(q, r, t, k)
             /\ ~(t = s /\ k = EndOf(q, r, s) + 1)
             /\ OpAt(q, r, t, k) \in AnyOp
  <2>1. k - r[t] \in 1..Len(q[t]) /\ ~(t = s /\ k = EndOf(q, r, s) + 1)
    BY <1>2, <1>4, <1>7 DEF Due, EndOf
  <2>2. OpAt(Q, r, t, k) = OpAt(q, r, t, k)
    BY <2>1, <1>1, <1>3 DEF OpAt
  <2>3. q[t][k - r[t]] \in AnyOp
    BY <2>1
  <2> QED BY <2>1, <2>2, <2>3 DEF OpAt
<1>8. OpAt(Q, r, s, EndOf(q, r, s) + 1) = o
  <2>1. EndOf(q, r, s) + 1 - r[s] = Len(q[s]) + 1
    <3>1. Len(q[s]) \in Nat /\ r[s] \in Nat
      BY <1>2
    <3> QED BY ONLY <3>1 DEF EndOf
  <2>2. OpAt(Q, r, s, EndOf(q, r, s) + 1) = Q[s][Len(q[s]) + 1]
    <3>1. PICK e \in Int : e = EndOf(q, r, s) + 1 /\ e - r[s] = Len(q[s]) + 1
      BY <1>2, <1>4, <2>1
    <3> QED BY <3>1 DEF OpAt
  <2> QED BY <2>2, <1>3
<1> QED BY <1>1, <1>4, <1>5, <1>6, <1>7, <1>8 DEF Extends

\* A cut of the longer streams, cut back to the shorter ones.
LEMMA CutBack ==
  ASSUME NEW q, NEW r, Wired(q, r), NEW s, NEW o, NEW Q, Extends(q, r, s, o, Q), NEW n \in [Stream -> Nat], Cut(Q, r, n)
  PROVE  \E m \in [Stream -> Nat] :
           /\ Cut(q, r, m)
           /\ \A t \in Stream : m[t] = IF n[t] <= EndOf(q, r, t) THEN n[t] ELSE EndOf(q, r, t)
<1> DEFINE m == [t \in Stream |-> IF n[t] <= EndOf(q, r, t) THEN n[t] ELSE EndOf(q, r, t)]
<1>0. Extends(q, r, s, o, Q)
  OBVIOUS
<1>1. q \in [Stream -> Seq(AnyOp)] /\ r \in [Stream -> Nat]
  BY DEF Wired, AnyOp
<1>2. /\ \A t \in Stream : EndOf(q, r, t) \in Nat /\ r[t] <= EndOf(q, r, t)
      /\ \A t \in Stream, k \in Nat : Due(q, r, t, k) =>
           /\ OpAt(q, r, t, k) \in AnyOp
           /\ OpAt(Q, r, t, k) = OpAt(q, r, t, k) /\ Due(Q, r, t, k)
  BY <1>0 DEF Extends
<1>3. m \in [Stream -> Nat]
  BY <1>2
<1>4. \A t \in Stream : m[t] = IF n[t] <= EndOf(q, r, t) THEN n[t] ELSE EndOf(q, r, t)
  OBVIOUS
<1> HIDE DEF m
<1>5. \A t \in Stream : r[t] <= n[t]
  BY DEF Cut
<1>6. \A t \in Stream : r[t] <= m[t] /\ m[t] <= EndOf(q, r, t) /\ m[t] <= n[t]
  <2> TAKE t \in Stream
  <2>1. r[t] \in Nat /\ n[t] \in Nat /\ EndOf(q, r, t) \in Nat /\ r[t] <= EndOf(q, r, t)
        /\ r[t] <= n[t] /\ m[t] = IF n[t] <= EndOf(q, r, t) THEN n[t] ELSE EndOf(q, r, t)
    BY <1>1, <1>2, <1>4, <1>5
  <2> QED BY ONLY <2>1
<1>7. ASSUME NEW t \in Stream, NEW k \in Nat, WaitsAt(q, r, t, k), k <= m[t]
      PROVE  OpAt(q, r, t, k).position <= m[OpAt(q, r, t, k).on]
  <2>1. PICK w : w = OpAt(q, r, t, k)
    OBVIOUS
  <2>2. Due(q, r, t, k) /\ w.do = "wait" /\ w \in AnyOp /\ OpAt(Q, r, t, k) = w /\ Due(Q, r, t, k)
    BY <1>7, <1>2, <2>1 DEF WaitsAt
  <2>3. w.on \in Stream /\ w.position \in Nat
    BY <2>2 DEF AnyOp, OverlapWait, OverlapWork, Kernels
  <2>4. w.position <= EndOf(q, r, w.on)
    BY <2>1, <2>2 DEF Wired
  <2>5. k <= n[t]
    BY <1>3, <1>6, <1>7
  <2>6. w.position <= n[w.on]
    BY <2>2, <2>5 DEF Cut, WaitsAt
  <2>7. w.position <= m[w.on]
    BY <2>3, <2>4, <2>6, <1>4
  <2> QED BY <2>1, <2>7
<1>8. Cut(q, r, m)
  BY <1>3, <1>6, <1>7 DEF Cut
<1> QED BY <1>3, <1>4, <1>8

\* What is known stays known when more is issued.
LEMMA KnowsAppend ==
  ASSUME NEW q, NEW r, Wired(q, r), NEW s, NEW o, NEW Q, Extends(q, r, s, o, Q),
         NEW u \in Stream, NEW k \in Int, NEW t \in Stream, NEW p \in Int,
         k <= EndOf(q, r, u), Knows(q, r, u, k, t, p)
  PROVE  Knows(Q, r, u, k, t, p)
<1> SUFFICES ASSUME NEW n \in [Stream -> Nat], Cut(Q, r, n), k <= n[u]
             PROVE  p <= n[t]
  BY DEF Knows
<1>1. PICK m \in [Stream -> Nat] :
        /\ Cut(q, r, m)
        /\ \A x \in Stream : m[x] = IF n[x] <= EndOf(q, r, x) THEN n[x] ELSE EndOf(q, r, x)
  BY CutBack
<1>2. k <= m[u]
  BY <1>1
<1>3. p <= m[t]
  BY <1>1, <1>2 DEF Knows
<1>4. EndOf(q, r, t) \in Nat
  BY DEF Extends
<1> QED BY <1>1, <1>3, <1>4

\* What a stream has joined it has joined when more is issued.
LEMMA JoinedAppend ==
  ASSUME NEW q, NEW r, Wired(q, r), NEW s, NEW o, NEW Q, Extends(q, r, s, o, Q),
         NEW u \in Stream, NEW t \in Stream, NEW p \in Int, Joined(q, r, u, t, p)
  PROVE  Joined(Q, r, u, t, p)
<1>1. /\ EndOf(q, r, u) \in Nat /\ EndOf(Q, r, u) \in Nat
      /\ EndOf(q, r, u) <= EndOf(Q, r, u)
  <2>1. EndOf(q, r, u) \in Nat
        /\ (EndOf(Q, r, u) = EndOf(q, r, u) \/ EndOf(Q, r, u) = EndOf(q, r, u) + 1)
    BY DEF Extends
  <2> QED BY <2>1
<1>2. Knows(Q, r, u, EndOf(q, r, u), t, p)
  BY <1>1, KnowsAppend DEF Joined
<1>3. Knows(Q, r, u, EndOf(Q, r, u), t, p)
  BY <1>1, <1>2, KnowsLater
<1> QED BY <1>3 DEF Joined

\* A wait joins what the other stream has got to.
LEMMA WaitJoins ==
  ASSUME NEW q, NEW r, Wired(q, r), NEW s \in Stream, NEW t \in Stream, NEW p \in Nat,
         NEW Q, Extends(q, r, s, WaitFor(t, p), Q)
  PROVE  Joined(Q, r, s, t, p)
<1> DEFINE w == WaitFor(t, p)
           e == EndOf(q, r, s) + 1
<1>1. w \in AnyOp /\ w.do = "wait" /\ w.on = t /\ w.position = p
  BY DEF AnyOp, OverlapWait, WaitFor
<1>0. Extends(q, r, s, w, Q)
  OBVIOUS
<1> HIDE DEF w
<1>2. e \in Nat /\ EndOf(Q, r, s) = e /\ Due(Q, r, s, e) /\ OpAt(Q, r, s, e) = w
  BY <1>0 DEF Extends
<1> HIDE DEF e
<1>3. ASSUME NEW n \in [Stream -> Nat], Cut(Q, r, n), e <= n[s] PROVE p <= n[t]
  BY <1>1, <1>2, <1>3 DEF Cut, WaitsAt
<1>4. Knows(Q, r, s, e, t, p)
  BY <1>3 DEF Knows
<1> QED BY <1>2, <1>4 DEF Joined, w

\* Who writes and who reads when one operation more is issued.
LEMMA AccessAppend ==
  ASSUME NEW q, NEW r, NEW s, NEW o, NEW Q, Extends(q, r, s, o, Q),
         NEW t \in Stream, NEW k \in Nat
  PROVE  /\ \A b : WritesAt(Q, r, t, k, b) <=>
              \/ WritesAt(q, r, t, k, b)
              \/ t = s /\ k = EndOf(q, r, s) + 1 /\ o.do # "wait" /\ b \in o.writes
         /\ \A b : ReadsAt(Q, r, t, k, b) <=>
              \/ ReadsAt(q, r, t, k, b)
              \/ t = s /\ k = EndOf(q, r, s) + 1 /\ o.do # "wait" /\ b \in o.reads
<1>1. CASE Due(q, r, t, k)
  <2>1. OpAt(Q, r, t, k) = OpAt(q, r, t, k) /\ Due(Q, r, t, k)
        /\ ~(t = s /\ k = EndOf(q, r, s) + 1)
    BY <1>1 DEF Extends
  <2> QED BY <1>1, <2>1 DEF WritesAt, ReadsAt
<1>2. CASE t = s /\ k = EndOf(q, r, s) + 1
  <2>1. OpAt(Q, r, t, k) = o /\ Due(Q, r, t, k) /\ ~Due(q, r, t, k)
    BY <1>2 DEF Extends
  <2> QED BY <1>2, <2>1 DEF WritesAt, ReadsAt
<1>3. CASE ~Due(q, r, t, k) /\ ~(t = s /\ k = EndOf(q, r, s) + 1)
  <2>1. ~Due(Q, r, t, k)
    BY <1>3 DEF Extends
  <2> QED BY <1>3, <2>1 DEF WritesAt, ReadsAt
<1> QED BY <1>1, <1>2, <1>3

\* The order of what is pending stays when more is issued.
LEMMA BeforeAppend ==
  ASSUME NEW q, NEW r, Wired(q, r), NEW s, NEW o, NEW Q, Extends(q, r, s, o, Q),
         NEW u \in Stream, NEW m \in Nat, NEW t \in Stream, NEW j \in Nat,
         Due(q, r, t, j), Before(q, r, u, m, t, j)
  PROVE  Before(Q, r, u, m, t, j)
<1>1. s \in Stream /\ o \in AnyOp /\ EndOf(q, r, t) \in Nat
  BY DEF Extends
<1>2. PICK i \in Int : i = j - 1 /\ i <= EndOf(q, r, t)
  BY <1>1 DEF Due
<1>3. Knows(q, r, t, i, u, m)
  BY <1>2 DEF Before
<1>4. Knows(Q, r, t, i, u, m)
  BY <1>1, <1>2, <1>3, KnowsAppend
<1> QED BY <1>2, <1>4 DEF Before

\* What the stream of the new operation has joined comes before it.
LEMMA BeforeNew ==
  ASSUME NEW q, NEW r, Wired(q, r), NEW s, NEW o, NEW Q, Extends(q, r, s, o, Q),
         NEW u \in Stream, NEW m \in Nat, Joined(q, r, s, u, m),
         NEW e \in Nat, e = EndOf(q, r, s) + 1
  PROVE  Before(Q, r, u, m, s, e)
<1>1. s \in Stream /\ o \in AnyOp /\ EndOf(q, r, s) \in Nat
  BY DEF Extends
<1>2. PICK i \in Int : i = e - 1 /\ i = EndOf(q, r, s)
  BY <1>1
<1>3. Knows(q, r, s, i, u, m) /\ i <= EndOf(q, r, s)
  BY <1>1, <1>2 DEF Joined
<1>4. Knows(Q, r, s, i, u, m)
  BY <1>1, <1>2, <1>3, KnowsAppend
<1> QED BY <1>2, <1>4 DEF Before

\* An operation that leaves b alone leaves what will be in it.
LEMMA WillAppend ==
  ASSUME NEW q, NEW r, NEW c, Wired(q, r), NEW s, NEW o, NEW Q, Extends(q, r, s, o, Q),
         NEW b, NEW v, Will(q, r, c, b, v), o.do = "wait" \/ b \notin o.writes
  PROVE  Will(Q, r, c, b, v)
<1>1. \A x \in Stream : \A k \in Nat : WritesAt(Q, r, x, k, b) <=> WritesAt(q, r, x, k, b)
  BY AccessAppend
<1>2. CASE c[b] = v /\ \A x \in Stream : \A k \in Nat : ~WritesAt(q, r, x, k, b)
  BY <1>1, <1>2 DEF Will
<1>3. ASSUME NEW u \in Stream, NEW m \in Nat,
             WritesAt(q, r, u, m, b), OpAt(q, r, u, m).by = v,
             \A x \in Stream : \A k \in Nat : WritesAt(q, r, x, k, b) =>
               (x = u /\ k = m) \/ Before(q, r, x, k, u, m)
      PROVE  Will(Q, r, c, b, v)
  <2>1. Due(q, r, u, m)
    BY <1>3 DEF WritesAt
  <2>2. OpAt(Q, r, u, m).by = v
    BY <1>3, <2>1 DEF Extends
  <2>3. \A x \in Stream : \A k \in Nat : Before(q, r, x, k, u, m) => Before(Q, r, x, k, u, m)
    BY <2>1, BeforeAppend
  <2> QED BY <1>1, <1>3, <2>2, <2>3 DEF Will
<1> QED BY <1>2, <1>3 DEF Will

\* A new operation leaves in what it writes what it is said to.
LEMMA WillNew ==
  ASSUME NEW q, NEW r, NEW c, Wired(q, r), NEW s, NEW o, NEW Q, Extends(q, r, s, o, Q),
         NEW b, o.do # "wait", b \in o.writes,
         \A t \in Stream : \A k \in Nat : WritesAt(q, r, t, k, b) => Joined(q, r, s, t, k)
  PROVE  Will(Q, r, c, b, o.by)
<1>1. s \in Stream /\ EndOf(q, r, s) \in Nat /\ OpAt(Q, r, s, EndOf(q, r, s) + 1) = o
  BY DEF Extends
<1>2. PICK e \in Nat : e = EndOf(q, r, s) + 1
  BY <1>1
<1>3. WritesAt(Q, r, s, e, b) /\ OpAt(Q, r, s, e).by = o.by
  BY <1>1, <1>2, AccessAppend
<1>4. ASSUME NEW t \in Stream, NEW k \in Nat, WritesAt(Q, r, t, k, b)
      PROVE  (t = s /\ k = e) \/ Before(Q, r, t, k, s, e)
  <2>1. CASE WritesAt(q, r, t, k, b)
    BY <1>2, <2>1, BeforeNew
  <2>2. CASE t = s /\ k = e
    BY <2>2
  <2> QED BY <1>2, <1>4, <2>1, <2>2, AccessAppend
<1> QED BY <1>1, <1>3, <1>4 DEF Will

\* A reader still gets what it did.
LEMMA GetsAppend ==
  ASSUME NEW q, NEW r, NEW c, Wired(q, r), NEW s, NEW o, NEW Q, Extends(q, r, s, o, Q),
         NEW t \in Stream, NEW j \in Nat, NEW b, NEW v,
         Due(q, r, t, j), Gets(q, r, c, t, j, b, v),
         o.do # "wait" /\ b \in o.writes => Joined(q, r, s, t, j)
  PROVE  Gets(Q, r, c, t, j, b, v)
<1>0. s \in Stream /\ EndOf(q, r, s) \in Nat
  BY DEF Extends
<1>1. PICK e \in Nat : e = EndOf(q, r, s) + 1
  BY <1>0
<1>2. \A x \in Stream : \A k \in Nat : WritesAt(q, r, x, k, b) => WritesAt(Q, r, x, k, b)
  BY AccessAppend
<1>3. ASSUME NEW x \in Stream, NEW k \in Nat, WritesAt(Q, r, x, k, b),
             ~WritesAt(q, r, x, k, b)
      PROVE  Before(Q, r, t, j, x, k)
  <2>1. x = s /\ k = e /\ o.do # "wait" /\ b \in o.writes
    BY <1>1, <1>3, AccessAppend
  <2> QED BY <1>1, <2>1, BeforeNew
<1>4. ASSUME NEW x \in Stream, NEW k \in Nat, WritesAt(q, r, x, k, b), Before(q, r, t, j, x, k)
      PROVE  Before(Q, r, t, j, x, k)
  <2>1. Due(q, r, x, k)
    BY <1>4 DEF WritesAt
  <2> QED BY <1>4, <2>1, BeforeAppend
<1>5. CASE c[b] = v /\ \A x \in Stream : \A k \in Nat : WritesAt(q, r, x, k, b) =>
             (x = t /\ k = j) \/ Before(q, r, t, j, x, k)
  BY <1>3, <1>4, <1>5 DEF Gets
<1>6. ASSUME NEW u \in Stream, NEW m \in Nat,
             WritesAt(q, r, u, m, b), OpAt(q, r, u, m).by = v, Before(q, r, u, m, t, j),
             \A x \in Stream : \A k \in Nat : WritesAt(q, r, x, k, b) =>
               \/ x = u /\ k = m
               \/ Before(q, r, x, k, u, m)
               \/ x = t /\ k = j
               \/ Before(q, r, t, j, x, k)
      PROVE  Gets(Q, r, c, t, j, b, v)
  <2>1. Due(q, r, u, m)
    BY <1>6 DEF WritesAt
  <2>2. OpAt(Q, r, u, m).by = v /\ WritesAt(Q, r, u, m, b)
    BY <1>2, <1>6, <2>1 DEF Extends
  <2>3. Before(Q, r, u, m, t, j)
    BY <1>6, BeforeAppend
  <2>4. \A x \in Stream : \A k \in Nat : Before(q, r, x, k, u, m) => Before(Q, r, x, k, u, m)
    BY <2>1, BeforeAppend
  <2>5. \A x \in Stream : \A k \in Nat : WritesAt(Q, r, x, k, b) =>
          \/ x = u /\ k = m
          \/ Before(Q, r, x, k, u, m)
          \/ x = t /\ k = j
          \/ Before(Q, r, t, j, x, k)
    BY <1>3, <1>4, <1>6, <2>4
  <2> QED BY <2>2, <2>3, <2>5 DEF Gets
<1> QED BY <1>5, <1>6 DEF Gets

\* What will be in a block is what an operation finds there that is issued now,
\* to a stream that has joined all who write it.
LEMMA GetsNew ==
  ASSUME NEW q, NEW r, NEW c, Wired(q, r), NEW s, NEW o, NEW Q, Extends(q, r, s, o, Q),
         NEW b, NEW v, Will(q, r, c, b, v),
         \A t \in Stream : \A k \in Nat : WritesAt(q, r, t, k, b) => Joined(q, r, s, t, k),
         NEW e \in Nat, e = EndOf(q, r, s) + 1
  PROVE  Gets(Q, r, c, s, e, b, v)
<1>1. \A x \in Stream : \A k \in Nat : WritesAt(Q, r, x, k, b) =>
        WritesAt(q, r, x, k, b) \/ (x = s /\ k = e)
  BY AccessAppend
<1>2. CASE c[b] = v /\ \A x \in Stream : \A k \in Nat : ~WritesAt(q, r, x, k, b)
  BY <1>1, <1>2 DEF Gets
<1>3. ASSUME NEW u \in Stream, NEW m \in Nat,
             WritesAt(q, r, u, m, b), OpAt(q, r, u, m).by = v,
             \A x \in Stream : \A k \in Nat : WritesAt(q, r, x, k, b) =>
               (x = u /\ k = m) \/ Before(q, r, x, k, u, m)
      PROVE  Gets(Q, r, c, s, e, b, v)
  <2>1. Due(q, r, u, m)
    BY <1>3 DEF WritesAt
  <2>2. OpAt(Q, r, u, m).by = v /\ WritesAt(Q, r, u, m, b)
    <3>1. WritesAt(Q, r, u, m, b)
      BY <1>3, AccessAppend
    <3> QED BY <1>3, <2>1, <3>1 DEF Extends
  <2>3. Before(Q, r, u, m, s, e)
    BY <1>3, BeforeNew
  <2>4. \A x \in Stream : \A k \in Nat : Before(q, r, x, k, u, m) => Before(Q, r, x, k, u, m)
    BY <2>1, BeforeAppend
  <2>5. \A x \in Stream : \A k \in Nat : WritesAt(Q, r, x, k, b) =>
          \/ x = u /\ k = m
          \/ Before(Q, r, x, k, u, m)
          \/ x = s /\ k = e
    BY <1>1, <1>3, <2>4
  <2>6. s \in Stream
    BY DEF Extends
  <2> QED BY <2>2, <2>3, <2>5, <2>6 DEF Gets
<1> QED BY <1>2, <1>3 DEF Will

\* The streams stay well formed when a well-formed operation is issued, or a
\* wait for something that has been issued.
LEMMA WiredAppend ==
  ASSUME NEW q, NEW r, Wired(q, r), NEW s, NEW o, NEW Q, Extends(q, r, s, o, Q),
         o.do = "wait" => o.position <= EndOf(q, r, o.on),
         o.do # "wait" => WellFormed(o)
  PROVE  Wired(Q, r)
<1>1. Q \in [Stream -> Seq(AnyOp)] /\ r \in [Stream -> Nat]
  BY DEF Extends
<1>2. \A x \in Stream : EndOf(q, r, x) \in Nat /\ EndOf(Q, r, x) \in Nat /\ EndOf(q, r, x) <= EndOf(Q, r, x)
  <2> TAKE x \in Stream
  <2>1. EndOf(q, r, x) \in Nat
        /\ (EndOf(Q, r, x) = EndOf(q, r, x) \/ EndOf(Q, r, x) = EndOf(q, r, x) + 1)
    BY DEF Extends
  <2> QED BY <2>1
<1>3. ASSUME NEW w \in AnyOp, w.do = "wait", w.position <= EndOf(q, r, w.on)
      PROVE  w.position <= EndOf(Q, r, w.on)
  <2>1. w.on \in Stream /\ w.position \in Nat
    BY <1>3 DEF AnyOp, OverlapWait, OverlapWork, Kernels
  <2> QED BY <1>2, <1>3, <2>1
<1>4. ASSUME NEW t \in Stream, NEW k \in Nat, Due(Q, r, t, k)
      PROVE  IF OpAt(Q, r, t, k).do = "wait"
             THEN OpAt(Q, r, t, k).position <= EndOf(Q, r, OpAt(Q, r, t, k).on)
             ELSE WellFormed(OpAt(Q, r, t, k))
  <2>1. PICK w : w = OpAt(Q, r, t, k)
    OBVIOUS
  <2>2. CASE Due(q, r, t, k)
    <3>1. w = OpAt(q, r, t, k) /\ w \in AnyOp
      BY <2>1, <2>2 DEF Extends
    <3>2. IF w.do = "wait" THEN w.position <= EndOf(q, r, w.on) ELSE WellFormed(w)
      BY <2>2, <3>1 DEF Wired
    <3> QED BY <1>3, <2>1, <3>1, <3>2
  <2>3. CASE t = s /\ k = EndOf(q, r, s) + 1
    <3>1. w = o /\ o \in AnyOp
      BY <2>1, <2>3 DEF Extends
    <3> QED BY <1>3, <2>1, <3>1
  <2> QED BY <1>4, <2>2, <2>3 DEF Extends
<1> QED BY <1>1, <1>4 DEF Wired, AnyOp

\* Writes stay ordered when the stream of a new operation has joined those that
\* it could meet.
LEMMA OrderedAppend ==
  ASSUME NEW q, NEW r, NEW ls, Wired(q, r), Ordered(q, r, ls),
         NEW s, NEW o, NEW Q, Extends(q, r, s, o, Q),
         o.do # "wait" =>
           /\ \A b \in o.reads \cup o.writes : \A t \in Stream : \A k \in Nat :
                WritesAt(q, r, t, k, b) => Joined(q, r, s, t, k)
           /\ \A b \in o.writes : \A t \in Stream : \A k \in Nat :
                ReadsAt(q, r, t, k, b) => Joined(q, r, s, t, k) \/ PassAt(q, r, t, k) \in ls
  PROVE  Ordered(Q, r, ls)
<1>0. s \in Stream /\ EndOf(q, r, s) \in Nat
  BY DEF Extends
<1>1. PICK e \in Nat : e = EndOf(q, r, s) + 1
  BY <1>0
<1>2. \A t \in Stream : \A k \in Nat : \A b : WritesAt(Q, r, t, k, b) =>
        WritesAt(q, r, t, k, b) \/ (t = s /\ k = e /\ o.do # "wait" /\ b \in o.writes)
  BY <1>1, AccessAppend
<1>3. \A t \in Stream : \A k \in Nat : \A b : ReadsAt(Q, r, t, k, b) =>
        ReadsAt(q, r, t, k, b) \/ (t = s /\ k = e /\ o.do # "wait" /\ b \in o.reads)
  BY <1>1, AccessAppend
<1>4. \A t \in Stream : \A k \in Nat : Joined(q, r, s, t, k) => Before(Q, r, t, k, s, e)
  BY <1>1, BeforeNew
<1>5. \A t \in Stream : \A j \in Nat : \A b :
        (WritesAt(q, r, t, j, b) \/ ReadsAt(q, r, t, j, b)) =>
          /\ Due(q, r, t, j) /\ PassAt(Q, r, t, j) = PassAt(q, r, t, j)
  BY DEF WritesAt, ReadsAt, PassAt, Extends
<1>6. \A x \in Stream : \A k \in Nat : \A t \in Stream : \A j \in Nat :
        Due(q, r, t, j) /\ Before(q, r, x, k, t, j) => Before(Q, r, x, k, t, j)
  BY BeforeAppend
<1>7. ASSUME NEW x \in Stream, NEW t \in Stream, NEW k \in Nat, NEW j \in Nat,
             NEW b \in Blocks, x # t, WritesAt(Q, r, x, k, b), WritesAt(Q, r, t, j, b)
      PROVE  Before(Q, r, x, k, t, j) \/ Before(Q, r, t, j, x, k)
  <2>1. CASE WritesAt(q, r, x, k, b) /\ WritesAt(q, r, t, j, b)
    <3>1. Before(q, r, x, k, t, j) \/ Before(q, r, t, j, x, k)
      BY <1>7, <2>1 DEF Ordered
    <3> QED BY <2>1, <3>1, <1>5, <1>6
  <2>2. CASE t = s /\ j = e /\ o.do # "wait" /\ b \in o.writes
    <3>1. WritesAt(q, r, x, k, b)
      BY <1>2, <1>7, <2>2
    <3> QED BY <1>4, <2>2, <3>1
  <2>3. CASE x = s /\ k = e /\ o.do # "wait" /\ b \in o.writes
    <3>1. WritesAt(q, r, t, j, b)
      BY <1>2, <1>7, <2>3
    <3> QED BY <1>4, <2>3, <3>1
  <2> QED BY <1>2, <1>7, <2>1, <2>2, <2>3
<1>8. ASSUME NEW x \in Stream, NEW t \in Stream, NEW k \in Nat, NEW j \in Nat,
             NEW b \in Blocks, x # t, WritesAt(Q, r, x, k, b), ReadsAt(Q, r, t, j, b)
      PROVE  \/ Before(Q, r, x, k, t, j) \/ Before(Q, r, t, j, x, k)
             \/ PassAt(Q, r, t, j) \in ls
  <2>1. CASE WritesAt(q, r, x, k, b) /\ ReadsAt(q, r, t, j, b)
    <3>1. Before(q, r, x, k, t, j) \/ Before(q, r, t, j, x, k) \/ PassAt(q, r, t, j) \in ls
      BY <1>8, <2>1 DEF Ordered
    <3> QED BY <2>1, <3>1, <1>5, <1>6
  <2>2. CASE t = s /\ j = e /\ o.do # "wait" /\ b \in o.reads
    <3>1. WritesAt(q, r, x, k, b)
      BY <1>2, <1>8, <2>2
    <3> QED BY <1>4, <2>2, <3>1
  <2>3. CASE x = s /\ k = e /\ o.do # "wait" /\ b \in o.writes
    <3>1. ReadsAt(q, r, t, j, b)
      BY <1>3, <1>8, <2>3
    <3>2. Joined(q, r, s, t, j) \/ PassAt(q, r, t, j) \in ls
      BY <2>3, <3>1
    <3> QED BY <1>4, <1>5, <2>3, <3>1, <3>2
  <2> QED BY <1>2, <1>3, <1>8, <2>1, <2>2, <2>3
<1> QED BY <1>7, <1>8 DEF Ordered

\* Readers still get what they need, and so does the new one.
LEMMA FedAppend ==
  ASSUME NEW q, NEW r, NEW c, NEW ls, Wired(q, r), Fed(q, r, c, ls),
         NEW s, NEW o, NEW Q, Extends(q, r, s, o, Q),
         o.do # "wait" =>
           /\ o.reads \subseteq Blocks
           /\ \A b \in o.reads \cup o.writes : \A t \in Stream : \A k \in Nat :
                WritesAt(q, r, t, k, b) => Joined(q, r, s, t, k)
           /\ \A b \in o.writes : \A t \in Stream : \A k \in Nat :
                ReadsAt(q, r, t, k, b) => Joined(q, r, s, t, k) \/ PassAt(q, r, t, k) \in ls
           /\ o.by[2] \notin ls => \A b \in o.reads : Will(q, r, c, b, Needs(o, b))
  PROVE  Fed(Q, r, c, ls)
<1>0. s \in Stream /\ EndOf(q, r, s) \in Nat /\ OpAt(Q, r, s, EndOf(q, r, s) + 1) = o
  BY DEF Extends
<1>1. PICK e \in Nat : e = EndOf(q, r, s) + 1
  BY <1>0
<1> SUFFICES ASSUME NEW t \in Stream, NEW j \in Nat, NEW b \in Blocks,
                    ReadsAt(Q, r, t, j, b), PassAt(Q, r, t, j) \notin ls
             PROVE  Gets(Q, r, c, t, j, b, Needs(OpAt(Q, r, t, j), b))
  BY DEF Fed
<1>2. CASE ReadsAt(q, r, t, j, b)
  <2>1. Due(q, r, t, j)
    BY <1>2 DEF ReadsAt
  <2>2. OpAt(Q, r, t, j) = OpAt(q, r, t, j)
    BY <2>1 DEF Extends
  <2>3. PassAt(q, r, t, j) \notin ls
    BY <2>2 DEF PassAt
  <2>4. Gets(q, r, c, t, j, b, Needs(OpAt(Q, r, t, j), b))
    BY <1>2, <2>2, <2>3 DEF Fed
  <2>5. o.do # "wait" /\ b \in o.writes => Joined(q, r, s, t, j)
    BY <1>2, <2>3
  <2> QED BY <2>1, <2>4, <2>5, GetsAppend
<1>3. CASE t = s /\ j = e /\ o.do # "wait" /\ b \in o.reads
  <2>1. OpAt(Q, r, t, j) = o
    BY <1>0, <1>1, <1>3
  <2>2. o.by[2] \notin ls
    BY <2>1 DEF PassAt
  <2>3. Will(q, r, c, b, Needs(o, b))
    BY <1>3, <2>2
  <2>4. \A x \in Stream : \A k \in Nat : WritesAt(q, r, x, k, b) => Joined(q, r, s, x, k)
    BY <1>3
  <2>5. Gets(Q, r, c, s, e, b, Needs(o, b))
    BY <1>1, <2>3, <2>4, GetsNew
  <2> QED BY <1>3, <2>1, <2>5
<1> QED BY <1>1, <1>2, <1>3, AccessAppend

\* Issuing a wait disturbs nothing.
LEMMA CoreWait ==
  ASSUME NEW q, NEW r, NEW c, NEW ls, Core(q, r, c, ls),
         NEW s, NEW t \in Stream, NEW p \in Nat, p <= EndOf(q, r, t),
         NEW Q, Extends(q, r, s, WaitFor(t, p), Q)
  PROVE  Core(Q, r, c, ls)
<1>1. PICK o : o = WaitFor(t, p)
  OBVIOUS
<1>2. o.do = "wait" /\ o.on = t /\ o.position = p
  BY <1>1 DEF WaitFor
<1>3. Extends(q, r, s, o, Q) /\ Wired(q, r) /\ Ordered(q, r, ls) /\ Fed(q, r, c, ls)
  BY <1>1 DEF Core
<1>4. Wired(Q, r)
  BY <1>2, <1>3, WiredAppend
<1>5. Ordered(Q, r, ls)
  BY <1>2, <1>3, OrderedAppend
<1>6. Fed(Q, r, c, ls)
  BY <1>2, <1>3, FedAppend
<1> QED BY <1>4, <1>5, <1>6 DEF Core

\* Nor does issuing an operation to a stream that has joined all who write what
\* it uses, and all who still want to read what it writes.
LEMMA CoreWork ==
  ASSUME NEW q, NEW r, NEW c, NEW ls, Core(q, r, c, ls),
         NEW s, NEW o, NEW Q, Extends(q, r, s, o, Q),
         o.do # "wait", WellFormed(o), o.reads \subseteq Blocks,
         \A b \in o.reads \cup o.writes : \A t \in Stream : \A k \in Nat :
           WritesAt(q, r, t, k, b) => Joined(q, r, s, t, k),
         \A b \in o.writes : \A t \in Stream : \A k \in Nat :
           ReadsAt(q, r, t, k, b) => Joined(q, r, s, t, k) \/ PassAt(q, r, t, k) \in ls,
         o.by[2] \notin ls => \A b \in o.reads : Will(q, r, c, b, Needs(o, b))
  PROVE  Core(Q, r, c, ls)
<1>1. Wired(q, r) /\ Ordered(q, r, ls) /\ Fed(q, r, c, ls)
  BY DEF Core
<1>2. Wired(Q, r)
  BY <1>1, WiredAppend
<1>3. Ordered(Q, r, ls)
  BY <1>1, OrderedAppend
<1>4. Fed(Q, r, c, ls)
  BY <1>1, FedAppend
<1> QED BY <1>2, <1>3, <1>4 DEF Core

-----------------------------------------------------------------------------
\* Running the first operation of a stream.

\* s runs f, the first it has pending, as the positions tell it.
Pops(q, r, s, f, Q, R) ==
  /\ q \in [Stream -> Seq(AnyOp)] /\ r \in [Stream -> Nat] /\ s \in Stream /\ f \in AnyOp
  /\ Q \in [Stream -> Seq(AnyOp)] /\ R \in [Stream -> Nat]
  /\ R[s] = r[s] + 1
  /\ \A t \in Stream : t # s => R[t] = r[t]
  /\ \A t \in Stream : EndOf(q, r, t) \in Nat /\ EndOf(Q, R, t) = EndOf(q, r, t)
  /\ \A t \in Stream : \A k \in Nat :
       Due(Q, R, t, k) <=> Due(q, r, t, k) /\ ~(t = s /\ k = r[s] + 1)
  /\ \A t \in Stream : \A k \in Nat : Due(Q, R, t, k) => OpAt(Q, R, t, k) = OpAt(q, r, t, k)
  /\ \A t \in Stream : \A k \in Nat : Due(q, r, t, k) => OpAt(q, r, t, k) \in AnyOp
  /\ Due(q, r, s, r[s] + 1) /\ OpAt(q, r, s, r[s] + 1) = f
  /\ f.do = "wait" => f.position <= r[f.on]

\* Running the first operation pops it.
LEMMA PopFacts ==
  ASSUME NEW q \in [Stream -> Seq(AnyOp)], NEW r \in [Stream -> Nat], NEW s \in Stream,
         NEW f, q[s] # <<>>, f = Head(q[s]), f.do = "wait" => r[f.on] >= f.position,
         NEW Q, Q = [q EXCEPT ![s] = Tail(@)], NEW R, R = [r EXCEPT ![s] = @ + 1]
  PROVE  Pops(q, r, s, f, Q, R)
<1>1. Q[s] = Tail(q[s]) /\ (\A t \in Stream : t # s => Q[t] = q[t])
      /\ R[s] = r[s] + 1 /\ (\A t \in Stream : t # s => R[t] = r[t])
      /\ R \in [Stream -> Nat]
  OBVIOUS
<1>2. Q \in [Stream -> Seq(AnyOp)]
  OBVIOUS
<1>3. \A t \in Stream : Len(q[t]) \in Nat /\ r[t] \in Nat /\ Len(Q[t]) \in Nat /\ R[t] \in Nat
  BY <1>1, <1>2
<1>4. PICK z \in Nat : z = Len(q[s]) /\ z > 0 /\ Len(Q[s]) = z - 1
      /\ \A i \in 1..(z - 1) : Q[s][i] = q[s][i + 1]
  <2>1. q[s] \in Seq(AnyOp) /\ q[s] # <<>>
    OBVIOUS
  <2>2. Len(q[s]) \in Nat /\ Len(q[s]) > 0 /\ Len(Tail(q[s])) = Len(q[s]) - 1
        /\ \A i \in 1..(Len(q[s]) - 1) : Tail(q[s])[i] = q[s][i + 1]
    BY <2>1
  <2> QED BY <1>1, <2>2
<1>5. f = q[s][1] /\ f \in AnyOp
  <2>1. q[s] \in Seq(AnyOp) /\ q[s] # <<>>
    OBVIOUS
  <2> QED BY <2>1
<1>6. \A t \in Stream : EndOf(q, r, t) \in Nat /\ EndOf(Q, R, t) = EndOf(q, r, t)
  <2> TAKE t \in Stream
  <2>1. CASE t = s
    <3>1. EndOf(q, r, s) = r[s] + z /\ EndOf(Q, R, s) = (r[s] + 1) + (z - 1) /\ r[s] \in Nat
      BY <1>1, <1>3, <1>4 DEF EndOf
    <3> QED BY <2>1, <3>1
  <2>2. CASE t # s
    <3>1. r[t] \in Nat /\ Len(q[t]) \in Nat /\ Q[t] = q[t] /\ R[t] = r[t]
      BY <1>1, <1>3, <2>2
    <3> QED BY <3>1 DEF EndOf
  <2> QED BY <2>1, <2>2
<1>7. ASSUME NEW t \in Stream, NEW k \in Nat
      PROVE  Due(Q, R, t, k) <=> Due(q, r, t, k) /\ ~(t = s /\ k = r[s] + 1)
  <2>1. r[t] \in Nat /\ EndOf(Q, R, t) = EndOf(q, r, t)
    BY <1>3, <1>6
  <2>2. CASE t = s
    <3>1. R[t] = r[t] + 1
      BY <1>1, <2>2
    <3> QED BY <2>1, <2>2, <3>1 DEF Due
  <2>3. CASE t # s
    BY <1>1, <2>1, <2>3 DEF Due
  <2> QED BY <2>2, <2>3
<1>8. Due(q, r, s, r[s] + 1) /\ OpAt(q, r, s, r[s] + 1) = f
  <2>1. PICK a \in Nat : a = r[s]
    BY <1>3
  <2>2. EndOf(q, r, s) = a + z /\ z > 0
    BY <1>4, <2>1 DEF EndOf
  <2>3. PICK k \in Nat : k = a + 1 /\ k - a = 1
    BY <2>1
  <2>4. Due(q, r, s, k)
    <3>1. a < k /\ k <= a + z
      BY <1>4, <2>2, <2>3
    <3> QED BY ONLY <2>1, <2>2, <2>3, <3>1 DEF Due
  <2>5. OpAt(q, r, s, k) = f
    BY <1>5, <2>1, <2>3 DEF OpAt
  <2> QED BY <2>1, <2>3, <2>4, <2>5
<1>9. ASSUME NEW t \in Stream, NEW k \in Nat, Due(q, r, t, k)
      PROVE  OpAt(q, r, t, k) \in AnyOp
  <2>1. r[t] \in Nat /\ Len(q[t]) \in Nat
    BY <1>3
  <2>2. PICK i \in Nat : i = k - r[t] /\ i \in 1..Len(q[t])
    BY <2>1, <1>9 DEF Due, EndOf
  <2> QED BY <2>2 DEF OpAt
<1>10. ASSUME NEW t \in Stream, NEW k \in Nat, Due(Q, R, t, k)
       PROVE  OpAt(Q, R, t, k) = OpAt(q, r, t, k)
  <2>1. CASE t = s
    <3>1. PICK a \in Nat : a = r[s] /\ R[s] = a + 1
      BY <1>1, <1>3
    <3>2. EndOf(q, r, s) = a + z
      BY <1>4, <3>1 DEF EndOf
    <3>3. EndOf(Q, R, s) = a + z
      BY <1>6, <3>2
    <3>4. a + 1 < k /\ k <= a + z
      BY <1>10, <2>1, <3>1, <3>3 DEF Due
    <3>5. PICK i \in Nat : i = k - (a + 1) /\ i + 1 = k - a /\ i \in 1..(z - 1)
      BY <1>4, <3>4
    <3>6. Q[s][i] = q[s][i + 1]
      BY <1>4, <3>5
    <3> QED BY <2>1, <3>1, <3>5, <3>6 DEF OpAt
  <2>2. CASE t # s
    BY <1>1, <2>2 DEF OpAt
  <2> QED BY <2>1, <2>2
<1>11. f.do = "wait" => f.position <= r[f.on]
  <2> HAVE f.do = "wait"
  <2>1. f.on \in Stream /\ f.position \in Nat
    BY <1>5 DEF AnyOp, OverlapWait, OverlapWork, Kernels
  <2> QED BY <2>1
<1> QED BY <1>1, <1>2, <1>5, <1>6, <1>7, <1>8, <1>9, <1>10, <1>11 DEF Pops

\* What is known stays known when a stream runs what it has next.
LEMMA KnowsRun ==
  ASSUME NEW q, NEW r, NEW s, NEW f, NEW Q, NEW R, Pops(q, r, s, f, Q, R),
         NEW u \in Stream, NEW k, NEW t \in Stream, NEW p, Knows(q, r, u, k, t, p)
  PROVE  Knows(Q, R, u, k, t, p)
<1> SUFFICES ASSUME NEW n \in [Stream -> Nat], Cut(Q, R, n) PROVE Cut(q, r, n)
  BY DEF Knows
<1>1. \A x \in Stream : r[x] \in Nat /\ R[x] \in Nat /\ r[x] <= R[x] /\ EndOf(Q, R, x) = EndOf(q, r, x)
  <2> TAKE x \in Stream
  <2>1. R[x] = r[x] \/ R[x] = r[x] + 1
    BY DEF Pops
  <2>2. r[x] \in Nat /\ R[x] \in Nat /\ EndOf(Q, R, x) = EndOf(q, r, x)
    BY DEF Pops
  <2> QED BY <2>1, <2>2
<1>2. \A x \in Stream : r[x] <= n[x] /\ n[x] <= EndOf(q, r, x) /\ R[x] <= n[x]
  <2> TAKE x \in Stream
  <2>1. R[x] <= n[x] /\ n[x] <= EndOf(q, r, x)
    BY <1>1 DEF Cut
  <2> QED BY <1>1, <2>1
<1>3. ASSUME NEW x \in Stream, NEW i \in Nat, WaitsAt(q, r, x, i), i <= n[x]
      PROVE  OpAt(q, r, x, i).position <= n[OpAt(q, r, x, i).on]
  <2>1. CASE x = s /\ i = r[s] + 1
    <3>1. OpAt(q, r, x, i) = f /\ f.do = "wait" /\ f \in AnyOp
      BY <1>3, <2>1 DEF Pops, WaitsAt
    <3>2. f.on \in Stream /\ f.position \in Nat
      BY <3>1 DEF AnyOp, OverlapWait, OverlapWork, Kernels
    <3>3. f.position <= r[f.on]
      BY <3>1 DEF Pops
    <3>4. f.position <= n[f.on]
      BY <1>1, <1>2, <3>2, <3>3
    <3> QED BY <3>1, <3>4
  <2>2. CASE ~(x = s /\ i = r[s] + 1)
    <3>1. Due(Q, R, x, i)
      BY <1>3, <2>2 DEF Pops, WaitsAt
    <3>2. OpAt(Q, R, x, i) = OpAt(q, r, x, i)
      BY <3>1 DEF Pops
    <3>3. WaitsAt(Q, R, x, i)
      BY <1>3, <3>1, <3>2 DEF WaitsAt
    <3> QED BY <1>3, <3>2, <3>3 DEF Cut
  <2> QED BY <2>1, <2>2
<1> QED BY <1>2, <1>3 DEF Cut

\* What a stream has joined it has joined when a stream runs.
LEMMA JoinedRun ==
  ASSUME NEW q, NEW r, NEW s, NEW f, NEW Q, NEW R, Pops(q, r, s, f, Q, R),
         NEW u \in Stream, NEW t \in Stream, NEW p, Joined(q, r, u, t, p)
  PROVE  Joined(Q, R, u, t, p)
<1>1. EndOf(Q, R, u) = EndOf(q, r, u)
  BY DEF Pops
<1> QED BY <1>1, KnowsRun DEF Joined

\* The order of what is pending stays when a stream runs.
LEMMA BeforeRun ==
  ASSUME NEW q, NEW r, NEW s, NEW f, NEW Q, NEW R, Pops(q, r, s, f, Q, R),
         NEW u \in Stream, NEW m, NEW t \in Stream, NEW j, Before(q, r, u, m, t, j)
  PROVE  Before(Q, R, u, m, t, j)
BY KnowsRun DEF Before

\* Nothing pending comes before what runs.
LEMMA RunsFirst ==
  ASSUME NEW q, NEW r, NEW s, NEW f, NEW Q, NEW R, Pops(q, r, s, f, Q, R),
         NEW u \in Stream, NEW m \in Nat, Before(q, r, u, m, s, r[s] + 1)
  PROVE  ~Due(q, r, u, m)
<1>1. r \in [Stream -> Nat] /\ s \in Stream /\ \A x \in Stream : q[x] \in Seq(OverlapWait \cup OverlapWork)
  BY DEF Pops, AnyOp
<1>2. PICK a \in Nat : a = r[s] /\ (r[s] + 1) - 1 = a
  BY <1>1
<1>3. Knows(q, r, s, r[s], u, m)
  BY <1>2 DEF Before
<1>4. m <= r[u]
  BY <1>1, <1>3, NothingBeforeNext
<1>5. r[u] \in Nat
  BY <1>1
<1> QED BY <1>4, <1>5 DEF Due

\* Who writes and who reads after a stream has run.
LEMMA AccessRun ==
  ASSUME NEW q, NEW r, NEW s, NEW f, NEW Q, NEW R, Pops(q, r, s, f, Q, R),
         NEW t \in Stream, NEW k \in Nat
  PROVE  /\ \A b : WritesAt(Q, R, t, k, b) <=>
              WritesAt(q, r, t, k, b) /\ ~(t = s /\ k = r[s] + 1)
         /\ \A b : ReadsAt(Q, R, t, k, b) <=>
              ReadsAt(q, r, t, k, b) /\ ~(t = s /\ k = r[s] + 1)
<1>1. CASE Due(Q, R, t, k)
  <2>1. OpAt(Q, R, t, k) = OpAt(q, r, t, k) /\ Due(q, r, t, k) /\ ~(t = s /\ k = r[s] + 1)
    BY <1>1 DEF Pops
  <2> QED BY <1>1, <2>1 DEF WritesAt, ReadsAt
<1>2. CASE ~Due(Q, R, t, k)
  <2>1. ~Due(q, r, t, k) \/ (t = s /\ k = r[s] + 1)
    BY <1>2 DEF Pops
  <2> QED BY <1>2, <2>1 DEF WritesAt, ReadsAt
<1> QED BY <1>1, <1>2

\* What runs finds what it was to get.
LEMMA FrontFinds ==
  ASSUME NEW q, NEW r, NEW c, NEW s, NEW f, NEW Q, NEW R, Pops(q, r, s, f, Q, R),
         NEW b, NEW v, Gets(q, r, c, s, r[s] + 1, b, v)
  PROVE  c[b] = v
<1> SUFFICES ASSUME NEW u \in Stream, NEW m \in Nat, WritesAt(q, r, u, m, b),
                    Before(q, r, u, m, s, r[s] + 1)
             PROVE  FALSE
  BY DEF Gets
<1> QED BY RunsFirst DEF WritesAt

\* What an operation does to the content, as far as it is asked.
Leaves(f, c, C) ==
  /\ f.do = "wait" => C = c
  /\ f.do # "wait" => \A b \in Blocks : b \notin f.writes => C[b] = c[b]

\* What will be in a block still will be when a stream runs.
LEMMA WillRun ==
  ASSUME NEW q, NEW r, NEW c, NEW s, NEW f, NEW Q, NEW R, Pops(q, r, s, f, Q, R),
         NEW C, Leaves(f, c, C), NEW b \in Blocks, NEW v, Will(q, r, c, b, v),
         f.do # "wait" /\ b \in f.writes /\ f.by = v => C[b] = v
  PROVE  Will(Q, R, C, b, v)
<1>0. PICK a \in Nat : a = r[s] + 1
  BY DEF Pops
<1>1. \A x \in Stream : \A k \in Nat :
        WritesAt(Q, R, x, k, b) <=> WritesAt(q, r, x, k, b) /\ ~(x = s /\ k = a)
  BY <1>0, AccessRun
<1>2. /\ WritesAt(q, r, s, a, b) <=> (f.do # "wait" /\ b \in f.writes)
      /\ OpAt(q, r, s, a) = f /\ s \in Stream
  BY <1>0 DEF Pops, WritesAt
<1>3. CASE c[b] = v /\ \A x \in Stream : \A k \in Nat : ~WritesAt(q, r, x, k, b)
  <2>1. C[b] = v
    BY <1>2, <1>3 DEF Leaves
  <2> QED BY <1>1, <1>3, <2>1 DEF Will
<1>4. ASSUME NEW u \in Stream, NEW m \in Nat,
             WritesAt(q, r, u, m, b), OpAt(q, r, u, m).by = v,
             \A x \in Stream : \A k \in Nat : WritesAt(q, r, x, k, b) =>
               (x = u /\ k = m) \/ Before(q, r, x, k, u, m)
      PROVE  Will(Q, R, C, b, v)
  <2>1. CASE u = s /\ m = a
    <3>1. C[b] = v
      BY <1>2, <1>4, <2>1
    <3>2. ASSUME NEW x \in Stream, NEW k \in Nat, WritesAt(Q, R, x, k, b) PROVE FALSE
      <4>1. Before(q, r, x, k, s, r[s] + 1) /\ Due(q, r, x, k)
        BY <1>0, <1>1, <1>4, <2>1, <3>2 DEF WritesAt
      <4> QED BY <4>1, RunsFirst
    <3> QED BY <3>1, <3>2 DEF Will
  <2>2. CASE ~(u = s /\ m = a)
    <3>1. WritesAt(Q, R, u, m, b)
      BY <1>1, <1>4, <2>2
    <3>2. OpAt(Q, R, u, m).by = v
      BY <1>4, <3>1 DEF Pops, WritesAt
    <3>3. \A x \in Stream : \A k \in Nat : WritesAt(Q, R, x, k, b) =>
               (x = u /\ k = m) \/ Before(Q, R, x, k, u, m)
      BY <1>1, <1>4, BeforeRun
    <3> QED BY <3>1, <3>2, <3>3 DEF Will
  <2> QED BY <2>1, <2>2
<1> QED BY <1>3, <1>4 DEF Will

\* A reader still gets what it did when a stream runs.
LEMMA GetsRun ==
  ASSUME NEW q, NEW r, NEW c, NEW s, NEW f, NEW Q, NEW R, Pops(q, r, s, f, Q, R),
         NEW C, Leaves(f, c, C), NEW b \in Blocks, NEW v,
         NEW t \in Stream, NEW j \in Nat, Due(Q, R, t, j), Gets(q, r, c, t, j, b, v),
         f.do # "wait" /\ b \in f.writes /\ f.by = v => C[b] = v
  PROVE  Gets(Q, R, C, t, j, b, v)
<1>0. PICK a \in Nat : a = r[s] + 1
  BY DEF Pops
<1>1. \A x \in Stream : \A k \in Nat :
        WritesAt(Q, R, x, k, b) <=> WritesAt(q, r, x, k, b) /\ ~(x = s /\ k = a)
  BY <1>0, AccessRun
<1>2. /\ WritesAt(q, r, s, a, b) <=> (f.do # "wait" /\ b \in f.writes)
      /\ OpAt(q, r, s, a) = f /\ s \in Stream
  BY <1>0 DEF Pops, WritesAt
<1>3. Due(q, r, t, j) /\ ~(t = s /\ j = a)
  BY <1>0 DEF Pops
<1>4. ~Before(q, r, t, j, s, a)
  BY <1>0, <1>3, RunsFirst
<1>5. CASE c[b] = v /\ \A x \in Stream : \A k \in Nat : WritesAt(q, r, x, k, b) =>
             (x = t /\ k = j) \/ Before(q, r, t, j, x, k)
  <2>1. ~(f.do # "wait" /\ b \in f.writes)
    BY <1>2, <1>3, <1>4, <1>5
  <2>2. C[b] = v
    BY <1>5, <2>1 DEF Leaves
  <2>3. \A x \in Stream : \A k \in Nat : WritesAt(Q, R, x, k, b) =>
             (x = t /\ k = j) \/ Before(Q, R, t, j, x, k)
    BY <1>1, <1>5, BeforeRun
  <2> QED BY <2>2, <2>3 DEF Gets
<1>6. ASSUME NEW u \in Stream, NEW m \in Nat,
             WritesAt(q, r, u, m, b), OpAt(q, r, u, m).by = v, Before(q, r, u, m, t, j),
             \A x \in Stream : \A k \in Nat : WritesAt(q, r, x, k, b) =>
               \/ x = u /\ k = m
               \/ Before(q, r, x, k, u, m)
               \/ x = t /\ k = j
               \/ Before(q, r, t, j, x, k)
      PROVE  Gets(Q, R, C, t, j, b, v)
  <2>1. CASE u = s /\ m = a
    <3>1. C[b] = v
      BY <1>2, <1>6, <2>1
    <3>2. ASSUME NEW x \in Stream, NEW k \in Nat, WritesAt(Q, R, x, k, b)
          PROVE  (x = t /\ k = j) \/ Before(Q, R, t, j, x, k)
      <4>1. WritesAt(q, r, x, k, b) /\ ~(x = s /\ k = a) /\ Due(q, r, x, k)
        BY <1>1, <3>2 DEF WritesAt
      <4>2. ~Before(q, r, x, k, s, a)
        BY <1>0, <4>1, RunsFirst
      <4>3. (x = t /\ k = j) \/ Before(q, r, t, j, x, k)
        BY <1>6, <2>1, <4>1, <4>2
      <4> QED BY <4>3, BeforeRun
    <3> QED BY <3>1, <3>2 DEF Gets
  <2>2. CASE ~(u = s /\ m = a)
    <3>1. WritesAt(Q, R, u, m, b)
      BY <1>1, <1>6, <2>2
    <3>2. OpAt(Q, R, u, m).by = v
      BY <1>6, <3>1 DEF Pops, WritesAt
    <3>3. \A x \in Stream : \A k \in Nat : WritesAt(Q, R, x, k, b) =>
               \/ x = u /\ k = m
               \/ Before(Q, R, x, k, u, m)
               \/ x = t /\ k = j
               \/ Before(Q, R, t, j, x, k)
      BY <1>1, <1>6, BeforeRun
    <3>4. Before(Q, R, u, m, t, j)
      BY <1>6, BeforeRun
    <3> QED BY <3>1, <3>2, <3>3, <3>4 DEF Gets
  <2> QED BY <2>1, <2>2
<1> QED BY <1>5, <1>6 DEF Gets

\* An operation of a pass is for that pass in all it needs.
LEMMA NeedsPass ==
  ASSUME NEW o, WellFormed(o), NEW b
  PROVE  Needs(o, b)[2] = o.by[2]
BY DEF Needs, WellFormed, Work, Value

\* Running the next operation keeps the streams in order and the values right,
\* if the operation leaves what it is said to when it finds what it needs.
LEMMA CoreRun ==
  ASSUME NEW q, NEW r, NEW c, NEW ls, Core(q, r, c, ls),
         NEW s, NEW f, NEW Q, NEW R, Pops(q, r, s, f, Q, R), NEW C, Leaves(f, c, C),
         f.do # "wait" /\ f.by[2] \notin ls /\ (\A b \in f.reads : c[b] = Needs(f, b))
           => \A b \in f.writes : C[b] = f.by,
         f.do # "wait" => f.reads \subseteq Blocks
  PROVE  /\ Core(Q, R, C, ls)
         /\ \A b \in Blocks : \A v : v[2] \notin ls /\ Will(q, r, c, b, v) => Will(Q, R, C, b, v)
<1>0. Wired(q, r) /\ Ordered(q, r, ls) /\ Fed(q, r, c, ls)
  BY DEF Core
<1>1. PICK a \in Nat : a = r[s] + 1
  BY DEF Pops
<1>2. s \in Stream /\ OpAt(q, r, s, a) = f /\ Due(q, r, s, a) /\ PassAt(q, r, s, a) = f.by[2]
  BY <1>1 DEF Pops, PassAt
<1>3. ASSUME f.do # "wait", f.by[2] \notin ls PROVE \A b \in f.writes : C[b] = f.by
  <2> SUFFICES ASSUME NEW b \in f.reads PROVE c[b] = Needs(f, b)
    BY <1>3
  <2>1. b \in Blocks
    BY <1>3
  <2>2. ReadsAt(q, r, s, a, b) /\ PassAt(q, r, s, a) \notin ls
    BY <1>2, <1>3 DEF ReadsAt
  <2>3. Gets(q, r, c, s, a, b, Needs(f, b))
    BY <1>0, <1>2, <2>1, <2>2 DEF Fed
  <2> QED BY <1>1, <2>3, FrontFinds
<1>4. ASSUME NEW b, NEW v, v[2] \notin ls PROVE f.do # "wait" /\ b \in f.writes /\ f.by = v => C[b] = v
  BY <1>3, <1>4
<1>5. \A x \in Stream : \A k \in Nat : Due(Q, R, x, k) =>
        OpAt(Q, R, x, k) = OpAt(q, r, x, k) /\ Due(q, r, x, k) /\ PassAt(Q, R, x, k) = PassAt(q, r, x, k)
  BY DEF Pops, PassAt
<1>6. Wired(Q, R)
  <2>1. Q \in [Stream -> Seq(AnyOp)] /\ R \in [Stream -> Nat]
    BY DEF Pops
  <2>2. ASSUME NEW x \in Stream, NEW k \in Nat, Due(Q, R, x, k)
        PROVE  IF OpAt(Q, R, x, k).do = "wait"
               THEN OpAt(Q, R, x, k).position <= EndOf(Q, R, OpAt(Q, R, x, k).on)
               ELSE WellFormed(OpAt(Q, R, x, k))
    <3>1. PICK w : w = OpAt(q, r, x, k)
      OBVIOUS
    <3>2. w = OpAt(Q, R, x, k) /\ Due(q, r, x, k) /\ w \in AnyOp
      BY <1>5, <2>2, <3>1 DEF Pops
    <3>3. IF w.do = "wait" THEN w.position <= EndOf(q, r, w.on) ELSE WellFormed(w)
      BY <1>0, <3>1, <3>2 DEF Wired
    <3>4. CASE w.do = "wait"
      <4>1. w.on \in Stream
        BY <3>2, <3>4 DEF AnyOp, OverlapWait, OverlapWork, Kernels
      <4>2. EndOf(Q, R, w.on) = EndOf(q, r, w.on)
        BY <4>1 DEF Pops
      <4> QED BY <3>2, <3>3, <3>4, <4>2
    <3> QED BY <3>2, <3>3, <3>4
  <2> QED BY <2>1, <2>2 DEF Wired, AnyOp
<1>7. Ordered(Q, R, ls)
  <2> SUFFICES ASSUME NEW x \in Stream, NEW t \in Stream, NEW k \in Nat, NEW j \in Nat,
                      NEW b \in Blocks, x # t, WritesAt(Q, R, x, k, b)
               PROVE  /\ WritesAt(Q, R, t, j, b) =>
                           Before(Q, R, x, k, t, j) \/ Before(Q, R, t, j, x, k)
                      /\ ReadsAt(Q, R, t, j, b) =>
                           \/ Before(Q, R, x, k, t, j) \/ Before(Q, R, t, j, x, k)
                           \/ PassAt(Q, R, t, j) \in ls
    BY DEF Ordered
  <2>1. WritesAt(q, r, x, k, b)
        /\ (WritesAt(Q, R, t, j, b) => WritesAt(q, r, t, j, b))
        /\ (ReadsAt(Q, R, t, j, b) => ReadsAt(q, r, t, j, b))
    BY AccessRun
  <2>2. /\ Before(q, r, x, k, t, j) => Before(Q, R, x, k, t, j)
        /\ Before(q, r, t, j, x, k) => Before(Q, R, t, j, x, k)
    BY BeforeRun
  <2>3. WritesAt(q, r, t, j, b) => Before(q, r, x, k, t, j) \/ Before(q, r, t, j, x, k)
    BY <1>0, <2>1 DEF Ordered
  <2>4. ReadsAt(q, r, t, j, b) =>
          Before(q, r, x, k, t, j) \/ Before(q, r, t, j, x, k) \/ PassAt(q, r, t, j) \in ls
    BY <1>0, <2>1 DEF Ordered
  <2>5. ReadsAt(Q, R, t, j, b) => PassAt(Q, R, t, j) = PassAt(q, r, t, j)
    BY <1>5 DEF ReadsAt
  <2> QED BY <2>1, <2>2, <2>3, <2>4, <2>5
<1>8. Fed(Q, R, C, ls)
  <2> SUFFICES ASSUME NEW t \in Stream, NEW j \in Nat, NEW b \in Blocks,
                      ReadsAt(Q, R, t, j, b), PassAt(Q, R, t, j) \notin ls
               PROVE  Gets(Q, R, C, t, j, b, Needs(OpAt(Q, R, t, j), b))
    BY DEF Fed
  <2>1. PICK o : o = OpAt(Q, R, t, j)
    OBVIOUS
  <2>2. Due(Q, R, t, j) /\ o.do # "wait"
    BY <2>1 DEF ReadsAt
  <2>3. o = OpAt(q, r, t, j) /\ ReadsAt(q, r, t, j, b) /\ PassAt(q, r, t, j) \notin ls
    BY <1>5, <2>1, <2>2, AccessRun
  <2>4. Gets(q, r, c, t, j, b, Needs(o, b))
    BY <1>0, <2>3 DEF Fed
  <2>5. WellFormed(o)
    BY <1>6, <2>1, <2>2 DEF Wired
  <2>6. Needs(o, b)[2] \notin ls
    BY <2>3, <2>5, NeedsPass DEF PassAt
  <2>7. f.do # "wait" /\ b \in f.writes /\ f.by = Needs(o, b) => C[b] = Needs(o, b)
    BY <1>4, <2>6
  <2>8. Gets(Q, R, C, t, j, b, Needs(o, b))
    BY <2>2, <2>4, <2>7, GetsRun
  <2> QED BY <2>1, <2>8
<1>9. ASSUME NEW b \in Blocks, NEW v, v[2] \notin ls, Will(q, r, c, b, v)
      PROVE  Will(Q, R, C, b, v)
  BY <1>4, <1>9, WillRun
<1> QED BY <1>6, <1>7, <1>8, <1>9 DEF Core

-----------------------------------------------------------------------------
\* The hubs, and the two steps every call of the host is made of.

\* A stream has joined itself.
LEMMA JoinedItself ==
  ASSUME NEW q, NEW r, NEW s \in Stream, NEW k \in Nat, EndOf(q, r, s) \in Nat,
         k <= EndOf(q, r, s)
  PROVE  Joined(q, r, s, s, k)
BY KnowsItself DEF Joined

\* Who waits for a stream joins all that the stream has joined.
LEMMA WaitTakes ==
  ASSUME NEW q, NEW r, Wired(q, r), NEW s, NEW t \in Stream,
         NEW Q, Extends(q, r, s, WaitFor(t, EndOf(q, r, t)), Q),
         NEW u \in Stream, NEW m \in Nat, Joined(q, r, t, u, m)
  PROVE  Joined(Q, r, s, u, m)
<1>1. PICK p \in Nat : p = EndOf(q, r, t)
  BY DEF Extends
<1>2. s \in Stream /\ WaitFor(t, p) \in AnyOp /\ Extends(q, r, s, WaitFor(t, p), Q)
  BY <1>1 DEF Extends
<1>3. Joined(Q, r, s, t, p)
  BY <1>2, WaitJoins
<1>4. Knows(q, r, t, p, u, m)
  BY <1>1 DEF Joined
<1>5. Knows(Q, r, t, p, u, m)
  BY <1>1, <1>2, <1>4, KnowsAppend
<1> QED BY <1>3, <1>5, KnowsTransitive DEF Joined

\* The hubs stay when a wait is issued, or an operation on what belongs to its
\* stream, or that may read it for now.
LEMMA HubAppend ==
  ASSUME NEW q, NEW r, NEW pl, NEW ls, NEW E, NEW B, Wired(q, r), Hub(q, r, pl, ls, E, B),
         NEW s, NEW o, NEW Q, Extends(q, r, s, o, Q),
         o.do # "wait" => \A b \in B :
           /\ b \in o.writes => pl[b] = s
           /\ b \in o.reads => pl[b] = s \/ (pl[b] \in Stream /\ <<b, s, o.by[2]>> \in E)
  PROVE  Hub(Q, r, pl, ls, E, B)
<1>0. s \in Stream /\ o \in AnyOp /\ EndOf(q, r, s) \in Nat
      /\ EndOf(Q, r, s) = EndOf(q, r, s) + 1 /\ OpAt(Q, r, s, EndOf(q, r, s) + 1) = o
  BY DEF Extends
<1>1. PICK e \in Nat : e = EndOf(q, r, s) + 1 /\ e = EndOf(Q, r, s)
  BY <1>0
<1>2. Joined(Q, r, s, s, e)
  BY <1>0, <1>1, JoinedItself
<1> SUFFICES ASSUME NEW b \in B, NEW t \in Stream, NEW k \in Nat
             PROVE  /\ WritesAt(Q, r, t, k, b) => pl[b] \in Stream /\ Joined(Q, r, pl[b], t, k)
                    /\ ReadsAt(Q, r, t, k, b) =>
                         /\ pl[b] \in Stream
                         /\ \/ Joined(Q, r, pl[b], t, k)
                            \/ PassAt(Q, r, t, k) \in ls
                            \/ <<b, t, PassAt(Q, r, t, k)>> \in E
  BY DEF Hub
<1>3. pl[b] \in Stream /\ Joined(q, r, pl[b], t, k) => Joined(Q, r, pl[b], t, k)
  BY <1>0, JoinedAppend
<1>4. CASE t = s /\ k = e /\ ~Due(q, r, t, k)
  <2>1. PassAt(Q, r, t, k) = o.by[2]
    BY <1>0, <1>1, <1>4 DEF PassAt
  <2>2. /\ WritesAt(Q, r, t, k, b) => o.do # "wait" /\ b \in o.writes
        /\ ReadsAt(Q, r, t, k, b) => o.do # "wait" /\ b \in o.reads
    BY <1>4, AccessAppend DEF WritesAt, ReadsAt
  <2> QED BY <1>0, <1>2, <1>4, <2>1, <2>2
<1>5. CASE Due(q, r, t, k)
  <2>1. PassAt(Q, r, t, k) = PassAt(q, r, t, k) /\ ~(t = s /\ k = EndOf(q, r, s) + 1)
    BY <1>5 DEF PassAt, Extends
  <2>2. /\ WritesAt(Q, r, t, k, b) => WritesAt(q, r, t, k, b)
        /\ ReadsAt(Q, r, t, k, b) => ReadsAt(q, r, t, k, b)
    BY <2>1, AccessAppend
  <2> QED BY <1>3, <2>1, <2>2 DEF Hub
<1>6. CASE ~Due(q, r, t, k) /\ ~(t = s /\ k = e)
  <2>1. ~Due(Q, r, t, k)
    BY <1>1, <1>6 DEF Extends
  <2> QED BY <2>1 DEF WritesAt, ReadsAt
<1> QED BY <1>4, <1>5, <1>6

\* The hubs stay when a stream runs.
LEMMA HubRun ==
  ASSUME NEW q, NEW r, NEW pl, NEW ls, NEW E, NEW B, Hub(q, r, pl, ls, E, B),
         NEW s, NEW f, NEW Q, NEW R, Pops(q, r, s, f, Q, R)
  PROVE  Hub(Q, R, pl, ls, E, B)
<1> SUFFICES ASSUME NEW b \in B, NEW t \in Stream, NEW k \in Nat
             PROVE  /\ WritesAt(Q, R, t, k, b) => pl[b] \in Stream /\ Joined(Q, R, pl[b], t, k)
                    /\ ReadsAt(Q, R, t, k, b) =>
                         /\ pl[b] \in Stream
                         /\ \/ Joined(Q, R, pl[b], t, k)
                            \/ PassAt(Q, R, t, k) \in ls
                            \/ <<b, t, PassAt(Q, R, t, k)>> \in E
  BY DEF Hub
<1>1. /\ WritesAt(Q, R, t, k, b) => WritesAt(q, r, t, k, b)
      /\ ReadsAt(Q, R, t, k, b) => ReadsAt(q, r, t, k, b)
  BY AccessRun
<1>2. ReadsAt(Q, R, t, k, b) => PassAt(Q, R, t, k) = PassAt(q, r, t, k)
  BY DEF PassAt, ReadsAt, Pops
<1>3. pl[b] \in Stream /\ Joined(q, r, pl[b], t, k) => Joined(Q, R, pl[b], t, k)
  BY JoinedRun
<1> QED BY <1>1, <1>2, <1>3 DEF Hub

\* A block nobody uses may change hands, a pass may be lost, and who is excused
\* may change as far as that is covered.
LEMMA HubAgain ==
  ASSUME NEW q, NEW r, NEW pl, NEW ls, NEW E, NEW B, Hub(q, r, pl, ls, E, B),
         NEW pm, NEW lt, NEW F,
         \A b \in B : pl[b] \in Stream => pm[b] = pl[b],
         ls \subseteq lt,
         \A b \in B, t \in Stream : \A p :
           pl[b] \in Stream /\ <<b, t, p>> \in E => <<b, t, p>> \in F \/ p \in lt
  PROVE  Hub(q, r, pm, lt, F, B)
<1> SUFFICES ASSUME NEW b \in B, NEW t \in Stream, NEW k \in Nat
             PROVE  /\ WritesAt(q, r, t, k, b) => pm[b] \in Stream /\ Joined(q, r, pm[b], t, k)
                    /\ ReadsAt(q, r, t, k, b) =>
                         /\ pm[b] \in Stream
                         /\ \/ Joined(q, r, pm[b], t, k)
                            \/ PassAt(q, r, t, k) \in lt
                            \/ <<b, t, PassAt(q, r, t, k)>> \in F
  BY DEF Hub
<1> QED BY DEF Hub

\* Once its stream has waited, a reader need not be excused.
LEMMA HubJoin ==
  ASSUME NEW q, NEW r, NEW pl, NEW ls, NEW E, NEW B, Wired(q, r), Hub(q, r, pl, ls, E, B),
         NEW s, NEW u \in Stream, NEW Q, Extends(q, r, s, WaitFor(u, EndOf(q, r, u)), Q),
         NEW F,
         \A b \in B, t \in Stream : \A p :
           <<b, t, p>> \in E => <<b, t, p>> \in F \/ (pl[b] = s /\ t = u)
  PROVE  Hub(Q, r, pl, ls, F, B)
<1>1. PICK o : o = WaitFor(u, EndOf(q, r, u))
  OBVIOUS
<1>2. o.do = "wait" /\ Extends(q, r, s, o, Q) /\ s \in Stream
  BY <1>1 DEF WaitFor, Extends
<1>3. Hub(Q, r, pl, ls, E, B)
  BY <1>2, HubAppend
<1> SUFFICES ASSUME NEW b \in B, NEW t \in Stream, NEW k \in Nat, ReadsAt(Q, r, t, k, b),
                    pl[b] = s, t = u
             PROVE  Joined(Q, r, s, t, k)
  BY <1>2, <1>3 DEF Hub
<1>4. Due(q, r, t, k)
  BY <1>2, AccessAppend DEF ReadsAt
<1>5. EndOf(q, r, u) \in Nat
  BY DEF Extends
<1>6. Joined(q, r, u, t, k)
  BY <1>4, <1>5, JoinedItself DEF Due
<1> QED BY <1>6, WaitTakes

\* Who waits for the stream of a block may take the block over.
LEMMA HubMove ==
  ASSUME NEW q, NEW r, NEW pl, NEW ls, NEW E, NEW B, Wired(q, r), Hub(q, r, pl, ls, E, B),
         NEW s, NEW u \in Stream, NEW Q, Extends(q, r, s, WaitFor(u, EndOf(q, r, u)), Q),
         NEW a, pl[a] = u, NEW pm, pm[a] = s, \A b \in B : b # a => pm[b] = pl[b],
         \A t, p : <<a, t, p>> \notin E
  PROVE  Hub(Q, r, pm, ls, E, B)
<1>1. PICK o : o = WaitFor(u, EndOf(q, r, u))
  OBVIOUS
<1>2. o.do = "wait" /\ Extends(q, r, s, o, Q) /\ s \in Stream
  BY <1>1 DEF WaitFor, Extends
<1>3. Hub(Q, r, pl, ls, E, B)
  BY <1>2, HubAppend
<1> SUFFICES ASSUME NEW b \in B, NEW t \in Stream, NEW k \in Nat
             PROVE  /\ WritesAt(Q, r, t, k, b) => pm[b] \in Stream /\ Joined(Q, r, pm[b], t, k)
                    /\ ReadsAt(Q, r, t, k, b) =>
                         /\ pm[b] \in Stream
                         /\ \/ Joined(Q, r, pm[b], t, k)
                            \/ PassAt(Q, r, t, k) \in ls
                            \/ <<b, t, PassAt(Q, r, t, k)>> \in E
  BY DEF Hub
<1>4. CASE b # a
  BY <1>3, <1>4 DEF Hub
<1>5. CASE b = a
  <2>1. /\ WritesAt(Q, r, t, k, b) => WritesAt(q, r, t, k, b)
        /\ ReadsAt(Q, r, t, k, b) => ReadsAt(q, r, t, k, b)
    BY <1>2, AccessAppend
  <2>2. Joined(q, r, u, t, k) => Joined(Q, r, s, t, k)
    BY WaitTakes
  <2>3. ReadsAt(q, r, t, k, b) => PassAt(Q, r, t, k) = PassAt(q, r, t, k)
    BY <1>2 DEF PassAt, ReadsAt, Extends
  <2>4. /\ WritesAt(q, r, t, k, b) => Joined(q, r, u, t, k)
        /\ ReadsAt(q, r, t, k, b) => Joined(q, r, u, t, k) \/ PassAt(q, r, t, k) \in ls
    BY <1>5 DEF Hub
  <2> QED BY <1>2, <1>5, <2>1, <2>2, <2>3, <2>4
<1> QED BY <1>4, <1>5

-----------------------------------------------------------------------------
\* The two steps every call of the host is made of.

\* A wait for all another stream has been given.
LEMMA IssueWait ==
  ASSUME NEW q, NEW r, NEW c, NEW ls, Core(q, r, c, ls),
         NEW s, NEW t \in Stream, NEW Q, Extends(q, r, s, WaitFor(t, EndOf(q, r, t)), Q)
  PROVE  /\ Core(Q, r, c, ls)
         /\ \A b, v : Will(q, r, c, b, v) => Will(Q, r, c, b, v)
<1>1. PICK p \in Nat : p = EndOf(q, r, t) /\ p <= EndOf(q, r, t)
  BY DEF Extends
<1>2. Core(Q, r, c, ls)
  BY <1>1, CoreWait
<1>3. PICK o : o = WaitFor(t, EndOf(q, r, t)) /\ o.do = "wait"
  BY DEF WaitFor
<1>4. ASSUME NEW b, NEW v, Will(q, r, c, b, v) PROVE Will(Q, r, c, b, v)
  BY <1>3, <1>4, WillAppend DEF Core
<1> QED BY <1>2, <1>4

\* An operation on blocks of its stream, or that may read another's for now.
LEMMA IssueWork ==
  ASSUME NEW q, NEW r, NEW c, NEW ls, NEW pl, NEW E,
         Core(q, r, c, ls), Hub(q, r, pl, ls, E, Blocks),
         NEW s, NEW o, NEW Q, Extends(q, r, s, o, Q), o.do # "wait", WellFormed(o),
         o.reads \subseteq Blocks, o.writes \subseteq Blocks,
         \A b \in o.writes : pl[b] = s /\ \A t, p : <<b, t, p>> \notin E,
         \A b \in o.reads :
           \/ pl[b] = s
           \/ /\ pl[b] \in Stream /\ <<b, s, o.by[2]>> \in E
              /\ \A t \in Stream : \A k \in Nat : WritesAt(q, r, t, k, b) => Joined(q, r, s, t, k),
         o.by[2] \notin ls => \A b \in o.reads : Will(q, r, c, b, Needs(o, b))
  PROVE  /\ Core(Q, r, c, ls) /\ Hub(Q, r, pl, ls, E, Blocks)
         /\ \A b \in o.writes : Will(Q, r, c, b, o.by)
         /\ \A b, v : b \notin o.writes /\ Will(q, r, c, b, v) => Will(Q, r, c, b, v)
<1>0. Wired(q, r)
  BY DEF Core
<1>1. \A b \in o.reads \cup o.writes : \A t \in Stream : \A k \in Nat :
        WritesAt(q, r, t, k, b) => Joined(q, r, s, t, k)
  <2>1. ASSUME NEW b \in Blocks, pl[b] = s, NEW t \in Stream, NEW k \in Nat,
               WritesAt(q, r, t, k, b)
        PROVE  Joined(q, r, s, t, k)
    BY <2>1 DEF Hub
  <2>2. ASSUME NEW b \in o.reads, NEW t \in Stream, NEW k \in Nat, WritesAt(q, r, t, k, b)
        PROVE  Joined(q, r, s, t, k)
    <3>1. b \in Blocks
      OBVIOUS
    <3>2. CASE pl[b] = s
      BY <2>1, <2>2, <3>1, <3>2
    <3>3. CASE pl[b] # s
      BY <2>2, <3>3
    <3> QED BY <3>2, <3>3
  <2>3. ASSUME NEW b \in o.writes, NEW t \in Stream, NEW k \in Nat, WritesAt(q, r, t, k, b)
        PROVE  Joined(q, r, s, t, k)
    <3>1. b \in Blocks /\ pl[b] = s
      OBVIOUS
    <3> QED BY <2>1, <2>3, <3>1
  <2> QED BY <2>2, <2>3
<1>2. \A b \in o.writes : \A t \in Stream : \A k \in Nat :
        ReadsAt(q, r, t, k, b) => Joined(q, r, s, t, k) \/ PassAt(q, r, t, k) \in ls
  BY DEF Hub
<1>3. Core(Q, r, c, ls)
  BY <1>1, <1>2, CoreWork
<1>4. Hub(Q, r, pl, ls, E, Blocks)
  BY <1>0, HubAppend
<1>5. ASSUME NEW b \in o.writes PROVE Will(Q, r, c, b, o.by)
  BY <1>0, <1>1, WillNew
<1>6. ASSUME NEW b, NEW v, b \notin o.writes, Will(q, r, c, b, v) PROVE Will(Q, r, c, b, v)
  BY <1>0, <1>6, WillAppend
<1> QED BY <1>3, <1>4, <1>5, <1>6

\* The inductive invariant of the shared expert.
OverlapInv ==
  HostInv /\ Core(pending, ran, content, lost) /\ HubInv /\ WillInv

\* Issuing one operation, none or two is appending them in turn.
LEMMA ConcatOne ==
  ASSUME NEW S, NEW z \in Seq(S), NEW o \in S
  PROVE  z \o <<o>> = Append(z, o)
OBVIOUS

\* As above, for no operation.
LEMMA ConcatNone ==
  ASSUME NEW S, NEW z \in Seq(S)
  PROVE  z \o << >> = z
OBVIOUS

\* As above, for two.
LEMMA ConcatTwo ==
  ASSUME NEW S, NEW z \in Seq(S), NEW o \in S, NEW p \in S
  PROVE  z \o <<o, p>> = Append(Append(z, o), p)
OBVIOUS

\* What the assumption on the constants says in the form the proofs use.
LEMMA ConstantFacts ==
  /\ Layers \in Nat /\ Layers > 0 /\ MaxPasses \in Nat
  /\ Device \subseteq Stream /\ Compute \in Stream /\ Compute \notin Device
  /\ None \notin Blocks /\ None \notin Stream
  /\ \A f \in Placements : \A l \in 1..Layers : f[l] \in Device
BY SharedExpertAssumption DEF SharedExpertAssumption

\* Where the host is and what it holds.
LEMMA HostFacts ==
  ASSUME HostInv
  PROVE  /\ Current \in Device /\ Current \in Stream /\ Current # Compute
         /\ layer \in Nat /\ pass \in Nat
         /\ phase # "between" => /\ Here \in Device /\ Here \in Stream /\ Here # Compute
                                 /\ hidden \in Blocks /\ pool[hidden] = Here
                                 /\ pass \notin lost
         /\ phase = "routed" => routed \in Blocks /\ pool[routed] = Here /\ routed # hidden
         /\ shared # None => shared \in Blocks /\ pool[shared] \in {Compute, Here}
<1>1. HostTypes /\ HostInPass /\ HostHolds /\ HostBetween
  BY DEF HostInv
<1>2. Current \in Device /\ Current \in Stream /\ Current # Compute
  <2>1. 1 \in 1..Layers
    BY ConstantFacts
  <2> QED BY <1>1, <2>1, ConstantFacts DEF HostTypes, Current
<1>3. layer \in Nat /\ pass \in Nat
  BY <1>1, ConstantFacts DEF HostTypes
<1>4. phase # "between" => Here \in Device /\ Here \in Stream /\ Here # Compute
  BY <1>1, ConstantFacts DEF HostTypes, HostInPass, Here
<1> QED BY <1>1, <1>2, <1>3, <1>4 DEF HostTypes, HostInPass, HostHolds, SharedRunsOn, Here

\* What the allocator hands out is the stream's own or nobody's, and not in use
\* by the host.
LEMMA FreeFacts ==
  ASSUME HostInv, NEW s, NEW T, NEW b \in Allocatable(s, T)
  PROVE  /\ b \in Blocks /\ b \notin T /\ pool[b] \in {s, None}
         /\ b # hidden /\ b # routed /\ b # shared
<1>1. b \in Blocks /\ b \notin T /\ (pool[b] = None \/ (pool[b] = s /\ b \notin Held))
  BY DEF Allocatable, Fresh
<1>2. hidden # None => pool[hidden] # None
  BY HostFacts, ConstantFacts DEF HostInv, HostBetween
<1>3. routed # None => pool[routed] # None
  BY HostFacts, ConstantFacts DEF HostInv, HostHolds
<1>4. shared # None => pool[shared] # None
  <2>1. Here \in Stream \/ phase = "between"
    BY HostFacts
  <2> QED BY <2>1, HostFacts, ConstantFacts DEF HostInv, HostBetween
<1> QED BY <1>1, <1>2, <1>3, <1>4, ConstantFacts DEF Held

\* A block handed out keeps the hubs.
LEMMA HubGive ==
  ASSUME NEW q, NEW r, NEW pl \in [Blocks -> Stream \cup {None}], NEW ls,
         NEW cu, NEW h, NEW sh, NEW ps,
         Hub(q, r, pl, ls, Excused(cu, pl, h, sh, ps), Blocks),
         NEW b \in Blocks, sh # None => h # b, NEW pm,
         pl[b] = pm[b] \/ pl[b] = None, \A x \in Blocks : x # b => pm[x] = pl[x]
  PROVE  Hub(q, r, pm, ls, Excused(cu, pm, h, sh, ps), Blocks)
<1> DEFINE E == Excused(cu, pl, h, sh, ps)
           F == Excused(cu, pm, h, sh, ps)
<1>2. \A x \in Blocks : pl[x] \in Stream => pm[x] = pl[x]
  BY ConstantFacts
<1>3. ASSUME NEW x \in Blocks, NEW t \in Stream, NEW p, pl[x] \in Stream, <<x, t, p>> \in E
      PROVE  <<x, t, p>> \in F
  <2>1. sh # None /\ x = h => pm[h] = pl[h]
    OBVIOUS
  <2> QED BY <1>2, <1>3, <2>1 DEF Excused
<1>4. Hub(q, r, pl, ls, E, Blocks)
  OBVIOUS
<1> HIDE DEF E, F
<1>5. Hub(q, r, pm, ls, F, Blocks)
  BY <1>2, <1>3, <1>4, HubAgain
<1> QED BY <1>5 DEF F

\* Nothing has been issued at first.
LEMMA OverlapInitOK == OverlapInit => OverlapInv
<1> SUFFICES ASSUME OverlapInit PROVE OverlapInv
  OBVIOUS
<1> USE DEF OverlapInit, StreamsInit
<1>1. \A s \in Stream : \A k : ~Due(pending, ran, s, k)
  BY DEF Due, EndOf
<1>2. \A s \in Stream : \A k, b : ~WritesAt(pending, ran, s, k, b) /\ ~ReadsAt(pending, ran, s, k, b)
  BY <1>1 DEF WritesAt, ReadsAt
<1>3. Core(pending, ran, content, lost)
  <2>1. Wired(pending, ran)
    BY <1>1 DEF Wired
  <2>2. Ordered(pending, ran, lost)
    BY <1>2 DEF Ordered
  <2>3. Fed(pending, ran, content, lost)
    BY <1>2 DEF Fed
  <2> QED BY <2>1, <2>2, <2>3 DEF Core
<1>4. HubInv
  BY <1>2 DEF HubInv, Hub
<1>5. HostInv
  BY ConstantFacts DEF HostInv, HostTypes, HostBetween, HostInPass, HostHolds, HostBound, HostAnswers
<1>6. WillInv
  BY DEF WillInv
<1> QED BY <1>3, <1>4, <1>5, <1>6 DEF OverlapInv

-----------------------------------------------------------------------------
\* The calls of the host.

\* One operation more on one stream.
LEMMA IssueOne ==
  ASSUME NEW q \in [Stream -> Seq(AnyOp)], NEW r \in [Stream -> Nat],
         NEW s \in Stream, NEW o \in AnyOp, NEW Q, Q = [q EXCEPT ![s] = @ \o <<o>>]
  PROVE  Extends(q, r, s, o, Q)
<1>1. q[s] \o <<o>> = Append(q[s], o)
  BY ConcatOne
<1>2. Q = AppendTo(q, s, o)
  BY <1>1 DEF AppendTo
<1> QED BY <1>2, AppendFacts

\* A kernel is an operation.
LEMMA WorkIsOp ==
  ASSUME NEW kind \in {"hidden", "shared", "routed", "sum"}, NEW p \in Nat, NEW l \in Nat,
         NEW do \in Kernels, NEW A \in SUBSET Blocks, NEW B \in SUBSET Blocks
  PROVE  /\ Work(Value(kind, p, l), do, A, B) \in AnyOp
         /\ Work(Value(kind, p, l), do, A, B).do # "wait"
         /\ Work(Value(kind, p, l), do, A, B).do = do
         /\ Work(Value(kind, p, l), do, A, B).by = Value(kind, p, l)
         /\ Work(Value(kind, p, l), do, A, B).by[2] = p
         /\ Work(Value(kind, p, l), do, A, B).by[3] = l
         /\ Work(Value(kind, p, l), do, A, B).reads = A
         /\ Work(Value(kind, p, l), do, A, B).writes = B
<1>1. Value(kind, p, l) \in Values /\ Value(kind, p, l)[2] = p /\ Value(kind, p, l)[3] = l
  BY DEF Value, Values
<1> QED BY <1>1 DEF AnyOp, OverlapWork, Work, Kernels

\* A pass begins: the embedding is issued to the stream of its block.
LEMMA BeginPassStep == ASSUME OverlapInv, BeginPass PROVE OverlapInv'
<1>0. HostInv /\ Core(pending, ran, content, lost) /\ HubInv /\ WillInv
  BY DEF OverlapInv
<1>1. PICK b \in Candidates(place[1]) :
        /\ pool' = OwnedBy(b, place[1]) /\ hidden' = b
        /\ Issue(place[1], <<Work(Value("hidden", pass + 1, 1), "embed", {}, {b})>>)
  BY DEF BeginPass
<1>2. /\ pass' = pass + 1 /\ layer' = 1 /\ phase' = "layer" /\ phase = "between" /\ pass < MaxPasses
      /\ place' = place /\ enabled' = enabled /\ bound' = bound /\ routed' = routed
      /\ shared' = shared /\ content' = content /\ lost' = lost /\ answers' = answers
      /\ hidden' = b /\ Current' = Current
  BY <1>1 DEF BeginPass, Current
<1>3. b \in Blocks /\ pool[b] \in {Current, None} /\ b # None
  BY <1>0, <1>1, FreeFacts, ConstantFacts DEF Candidates, Current
<1>4. hidden = None /\ routed = None /\ shared = None
  BY <1>0, <1>2 DEF HostInv, HostBetween
<1>5. Current \in Stream /\ Current # Compute /\ pass \in Nat /\ pass + 1 \in Nat
      /\ lost \subseteq 0..pass /\ pool \in [Blocks -> Stream \cup {None}]
  BY <1>0, HostFacts DEF HostInv, HostTypes
<1>6. pass + 1 \notin lost
  BY <1>5
<1>7. PICK o : o = Work(Value("hidden", pass + 1, 1), "embed", {}, {b})
  OBVIOUS
<1>8. /\ o \in AnyOp /\ o.do # "wait" /\ o.by = Value("hidden", pass + 1, 1)
      /\ o.by[2] = pass + 1 /\ o.reads = {} /\ o.writes = {b}
  <2>1. {} \in SUBSET Blocks /\ {b} \in SUBSET Blocks /\ "embed" \in Kernels
    BY <1>3 DEF Kernels
  <2> QED BY <1>3, <1>5, <1>7, <2>1, WorkIsOp
<1>9. WellFormed(o)
  BY <1>3, <1>5, <1>7 DEF WellFormed
<1>10. pending' = [pending EXCEPT ![Current] = @ \o <<o>>] /\ ran' = ran
       /\ pool' = [pool EXCEPT ![b] = Current] /\ pool'[b] = Current
  BY <1>1, <1>3, <1>5, <1>7 DEF Issue, OwnedBy, Current
<1>11. Extends(pending, ran, Current, o, pending')
  BY <1>0, <1>5, <1>8, <1>10, IssueOne DEF Core, Wired, AnyOp
<1> DEFINE F == Excused(Current, pool', None, None, pass)
           G == Excused(Current, pool', b, None, pass + 1)
<1>12. Hub(pending, ran, pool', lost, F, Blocks)
  <2>1. Hub(pending, ran, pool, lost, Excused(Current, pool, None, None, pass), Blocks)
    BY <1>0, <1>4 DEF HubInv
  <2>2. (pool[b] = pool'[b] \/ pool[b] = None) /\ \A x \in Blocks : x # b => pool'[x] = pool[x]
    BY <1>3, <1>5, <1>10
  <2> QED BY <1>3, <1>5, <2>1, <2>2, HubGive
<1>13. (\A t, p : <<b, t, p>> \notin F) /\ G = F
  BY <1>5, <1>10 DEF Excused
<1> HIDE DEF F
<1>14. Core(pending', ran, content, lost) /\ Hub(pending', ran, pool', lost, F, Blocks)
       /\ Will(pending', ran, content, b, o.by)
  <2>1. \A x \in o.writes : pool'[x] = Current /\ \A t, p : <<x, t, p>> \notin F
    BY <1>8, <1>10, <1>13
  <2>2. o.reads \subseteq Blocks /\ o.writes \subseteq Blocks /\ b \in o.writes
    BY <1>3, <1>8
  <2>3. \A x \in o.reads : FALSE
    BY <1>8
  <2> QED BY <1>0, <1>8, <1>9, <1>11, <1>12, <2>1, <2>2, <2>3, IssueWork
<1>15. HubInv'
  BY <1>2, <1>4, <1>10, <1>13, <1>14 DEF HubInv
<1>16. WillInv'
  BY <1>2, <1>4, <1>8, <1>10, <1>14 DEF WillInv
<1>17. HostInv'
  <2>1. HostTypes'
    BY <1>0, <1>2, <1>3, <1>4, <1>5, <1>10, ConstantFacts DEF HostInv, HostTypes, Current
  <2>2. HostInPass'
    <3>1. pool'[hidden'] = place'[layer'] /\ hidden' \in Blocks
      BY <1>2, <1>3, <1>10 DEF Current
    <3>2. layer' \in 1..Layers /\ pass' \in 1..MaxPasses
      BY <1>2, <1>5, ConstantFacts
    <3> QED BY <1>2, <1>6, <3>1, <3>2 DEF HostInPass, Here
  <2>3. HostBetween' /\ HostHolds' /\ HostBound'
    BY <1>2, <1>4 DEF HostBetween, HostHolds, HostBound
  <2>4. HostAnswers'
    BY <1>0, <1>2 DEF HostInv, HostAnswers
  <2> QED BY <2>1, <2>2, <2>3, <2>4 DEF HostInv
<1> QED BY <1>2, <1>10, <1>14, <1>15, <1>16, <1>17 DEF OverlapInv

\* The routed experts read the tensor on the stream it belongs to.
LEMMA RouteStep == ASSUME OverlapInv, Route PROVE OverlapInv'
<1>0. HostInv /\ Core(pending, ran, content, lost) /\ HubInv /\ WillInv
  BY DEF OverlapInv
<1>1. PICK b \in Candidates(Here) :
        /\ pool' = OwnedBy(b, Here) /\ routed' = b
        /\ Issue(Here, <<Work(Value("routed", pass, layer), "routed", {hidden}, {b})>>)
  BY DEF Route
<1>2. /\ phase = "launched" /\ phase' = "routed" /\ pass' = pass /\ layer' = layer
      /\ place' = place /\ enabled' = enabled /\ bound' = bound /\ hidden' = hidden
      /\ shared' = shared /\ content' = content /\ lost' = lost /\ answers' = answers
      /\ routed' = b /\ Current' = Current /\ Here' = Here
  BY <1>1 DEF Route, Current, Here
<1>3. b \in Blocks /\ pool[b] \in {Here, None} /\ b # hidden /\ b # shared
  BY <1>0, <1>1, FreeFacts DEF Candidates
<1>4. /\ Here \in Stream /\ Here # Compute /\ pass \in Nat /\ layer \in Nat
      /\ hidden \in Blocks /\ pool[hidden] = Here /\ pass \notin lost
      /\ pool \in [Blocks -> Stream \cup {None}]
      /\ Will(pending, ran, content, hidden, Value("hidden", pass, layer))
  BY <1>0, <1>2, HostFacts DEF HostInv, HostTypes, WillInv
<1>5. PICK o : o = Work(Value("routed", pass, layer), "routed", {hidden}, {b})
  OBVIOUS
<1>6. /\ o \in AnyOp /\ o.do # "wait" /\ o.do = "routed" /\ o.by = Value("routed", pass, layer)
      /\ o.by[2] = pass /\ o.by[3] = layer /\ o.reads = {hidden} /\ o.writes = {b}
  <2>1. {hidden} \in SUBSET Blocks /\ {b} \in SUBSET Blocks /\ "routed" \in Kernels
    BY <1>3, <1>4 DEF Kernels
  <2> QED BY <1>4, <1>5, <2>1, WorkIsOp
<1>7. WellFormed(o) /\ Needs(o, hidden) = Value("hidden", pass, layer)
  BY <1>3, <1>4, <1>5, <1>6 DEF WellFormed, Needs
<1>8. pending' = [pending EXCEPT ![Here] = @ \o <<o>>] /\ ran' = ran
       /\ pool' = [pool EXCEPT ![b] = Here] /\ pool'[b] = Here /\ pool'[hidden] = Here
       /\ (shared # None => pool'[shared] = pool[shared])
  BY <1>0, <1>1, <1>3, <1>4, <1>5, HostFacts DEF Issue, OwnedBy
<1>9. Extends(pending, ran, Here, o, pending')
  BY <1>0, <1>4, <1>6, <1>8, IssueOne DEF Core, Wired, AnyOp
<1> DEFINE F == Excused(Current, pool', hidden, shared, pass)
<1>10. Hub(pending, ran, pool', lost, F, Blocks)
  <2>1. Hub(pending, ran, pool, lost, Excused(Current, pool, hidden, shared, pass), Blocks)
    BY <1>0 DEF HubInv
  <2>2. (pool[b] = pool'[b] \/ pool[b] = None) /\ \A x \in Blocks : x # b => pool'[x] = pool[x]
    BY <1>3, <1>4, <1>8
  <2> QED BY <1>3, <1>4, <2>1, <2>2, HubGive
<1>11. \A t, p : <<b, t, p>> \notin F
  BY <1>3, <1>4, <1>8 DEF Excused
<1> HIDE DEF F
<1>12. /\ Core(pending', ran, content, lost) /\ Hub(pending', ran, pool', lost, F, Blocks)
       /\ Will(pending', ran, content, b, o.by)
       /\ \A x, v : x # b /\ Will(pending, ran, content, x, v) => Will(pending', ran, content, x, v)
  <2>1. \A x \in o.writes : pool'[x] = Here /\ \A t, p : <<x, t, p>> \notin F
    BY <1>6, <1>8, <1>11
  <2>2. o.reads \subseteq Blocks /\ o.writes \subseteq Blocks /\ b \in o.writes
        /\ \A x : x # b => x \notin o.writes
    BY <1>3, <1>4, <1>6
  <2>3. \A x \in o.reads : pool'[x] = Here /\ Will(pending, ran, content, x, Needs(o, x))
    BY <1>4, <1>6, <1>7, <1>8
  <2> QED BY <1>0, <1>6, <1>7, <1>9, <1>10, <2>1, <2>2, <2>3, IssueWork
<1>13. HubInv'
  BY <1>2, <1>8, <1>12 DEF HubInv, F
<1>14. WillInv'
  BY <1>0, <1>2, <1>3, <1>4, <1>6, <1>8, <1>12 DEF WillInv
<1>15. HostInv'
  <2>1. HostTypes'
    BY <1>0, <1>2, <1>3, <1>4, <1>8 DEF HostInv, HostTypes, Current
  <2>2. HostInPass'
    BY <1>0, <1>2, <1>4, <1>8 DEF HostInv, HostInPass
  <2>3. HostBetween' /\ HostBound'
    BY <1>0, <1>2 DEF HostInv, HostBetween, HostBound
  <2>4. HostHolds'
    BY <1>0, <1>2, <1>3, <1>8 DEF HostInv, HostHolds, SharedRunsOn
  <2>5. HostAnswers'
    BY <1>0, <1>2 DEF HostInv, HostAnswers
  <2> QED BY <2>1, <2>2, <2>3, <2>4, <2>5 DEF HostInv
<1> QED BY <1>2, <1>8, <1>12, <1>13, <1>14, <1>15 DEF OverlapInv

\* A pass that raises is lost: who still reads for it is not wanted.
LEMMA RaiseStep == ASSUME OverlapInv, RaiseInRoute PROVE OverlapInv'
<1>0. HostInv /\ Core(pending, ran, content, lost) /\ HubInv /\ WillInv
  BY DEF OverlapInv
<1>1. /\ phase = "launched" /\ phase' = "between" /\ layer' = 0 /\ hidden' = None
      /\ routed' = None /\ shared' = None /\ lost' = lost \cup {pass}
      /\ place' = place /\ enabled' = enabled /\ bound' = bound /\ pass' = pass
      /\ pool' = pool /\ content' = content /\ answers' = answers
      /\ pending' = pending /\ ran' = ran /\ Current' = Current
  BY DEF RaiseInRoute, streamVars, Current
<1>2. Core(pending, ran, content, lost')
  <2>1. Wired(pending, ran)
    BY <1>0 DEF Core
  <2>2. Ordered(pending, ran, lost')
    BY <1>0, <1>1 DEF Core, Ordered
  <2>3. Fed(pending, ran, content, lost')
    BY <1>0, <1>1 DEF Core, Fed
  <2> QED BY <2>1, <2>2, <2>3 DEF Core
<1> DEFINE E == Excused(Current, pool, hidden, shared, pass)
           F == Excused(Current, pool, None, None, pass)
<1>3. \A x \in Blocks, t \in Stream : \A p : <<x, t, p>> \in E => <<x, t, p>> \in F \/ p \in lost'
  BY <1>1 DEF Excused
<1>4. Hub(pending, ran, pool, lost, E, Blocks)
  BY <1>0 DEF HubInv
<1> HIDE DEF E, F
<1>5. Hub(pending, ran, pool, lost', F, Blocks)
  BY <1>1, <1>3, <1>4, HubAgain
<1>6. HubInv'
  BY <1>1, <1>5 DEF HubInv, F
<1>7. WillInv'
  BY <1>1 DEF WillInv
<1>8. HostInv'
  <2>1. HostTypes'
    BY <1>0, <1>1, HostFacts, ConstantFacts DEF HostInv, HostTypes, Current
  <2>2. HostBetween' /\ HostInPass' /\ HostHolds' /\ HostBound'
    BY <1>1 DEF HostBetween, HostInPass, HostHolds, HostBound
  <2>3. HostAnswers'
    BY <1>0, <1>1 DEF HostInv, HostAnswers
  <2> QED BY <2>1, <2>2, <2>3 DEF HostInv
<1> QED BY <1>1, <1>2, <1>6, <1>7, <1>8 DEF OverlapInv

\* y is issued to a, then z to s.
Adds(q, a, y, s, z, Q) ==
  Q = [t \in Stream |-> q[t] \o (IF t = a THEN y ELSE << >>) \o (IF t = s THEN z ELSE << >>)]

\* A wait on one stream and an operation on another, or on the same.
LEMMA IssueWaitAndOne ==
  ASSUME NEW q \in [Stream -> Seq(AnyOp)], NEW r \in [Stream -> Nat],
         NEW a \in Stream, NEW w \in AnyOp, NEW s \in Stream, NEW o \in AnyOp,
         NEW Q, Adds(q, a, <<w>>, s, <<o>>, Q),
         NEW Q1, Q1 = AppendTo(q, a, w)
  PROVE  Extends(q, r, a, w, Q1) /\ Extends(Q1, r, s, o, Q)
<1>1. Q1 \in [Stream -> Seq(AnyOp)]
  BY DEF AppendTo
<1>2. \A t \in Stream : Q1[t] = q[t] \o (IF t = a THEN <<w>> ELSE << >>)
  <2> TAKE t \in Stream
  <2>1. q[t] \o <<w>> = Append(q[t], w) /\ q[t] \o << >> = q[t]
    BY ConcatOne, ConcatNone
  <2> QED BY <2>1 DEF AppendTo
<1>3. \A t \in Stream : Q[t] = IF t = s THEN Append(Q1[t], o) ELSE Q1[t]
  <2> TAKE t \in Stream
  <2>1. Q1[t] \o <<o>> = Append(Q1[t], o) /\ Q1[t] \o << >> = Q1[t]
    BY <1>1, ConcatOne, ConcatNone
  <2>2. Q[t] = (q[t] \o (IF t = a THEN <<w>> ELSE << >>)) \o (IF t = s THEN <<o>> ELSE << >>)
    BY DEF Adds
  <2> QED BY <1>2, <2>1, <2>2
<1>4. Q = AppendTo(Q1, s, o)
  BY <1>1, <1>3 DEF AppendTo, Adds
<1> QED BY <1>1, <1>4, AppendFacts

\* A wait on one stream and two operations on another, or on the same.
LEMMA IssueWaitAndTwo ==
  ASSUME NEW q \in [Stream -> Seq(AnyOp)], NEW r \in [Stream -> Nat],
         NEW a \in Stream, NEW w \in AnyOp, NEW s \in Stream, NEW o \in AnyOp, NEW p \in AnyOp,
         NEW Q, Adds(q, a, <<w>>, s, <<o, p>>, Q),
         NEW Q1, Q1 = AppendTo(q, a, w), NEW Q2, Q2 = AppendTo(Q1, s, o)
  PROVE  Extends(q, r, a, w, Q1) /\ Extends(Q1, r, s, o, Q2) /\ Extends(Q2, r, s, p, Q)
<1>1. Q1 \in [Stream -> Seq(AnyOp)]
  BY DEF AppendTo
<1>2. \A t \in Stream : Q1[t] = q[t] \o (IF t = a THEN <<w>> ELSE << >>)
  <2> TAKE t \in Stream
  <2>1. q[t] \o <<w>> = Append(q[t], w) /\ q[t] \o << >> = q[t]
    BY ConcatOne, ConcatNone
  <2> QED BY <2>1 DEF AppendTo
<1>3. Q2 \in [Stream -> Seq(AnyOp)] /\ \A t \in Stream : Q2[t] = IF t = s THEN Append(Q1[t], o) ELSE Q1[t]
  <2>1. Append(Q1[s], o) \in Seq(AnyOp)
    BY <1>1
  <2>2. Q2 = [Q1 EXCEPT ![s] = Append(Q1[s], o)]
    BY DEF AppendTo
  <2> QED BY ONLY <1>1, <2>1, <2>2, s \in Stream
<1>4. \A t \in Stream : Q[t] = IF t = s THEN Append(Q2[t], p) ELSE Q2[t]
  <2> TAKE t \in Stream
  <2>1. Q1[t] \o <<o, p>> = Append(Append(Q1[t], o), p) /\ Q1[t] \o << >> = Q1[t]
    <3>1. PICK z \in Seq(AnyOp) : z = Q1[t]
      BY <1>1
    <3>2. z \o <<o, p>> = Append(Append(z, o), p)
      <4>1. z \in Seq(AnyOp) /\ o \in AnyOp /\ p \in AnyOp
        OBVIOUS
      <4> QED BY ONLY <4>1, ConcatTwo
    <3>3. z \o << >> = z
      BY ONLY z \in Seq(AnyOp), ConcatNone
    <3> QED BY ONLY <3>1, <3>2, <3>3
  <2>2. Q[t] = (q[t] \o (IF t = a THEN <<w>> ELSE << >>)) \o (IF t = s THEN <<o, p>> ELSE << >>)
    BY DEF Adds
  <2> QED BY <1>2, <1>3, <2>1, <2>2
<1>5. Q = AppendTo(Q2, s, p)
  BY <1>3, <1>4 DEF AppendTo, Adds
<1> QED BY <1>1, <1>3, <1>5, AppendFacts

\* A wait is an operation.
LEMMA WaitIsOp ==
  ASSUME NEW t \in Stream, NEW p \in Nat
  PROVE  WaitFor(t, p) \in AnyOp
BY DEF AnyOp, OverlapWait, WaitFor

\* A launch on the stream of the layer's own device.
LEMMA LaunchHereStep ==
  ASSUME OverlapInv, Launch, bound' # None, bound' # Here PROVE OverlapInv'
<1>0. HostInv /\ Core(pending, ran, content, lost) /\ HubInv /\ WillInv
  BY DEF OverlapInv
<1>1. /\ phase = "layer" /\ phase' = "launched" /\ pass' = pass /\ layer' = layer
      /\ place' = place /\ enabled' = enabled /\ hidden' = hidden /\ routed' = routed
      /\ content' = content /\ lost' = lost /\ answers' = answers
      /\ Current' = Current /\ Here' = Here /\ bound' = Ensured(Here)
  BY DEF Launch, Current, Here
<1>2. SharedRunsOn(layer, bound') = Here
  BY DEF SharedRunsOn, Here
<1>3. PICK b \in Candidates(SharedRunsOn(layer, bound')) :
        /\ pool' = OwnedBy(b, SharedRunsOn(layer, bound')) /\ shared' = b /\ ran' = ran
        /\ Adds(pending, Compute, <<WaitFor(Current, Issued(Current))>>,
                SharedRunsOn(layer, bound'),
                <<Work(Value("shared", pass, layer), "shared", {hidden}, {b})>>, pending')
  BY DEF Launch, Adds
<1>4. b \in Blocks /\ pool[b] \in {Here, None} /\ b # hidden /\ b # routed
  BY <1>0, <1>2, <1>3, FreeFacts DEF Candidates
<1>5. /\ Here \in Stream /\ Here # Compute /\ Here # None /\ pass \in Nat /\ layer \in Nat
      /\ hidden \in Blocks /\ pool[hidden] = Here /\ pass \notin lost
      /\ pool \in [Blocks -> Stream \cup {None}] /\ Current \in Stream /\ Compute \in Stream
      /\ Will(pending, ran, content, hidden, Value("hidden", pass, layer))
      /\ routed = None /\ shared = None
  BY <1>0, <1>1, HostFacts, ConstantFacts DEF HostInv, HostTypes, WillInv, HostHolds
<1>6. PICK o : o = Work(Value("shared", pass, layer), "shared", {hidden}, {b})
  OBVIOUS
<1>7. /\ o \in AnyOp /\ o.do # "wait" /\ o.do = "shared" /\ o.by = Value("shared", pass, layer)
      /\ o.by[2] = pass /\ o.by[3] = layer /\ o.reads = {hidden} /\ o.writes = {b}
  <2>1. {hidden} \in SUBSET Blocks /\ {b} \in SUBSET Blocks /\ "shared" \in Kernels
    BY <1>4, <1>5 DEF Kernels
  <2> QED BY <1>5, <1>6, <2>1, WorkIsOp
<1>8. WellFormed(o) /\ Needs(o, hidden) = Value("hidden", pass, layer)
  BY <1>4, <1>5, <1>6, <1>7 DEF WellFormed, Needs
<1>9. pool' = [pool EXCEPT ![b] = Here] /\ pool'[b] = Here /\ pool'[hidden] = Here
      /\ \A x \in Blocks : x # b => pool'[x] = pool[x]
  BY <1>2, <1>3, <1>4, <1>5 DEF OwnedBy
<1>10. PICK w : w = WaitFor(Current, EndOf(pending, ran, Current))
  OBVIOUS
<1>11. pending \in [Stream -> Seq(AnyOp)] /\ ran \in [Stream -> Nat]
  BY <1>0 DEF Core, Wired, AnyOp
<1>12. w \in AnyOp /\ w = WaitFor(Current, Issued(Current))
  <2>1. EndOf(pending, ran, Current) \in Nat
    BY <1>5, <1>11 DEF EndOf
  <2> QED BY <1>5, <1>10, <2>1, WaitIsOp DEF Issued, EndOf
<1>13. PICK Q1 : Q1 = AppendTo(pending, Compute, w)
  OBVIOUS
<1>14. Extends(pending, ran, Compute, w, Q1) /\ Extends(Q1, ran, Here, o, pending')
  <2>1. Adds(pending, Compute, <<w>>, Here, <<o>>, pending')
    BY <1>2, <1>3, <1>6, <1>12
  <2> QED BY <1>5, <1>7, <1>11, <1>12, <1>13, <2>1, IssueWaitAndOne
<1> DEFINE F == Excused(Current, pool', hidden, None, pass)
           G == Excused(Current, pool', hidden, b, pass)
<1>15. Hub(pending, ran, pool', lost, F, Blocks)
  <2>1. Hub(pending, ran, pool, lost, Excused(Current, pool, hidden, None, pass), Blocks)
    BY <1>0, <1>5 DEF HubInv
  <2>2. pool[b] = pool'[b] \/ pool[b] = None
    BY <1>4, <1>9
  <2> QED BY <1>4, <1>5, <1>9, <2>1, <2>2, HubGive
<1>16. (\A t, p : <<b, t, p>> \notin F)
       /\ \A x \in Blocks, t \in Stream : \A p : <<x, t, p>> \in F => <<x, t, p>> \in G
  BY <1>5, <1>9 DEF Excused
<1> HIDE DEF F, G
<1>17. /\ Core(Q1, ran, content, lost) /\ Hub(Q1, ran, pool', lost, F, Blocks)
       /\ Will(Q1, ran, content, hidden, Value("hidden", pass, layer))
  <2>1. Extends(pending, ran, Compute, WaitFor(Current, EndOf(pending, ran, Current)), Q1)
    BY <1>10, <1>14
  <2>2. Hub(Q1, ran, pool', lost, F, Blocks)
    BY <1>0, <1>5, <1>15, <2>1, HubJoin DEF Core
  <2> QED BY <1>0, <1>5, <2>1, <2>2, IssueWait
<1>18. /\ Core(pending', ran, content, lost) /\ Hub(pending', ran, pool', lost, F, Blocks)
       /\ Will(pending', ran, content, b, o.by)
       /\ \A x, v : x # b /\ Will(Q1, ran, content, x, v) => Will(pending', ran, content, x, v)
  <2>1. \A x \in o.writes : pool'[x] = Here /\ \A t, p : <<x, t, p>> \notin F
    BY <1>7, <1>9, <1>16
  <2>2. o.reads \subseteq Blocks /\ o.writes \subseteq Blocks /\ b \in o.writes
        /\ \A x : x # b => x \notin o.writes
    BY <1>4, <1>5, <1>7
  <2>3. \A x \in o.reads : pool'[x] = Here /\ Will(Q1, ran, content, x, Needs(o, x))
    BY <1>5, <1>7, <1>8, <1>9, <1>17
  <2> QED BY <1>7, <1>8, <1>14, <1>17, <2>1, <2>2, <2>3, IssueWork
<1>19. HubInv'
  <2>1. Hub(pending', ran, pool', lost, G, Blocks)
    BY <1>16, <1>18, HubAgain
  <2> QED BY <1>1, <1>3, <2>1 DEF HubInv, G
<1>20. WillInv'
  BY <1>0, <1>1, <1>3, <1>4, <1>5, <1>7, <1>17, <1>18 DEF WillInv
<1>21. HostInv'
  <2>1. bound' = Current /\ bound' # None
    BY <1>0, <1>1, <1>5 DEF HostInv, HostTypes, HostBound, Ensured, Here, Current
  <2>2. HostTypes'
    BY <1>0, <1>1, <1>3, <1>4, <1>5, <1>9, <2>1 DEF HostInv, HostTypes, Current
  <2>3. HostInPass'
    BY <1>0, <1>1, <1>5, <1>9 DEF HostInv, HostInPass
  <2>4. HostBetween' /\ HostBound'
    BY <1>0, <1>1, <2>1 DEF HostInv, HostBetween, HostBound
  <2>5. HostHolds'
    BY <1>0, <1>1, <1>2, <1>3, <1>4, <1>5, <1>9, <2>1 DEF HostInv, HostHolds, SharedRunsOn
  <2>6. HostAnswers'
    BY <1>0, <1>1 DEF HostInv, HostAnswers
  <2> QED BY <2>2, <2>3, <2>4, <2>5, <2>6 DEF HostInv
<1> QED BY <1>1, <1>3, <1>18, <1>19, <1>20, <1>21 DEF OverlapInv

\* A launch on the compute stream, which belongs to the current device.
LEMMA LaunchComputeStep ==
  ASSUME OverlapInv, Launch, bound' # None, bound' = Here PROVE OverlapInv'
<1>0. HostInv /\ Core(pending, ran, content, lost) /\ HubInv /\ WillInv
  BY DEF OverlapInv
<1>1. /\ phase = "layer" /\ phase' = "launched" /\ pass' = pass /\ layer' = layer
      /\ place' = place /\ enabled' = enabled /\ hidden' = hidden /\ routed' = routed
      /\ content' = content /\ lost' = lost /\ answers' = answers
      /\ Current' = Current /\ Here' = Here /\ bound' = Ensured(Here)
  BY DEF Launch, Current, Here
<1>2. SharedRunsOn(layer, bound') = Compute
  BY DEF SharedRunsOn, Here
<1>3. PICK b \in Candidates(SharedRunsOn(layer, bound')) :
        /\ pool' = OwnedBy(b, SharedRunsOn(layer, bound')) /\ shared' = b /\ ran' = ran
        /\ Adds(pending, Compute, <<WaitFor(Current, Issued(Current))>>,
                SharedRunsOn(layer, bound'),
                <<Work(Value("shared", pass, layer), "shared", {hidden}, {b})>>, pending')
  BY DEF Launch, Adds
<1>4. b \in Blocks /\ pool[b] \in {Compute, None} /\ b # hidden /\ b # routed
  BY <1>0, <1>2, <1>3, FreeFacts DEF Candidates
<1>5. /\ Here \in Stream /\ Here # Compute /\ Here # None /\ pass \in Nat /\ layer \in Nat
      /\ hidden \in Blocks /\ pool[hidden] = Here /\ pass \notin lost
      /\ pool \in [Blocks -> Stream \cup {None}] /\ Current \in Stream /\ Compute \in Stream
      /\ Will(pending, ran, content, hidden, Value("hidden", pass, layer))
      /\ routed = None /\ shared = None
  BY <1>0, <1>1, HostFacts, ConstantFacts DEF HostInv, HostTypes, WillInv, HostHolds
<1>6. PICK o : o = Work(Value("shared", pass, layer), "shared", {hidden}, {b})
  OBVIOUS
<1>7. /\ o \in AnyOp /\ o.do # "wait" /\ o.do = "shared" /\ o.by = Value("shared", pass, layer)
      /\ o.by[2] = pass /\ o.by[3] = layer /\ o.reads = {hidden} /\ o.writes = {b}
  <2>1. {hidden} \in SUBSET Blocks /\ {b} \in SUBSET Blocks /\ "shared" \in Kernels
    BY <1>4, <1>5 DEF Kernels
  <2> QED BY <1>5, <1>6, <2>1, WorkIsOp
<1>8. WellFormed(o) /\ Needs(o, hidden) = Value("hidden", pass, layer)
  BY <1>4, <1>5, <1>6, <1>7 DEF WellFormed, Needs
<1>9. pool' = [pool EXCEPT ![b] = Compute] /\ pool'[b] = Compute /\ pool'[hidden] = Here
      /\ \A x \in Blocks : x # b => pool'[x] = pool[x]
  BY <1>2, <1>3, <1>4, <1>5 DEF OwnedBy
<1>10. PICK w : w = WaitFor(Current, EndOf(pending, ran, Current))
  OBVIOUS
<1>11. pending \in [Stream -> Seq(AnyOp)] /\ ran \in [Stream -> Nat]
  BY <1>0 DEF Core, Wired, AnyOp
<1>12. w \in AnyOp /\ w = WaitFor(Current, Issued(Current))
  <2>1. EndOf(pending, ran, Current) \in Nat
    BY <1>5, <1>11 DEF EndOf
  <2> QED BY <1>5, <1>10, <2>1, WaitIsOp DEF Issued, EndOf
<1>13. PICK Q1 : Q1 = AppendTo(pending, Compute, w)
  OBVIOUS
<1>14. Extends(pending, ran, Compute, w, Q1) /\ Extends(Q1, ran, Compute, o, pending')
  <2>1. Adds(pending, Compute, <<w>>, Compute, <<o>>, pending')
    BY <1>2, <1>3, <1>6, <1>12
  <2> QED BY <1>5, <1>7, <1>11, <1>12, <1>13, <2>1, IssueWaitAndOne
<1> DEFINE F == Excused(Current, pool', hidden, None, pass)
           G == Excused(Current, pool', hidden, b, pass)
           H == {<<hidden, Compute, pass>>}
<1>15. Hub(pending, ran, pool', lost, F, Blocks)
  <2>1. Hub(pending, ran, pool, lost, Excused(Current, pool, hidden, None, pass), Blocks)
    BY <1>0, <1>5 DEF HubInv
  <2>2. pool[b] = pool'[b] \/ pool[b] = None
    BY <1>4, <1>9
  <2> QED BY <1>4, <1>5, <1>9, <2>1, <2>2, HubGive
<1>16. /\ Here = Current
       /\ \A t, p : <<b, t, p>> \notin H
       /\ <<hidden, Compute, pass>> \in H
       /\ \A x \in Blocks, t \in Stream : \A p : <<x, t, p>> \in F => pool'[x] = Compute /\ t = Current
       /\ \A x \in Blocks, t \in Stream : \A p : <<x, t, p>> \in H => <<x, t, p>> \in G
  <2>1. Here = Current
    BY <1>0, <1>1, <1>5 DEF HostInv, HostTypes, HostBound, Ensured, Here, Current
  <2>2. <<hidden, Compute, pass>> \in G
    BY <1>4, <1>5, <1>9, <2>1, ConstantFacts DEF Excused
  <2> QED BY <1>4, <2>1, <2>2 DEF Excused
<1> HIDE DEF F, G, H
<1>17. /\ Core(Q1, ran, content, lost) /\ Hub(Q1, ran, pool', lost, H, Blocks)
       /\ Will(Q1, ran, content, hidden, Value("hidden", pass, layer))
       /\ \A t \in Stream : \A k \in Nat : WritesAt(Q1, ran, t, k, hidden) => Joined(Q1, ran, Compute, t, k)
  <2>1. Extends(pending, ran, Compute, WaitFor(Current, EndOf(pending, ran, Current)), Q1)
    BY <1>10, <1>14
  <2>2. Wired(pending, ran)
    BY <1>0 DEF Core
  <2>3. Hub(Q1, ran, pool', lost, H, Blocks)
    BY <1>5, <1>15, <1>16, <2>1, <2>2, HubJoin
  <2>4. ASSUME NEW t \in Stream, NEW k \in Nat, WritesAt(Q1, ran, t, k, hidden)
        PROVE  Joined(Q1, ran, Compute, t, k)
    <3>1. w.do = "wait"
      BY <1>10 DEF WaitFor
    <3>2. WritesAt(pending, ran, t, k, hidden)
      BY <1>14, <2>4, <3>1, AccessAppend
    <3>3. Joined(pending, ran, Current, t, k)
      BY <1>0, <1>5, <1>16, <3>2 DEF HubInv, Hub
    <3> QED BY <1>5, <2>1, <2>2, <3>3, WaitTakes
  <2> QED BY <1>0, <1>5, <2>1, <2>3, <2>4, IssueWait
<1>18. /\ Core(pending', ran, content, lost) /\ Hub(pending', ran, pool', lost, H, Blocks)
       /\ Will(pending', ran, content, b, o.by)
       /\ \A x, v : x # b /\ Will(Q1, ran, content, x, v) => Will(pending', ran, content, x, v)
  <2>1. \A x \in o.writes : pool'[x] = Compute /\ \A t, p : <<x, t, p>> \notin H
    BY <1>7, <1>9, <1>16
  <2>2. o.reads \subseteq Blocks /\ o.writes \subseteq Blocks /\ b \in o.writes
        /\ \A x : x # b => x \notin o.writes
    BY <1>4, <1>5, <1>7
  <2>3. \A x \in o.reads : /\ pool'[x] \in Stream /\ <<x, Compute, o.by[2]>> \in H
                            /\ Will(Q1, ran, content, x, Needs(o, x))
                            /\ \A t \in Stream : \A k \in Nat :
                                 WritesAt(Q1, ran, t, k, x) => Joined(Q1, ran, Compute, t, k)
    BY <1>5, <1>7, <1>8, <1>9, <1>16, <1>17
  <2> QED BY <1>7, <1>8, <1>14, <1>17, <2>1, <2>2, <2>3, IssueWork
<1>19. HubInv'
  <2>1. Hub(pending', ran, pool', lost, G, Blocks)
    BY <1>16, <1>18, HubAgain
  <2> QED BY <1>1, <1>3, <2>1 DEF HubInv, G
<1>20. WillInv'
  BY <1>0, <1>1, <1>3, <1>4, <1>5, <1>7, <1>17, <1>18 DEF WillInv
<1>21. HostInv'
  <2>1. bound' = Current /\ bound' # None
    BY <1>0, <1>1, <1>5 DEF HostInv, HostTypes, HostBound, Ensured, Here, Current
  <2>2. HostTypes'
    BY <1>0, <1>1, <1>3, <1>4, <1>5, <1>9, <2>1 DEF HostInv, HostTypes, Current
  <2>3. HostInPass'
    BY <1>0, <1>1, <1>5, <1>9 DEF HostInv, HostInPass
  <2>4. HostBetween' /\ HostBound'
    BY <1>0, <1>1, <2>1 DEF HostInv, HostBetween, HostBound
  <2>5. HostHolds'
    BY <1>0, <1>1, <1>2, <1>3, <1>4, <1>5, <1>9, <2>1 DEF HostInv, HostHolds, SharedRunsOn
  <2>6. HostAnswers'
    BY <1>0, <1>1 DEF HostInv, HostAnswers
  <2> QED BY <2>2, <2>3, <2>4, <2>5, <2>6 DEF HostInv
<1> QED BY <1>1, <1>3, <1>18, <1>19, <1>20, <1>21 DEF OverlapInv

\* A launch, on either stream or, without streams, on none.
LEMMA LaunchStep == ASSUME OverlapInv, Launch PROVE OverlapInv'
<1>1. CASE bound' # None /\ bound' = Here
  BY <1>1, LaunchComputeStep
<1>2. CASE bound' # None /\ bound' # Here
  BY <1>2, LaunchHereStep
<1>3. CASE bound' = None
  <2>0. HostInv /\ Core(pending, ran, content, lost) /\ HubInv /\ WillInv
    BY DEF OverlapInv
  <2>1. /\ phase = "layer" /\ phase' = "launched" /\ pass' = pass /\ layer' = layer
        /\ place' = place /\ enabled' = enabled /\ hidden' = hidden /\ routed' = routed
        /\ content' = content /\ lost' = lost /\ answers' = answers
        /\ Current' = Current /\ Here' = Here /\ bound' = Ensured(Here)
        /\ shared' = shared /\ pool' = pool /\ pending' = pending /\ ran' = ran
    BY <1>3 DEF Launch, Current, Here, streamVars
  <2>2. Here # None /\ shared = None
    BY <2>0, <2>1, HostFacts, ConstantFacts DEF HostInv, HostHolds
  <2>3. bound = None /\ ~enabled
    BY <2>0, <2>1, <2>2, <1>3 DEF Ensured, HostInv, HostTypes
  <2>4. HubInv'
    BY <2>0, <2>1 DEF HubInv
  <2>5. WillInv'
    BY <2>0, <2>1, <2>2 DEF WillInv
  <2>6. HostInv'
    BY <2>0, <2>1, <2>2, <2>3, <1>3 DEF HostInv, HostTypes, HostBetween, HostInPass, HostHolds,
       HostBound, HostAnswers, Current, Here
  <2> QED BY <2>0, <2>1, <2>4, <2>5, <2>6 DEF OverlapInv
<1> QED BY <1>1, <1>2, <1>3

\* The current stream waits for the compute stream, then adds; from then on no
\* reader on the compute stream is excused.
LEMMA AddSharedStep == ASSUME OverlapInv, AddShared PROVE OverlapInv'
<1>0. HostInv /\ Core(pending, ran, content, lost) /\ HubInv /\ WillInv
  BY DEF OverlapInv
<1>1. PICK b \in Candidates(Here) :
        /\ pool' = OwnedBy(b, Here) /\ hidden' = b /\ ran' = ran
        /\ Adds(pending, Current, <<WaitFor(Compute, Issued(Compute))>>,
                Here, Combine(shared, b), pending')
  BY DEF AddShared, Adds
<1>2. /\ phase = "routed" /\ phase' = "added" /\ pass' = pass /\ layer' = layer
      /\ place' = place /\ enabled' = enabled /\ bound' = bound /\ shared' = None
      /\ routed' = None /\ content' = content /\ lost' = lost /\ answers' = answers
      /\ shared # None /\ Current' = Current /\ Here' = Here
  BY DEF AddShared, Current, Here
<1>3. b \in Blocks /\ pool[b] \in {Here, None} /\ b # hidden /\ b # shared /\ b # routed
  BY <1>0, <1>1, FreeFacts DEF Candidates
<1>4. /\ Here \in Stream /\ Here # Compute /\ pass \in Nat /\ layer \in Nat
      /\ hidden \in Blocks /\ pool[hidden] = Here /\ pass \notin lost
      /\ routed \in Blocks /\ pool[routed] = Here /\ routed # hidden
      /\ shared \in Blocks /\ shared # routed /\ shared # hidden
      /\ pool \in [Blocks -> Stream \cup {None}] /\ Current \in Stream /\ Compute \in Stream
      /\ Will(pending, ran, content, routed, Value("routed", pass, layer))
      /\ Will(pending, ran, content, shared, Value("shared", pass, layer))
  BY <1>0, <1>2, HostFacts, ConstantFacts DEF HostInv, HostTypes, WillInv, HostHolds
<1>5. pool[shared] = Here \/ (pool[shared] = Compute /\ Here = Current)
  BY <1>0, <1>2 DEF HostInv, HostHolds, HostTypes, SharedRunsOn, Here
<1>6. PICK o : o = Work(Value("sum", pass, layer), "sum", {routed, shared}, {routed})
  OBVIOUS
<1>7. PICK p : p = Work(Value("hidden", pass, layer + 1), "after", {routed}, {b})
  OBVIOUS
<1>8. /\ o \in AnyOp /\ o.do # "wait" /\ o.do = "sum" /\ o.by = Value("sum", pass, layer)
      /\ o.by[2] = pass /\ o.by[3] = layer /\ o.reads = {routed, shared} /\ o.writes = {routed}
  <2>1. {routed, shared} \in SUBSET Blocks /\ {routed} \in SUBSET Blocks /\ "sum" \in Kernels
    BY <1>4 DEF Kernels
  <2> QED BY <1>4, <1>6, <2>1, WorkIsOp
<1>9. /\ p \in AnyOp /\ p.do # "wait" /\ p.do = "after" /\ p.by = Value("hidden", pass, layer + 1)
      /\ p.by[2] = pass /\ p.by[3] = layer + 1 /\ p.reads = {routed} /\ p.writes = {b}
  <2>1. {b} \in SUBSET Blocks /\ {routed} \in SUBSET Blocks /\ "after" \in Kernels /\ layer + 1 \in Nat
    BY <1>3, <1>4 DEF Kernels
  <2> QED BY <1>4, <1>7, <2>1, WorkIsOp
<1>10. /\ WellFormed(o) /\ Needs(o, routed) = Value("routed", pass, layer)
       /\ Needs(o, shared) = Value("shared", pass, layer)
  BY <1>4, <1>6, <1>8 DEF WellFormed, Needs
<1>11. WellFormed(p) /\ Needs(p, routed) = Value("sum", pass, layer)
  <2>1. (layer + 1) - 1 = layer
    BY <1>4
  <2> QED BY <1>3, <1>4, <1>7, <1>9, <2>1 DEF WellFormed, Needs
<1>12. pool' = [pool EXCEPT ![b] = Here] /\ pool'[b] = Here /\ pool'[hidden] = Here
       /\ pool'[routed] = Here /\ pool'[shared] = pool[shared]
       /\ \A x \in Blocks : x # b => pool'[x] = pool[x]
  BY <1>1, <1>3, <1>4 DEF OwnedBy
<1>13. PICK w : w = WaitFor(Compute, EndOf(pending, ran, Compute))
  OBVIOUS
<1>14. pending \in [Stream -> Seq(AnyOp)] /\ ran \in [Stream -> Nat] /\ Wired(pending, ran)
  BY <1>0 DEF Core, Wired, AnyOp
<1>15. w \in AnyOp /\ w = WaitFor(Compute, Issued(Compute)) /\ w.do = "wait"
  <2>1. EndOf(pending, ran, Compute) \in Nat
    BY <1>4, <1>14 DEF EndOf
  <2>2. w.do = "wait"
    BY <1>13 DEF WaitFor
  <2> QED BY <1>4, <1>13, <2>1, <2>2, WaitIsOp DEF Issued, EndOf
<1>16. PICK Q1 : Q1 = AppendTo(pending, Current, w)
  OBVIOUS
<1>17. PICK Q2 : Q2 = AppendTo(Q1, Here, o)
  OBVIOUS
<1>18. /\ Extends(pending, ran, Current, w, Q1) /\ Extends(Q1, ran, Here, o, Q2)
       /\ Extends(Q2, ran, Here, p, pending')
       /\ Extends(pending, ran, Current, WaitFor(Compute, EndOf(pending, ran, Compute)), Q1)
  <2>1. Adds(pending, Current, <<w>>, Here, <<o, p>>, pending')
    BY <1>1, <1>6, <1>7, <1>15 DEF Combine
  <2>2. Current \in Stream /\ Here \in Stream /\ w \in AnyOp /\ o \in AnyOp /\ p \in AnyOp
    BY <1>4, <1>8, <1>9, <1>15
  <2>3. /\ Extends(pending, ran, Current, w, Q1) /\ Extends(Q1, ran, Here, o, Q2)
        /\ Extends(Q2, ran, Here, p, pending')
    BY ONLY <1>14, <1>16, <1>17, <2>1, <2>2, IssueWaitAndTwo
  <2> QED BY <1>13, <2>3
<1> DEFINE E == Excused(Current, pool', hidden, shared, pass)
           F == Excused(Current, pool', b, None, pass)
<1>19. Hub(pending, ran, pool', lost, E, Blocks)
  <2>1. Hub(pending, ran, pool, lost, Excused(Current, pool, hidden, shared, pass), Blocks)
    BY <1>0 DEF HubInv
  <2>2. pool[b] = pool'[b] \/ pool[b] = None
    BY <1>3, <1>12
  <2> QED BY <1>3, <1>4, <1>12, <2>1, <2>2, HubGive
<1>20. /\ \A t, x : <<b, t, x>> \notin F /\ <<routed, t, x>> \notin F
       /\ \A x \in Blocks, t \in Stream : \A y :
            <<x, t, y>> \in E => <<x, t, y>> \in F \/ (pool'[x] = Current /\ t = Compute)
       /\ pool[shared] = Compute => <<shared, Current, pass>> \in F
  BY <1>4, <1>12 DEF Excused
<1> HIDE DEF E, F
<1>21. /\ Core(Q1, ran, content, lost) /\ Hub(Q1, ran, pool', lost, F, Blocks)
       /\ Will(Q1, ran, content, routed, Value("routed", pass, layer))
       /\ Will(Q1, ran, content, shared, Value("shared", pass, layer))
  <2>1. Hub(Q1, ran, pool', lost, F, Blocks)
    BY <1>4, <1>14, <1>18, <1>19, <1>20, HubJoin
  <2> QED BY <1>0, <1>4, <1>18, <2>1, IssueWait
<1>22. ASSUME pool[shared] = Compute, Here = Current, NEW t \in Stream, NEW k \in Nat,
              WritesAt(Q1, ran, t, k, shared)
       PROVE  Joined(Q1, ran, Here, t, k)
  <2>1. WritesAt(pending, ran, t, k, shared)
    BY <1>15, <1>18, <1>22, AccessAppend
  <2>2. Joined(pending, ran, Compute, t, k)
    BY <1>0, <1>4, <1>22, <2>1 DEF HubInv, Hub
  <2> QED BY <1>4, <1>14, <1>18, <1>22, <2>2, WaitTakes
<1>23. /\ Core(Q2, ran, content, lost) /\ Hub(Q2, ran, pool', lost, F, Blocks)
       /\ Will(Q2, ran, content, routed, o.by)
  <2>1. \A x \in o.writes : pool'[x] = Here /\ \A t, y : <<x, t, y>> \notin F
    BY <1>8, <1>12, <1>20
  <2>2. o.reads \subseteq Blocks /\ o.writes \subseteq Blocks /\ routed \in o.writes
    BY <1>4, <1>8
  <2>3. \A x \in o.reads :
          \/ pool'[x] = Here
          \/ /\ pool'[x] \in Stream /\ <<x, Here, o.by[2]>> \in F
             /\ \A t \in Stream : \A k \in Nat :
                  WritesAt(Q1, ran, t, k, x) => Joined(Q1, ran, Here, t, k)
    BY <1>4, <1>5, <1>8, <1>12, <1>20, <1>22
  <2>4. \A x \in o.reads : Will(Q1, ran, content, x, Needs(o, x))
    BY <1>8, <1>10, <1>21
  <2> QED BY <1>8, <1>10, <1>18, <1>21, <2>1, <2>2, <2>3, <2>4, IssueWork
<1>24. /\ Core(pending', ran, content, lost) /\ Hub(pending', ran, pool', lost, F, Blocks)
       /\ Will(pending', ran, content, b, p.by)
  <2>1. \A x \in p.writes : pool'[x] = Here /\ \A t, y : <<x, t, y>> \notin F
    BY <1>9, <1>12, <1>20
  <2>2. p.reads \subseteq Blocks /\ p.writes \subseteq Blocks /\ b \in p.writes
    BY <1>3, <1>4, <1>9
  <2>3. \A x \in p.reads : pool'[x] = Here /\ Will(Q2, ran, content, x, Needs(p, x))
    BY <1>8, <1>9, <1>11, <1>12, <1>23
  <2> QED BY <1>9, <1>11, <1>18, <1>23, <2>1, <2>2, <2>3, IssueWork
<1>25. HubInv'
  BY <1>1, <1>2, <1>24 DEF HubInv, F
<1>26. WillInv'
  BY <1>1, <1>2, <1>9, <1>24 DEF WillInv
<1>27. HostInv'
  <2>1. HostTypes'
    BY <1>0, <1>1, <1>2, <1>3, <1>4, <1>12 DEF HostInv, HostTypes, Current
  <2>2. HostInPass'
    BY <1>0, <1>1, <1>2, <1>3, <1>4, <1>12 DEF HostInv, HostInPass
  <2>3. HostBetween' /\ HostHolds' /\ HostBound'
    BY <1>0, <1>2 DEF HostInv, HostBetween, HostBound, HostHolds
  <2>4. HostAnswers'
    BY <1>0, <1>2 DEF HostInv, HostAnswers
  <2> QED BY <2>1, <2>2, <2>3, <2>4 DEF HostInv
<1> QED BY <1>1, <1>2, <1>24, <1>25, <1>26, <1>27 DEF OverlapInv

\* Without streams everything is on the stream of the layer.
LEMMA AddInLineStep == ASSUME OverlapInv, AddInLine PROVE OverlapInv'
<1>0. HostInv /\ Core(pending, ran, content, lost) /\ HubInv /\ WillInv
  BY DEF OverlapInv
<1>1. PICK c \in Candidates(Here) : \E b \in Allocatable(Here, {c}) :
        /\ pool' = [pool EXCEPT ![b] = Here, ![c] = Here] /\ hidden' = b
        /\ Issue(Here, <<Work(Value("shared", pass, layer), "shared", {hidden}, {c})>>
                         \o Combine(c, b))
  BY DEF AddInLine
<1>b. PICK b \in Allocatable(Here, {c}) :
        /\ pool' = [pool EXCEPT ![b] = Here, ![c] = Here] /\ hidden' = b
        /\ Issue(Here, <<Work(Value("shared", pass, layer), "shared", {hidden}, {c})>>
                         \o Combine(c, b))
  BY <1>1
<1>2. /\ phase = "routed" /\ phase' = "added" /\ pass' = pass /\ layer' = layer
      /\ place' = place /\ enabled' = enabled /\ bound' = bound /\ shared' = None
      /\ routed' = None /\ content' = content /\ lost' = lost /\ answers' = answers
      /\ shared = None /\ Current' = Current /\ Here' = Here
  BY DEF AddInLine, Current, Here
<1>3. /\ b \in Blocks /\ pool[b] \in {Here, None} /\ b # hidden /\ b # routed
      /\ c \in Blocks /\ pool[c] \in {Here, None} /\ c # hidden /\ c # routed /\ b # c
  BY <1>0, <1>1, <1>b, FreeFacts DEF Candidates
<1>4. /\ Here \in Stream /\ Here # Compute /\ pass \in Nat /\ layer \in Nat /\ layer + 1 \in Nat
      /\ hidden \in Blocks /\ pool[hidden] = Here /\ pass \notin lost
      /\ routed \in Blocks /\ pool[routed] = Here /\ routed # hidden
      /\ pool \in [Blocks -> Stream \cup {None}] /\ Current \in Stream
      /\ Will(pending, ran, content, hidden, Value("hidden", pass, layer))
      /\ Will(pending, ran, content, routed, Value("routed", pass, layer))
  BY <1>0, <1>2, HostFacts, ConstantFacts DEF HostInv, HostTypes, WillInv, HostHolds
<1>5. PICK h : h = Work(Value("shared", pass, layer), "shared", {hidden}, {c})
  OBVIOUS
<1>6. PICK o : o = Work(Value("sum", pass, layer), "sum", {routed, c}, {routed})
  OBVIOUS
<1>7. PICK p : p = Work(Value("hidden", pass, layer + 1), "after", {routed}, {b})
  OBVIOUS
<1>8. /\ h \in AnyOp /\ h.do # "wait" /\ h.do = "shared" /\ h.by = Value("shared", pass, layer)
      /\ h.by[2] = pass /\ h.by[3] = layer /\ h.reads = {hidden} /\ h.writes = {c}
  <2>1. {hidden} \in SUBSET Blocks /\ {c} \in SUBSET Blocks /\ "shared" \in Kernels
    BY <1>3, <1>4 DEF Kernels
  <2> QED BY <1>4, <1>5, <2>1, WorkIsOp
<1>9. /\ o \in AnyOp /\ o.do # "wait" /\ o.do = "sum" /\ o.by = Value("sum", pass, layer)
      /\ o.by[2] = pass /\ o.by[3] = layer /\ o.reads = {routed, c} /\ o.writes = {routed}
  <2>1. {routed, c} \in SUBSET Blocks /\ {routed} \in SUBSET Blocks /\ "sum" \in Kernels
    BY <1>3, <1>4 DEF Kernels
  <2> QED BY <1>4, <1>6, <2>1, WorkIsOp
<1>10. /\ p \in AnyOp /\ p.do # "wait" /\ p.do = "after" /\ p.by = Value("hidden", pass, layer + 1)
       /\ p.by[2] = pass /\ p.by[3] = layer + 1 /\ p.reads = {routed} /\ p.writes = {b}
  <2>1. {b} \in SUBSET Blocks /\ {routed} \in SUBSET Blocks /\ "after" \in Kernels
    BY <1>3, <1>4 DEF Kernels
  <2> QED BY <1>4, <1>7, <2>1, WorkIsOp
<1>11. WellFormed(h) /\ Needs(h, hidden) = Value("hidden", pass, layer)
  BY <1>3, <1>4, <1>5, <1>8 DEF WellFormed, Needs
<1>12. /\ WellFormed(o) /\ Needs(o, routed) = Value("routed", pass, layer)
       /\ Needs(o, c) = Value("shared", pass, layer)
  BY <1>3, <1>4, <1>6, <1>9 DEF WellFormed, Needs
<1>13. WellFormed(p) /\ Needs(p, routed) = Value("sum", pass, layer)
  <2>1. (layer + 1) - 1 = layer
    BY <1>4
  <2> QED BY <1>3, <1>4, <1>7, <1>10, <2>1 DEF WellFormed, Needs
<1>14. PICK pm : pm = [pool EXCEPT ![b] = Here]
  OBVIOUS
<1>15. /\ pm \in [Blocks -> Stream \cup {None}] /\ pm[b] = Here /\ pm[c] = pool[c]
       /\ \A x \in Blocks : x # b => pm[x] = pool[x]
       /\ pool'[b] = Here /\ pool'[c] = Here /\ \A x \in Blocks : x # c => pool'[x] = pm[x]
       /\ pool'[hidden] = Here /\ pool'[routed] = Here
       /\ pool' \in [Blocks -> Stream \cup {None}]
  BY <1>b, <1>3, <1>4, <1>14
<1>16. pending \in [Stream -> Seq(AnyOp)] /\ ran \in [Stream -> Nat] /\ ran' = ran
  BY <1>0, <1>b DEF Core, Wired, AnyOp, Issue
<1>17. PICK Q1 : Q1 = AppendTo(pending, Here, h)
  OBVIOUS
<1>18. PICK Q2 : Q2 = AppendTo(Q1, Here, o)
  OBVIOUS
<1>19. /\ Extends(pending, ran, Here, h, Q1) /\ Extends(Q1, ran, Here, o, Q2)
       /\ Extends(Q2, ran, Here, p, pending')
  <2>1. pending' = [pending EXCEPT ![Here] = @ \o (<<h>> \o <<o, p>>)]
    BY <1>b, <1>5, <1>6, <1>7 DEF Issue, Combine
  <2>2. pending[Here] \o (<<h>> \o <<o, p>>) = Append(Append(Append(pending[Here], h), o), p)
    <3>1. pending[Here] \in Seq(AnyOp) /\ h \in AnyOp /\ o \in AnyOp /\ p \in AnyOp
      BY <1>4, <1>8, <1>9, <1>10, <1>16
    <3>2. PICK S, z : S = AnyOp /\ z = pending[Here]
      OBVIOUS
    <3>3. z \in Seq(S) /\ h \in S /\ o \in S /\ p \in S
      BY <3>1, <3>2
    <3>4. z \o (<<h>> \o <<o, p>>) = Append(Append(Append(z, h), o), p)
      BY ONLY <3>3
    <3> QED BY <3>2, <3>4
  <2>3. Q1 \in [Stream -> Seq(AnyOp)] /\ Q1[Here] = Append(pending[Here], h)
        /\ \A t \in Stream : t # Here => Q1[t] = pending[t]
    BY <1>4, <1>8, <1>16, <1>17 DEF AppendTo
  <2>4. Q2 \in [Stream -> Seq(AnyOp)] /\ Q2[Here] = Append(Q1[Here], o)
        /\ \A t \in Stream : t # Here => Q2[t] = Q1[t]
    <3>1. Here \in Stream /\ Append(Q1[Here], o) \in Seq(AnyOp)
      <4>1. Q1[Here] \in Seq(AnyOp) /\ o \in AnyOp /\ Here \in Stream
        BY <1>4, <1>9, <2>3
      <4> QED BY ONLY <4>1
    <3>2. Q2 = [Q1 EXCEPT ![Here] = Append(Q1[Here], o)]
      BY <1>18 DEF AppendTo
    <3> QED BY ONLY <2>3, <3>1, <3>2
  <2>5. pending' = AppendTo(Q2, Here, p)
    BY <1>4, <1>16, <2>1, <2>2, <2>3, <2>4 DEF AppendTo
  <2> QED BY <1>4, <1>8, <1>9, <1>10, <1>16, <1>17, <1>18, <2>3, <2>4, <2>5, AppendFacts
<1> DEFINE F == Excused(Current, pool', b, None, pass)
<1>20. Hub(pending, ran, pool', lost, F, Blocks)
  <2>1. Hub(pending, ran, pool, lost, Excused(Current, pool, hidden, None, pass), Blocks)
    BY <1>0, <1>2 DEF HubInv
  <2>2. pool[b] = pm[b] \/ pool[b] = None
    BY <1>3, <1>15
  <2>3. Hub(pending, ran, pm, lost, Excused(Current, pm, hidden, None, pass), Blocks)
    BY <1>3, <1>4, <1>15, <2>1, <2>2, HubGive
  <2>4. pm[c] = pool'[c] \/ pm[c] = None
    BY <1>3, <1>15
  <2>5. Hub(pending, ran, pool', lost, Excused(Current, pool', hidden, None, pass), Blocks)
    BY <1>3, <1>4, <1>15, <2>3, <2>4, HubGive
  <2>6. Excused(Current, pool', hidden, None, pass) = F
    BY DEF Excused
  <2> QED BY <2>5, <2>6
<1>21. \A t, x : <<b, t, x>> \notin F /\ <<c, t, x>> \notin F /\ <<routed, t, x>> \notin F
  BY <1>4, <1>15 DEF Excused
<1> HIDE DEF F
<1>22. /\ Core(Q1, ran, content, lost) /\ Hub(Q1, ran, pool', lost, F, Blocks)
       /\ Will(Q1, ran, content, c, h.by)
       /\ Will(Q1, ran, content, routed, Value("routed", pass, layer))
  <2>1. \A x \in h.writes : pool'[x] = Here /\ \A t, y : <<x, t, y>> \notin F
    BY <1>8, <1>15, <1>21
  <2>2. h.reads \subseteq Blocks /\ h.writes \subseteq Blocks /\ c \in h.writes /\ routed \notin h.writes
    BY <1>3, <1>4, <1>8
  <2>3. \A x \in h.reads : pool'[x] = Here /\ Will(pending, ran, content, x, Needs(h, x))
    BY <1>4, <1>8, <1>11, <1>15
  <2> QED BY <1>0, <1>4, <1>8, <1>11, <1>19, <1>20, <2>1, <2>2, <2>3, IssueWork
<1>23. /\ Core(Q2, ran, content, lost) /\ Hub(Q2, ran, pool', lost, F, Blocks)
       /\ Will(Q2, ran, content, routed, o.by)
  <2>1. \A x \in o.writes : pool'[x] = Here /\ \A t, y : <<x, t, y>> \notin F
    BY <1>9, <1>15, <1>21
  <2>2. o.reads \subseteq Blocks /\ o.writes \subseteq Blocks /\ routed \in o.writes
    BY <1>3, <1>4, <1>9
  <2>3. \A x \in o.reads : pool'[x] = Here /\ Will(Q1, ran, content, x, Needs(o, x))
    BY <1>8, <1>9, <1>12, <1>15, <1>22
  <2> QED BY <1>9, <1>12, <1>19, <1>22, <2>1, <2>2, <2>3, IssueWork
<1>24. /\ Core(pending', ran, content, lost) /\ Hub(pending', ran, pool', lost, F, Blocks)
       /\ Will(pending', ran, content, b, p.by)
  <2>1. \A x \in p.writes : pool'[x] = Here /\ \A t, y : <<x, t, y>> \notin F
    BY <1>10, <1>15, <1>21
  <2>2. p.reads \subseteq Blocks /\ p.writes \subseteq Blocks /\ b \in p.writes
    BY <1>3, <1>4, <1>10
  <2>3. \A x \in p.reads : pool'[x] = Here /\ Will(Q2, ran, content, x, Needs(p, x))
    BY <1>9, <1>10, <1>13, <1>15, <1>23
  <2> QED BY <1>10, <1>13, <1>19, <1>23, <2>1, <2>2, <2>3, IssueWork
<1>25. HubInv'
  BY <1>b, <1>2, <1>16, <1>24 DEF HubInv, F
<1>26. WillInv'
  BY <1>b, <1>2, <1>10, <1>16, <1>24 DEF WillInv
<1>27. HostInv'
  <2>1. HostTypes'
    BY <1>0, <1>b, <1>2, <1>3, <1>4, <1>15 DEF HostInv, HostTypes, Current
  <2>2. HostInPass'
    BY <1>0, <1>b, <1>2, <1>3, <1>4, <1>15 DEF HostInv, HostInPass
  <2>3. HostBetween' /\ HostHolds' /\ HostBound'
    BY <1>0, <1>2 DEF HostInv, HostBetween, HostBound, HostHolds
  <2>4. HostAnswers'
    BY <1>0, <1>2 DEF HostInv, HostAnswers
  <2> QED BY <2>1, <2>2, <2>3, <2>4 DEF HostInv
<1> QED BY <1>2, <1>16, <1>24, <1>25, <1>26, <1>27 DEF OverlapInv

\* The tensor moves to the device of the next layer, if it is another.
LEMMA MoveStep ==
  ASSUME OverlapInv, NextLayer, place[layer + 1] # Here PROVE OverlapInv'
<1>0. HostInv /\ Core(pending, ran, content, lost) /\ HubInv /\ WillInv
  BY DEF OverlapInv
<1>t. PICK there : there = place[layer + 1]
  OBVIOUS
<1>1. PICK b \in Candidates(there) :
        /\ hidden' = b /\ pool' = OwnedBy(b, there) /\ ran' = ran
        /\ pending' = [pending EXCEPT
             ![Here] = @ \o <<WaitFor(there, Issued(there)),
                              Work(Value("hidden", pass, layer + 1), "move", {hidden}, {b})>>,
             ![there] = Append(@, WaitFor(Here, Issued(Here) + 2))]
  BY <1>t DEF NextLayer
<1>2. /\ phase = "added" /\ phase' = "layer" /\ pass' = pass /\ layer' = layer + 1
      /\ layer < Layers
      /\ place' = place /\ enabled' = enabled /\ bound' = bound /\ shared' = shared
      /\ routed' = routed /\ content' = content /\ lost' = lost /\ answers' = answers
      /\ Current' = Current /\ Here' = there
  BY <1>t DEF NextLayer, Current, Here
<1>3. b \in Blocks /\ pool[b] \in {there, None} /\ b # hidden
  BY <1>0, <1>1, FreeFacts DEF Candidates
<1>4. /\ Here \in Stream /\ Here # Compute /\ pass \in Nat /\ layer \in Nat /\ layer + 1 \in Nat
      /\ hidden \in Blocks /\ pool[hidden] = Here /\ pass \notin lost
      /\ routed = None /\ shared = None
      /\ pool \in [Blocks -> Stream \cup {None}] /\ Current \in Stream
      /\ Will(pending, ran, content, hidden, Value("hidden", pass, layer + 1))
      /\ layer + 1 \in 1..Layers /\ layer + 1 # 1
  <2>1. /\ Here \in Stream /\ Here # Compute /\ pass \in Nat /\ layer \in Nat
        /\ hidden \in Blocks /\ pool[hidden] = Here /\ pass \notin lost
        /\ routed = None /\ shared = None
        /\ pool \in [Blocks -> Stream \cup {None}] /\ Current \in Stream
        /\ Will(pending, ran, content, hidden, Value("hidden", pass, layer + 1))
    BY <1>0, <1>2, HostFacts DEF HostInv, HostTypes, WillInv, HostHolds
  <2>2. layer + 1 \in 1..Layers /\ layer \in 1..Layers
    BY <1>0, <1>2, <2>1, ConstantFacts DEF HostInv, HostInPass
  <2> QED BY <2>1, <2>2, ConstantFacts
<1>5. there \in Stream /\ there # Compute /\ there # Here /\ there # None
  BY <1>0, <1>4, <1>t, ConstantFacts DEF HostInv, HostTypes
<1>6. PICK o : o = Work(Value("hidden", pass, layer + 1), "move", {hidden}, {b})
  OBVIOUS
<1>7. /\ o \in AnyOp /\ o.do # "wait" /\ o.do = "move" /\ o.by = Value("hidden", pass, layer + 1)
      /\ o.by[2] = pass /\ o.reads = {hidden} /\ o.writes = {b}
  <2>1. {hidden} \in SUBSET Blocks /\ {b} \in SUBSET Blocks /\ "move" \in Kernels
    BY <1>3, <1>4 DEF Kernels
  <2> QED BY <1>4, <1>6, <2>1, WorkIsOp
<1>8. WellFormed(o) /\ Needs(o, hidden) = Value("hidden", pass, layer + 1)
  BY <1>3, <1>4, <1>6, <1>7 DEF WellFormed, Needs
<1>9. pending \in [Stream -> Seq(AnyOp)] /\ ran \in [Stream -> Nat]
  BY <1>0 DEF Core, Wired, AnyOp
<1>10. PICK w : w = WaitFor(there, EndOf(pending, ran, there))
  OBVIOUS
<1>11. w \in AnyOp /\ w = WaitFor(there, Issued(there))
  <2>1. EndOf(pending, ran, there) \in Nat
    BY <1>5, <1>9 DEF EndOf
  <2> QED BY <1>5, <1>10, <2>1, WaitIsOp DEF Issued, EndOf
<1>12. PICK Q1 : Q1 = AppendTo(pending, Here, w)
  OBVIOUS
<1>13. PICK Q2 : Q2 = AppendTo(Q1, Here, o)
  OBVIOUS
<1>14. Q1 \in [Stream -> Seq(AnyOp)] /\ Q1[Here] = Append(pending[Here], w)
       /\ \A t \in Stream : t # Here => Q1[t] = pending[t]
  BY <1>4, <1>9, <1>11, <1>12 DEF AppendTo
<1>15. Q2 \in [Stream -> Seq(AnyOp)] /\ Q2[Here] = Append(Q1[Here], o)
       /\ \A t \in Stream : t # Here => Q2[t] = Q1[t]
  <2>1. Q1[Here] \in Seq(AnyOp) /\ o \in AnyOp /\ Here \in Stream
    BY <1>4, <1>7, <1>14
  <2>2. Append(Q1[Here], o) \in Seq(AnyOp)
    BY ONLY <2>1
  <2>3. Q2 = [Q1 EXCEPT ![Here] = Append(Q1[Here], o)]
    BY <1>13 DEF AppendTo
  <2> QED BY ONLY <1>14, <2>1, <2>2, <2>3
<1>16. Extends(pending, ran, Here, w, Q1) /\ Extends(Q1, ran, Here, o, Q2)
  BY <1>4, <1>7, <1>9, <1>11, <1>12, <1>13, <1>14, AppendFacts
<1>17. PICK x : x = WaitFor(Here, EndOf(Q2, ran, Here))
  OBVIOUS
<1>18. x \in AnyOp /\ x = WaitFor(Here, Issued(Here) + 2)
  <2>1. PICK e \in Nat : e = EndOf(pending, ran, Here)
    BY <1>4, <1>9 DEF EndOf
  <2>2. EndOf(Q1, ran, Here) = e + 1
    BY <1>16, <2>1 DEF Extends
  <2>3. EndOf(Q2, ran, Here) = (e + 1) + 1
    BY <1>16, <2>2 DEF Extends
  <2>4. EndOf(Q2, ran, Here) = e + 2 /\ EndOf(Q2, ran, Here) \in Nat /\ Issued(Here) = e
    BY <2>1, <2>3 DEF Issued, EndOf
  <2> QED BY <1>4, <1>17, <2>4, WaitIsOp
<1>19. Extends(Q2, ran, there, x, pending')
  <2>1. pending[Here] \o <<w, o>> = Append(Append(pending[Here], w), o)
    BY <1>4, <1>7, <1>9, <1>11, ConcatTwo
  <2>2. pending' = [pending EXCEPT ![Here] = pending[Here] \o <<w, o>>, ![there] = Append(pending[there], x)]
    BY <1>1, <1>5, <1>6, <1>11, <1>18
  <2>3. \A t \in Stream : pending'[t] = IF t = there THEN Append(Q2[t], x) ELSE Q2[t]
    BY <1>4, <1>5, <1>9, <1>14, <1>15, <2>1, <2>2
  <2>4. pending' = AppendTo(Q2, there, x)
    <3>1. pending' = [t \in Stream |-> pending'[t]]
      BY <1>9, <2>2
    <3> QED BY <1>5, <1>15, <2>3, <3>1 DEF AppendTo
  <2> QED BY <1>5, <1>9, <1>15, <1>18, <2>4, AppendFacts
<1>20. pool' = [pool EXCEPT ![b] = there] /\ pool'[b] = there /\ pool'[hidden] = Here
       /\ \A y \in Blocks : y # b => pool'[y] = pool[y]
  BY <1>1, <1>3, <1>4 DEF OwnedBy
<1>21. PICK pm : pm = [pool EXCEPT ![b] = Here]
  OBVIOUS
<1>22. pm[b] = Here /\ pm[hidden] = Here /\ (\A y \in Blocks : y # b => pm[y] = pool'[y])
       /\ (\A y \in Blocks : y # b => pool'[y] = pm[y])
  BY <1>3, <1>4, <1>20, <1>21
<1> DEFINE F == Excused(Current, pool', hidden, None, pass)
           G == Excused(Current, pool', b, None, pass)
<1>23. Hub(pending, ran, pool', lost, F, Blocks)
  <2>1. Hub(pending, ran, pool, lost, Excused(Current, pool, hidden, None, pass), Blocks)
    BY <1>0, <1>4 DEF HubInv
  <2>2. pool[b] = pool'[b] \/ pool[b] = None
    BY <1>3, <1>20
  <2> QED BY <1>3, <1>4, <1>20, <2>1, <2>2, HubGive
<1>24. (\A t, y : <<b, t, y>> \notin F) /\ G = F
  BY <1>5, <1>20 DEF Excused
<1> HIDE DEF F, G
<1>25. /\ Core(Q1, ran, content, lost) /\ Hub(Q1, ran, pm, lost, F, Blocks)
       /\ Will(Q1, ran, content, hidden, Value("hidden", pass, layer + 1))
  <2>1. Extends(pending, ran, Here, WaitFor(there, EndOf(pending, ran, there)), Q1)
    BY <1>10, <1>16
  <2>2. /\ Wired(pending, ran) /\ there \in Stream /\ pool'[b] = there /\ pm[b] = Here
        /\ \A y \in Blocks : y # b => pm[y] = pool'[y]
    BY <1>0, <1>5, <1>20, <1>22 DEF Core
  <2>3. \A t, y : <<b, t, y>> \notin F
    BY <1>24
  <2>4. Hub(Q1, ran, pm, lost, F, Blocks)
    <3>1. PICK p1 : p1 = pool'
      OBVIOUS
    <3>2. /\ Hub(pending, ran, p1, lost, F, Blocks) /\ p1[b] = there
          /\ \A y \in Blocks : y # b => pm[y] = p1[y]
      BY <1>23, <2>2, <3>1
    <3> QED BY ONLY <2>1, <2>2, <2>3, <3>2, HubMove
  <2> QED BY <1>0, <1>4, <1>5, <2>1, <2>4, IssueWait
<1>26. /\ Core(Q2, ran, content, lost) /\ Hub(Q2, ran, pm, lost, F, Blocks)
       /\ Will(Q2, ran, content, b, o.by)
  <2>1. \A y \in o.writes : pm[y] = Here /\ \A t, z : <<y, t, z>> \notin F
    BY <1>7, <1>22, <1>24
  <2>2. o.reads \subseteq Blocks /\ o.writes \subseteq Blocks /\ b \in o.writes
    BY <1>3, <1>4, <1>7
  <2>3. \A y \in o.reads : pm[y] = Here /\ Will(Q1, ran, content, y, Needs(o, y))
    BY <1>7, <1>8, <1>22, <1>25
  <2> QED BY <1>7, <1>8, <1>16, <1>25, <2>1, <2>2, <2>3, IssueWork
<1>27. /\ Core(pending', ran, content, lost) /\ Hub(pending', ran, pool', lost, F, Blocks)
       /\ Will(pending', ran, content, b, o.by)
  <2>1. Extends(Q2, ran, there, WaitFor(Here, EndOf(Q2, ran, Here)), pending')
    BY <1>17, <1>19
  <2>2. /\ Wired(Q2, ran) /\ Here \in Stream /\ pool'[b] = there /\ pm[b] = Here
        /\ \A y \in Blocks : y # b => pool'[y] = pm[y]
    BY <1>4, <1>20, <1>22, <1>26 DEF Core
  <2>3. \A t, y : <<b, t, y>> \notin F
    BY <1>24
  <2>4. Hub(pending', ran, pool', lost, F, Blocks)
    <3>1. PICK p1, q1 : p1 = pool' /\ q1 = pending'
      OBVIOUS
    <3>2. /\ Hub(Q2, ran, pm, lost, F, Blocks) /\ p1[b] = there
          /\ \A y \in Blocks : y # b => p1[y] = pm[y]
          /\ Extends(Q2, ran, there, WaitFor(Here, EndOf(Q2, ran, Here)), q1)
      BY <1>26, <2>1, <2>2, <3>1
    <3>3. Hub(q1, ran, p1, lost, F, Blocks)
      BY ONLY <2>2, <2>3, <3>2, HubMove
    <3> QED BY <3>1, <3>3
  <2> QED BY <1>4, <1>26, <2>1, <2>4, IssueWait
<1>28. HubInv'
  BY <1>1, <1>2, <1>4, <1>24, <1>27 DEF HubInv, G
<1>29. WillInv'
  BY <1>1, <1>2, <1>4, <1>7, <1>27 DEF WillInv
<1>30. HostInv'
  <2>1. HostTypes'
    BY <1>0, <1>1, <1>2, <1>3, <1>4, <1>5, <1>20 DEF HostInv, HostTypes, Current
  <2>2. HostInPass'
    BY <1>0, <1>1, <1>2, <1>3, <1>4, <1>20 DEF HostInv, HostInPass
  <2>3. HostBetween' /\ HostHolds' /\ HostBound'
    BY <1>0, <1>2, <1>4 DEF HostInv, HostBetween, HostBound, HostHolds
  <2>4. HostAnswers'
    BY <1>0, <1>2 DEF HostInv, HostAnswers
  <2> QED BY <2>1, <2>2, <2>3, <2>4 DEF HostInv
<1> QED BY <1>1, <1>2, <1>27, <1>28, <1>29, <1>30 DEF OverlapInv

\* The next layer starts where the tensor is, or moves it.
LEMMA NextLayerStep == ASSUME OverlapInv, NextLayer PROVE OverlapInv'
<1>1. CASE place[layer + 1] # Here
  BY <1>1, MoveStep
<1>2. CASE place[layer + 1] = Here
  <2>0. HostInv /\ Core(pending, ran, content, lost) /\ HubInv /\ WillInv
    BY DEF OverlapInv
  <2>1. /\ phase = "added" /\ phase' = "layer" /\ pass' = pass /\ layer' = layer + 1
        /\ layer < Layers
        /\ place' = place /\ enabled' = enabled /\ bound' = bound /\ shared' = shared
        /\ routed' = routed /\ content' = content /\ lost' = lost /\ answers' = answers
        /\ hidden' = hidden /\ pool' = pool /\ pending' = pending /\ ran' = ran
        /\ Current' = Current /\ Here' = Here
    BY <1>2 DEF NextLayer, Current, Here, streamVars
  <2>2. layer \in Nat /\ routed = None /\ shared = None
    BY <2>0, <2>1, HostFacts DEF HostInv, HostHolds
  <2>3. layer \in 1..Layers /\ layer + 1 \in 1..Layers /\ layer + 1 # 1 /\ layer + 1 \in 0..Layers
    BY <2>0, <2>1, <2>2, ConstantFacts DEF HostInv, HostInPass
  <2>4. HubInv'
    BY <2>0, <2>1 DEF HubInv
  <2>5. WillInv'
    BY <2>0, <2>1, <2>2 DEF WillInv
  <2>6. HostInv'
    BY <2>0, <2>1, <2>2, <2>3 DEF HostInv, HostTypes, HostBetween, HostInPass, HostHolds,
       HostBound, HostAnswers, Current
  <2> QED BY <2>0, <2>1, <2>4, <2>5, <2>6 DEF OverlapInv
<1> QED BY <1>1, <1>2

\* Nothing pending comes before what a drained stream has joined.
LEMMA DrainedJoined ==
  ASSUME NEW q, NEW r, Wired(q, r), NEW s \in Stream, q[s] = << >>,
         NEW t \in Stream, NEW k \in Nat, Joined(q, r, s, t, k)
  PROVE  ~Due(q, r, t, k)
<1>1. r \in [Stream -> Nat] /\ \A x \in Stream : q[x] \in Seq(OverlapWait \cup OverlapWork)
  BY DEF Wired
<1>2. EndOf(q, r, s) = r[s]
  BY <1>1 DEF EndOf
<1>3. k <= r[t]
  <2>1. Knows(q, r, s, r[s], t, k)
    BY <1>2 DEF Joined
  <2>2. k \in Int
    OBVIOUS
  <2> QED BY <1>1, <2>1, <2>2, NothingBeforeNext
<1>4. r[t] \in Nat
  BY <1>1
<1> QED BY <1>3, <1>4 DEF Due

\* Reading the answer finds what the last layer leaves: nothing is pending on
\* the stream that has joined all who write the tensor.
LEMMA AnswerStep == ASSUME OverlapInv, Answer PROVE OverlapInv'
<1>0. HostInv /\ Core(pending, ran, content, lost) /\ HubInv /\ WillInv
  BY DEF OverlapInv
<1>1. /\ phase = "added" /\ phase' = "between" /\ layer = Layers /\ layer' = 0 /\ hidden' = None
      /\ pending[Here] = << >> /\ answers' = [answers EXCEPT ![pass] = content[hidden]]
      /\ place' = place /\ enabled' = enabled /\ bound' = bound /\ pass' = pass /\ routed' = routed
      /\ shared' = shared /\ pool' = pool /\ content' = content /\ lost' = lost
      /\ pending' = pending /\ ran' = ran /\ Current' = Current
  BY DEF Answer, streamVars, Drained, Current
<1>2. /\ Here \in Stream /\ hidden \in Blocks /\ pool[hidden] = Here /\ pass \in 1..MaxPasses
      /\ routed = None /\ shared = None /\ Wired(pending, ran)
      /\ Will(pending, ran, content, hidden, Value("hidden", pass, Layers + 1))
  BY <1>0, <1>1, HostFacts DEF HostInv, HostInPass, HostHolds, WillInv, Core
<1>3. content[hidden] = Value("hidden", pass, Layers + 1)
  <2>1. ASSUME NEW t \in Stream, NEW k \in Nat, WritesAt(pending, ran, t, k, hidden) PROVE FALSE
    <3>1. Joined(pending, ran, Here, t, k) /\ Due(pending, ran, t, k)
      BY <1>0, <1>2, <2>1 DEF HubInv, Hub, WritesAt
    <3> QED BY <1>1, <1>2, <3>1, DrainedJoined
  <2> QED BY <1>2, <2>1 DEF Will
<1>4. HubInv'
  <2> DEFINE E == Excused(Current, pool, hidden, shared, pass)
             F == Excused(Current, pool, None, shared, pass)
  <2>1. \A b \in Blocks, t \in Stream : \A p : <<b, t, p>> \in E => <<b, t, p>> \in F
    BY <1>2 DEF Excused
  <2>2. Hub(pending, ran, pool, lost, E, Blocks)
    BY <1>0 DEF HubInv
  <2> HIDE DEF E, F
  <2>3. Hub(pending, ran, pool, lost, F, Blocks)
    BY <2>1, <2>2, HubAgain
  <2> QED BY <1>1, <2>3 DEF HubInv, F
<1>5. WillInv'
  BY <1>1, <1>2 DEF WillInv
<1>6. HostInv'
  <2>1. HostTypes'
    <3>1. answers' = [p \in 1..MaxPasses |-> answers'[p]]
      BY <1>0, <1>1 DEF HostInv, HostTypes
    <3>2. 0 \in 0..Layers
      BY ConstantFacts
    <3>3. /\ place' \in Placements /\ enabled' \in BOOLEAN /\ bound' \in {None, Current'}
          /\ pass' \in 0..MaxPasses /\ pool' \in [Blocks -> Stream \cup {None}]
          /\ content' = [y \in Blocks |-> content'[y]] /\ lost' \subseteq 0..pass'
      BY <1>0, <1>1 DEF HostInv, HostTypes
    <3> QED BY <1>1, <1>2, <3>1, <3>2, <3>3 DEF HostTypes
  <2>2. HostBetween' /\ HostInPass' /\ HostHolds' /\ HostBound'
    BY <1>1, <1>2 DEF HostBetween, HostInPass, HostHolds, HostBound
  <2>3. HostAnswers'
    BY <1>0, <1>1, <1>2, <1>3 DEF HostInv, HostAnswers, HostTypes
  <2> QED BY <2>1, <2>2, <2>3 DEF HostInv
<1> QED BY <1>0, <1>1, <1>4, <1>5, <1>6 DEF OverlapInv

-----------------------------------------------------------------------------
\* The device, and the theorem.

\* The only member of a set.
LEMMA TheOne == ASSUME NEW x PROVE TheBlock({x}) = x
BY DEF TheBlock

\* An operation of a pass changes its own block alone, and leaves there what it
\* is said to if it finds what it needs.
LEMMA EffectRight ==
  ASSUME content = [b \in Blocks |-> content[b]], NEW f, WellFormed(f), NEW C, C = Effect(f)
  PROVE  /\ f.reads \subseteq Blocks
         /\ C = [b \in Blocks |-> C[b]]
         /\ \A b \in Blocks : b \notin f.writes => C[b] = content[b]
         /\ (\A b \in f.reads : content[b] = Needs(f, b)) => \A b \in f.writes : C[b] = f.by
<1>1. PICK p \in Nat, l \in Nat, a \in Blocks, d \in Blocks, c \in Blocks :
        \/ f = Work(Value("hidden", p, l), "embed", {}, {d})
        \/ f = Work(Value("hidden", p, l), "move", {a}, {d})
        \/ f = Work(Value("shared", p, l), "shared", {a}, {d})
        \/ f = Work(Value("routed", p, l), "routed", {a}, {d})
        \/ a # c /\ f = Work(Value("sum", p, l), "sum", {a, c}, {a})
        \/ f = Work(Value("hidden", p, l + 1), "after", {a}, {d})
  BY DEF WellFormed
\* One write, to t, of the value x.
<1>2. ASSUME NEW t \in Blocks, NEW x, f.writes = {t}, f.reads \subseteq Blocks,
             C = [content EXCEPT ![t] = x],
             (\A b \in f.reads : content[b] = Needs(f, b)) => x = f.by
      PROVE  /\ f.reads \subseteq Blocks
             /\ C = [b \in Blocks |-> C[b]]
             /\ \A b \in Blocks : b \notin f.writes => C[b] = content[b]
             /\ (\A b \in f.reads : content[b] = Needs(f, b)) => \A b \in f.writes : C[b] = f.by
  <2>1. C = [b \in Blocks |-> IF b = t THEN x ELSE content[b]]
    BY <1>2
  <2>2. C[t] = x /\ \A b \in Blocks : b # t => C[b] = content[b]
    BY <2>1
  <2>3. C = [b \in Blocks |-> C[b]]
    BY <2>1
  <2> QED BY <1>2, <2>2, <2>3
<1>3. CASE f = Work(Value("hidden", p, l), "embed", {}, {d})
  <2>1. f.do = "embed" /\ f.reads = {} /\ f.writes = {d} /\ f.by = Value("hidden", p, l)
    BY <1>3 DEF Work
  <2>2. C = [content EXCEPT ![d] = f.by]
    BY <2>1, TheOne DEF Effect
  <2> QED BY <1>2, <2>1, <2>2
<1>4. CASE f = Work(Value("hidden", p, l), "move", {a}, {d})
  <2>1. f.do = "move" /\ f.reads = {a} /\ f.writes = {d} /\ f.by = Value("hidden", p, l)
    BY <1>4 DEF Work
  <2>2. C = [content EXCEPT ![d] = content[a]]
    BY <2>1, TheOne DEF Effect
  <2>3. Needs(f, a) = f.by
    BY <2>1 DEF Needs
  <2> QED BY <1>2, <2>1, <2>2, <2>3
<1>5. CASE f = Work(Value("shared", p, l), "shared", {a}, {d})
  <2>1. f.do = "shared" /\ f.reads = {a} /\ f.writes = {d} /\ f.by = Value("shared", p, l)
    BY <1>5 DEF Work
  <2>2. C = [content EXCEPT ![d] = SharedOf(content[a])]
    BY <2>1, TheOne DEF Effect
  <2>3. Needs(f, a) = Value("hidden", p, l)
    BY <2>1 DEF Needs, Value
  <2>4. SharedOf(Value("hidden", p, l)) = f.by
    BY <2>1 DEF SharedOf, Value
  <2> QED BY <1>2, <2>1, <2>2, <2>3, <2>4
<1>6. CASE f = Work(Value("routed", p, l), "routed", {a}, {d})
  <2>1. f.do = "routed" /\ f.reads = {a} /\ f.writes = {d} /\ f.by = Value("routed", p, l)
    BY <1>6 DEF Work
  <2>2. C = [content EXCEPT ![d] = RoutedOf(content[a])]
    BY <2>1, TheOne DEF Effect
  <2>3. Needs(f, a) = Value("hidden", p, l)
    BY <2>1 DEF Needs, Value
  <2>4. RoutedOf(Value("hidden", p, l)) = f.by
    BY <2>1 DEF RoutedOf, Value
  <2> QED BY <1>2, <2>1, <2>2, <2>3, <2>4
<1>7. CASE a # c /\ f = Work(Value("sum", p, l), "sum", {a, c}, {a})
  <2>1. f.do = "sum" /\ f.reads = {a, c} /\ f.writes = {a} /\ f.by = Value("sum", p, l)
    BY <1>7 DEF Work
  <2>2. f.reads \ f.writes = {c}
    BY <1>7, <2>1
  <2>3. C = [content EXCEPT ![a] = SumOf(content[a], content[c])]
    BY <2>1, <2>2, TheOne DEF Effect
  <2>4. Needs(f, a) = Value("routed", p, l) /\ Needs(f, c) = Value("shared", p, l)
    <3>0. f.by[2] = p /\ f.by[3] = l
      BY <2>1 DEF Value
    <3>1. f.by[2] = p /\ f.by[3] = l /\ a \in f.writes /\ c \notin f.writes
      BY <1>7, <2>1, <3>0
    <3>2. f.do # "move" /\ f.do # "after" /\ ~(f.do # "sum")
      BY <2>1
    <3> QED BY <3>1, <3>2 DEF Needs
  <2>5. SumOf(Value("routed", p, l), Value("shared", p, l)) = f.by
    BY <2>1 DEF SumOf, Value
  <2> QED BY <1>2, <2>1, <2>3, <2>4, <2>5
<1>8. CASE f = Work(Value("hidden", p, l + 1), "after", {a}, {d})
  <2>1. f.do = "after" /\ f.reads = {a} /\ f.writes = {d} /\ f.by = Value("hidden", p, l + 1)
    BY <1>8 DEF Work
  <2>2. C = [content EXCEPT ![d] = AfterLayer(content[a])]
    BY <2>1, TheOne DEF Effect
  <2>3. Needs(f, a) = Value("sum", p, l)
    BY <2>1 DEF Needs, Value
  <2>4. AfterLayer(Value("sum", p, l)) = f.by
    BY <2>1 DEF AfterLayer, Value
  <2> QED BY <1>2, <2>1, <2>2, <2>3, <2>4
<1> QED BY <1>1, <1>3, <1>4, <1>5, <1>6, <1>7, <1>8

\* What a stream has first is due at the position after the last it ran.
LEMMA FrontIsDue ==
  ASSUME NEW s \in Stream, Wired(pending, ran), MayRun(s)
  PROVE  /\ Front(s) \in AnyOp /\ ran[s] + 1 \in Nat /\ ran[s] \in Nat
         /\ Due(pending, ran, s, ran[s] + 1) /\ OpAt(pending, ran, s, ran[s] + 1) = Front(s)
         /\ Front(s).do = "wait" => ran[Front(s).on] >= Front(s).position
         /\ Front(s).do # "wait" => WellFormed(Front(s))
<1>1. pending \in [Stream -> Seq(AnyOp)] /\ ran \in [Stream -> Nat] /\ pending[s] # << >>
  BY DEF Wired, AnyOp, MayRun
<1>2. PICK Q : Q = [pending EXCEPT ![s] = Tail(@)]
  OBVIOUS
<1>3. PICK R : R = [ran EXCEPT ![s] = @ + 1]
  OBVIOUS
<1>4. PICK f : f = Head(pending[s])
  OBVIOUS
<1>5. f.do = "wait" => ran[f.on] >= f.position
  BY <1>4 DEF MayRun, Front
<1>6. Pops(pending, ran, s, f, Q, R)
  BY <1>1, <1>2, <1>3, <1>4, <1>5, PopFacts
<1>7. /\ f \in AnyOp /\ Due(pending, ran, s, ran[s] + 1)
      /\ OpAt(pending, ran, s, ran[s] + 1) = f /\ ran[s] + 1 \in Nat /\ ran[s] \in Nat
  BY <1>1, <1>6 DEF Pops
<1>8. f.do # "wait" => WellFormed(f)
  BY <1>7 DEF Wired
<1> QED BY <1>4, <1>5, <1>7, <1>8 DEF Front

\* The device runs the first operation of a stream.
LEMMA DeviceStep ==
  ASSUME OverlapInv, NEW s \in Stream, DeviceRuns(s) PROVE OverlapInv'
<1>0. HostInv /\ Core(pending, ran, content, lost) /\ HubInv /\ WillInv
  BY DEF OverlapInv
<1>1. /\ MayRun(s) /\ pending[s] # << >>
      /\ pending' = [pending EXCEPT ![s] = Tail(@)] /\ ran' = [ran EXCEPT ![s] = @ + 1]
      /\ content' = IF Waits(s) THEN content ELSE Effect(Front(s))
      /\ place' = place /\ enabled' = enabled /\ bound' = bound /\ pass' = pass
      /\ layer' = layer /\ phase' = phase /\ hidden' = hidden /\ routed' = routed
      /\ shared' = shared /\ pool' = pool /\ lost' = lost /\ answers' = answers
      /\ Current' = Current /\ Here' = Here
  BY DEF DeviceRuns, RunOne, hostVars, MayRun, Current, Here
<1>2. PICK f : f = Front(s)
  OBVIOUS
<1>3. Wired(pending, ran)
  BY <1>0 DEF Core
<1>4. /\ f \in AnyOp
      /\ f.do # "wait" => WellFormed(f)
      /\ f.do = "wait" => ran[f.on] >= f.position
  BY <1>1, <1>2, <1>3, FrontIsDue
<1>5. Pops(pending, ran, s, f, pending', ran')
  <2>1. pending \in [Stream -> Seq(AnyOp)] /\ ran \in [Stream -> Nat]
    BY <1>3 DEF Wired, AnyOp
  <2>2. PICK Q, R : Q = pending' /\ R = ran'
    OBVIOUS
  <2>3. /\ Q = [pending EXCEPT ![s] = Tail(@)] /\ R = [ran EXCEPT ![s] = @ + 1]
        /\ f = Head(pending[s])
    BY <1>1, <1>2, <2>2 DEF Front
  <2>4. Pops(pending, ran, s, f, Q, R)
    BY <1>1, <1>4, <2>1, <2>3, PopFacts
  <2> QED BY <2>2, <2>4
<1>6. content = [b \in Blocks |-> content[b]]
  BY <1>0 DEF HostInv, HostTypes
<1>7. Waits(s) <=> f.do = "wait"
  BY <1>1, <1>2 DEF Waits
<1>8. PICK C : C = content'
  OBVIOUS
<1>9. /\ f.do = "wait" => C = content
      /\ f.do # "wait" => C = Effect(f)
  BY <1>1, <1>2, <1>7, <1>8
<1>10. /\ Leaves(f, content, C) /\ C = [b \in Blocks |-> C[b]]
       /\ f.do # "wait" => f.reads \subseteq Blocks
       /\ f.do # "wait" /\ f.by[2] \notin lost /\ (\A b \in f.reads : content[b] = Needs(f, b))
            => \A b \in f.writes : C[b] = f.by
  <2>1. CASE f.do = "wait"
    BY <1>6, <1>9, <2>1 DEF Leaves
  <2>2. CASE f.do # "wait"
    <3>1. WellFormed(f) /\ C = Effect(f)
      BY <1>4, <1>9, <2>2
    <3>2. /\ f.reads \subseteq Blocks /\ C = [b \in Blocks |-> C[b]]
          /\ \A b \in Blocks : b \notin f.writes => C[b] = content[b]
          /\ (\A b \in f.reads : content[b] = Needs(f, b)) => \A b \in f.writes : C[b] = f.by
      BY <1>6, <3>1, EffectRight
    <3> QED BY <2>2, <3>2 DEF Leaves
  <2> QED BY <2>1, <2>2
<1>11. /\ Core(pending', ran', C, lost)
       /\ \A b \in Blocks : \A v :
            v[2] \notin lost /\ Will(pending, ran, content, b, v) => Will(pending', ran', C, b, v)
  <2>1. PICK Q, R : Q = pending' /\ R = ran'
    OBVIOUS
  <2>2. Pops(pending, ran, s, f, Q, R)
    BY <1>5, <2>1
  <2>3. /\ Core(Q, R, C, lost)
        /\ \A b \in Blocks : \A v :
             v[2] \notin lost /\ Will(pending, ran, content, b, v) => Will(Q, R, C, b, v)
    BY <1>0, <1>10, <2>2, CoreRun
  <2> QED BY <2>1, <2>3
<1>12. HubInv'
  <2>1. PICK Q, R, E : /\ Q = pending' /\ R = ran'
                       /\ E = Excused(Current, pool, hidden, shared, pass)
    OBVIOUS
  <2>2. Pops(pending, ran, s, f, Q, R) /\ Hub(pending, ran, pool, lost, E, Blocks)
    BY <1>0, <1>5, <2>1 DEF HubInv
  <2>3. Hub(Q, R, pool, lost, E, Blocks)
    BY <2>2, HubRun
  <2> QED BY <1>1, <2>1, <2>3 DEF HubInv
<1>13. WillInv'
  <2>1. /\ phase # "between" => pass \notin lost /\ hidden \in Blocks
        /\ phase = "routed" => routed \in Blocks
        /\ shared # None => shared \in Blocks /\ pass \notin lost
    BY <1>0 DEF HostInv, HostTypes, HostInPass, HostHolds, HostBetween
  <2>2. \A k, l : Value(k, pass, l)[2] = pass
    BY DEF Value
  <2> QED BY <1>0, <1>1, <1>8, <1>11, <2>1, <2>2 DEF WillInv
<1>14. HostInv'
  BY <1>0, <1>1, <1>8, <1>10 DEF HostInv, HostTypes, HostBetween, HostInPass, HostHolds,
     HostBound, HostAnswers, SharedRunsOn
<1> QED BY <1>1, <1>8, <1>11, <1>12, <1>13, <1>14 DEF OverlapInv

\* Every step of the host and of the device keeps the invariant.
LEMMA OverlapStep == OverlapInv /\ [OverlapNext]_overlapVars => OverlapInv'
<1> SUFFICES ASSUME OverlapInv, [OverlapNext]_overlapVars PROVE OverlapInv'
  OBVIOUS
<1>1. CASE BeginPass
  BY <1>1, BeginPassStep
<1>2. CASE Launch
  BY <1>2, LaunchStep
<1>3. CASE Route
  BY <1>3, RouteStep
<1>4. CASE RaiseInRoute
  BY <1>4, RaiseStep
<1>5. CASE AddShared
  BY <1>5, AddSharedStep
<1>6. CASE AddInLine
  BY <1>6, AddInLineStep
<1>7. CASE NextLayer
  BY <1>7, NextLayerStep
<1>8. CASE Answer
  BY <1>8, AnswerStep
<1>9. ASSUME NEW s \in Stream, DeviceRuns(s) PROVE OverlapInv'
  BY <1>9, DeviceStep
<1>10. CASE UNCHANGED overlapVars
  BY <1>10 DEF overlapVars, hostVars, streamVars, OverlapInv, HostInv, HostTypes, HostBetween,
     HostInPass, HostHolds, HostBound, HostAnswers, HubInv, WillInv, Current, Here, SharedRunsOn
<1> QED BY <1>1, <1>2, <1>3, <1>4, <1>5, <1>6, <1>7, <1>8, <1>9, <1>10 DEF OverlapNext

\* Neither of two operations that may run now comes before the other.
LEMMA FrontsUnordered ==
  ASSUME NEW s \in Stream, NEW t \in Stream, Wired(pending, ran), MayRun(s), MayRun(t)
  PROVE  ~Before(pending, ran, s, ran[s] + 1, t, ran[t] + 1)
<1>1. /\ ran \in [Stream -> Nat]
      /\ \A x \in Stream : pending[x] \in Seq(OverlapWait \cup OverlapWork)
  BY DEF Wired
<1>2. (ran[t] + 1) - 1 = ran[t] /\ ran[s] + 1 \in Int /\ ~(ran[s] + 1 <= ran[s])
  BY <1>1
<1> SUFFICES ASSUME Knows(pending, ran, t, ran[t], s, ran[s] + 1) PROVE FALSE
  BY <1>2 DEF Before
<1> QED BY <1>1, <1>2, NothingBeforeNext

\* The invariant implies the property.
LEMMA OverlapInvIsSafe == OverlapInv => OverlapSafe
<1> SUFFICES ASSUME OverlapInv PROVE OverlapSafe
  OBVIOUS
<1>0. HostInv /\ Wired(pending, ran) /\ Ordered(pending, ran, lost)
  BY DEF OverlapInv, Core
<1>1. OverlapTypeOK
  BY <1>0, HostFacts DEF HostInv, HostTypes, HostBetween, OverlapTypeOK, Held
<1>2. OverlapRight
  BY <1>0 DEF HostInv, HostAnswers, OverlapRight
<1>3. NoOverlapClash
  <2> SUFFICES ASSUME NEW s \in Stream, NEW t \in Stream, Clash(s, t)
               PROVE  Front(t).by[2] \in lost /\ Front(s).writes \cap Front(t).writes = {}
    BY DEF NoOverlapClash
  <2>1. /\ s # t /\ MayRun(s) /\ MayRun(t)
        /\ Front(s).do # "wait" /\ Front(t).do # "wait"
        /\ Front(s).writes \cap (Front(t).reads \cup Front(t).writes) # {}
    BY DEF Clash, MayRunWork, Waits, MayRun
  <2>2. PICK k \in Nat, j \in Nat : k = ran[s] + 1 /\ j = ran[t] + 1
    BY <1>0, <2>1, FrontIsDue
  <2>3. ~Before(pending, ran, s, k, t, j) /\ ~Before(pending, ran, t, j, s, k)
    BY <1>0, <2>1, <2>2, FrontsUnordered
  <2>4. /\ Due(pending, ran, s, k) /\ OpAt(pending, ran, s, k) = Front(s)
        /\ Due(pending, ran, t, j) /\ OpAt(pending, ran, t, j) = Front(t)
        /\ WellFormed(Front(s)) /\ WellFormed(Front(t))
    BY <1>0, <2>1, <2>2, FrontIsDue
  <2>5. Front(s).writes \subseteq Blocks
    BY <2>4 DEF WellFormed, Work
  <2>6. ASSUME NEW b \in Blocks, b \in Front(s).writes
        PROVE  /\ b \notin Front(t).writes
               /\ b \in Front(t).reads => Front(t).by[2] \in lost
    <3>1. WritesAt(pending, ran, s, k, b)
      BY <2>1, <2>4, <2>6 DEF WritesAt
    <3>2. b \in Front(t).writes => WritesAt(pending, ran, t, j, b)
      BY <2>1, <2>4 DEF WritesAt
    <3>3. b \in Front(t).reads => ReadsAt(pending, ran, t, j, b)
      BY <2>1, <2>4 DEF ReadsAt
    <3>4. PassAt(pending, ran, t, j) = Front(t).by[2]
      BY <2>4 DEF PassAt
    <3> QED BY <1>0, <2>1, <2>3, <3>1, <3>2, <3>3, <3>4 DEF Ordered
  <2>7. \A b \in Front(s).writes : /\ b \notin Front(t).writes
                                   /\ b \in Front(t).reads => Front(t).by[2] \in lost
    BY <2>5, <2>6
  <2> QED BY <2>1, <2>7
<1> QED BY <1>1, <1>2, <1>3 DEF OverlapSafe

\* The shared and the routed experts overlap safely: a pass that ends returns
\* what it should, and nobody writes what a pass still wanted is using.
THEOREM OverlapIsSafe == OverlapSpec => []OverlapSafe
<1> QED BY OverlapInitOK, OverlapStep, OverlapInvIsSafe, PTL DEF OverlapSpec
=============================================================================
