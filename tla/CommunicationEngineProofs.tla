--------------------- MODULE CommunicationEngineProofs ---------------------
(***************************************************************************)
(* In four parts.  For any experts, clients, sizes and faults, careful or  *)
(* not: the fields of every expert record tell one story, a record is      *)
(* loading only while the worker is on the way to publish or fail it, and  *)
(* the state is well typed.  For Disciplined clients (swaps only between   *)
(* the loads and the other calls, no remote expert, no CUDA fault): Safe,  *)
(* the invariant that ties the cache, the records and the clients'         *)
(* pointers together, what follows from it, and the double buffer.         *)
(***************************************************************************)
EXTENDS CommunicationEngine, CacheOpsProofs
LOCAL INSTANCE FiniteSetTheorems

LoadSteps == {"index", "dest", "copy", "record", "complete", "fail"}

Coherent(r) ==
  /\ r \in ExpertRecord
  /\ r.resident <=> Published(r)
  /\ r.ptr # Null <=> Published(r)
  /\ r.loading <=> r.state = "Loading"
  /\ r.ptr = IpcMapping => r.imported

\* q is a coherent record that neither starts to load nor shows a mapping
\* when r does not.
Calm(q, r) ==
  /\ Coherent(q)
  /\ q.loading => r.loading
  /\ q.ptr = IpcMapping => r.ptr = IpcMapping

\* The inductive invariant.  A mapping is published only after it is opened
\* and stays open while it is; before initialize and after shutdown there is
\* no worker that could be loading.
Inv ==
  /\ weights \in [Expert -> ExpertRecord]
  /\ \A e \in Expert : Coherent(weights[e])
  /\ LoadOwned
  /\ \A e \in Expert : weights[e].ptr = IpcMapping => e \in mapped
  /\ wpc = "publish" => req \in mapped
  /\ ~initialized => wpc = "exited"
  /\ current \in Buffer /\ idx \in Buffer /\ dst \in Buffer

-----------------------------------------------------------------------------
(* What the methods of WeightManager do to one coherent record.            *)

LEMMA CalmItself ==
  ASSUME NEW r, Coherent(r)
  PROVE  Calm(r, r)
BY DEF Calm

LEMMA NewRecordCalm ==
  ASSUME NEW r, NEW h \in BOOLEAN
  PROVE  Calm(NewRecord(h), r)
<1>1. NewRecord(h) \in ExpertRecord
  BY DEF Coherent, NewRecord, ExpertRecord, ResidentState, Pointer, Buffer, IpcMapping,
         Null, NoRecord
<1>2. /\ NewRecord(h).state = "Unloaded"
      /\ NewRecord(h).resident = FALSE
      /\ NewRecord(h).loading = FALSE
      /\ NewRecord(h).ptr = Null
  BY DEF Coherent, NewRecord, ExpertRecord, NoRecord
<1> QED BY <1>1, <1>2 DEF Calm, Coherent, Published, Reloadable, Buffer,
                          IpcMapping, Null

LEMMA NoRecordCalm ==
  ASSUME NEW r
  PROVE  Calm(NoRecord, r)
<1>1. NoRecord \in ExpertRecord
  BY DEF Coherent, NoRecord, ExpertRecord, ResidentState, Pointer, Buffer, IpcMapping,
         Null
<1>2. /\ NoRecord.state = "Absent"
      /\ NoRecord.resident = FALSE
      /\ NoRecord.loading = FALSE
      /\ NoRecord.ptr = Null
  BY DEF Coherent, NoRecord, ExpertRecord
<1> QED BY <1>1, <1>2 DEF Calm, Coherent, Published, Reloadable, Buffer,
                          IpcMapping, Null

LEMMA BeginLoadCoherent ==
  ASSUME NEW r, Coherent(r), Reloadable(r)
  PROVE  Coherent(BeginLoad(r)) /\ BeginLoad(r).ptr = Null
<1>1. BeginLoad(r) \in ExpertRecord
  BY DEF Coherent, BeginLoad, ExpertRecord, ResidentState, Pointer, Buffer, IpcMapping,
         Null
<1>2. /\ BeginLoad(r).state = "Loading"
      /\ BeginLoad(r).loading = TRUE
      /\ BeginLoad(r).resident = r.resident
      /\ BeginLoad(r).ptr = r.ptr
  BY DEF Coherent, BeginLoad, ExpertRecord
<1> QED BY <1>1, <1>2 DEF Calm, Coherent, Published, Reloadable, Buffer,
                          IpcMapping, Null

LEMMA CompleteLoadCalm ==
  ASSUME NEW r, Coherent(r), NEW d \in Buffer, NEW i \in Buffer
  PROVE  Calm(CompleteLoad(r, d, i), r) /\ ~CompleteLoad(r, d, i).loading
<1> DEFINE q == CompleteLoad(r, d, i)
<1>1. CASE r.state = "Loading"
  <2>1. q = [r EXCEPT !.buf = i, !.resident = TRUE, !.loading = FALSE,
                      !.ptr = d, !.state = "Staged"]
    BY <1>1 DEF CompleteLoad
  <2> HIDE DEF q
  <2>2. q \in ExpertRecord
    BY <2>1 DEF Coherent, ExpertRecord, ResidentState, Pointer
  <2>3. /\ q.resident = TRUE
        /\ q.loading = FALSE
        /\ q.ptr = d
        /\ q.state = "Staged"
    BY <2>1 DEF Coherent, ExpertRecord
  <2> QED BY <2>2, <2>3 DEF Calm, Coherent, Published, Buffer, IpcMapping, Null, q
<1>2. CASE r.state # "Loading"
  <2>1. q = [r EXCEPT !.buf = i]
    BY <1>2 DEF CompleteLoad
  <2> HIDE DEF q
  <2>2. q \in ExpertRecord
    BY <2>1 DEF Coherent, ExpertRecord
  <2>3. /\ q.resident = r.resident
        /\ q.loading = r.loading
        /\ q.ptr = r.ptr
        /\ q.state = r.state
        /\ q.imported = r.imported
    BY <2>1 DEF Coherent, ExpertRecord
  <2> QED BY <1>2, <2>2, <2>3 DEF Calm, Coherent, Published, q
<1> QED BY <1>1, <1>2

LEMMA ActivateCalm ==
  ASSUME NEW r, Coherent(r), r.state = "Staged"
  PROVE  Calm(Activate(r), r)
<1>1. Activate(r) \in ExpertRecord
  BY DEF Coherent, Activate, ExpertRecord, ResidentState, Pointer, Buffer, IpcMapping,
         Null
<1>2. /\ Activate(r).state = "Active"
      /\ Activate(r).loading = r.loading
      /\ Activate(r).resident = r.resident
      /\ Activate(r).ptr = r.ptr
      /\ Activate(r).imported = r.imported
  BY DEF Coherent, Activate, ExpertRecord
<1> QED BY <1>1, <1>2 DEF Calm, Coherent, Published, Reloadable, Buffer,
                          IpcMapping, Null

LEMMA EvictCalm ==
  ASSUME NEW r, Coherent(r), Published(r)
  PROVE  Calm(Evict(r), r)
<1>1. Evict(r) \in ExpertRecord
  BY DEF Coherent, Evict, ExpertRecord, ResidentState, Pointer, Buffer, IpcMapping,
         Null
<1>2. /\ Evict(r).state = "Evicted"
      /\ Evict(r).loading = r.loading
      /\ Evict(r).resident = FALSE
      /\ Evict(r).ptr = Null
  BY DEF Coherent, Evict, ExpertRecord
<1> QED BY <1>1, <1>2 DEF Calm, Coherent, Published, Reloadable, Buffer,
                          IpcMapping, Null

LEMMA PublishIPCCoherent ==
  ASSUME NEW r, Coherent(r), Reloadable(r)
  PROVE  Coherent(PublishIPC(r)) /\ ~PublishIPC(r).loading
<1>1. PublishIPC(r) \in ExpertRecord
  BY DEF Coherent, PublishIPC, ExpertRecord, ResidentState, Pointer, Buffer, IpcMapping,
         Null
<1>2. /\ PublishIPC(r).state = "Active"
      /\ PublishIPC(r).loading = r.loading
      /\ PublishIPC(r).resident = TRUE
      /\ PublishIPC(r).ptr = IpcMapping
      /\ PublishIPC(r).imported = TRUE
  BY DEF Coherent, PublishIPC, ExpertRecord
<1> QED BY <1>1, <1>2 DEF Calm, Coherent, Published, Reloadable, Buffer,
                          IpcMapping, Null

LEMMA FailLoadCalm ==
  ASSUME NEW r, Coherent(r)
  PROVE  Calm(FailLoad(r), r) /\ ~FailLoad(r).loading
<1>1. FailLoad(r) \in ExpertRecord
  BY DEF Coherent, FailLoad, ExpertRecord, ResidentState, Pointer, Buffer, IpcMapping,
         Null
<1>2. /\ FailLoad(r).state = "Evicted"
      /\ FailLoad(r).loading = FALSE
      /\ FailLoad(r).resident = FALSE
      /\ FailLoad(r).ptr = Null
  BY DEF Coherent, FailLoad, ExpertRecord
<1> QED BY <1>1, <1>2 DEF Calm, Coherent, Published, Reloadable, Buffer,
                          IpcMapping, Null

LEMMA MarkAccessedCalm ==
  ASSUME NEW r, Coherent(r)
  PROVE  Calm(MarkAccessed(r), r)
<1>1. MarkAccessed(r) \in ExpertRecord
  BY DEF Coherent, MarkAccessed, ExpertRecord, ResidentState, Pointer, Buffer, IpcMapping,
         Null
<1>2. /\ MarkAccessed(r).state = r.state
      /\ MarkAccessed(r).loading = r.loading
      /\ MarkAccessed(r).resident = r.resident
      /\ MarkAccessed(r).ptr = r.ptr
      /\ MarkAccessed(r).imported = r.imported
  BY DEF Coherent, MarkAccessed, ExpertRecord
<1> QED BY <1>1, <1>2 DEF Calm, Coherent, Published, Reloadable, Buffer,
                          IpcMapping, Null

LEMMA ReleaseRefCalm ==
  ASSUME NEW r, Coherent(r)
  PROVE  Calm(ReleaseRef(r), r)
<1>1. ReleaseRef(r) \in ExpertRecord
  BY DEF Coherent, ReleaseRef, ExpertRecord, ResidentState, Pointer, Buffer, IpcMapping,
         Null
<1>2. /\ ReleaseRef(r).state = r.state
      /\ ReleaseRef(r).loading = r.loading
      /\ ReleaseRef(r).resident = r.resident
      /\ ReleaseRef(r).ptr = r.ptr
      /\ ReleaseRef(r).imported = r.imported
  BY DEF Coherent, ReleaseRef, ExpertRecord
<1> QED BY <1>1, <1>2 DEF Calm, Coherent, Published, Reloadable, Buffer,
                          IpcMapping, Null

-----------------------------------------------------------------------------
(* Replacing one record by a calmer one.  An id that is not an expert's    *)
(* changes nothing, so the lemma needs to know nothing of it.              *)
LEMMA SetRecordCalm ==
  ASSUME Inv, NEW e, NEW q, SetRecord(e, q),
         e \in Expert => Calm(q, weights[e])
  PROVE  /\ weights' \in [Expert -> ExpertRecord]
         /\ \A x \in Expert : Calm(weights'[x], weights[x])
         /\ \A x \in Expert : x # e => weights'[x] = weights[x]
         /\ e \in Expert => weights'[e] = q
<1>1. weights' = [weights EXCEPT ![e] = q]
  BY DEF SetRecord
<1>2. \A x \in Expert : Calm(weights[x], weights[x])
  BY CalmItself DEF Inv
<1>3. e \in Expert => q \in ExpertRecord
  BY DEF Calm, Coherent
<1>4. CASE e \in Expert
  BY <1>1, <1>2, <1>3, <1>4 DEF Inv
<1>5. CASE e \notin Expert
  BY <1>1, <1>2, <1>5 DEF Inv
<1> QED BY <1>4, <1>5

(* A step that only calms records and takes the worker from a load step to *)
(* a load step of the same request, if anywhere, keeps the invariant.      *)
LEMMA CalmStep ==
  ASSUME Inv,
         weights' \in [Expert -> ExpertRecord],
         \A x \in Expert : Calm(weights'[x], weights[x]),
         mapped' = mapped, initialized' = initialized,
         wpc \in LoadSteps => wpc' \in LoadSteps /\ req' = req,
         wpc' = "publish" => wpc = "publish" /\ req' = req,
         wpc = "exited" => wpc' = "exited",
         current' \in Buffer /\ idx' \in Buffer /\ dst' \in Buffer
  PROVE  Inv'
BY DEF Inv, LoadOwned, LoadSteps, Calm

\* The commonest case: no record changes at all.
LEMMA StillStep ==
  ASSUME Inv, UNCHANGED <<weights, mapped, initialized>>,
         wpc \in LoadSteps => wpc' \in LoadSteps /\ req' = req,
         wpc' = "publish" => wpc = "publish" /\ req' = req,
         wpc = "exited" => wpc' = "exited",
         current' \in Buffer /\ idx' \in Buffer /\ dst' \in Buffer
  PROVE  Inv'
<1>1. \A x \in Expert : Calm(weights'[x], weights[x])
  BY CalmItself DEF Inv
<1> QED BY <1>1, CalmStep DEF Inv

-----------------------------------------------------------------------------
LEMMA WorkerStill ==
  ASSUME Inv,
         \/ WorkerLoop \/ WorkerDequeue \/ WorkerDrained \/ WorkerInspect
         \/ WorkerAdmitIPC \/ WorkerAwait \/ WorkerPark \/ SpuriousWakeup
         \/ WorkerIndex \/ WorkerDest \/ WorkerCopy \/ WorkerRecord
         \/ WorkerAdmit \/ WorkerDone \/ WorkerNotify
  PROVE  Inv'
<1> USE DEF WorkerAt, EndRequest, LoadSteps, partVars, queueVars, signalVars,
            clientVars, engineVars
<1>0. current \in Buffer /\ idx \in Buffer /\ dst \in Buffer /\ 0 \in Buffer
      /\ 1 - current \in Buffer
  BY DEF Inv, Buffer
<1>1. CASE WorkerLoop \/ WorkerDequeue \/ WorkerDrained
  BY <1>0, <1>1, StillStep DEF WorkerLoop, WorkerDequeue, WorkerDrained
<1>2. CASE WorkerInspect
  BY <1>0, <1>2, StillStep DEF WorkerInspect
<1>3. CASE WorkerAdmitIPC
  BY <1>0, <1>3, StillStep DEF WorkerAdmitIPC
<1>4. CASE WorkerAwait
  BY <1>0, <1>4, StillStep DEF WorkerAwait
<1>5. CASE WorkerPark \/ SpuriousWakeup
  BY <1>0, <1>5, StillStep DEF WorkerPark, SpuriousWakeup
<1>6. CASE WorkerIndex \/ WorkerDest
  BY <1>0, <1>6, StillStep DEF WorkerIndex, WorkerDest
<1>7. CASE WorkerCopy \/ WorkerRecord
  BY <1>0, <1>7, StillStep DEF WorkerCopy, WorkerRecord
<1>8. CASE WorkerAdmit
  BY <1>0, <1>8, StillStep DEF WorkerAdmit
<1>9. CASE WorkerDone \/ WorkerNotify
  BY <1>0, <1>9, StillStep DEF WorkerDone, WorkerNotify
<1> QED BY <1>1, <1>2, <1>3, <1>4, <1>5, <1>6, <1>7, <1>8, <1>9

\* A mapping is opened before anything points at it.
LEMMA ImportStep ==
  ASSUME Inv, WorkerImport
  PROVE  Inv'
BY DEF Inv, WorkerImport, WorkerAt, LoadOwned, queueVars, signalVars,
       clientVars, engineVars

LEMMA PublishStep ==
  ASSUME Inv, WorkerPublish
  PROVE  Inv'
<1> USE DEF WorkerAt, queueVars, signalVars, clientVars, engineVars
<1>1. CASE Reloadable(weights[req]) /\ req \in Expert
  <2>1. weights' = [weights EXCEPT ![req] = PublishIPC(weights[req])]
    BY <1>1 DEF WorkerPublish, SetRecord
  <2>2. Coherent(PublishIPC(weights[req])) /\ ~PublishIPC(weights[req]).loading
    BY <1>1, PublishIPCCoherent DEF Inv
  <2>3. req \in mapped /\ wpc' = "admitIPC" /\ mapped' = mapped
    BY <1>1 DEF WorkerPublish, Inv
  <2>4. weights' \in [Expert -> ExpertRecord]
    BY <2>1, <2>2 DEF Inv, Coherent
  <2>5. /\ \A x \in Expert : Coherent(weights'[x])
        /\ \A x \in Expert : ~weights'[x].loading
    BY <1>1, <2>1, <2>2 DEF Inv, LoadOwned, WorkerPublish
  <2>6. \A x \in Expert : weights'[x].ptr = IpcMapping => x \in mapped
    BY <1>1, <2>1, <2>3 DEF Inv
  <2> QED BY <2>3, <2>4, <2>5, <2>6 DEF Inv, LoadOwned, WorkerPublish
<1>2. CASE ~(Reloadable(weights[req]) /\ req \in Expert)
  <2>1. weights' = weights
    BY <1>2 DEF WorkerPublish, SetRecord, Inv
  <2> QED BY <2>1, StillStep DEF WorkerPublish, LoadSteps, Inv
<1> QED BY <1>1, <1>2

LEMMA BeginStep ==
  ASSUME Inv, WorkerBegin
  PROVE  Inv'
<1> USE DEF WorkerAt, queueVars, signalVars, clientVars, engineVars
<1>1. CASE Reloadable(weights[req]) /\ req \in Expert
  <2>1. weights' = [weights EXCEPT ![req] = BeginLoad(weights[req])]
    BY <1>1 DEF WorkerBegin, SetRecord
  <2>2. Coherent(BeginLoad(weights[req])) /\ BeginLoad(weights[req]).ptr = Null
    BY <1>1, BeginLoadCoherent DEF Inv
  <2>3. wpc' = "index" /\ req' = req /\ mapped' = mapped
    BY <1>1 DEF WorkerBegin
  <2>4. weights' \in [Expert -> ExpertRecord]
    BY <2>1, <2>2 DEF Inv, Coherent
  <2>5. \A x \in Expert : Coherent(weights'[x])
    BY <1>1, <2>1, <2>2 DEF Inv
  <2>6. \A x \in Expert : weights'[x].ptr = IpcMapping => x \in mapped
    BY <1>1, <2>1, <2>2 DEF Inv, IpcMapping, Null
  <2>7. \A x \in Expert : weights'[x].loading => x = req
    BY <1>1, <2>1 DEF Inv, LoadOwned, WorkerBegin
  <2> QED BY <2>3, <2>4, <2>5, <2>6, <2>7 DEF Inv, LoadOwned, WorkerBegin
<1>2. CASE ~(Reloadable(weights[req]) /\ req \in Expert)
  <2>1. weights' = weights
    BY <1>2 DEF WorkerBegin, SetRecord, Inv
  <2>2. wpc \notin LoadSteps /\ wpc' # "publish" /\ wpc # "exited"
    BY DEF WorkerBegin, LoadSteps
  <2> QED BY <2>1, <2>2, StillStep DEF WorkerBegin, Inv
<1> QED BY <1>1, <1>2

\* Publishing or failing the request is what ends a load.
LEMMA LoadEnds ==
  ASSUME Inv, NEW q, SetRecord(req, q),
         req \in Expert => Calm(q, weights[req]) /\ ~q.loading,
         wpc' # "publish", wpc # "exited",
         UNCHANGED <<mapped, initialized, current, idx, dst, req>>
  PROVE  Inv'
<1>1. /\ weights' \in [Expert -> ExpertRecord]
      /\ \A x \in Expert : Calm(weights'[x], weights[x])
      /\ \A x \in Expert : x # req => weights'[x] = weights[x]
      /\ req \in Expert => weights'[req] = q
  BY SetRecordCalm
<1>2. \A x \in Expert : ~weights'[x].loading
  BY <1>1 DEF Inv, LoadOwned
<1> QED BY <1>1, <1>2 DEF Inv, LoadOwned, Calm

LEMMA CompleteStep ==
  ASSUME Inv, WorkerComplete
  PROVE  Inv'
<1>1. req \in Expert => /\ Calm(CompleteLoad(weights[req], dst, idx), weights[req])
                        /\ ~CompleteLoad(weights[req], dst, idx).loading
  BY CompleteLoadCalm DEF Inv
<1> QED BY <1>1, LoadEnds DEF WorkerComplete, WorkerAt, queueVars, signalVars,
                              clientVars, engineVars

LEMMA FailStep ==
  ASSUME Inv, WorkerFail
  PROVE  Inv'
<1> DEFINE q == IF Registered(weights[req]) THEN FailLoad(weights[req])
                ELSE weights[req]
<1>1. req \in Expert => Calm(q, weights[req]) /\ ~q.loading
  BY FailLoadCalm, CalmItself DEF Inv, Registered, Coherent
<1>2. SetRecord(req, q)
  BY DEF WorkerFail
<1> HIDE DEF q
<1> QED BY <1>1, <1>2, LoadEnds DEF WorkerFail, WorkerAt, queueVars, signalVars,
                                    clientVars, engineVars

LEMMA EvictStep ==
  ASSUME Inv, WorkerEvict
  PROVE  Inv'
<1> DEFINE v == Head(victims)
           q == IF Registered(weights[v]) THEN Evict(weights[v]) ELSE weights[v]
<1> USE DEF WorkerAt, LoadSteps, queueVars, signalVars, clientVars, engineVars
<1>1. CASE ~Registered(weights[v]) \/ CanEvict(weights[v])
  <2>1. SetRecord(v, q)
    BY <1>1 DEF WorkerEvict
  <2>2. v \in Expert => Calm(q, weights[v])
    BY <1>1, EvictCalm, CalmItself DEF Inv, CanEvict
  <2> HIDE DEF q, v
  <2>3. /\ weights' \in [Expert -> ExpertRecord]
        /\ \A x \in Expert : Calm(weights'[x], weights[x])
    BY <2>1, <2>2, SetRecordCalm
  <2>4. wpc = "evict" /\ wpc' \in {"evict", "fail"}
        /\ UNCHANGED <<mapped, initialized, current, idx, dst, req>>
    BY DEF WorkerEvict
  <2> QED BY <2>3, <2>4, CalmStep DEF Inv
<1>2. CASE ~(~Registered(weights[v]) \/ CanEvict(weights[v]))
  BY <1>2, StillStep DEF WorkerEvict, Inv
<1> QED BY <1>1, <1>2

-----------------------------------------------------------------------------
LEMMA ClientStill ==
  ASSUME Inv, NEW c \in Client,
         \/ GetResolve(c) \/ GetPin(c) \/ GetFetch(c)
         \/ SwapErase(c) \/ SwapFlip(c) \/ SwapNotify(c)
         \/ ShutdownClose(c) \/ ShutdownWake(c) \/ ShutdownStop(c)
         \/ InitializeThrows(c)
         \/ \E e \in Expert : Prefetch(c, e) \/ GetCall(c, e) \/ ReleaseUnpin(c, e)
  PROVE  Inv'
<1> USE DEF vars, partVars, queueVars, workerVars, signalVars, clientVars,
            engineVars
<1>0. current \in Buffer /\ idx \in Buffer /\ dst \in Buffer
      /\ 1 - current \in Buffer
  BY DEF Inv, Buffer
<1>1. UNCHANGED <<weights, mapped, initialized, req, idx, dst>>
  BY DEF GetResolve, GetPin, GetFetch, SwapErase, SwapFlip, SwapNotify,
         ShutdownClose, ShutdownWake, ShutdownStop, InitializeThrows,
         Prefetch, GetCall, ReleaseUnpin
<1>2. wpc' = wpc \/ (wpc = "parked" /\ wpc' = "await")
  BY DEF GetResolve, GetPin, GetFetch, SwapErase, SwapFlip, SwapNotify,
         ShutdownClose, ShutdownWake, ShutdownStop, InitializeThrows,
         Prefetch, GetCall, ReleaseUnpin
<1>3. current' \in Buffer
  BY <1>0 DEF GetResolve, GetPin, GetFetch, SwapErase, SwapFlip, SwapNotify,
         ShutdownClose, ShutdownWake, ShutdownStop, InitializeThrows,
         Prefetch, GetCall, ReleaseUnpin
<1> QED BY <1>0, <1>1, <1>2, <1>3, StillStep DEF LoadSteps

\* Calls that change one record, and nothing else the invariant is about.
LEMMA ClientSets ==
  ASSUME Inv, NEW e, NEW q, SetRecord(e, q),
         e \in Expert => Calm(q, weights[e]),
         UNCHANGED <<mapped, initialized, wpc, req, current, idx, dst>>
  PROVE  Inv'
<1>1. /\ weights' \in [Expert -> ExpertRecord]
      /\ \A x \in Expert : Calm(weights'[x], weights[x])
  BY SetRecordCalm
<1> QED BY <1>1, CalmStep DEF Inv

LEMMA RegisterStep ==
  ASSUME Inv, NEW c \in Client, NEW e \in Expert, Register(c, e)
  PROVE  Inv'
<1>1. Calm(NewRecord(TRUE), weights[e]) /\ Calm(NewRecord(FALSE), weights[e])
  BY NewRecordCalm
<1>2. SetRecord(e, NewRecord(TRUE)) \/ SetRecord(e, NewRecord(FALSE))
  BY DEF Register
<1>3. UNCHANGED <<mapped, initialized, wpc, req, current, idx, dst>>
  BY DEF Register, workerVars, engineVars
<1> QED BY <1>1, <1>2, <1>3, ClientSets

LEMMA ClaimStep ==
  ASSUME Inv, NEW c \in Client, GetClaim(c)
  PROVE  Inv'
<1> DEFINE r == weights[arg[c]]
           q == IF snap[c].state = "Staged" THEN Activate(r) ELSE r
<1>1. UNCHANGED <<mapped, initialized, wpc, req, current, idx, dst>>
  BY DEF GetClaim, workerVars, engineVars
<1>2. CASE Claimable(c)
  <2>1. SetRecord(arg[c], q)
    BY <1>2 DEF GetClaim
  <2>2. arg[c] \in Expert => Calm(q, r)
    BY <1>2, ActivateCalm, CalmItself DEF Claimable, CanActivate, Inv
  <2> HIDE DEF q
  <2> QED BY <1>1, <2>1, <2>2, ClientSets
<1>3. CASE ~Claimable(c)
  BY <1>1, <1>3, StillStep DEF GetClaim, Inv
<1> QED BY <1>2, <1>3

LEMMA CountStep ==
  ASSUME Inv, NEW c \in Client, GetMark(c) \/ ReleaseDeref(c)
  PROVE  Inv'
<1>1. UNCHANGED <<mapped, initialized, wpc, req, current, idx, dst>>
  BY DEF GetMark, ReleaseDeref, workerVars, engineVars
<1>2. arg[c] \in Expert => /\ Calm(MarkAccessed(weights[arg[c]]), weights[arg[c]])
                           /\ Calm(ReleaseRef(weights[arg[c]]), weights[arg[c]])
  BY MarkAccessedCalm, ReleaseRefCalm DEF Inv
<1> QED BY <1>1, <1>2, ClientSets DEF GetMark, ReleaseDeref

\* However far invalidateBuffer comes, it evicts published records only.
LEMMA InvalidateStep ==
  ASSUME Inv, NEW c \in Client, SwapInvalidate(c)
  PROVE  Inv'
<1>1. PICK S \in SUBSET Occupants : Retire(S)
  BY DEF SwapInvalidate
<1>2. \A e \in Expert : Calm(weights'[e], weights[e])
  BY <1>1, EvictCalm, CalmItself DEF Retire, Occupants, Occupies, Inv
<1>3. weights' \in [Expert -> ExpertRecord]
  BY <1>1, <1>2 DEF Retire, Calm, Coherent
<1>4. UNCHANGED <<mapped, initialized, wpc, req, current, idx, dst>>
  BY DEF SwapInvalidate, workerVars
<1> QED BY <1>2, <1>3, <1>4, CalmStep DEF Inv

LEMMA StartStep ==
  ASSUME Inv, NEW c \in Client, Initialize(c)
  PROVE  Inv'
BY DEF Inv, Initialize, LoadOwned

LEMMA JoinStep ==
  ASSUME Inv, NEW c \in Client, ShutdownJoin(c)
  PROVE  Inv'
<1>1. weights' = [e \in Expert |-> NoRecord]
  BY DEF ShutdownJoin
<1>2. \A e \in Expert : Calm(NoRecord, weights[e])
  BY NoRecordCalm
<1>3. /\ weights' \in [Expert -> ExpertRecord]
      /\ \A e \in Expert : /\ Coherent(weights'[e]) /\ ~weights'[e].loading
                           /\ weights'[e].ptr # IpcMapping
  BY <1>1, <1>2 DEF Calm, Coherent, NoRecord, IpcMapping, Null
<1>4. wpc' = "exited" /\ current' \in Buffer /\ idx' \in Buffer /\ dst' \in Buffer
  BY DEF ShutdownJoin, EndRequest, Buffer
<1> QED BY <1>3, <1>4 DEF Inv, LoadOwned

-----------------------------------------------------------------------------
LEMMA InvStep == Inv /\ [Next]_vars => Inv'
<1> SUFFICES ASSUME Inv, [Next]_vars PROVE Inv'
  OBVIOUS
<1>1. CASE WorkerProgress \/ SpuriousWakeup
  BY <1>1, WorkerStill, ImportStep, PublishStep, BeginStep, CompleteStep,
     FailStep, EvictStep DEF WorkerProgress
<1>2. ASSUME NEW c \in Client, ClientProgress(c) PROVE Inv'
  BY <1>2, ClientStill, ClaimStep, CountStep, JoinStep DEF ClientProgress
<1>3. ASSUME NEW c \in Client, ClientCall(c) PROVE Inv'
  BY <1>3, ClientStill, StartStep, InvalidateStep, RegisterStep DEF ClientCall
<1>4. CASE UNCHANGED vars
  BY <1>4, StillStep DEF vars, partVars, workerVars, engineVars, Inv
<1> QED BY <1>1, <1>2, <1>3, <1>4 DEF Next

LEMMA InvInit == Init => Inv
<1> SUFFICES ASSUME Init PROVE Inv
  OBVIOUS
<1>1. weights = [e \in Expert |-> NoRecord] /\ Calm(NoRecord, NoRecord)
  BY NoRecordCalm DEF Init
<1>2. /\ weights \in [Expert -> ExpertRecord]
      /\ \A e \in Expert : /\ Coherent(weights[e]) /\ ~weights[e].loading
                           /\ weights[e].ptr # IpcMapping
  BY <1>1 DEF Calm, Coherent, NoRecord, IpcMapping, Null
<1> QED BY <1>2 DEF Init, Inv, LoadOwned, Buffer

LEMMA Invariant == Spec => []Inv
  BY InvInit, InvStep, PTL DEF Spec

(* Whoever waits for a record to stop loading waits for the worker, which  *)
(* is serving that very record: under any interleaving of clients, swaps,  *)
(* faults and shutdowns.                                                   *)
THEOREM LoadsAreOwned == Spec => []LoadOwned
<1>1. Inv => LoadOwned
  BY DEF Inv
<1> QED BY <1>1, Invariant, PTL

(* The state, the flags and the pointer of a record agree after every step *)
(* of every operation, and an imported pointer is to an open mapping.      *)
THEOREM RecordsAreCoherent == Spec => []RecordsCoherent
<1>1. Inv => RecordsCoherent
  BY DEF Inv, Coherent, RecordsCoherent
<1> QED BY <1>1, Invariant, PTL

-----------------------------------------------------------------------------
(* Types.  The worker knows which expert it serves whenever it serves one, *)
(* a client knows what its call is about, and the cache stays sound.       *)
Serving == wpc \notin {"loop", "dequeue", "exited"}

CallSteps == {"resolve", "claim", "pin", "mark", "fetch", "deref"}

WorkerTypes ==
  /\ queue \in Seq(Expert) /\ closed \in BOOLEAN
  /\ running \in BOOLEAN /\ available \in BOOLEAN
  /\ wpc \in WorkerStep /\ req \in Expert \cup {None}
  /\ victims \in Seq(Expert)
  /\ Serving => req \in Expert

ClientTypes ==
  /\ initialized \in BOOLEAN /\ lock \in Client \cup {None}
  /\ cpc \in [Client -> ClientStep]
  /\ arg \in [Client -> Expert \cup {None}]
  /\ snap \in [Client -> [ state : ResidentState \cup {"Absent"},
                           buf : Buffer, imported : BOOLEAN ]]
  /\ ids \in [Client -> SUBSET Expert]
  /\ held \in [Client -> [Expert -> Pointer]]
  /\ \A c \in Client : cpc[c] \in CallSteps => arg[c] \in Expert

PartTypes ==
  /\ Sound(cache)
  /\ content \in [Buffer -> Expert \cup {None}]
  /\ mapped \subseteq Expert

Types == Inv /\ WorkerTypes /\ ClientTypes /\ PartTypes

LEMMA WorkerTypesStep ==
  ASSUME Types, WorkerProgress \/ SpuriousWakeup
  PROVE  WorkerTypes'
<1> USE DEF WorkerAt, EndRequest, Types, WorkerTypes, WorkerStep, Serving,
            partVars, queueVars, signalVars, engineVars
<1>0. <<>> \in Seq(Expert)
  OBVIOUS
<1>1. CASE WorkerLoop \/ WorkerPark \/ SpuriousWakeup \/ WorkerDrained
  BY <1>1 DEF WorkerLoop, WorkerPark, SpuriousWakeup, WorkerDrained
<1>2. CASE WorkerDequeue
  <2>1. Head(queue) \in Expert /\ Tail(queue) \in Seq(Expert)
    BY <1>2 DEF WorkerDequeue
  <2> QED BY <1>2, <2>1 DEF WorkerDequeue
<1>3. CASE WorkerInspect
  BY <1>0, <1>3 DEF WorkerInspect, Published, Registered
<1>4. CASE WorkerImport \/ WorkerPublish
  BY <1>4 DEF WorkerImport, WorkerPublish
<1>5. CASE WorkerAdmitIPC
  BY <1>0, <1>5 DEF WorkerAdmitIPC
<1>6. CASE WorkerAwait
  BY <1>0, <1>6 DEF WorkerAwait
<1>7. CASE WorkerBegin \/ WorkerIndex \/ WorkerDest
  BY <1>7 DEF WorkerBegin, WorkerIndex, WorkerDest
<1>8. CASE WorkerCopy \/ WorkerRecord \/ WorkerComplete
  BY <1>8 DEF WorkerCopy, WorkerRecord, WorkerComplete
<1>9. CASE WorkerAdmit
  <2>1. cache.lru \in Seq(Expert)
    BY DEF PartTypes, Sound, CacheRecord
  <2>2. Evicted(cache, req) \in Seq(Expert)
    BY <2>1, WithoutFacts DEF Evicted
  <2> QED BY <1>9, <2>2 DEF WorkerAdmit
<1>10. CASE WorkerEvict
  <2>1. Tail(victims) \in Seq(Expert)
    BY <1>10 DEF WorkerEvict
  <2> QED BY <1>0, <1>10, <2>1 DEF WorkerEvict
<1>11. CASE WorkerDone \/ WorkerFail \/ WorkerNotify
  BY <1>0, <1>11 DEF WorkerDone, WorkerFail, WorkerNotify
<1> QED BY <1>1, <1>2, <1>3, <1>4, <1>5, <1>6, <1>7, <1>8, <1>9, <1>10, <1>11
        DEF WorkerProgress

\* The worker touches nothing of a client's.
LEMMA WorkerLeavesClients ==
  ASSUME WorkerProgress \/ SpuriousWakeup
  PROVE  UNCHANGED <<clientVars, engineVars, current, running>>
BY DEF WorkerProgress, SpuriousWakeup, WorkerLoop, WorkerPark, WorkerDrained,
       WorkerDequeue, WorkerInspect, WorkerImport, WorkerPublish, WorkerAdmitIPC,
       WorkerAwait, WorkerBegin, WorkerIndex, WorkerDest, WorkerCopy,
       WorkerRecord, WorkerComplete, WorkerAdmit, WorkerEvict, WorkerDone,
       WorkerFail, WorkerNotify, partVars, signalVars

LEMMA WorkerPartTypes ==
  ASSUME Types, WorkerProgress \/ SpuriousWakeup
  PROVE  PartTypes'
<1> USE DEF Types, PartTypes, WorkerAt, partVars
<1>1. CASE WorkerAdmit \/ WorkerAdmitIPC
  <2>1. req \in Expert /\ cache' = Admit(cache, req)
        /\ UNCHANGED <<content, mapped>>
    BY <1>1 DEF WorkerAdmit, WorkerAdmitIPC, WorkerTypes, Serving
  <2> QED BY <2>1, AdmitSound
<1>2. CASE WorkerImport
  BY <1>2 DEF WorkerImport, WorkerTypes, Serving
<1>3. CASE WorkerCopy
  BY <1>3 DEF WorkerCopy, WorkerTypes, Serving
<1>4. CASE UNCHANGED <<cache, content, mapped>>
  BY <1>4
<1>5. UNCHANGED <<cache, content, mapped>> \/ WorkerAdmit \/ WorkerAdmitIPC
      \/ WorkerImport \/ WorkerCopy
  BY DEF WorkerProgress, SpuriousWakeup, WorkerLoop, WorkerPark, WorkerDrained,
         WorkerDequeue, WorkerInspect, WorkerPublish, WorkerAwait, WorkerBegin,
         WorkerIndex, WorkerDest, WorkerRecord, WorkerComplete, WorkerEvict,
         WorkerDone, WorkerFail, WorkerNotify
<1> QED BY <1>1, <1>2, <1>3, <1>4, <1>5

-----------------------------------------------------------------------------
\* Ending a call, or going on with it, keeps the client's variables typed.
LEMMA EndCallTypes ==
  ASSUME ClientTypes, NEW c \in Client, EndCall(c),
         cpc' = [cpc EXCEPT ![c] = "idle"],
         initialized' = initialized, lock' \in Client \cup {None},
         held' \in [Client -> [Expert -> Pointer]]
  PROVE  ClientTypes'
<1>1. NoSnap \in [ state : ResidentState \cup {"Absent"},
                   buf : Buffer, imported : BOOLEAN ]
  BY DEF NoSnap, Buffer
<1>2. /\ arg' \in [Client -> Expert \cup {None}]
      /\ ids' \in [Client -> SUBSET Expert]
      /\ cpc' \in [Client -> ClientStep]
  BY DEF EndCall, ClientTypes, ClientStep
<1>3. snap' \in [Client -> [ state : ResidentState \cup {"Absent"},
                             buf : Buffer, imported : BOOLEAN ]]
  BY <1>1 DEF EndCall, ClientTypes
<1>4. \A d \in Client : cpc'[d] \in CallSteps => arg'[d] \in Expert
  BY DEF EndCall, ClientTypes, CallSteps
<1> QED BY <1>2, <1>3, <1>4 DEF ClientTypes

LEMMA GoOnTypes ==
  ASSUME ClientTypes, NEW c \in Client, NEW p \in ClientStep, Goto(c, p),
         arg' \in [Client -> Expert \cup {None}], arg'[c] \in Expert,
         \A d \in Client : d # c => arg'[d] = arg[d],
         snap' \in [Client -> [ state : ResidentState \cup {"Absent"},
                                buf : Buffer, imported : BOOLEAN ]],
         UNCHANGED <<initialized, lock, ids>>,
         held' \in [Client -> [Expert -> Pointer]]
  PROVE  ClientTypes'
BY DEF ClientTypes, Goto, CallSteps

LEMMA CallTypes ==
  ASSUME Types, NEW c \in Client,
         \/ GetResolve(c) \/ GetClaim(c) \/ GetPin(c) \/ GetMark(c)
         \/ GetFetch(c) \/ ReleaseDeref(c)
         \/ \E e \in Expert : GetCall(c, e) \/ ReleaseUnpin(c, e)
  PROVE  ClientTypes' /\ PartTypes'
<1> USE DEF ClientAt, engineVars, partVars
<1>0. /\ ClientTypes /\ PartTypes /\ lock \in Client \cup {None}
      /\ arg \in [Client -> Expert \cup {None}]
      /\ snap \in [Client -> [ state : ResidentState \cup {"Absent"},
                               buf : Buffer, imported : BOOLEAN ]]
      /\ held \in [Client -> [Expert -> Pointer]]
      /\ cpc[c] \in CallSteps => arg[c] \in Expert
      /\ \A x \in Expert : weights[x] \in ExpertRecord
  BY DEF Types, ClientTypes, Inv
<1>1. CallSteps \subseteq ClientStep /\ Null \in Pointer
  BY DEF CallSteps, ClientStep, Pointer
<1>2. ASSUME NEW e \in Expert, GetCall(c, e) PROVE ClientTypes' /\ PartTypes'
  <2>1. /\ Goto(c, "resolve") /\ "resolve" \in ClientStep
        /\ arg' = [arg EXCEPT ![c] = e]
        /\ UNCHANGED <<initialized, lock, ids, snap, held, cache, content, mapped>>
    BY <1>2 DEF GetCall, ClientStep
  <2> QED BY <1>0, <2>1, GoOnTypes DEF PartTypes
<1>3. CASE GetResolve(c)
  <2>1. /\ arg[c] \in Expert
        /\ UNCHANGED <<initialized, lock, held, cache, content, mapped>>
    BY <1>0, <1>3 DEF GetResolve, CallSteps
  <2>2. CASE weights[arg[c]].resident
    <3> DEFINE r == weights[arg[c]]
               q == [state |-> r.state, buf |-> r.buf, imported |-> r.imported]
    <3>1. q \in [state : ResidentState \cup {"Absent"}, buf : Buffer,
                 imported : BOOLEAN]
      BY <1>0, <2>1 DEF ExpertRecord
    <3>2. snap' = [snap EXCEPT ![c] = q] /\ UNCHANGED <<arg, ids>>
      BY <1>3, <2>2 DEF GetResolve
    <3>3. PICK p \in {"pin", "claim"} : Goto(c, p)
      BY <1>3, <2>2 DEF GetResolve
    <3> HIDE DEF q
    <3>4. p \in ClientStep
      BY DEF ClientStep
    <3> QED BY <1>0, <2>1, <3>1, <3>2, <3>3, <3>4, GoOnTypes DEF PartTypes
  <2>3. CASE ~weights[arg[c]].resident
    <3>1. Goto(c, "idle") /\ EndCall(c)
      BY <1>3, <2>3 DEF GetResolve
    <3> QED BY <1>0, <2>1, <3>1, EndCallTypes DEF PartTypes, Goto
  <2> QED BY <2>2, <2>3
<1>4. CASE GetClaim(c)
  <2>1. /\ arg[c] \in Expert
        /\ UNCHANGED <<initialized, lock, held, cache, content, mapped>>
        /\ \/ Goto(c, "pin") /\ UNCHANGED <<arg, snap, ids>>
           \/ Goto(c, "idle") /\ EndCall(c)
    BY <1>0, <1>4 DEF GetClaim, CallSteps
  <2>2. "pin" \in ClientStep
    BY DEF ClientStep
  <2> QED BY <1>0, <2>1, <2>2, EndCallTypes, GoOnTypes DEF PartTypes, Goto
<1>5. CASE GetPin(c)
  <2>1. /\ arg[c] \in Expert
        /\ UNCHANGED <<initialized, lock, held, content, mapped>>
        /\ \/ /\ Goto(c, "mark") /\ UNCHANGED <<arg, snap, ids>>
              /\ CanPin(cache, arg[c]) /\ cache' = Pin(cache, arg[c])
           \/ Goto(c, "idle") /\ EndCall(c) /\ cache' = cache
    BY <1>0, <1>5 DEF GetPin, CallSteps
  <2>2. Sound(cache')
    <3>1. Sound(cache)
      BY <1>0 DEF PartTypes
    <3>2. CanPin(cache, arg[c]) => Sound(Pin(cache, arg[c]))
      BY <2>1, <3>1, PinSound
    <3> QED BY <2>1, <3>1, <3>2
  <2>3. "mark" \in ClientStep
    BY DEF ClientStep
  <2> QED BY <1>0, <2>1, <2>2, <2>3, EndCallTypes, GoOnTypes DEF PartTypes, Goto
<1>6. CASE GetMark(c)
  <2>1. /\ arg[c] \in Expert /\ Goto(c, "fetch") /\ "fetch" \in ClientStep
        /\ UNCHANGED <<initialized, lock, held, cache, content, mapped, arg, snap, ids>>
    BY <1>0, <1>6 DEF GetMark, CallSteps, ClientStep
  <2> QED BY <1>0, <2>1, GoOnTypes DEF PartTypes
<1>7. CASE ReleaseDeref(c)
  <2>1. /\ Goto(c, "idle") /\ EndCall(c)
        /\ UNCHANGED <<initialized, lock, held, cache, content, mapped>>
    BY <1>7 DEF ReleaseDeref
  <2> QED BY <1>0, <2>1, EndCallTypes DEF PartTypes, Goto
<1>8. CASE GetFetch(c)
  <2>1. arg[c] \in Expert
    BY <1>0, <1>8 DEF GetFetch, CallSteps
  <2>2. weights[arg[c]].ptr \in Pointer
    BY <1>0, <2>1 DEF ExpertRecord
  <2>3. /\ Goto(c, "idle") /\ EndCall(c)
        /\ UNCHANGED <<initialized, lock, cache, content, mapped>>
        /\ held' \in {held, [held EXCEPT ![c][arg[c]] = weights[arg[c]].ptr]}
    BY <1>8 DEF GetFetch
  <2>4. held' \in [Client -> [Expert -> Pointer]]
    <3>1. held[c] \in [Expert -> Pointer]
      BY <1>0
    <3>2. [held EXCEPT ![c][arg[c]] = weights[arg[c]].ptr]
            = [held EXCEPT ![c] = [held[c] EXCEPT ![arg[c]] = weights[arg[c]].ptr]]
      BY <1>0
    <3>3. [held[c] EXCEPT ![arg[c]] = weights[arg[c]].ptr] \in [Expert -> Pointer]
      BY <2>2, <3>1
    <3> DEFINE h == [held[c] EXCEPT ![arg[c]] = weights[arg[c]].ptr]
    <3> HIDE DEF h
    <3>4. [held EXCEPT ![c] = h] \in [Client -> [Expert -> Pointer]]
      BY <1>0, <3>3 DEF h
    <3> QED BY <1>0, <2>3, <3>2, <3>4 DEF h
  <2> QED BY <1>0, <2>3, <2>4, EndCallTypes DEF PartTypes, Goto
<1>9. ASSUME NEW e \in Expert, ReleaseUnpin(c, e) PROVE ClientTypes' /\ PartTypes'
  <2>1. /\ held' = [held EXCEPT ![c][e] = Null]
        /\ UNCHANGED <<initialized, lock, content, mapped, snap, ids>>
        /\ \/ /\ CanUnpin(cache, e) /\ cache' = Unpin(cache, e)
              /\ Goto(c, "deref") /\ arg' = [arg EXCEPT ![c] = e]
           \/ UNCHANGED <<cpc, arg, cache>>
    BY <1>9 DEF ReleaseUnpin
  <2>2. held' \in [Client -> [Expert -> Pointer]]
    BY <1>0, <1>1, <2>1
  <2>3. Sound(cache')
    <3>1. Sound(cache)
      BY <1>0 DEF PartTypes
    <3>2. CanUnpin(cache, e) => Sound(Unpin(cache, e))
      BY <3>1, UnpinSound
    <3> QED BY <2>1, <3>1, <3>2
  <2>4. ClientTypes'
    <3>1. CASE UNCHANGED <<cpc, arg, cache>>
      BY <1>0, <2>1, <2>2, <3>1 DEF ClientTypes
    <3>2. CASE Goto(c, "deref") /\ arg' = [arg EXCEPT ![c] = e]
      <4>1. "deref" \in ClientStep
        BY DEF ClientStep
      <4> QED BY <1>0, <2>1, <2>2, <3>2, <4>1, GoOnTypes
    <3> QED BY <2>1, <3>1, <3>2
  <2> QED BY <2>1, <2>3, <2>4, <1>0 DEF PartTypes
<1> QED BY <1>2, <1>3, <1>4, <1>5, <1>6, <1>7, <1>8, <1>9

LEMMA SwapTypes ==
  ASSUME Types, NEW c \in Client,
         SwapInvalidate(c) \/ SwapErase(c) \/ SwapFlip(c) \/ SwapNotify(c)
  PROVE  ClientTypes' /\ PartTypes'
<1> USE DEF Types, ClientTypes, ClientStep, CallSteps, Goto, ClientAt, EndCall,
            engineVars
<1>1. CASE SwapInvalidate(c)
  <2>1. Occupants \subseteq Expert
    BY DEF Occupants
  <2> QED BY <1>1, <2>1 DEF SwapInvalidate, PartTypes
<1>2. CASE SwapErase(c)
  <2>1. PICK e \in ids[c] :
          /\ cache' = IF CanErase(cache, e) THEN Erase(cache, e) ELSE cache
          /\ IF CanErase(cache, e)
             THEN /\ ids' = [ids EXCEPT ![c] = @ \ {e}]
                  /\ UNCHANGED <<lock, cpc, arg, snap>>
             ELSE lock' = None /\ Goto(c, "idle") /\ EndCall(c)
    BY <1>2 DEF SwapErase
  <2>2. Sound(cache')
    BY <2>1, EraseSound DEF PartTypes
  <2>4. UNCHANGED <<content, mapped, initialized, held>>
    BY <1>2 DEF SwapErase
  <2>5. CASE CanErase(cache, e)
    BY <2>1, <2>2, <2>4, <2>5 DEF PartTypes
  <2>6. CASE ~CanErase(cache, e)
    <3>1. lock' = None /\ Goto(c, "idle") /\ EndCall(c)
      BY <2>1, <2>6
    <3>2. held' \in [Client -> [Expert -> Pointer]]
      BY <2>4
    <3>3. ClientTypes'
      BY <2>4, <3>1, <3>2, EndCallTypes
    <3> QED BY <2>2, <2>4, <3>3 DEF PartTypes
  <2> QED BY <2>5, <2>6
<1>3. CASE SwapFlip(c) \/ SwapNotify(c)
  BY <1>3 DEF SwapFlip, SwapNotify, PartTypes, partVars
<1> QED BY <1>1, <1>2, <1>3

LEMMA OtherTypes ==
  ASSUME Types, NEW c \in Client,
         \/ ShutdownStop(c) \/ ShutdownClose(c) \/ ShutdownWake(c)
         \/ ShutdownJoin(c) \/ Initialize(c) \/ InitializeThrows(c)
         \/ \E e \in Expert : Register(c, e) \/ Prefetch(c, e)
  PROVE  ClientTypes' /\ PartTypes'
<1> USE DEF Types, ClientTypes, ClientStep, CallSteps, Goto, ClientAt,
            engineVars, clientVars, PartTypes, partVars
<1>1. CASE ShutdownStop(c) \/ ShutdownClose(c) \/ ShutdownWake(c)
  BY <1>1 DEF ShutdownStop, ShutdownClose, ShutdownWake
<1>2. CASE ShutdownJoin(c)
  BY <1>2, EmptySound DEF ShutdownJoin
<1>3. CASE Initialize(c) \/ InitializeThrows(c)
  BY <1>3, EmptySound DEF Initialize, InitializeThrows, vars
<1>4. ASSUME NEW e \in Expert, Register(c, e) \/ Prefetch(c, e)
      PROVE  ClientTypes' /\ PartTypes'
  BY <1>4 DEF Register, Prefetch
<1> QED BY <1>1, <1>2, <1>3, <1>4

\* What a client does to the worker's variables.
LEMMA ClientWorkerTypes ==
  ASSUME Types, NEW c \in Client, ClientProgress(c) \/ ClientCall(c)
  PROVE  WorkerTypes'
<1> USE DEF Types, WorkerTypes, WorkerStep, Serving, EndRequest, workerVars,
            queueVars, signalVars, vars
<1>0. <<>> \in Seq(Expert)
  OBVIOUS
<1>1. CASE \/ GetResolve(c) \/ GetClaim(c) \/ GetPin(c) \/ GetMark(c)
           \/ GetFetch(c) \/ ReleaseDeref(c) \/ InitializeThrows(c)
           \/ SwapInvalidate(c) \/ SwapErase(c) \/ SwapFlip(c)
           \/ \E e \in Expert :
                GetCall(c, e) \/ ReleaseUnpin(c, e) \/ Register(c, e)
  <2>1. UNCHANGED <<queueVars, wpc, req, victims, signalVars>>
    BY <1>1 DEF GetResolve, GetClaim, GetPin, GetMark, GetFetch, ReleaseDeref,
       InitializeThrows, SwapInvalidate, SwapErase, SwapFlip, GetCall,
       ReleaseUnpin, Register
  <2> QED BY <2>1
<1>2. CASE SwapNotify(c) \/ ShutdownWake(c)
  BY <1>2 DEF SwapNotify, ShutdownWake
<1>3. CASE ShutdownStop(c) \/ ShutdownClose(c)
  BY <1>3 DEF ShutdownStop, ShutdownClose
<1>4. CASE ShutdownJoin(c) \/ Initialize(c)
  BY <1>0, <1>4 DEF ShutdownJoin, Initialize
<1>5. ASSUME NEW e \in Expert, Prefetch(c, e) PROVE WorkerTypes'
  <2>1. Append(queue, e) \in Seq(Expert)
    BY <1>5
  <2> QED BY <1>5, <2>1 DEF Prefetch
<1> QED BY <1>1, <1>2, <1>3, <1>4, <1>5 DEF ClientProgress, ClientCall

LEMMA TypesStep == Types /\ [Next]_vars => Types'
<1> SUFFICES ASSUME Types, [Next]_vars PROVE Types'
  OBVIOUS
<1>0. Inv'
  BY InvStep DEF Types
<1>1. CASE WorkerProgress \/ SpuriousWakeup
  <2>1. ClientTypes'
    BY <1>1, WorkerLeavesClients DEF ClientTypes, Types, clientVars, engineVars
  <2> QED BY <1>0, <1>1, <2>1, WorkerTypesStep, WorkerPartTypes DEF Types
<1>2. ASSUME NEW c \in Client, ClientProgress(c) \/ ClientCall(c) PROVE Types'
  <2>1. ClientTypes' /\ PartTypes'
    BY <1>2, CallTypes, SwapTypes, OtherTypes DEF ClientProgress, ClientCall
  <2> QED BY <1>0, <1>2, <2>1, ClientWorkerTypes DEF Types
<1>3. CASE UNCHANGED vars
  BY <1>0, <1>3 DEF vars, partVars, queueVars, workerVars, signalVars, clientVars,
     engineVars, Types, WorkerTypes, ClientTypes, PartTypes, Serving
<1> QED BY <1>1, <1>2, <1>3 DEF Next

LEMMA TypesInit == Init => Types
<1> SUFFICES ASSUME Init PROVE Types
  OBVIOUS
<1>1. Inv /\ Sound(cache)
  BY InvInit, EmptySound DEF Init
<1>2. /\ NoSnap \in [ state : ResidentState \cup {"Absent"},
                      buf : Buffer, imported : BOOLEAN ]
      /\ Null \in Pointer
  BY DEF NoSnap, Buffer, Pointer
<1>3. WorkerTypes
  <2>1. <<>> \in Seq(Expert)
    OBVIOUS
  <2> QED BY <2>1 DEF Init, WorkerTypes, WorkerStep, Serving
<1>4. ClientTypes
  BY <1>2 DEF Init, ClientTypes, ClientStep, CallSteps
<1> QED BY <1>1, <1>3, <1>4 DEF Types, PartTypes, Init

LEMMA AlwaysTypes == Spec => []Types
  BY TypesInit, TypesStep, PTL DEF Spec

(* Type correctness of the whole engine, whatever clients do and whatever  *)
(* CUDA call fails: a step of any thread leaves every variable in its set. *)
THEOREM EngineTypes == Spec => []TypeOK
<1>1. Types => TypeOK
  BY DEF Types, WorkerTypes, ClientTypes, PartTypes, Inv, Sound, CacheRecord, TypeOK
<1> QED BY <1>1, AlwaysTypes, PTL

-----------------------------------------------------------------------------
(* The discipline under which the engine keeps its promises to the         *)
(* executor: EngineCareful's and EngineSingle's, for any number of clients *)
(* and experts.                                                            *)
Disciplined == Careful /\ Remote = {} /\ CudaFaults = {}

\* No published record is in buffer b.
Clear(b) == \A e \in Expert : Published(weights[e]) => weights[e].buf # b

\* Every record is a local expert's, and points at its own bytes.
Records ==
  \A e \in Expert :
    /\ Registered(weights[e]) => e \in Local /\ Size[e] <= Staging /\ initialized
    /\ ~weights[e].remote /\ ~weights[e].imported
    /\ Published(weights[e]) =>
         weights[e].ptr = weights[e].buf /\ content[weights[e].buf] = e

\* The worker serves registered experts, and no request fails.
Requests ==
  /\ initialized => \A i \in 1..Len(queue) : Registered(weights[queue[i]])
  /\ Serving => Registered(weights[req])
  /\ wpc \notin {"import", "publish", "admitIPC", "fail", "notify"}
  /\ victims = <<>>

Filling == {"index", "dest", "copy", "record", "complete"}

\* The worker fills the back buffer, which is free for it.
Loads ==
  /\ wpc \in {"await", "parking", "parked", "begin"} => Reloadable(weights[req])
  /\ wpc \in Filling => weights[req].state = "Loading"
  /\ wpc = "admit" => Published(weights[req]) /\ weights[req].buf = 1 - current
  /\ wpc \in {"dest", "copy", "record", "complete"} => idx = 1 - current
  /\ wpc \in {"copy", "record", "complete"} => dst = 1 - current
  /\ wpc \in {"record", "complete"} => content[1 - current] = req
  /\ wpc \in LoadWindow => ~available
  /\ available \/ wpc = "begin" \/ wpc \in Filling => Clear(1 - current)

Swapping(c) == cpc[c] \in {"erase", "notify"}
Halting(c)  == cpc[c] \in {"close", "wake", "join"}

\* A swap keeps loads away, and a shutdown everybody else.
Locks ==
  \A c \in Client :
    /\ Swapping(c) \/ Halting(c) <=> lock = c
    /\ Swapping(c) =>
         /\ wpc \notin LoadWindow
         /\ available => queue = <<>> /\ wpc \in {"loop", "dequeue", "exited"}
    /\ cpc[c] = "erase" => Clear(current)
    /\ cpc[c] = "notify" => Clear(1 - current)
    /\ ids[c] # {} => cpc[c] = "erase"
    /\ \A e \in ids[c] : ~Published(weights[e])
    /\ Halting(c) =>
         \A d \in Client : /\ d # c => Idle(d)
                           /\ \A e \in Expert : held[d][e] = Null

\* Whoever has got a pointer, or will, has it to the front buffer.
Calls ==
  \A c \in Client :
    /\ cpc[c] = "claim" =>
         Published(weights[arg[c]]) /\ snap[c].buf = weights[arg[c]].buf
    /\ cpc[c] \in {"pin", "mark", "fetch", "deref"} =>
         Published(weights[arg[c]]) /\ weights[arg[c]].buf = current
    /\ cpc[c] \in CallSteps => held[c][arg[c]] = Null
    /\ \A e \in Expert : held[c][e] # Null =>
         /\ Published(weights[e]) /\ weights[e].buf = current
         /\ held[c][e] = weights[e].ptr

\* The cache lists what is published, but for what the worker is about to
\* admit, and what a swap is about to erase.
Slots ==
  \A e \in Expert :
    e \in cache.cached <=>
      \/ Published(weights[e]) /\ ~(wpc = "admit" /\ e = req)
      \/ \E c \in Client : e \in ids[c]

\* Who has a reference to e, and who has a pin on it.
Referers(e) ==
  {c \in Client : \/ held[c][e] # Null
                  \/ arg[c] = e /\ cpc[c] \in {"fetch", "deref"}}
Pinners(e) ==
  {c \in Client : \/ held[c][e] # Null
                  \/ arg[c] = e /\ cpc[c] \in {"mark", "fetch"}}

Counts ==
  \A e \in Expert : /\ weights[e].refs = Cardinality(Referers(e))
                    /\ cache.pins[e] = Cardinality(Pinners(e))

Safe == Records /\ Requests /\ Loads /\ Locks /\ Calls /\ Slots /\ Counts

-----------------------------------------------------------------------------
(* What the invariant depends on.                                          *)

\* Record q tells what record r tells of where its expert is.
Alike(q, r) ==
  /\ Registered(q) <=> Registered(r)
  /\ Published(q) <=> Published(r)
  /\ Published(r) => q.buf = r.buf /\ q.ptr = r.ptr
  /\ q.remote = r.remote /\ q.imported = r.imported

\* ... and of how far its load has come.
Same(q, r) ==
  /\ Alike(q, r)
  /\ Reloadable(q) <=> Reloadable(r)
  /\ q.state = "Loading" <=> r.state = "Loading"

LEMMA OneRecord ==
  ASSUME Types, NEW e \in Expert, NEW q, SetRecord(e, q)
  PROVE  weights'[e] = q /\ \A x \in Expert \ {e} : weights'[x] = weights[x]
BY DEF Types, Inv, SetRecord

LEMMA RecordsKept ==
  ASSUME Records, \A e \in Expert : Alike(weights'[e], weights[e]),
         UNCHANGED <<content, initialized>>
  PROVE  Records'
BY DEF Records, Alike

LEMMA ClearKept ==
  ASSUME \A e \in Expert : Alike(weights'[e], weights[e]), NEW b, NEW d, b = d
  PROVE  (\A e \in Expert : Published(weights'[e]) => weights'[e].buf # b) <=> Clear(d)
BY DEF Alike, Clear

LEMMA CallsKept ==
  ASSUME Types, Calls, \A e \in Expert : Published(weights[e]) =>
           /\ Published(weights'[e])
           /\ weights'[e].buf = weights[e].buf /\ weights'[e].ptr = weights[e].ptr,
         UNCHANGED <<cpc, arg, snap, held, current>>
  PROVE  Calls'
BY DEF Calls, Types, ClientTypes, CallSteps

LEMMA CountsKept ==
  ASSUME Counts, \A e \in Expert : weights'[e].refs = weights[e].refs,
         cache'.pins = cache.pins, UNCHANGED <<cpc, arg, held>>
  PROVE  Counts'
BY DEF Counts, Referers, Pinners

\* During a load nobody swaps.
LEMMA NoSwapNow ==
  ASSUME Types, Locks, wpc \in LoadWindow
  PROVE  \A c \in Client : ~Swapping(c) /\ ids[c] = {}
BY DEF Types, ClientTypes, Locks, Swapping

LEMMA WorkerMoves ==
  ASSUME Disciplined, Types, Safe,
         \/ WorkerLoop \/ WorkerDequeue \/ WorkerDrained \/ WorkerInspect
         \/ WorkerAwait \/ WorkerPark \/ SpuriousWakeup \/ WorkerIndex
         \/ WorkerDest \/ WorkerRecord \/ WorkerDone
  PROVE  Safe'
<1> USE DEF WorkerAt, EndRequest, partVars, queueVars, signalVars, clientVars,
            engineVars, LoadWindow, Filling
<1>1. /\ UNCHANGED <<weights, cache, current, content, cpc, arg, snap, ids, held,
                     initialized, lock>>
      /\ wpc # "admit" /\ wpc' # "admit"
  BY DEF WorkerLoop, WorkerDequeue, WorkerDrained, WorkerInspect, WorkerAwait,
         WorkerPark, SpuriousWakeup, WorkerIndex, WorkerDest, WorkerRecord, WorkerDone
<1>2. Records' /\ Calls'
  BY <1>1 DEF Safe, Records, Calls
<1>3. Slots'
  BY <1>1 DEF Safe, Slots
<1>4. Counts'
  BY <1>1 DEF Safe, Counts, Referers, Pinners
<1>5. Requests'
  <2> USE DEF Safe, Requests, Serving
  <2>1. CASE WorkerDequeue
    <3>1. /\ queue # <<>> /\ req' = Head(queue) /\ queue' = Tail(queue)
          /\ queue \in Seq(Expert) /\ initialized
      BY <2>1 DEF WorkerDequeue, Types, WorkerTypes, Inv
    <3>2. /\ req' = queue[1] /\ 1 \in 1..Len(queue)
          /\ \A i \in 1..Len(queue') : queue'[i] = queue[i + 1] /\ i + 1 \in 1..Len(queue)
      BY <3>1
    <3> QED BY <1>1, <2>1, <3>1, <3>2 DEF WorkerDequeue
  <2>2. CASE WorkerInspect
    BY <1>1, <2>2 DEF WorkerInspect, Records, Types, WorkerTypes
  <2>3. CASE WorkerLoop \/ WorkerDrained \/ WorkerPark \/ SpuriousWakeup
    BY <1>1, <2>3 DEF WorkerLoop, WorkerDrained, WorkerPark, SpuriousWakeup
  <2>4. CASE WorkerIndex \/ WorkerDest \/ WorkerRecord \/ WorkerDone
    BY <1>1, <2>4 DEF WorkerIndex, WorkerDest, WorkerRecord, WorkerDone, Disciplined
  <2>5. CASE WorkerAwait
    BY <1>1, <2>5 DEF WorkerAwait
  <2> QED BY <2>1, <2>2, <2>3, <2>4, <2>5
<1>6. Loads'
  <2> USE DEF Safe, Loads
  <2>0. Clear(1 - current)' <=> Clear(1 - current)
    BY <1>1 DEF Clear
  <2>1. CASE WorkerLoop \/ WorkerDequeue \/ WorkerDrained \/ WorkerDone
    BY <1>1, <2>0, <2>1 DEF WorkerLoop, WorkerDequeue, WorkerDrained, WorkerDone
  <2>2. CASE WorkerInspect
    <3>1. Registered(weights[req]) /\ ~weights[req].remote /\ req \in Expert
      BY <2>2 DEF WorkerInspect, Requests, Records, Serving, Types, WorkerTypes
    <3>2. weights[req].state # "Loading"
      BY <2>2, <3>1 DEF WorkerInspect, Types, Inv, LoadOwned, Coherent
    <3>3. weights[req] \in ExpertRecord
      BY <3>1 DEF Types, Inv
    <3>4. Published(weights[req]) \/ Reloadable(weights[req])
      BY <3>1, <3>2, <3>3 DEF ExpertRecord, ResidentState, Registered, Published, Reloadable
    <3> QED BY <1>1, <2>0, <2>2, <3>1, <3>4 DEF WorkerInspect
  <2>3. CASE WorkerAwait
    BY <1>1, <2>0, <2>3 DEF WorkerAwait
  <2>4. CASE WorkerPark \/ SpuriousWakeup
    BY <1>1, <2>0, <2>4 DEF WorkerPark, SpuriousWakeup
  <2>5. CASE WorkerIndex \/ WorkerDest
    BY <1>1, <2>0, <2>5 DEF WorkerIndex, WorkerDest
  <2>6. CASE WorkerRecord
    BY <1>1, <2>0, <2>6 DEF WorkerRecord, Disciplined
  <2> QED BY <2>1, <2>2, <2>3, <2>4, <2>5, <2>6
<1>7. Locks'
  <2> USE DEF Safe, Locks, Swapping, Halting, Idle
  <2>0. /\ Clear(1 - current)' <=> Clear(1 - current)
        /\ Clear(current)' <=> Clear(current)
    BY <1>1 DEF Clear
  <2>1. \A c \in Client : Swapping(c) =>
          /\ wpc' \notin LoadWindow
          /\ available' => queue' = <<>> /\ wpc' \in {"loop", "dequeue", "exited"}
    <3>1. CASE WorkerLoop \/ WorkerDequeue \/ WorkerDrained \/ WorkerDone
      BY <3>1 DEF WorkerLoop, WorkerDequeue, WorkerDrained, WorkerDone
    <3>2. CASE WorkerInspect
      BY <3>2 DEF WorkerInspect
    <3>3. CASE WorkerAwait
      BY <3>3 DEF WorkerAwait
    <3>4. CASE WorkerPark \/ SpuriousWakeup
      BY <3>4 DEF WorkerPark, SpuriousWakeup
    <3>5. CASE WorkerIndex \/ WorkerDest \/ WorkerRecord
      BY <3>5 DEF WorkerIndex, WorkerDest, WorkerRecord
    <3> QED BY <3>1, <3>2, <3>3, <3>4, <3>5
  <2> QED BY <1>1, <2>0, <2>1
<1> QED BY <1>2, <1>3, <1>4, <1>5, <1>6, <1>7 DEF Safe

\* A step within a load leaves the swaps and the shutdowns as they are.
LEMMA LoadLocks ==
  ASSUME Types, Locks, wpc \in LoadWindow, wpc' \in LoadWindow,
         UNCHANGED <<cpc, ids, lock, held>>
  PROVE  Locks'
<1>1. \A c \in Client : ~Swapping(c) /\ ids[c] = {}
  BY NoSwapNow
<1> QED BY <1>1 DEF Locks, Swapping, Halting, Idle

LEMMA BeginKeeps ==
  ASSUME Disciplined, Types, Safe, WorkerBegin
  PROVE  Safe'
<1> USE DEF Safe, WorkerAt, queueVars, signalVars, clientVars, engineVars
<1>1. /\ wpc = "begin" /\ wpc' = "index" /\ req \in Expert /\ req' = req
      /\ Reloadable(weights[req]) /\ weights[req] \in ExpertRecord
      /\ SetRecord(req, BeginLoad(weights[req]))
      /\ UNCHANGED <<queue, available, cache, current, content, cpc, arg, snap, ids,
                     held, initialized, lock, idx, dst, victims>>
  BY DEF WorkerBegin, Loads, Types, WorkerTypes, Serving, Inv
<1> DEFINE q == BeginLoad(weights[req])
<1>2. /\ q.state = "Loading" /\ q.remote = weights[req].remote
      /\ q.imported = weights[req].imported /\ q.refs = weights[req].refs
  BY <1>1 DEF BeginLoad, ExpertRecord
<1>3. /\ weights'[req] = q
      /\ \A x \in Expert \ {req} : weights'[x] = weights[x]
  BY <1>1, OneRecord
<1> HIDE DEF q
<1>4. \A x \in Expert : Alike(weights'[x], weights[x])
  BY <1>1, <1>2, <1>3 DEF Alike, Registered, Published, Reloadable
<1>5. Records'
  BY <1>1, <1>4, RecordsKept
<1>6. Requests'
  BY <1>1, <1>4 DEF Requests, Serving, Alike, Types, WorkerTypes
<1>7. Loads'
  <2>1. Clear(1 - current)
    BY <1>1 DEF Loads
  <2>2. Clear(1 - current)'
    BY <1>1, <1>4, <2>1 DEF Clear, Alike
  <2> QED BY <1>1, <1>2, <1>3, <2>2 DEF Loads, LoadWindow, Filling
<1>8. Locks'
  BY <1>1, LoadLocks DEF LoadWindow
<1>9. Calls'
  BY <1>1, <1>4, CallsKept DEF Alike
<1>10. Slots'
  BY <1>1, <1>4 DEF Slots, Alike
<1>11. Counts'
  <2>1. \A x \in Expert : weights'[x].refs = weights[x].refs
    BY <1>2, <1>3
  <2> QED BY <1>1, <2>1, CountsKept
<1> QED BY <1>5, <1>6, <1>7, <1>8, <1>9, <1>10, <1>11

LEMMA CopyKeeps ==
  ASSUME Disciplined, Types, Safe, WorkerCopy
  PROVE  Safe'
<1> USE DEF Safe, WorkerAt, queueVars, signalVars, clientVars, engineVars
<1>1. /\ wpc = "copy" /\ wpc' = "record" /\ req \in Expert /\ req' = req
      /\ content' = [content EXCEPT ![1 - current] = req]
      /\ UNCHANGED <<queue, available, weights, cache, current, cpc, arg, snap, ids,
                     held, initialized, lock, idx, dst, victims>>
  BY DEF WorkerCopy, Disciplined, Types, WorkerTypes, Serving
<1>2. /\ content'[1 - current] = req
      /\ \A b \in Buffer : b # 1 - current => content'[b] = content[b]
  BY <1>1 DEF Types, PartTypes, Inv, Buffer
<1>3. Clear(1 - current)
  BY <1>1 DEF Loads, Filling
<1>4. Records'
  <2>1. \A x \in Expert : weights[x].buf \in Buffer
    BY DEF Types, Inv, ExpertRecord
  <2> QED BY <1>1, <1>2, <1>3, <2>1 DEF Records, Clear
<1>5. Requests' /\ Slots'
  BY <1>1 DEF Requests, Serving, Slots
<1>6. Loads'
  <2>1. Clear(1 - current)'
    BY <1>1, <1>3 DEF Clear
  <2> QED BY <1>1, <1>2, <2>1 DEF Loads, LoadWindow, Filling
<1>7. Locks'
  BY <1>1, LoadLocks DEF LoadWindow
<1>8. Calls' /\ Counts'
  BY <1>1, CallsKept, CountsKept
<1> QED BY <1>4, <1>5, <1>6, <1>7, <1>8

\* The load is published in the back buffer, which nobody else is in.
LEMMA CompleteKeeps ==
  ASSUME Disciplined, Types, Safe, WorkerComplete
  PROVE  Safe'
<1> USE DEF Safe, WorkerAt, queueVars, signalVars, clientVars, engineVars
<1>1. /\ wpc = "complete" /\ wpc' = "admit" /\ req \in Expert /\ req' = req
      /\ weights[req].state = "Loading" /\ weights[req] \in ExpertRecord
      /\ SetRecord(req, CompleteLoad(weights[req], dst, idx))
      /\ idx = 1 - current /\ dst = 1 - current /\ content[1 - current] = req
      /\ UNCHANGED <<queue, available, cache, current, content, cpc, arg, snap, ids,
                     held, initialized, lock, idx, dst, victims>>
  BY DEF WorkerComplete, Loads, Types, WorkerTypes, Serving, Inv, Filling
<1> DEFINE q == CompleteLoad(weights[req], dst, idx)
<1>2. /\ q.state = "Staged" /\ q.buf = idx /\ q.ptr = dst
      /\ q.remote = weights[req].remote
      /\ q.imported = weights[req].imported /\ q.refs = weights[req].refs
  BY <1>1 DEF CompleteLoad, ExpertRecord
<1>3. /\ weights'[req] = q
      /\ \A x \in Expert \ {req} : weights'[x] = weights[x]
  BY <1>1, OneRecord
<1> HIDE DEF q
<1>4. /\ ~Published(weights[req]) /\ Registered(weights[req])
      /\ Published(weights'[req]) /\ Registered(weights'[req])
  BY <1>1, <1>2, <1>3 DEF Published, Registered
<1>5. Records'
  BY <1>1, <1>2, <1>3, <1>4 DEF Records
<1>6. Requests'
  <2>1. \A x \in Expert : Registered(weights[x]) => Registered(weights'[x])
    BY <1>3, <1>4
  <2> QED BY <1>1, <2>1 DEF Requests, Serving, Types, WorkerTypes
<1>7. Loads'
  BY <1>1, <1>2, <1>3, <1>4 DEF Loads, LoadWindow, Filling
<1>8. Locks'
  BY <1>1, LoadLocks DEF LoadWindow
<1>9. Calls'
  BY <1>1, <1>3, <1>4, CallsKept
<1>10. Slots'
  BY <1>1, <1>3, <1>4, NoSwapNow DEF Slots, LoadWindow
<1>11. Counts'
  <2>1. \A x \in Expert : weights'[x].refs = weights[x].refs
    BY <1>2, <1>3
  <2> QED BY <1>1, <2>1, CountsKept
<1> QED BY <1>5, <1>6, <1>7, <1>8, <1>9, <1>10, <1>11

(* Two buffers of Staging bytes each hold at most the front expert and the *)
(* one to be admitted: there is always room, and no victim.                *)
LEMMA RoomForTwo ==
  ASSUME Types, Safe, wpc = "admit"
  PROVE  /\ req \in Expert /\ req \notin cache.cached
         /\ CanAdmit(cache, req) /\ Evicted(cache, req) = <<>>
         /\ Admit(cache, req).cached = cache.cached \cup {req}
         /\ Admit(cache, req).pins = [cache.pins EXCEPT ![req] = 0]
<1> USE DEF Safe
<1>1. /\ req \in Expert /\ Sound(cache) /\ current \in Buffer
      /\ \A x \in Expert : weights[x].buf \in Buffer
  BY DEF Types, WorkerTypes, PartTypes, Serving, Inv, ExpertRecord
<1>2. Published(weights[req]) /\ weights[req].buf = 1 - current
      /\ \A c \in Client : ids[c] = {}
  BY NoSwapNow DEF Loads, LoadWindow
<1>3. \A x \in Expert : x \in cache.cached <=> Published(weights[x]) /\ x # req
  BY <1>2 DEF Slots
<1>4. cache.cached \subseteq Expert /\ req \notin cache.cached
  BY <1>1, <1>3 DEF Sound, CacheRecord
<1>5. \A x \in cache.cached : x = content[current] /\ x \in Expert /\ Size[x] <= Staging
  <2> SUFFICES ASSUME NEW x \in cache.cached
               PROVE  x = content[current] /\ x \in Expert /\ Size[x] <= Staging
    OBVIOUS
  <2>1. x \in Expert /\ Published(weights[x]) /\ x # req
    BY <1>3, <1>4
  <2>2. content[weights[x].buf] = x /\ content[weights[req].buf] = req
        /\ Size[x] <= Staging
    BY <1>1, <1>2, <2>1 DEF Records, Published, Registered
  <2> QED BY <1>1, <1>2, <2>1, <2>2 DEF Buffer
<1>6. Size[req] <= Staging /\ Size[req] \in Nat /\ Staging \in Nat /\ Capacity = 2 * Staging
  BY <1>1, <1>2, CacheAssumption, EngineAssumption DEF Records, Published, Registered
<1>7. Bytes(cache.cached) \in Nat /\ Bytes(cache.cached) <= Staging
  <2>1. CASE cache.cached = {}
    BY <1>6, <2>1, BytesEmpty
  <2>2. CASE cache.cached # {}
    <3>1. cache.cached = {content[current]}
      BY <1>5, <2>2
    <3>2. content[current] \in Expert
      BY <1>4, <3>1
    <3> QED BY <1>5, <3>1, <3>2, BytesOne, CacheAssumption
  <2> QED BY <2>1, <2>2
<1>8. Fits(cache, req, {})
  <2>1. cache.used = Bytes(cache.cached)
    BY <1>1 DEF Sound
  <2> QED BY <1>6, <1>7, <2>1, BytesEmpty DEF Fits
<1>9. UnpinnedAmong(cache, 0) = {}
  BY DEF UnpinnedAmong
<1>10. 0 \in Enough(cache, req) /\ Enough(cache, req) \subseteq Nat
  <2>1. Len(cache.lru) \in Nat
    BY <1>1 DEF Sound, CacheRecord
  <2> QED BY <1>8, <1>9, <2>1 DEF Enough
<1>11. Shortest(Enough(cache, req)) = 0
  BY <1>10, ShortestIs
<1>12. Size[req] <= Capacity
  BY <1>6
<1>13. Victims(cache, req) = {} /\ CanAdmit(cache, req)
  <2>1. ~(Size[req] > Capacity)
    BY <1>6
  <2> QED BY <1>4, <1>9, <1>10, <1>11, <1>12, <2>1 DEF Victims, CanAdmit
<1>14. Evicted(cache, req) = <<>>
  <2>1. cache.lru \in Seq(Expert) /\ Elems(cache.lru) \subseteq Expert
    BY <1>1 DEF Sound, CacheRecord
  <2> DEFINE s == Without(cache.lru, Expert)
  <2>2. s \in Seq(Expert) /\ Elems(s) = {}
    BY <2>1, WithoutFacts
  <2> HIDE DEF s
  <2>3. s = <<>>
    <3>1. 1 \notin 1..Len(s) /\ Len(s) \in Nat
      BY <2>2 DEF Elems
    <3>2. Len(s) = 0
      BY <3>1
    <3> QED BY <2>2, <3>2
  <2>4. Expert \ {} = Expert
    OBVIOUS
  <2> QED BY <1>13, <2>3, <2>4 DEF Evicted, s
<1>15. /\ Admit(cache, req) = Insert(Drop(cache, {}), req)
       /\ Sound(Drop(cache, {})) /\ Drop(cache, {}).cached = cache.cached
       /\ Drop(cache, {}).pins = cache.pins
       /\ Drop(cache, {}).used + Size[req] <= Capacity
  <2>1. ~(Size[req] > Capacity)
    BY <1>6
  <2>2. Admit(cache, req) = Insert(Drop(cache, {}), req)
    BY <1>4, <1>13, <2>1 DEF Admit
  <2>3. /\ Sound(Drop(cache, {})) /\ Drop(cache, {}).cached = cache.cached \ {}
        /\ Drop(cache, {}).pins = cache.pins
        /\ Drop(cache, {}).used = cache.used - Bytes({})
    BY <1>1, DropSound
  <2> QED BY <1>8, <2>2, <2>3 DEF Fits
<1> QED BY <1>1, <1>4, <1>13, <1>14, <1>15, InsertSound

-----------------------------------------------------------------------------
LEMMA AdmitKeeps ==
  ASSUME Disciplined, Types, Safe, WorkerAdmit
  PROVE  Safe'
<1> USE DEF Safe, WorkerAt, queueVars, signalVars, clientVars, engineVars
<1>1. /\ wpc = "admit" /\ wpc' = "evict" /\ req \in Expert /\ req' = req
      /\ victims' = <<>> /\ req \notin cache.cached
      /\ cache'.cached = cache.cached \cup {req}
      /\ cache'.pins = [cache.pins EXCEPT ![req] = 0]
      /\ UNCHANGED <<queue, available, weights, content, current, cpc, arg, snap, ids,
                     held, initialized, lock, idx, dst>>
  BY RoomForTwo DEF WorkerAdmit
<1>2. Published(weights[req]) /\ weights[req].buf = 1 - current /\ current \in Buffer
      /\ \A c \in Client : ids[c] = {}
  BY <1>1, NoSwapNow DEF Loads, LoadWindow, Types, Inv
<1>3. Records' /\ Calls'
  BY <1>1 DEF Records, Calls
<1>4. Requests' /\ Loads'
  <2>1. Clear(1 - current)' <=> Clear(1 - current)
    BY <1>1 DEF Clear
  <2> QED BY <1>1, <2>1 DEF Requests, Serving, Loads, LoadWindow, Filling
<1>5. Locks'
  BY <1>1, LoadLocks DEF LoadWindow
<1>6. Slots'
  BY <1>1, <1>2 DEF Slots
<1>7. Counts'
  <2>1. Pinners(req) = {}
    BY <1>1, <1>2 DEF Pinners, Calls, Buffer, Types, ClientTypes
  <2>2. cache.pins \in [Expert -> Nat]
    BY DEF Types, PartTypes, Sound, CacheRecord
  <2>3. \A x \in Expert : cache'.pins[x] = cache.pins[x] \/ (x = req /\ cache'.pins[x] = 0)
    BY <1>1, <2>2
  <2>4. \A x \in Expert : Pinners(x)' = Pinners(x) /\ Referers(x)' = Referers(x)
    BY <1>1 DEF Pinners, Referers
  <2>5. ASSUME NEW x \in Expert
        PROVE  weights'[x].refs = Cardinality(Referers(x))' /\ cache'.pins[x] = Cardinality(Pinners(x))'
    <3>1. weights'[x].refs = Cardinality(Referers(x)) /\ cache.pins[x] = Cardinality(Pinners(x))
      BY <1>1 DEF Counts
    <3>2. Referers(x)' = Referers(x) /\ Pinners(x)' = Pinners(x)
      BY <2>4
    <3>3. cache'.pins[x] = Cardinality(Pinners(x))
      <4>1. CASE cache'.pins[x] = cache.pins[x]
        BY <3>1, <4>1
      <4>2. CASE x = req /\ cache'.pins[x] = 0
        BY <2>1, <4>2, FS_EmptySet
      <4> QED BY <2>3, <4>1, <4>2
    <3> QED BY ONLY <3>1, <3>2, <3>3
  <2> QED BY <2>5 DEF Counts
<1> QED BY <1>3, <1>4, <1>5, <1>6, <1>7

LEMMA WorkerKeeps ==
  ASSUME Disciplined, Types, Safe, WorkerProgress \/ SpuriousWakeup
  PROVE  Safe'
<1>1. ~(WorkerImport \/ WorkerPublish \/ WorkerAdmitIPC \/ WorkerFail \/ WorkerNotify)
  BY DEF Safe, Requests, WorkerImport, WorkerPublish, WorkerAdmitIPC, WorkerFail,
         WorkerNotify, WorkerAt
<1>2. ~WorkerEvict
  BY DEF Safe, Requests, WorkerEvict
<1> QED BY <1>1, <1>2, WorkerMoves, BeginKeeps, CopyKeeps, CompleteKeeps, AdmitKeeps
        DEF WorkerProgress

-----------------------------------------------------------------------------
(* Calls that get or release a pointer.                                    *)
LEMMA CountJoin ==
  ASSUME NEW S \in SUBSET Client, NEW c \in Client, c \notin S
  PROVE  Cardinality(S \cup {c}) = Cardinality(S) + 1
BY FS_AddElement, FS_Subset, EngineAssumption

LEMMA CountLeave ==
  ASSUME NEW S \in SUBSET Client, NEW c \in S
  PROVE  Cardinality(S \ {c}) = Cardinality(S) - 1 /\ Cardinality(S) # 0
<1>1. IsFiniteSet(S)
  BY FS_Subset, EngineAssumption
<1> QED BY <1>1, FS_RemoveElement, FS_EmptySet

\* A step of a call that is not a swap's, a shutdown's or the worker's.
CallMove(c) ==
  /\ \A e \in Expert : Same(weights'[e], weights[e])
  /\ cache'.cached = cache.cached
  /\ \A d \in Client \ {c} : cpc'[d] = cpc[d] /\ arg'[d] = arg[d]
                             /\ snap'[d] = snap[d] /\ held'[d] = held[d]
  /\ cpc[c] \in CallSteps \cup {"idle"} /\ cpc'[c] \in CallSteps \cup {"idle"}
  /\ \A d \in Client : ~Halting(d) /\ (ids'[d] = ids[d] \/ (ids'[d] = {} /\ d = c))
  /\ UNCHANGED <<content, current, queue, available, wpc, req, idx, dst, victims,
                 initialized, lock>>

LEMMA CallMoves ==
  ASSUME Types, Safe, NEW c \in Client, CallMove(c)
  PROVE  Records' /\ Requests' /\ Loads' /\ Locks' /\ Slots'
<1> USE DEF Safe
<1>1. \A e \in Expert : Alike(weights'[e], weights[e])
  BY DEF CallMove, Same
<1>2. Records'
  BY <1>1, RecordsKept DEF CallMove
<1>3. Requests'
  BY <1>1 DEF Requests, CallMove, Alike, Serving, Types, WorkerTypes
<1>4. /\ Clear(1 - current)' <=> Clear(1 - current)
      /\ Clear(current)' <=> Clear(current)
  BY <1>1 DEF Clear, Alike, CallMove
<1>5. Loads'
  <2>1. Serving => Same(weights'[req], weights[req])
    BY DEF CallMove, Types, WorkerTypes
  <2>2. UNCHANGED <<content, current, available, wpc, req, idx, dst>>
    BY DEF CallMove
  <2> QED BY <1>4, <2>1, <2>2 DEF Loads, Same, Alike, Serving, LoadWindow, Filling
<1>6. \A d \in Client : ids'[d] = ids[d]
  BY DEF CallMove, Locks, CallSteps, Types, ClientTypes
<1>7. Locks'
  <2>1. \A d \in Client :
          /\ Swapping(d)' <=> Swapping(d)
          /\ Halting(d)' <=> Halting(d)
          /\ cpc'[d] = "erase" <=> cpc[d] = "erase"
          /\ cpc'[d] = "notify" <=> cpc[d] = "notify"
    BY DEF CallMove, Swapping, Halting, CallSteps
  <2>2. \A d \in Client : ~Halting(d)
    BY DEF CallMove
  <2>3. UNCHANGED <<available, wpc, queue, lock>>
    BY DEF CallMove
  <2>4. \A d \in Client : \A e \in ids[d] : Published(weights'[e]) <=> Published(weights[e])
    BY <1>1 DEF Alike, Types, ClientTypes
  <2> QED BY <1>4, <1>6, <2>1, <2>2, <2>3, <2>4 DEF Locks
<1>8. Slots'
  BY <1>1, <1>6 DEF Slots, Alike, CallMove
<1> QED BY <1>2, <1>3, <1>5, <1>7, <1>8

\* A client in a call, or with a pointer, keeps shutdowns away.
LEMMA NoHalt ==
  ASSUME Types, Locks, NEW c \in Client,
         \/ cpc[c] \in CallSteps
         \/ \E e \in Expert : held[c][e] # Null
         \/ ~Stopping
  PROVE  \A d \in Client : ~Halting(d)
BY DEF Locks, Halting, Idle, CallSteps, Stopping

LEMMA SameItself == ASSUME NEW r PROVE Same(r, r)
BY DEF Same, Alike

LEMMA SameActivated ==
  ASSUME NEW r \in ExpertRecord, r.state = "Staged"
  PROVE  Same(Activate(r), r) /\ Activate(r).refs = r.refs
<1>1. /\ Activate(r).state = "Active" /\ Activate(r).buf = r.buf
      /\ Activate(r).ptr = r.ptr /\ Activate(r).remote = r.remote
      /\ Activate(r).imported = r.imported /\ Activate(r).refs = r.refs
  BY DEF Activate, ExpertRecord
<1> QED BY <1>1 DEF Same, Alike, Registered, Published, Reloadable

LEMMA SameMarked ==
  ASSUME NEW r \in ExpertRecord
  PROVE  /\ Same(MarkAccessed(r), r) /\ MarkAccessed(r).refs = r.refs + 1
         /\ Same(ReleaseRef(r), r)
         /\ r.refs # 0 => ReleaseRef(r).refs = r.refs - 1
<1>1. /\ MarkAccessed(r).state = r.state /\ MarkAccessed(r).buf = r.buf
      /\ MarkAccessed(r).ptr = r.ptr /\ MarkAccessed(r).remote = r.remote
      /\ MarkAccessed(r).imported = r.imported /\ MarkAccessed(r).refs = r.refs + 1
  BY DEF MarkAccessed, ExpertRecord
<1>2. /\ ReleaseRef(r).state = r.state /\ ReleaseRef(r).buf = r.buf
      /\ ReleaseRef(r).ptr = r.ptr /\ ReleaseRef(r).remote = r.remote
      /\ ReleaseRef(r).imported = r.imported
      /\ r.refs # 0 => ReleaseRef(r).refs = r.refs - 1
  BY DEF ReleaseRef, ExpertRecord
<1> QED BY <1>1, <1>2 DEF Same, Alike, Registered, Published, Reloadable

-----------------------------------------------------------------------------
\* What holds of a client in a call.
LEMMA InCall ==
  ASSUME Types, Safe, NEW c \in Client, cpc[c] \in CallSteps
  PROVE  /\ arg[c] \in Expert /\ weights[arg[c]] \in ExpertRecord
         /\ Coherent(weights[arg[c]]) /\ held[c][arg[c]] = Null
         /\ ~weights[arg[c]].imported
         /\ \A d \in Client : ~Halting(d)
BY NoHalt DEF Types, ClientTypes, Inv, Safe, Calls, Records

\* A step that neither pins, refers nor gives back: the counts stay.
LEMMA CountsStill ==
  ASSUME Types, Counts, NEW c \in Client,
         \A e \in Expert : weights'[e].refs = weights[e].refs,
         cache'.pins = cache.pins, held' = held,
         \A d \in Client \ {c} : cpc'[d] = cpc[d] /\ arg'[d] = arg[d],
         cpc[c] \notin {"mark", "fetch", "deref"},
         cpc'[c] \notin {"mark", "fetch", "deref"}
  PROVE  Counts'
<1>1. \A e \in Expert : Pinners(e)' = Pinners(e) /\ Referers(e)' = Referers(e)
  BY DEF Pinners, Referers
<1> QED BY <1>1 DEF Counts

\* A call about a front expert goes on.
LEMMA CallsGoOn ==
  ASSUME Types, Calls, NEW c \in Client, arg[c] \in Expert,
         \A x \in Expert : Same(weights'[x], weights[x]),
         Published(weights[arg[c]]), weights[arg[c]].buf = current,
         held[c][arg[c]] = Null, cpc'[c] \in {"pin", "fetch"},
         \A d \in Client \ {c} : cpc'[d] = cpc[d],
         UNCHANGED <<arg, snap, held, current>>
  PROVE  Calls'
<1>1. \A x \in Expert : Published(weights[x]) =>
         /\ Published(weights'[x]) /\ weights'[x].buf = weights[x].buf
         /\ weights'[x].ptr = weights[x].ptr
  BY DEF Same, Alike
<1>2. \A d \in Client : cpc[d] \in CallSteps => arg[d] \in Expert
  BY DEF Types, ClientTypes
<1>3. ASSUME NEW d \in Client
      PROVE  \A e \in Expert : held[d][e] # Null =>
               /\ Published(weights'[e]) /\ weights'[e].buf = current
               /\ held[d][e] = weights'[e].ptr
  BY <1>1 DEF Calls
<1>4. ASSUME NEW d \in Client \ {c}
      PROVE  /\ cpc[d] = "claim" =>
                  Published(weights'[arg[d]]) /\ snap[d].buf = weights'[arg[d]].buf
             /\ cpc[d] \in {"pin", "mark", "fetch", "deref"} =>
                  Published(weights'[arg[d]]) /\ weights'[arg[d]].buf = current
  BY <1>1, <1>2 DEF Calls, CallSteps
<1>5. Published(weights'[arg[c]]) /\ weights'[arg[c]].buf = current
  BY <1>1
<1>6. \A d \in Client : cpc'[d] \in CallSteps => held[d][arg[d]] = Null
  BY DEF Calls
<1> QED BY <1>3, <1>4, <1>5, <1>6 DEF Calls

LEMMA CallKeeps ==
  ASSUME Types, Safe, NEW c \in Client, NEW e \in Expert, GetCall(c, e)
  PROVE  Safe'
<1> USE DEF Safe, partVars, queueVars, workerVars, signalVars, engineVars
<1>1. /\ Idle(c) /\ ~Stopping /\ held[c][e] = Null
      /\ cpc' = [cpc EXCEPT ![c] = "resolve"] /\ arg' = [arg EXCEPT ![c] = e]
      /\ UNCHANGED <<weights, cache, content, current, queue, available, wpc, req, idx,
                     dst, victims, initialized, lock, snap, ids, held>>
  BY DEF GetCall, Goto
<1>2. /\ cpc'[c] = "resolve" /\ arg'[c] = e
      /\ \A d \in Client \ {c} : cpc'[d] = cpc[d] /\ arg'[d] = arg[d]
  BY <1>1 DEF Types, ClientTypes
<1>3. CallMove(c)
  BY <1>1, <1>2, SameItself, NoHalt DEF CallMove, CallSteps, Idle
<1>4. Calls'
  BY <1>1, <1>2 DEF Calls, CallSteps
<1>5. Counts'
  BY <1>1, <1>2, CountsStill DEF Idle
<1> QED BY <1>3, <1>4, <1>5, CallMoves

LEMMA ResolveKeeps ==
  ASSUME Types, Safe, NEW c \in Client, GetResolve(c)
  PROVE  Safe'
<1> USE DEF Safe, partVars, queueVars, workerVars, signalVars, engineVars
<1>1. /\ cpc[c] = "resolve"
      /\ UNCHANGED <<weights, cache, content, current, queue, available, wpc, req, idx,
                     dst, victims, initialized, lock, held>>
  BY DEF GetResolve
<1>2. /\ arg[c] \in Expert /\ weights[arg[c]] \in ExpertRecord
      /\ Coherent(weights[arg[c]]) /\ held[c][arg[c]] = Null
      /\ ~weights[arg[c]].imported /\ \A d \in Client : ~Halting(d)
  BY <1>1, InCall DEF CallSteps
<1>3. CASE weights[arg[c]].resident
  <2>1. /\ cpc' = [cpc EXCEPT ![c] = "claim"] /\ UNCHANGED <<arg, ids>>
        /\ snap' = [snap EXCEPT ![c] =
                      [state |-> weights[arg[c]].state, buf |-> weights[arg[c]].buf,
                       imported |-> weights[arg[c]].imported]]
    BY <1>2, <1>3 DEF GetResolve, Goto
  <2>2. /\ cpc'[c] = "claim" /\ snap'[c].buf = weights[arg[c]].buf
        /\ \A d \in Client \ {c} : cpc'[d] = cpc[d] /\ snap'[d] = snap[d]
    BY <2>1 DEF Types, ClientTypes
  <2>3. CallMove(c)
    BY <1>1, <1>2, <2>1, <2>2, SameItself DEF CallMove, CallSteps
  <2>4. Calls'
    BY <1>1, <1>2, <1>3, <2>1, <2>2 DEF Calls, CallSteps, Coherent
  <2>5. Counts'
    BY <1>1, <2>1, <2>2, CountsStill
  <2> QED BY <2>3, <2>4, <2>5, CallMoves
<1>4. CASE ~weights[arg[c]].resident
  <2>1. /\ cpc' = [cpc EXCEPT ![c] = "idle"] /\ EndCall(c)
    BY <1>4 DEF GetResolve, Goto
  <2>2. /\ cpc'[c] = "idle" /\ ids'[c] = {}
        /\ \A d \in Client \ {c} : /\ cpc'[d] = cpc[d] /\ snap'[d] = snap[d]
                                   /\ arg'[d] = arg[d] /\ ids'[d] = ids[d]
    BY <2>1 DEF Types, ClientTypes, EndCall
  <2>3. CallMove(c)
    BY <1>1, <1>2, <2>2, SameItself DEF CallMove, CallSteps
  <2>4. Calls'
    BY <1>1, <2>2 DEF Calls, CallSteps
  <2>5. Counts'
    BY <1>1, <2>2, CountsStill
  <2> QED BY <2>3, <2>4, <2>5, CallMoves
<1> QED BY <1>3, <1>4

LEMMA ClaimKeeps ==
  ASSUME Types, Safe, NEW c \in Client, GetClaim(c)
  PROVE  Safe'
<1> USE DEF Safe, partVars, queueVars, workerVars, signalVars, engineVars
<1>1. /\ cpc[c] = "claim"
      /\ UNCHANGED <<cache, content, current, queue, available, wpc, req, idx,
                     dst, victims, initialized, lock, held>>
  BY DEF GetClaim
<1>2. /\ arg[c] \in Expert /\ weights[arg[c]] \in ExpertRecord
      /\ held[c][arg[c]] = Null
      /\ Published(weights[arg[c]]) /\ snap[c].buf = weights[arg[c]].buf
      /\ \A d \in Client : ~Halting(d)
  BY <1>1, InCall DEF CallSteps, Calls
<1>3. CASE Claimable(c)
  <2> DEFINE q == IF snap[c].state = "Staged" THEN Activate(weights[arg[c]])
                  ELSE weights[arg[c]]
  <2>1. /\ cpc' = [cpc EXCEPT ![c] = "pin"] /\ UNCHANGED <<arg, snap, ids>>
        /\ SetRecord(arg[c], q) /\ snap[c].buf = current
    BY <1>3 DEF GetClaim, Goto, Claimable
  <2>2. Same(q, weights[arg[c]]) /\ q.refs = weights[arg[c]].refs
    BY <1>2, <1>3, SameActivated, SameItself DEF Claimable, CanActivate
  <2> HIDE DEF q
  <2>3. /\ \A x \in Expert : Same(weights'[x], weights[x])
        /\ \A x \in Expert : weights'[x].refs = weights[x].refs
    BY <1>2, <2>1, <2>2, OneRecord, SameItself
  <2>4. /\ cpc'[c] = "pin" /\ \A d \in Client \ {c} : cpc'[d] = cpc[d]
    BY <2>1 DEF Types, ClientTypes
  <2>5. CallMove(c)
    BY <1>1, <1>2, <2>1, <2>3, <2>4 DEF CallMove, CallSteps
  <2>6. Calls'
    BY <1>1, <1>2, <2>1, <2>3, <2>4, CallsGoOn
  <2>7. Counts'
    BY <1>1, <2>1, <2>3, <2>4, CountsStill
  <2> QED BY <2>5, <2>6, <2>7, CallMoves
<1>4. CASE ~Claimable(c)
  <2>1. /\ cpc' = [cpc EXCEPT ![c] = "idle"] /\ EndCall(c) /\ weights' = weights
    BY <1>4 DEF GetClaim, Goto
  <2>2. /\ cpc'[c] = "idle" /\ ids'[c] = {}
        /\ \A d \in Client \ {c} : /\ cpc'[d] = cpc[d] /\ snap'[d] = snap[d]
                                   /\ arg'[d] = arg[d] /\ ids'[d] = ids[d]
    BY <2>1 DEF Types, ClientTypes, EndCall
  <2>3. CallMove(c)
    BY <1>1, <1>2, <2>1, <2>2, SameItself DEF CallMove, CallSteps
  <2>4. Calls'
    BY <1>1, <2>1, <2>2 DEF Calls, CallSteps
  <2>5. Counts'
    BY <1>1, <2>1, <2>2, CountsStill
  <2> QED BY <2>3, <2>4, <2>5, CallMoves
<1> QED BY <1>3, <1>4

\* Pinning an expert counts one more pin on it.
LEMMA PinKeeps ==
  ASSUME Types, Safe, NEW c \in Client, GetPin(c)
  PROVE  Safe'
<1> USE DEF Safe, partVars, queueVars, workerVars, signalVars, engineVars
<1>1. /\ cpc[c] = "pin"
      /\ UNCHANGED <<weights, content, current, queue, available, wpc, req, idx,
                     dst, victims, initialized, lock, held>>
  BY DEF GetPin
<1>2. /\ arg[c] \in Expert /\ held[c][arg[c]] = Null
      /\ Published(weights[arg[c]]) /\ weights[arg[c]].buf = current
      /\ \A d \in Client : ~Halting(d)
  BY <1>1, InCall DEF CallSteps, Calls
<1>3. CASE CanPin(cache, arg[c])
  <2>1. /\ cpc' = [cpc EXCEPT ![c] = "mark"] /\ UNCHANGED <<arg, snap, ids>>
        /\ cache' = Pin(cache, arg[c])
    BY <1>3 DEF GetPin, Goto
  <2>2. /\ cpc'[c] = "mark" /\ \A d \in Client \ {c} : cpc'[d] = cpc[d]
    BY <2>1 DEF Types, ClientTypes
  <2>3. cache'.cached = cache.cached /\ cache'.pins = [cache.pins EXCEPT ![arg[c]] = @ + 1]
    BY <1>2, <1>3, <2>1, PinSound DEF Types, PartTypes
  <2>4. CallMove(c)
    BY <1>1, <1>2, <2>1, <2>2, <2>3, SameItself DEF CallMove, CallSteps
  <2>5. Calls'
    BY <1>1, <1>2, <2>1, <2>2 DEF Calls, CallSteps
  <2>6. Counts'
    <3>1. cache.pins \in [Expert -> Nat]
      BY DEF Types, PartTypes, Sound, CacheRecord
    <3>2. \A e \in Expert : Referers(e)' = Referers(e)
      BY <1>1, <2>1, <2>2 DEF Referers
    <3>3. \A e \in Expert \ {arg[c]} : Pinners(e)' = Pinners(e)
      BY <1>1, <2>1, <2>2 DEF Pinners
    <3>4. Pinners(arg[c])' = Pinners(arg[c]) \cup {c} /\ c \notin Pinners(arg[c])
      BY <1>1, <1>2, <2>1, <2>2 DEF Pinners
    <3>5. Cardinality(Pinners(arg[c])') = Cardinality(Pinners(arg[c])) + 1
      BY <3>4, CountJoin DEF Pinners
    <3> QED BY <1>1, <1>2, <2>1, <2>3, <3>1, <3>2, <3>3, <3>5 DEF Counts
  <2> QED BY <2>4, <2>5, <2>6, CallMoves
<1>4. CASE ~CanPin(cache, arg[c])
  <2>1. /\ cpc' = [cpc EXCEPT ![c] = "idle"] /\ EndCall(c) /\ cache' = cache
    BY <1>4 DEF GetPin, Goto
  <2>2. /\ cpc'[c] = "idle" /\ ids'[c] = {}
        /\ \A d \in Client \ {c} : /\ cpc'[d] = cpc[d] /\ snap'[d] = snap[d]
                                   /\ arg'[d] = arg[d] /\ ids'[d] = ids[d]
    BY <2>1 DEF Types, ClientTypes, EndCall
  <2>3. CallMove(c)
    BY <1>1, <1>2, <2>1, <2>2, SameItself DEF CallMove, CallSteps
  <2>4. Calls'
    BY <1>1, <2>1, <2>2 DEF Calls, CallSteps
  <2>5. Counts'
    BY <1>1, <2>1, <2>2, CountsStill
  <2> QED BY <2>3, <2>4, <2>5, CallMoves
<1> QED BY <1>3, <1>4

LEMMA MarkKeeps ==
  ASSUME Types, Safe, NEW c \in Client, GetMark(c)
  PROVE  Safe'
<1> USE DEF Safe, partVars, queueVars, workerVars, signalVars, engineVars
<1>1. /\ cpc[c] = "mark" /\ cpc' = [cpc EXCEPT ![c] = "fetch"]
      /\ SetRecord(arg[c], MarkAccessed(weights[arg[c]]))
      /\ UNCHANGED <<cache, content, current, queue, available, wpc, req, idx,
                     dst, victims, initialized, lock, held, arg, snap, ids>>
  BY DEF GetMark, ClientAt, Goto
<1>2. /\ arg[c] \in Expert /\ held[c][arg[c]] = Null /\ weights[arg[c]] \in ExpertRecord
      /\ \A d \in Client : ~Halting(d)
  BY <1>1, InCall DEF CallSteps
<1>3. cpc'[c] = "fetch" /\ \A d \in Client \ {c} : cpc'[d] = cpc[d]
  BY <1>1 DEF Types, ClientTypes
<1>4. /\ \A x \in Expert : Same(weights'[x], weights[x])
      /\ weights'[arg[c]].refs = weights[arg[c]].refs + 1
      /\ \A x \in Expert \ {arg[c]} : weights'[x].refs = weights[x].refs
  BY <1>1, <1>2, OneRecord, SameMarked, SameItself
<1>5. CallMove(c)
  BY <1>1, <1>2, <1>3, <1>4 DEF CallMove, CallSteps
<1>6. Calls'
  BY <1>1, <1>2, <1>3, <1>4, CallsGoOn DEF Calls
<1>7. Counts'
  <2>1. \A e \in Expert : Pinners(e)' = Pinners(e)
    BY <1>1, <1>3 DEF Pinners
  <2>2. \A e \in Expert \ {arg[c]} : Referers(e)' = Referers(e)
    BY <1>1, <1>3 DEF Referers
  <2>3. Referers(arg[c])' = Referers(arg[c]) \cup {c} /\ c \notin Referers(arg[c])
    BY <1>1, <1>2, <1>3 DEF Referers
  <2>4. Cardinality(Referers(arg[c])') = Cardinality(Referers(arg[c])) + 1
    BY <2>3, CountJoin DEF Referers
  <2> QED BY <1>1, <1>2, <1>4, <2>1, <2>2, <2>4 DEF Counts
<1> QED BY <1>5, <1>6, <1>7, CallMoves

\* The last look finds the pointer: no pin and no reference is left behind.
LEMMA FetchFinds ==
  ASSUME Types, Safe, NEW c \in Client, GetFetch(c)
  PROVE  /\ arg[c] \in Expert /\ Published(weights[arg[c]])
         /\ weights[arg[c]].buf = current /\ weights[arg[c]].ptr # Null
         /\ weights[arg[c]].ptr = weights[arg[c]].buf
         /\ held' = [held EXCEPT ![c][arg[c]] = weights[arg[c]].ptr]
<1>1. cpc[c] = "fetch"
  BY DEF GetFetch, ClientAt
<1>2. /\ arg[c] \in Expert /\ Coherent(weights[arg[c]])
      /\ Published(weights[arg[c]]) /\ weights[arg[c]].buf = current
      /\ weights[arg[c]].ptr = weights[arg[c]].buf
  BY <1>1, InCall DEF Safe, Calls, CallSteps, Records
<1> QED BY <1>2 DEF GetFetch, HasResidentPointer, Coherent

LEMMA FetchKeeps ==
  ASSUME Types, Safe, NEW c \in Client, GetFetch(c)
  PROVE  Safe'
<1> USE DEF Safe, partVars, queueVars, workerVars, signalVars, engineVars
<1>1. /\ cpc[c] = "fetch" /\ cpc' = [cpc EXCEPT ![c] = "idle"] /\ EndCall(c)
      /\ UNCHANGED <<weights, cache, content, current, queue, available, wpc, req, idx,
                     dst, victims, initialized, lock>>
  BY DEF GetFetch, ClientAt, Goto
<1>2. /\ arg[c] \in Expert /\ held[c][arg[c]] = Null
      /\ Published(weights[arg[c]]) /\ weights[arg[c]].buf = current
      /\ weights[arg[c]].ptr # Null
      /\ held' = [held EXCEPT ![c][arg[c]] = weights[arg[c]].ptr]
      /\ \A d \in Client : ~Halting(d)
  BY <1>1, InCall, FetchFinds DEF CallSteps
<1>3. /\ cpc'[c] = "idle" /\ ids'[c] = {} /\ arg'[c] = None
      /\ \A d \in Client \ {c} : /\ cpc'[d] = cpc[d] /\ snap'[d] = snap[d]
                                 /\ arg'[d] = arg[d] /\ ids'[d] = ids[d]
  BY <1>1 DEF Types, ClientTypes, EndCall
<1>4. /\ held'[c][arg[c]] = weights[arg[c]].ptr
      /\ \A e \in Expert \ {arg[c]} : held'[c][e] = held[c][e]
      /\ \A d \in Client \ {c} : held'[d] = held[d]
  BY <1>2 DEF Types, ClientTypes
<1>5. CallMove(c)
  BY <1>1, <1>2, <1>3, <1>4, SameItself DEF CallMove, CallSteps
<1>6. Calls'
  BY <1>1, <1>2, <1>3, <1>4 DEF Calls, CallSteps
<1>7. Counts'
  <2>1. \A e \in Expert : Pinners(e)' = Pinners(e) /\ Referers(e)' = Referers(e)
    <3> TAKE e \in Expert
    <3>1. CASE e = arg[c]
      BY <1>1, <1>2, <1>3, <1>4, <3>1 DEF Pinners, Referers
    <3>2. CASE e # arg[c]
      BY <1>1, <1>2, <1>3, <1>4, <3>2, EngineAssumption DEF Pinners, Referers
    <3> QED BY <3>1, <3>2
  <2> QED BY <1>1, <2>1 DEF Counts
<1> QED BY <1>5, <1>6, <1>7, CallMoves

-----------------------------------------------------------------------------
\* Whoever holds a pointer holds a pin, on an entry of the cache.
LEMMA HeldIsPinned ==
  ASSUME Types, Safe, NEW c \in Client, NEW e \in Expert, held[c][e] # Null
  PROVE  /\ CanUnpin(cache, e) /\ Published(weights[e]) /\ weights[e].buf = current
         /\ c \in Pinners(e) /\ c \in Referers(e)
<1>1. Published(weights[e]) /\ weights[e].buf = current
  BY DEF Safe, Calls
<1>2. ~(wpc = "admit" /\ e = req)
  BY <1>1 DEF Safe, Loads, Types, Inv, Buffer
<1>3. c \in Pinners(e) /\ c \in Referers(e)
  BY DEF Pinners, Referers
<1>4. Cardinality(Pinners(e)) # 0
  BY <1>3, CountLeave DEF Pinners
<1> QED BY <1>1, <1>2, <1>3, <1>4 DEF Safe, Slots, Counts, CanUnpin

LEMMA UnpinKeeps ==
  ASSUME Types, Safe, NEW c \in Client, NEW e \in Expert, ReleaseUnpin(c, e)
  PROVE  Safe'
<1> USE DEF Safe, partVars, queueVars, workerVars, signalVars, engineVars
<1>1. /\ cpc[c] = "idle" /\ held[c][e] # Null
      /\ held' = [held EXCEPT ![c][e] = Null]
      /\ UNCHANGED <<weights, content, current, queue, available, wpc, req, idx,
                     dst, victims, initialized, lock, snap, ids>>
  BY DEF ReleaseUnpin, Idle
<1>2. /\ CanUnpin(cache, e) /\ Published(weights[e]) /\ weights[e].buf = current
      /\ c \in Pinners(e) /\ c \in Referers(e) /\ \A d \in Client : ~Halting(d)
  BY <1>1, HeldIsPinned, NoHalt
<1>3. /\ cpc' = [cpc EXCEPT ![c] = "deref"] /\ arg' = [arg EXCEPT ![c] = e]
      /\ cache' = Unpin(cache, e)
  BY <1>2 DEF ReleaseUnpin, Goto
<1>4. /\ cpc'[c] = "deref" /\ arg'[c] = e
      /\ \A d \in Client \ {c} : cpc'[d] = cpc[d] /\ arg'[d] = arg[d]
  BY <1>3 DEF Types, ClientTypes
<1>5. /\ held'[c][e] = Null
      /\ \A x \in Expert \ {e} : held'[c][x] = held[c][x]
      /\ \A d \in Client \ {c} : held'[d] = held[d]
  BY <1>1 DEF Types, ClientTypes
<1>6. cache'.cached = cache.cached /\ cache'.pins = [cache.pins EXCEPT ![e] = @ - 1]
  BY <1>2, <1>3, UnpinSound DEF Types, PartTypes
<1>7. CallMove(c)
  BY <1>1, <1>2, <1>4, <1>5, <1>6, SameItself DEF CallMove, CallSteps
<1>8. Calls'
  BY <1>1, <1>2, <1>4, <1>5 DEF Calls, CallSteps
<1>9. Counts'
  <2>1. cache.pins \in [Expert -> Nat]
    BY DEF Types, PartTypes, Sound, CacheRecord
  <2>2. \A x \in Expert \ {e} : Pinners(x)' = Pinners(x)
    BY <1>1, <1>4, <1>5 DEF Pinners
  <2>3. \A x \in Expert \ {e} : Referers(x)' = Referers(x)
    BY <1>1, <1>4, <1>5 DEF Referers
  <2>4. Referers(e)' = Referers(e)
    BY <1>1, <1>4, <1>5 DEF Referers
  <2>5. Pinners(e)' = Pinners(e) \ {c}
    BY <1>1, <1>4, <1>5 DEF Pinners
  <2>6. Cardinality(Pinners(e)') = Cardinality(Pinners(e)) - 1
    BY <1>2, <2>5, CountLeave DEF Pinners
  <2> QED BY <1>1, <1>6, <2>1, <2>2, <2>3, <2>4, <2>6 DEF Counts
<1> QED BY <1>7, <1>8, <1>9, CallMoves

LEMMA DerefKeeps ==
  ASSUME Types, Safe, NEW c \in Client, ReleaseDeref(c)
  PROVE  Safe'
<1> USE DEF Safe, partVars, queueVars, workerVars, signalVars, engineVars
<1>1. /\ cpc[c] = "deref" /\ cpc' = [cpc EXCEPT ![c] = "idle"] /\ EndCall(c)
      /\ SetRecord(arg[c], ReleaseRef(weights[arg[c]]))
      /\ UNCHANGED <<cache, content, current, queue, available, wpc, req, idx,
                     dst, victims, initialized, lock, held>>
  BY DEF ReleaseDeref, ClientAt, Goto
<1>2. /\ arg[c] \in Expert /\ held[c][arg[c]] = Null /\ weights[arg[c]] \in ExpertRecord
      /\ \A d \in Client : ~Halting(d)
  BY <1>1, InCall DEF CallSteps
<1>3. /\ cpc'[c] = "idle" /\ ids'[c] = {} /\ arg'[c] = None
      /\ \A d \in Client \ {c} : /\ cpc'[d] = cpc[d] /\ snap'[d] = snap[d]
                                 /\ arg'[d] = arg[d] /\ ids'[d] = ids[d]
  BY <1>1 DEF Types, ClientTypes, EndCall
<1>4. c \in Referers(arg[c])
  BY <1>1 DEF Referers
<1>5. Cardinality(Referers(arg[c]) \ {c}) = Cardinality(Referers(arg[c])) - 1
      /\ Cardinality(Referers(arg[c])) # 0
  BY <1>4, CountLeave DEF Referers
<1>6. /\ \A x \in Expert : Same(weights'[x], weights[x])
      /\ weights'[arg[c]].refs = weights[arg[c]].refs - 1
      /\ \A x \in Expert \ {arg[c]} : weights'[x].refs = weights[x].refs
  BY <1>1, <1>2, <1>5, OneRecord, SameMarked, SameItself DEF Counts
<1>7. CallMove(c)
  BY <1>1, <1>2, <1>3, <1>6 DEF CallMove, CallSteps
<1>8. Calls'
  <2>1. \A x \in Expert : Published(weights[x]) =>
           /\ Published(weights'[x]) /\ weights'[x].buf = weights[x].buf
           /\ weights'[x].ptr = weights[x].ptr
    BY <1>6 DEF Same, Alike
  <2>2. \A d \in Client : cpc[d] \in CallSteps => arg[d] \in Expert
    BY DEF Types, ClientTypes
  <2>3. ASSUME NEW d \in Client
        PROVE  \A e \in Expert : held[d][e] # Null =>
                 /\ Published(weights'[e]) /\ weights'[e].buf = current
                 /\ held[d][e] = weights'[e].ptr
    BY <2>1 DEF Calls
  <2>4. ASSUME NEW d \in Client \ {c}
        PROVE  /\ cpc[d] = "claim" =>
                    Published(weights'[arg[d]]) /\ snap[d].buf = weights'[arg[d]].buf
               /\ cpc[d] \in {"pin", "mark", "fetch", "deref"} =>
                    Published(weights'[arg[d]]) /\ weights'[arg[d]].buf = current
               /\ cpc[d] \in CallSteps => held[d][arg[d]] = Null
    BY <2>1, <2>2 DEF Calls, CallSteps
  <2> QED BY <1>1, <1>3, <2>3, <2>4 DEF Calls, CallSteps
<1>9. Counts'
  <2>1. \A e \in Expert : Pinners(e)' = Pinners(e)
    <3> TAKE e \in Expert
    <3> QED BY <1>1, <1>3, EngineAssumption DEF Pinners
  <2>2. \A e \in Expert \ {arg[c]} : Referers(e)' = Referers(e)
    <3> TAKE e \in Expert \ {arg[c]}
    <3> QED BY <1>1, <1>3, EngineAssumption DEF Referers
  <2>3. ASSUME NEW x \in Expert, x = arg[c] PROVE Referers(x)' = Referers(x) \ {c}
    BY <1>1, <1>2, <1>3, <2>3, EngineAssumption DEF Referers
  <2>4. \A x \in Expert : weights'[x].refs = Cardinality(Referers(x)')
    <3> TAKE x \in Expert
    <3>1. CASE x = arg[c]
      BY <1>2, <1>5, <1>6, <2>3, <3>1 DEF Counts
    <3>2. CASE x # arg[c]
      BY <1>6, <2>2, <3>2 DEF Counts
    <3> QED BY <3>1, <3>2
  <2> QED BY <1>1, <2>1, <2>4 DEF Counts
<1> QED BY <1>7, <1>8, <1>9, CallMoves

-----------------------------------------------------------------------------
(* Swaps.                                                                  *)

\* Nobody has a pin on, or a reference to, what is not published.
LEMMA NobodyUses ==
  ASSUME Types, Safe, NEW e \in Expert, ~Published(weights[e])
  PROVE  cache.pins[e] = 0 /\ weights[e].refs = 0
<1>1. Pinners(e) = {} /\ Referers(e) = {}
  BY DEF Pinners, Referers, Safe, Calls
<1> QED BY <1>1, FS_EmptySet DEF Safe, Counts

\* A swap gets as far as evicting all that is in the front buffer, or evicts
\* nothing: there is one expert at most to evict.
LEMMA OneOccupant ==
  ASSUME Types, Safe
  PROVE  /\ Occupants = {e \in Expert : Published(weights[e]) /\ weights[e].buf = current}
         /\ Occupants \subseteq {content[current]}
BY DEF Occupants, Occupies, Safe, Records

LEMMA InvalidateAll ==
  ASSUME Disciplined, Types, Safe, NEW c \in Client, SwapInvalidate(c)
  PROVE  \/ /\ \A e \in Occupants : CanEvict(weights[e])
            /\ Retire(Occupants) /\ ids' = [ids EXCEPT ![c] = Occupants]
            /\ lock' = c /\ cpc' = [cpc EXCEPT ![c] = "erase"]
         \/ weights' = weights /\ UNCHANGED <<ids, lock, cpc>>
<1>1. ASSUME NEW free \in SUBSET Occupants, free # Occupants,
             NEW S \in SUBSET free, Retire(S)
      PROVE  weights' = weights
  <2>1. S = {}
    BY <1>1, OneOccupant
  <2> QED BY <1>1, <2>1 DEF Retire, Types, Inv
<1> QED BY <1>1 DEF SwapInvalidate, Goto

LEMMA EvictEffect ==
  ASSUME NEW r \in ExpertRecord
  PROVE  /\ Evict(r).state = "Evicted" /\ Evict(r).buf = r.buf
         /\ Evict(r).remote = r.remote /\ Evict(r).imported = r.imported
         /\ Evict(r).refs = r.refs
BY DEF Evict, ExpertRecord

LEMMA InvalidateKeeps ==
  ASSUME Disciplined, Types, Safe, NEW c \in Client, SwapInvalidate(c)
  PROVE  Safe'
<1> USE DEF Safe, partVars, queueVars, workerVars, signalVars, clientVars, engineVars
<1>1. /\ lock = None /\ initialized /\ Quiet
      /\ \A d \in Client : cpc[d] = "idle" /\ ~Swapping(d) /\ ~Halting(d) /\ ids[d] = {}
      /\ UNCHANGED <<cache, content, current, queue, available, wpc, req, idx,
                     dst, victims, initialized, arg, snap, held>>
  BY DEF SwapInvalidate, Disciplined, Quiet, Locked, Idle, Swapping, Halting, Locks
<1>2. CASE weights' = weights /\ UNCHANGED <<ids, lock, cpc>>
  <2>1. Records' /\ Requests' /\ Calls' /\ Slots'
    BY <1>1, <1>2 DEF Records, Requests, Calls, Slots, Serving
  <2>2. Clear(current)' <=> Clear(current)
    BY <1>1, <1>2 DEF Clear
  <2>3. Clear(1 - current)' <=> Clear(1 - current)
    BY <1>1, <1>2 DEF Clear
  <2>4. Loads'
    BY <1>1, <1>2, <2>3 DEF Loads, LoadWindow, Filling
  <2>5. Locks'
    BY <1>1, <1>2, <2>2, <2>3 DEF Locks, Swapping, Halting, Idle
  <2>6. Counts'
    BY <1>1, <1>2 DEF Counts, Pinners, Referers
  <2> QED BY <2>1, <2>4, <2>5, <2>6
<1>3. ASSUME \A e \in Occupants : CanEvict(weights[e]),
             Retire(Occupants), ids' = [ids EXCEPT ![c] = Occupants],
             lock' = c, cpc' = [cpc EXCEPT ![c] = "erase"]
      PROVE  Safe'
  <2>1. /\ cpc'[c] = "erase" /\ ids'[c] = Occupants
        /\ \A d \in Client \ {c} : cpc'[d] = "idle" /\ ids'[d] = {}
    BY <1>1, <1>3 DEF Types, ClientTypes
  <2>2. /\ \A e \in Occupants : /\ weights'[e].state = "Evicted"
                                /\ Published(weights[e]) /\ weights[e].buf = current
        /\ \A e \in Expert \ Occupants : weights'[e] = weights[e]
        /\ \A e \in Expert : /\ weights'[e].buf = weights[e].buf
                             /\ weights'[e].remote = weights[e].remote
                             /\ weights'[e].imported = weights[e].imported
                             /\ weights'[e].refs = weights[e].refs
    BY <1>3, OneOccupant, EvictEffect DEF Retire, Types, Inv
  <2>3. \A e \in Expert :
          /\ Registered(weights'[e]) <=> Registered(weights[e])
          /\ Published(weights'[e]) <=> Published(weights[e]) /\ weights[e].buf # current
          /\ Published(weights'[e]) => weights'[e] = weights[e]
          /\ Reloadable(weights[e]) => weights'[e] = weights[e]
    BY <2>2, OneOccupant DEF Registered, Published, Reloadable
  <2>4. Records'
    BY <1>1, <2>2, <2>3 DEF Records
  <2>5. Requests'
    BY <1>1, <2>3 DEF Requests, Serving, Types, WorkerTypes
  <2>6. Clear(1 - current) => Clear(1 - current)'
    BY <1>1, <2>3 DEF Clear
  <2>7. Clear(current)'
    BY <1>1, <2>3 DEF Clear
  <2>8. Loads'
    <3>1. wpc \notin LoadWindow
      BY <1>1 DEF Quiet
    <3> QED BY <1>1, <2>3, <2>6, <3>1 DEF Loads, LoadWindow, Filling, Types, WorkerTypes, Serving
  <2>9. Locks'
    <3>1. \A d \in Client : Swapping(d)' <=> d = c
      BY <2>1 DEF Swapping
    <3>2. \A d \in Client : ~Halting(d)'
      BY <2>1 DEF Halting
    <3>3. c # None
      BY EngineAssumption
    <3>4. \A e \in Occupants : e \in Expert /\ ~Published(weights'[e])
      BY <2>2, OneOccupant DEF Published
    <3> QED BY <1>1, <1>3, <2>1, <2>7, <3>1, <3>2, <3>3, <3>4 DEF Locks, Quiet
  <2>10. \A d \in Client, e \in Expert : held[d][e] # Null => e \notin Occupants
    <3> SUFFICES ASSUME NEW d \in Client, NEW e \in Expert, held[d][e] # Null, e \in Occupants
                 PROVE  FALSE
      OBVIOUS
    <3>1. d \in Referers(e)
      BY HeldIsPinned
    <3>2. Cardinality(Referers(e)) # 0
      BY <3>1, CountLeave DEF Referers
    <3> QED BY <1>3, <3>2 DEF CanEvict, Counts
  <2>11. Calls'
    BY <1>1, <2>1, <2>2, <2>10 DEF Calls, CallSteps
  <2>12. Slots'
    <3>1. ~(wpc = "admit")
      BY <1>1 DEF Quiet, LoadWindow
    <3> QED BY <1>1, <2>1, <2>2, <2>3, <3>1, OneOccupant DEF Slots
  <2>13. Counts'
    <3>1. \A e \in Expert : Pinners(e)' = Pinners(e) /\ Referers(e)' = Referers(e)
      BY <1>1, <2>1 DEF Pinners, Referers
    <3> QED BY <1>1, <2>2, <3>1 DEF Counts
  <2> QED BY <2>4, <2>5, <2>8, <2>9, <2>11, <2>12, <2>13
<1> QED BY <1>2, <1>3, InvalidateAll

-----------------------------------------------------------------------------
\* The engine's lock lets one thread at a time swap or shut down.
LEMMA OneHolder ==
  ASSUME Types, Locks
  PROVE  /\ \A c, d \in Client : Swapping(c) /\ (Swapping(d) \/ Halting(d)) => c = d
         /\ \A c, d \in Client : c # d /\ Swapping(c) => ids[d] = {}
         /\ lock = None => \A c \in Client : /\ ~Swapping(c) /\ ~Halting(c)
                                             /\ ids[c] = {}
BY EngineAssumption DEF Locks, Swapping, Types, ClientTypes

LEMMA EraseKeeps ==
  ASSUME Types, Safe, NEW c \in Client, SwapErase(c)
  PROVE  Safe'
<1> USE DEF Safe, partVars, queueVars, workerVars, signalVars, engineVars
<1>1. PICK e \in ids[c] :
        /\ cache' = IF CanErase(cache, e) THEN Erase(cache, e) ELSE cache
        /\ CanErase(cache, e) => /\ ids' = [ids EXCEPT ![c] = @ \ {e}]
                                 /\ UNCHANGED <<lock, cpc, arg, snap>>
  BY DEF SwapErase
<1>2. /\ cpc[c] = "erase" /\ Swapping(c) /\ e \in Expert /\ ~Published(weights[e])
      /\ UNCHANGED <<weights, content, current, queue, available, wpc, req, idx,
                     dst, victims, initialized, held>>
  BY DEF SwapErase, Swapping, Locks, Types, ClientTypes
<1>3. CanErase(cache, e)
  BY <1>2, NobodyUses DEF CanErase
<1>4. /\ UNCHANGED <<lock, cpc, arg, snap>>
      /\ ids'[c] = ids[c] \ {e} /\ \A d \in Client \ {c} : ids'[d] = ids[d]
      /\ cache'.cached = cache.cached \ {e} /\ cache'.pins = cache.pins
  BY <1>1, <1>2, <1>3, EraseSound DEF Types, ClientTypes, PartTypes
<1>5. Records' /\ Requests' /\ Calls'
  BY <1>2, <1>4 DEF Records, Requests, Calls, Serving
<1>6. /\ Clear(current)' <=> Clear(current)
      /\ Clear(1 - current)' <=> Clear(1 - current)
  BY <1>2 DEF Clear
<1>7. Loads'
  BY <1>2, <1>6 DEF Loads, LoadWindow, Filling
<1>8. Locks'
  <2>1. \A d \in Client : ids'[d] \subseteq ids[d]
    BY <1>4
  <2>2. \A d \in Client : (Swapping(d)' <=> Swapping(d)) /\ (Halting(d)' <=> Halting(d))
    BY <1>4 DEF Swapping, Halting
  <2> QED BY <1>2, <1>4, <1>6, <2>1, <2>2 DEF Locks, Idle
<1>9. Slots'
  BY <1>2, <1>4, OneHolder DEF Slots
<1>10. Counts'
  <2>1. \A x \in Expert : Pinners(x)' = Pinners(x) /\ Referers(x)' = Referers(x)
    BY <1>2, <1>4 DEF Pinners, Referers
  <2>2. cache'.pins = cache.pins /\ weights' = weights
    BY <1>2, <1>4
  <2> QED BY <2>1, <2>2 DEF Counts
<1> QED BY <1>5, <1>7, <1>8, <1>9, <1>10

\* Nobody is in the front buffer when the buffers change places.
LEMMA FlipKeeps ==
  ASSUME Types, Safe, NEW c \in Client, SwapFlip(c)
  PROVE  Safe'
<1> USE DEF Safe, partVars, queueVars, workerVars, signalVars, engineVars
<1>1. /\ cpc[c] = "erase" /\ Swapping(c) /\ ids[c] = {} /\ current' = 1 - current
      /\ cpc' = [cpc EXCEPT ![c] = "notify"]
      /\ UNCHANGED <<weights, cache, content, queue, available, wpc, req, idx,
                     dst, victims, initialized, lock, held, arg, snap, ids>>
  BY DEF SwapFlip, ClientAt, Goto, Swapping
<1>2. cpc'[c] = "notify" /\ \A d \in Client \ {c} : cpc'[d] = cpc[d]
  BY <1>1 DEF Types, ClientTypes
<1>3. Clear(current) /\ current \in Buffer /\ 1 - current' = current
  BY <1>1 DEF Locks, Types, Inv, Buffer
<1>4. Clear(1 - current)'
  BY <1>1, <1>3 DEF Clear
<1>5. Records' /\ Requests' /\ Slots'
  BY <1>1 DEF Records, Requests, Slots, Serving
<1>6. Loads'
  <2>1. wpc \notin LoadWindow
    BY <1>1 DEF Locks
  <2> QED BY <1>1, <1>4, <2>1 DEF Loads, LoadWindow, Filling
<1>7. Locks'
  <2>1. \A d \in Client : (Swapping(d)' <=> Swapping(d)) /\ (Halting(d)' <=> Halting(d))
    BY <1>1, <1>2 DEF Swapping, Halting
  <2>2. \A d \in Client : d # c => ~Swapping(d) /\ ~Halting(d) /\ ids[d] = {}
    BY <1>1, OneHolder
  <2>3. \A d \in Client : cpc'[d] # "erase" /\ ~Halting(d)
    BY <1>1, <1>2, <2>2 DEF Swapping, Halting
  <2> QED BY <1>1, <1>2, <1>4, <2>1, <2>2, <2>3 DEF Locks
<1>8. Calls'
  <2>1. \A d \in Client : cpc[d] \in CallSteps => arg[d] \in Expert
    BY DEF Types, ClientTypes
  <2>2. \A d \in Client, e \in Expert : held[d][e] = Null
    BY <1>3 DEF Calls, Clear
  <2>3. \A d \in Client : cpc[d] \notin {"pin", "mark", "fetch", "deref"}
    BY <1>3, <2>1 DEF Calls, Clear, CallSteps
  <2> QED BY <1>1, <1>2, <2>1, <2>2, <2>3 DEF Calls, CallSteps
<1>9. Counts'
  BY <1>1, <1>2, CountsStill
<1> QED BY <1>5, <1>6, <1>7, <1>8, <1>9

\* The back buffer is empty when the worker is told of it.
LEMMA NotifyKeeps ==
  ASSUME Types, Safe, NEW c \in Client, SwapNotify(c)
  PROVE  Safe'
<1> USE DEF Safe, partVars, queueVars, workerVars, signalVars, engineVars
<1>1. /\ cpc[c] = "notify" /\ Swapping(c) /\ lock' = None
      /\ cpc' = [cpc EXCEPT ![c] = "idle"]
      /\ wpc' = wpc \/ (wpc = "parked" /\ wpc' = "await")
      /\ UNCHANGED <<weights, cache, content, current, queue, req, idx,
                     dst, victims, initialized, held, arg, snap, ids>>
  BY DEF SwapNotify, ClientAt, Goto, Swapping
<1>2. cpc'[c] = "idle" /\ \A d \in Client \ {c} : cpc'[d] = cpc[d]
  BY <1>1 DEF Types, ClientTypes
<1>3. Clear(1 - current)' /\ wpc \notin LoadWindow /\ ids[c] = {}
  BY <1>1 DEF Locks, Clear
<1>4. Records' /\ Slots'
  BY <1>1, <1>3 DEF Records, Slots, LoadWindow
<1>5. Requests'
  BY <1>1 DEF Requests, Serving
<1>6. Loads'
  BY <1>1, <1>3 DEF Loads, LoadWindow, Filling
<1>7. Locks'
  <2>1. \A d \in Client : d # c => ~Swapping(d) /\ ~Halting(d) /\ ids[d] = {}
    BY <1>1, OneHolder
  <2>2. \A d \in Client : cpc'[d] \notin {"erase", "notify", "close", "wake", "join"}
                          /\ ids'[d] = {}
    BY <1>1, <1>2, <1>3, <2>1 DEF Swapping, Halting
  <2> QED BY <1>1, <2>2, EngineAssumption DEF Locks, Swapping, Halting
<1>8. Calls'
  BY <1>1, <1>2 DEF Calls, CallSteps
<1>9. Counts'
  BY <1>1, <1>2, CountsStill
<1> QED BY <1>4, <1>5, <1>6, <1>7, <1>8, <1>9

-----------------------------------------------------------------------------
(* Shutdown and initialize.                                                *)
LEMMA StopKeeps ==
  ASSUME Types, Safe, NEW c \in Client, ShutdownStop(c)
  PROVE  Safe'
<1> USE DEF Safe, partVars, queueVars, workerVars, signalVars, engineVars
<1>1. /\ lock = None /\ lock' = c /\ cpc' = [cpc EXCEPT ![c] = "close"]
      /\ \A d \in Client : cpc[d] = "idle" /\ \A e \in Expert : held[d][e] = Null
      /\ UNCHANGED <<weights, cache, content, current, queue, available, wpc, req, idx,
                     dst, victims, initialized, held, arg, snap, ids>>
  BY DEF ShutdownStop, Goto, Locked, Idle
<1>2. cpc'[c] = "close" /\ \A d \in Client \ {c} : cpc'[d] = "idle"
  BY <1>1 DEF Types, ClientTypes
<1>3. Records' /\ Requests' /\ Slots'
  BY <1>1 DEF Records, Requests, Slots, Serving
<1>4. Clear(1 - current)' <=> Clear(1 - current)
  BY <1>1 DEF Clear
<1>5. Loads'
  BY <1>1, <1>4 DEF Loads, LoadWindow, Filling
<1>6. Locks'
  <2>1. \A d \in Client : ids[d] = {}
    BY <1>1, OneHolder
  <2> QED BY <1>1, <1>2, <2>1, EngineAssumption DEF Locks, Swapping, Halting, Idle
<1>7. Calls'
  BY <1>1, <1>2 DEF Calls, CallSteps
<1>8. Counts'
  BY <1>1, <1>2, CountsStill
<1> QED BY <1>3, <1>5, <1>6, <1>7, <1>8

LEMMA HaltKeeps ==
  ASSUME Types, Safe, NEW c \in Client, ShutdownClose(c) \/ ShutdownWake(c)
  PROVE  Safe'
<1> USE DEF Safe, partVars, queueVars, workerVars, signalVars, engineVars
<1>1. /\ Halting(c) /\ cpc[c] \in {"close", "wake"}
      /\ \E p \in {"wake", "join"} : cpc' = [cpc EXCEPT ![c] = p]
      /\ wpc' = wpc \/ (wpc = "parked" /\ wpc' = "await")
      /\ UNCHANGED <<weights, cache, content, current, queue, available, req, idx,
                     dst, victims, initialized, lock, held, arg, snap, ids>>
  BY DEF ShutdownClose, ShutdownWake, ClientAt, Goto, Halting
<1>2. cpc'[c] \in {"wake", "join"} /\ \A d \in Client \ {c} : cpc'[d] = cpc[d]
  BY <1>1 DEF Types, ClientTypes
<1>3. Records'
  BY <1>1 DEF Records
<1>4. Requests' /\ Slots'
  BY <1>1 DEF Requests, Slots, Serving
<1>5. Clear(1 - current)' <=> Clear(1 - current)
  BY <1>1 DEF Clear
<1>6. Loads'
  BY <1>1, <1>5 DEF Loads, LoadWindow, Filling
<1>7. Locks'
  <2>1. \A d \in Client : d # c => Idle(d)
    BY <1>1 DEF Locks
  <2>2. \A d \in Client : ~Swapping(d) /\ ids[d] = {}
    BY <1>1, <2>1 DEF Locks, Swapping, Halting, Idle
  <2>3. \A d \in Client : ~Swapping(d)' /\ (Halting(d)' <=> Halting(d))
    BY <1>1, <1>2, <2>1 DEF Swapping, Halting, Idle
  <2>4. \A d \in Client : cpc'[d] \notin {"erase", "notify"}
    BY <2>3 DEF Swapping
  <2>5. \A d \in Client : d # c => Idle(d)'
    BY <1>2, <2>1 DEF Idle
  <2> QED BY <1>1, <2>2, <2>3, <2>4, <2>5 DEF Locks, Halting, Idle
<1>8. Calls'
  BY <1>1, <1>2 DEF Calls, CallSteps
<1>9. Counts'
  BY <1>1, <1>2, CountsStill
<1> QED BY <1>3, <1>4, <1>6, <1>7, <1>8, <1>9

LEMMA JoinKeeps ==
  ASSUME Types, Safe, NEW c \in Client, ShutdownJoin(c)
  PROVE  Safe'
<1> USE DEF Safe, partVars, queueVars, workerVars, signalVars, engineVars
<1>1. /\ Halting(c) /\ cpc[c] = "join" /\ wpc = "exited" /\ wpc' = wpc
      /\ cpc' = [cpc EXCEPT ![c] = "idle"] /\ lock' = None /\ initialized' = FALSE
      /\ weights' = [e \in Expert |-> NoRecord] /\ cache' = EmptyCache
      /\ victims' = <<>>
      /\ UNCHANGED <<queue, available, held, arg, snap, ids>>
  BY DEF ShutdownJoin, ClientAt, Goto, Halting, EndRequest
<1>2. \A d \in Client : (d # c => Idle(d)) /\ \A e \in Expert : held[d][e] = Null
  BY <1>1 DEF Locks
<1>3. \A d \in Client : cpc'[d] = "idle" /\ ids[d] = {}
  BY <1>1, <1>2 DEF Types, ClientTypes, Idle, Locks, Halting
<1>4. \A e \in Expert : /\ ~Registered(weights'[e]) /\ ~Published(weights'[e])
                        /\ ~weights'[e].remote /\ ~weights'[e].imported
                        /\ weights'[e].refs = 0
  BY <1>1 DEF NoRecord, Registered, Published
<1>5. Records' /\ Requests'
  BY <1>1, <1>4 DEF Records, Requests, Serving
<1>6. Loads'
  BY <1>1, <1>4 DEF Loads, LoadWindow, Filling, Clear
<1>7. Locks'
  BY <1>1, <1>3, EngineAssumption DEF Locks, Swapping, Halting
<1>8. Calls'
  BY <1>1, <1>2, <1>3 DEF Calls, CallSteps
<1>9. Slots'
  BY <1>1, <1>3, <1>4 DEF Slots, EmptyCache
<1>10. Counts'
  <2>1. \A e \in Expert : Pinners(e)' = {} /\ Referers(e)' = {}
    BY <1>1, <1>2, <1>3 DEF Pinners, Referers
  <2>2. \A e \in Expert : cache'.pins[e] = 0
    BY <1>1 DEF EmptyCache
  <2> QED BY <1>4, <2>1, <2>2, FS_EmptySet DEF Counts
<1> QED BY <1>5, <1>6, <1>7, <1>8, <1>9, <1>10

LEMMA StartKeeps ==
  ASSUME Types, Safe, NEW c \in Client, Initialize(c)
  PROVE  Safe'
<1> USE DEF Safe, partVars, queueVars, workerVars, signalVars, clientVars, engineVars
<1>1. /\ lock = None /\ ~initialized /\ queue = <<>> /\ initialized'
      /\ cache' = EmptyCache /\ wpc' = "loop"
      /\ UNCHANGED <<weights, content, current, queue, lock, victims, cpc, held, arg,
                     snap, ids>>
  BY DEF Initialize, Locked
<1>2. \A e \in Expert : ~Registered(weights[e]) /\ ~Published(weights[e])
  BY <1>1 DEF Records, Registered, Published
<1>3. \A d \in Client : ~Swapping(d) /\ ~Halting(d) /\ ids[d] = {}
  BY <1>1, OneHolder
<1>4. Records' /\ Calls'
  BY <1>1, <1>2 DEF Records, Calls
<1>5. Requests'
  BY <1>1 DEF Requests, Serving
<1>6. Loads'
  BY <1>1, <1>2 DEF Loads, LoadWindow, Filling, Clear
<1>7. Locks'
  BY <1>1, <1>3 DEF Locks, Swapping, Halting
<1>8. Slots'
  BY <1>1, <1>2, <1>3 DEF Slots, EmptyCache
<1>9. Counts'
  <2>1. \A e \in Expert : cache.pins[e] = 0 /\ cache'.pins[e] = 0
    BY <1>1, <1>2, NobodyUses DEF EmptyCache
  <2> QED BY <1>1, <2>1 DEF Counts, Pinners, Referers
<1> QED BY <1>4, <1>5, <1>6, <1>7, <1>8, <1>9

LEMMA RegisterKeeps ==
  ASSUME Disciplined, Types, Safe, NEW c \in Client, NEW e \in Expert, Register(c, e)
  PROVE  Safe'
<1> USE DEF Safe, partVars, queueVars, workerVars, signalVars, clientVars, engineVars
<1>1. /\ lock = None /\ initialized /\ ~Registered(weights[e])
      /\ e \in Local /\ Size[e] <= Staging /\ SetRecord(e, NewRecord(FALSE))
      /\ UNCHANGED <<cache, content, current, queue, available, wpc, req, idx, dst,
                     victims, initialized, lock, cpc, held, arg, snap, ids>>
  BY DEF Register, Locked, Disciplined
<1>2. /\ weights'[e] = NewRecord(FALSE)
      /\ \A x \in Expert \ {e} : weights'[x] = weights[x]
  BY <1>1, OneRecord
<1>3. /\ Registered(weights'[e]) /\ ~Published(weights'[e]) /\ weights'[e].refs = 0
      /\ ~weights'[e].remote /\ ~weights'[e].imported
      /\ ~Published(weights[e])
  BY <1>1, <1>2 DEF NewRecord, NoRecord, Registered, Published
<1>4. \A x \in Expert : Published(weights[x]) <=> Published(weights'[x])
  BY <1>2, <1>3
<1>5. Records'
  BY <1>1, <1>2, <1>3 DEF Records
<1>6. Requests'
  <2>1. \A x \in Expert : Registered(weights[x]) => Registered(weights'[x])
    BY <1>2, <1>3
  <2> QED BY <1>1, <2>1 DEF Requests, Serving, Types, WorkerTypes
<1>7. Clear(1 - current)' <=> Clear(1 - current)
  BY <1>1, <1>2, <1>3 DEF Clear
<1>8. Loads'
  <2>1. Serving => weights'[req] = weights[req]
    BY <1>1, <1>2 DEF Requests, Types, WorkerTypes
  <2> QED BY <1>1, <1>7, <2>1 DEF Loads, LoadWindow, Filling, Serving
<1>9. Locks'
  <2>1. \A d \in Client : ~Swapping(d) /\ ~Halting(d) /\ ids[d] = {}
    BY <1>1, OneHolder
  <2> QED BY <1>1, <2>1 DEF Locks, Swapping, Halting
<1>10. Calls'
  <2>1. \A x \in Expert : Published(weights[x]) =>
          /\ Published(weights'[x])
          /\ weights'[x].buf = weights[x].buf /\ weights'[x].ptr = weights[x].ptr
    BY <1>2, <1>3
  <2> QED BY <1>1, <2>1, CallsKept
<1>11. Slots'
  BY <1>1, <1>4 DEF Slots
<1>12. Counts'
  <2>1. \A x \in Expert : weights'[x].refs = weights[x].refs
    BY <1>2, <1>3, NobodyUses
  <2> QED BY <1>1, <2>1, CountsKept
<1> QED BY <1>5, <1>6, <1>8, <1>9, <1>10, <1>11, <1>12

LEMMA PrefetchKeeps ==
  ASSUME Disciplined, Types, Safe, NEW c \in Client, NEW e \in Expert, Prefetch(c, e)
  PROVE  Safe'
<1> USE DEF Safe, partVars, queueVars, workerVars, signalVars, clientVars, engineVars
<1>1. /\ lock = None /\ Registered(weights[e]) /\ queue' = Append(queue, e)
      /\ UNCHANGED <<weights, cache, content, current, available, wpc, req, idx, dst,
                     victims, initialized, lock, cpc, held, arg, snap, ids>>
  BY DEF Prefetch, Locked, Disciplined
<1>2. Records' /\ Calls' /\ Slots' /\ Counts'
  <2>1. Records'
    BY <1>1 DEF Records
  <2>2. Calls'
    BY <1>1 DEF Calls
  <2>3. Slots'
    BY <1>1 DEF Slots
  <2>4. \A x \in Expert : Pinners(x)' = Pinners(x) /\ Referers(x)' = Referers(x)
    BY <1>1 DEF Pinners, Referers
  <2>5. Counts'
    BY <1>1, <2>4 DEF Counts
  <2> QED BY <2>1, <2>2, <2>3, <2>5
<1>3. Requests'
  <2>1. queue \in Seq(Expert)
    BY DEF Types, WorkerTypes
  <2>2. \A i \in 1..Len(queue') : queue'[i] = e \/ (i \in 1..Len(queue) /\ queue'[i] = queue[i])
    BY <1>1, <2>1
  <2> QED BY <1>1, <2>2 DEF Requests, Serving
<1>4. Clear(1 - current)' <=> Clear(1 - current)
  BY <1>1 DEF Clear
<1>5. Loads'
  BY <1>1, <1>4 DEF Loads, LoadWindow, Filling
<1>6. Locks'
  <2>1. \A d \in Client : ~Swapping(d) /\ ~Halting(d) /\ ids[d] = {}
    BY <1>1, OneHolder
  <2> QED BY <1>1, <2>1 DEF Locks, Swapping, Halting
<1> QED BY <1>2, <1>3, <1>5, <1>6

LEMMA StutterKeeps ==
  ASSUME Safe, UNCHANGED vars
  PROVE  Safe'
<1> USE DEF Safe, vars, partVars, queueVars, workerVars, signalVars, clientVars, engineVars
<1>1. Records' /\ Requests' /\ Calls' /\ Slots' /\ Counts'
  BY DEF Records, Requests, Calls, Slots, Counts, Pinners, Referers, Serving
<1>2. /\ Clear(1 - current)' <=> Clear(1 - current)
      /\ Clear(current)' <=> Clear(current)
  BY DEF Clear
<1>3. Loads'
  BY <1>2 DEF Loads, LoadWindow, Filling
<1>4. Locks'
  BY <1>2 DEF Locks, Swapping, Halting, Idle
<1> QED BY <1>1, <1>3, <1>4

LEMMA SafeStep ==
  ASSUME Disciplined
  PROVE  Types /\ Safe /\ [Next]_vars => Safe'
<1> SUFFICES ASSUME Types, Safe, [Next]_vars PROVE Safe'
  OBVIOUS
<1>1. CASE WorkerProgress \/ SpuriousWakeup
  BY <1>1, WorkerKeeps
<1>2. ASSUME NEW c \in Client, ClientProgress(c) PROVE Safe'
  BY <1>2, ResolveKeeps, ClaimKeeps, PinKeeps, MarkKeeps, FetchKeeps, DerefKeeps,
     EraseKeeps, FlipKeeps, NotifyKeeps, HaltKeeps, JoinKeeps DEF ClientProgress
<1>3. ASSUME NEW c \in Client, ClientCall(c) PROVE Safe'
  BY <1>3, StartKeeps, StutterKeeps, InvalidateKeeps, StopKeeps, RegisterKeeps,
     PrefetchKeeps, CallKeeps, UnpinKeeps DEF ClientCall, InitializeThrows
<1>4. CASE UNCHANGED vars
  BY <1>4, StutterKeeps
<1> QED BY <1>1, <1>2, <1>3, <1>4 DEF Next

LEMMA SafeInit == Init => Safe
<1> SUFFICES ASSUME Init PROVE Safe
  OBVIOUS
<1>1. \A e \in Expert : /\ ~Registered(weights[e]) /\ ~Published(weights[e])
                        /\ ~weights[e].remote /\ ~weights[e].imported
                        /\ weights[e].refs = 0
  BY DEF Init, NoRecord, Registered, Published
<1>2. Records /\ Requests
  BY <1>1 DEF Init, Records, Requests, Serving
<1>3. Loads
  BY <1>1 DEF Init, Loads, LoadWindow, Filling, Clear
<1>4. Locks
  BY EngineAssumption DEF Init, Locks, Swapping, Halting
<1>5. Calls
  BY DEF Init, Calls, CallSteps
<1>6. Slots
  BY <1>1 DEF Init, Slots, EmptyCache
<1>7. Counts
  <2>1. \A e \in Expert : Pinners(e) = {} /\ Referers(e) = {} /\ cache.pins[e] = 0
    BY DEF Init, Pinners, Referers, EmptyCache
  <2> QED BY <1>1, <2>1, FS_EmptySet DEF Counts
<1> QED BY <1>2, <1>3, <1>4, <1>5, <1>6, <1>7 DEF Safe

LEMMA AlwaysSafe ==
  ASSUME Disciplined
  PROVE  Spec => [](Types /\ Safe)
<1>1. Init => Types /\ Safe
  BY TypesInit, SafeInit
<1>2. Types /\ Safe /\ [Next]_vars => (Types /\ Safe)'
  BY TypesStep, SafeStep
<1> QED BY <1>1, <1>2, PTL DEF Spec

-----------------------------------------------------------------------------
(* Clients that swap only between calls and loads hold pointers to their   *)
(* experts' bytes only: no handle is moved or overwritten under its        *)
(* holder, for any number of experts and clients.                          *)
THEOREM HandlesAreSound ==
  ASSUME Disciplined
  PROVE  Spec => []HandlesSound
<1>1. Types /\ Safe => HandlesSound
  <2> SUFFICES ASSUME Types, Safe, NEW c \in Client, NEW e \in Expert
               PROVE  /\ held[c][e] \in Buffer    => content[held[c][e]] = e
                      /\ held[c][e] = IpcMapping  => e \in mapped
    BY DEF HandlesSound
  <2>1. held[c][e] \in Pointer /\ weights[e].buf \in Buffer
    BY DEF Types, ClientTypes, Inv, ExpertRecord
  <2>2. held[c][e] # Null => content[held[c][e]] = e /\ held[c][e] \in Buffer
    BY <2>1 DEF Safe, Calls, Records
  <2> QED BY <2>2 DEF Buffer, IpcMapping, Null
<1> QED BY <1>1, AlwaysSafe, PTL

(* A published record of theirs points at its own expert's bytes: no load  *)
(* lands in a buffer that is still published.                              *)
THEOREM PublishedBytesAreRight ==
  ASSUME Disciplined
  PROVE  Spec => []PublishedBytes
<1>1. Types /\ Safe => PublishedBytes
  <2> SUFFICES ASSUME Types, Safe, NEW e \in Expert, weights[e].ptr \in Buffer
               PROVE  content[weights[e].ptr] = e
    BY DEF PublishedBytes
  <2>1. Published(weights[e])
    BY DEF Types, Inv, Coherent, Buffer, Null
  <2> QED BY <2>1 DEF Safe, Records
<1> QED BY <1>1, AlwaysSafe, PTL

(* And when nothing is under way the cache lists exactly the published     *)
(* experts, and its pins and the records' references both count the        *)
(* clients that hold a pointer: no call leaves a pin or a slot behind.     *)
THEOREM BooksBalance ==
  ASSUME Disciplined
  PROVE  Spec => []BooksAtRest
<1>1. Types /\ Safe => BooksAtRest
  <2> SUFFICES ASSUME Types, Safe, AtRest
               PROVE  ActiveHasSlot /\ SlotIsPublished /\ CountsAgree
    BY DEF BooksAtRest, ActiveHasSlot, SlotIsPublished, CountsAgree
  <2>1. wpc # "admit" /\ \A c \in Client : cpc[c] = "idle" /\ ids[c] = {}
    BY DEF AtRest, Idle, Safe, Locks
  <2>2. \A e \in Expert : e \in cache.cached <=> Published(weights[e])
    BY <2>1 DEF Safe, Slots
  <2>3. cache.cached \subseteq Expert
    BY DEF Types, PartTypes, Sound, CacheRecord
  <2>4. \A e \in Expert : Pinners(e) = Holders(e) /\ Referers(e) = Holders(e)
    BY <2>1 DEF Pinners, Referers, Holders
  <2> QED BY <2>2, <2>3, <2>4 DEF ActiveHasSlot, SlotIsPublished, CountsAgree,
                                  Published, Safe, Counts
<1> QED BY <1>1, AlwaysSafe, PTL

-----------------------------------------------------------------------------
(* What is staged, and who uses it, from step to step.                     *)
StillStaged ==
  \A e \in Expert :
    /\ Published(weights'[e]) <=> Published(weights[e])
    /\ Published(weights[e]) => weights'[e].buf = weights[e].buf

LEMMA StagingSteps ==
  ASSUME Disciplined, Types, Safe, [Next]_vars
  PROVE  \/ StillStaged /\ current' = current
         \/ WorkerComplete
         \/ \E c \in Client : SwapInvalidate(c) \/ SwapFlip(c) \/ ShutdownJoin(c)
<1> USE DEF partVars
<1>1. CASE weights' = weights /\ current' = current
  BY <1>1 DEF StillStaged
<1>2. CASE WorkerBegin
  <2>1. /\ req \in Expert /\ Reloadable(weights[req])
        /\ weights[req] \in ExpertRecord
        /\ SetRecord(req, BeginLoad(weights[req])) /\ current' = current
    BY <1>2 DEF WorkerBegin, WorkerAt, Safe, Loads, Types, WorkerTypes, Serving, Inv
  <2>2. BeginLoad(weights[req]).state = "Loading"
    BY <2>1 DEF BeginLoad, ExpertRecord
  <2> QED BY <2>1, <2>2, OneRecord DEF StillStaged, Published, Reloadable
<1>3. ASSUME NEW c \in Client, GetClaim(c) PROVE StillStaged /\ current' = current
  <2>1. /\ arg[c] \in Expert /\ weights[arg[c]] \in ExpertRecord /\ current' = current
        /\ \/ weights' = weights
           \/ /\ SetRecord(arg[c], Activate(weights[arg[c]]))
              /\ weights[arg[c]].state = "Staged"
           \/ SetRecord(arg[c], weights[arg[c]])
    BY <1>3, InCall DEF GetClaim, Claimable, CanActivate, CallSteps
  <2> QED BY <2>1, OneRecord, SameActivated DEF StillStaged, Same, Alike
<1>4. ASSUME NEW c \in Client, GetMark(c) \/ ReleaseDeref(c)
      PROVE  StillStaged /\ current' = current
  <2>1. /\ arg[c] \in Expert /\ weights[arg[c]] \in ExpertRecord /\ current' = current
        /\ \/ SetRecord(arg[c], MarkAccessed(weights[arg[c]]))
           \/ SetRecord(arg[c], ReleaseRef(weights[arg[c]]))
    BY <1>4, InCall DEF GetMark, ReleaseDeref, ClientAt, CallSteps
  <2> QED BY <2>1, OneRecord, SameMarked DEF StillStaged, Same, Alike
<1>5. ASSUME NEW c \in Client, NEW e \in Expert, Register(c, e)
      PROVE  StillStaged /\ current' = current
  <2>1. /\ ~Registered(weights[e]) /\ current' = current
        /\ SetRecord(e, NewRecord(FALSE)) \/ SetRecord(e, NewRecord(TRUE))
    BY <1>5 DEF Register
  <2>2. NewRecord(FALSE).state = "Unloaded" /\ NewRecord(TRUE).state = "Unloaded"
    BY DEF NewRecord, NoRecord
  <2> QED BY <2>1, <2>2, OneRecord DEF StillStaged, Published, Registered
<1>6. CASE WorkerProgress \/ SpuriousWakeup
  <2>1. ~(WorkerPublish \/ WorkerFail \/ WorkerEvict)
    BY DEF Safe, Requests, WorkerPublish, WorkerFail, WorkerEvict, WorkerAt
  <2>2. WorkerBegin \/ WorkerComplete \/ (weights' = weights /\ current' = current)
    BY <1>6, <2>1 DEF WorkerProgress, SpuriousWakeup, WorkerLoop, WorkerDequeue,
       WorkerDrained, WorkerInspect, WorkerImport, WorkerAdmitIPC, WorkerAwait,
       WorkerPark, WorkerIndex, WorkerDest, WorkerCopy, WorkerRecord, WorkerAdmit,
       WorkerDone, WorkerNotify
  <2> QED BY <1>1, <1>2, <2>2
<1>7. ASSUME NEW c \in Client, ClientProgress(c)
      PROVE  \/ StillStaged /\ current' = current
             \/ SwapFlip(c) \/ ShutdownJoin(c)
  <2>1. \/ GetClaim(c) \/ GetMark(c) \/ ReleaseDeref(c) \/ SwapFlip(c)
        \/ ShutdownJoin(c) \/ (weights' = weights /\ current' = current)
    BY <1>7 DEF ClientProgress, GetResolve, GetPin, GetFetch, SwapErase, SwapNotify,
       ShutdownClose, ShutdownWake
  <2>2. CASE GetClaim(c) \/ GetMark(c) \/ ReleaseDeref(c)
    BY <1>3, <1>4, <2>2
  <2>3. CASE weights' = weights /\ current' = current
    BY <2>3 DEF StillStaged
  <2> QED BY <2>1, <2>2, <2>3
<1>8. ASSUME NEW c \in Client, ClientCall(c)
      PROVE  (StillStaged /\ current' = current) \/ SwapInvalidate(c)
  <2>1. \/ SwapInvalidate(c) \/ (\E e \in Expert : Register(c, e))
        \/ (weights' = weights /\ current' = current)
    BY <1>8 DEF ClientCall, Initialize, InitializeThrows, ShutdownStop, Prefetch,
       GetCall, ReleaseUnpin, vars
  <2>2. CASE \E e \in Expert : Register(c, e)
    BY <1>5, <2>2
  <2>3. CASE weights' = weights /\ current' = current
    BY <2>3 DEF StillStaged
  <2> QED BY <2>1, <2>2, <2>3
<1>9. CASE UNCHANGED vars
  BY <1>1, <1>9 DEF vars
<1> QED BY <1>6, <1>7, <1>8, <1>9 DEF Next

LEMMA HoldSteps ==
  ASSUME [Next]_vars
  PROVE  \/ held' = held
         \/ \E c \in Client : GetFetch(c) \/ \E e \in Expert : ReleaseUnpin(c, e)
<1> USE DEF clientVars, vars
<1>1. CASE WorkerProgress \/ SpuriousWakeup
  BY <1>1, WorkerLeavesClients
<1>2. ASSUME NEW c \in Client, ClientProgress(c) PROVE held' = held \/ GetFetch(c)
  BY <1>2 DEF ClientProgress, GetResolve, GetClaim, GetPin, GetMark, ReleaseDeref,
     SwapErase, SwapFlip, SwapNotify, ShutdownClose, ShutdownWake, ShutdownJoin
<1>3. ASSUME NEW c \in Client, ClientCall(c)
      PROVE  held' = held \/ \E e \in Expert : ReleaseUnpin(c, e)
  BY <1>3 DEF ClientCall, Initialize, InitializeThrows, SwapInvalidate,
     ShutdownStop, Register, Prefetch, GetCall
<1> QED BY <1>1, <1>2, <1>3 DEF Next

\* Nobody uses what a swap evicts.
LEMMA RetiredUnused ==
  ASSUME Disciplined, Types, Safe, NEW c \in Client, SwapInvalidate(c),
         \A e \in Occupants : CanEvict(weights[e])
  PROVE  /\ \A e \in Occupants : cache.pins[e] = 0
         /\ \A d \in Client, e \in Expert : held[d][e] = Null
<1>1. \A d \in Client : cpc[d] = "idle"
  BY DEF SwapInvalidate, Disciplined, Quiet, Idle
<1>2. \A e \in Expert : Pinners(e) = Referers(e)
  BY <1>1 DEF Pinners, Referers
<1>3. \A e \in Occupants : e \in Expert /\ weights[e].refs = 0
  BY DEF CanEvict, Occupants
<1>4. \A e \in Occupants : cache.pins[e] = 0
  BY <1>2, <1>3 DEF Safe, Counts
<1>5. ASSUME NEW d \in Client, NEW e \in Expert, held[d][e] # Null PROVE FALSE
  <2>1. e \in Occupants /\ d \in Referers(e)
    BY <1>5, HeldIsPinned, OneOccupant
  <2>2. Cardinality(Referers(e)) # 0
    BY <2>1, CountLeave DEF Referers
  <2> QED BY <1>3, <2>1, <2>2 DEF Safe, Counts
<1> QED BY <1>4, <1>5

(* "Pinned experts are never evicted": until the engine is shut down, no   *)
(* step of any thread takes a pinned expert's record away.                 *)
THEOREM PinnedSurvive ==
  ASSUME Disciplined
  PROVE  Spec => PinnedNotEvicted
<1> DEFINE A == initialized' => \A e \in Expert :
                  cache.pins[e] > 0 /\ Published(weights[e]) => Published(weights'[e])
<1>1. ASSUME Types, Safe, [Next]_vars PROVE A
  <2>1. CASE StillStaged
    BY <2>1 DEF StillStaged
  <2>2. CASE WorkerComplete
    <3>1. /\ req \in Expert /\ weights[req].state = "Loading"
          /\ SetRecord(req, CompleteLoad(weights[req], dst, idx))
      BY <1>1, <2>2 DEF WorkerComplete, WorkerAt, Safe, Loads, Types, WorkerTypes,
         Serving, Filling
    <3> QED BY <1>1, <3>1, OneRecord DEF Published
  <2>3. ASSUME NEW c \in Client, SwapFlip(c) PROVE A
    BY <2>3 DEF SwapFlip
  <2>4. ASSUME NEW c \in Client, ShutdownJoin(c) PROVE A
    BY <2>4 DEF ShutdownJoin
  <2>5. ASSUME NEW c \in Client, SwapInvalidate(c) PROVE A
    <3>1. CASE weights' = weights
      BY <3>1
    <3>2. ASSUME \A e \in Occupants : CanEvict(weights[e]), Retire(Occupants) PROVE A
      <4>1. \A e \in Occupants : ~(cache.pins[e] > 0)
        BY <2>5, <3>2, <1>1, RetiredUnused
      <4>2. \A e \in Expert \ Occupants : weights'[e] = weights[e]
        BY <3>2 DEF Retire
      <4> QED BY <4>1, <4>2
    <3> QED BY <1>1, <2>5, <3>1, <3>2, InvalidateAll
  <2> QED BY <1>1, <2>1, <2>2, <2>3, <2>4, <2>5, StagingSteps
<1>2. Types /\ Safe /\ [Next]_vars => [A]_vars
  BY <1>1
<1>3. [][A]_vars => PinnedNotEvicted
  BY PTL DEF PinnedNotEvicted
<1> QED BY <1>2, <1>3, AlwaysSafe, PTL DEF Spec

-----------------------------------------------------------------------------
(* The double buffer.                                                      *)

\* StagedIn, of any records and contents.
StagedOf(w, k, b) ==
  LET S == {e \in Expert : Occupies(w[e], b)}
  IN  IF S = {} THEN None
      ELSE IF S = {k[b]} THEN k[b] ELSE "corrupt"

\* The records are those of staged experts.
Sited(w, k) ==
  \A e \in Expert : /\ ~w[e].imported
                    /\ Published(w[e]) => k[w[e].buf] = e

LEMMA StagedOfIs ==
  ASSUME NEW w, NEW k, NEW b, Sited(w, k)
  PROVE  /\ (\A e \in Expert : Published(w[e]) => w[e].buf # b)
              => StagedOf(w, k, b) = None
         /\ \A e \in Expert : Published(w[e]) /\ w[e].buf = b
              => StagedOf(w, k, b) = e
<1> DEFINE S == {e \in Expert : Occupies(w[e], b)}
<1>1. S = {e \in Expert : Published(w[e]) /\ w[e].buf = b}
  BY DEF Sited, Occupies
<1>2. \A e \in S : S = {e} /\ k[b] = e
  BY <1>1 DEF Sited
<1>3. StagedOf(w, k, b) = IF S = {} THEN None
                          ELSE IF S = {k[b]} THEN k[b] ELSE "corrupt"
  BY DEF StagedOf
<1> HIDE DEF S
<1>4. S = {} => StagedOf(w, k, b) = None
  BY <1>3
<1>5. \A e \in S : StagedOf(w, k, b) = e
  BY <1>2, <1>3
<1> QED BY <1>1, <1>4, <1>5

\* A buffer that keeps its published records shows the same expert.
LEMMA StagedOfKept ==
  ASSUME NEW w, NEW k, NEW v, NEW l, NEW b, Sited(w, k), Sited(v, l),
         \A e \in Expert : Published(v[e]) /\ v[e].buf = b
                             <=> Published(w[e]) /\ w[e].buf = b
  PROVE  StagedOf(v, l, b) = StagedOf(w, k, b)
<1>1. CASE \A e \in Expert : Published(w[e]) => w[e].buf # b
  <2>1. \A e \in Expert : Published(v[e]) => v[e].buf # b
    BY <1>1
  <2> QED BY <1>1, <2>1, StagedOfIs
<1>2. ASSUME NEW e \in Expert, Published(w[e]), w[e].buf = b
      PROVE  StagedOf(v, l, b) = StagedOf(w, k, b)
  BY <1>2, StagedOfIs
<1> QED BY <1>1, <1>2

Using(h) == {use \in Client \X Local : h[use[1]][use[2]] # Null}

LEMMA Mapping ==
  /\ StagedIn(current) = StagedOf(weights, content, current)
  /\ StagedIn(1 - current) = StagedOf(weights, content, 1 - current)
  /\ StagedIn(current)' = StagedOf(weights', content', current')
  /\ StagedIn(1 - current)' = StagedOf(weights', content', 1 - current')
BY DEF StagedIn, StagedOf

LEMMA SafeSited == Safe => Sited(weights, content)
BY DEF Safe, Records, Sited

LEMMA SafeSitedNext == Safe' => Sited(weights', content')
BY DEF Safe, Records, Sited

\* One step of the engine, seen as one of the double buffer.
Buffered(f, b, f1, b1, h, h1) ==
  \/ f1 = f /\ b1 = b /\ Using(h1) = Using(h)
  \/ \E e \in Local : b = None /\ e # f /\ b1 = e /\ f1 = f /\ Using(h1) = Using(h)
  \/ Using(h) = {} /\ f1 = None /\ b1 = b /\ Using(h1) = Using(h)
  \/ f = None /\ f1 = b /\ b1 = None /\ Using(h1) = Using(h)
  \/ Using(h) = {} /\ f1 = None /\ b1 = None /\ Using(h1) = Using(h)
  \/ \E c \in Client : /\ f # None /\ Using(h1) = Using(h) \cup {<<c, f>>}
                       /\ f1 = f /\ b1 = b
  \/ \E c \in Client, e \in Local : /\ <<c, e>> \in Using(h)
                                    /\ Using(h1) = Using(h) \ {<<c, e>>}
                                    /\ f1 = f /\ b1 = b

LEMMA BufferedStep ==
  ASSUME Buffered(StagedIn(current), StagedIn(1 - current), StagedIn(current)',
                  StagedIn(1 - current)', held, held')
  PROVE  [Buffers!Next]_(Buffers!vars)
BY DEF Buffered, Using, Buffers!Next, Buffers!vars, Buffers!Stage, Buffers!Retire,
       Buffers!Flip, Buffers!Reset, Buffers!Acquire, Buffers!Release

LEMMA BuffersStep ==
  ASSUME Disciplined, Types, Safe, Safe', [Next]_vars
  PROVE  Buffered(StagedIn(current), StagedIn(1 - current), StagedIn(current)',
                  StagedIn(1 - current)', held, held')
<1> DEFINE f  == StagedOf(weights, content, current)
           b  == StagedOf(weights, content, 1 - current)
           f1 == StagedOf(weights', content', current')
           b1 == StagedOf(weights', content', 1 - current')
<1> SUFFICES Buffered(f, b, f1, b1, held, held')
  BY Mapping
<1>1. /\ Sited(weights, content) /\ Sited(weights', content')
      /\ current \in Buffer /\ 1 - (1 - current) = current /\ current # 1 - current
  BY SafeSited, SafeSitedNext DEF Types, Inv, Buffer
<1>2. CASE StillStaged /\ current' = current
  <2>1. f1 = f /\ b1 = b
    BY <1>1, <1>2, StagedOfKept DEF StillStaged
  <2> HIDE DEF f, b, f1, b1
  <2>2. CASE held' = held
    BY <2>1, <2>2 DEF Buffered
  <2>3. ASSUME NEW c \in Client, GetFetch(c) PROVE Buffered(f, b, f1, b1, held, held')
    <3>1. /\ arg[c] \in Expert /\ Published(weights[arg[c]])
          /\ weights[arg[c]].buf = current /\ weights[arg[c]].ptr # Null
          /\ held' = [held EXCEPT ![c][arg[c]] = weights[arg[c]].ptr]
      BY <2>3, FetchFinds
    <3>2. f = arg[c] /\ arg[c] \in Local /\ f # None
      BY <1>1, <3>1, StagedOfIs, EngineAssumption DEF f, Safe, Records, Published, Registered
    <3>3. \A d \in Client, e \in Local :
            held'[d][e] # Null <=> held[d][e] # Null \/ (d = c /\ e = arg[c])
      BY <3>1, EngineAssumption DEF Types, ClientTypes
    <3>4. Using(held') = Using(held) \cup {<<c, f>>}
      BY <3>2, <3>3 DEF Using
    <3> QED BY <2>1, <3>2, <3>4 DEF Buffered
  <2>4. ASSUME NEW c \in Client, NEW e \in Expert, ReleaseUnpin(c, e)
        PROVE  Buffered(f, b, f1, b1, held, held')
    <3>1. held[c][e] # Null /\ held' = [held EXCEPT ![c][e] = Null]
      BY <2>4 DEF ReleaseUnpin
    <3>2. e \in Local
      BY <3>1, HeldIsPinned DEF Safe, Records, Published, Registered
    <3>3. \A d \in Client, x \in Local :
            held'[d][x] # Null <=> held[d][x] # Null /\ ~(d = c /\ x = e)
      BY <3>1, EngineAssumption DEF Types, ClientTypes
    <3>4. <<c, e>> \in Using(held) /\ Using(held') = Using(held) \ {<<c, e>>}
      BY <3>1, <3>2, <3>3 DEF Using
    <3> QED BY <2>1, <3>2, <3>4 DEF Buffered
  <2> QED BY <2>2, <2>3, <2>4, HoldSteps
<1>3. CASE WorkerComplete
  <2>1. /\ wpc = "complete" /\ req \in Expert /\ weights[req].state = "Loading"
        /\ SetRecord(req, CompleteLoad(weights[req], dst, idx))
        /\ weights[req] \in ExpertRecord /\ idx = 1 - current
        /\ current' = current /\ held' = held
    BY <1>3 DEF WorkerComplete, WorkerAt, Safe, Loads, Types, WorkerTypes, Serving,
       Filling, Inv, clientVars
  <2>2. CompleteLoad(weights[req], dst, idx).state = "Staged"
        /\ CompleteLoad(weights[req], dst, idx).buf = idx
    BY <2>1 DEF CompleteLoad, ExpertRecord
  <2>3. /\ Published(weights'[req]) /\ weights'[req].buf = 1 - current
        /\ ~Published(weights[req]) /\ Registered(weights[req])
        /\ \A x \in Expert \ {req} : weights'[x] = weights[x]
    BY <2>1, <2>2, OneRecord DEF Published, Registered
  <2>4. b1 = req /\ req \in Local
    BY <1>1, <2>1, <2>3, StagedOfIs DEF Safe, Records
  <2>5. b = None
    <3>1. Clear(1 - current)
      BY <2>1 DEF Safe, Loads, Filling
    <3> QED BY <1>1, <3>1, StagedOfIs DEF Clear
  <2>6. f1 = f
    BY <1>1, <2>1, <2>3, StagedOfKept
  <2>7. req # f
    <3>1. CASE Clear(current)
      BY <1>1, <2>1, <3>1, StagedOfIs, EngineAssumption DEF Clear
    <3>2. ASSUME NEW e \in Expert, Published(weights[e]), weights[e].buf = current
          PROVE  req # f
      BY <1>1, <2>3, <3>2, StagedOfIs
    <3> QED BY <3>1, <3>2 DEF Clear
  <2> HIDE DEF f, b, f1, b1
  <2> QED BY <2>1, <2>4, <2>5, <2>6, <2>7 DEF Buffered
<1>4. ASSUME NEW c \in Client, SwapInvalidate(c)
      PROVE  Buffered(f, b, f1, b1, held, held')
  <2>1. current' = current /\ content' = content /\ held' = held
    BY <1>4 DEF SwapInvalidate
  <2>2. CASE weights' = weights
    BY <2>1, <2>2 DEF Buffered
  <2>3. ASSUME \A e \in Occupants : CanEvict(weights[e]), Retire(Occupants)
        PROVE  Buffered(f, b, f1, b1, held, held')
    <3>1. /\ \A e \in Occupants : weights'[e].state = "Evicted"
          /\ \A e \in Expert \ Occupants : weights'[e] = weights[e]
      BY <2>3, EvictEffect DEF Retire, Types, Inv, Occupants
    <3>2. \A e \in Expert :
            Published(weights'[e]) <=> Published(weights[e]) /\ weights[e].buf # current
      BY <3>1, OneOccupant DEF Published
    <3>3. \A e \in Expert : Published(weights'[e]) => weights'[e] = weights[e]
      BY <3>1 DEF Published
    <3>4. f1 = None
      BY <1>1, <2>1, <3>2, <3>3, StagedOfIs
    <3>5. b1 = b
      BY <1>1, <2>1, <3>2, <3>3, StagedOfKept
    <3>6. Using(held) = {}
      BY <1>4, <2>3, RetiredUnused, EngineAssumption DEF Using
    <3> HIDE DEF f, b, f1, b1
    <3> QED BY <2>1, <3>4, <3>5, <3>6 DEF Buffered
  <2> QED BY <1>4, <2>2, <2>3, InvalidateAll
<1>5. ASSUME NEW c \in Client, SwapFlip(c)
      PROVE  Buffered(f, b, f1, b1, held, held')
  <2>1. /\ cpc[c] = "erase" /\ current' = 1 - current
        /\ UNCHANGED <<weights, content, held>>
    BY <1>5 DEF SwapFlip, ClientAt
  <2>2. f = None
    BY <1>1, <2>1, StagedOfIs DEF Safe, Locks, Clear
  <2>3. f1 = b /\ b1 = f
    BY <1>1, <2>1
  <2> HIDE DEF f, b, f1, b1
  <2> QED BY <2>1, <2>2, <2>3 DEF Buffered
<1>6. ASSUME NEW c \in Client, ShutdownJoin(c)
      PROVE  Buffered(f, b, f1, b1, held, held')
  <2>1. /\ Halting(c) /\ weights' = [e \in Expert |-> NoRecord] /\ held' = held
    BY <1>6 DEF ShutdownJoin, ClientAt, Halting
  <2>2. f1 = None /\ b1 = None
    BY <1>1, <2>1, StagedOfIs DEF NoRecord, Published
  <2>3. Using(held) = {}
    BY <2>1, EngineAssumption DEF Using, Safe, Locks
  <2> HIDE DEF f, b, f1, b1
  <2> QED BY <2>1, <2>2, <2>3 DEF Buffered
<1> QED BY <1>2, <1>3, <1>4, <1>5, <1>6, StagingSteps

(* Under the same discipline the engine implements the double buffer: what *)
(* loads, swaps, gets, releases and shutdowns do, step by step and from    *)
(* any thread, is what DoubleBuffer lets one slot and its users do.        *)
THEOREM EngineDoubleBuffers ==
  ASSUME Disciplined
  PROVE  Spec => ImplementsDoubleBuffer
<1>1. Init => Buffers!Init
  <2> SUFFICES ASSUME Init PROVE Buffers!Init
    OBVIOUS
  <2>1. Sited(weights, content) /\ \A e \in Expert : ~Published(weights[e])
    BY SafeInit, SafeSited DEF Init, NoRecord, Published
  <2>2. StagedIn(current) = None /\ StagedIn(1 - current) = None
    BY <2>1, StagedOfIs, Mapping
  <2>3. Using(held) = {}
    BY EngineAssumption DEF Init, Using
  <2> QED BY <2>2, <2>3 DEF Buffers!Init, Using
<1>2. Types /\ Safe /\ (Types /\ Safe)' /\ [Next]_vars => [Buffers!Next]_(Buffers!vars)
  BY BuffersStep, BufferedStep
<1> QED BY <1>1, <1>2, AlwaysSafe, PTL DEF Spec, ImplementsDoubleBuffer, Buffers!Spec
=============================================================================
