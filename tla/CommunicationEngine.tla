------------------------ MODULE CommunicationEngine ------------------------
(***************************************************************************)
(* CommunicationEngine of DWDP/communication composed with the parts it    *)
(* coordinates: the expert records, the residency cache, the prefetch      *)
(* queue, the two staging buffers, the imported IPC mappings and the       *)
(* prefetch worker thread.                                                 *)
(*                                                                         *)
(* A part locks its own mutex per call and the engine's mutex covers only  *)
(* some public operations, so an operation is a sequence of steps, one for *)
(* each call it makes into a part.  cpc and wpc say which step a client    *)
(* thread and the worker take next.  pybind11 keeps the GIL across a call, *)
(* so Python is one client; a C++ program may have several.                *)
(*                                                                         *)
(* The copy stream runs copies in issue order and every reader waits on    *)
(* the completion event, so a copy takes effect here where it is issued.   *)
(***************************************************************************)
EXTENDS WeightManager, CacheOps

CONSTANTS
  Local,        (* experts registered with registerExpert                 *)
  Remote,       (* experts registered with registerIPCExpert              *)
  Client,       (* threads calling the engine                             *)
  None,         (* no expert, no client                                   *)
  Staging,      (* staging_bytes: the size of one staging buffer          *)
  CudaFaults,   (* which kinds of CUDA call may fail                      *)
  Careful,      (* clients prefetch only what is registered, and swap only
                   when no load or other call can be under way            *)
  MaxQueue,     (* bound on the length of the prefetch queue              *)
  MaxPins       (* bound on the pins an expert collects                   *)

ASSUME EngineAssumption ==
  /\ Local \subseteq Expert /\ Remote \subseteq Expert
  /\ Local \cap Remote = {}
  /\ IsFiniteSet(Client) /\ None \notin Expert \cup Client
  /\ Staging \in Nat \ {0} /\ Capacity = 2 * Staging
  /\ CudaFaults \subseteq {"import", "copy", "record"}
  /\ Careful \in BOOLEAN
  /\ MaxQueue \in Nat /\ MaxPins \in Nat

VARIABLES
  initialized,  (* initialized_                                           *)
  lock,         (* the client that holds the engine mutex across steps    *)
  weights,      (* WeightManager: one record per expert                   *)
  cache,        (* CacheManager                                           *)
  current,      (* DoubleBufferedStaging::current_index_                  *)
  content,      (* whose bytes each staging buffer holds                  *)
  mapped,       (* IPCManager: the experts with an open mapping           *)
  queue,        (* PrefetchQueue: requests not yet taken                  *)
  closed,       (* PrefetchQueue::closed_                                 *)
  running,      (* PrefetchWorker::running_                               *)
  available,    (* PrefetchWorker::buffer_available_                      *)
  wpc, req,     (* the worker's next step and the request it serves       *)
  idx, dst,     (* its locals: index to record, buffer it points to       *)
  victims,      (* its local: what admit told it to evict                 *)
  cpc, arg,     (* each client's next step and the expert it is about     *)
  snap,         (* each client's local copy of a record                   *)
  ids,          (* each client's local: ids invalidated by its swap       *)
  held          (* held[c][e]: the pointer c got for e and not released   *)

partVars   == <<weights, cache, current, content, mapped>>
queueVars  == <<queue, closed>>
workerVars == <<wpc, req, idx, dst, victims>>
signalVars == <<running, available>>
clientVars == <<cpc, arg, snap, ids, held>>
engineVars == <<initialized, lock>>
vars == <<partVars, queueVars, workerVars, signalVars, clientVars, engineVars>>

WorkerStep ==
  { "loop", "dequeue", "inspect", "import", "publish", "admitIPC", "await",
    "parking", "parked", "begin", "index", "dest", "copy", "record",
    "complete", "admit", "evict", "fail", "notify", "exited" }

ClientStep ==
  { "idle", "resolve", "claim", "pin", "mark", "fetch", "deref",
    "erase", "notify", "close", "wake", "join" }

NoSnap == [state |-> "Absent", buf |-> 0, imported |-> FALSE]

Init ==
  /\ initialized = FALSE /\ lock = None
  /\ weights = [e \in Expert |-> NoRecord]
  /\ cache = EmptyCache
  /\ current = 0 /\ content = [b \in Buffer |-> None]
  /\ mapped = {}
  /\ queue = <<>> /\ closed = FALSE
  /\ running = FALSE /\ available = TRUE
  /\ wpc = "exited" /\ req = None /\ idx = 0 /\ dst = 0 /\ victims = <<>>
  /\ cpc = [c \in Client |-> "idle"]
  /\ arg = [c \in Client |-> None]
  /\ snap = [c \in Client |-> NoSnap]
  /\ ids = [c \in Client |-> {}]
  /\ held = [c \in Client |-> [e \in Expert |-> Null]]

-----------------------------------------------------------------------------
(* The prefetch worker: PrefetchWorker::run.                               *)

WorkerAt(here, there) == wpc = here /\ wpc' = there

SetRecord(e, r) == weights' = [weights EXCEPT ![e] = r]

\* The end of an iteration: the locals go out of scope.
EndRequest == req' = None /\ idx' = 0 /\ dst' = 0 /\ victims' = <<>>

WorkerLoop ==
  /\ WorkerAt("loop", IF running THEN "dequeue" ELSE "exited")
  /\ UNCHANGED <<partVars, queueVars, signalVars, clientVars, engineVars,
                 req, idx, dst, victims>>

\* waitDequeue hands out what is left even after the queue is closed.
WorkerDequeue ==
  /\ queue # <<>>
  /\ WorkerAt("dequeue", "inspect")
  /\ req' = Head(queue) /\ queue' = Tail(queue)
  /\ UNCHANGED <<partVars, closed, signalVars, clientVars, engineVars,
                 idx, dst, victims>>

WorkerDrained ==
  /\ queue = <<>> /\ closed
  /\ WorkerAt("dequeue", "exited")
  /\ UNCHANGED <<partVars, queueVars, signalVars, clientVars, engineVars,
                 req, idx, dst, victims>>

\* getRecord throws for an unknown id; a published expert needs no work.
WorkerInspect ==
  LET r == weights[req] IN
  /\ WorkerAt("inspect", IF ~Registered(r) THEN "fail"
                         ELSE IF Published(r) THEN "loop"
                         ELSE IF r.remote THEN "import" ELSE "await")
  /\ IF Published(r) THEN EndRequest ELSE UNCHANGED <<req, idx, dst, victims>>
  /\ UNCHANGED <<partVars, queueVars, signalVars, clientVars, engineVars>>

\* importExpert reuses an open mapping, else opens the peer's handle.
WorkerImport ==
  /\ \/ /\ WorkerAt("import", "publish")
        /\ mapped' = mapped \cup {req}
     \/ /\ "import" \in CudaFaults /\ req \notin mapped
        /\ WorkerAt("import", "fail")
        /\ UNCHANGED mapped
  /\ UNCHANGED <<weights, cache, current, content, queueVars, signalVars,
                 clientVars, engineVars, req, idx, dst, victims>>

WorkerPublish ==
  LET r == weights[req] IN
  /\ WorkerAt("publish", IF Reloadable(r) THEN "admitIPC" ELSE "fail")
  /\ SetRecord(req, IF Reloadable(r) THEN PublishIPC(r) ELSE r)
  /\ UNCHANGED <<cache, current, content, mapped, queueVars, signalVars,
                 clientVars, engineVars, req, idx, dst, victims>>

\* The ids that admit evicted to make room are not looked at.
WorkerAdmitIPC ==
  /\ WorkerAt("admitIPC", IF CanAdmit(cache, req) THEN "loop" ELSE "fail")
  /\ cache' = Admit(cache, req)
  /\ IF CanAdmit(cache, req) THEN EndRequest
     ELSE UNCHANGED <<req, idx, dst, victims>>
  /\ UNCHANGED <<weights, current, content, mapped, queueVars, signalVars,
                 clientVars, engineVars>>

\* Mutant of WorkerAwait: the buffer is not taken.
WorkerAwaitShared ==
  /\ WorkerAt("await", IF ~running THEN "exited"
                       ELSE IF available THEN "begin" ELSE "parking")
  /\ IF running THEN UNCHANGED <<req, idx, dst, victims>> ELSE EndRequest
  /\ UNCHANGED <<partVars, queueVars, signalVars, clientVars, engineVars>>

\* ready_.wait evaluates its predicate while it holds the worker's mutex.
WorkerAwait ==
  /\ WorkerAt("await", IF ~running THEN "exited"
                       ELSE IF available THEN "begin" ELSE "parking")
  /\ available' = (available /\ ~running)
  /\ IF running THEN UNCHANGED <<req, idx, dst, victims>> ELSE EndRequest
  /\ UNCHANGED <<partVars, queueVars, running, clientVars, engineVars>>

\* Blocking on the condition variable is what releases the mutex.
WorkerPark ==
  /\ WorkerAt("parking", "parked")
  /\ UNCHANGED <<partVars, queueVars, signalVars, clientVars, engineVars,
                 req, idx, dst, victims>>

SpuriousWakeup ==
  /\ WorkerAt("parked", "await")
  /\ UNCHANGED <<partVars, queueVars, signalVars, clientVars, engineVars,
                 req, idx, dst, victims>>

WorkerBegin ==
  LET r == weights[req] IN
  /\ WorkerAt("begin", IF Reloadable(r) THEN "index" ELSE "fail")
  /\ SetRecord(req, IF Reloadable(r) THEN BeginLoad(r) ELSE r)
  /\ UNCHANGED <<cache, current, content, mapped, queueVars, signalVars,
                 clientVars, engineVars, req, idx, dst, victims>>

\* nextIndex, next and copyToNextAsync each read current_index_ anew.
WorkerIndex ==
  /\ WorkerAt("index", "dest")
  /\ idx' = 1 - current
  /\ UNCHANGED <<partVars, queueVars, signalVars, clientVars, engineVars,
                 req, dst, victims>>

\* Mutant of WorkerDest: the index is not wrapped.
WorkerDestUnwrapped ==
  /\ WorkerAt("dest", "copy")
  /\ dst' = current + 1
  /\ UNCHANGED <<partVars, queueVars, signalVars, clientVars, engineVars,
                 req, idx, victims>>

WorkerDest ==
  /\ WorkerAt("dest", "copy")
  /\ dst' = 1 - current
  /\ UNCHANGED <<partVars, queueVars, signalVars, clientVars, engineVars,
                 req, idx, victims>>

\* A copy that fails partway leaves the buffer with nobody's bytes.
WorkerCopy ==
  /\ \/ /\ WorkerAt("copy", "record")
        /\ content' = [content EXCEPT ![1 - current] = req]
     \/ /\ "copy" \in CudaFaults
        /\ WorkerAt("copy", "fail")
        /\ content' = [content EXCEPT ![1 - current] = None]
  /\ UNCHANGED <<weights, cache, current, mapped, queueVars, signalVars,
                 clientVars, engineVars, req, idx, dst, victims>>

WorkerRecord ==
  /\ \/ WorkerAt("record", "complete")
     \/ "record" \in CudaFaults /\ WorkerAt("record", "fail")
  /\ UNCHANGED <<partVars, queueVars, signalVars, clientVars, engineVars,
                 req, idx, dst, victims>>

WorkerComplete ==
  LET r == weights[req] IN
  /\ WorkerAt("complete", IF r.state = "Loading" THEN "admit" ELSE "fail")
  /\ SetRecord(req, CompleteLoad(r, dst, idx))
  /\ UNCHANGED <<cache, current, content, mapped, queueVars, signalVars,
                 clientVars, engineVars, req, idx, dst, victims>>

WorkerAdmit ==
  /\ WorkerAt("admit", IF CanAdmit(cache, req) THEN "evict" ELSE "fail")
  /\ cache' = Admit(cache, req)
  /\ victims' = IF CanAdmit(cache, req) THEN Evicted(cache, req) ELSE <<>>
  /\ UNCHANGED <<weights, current, content, mapped, queueVars, signalVars,
                 clientVars, engineVars, req, idx, dst>>

\* One victim per step; a referenced or already evicted one throws.
WorkerEvict ==
  /\ victims # <<>>
  /\ LET v == Head(victims)
         r == weights[v]
     IN  IF ~Registered(r) \/ CanEvict(r)
         THEN /\ WorkerAt("evict", "evict")
              /\ SetRecord(v, IF Registered(r) THEN Evict(r) ELSE r)
              /\ victims' = Tail(victims)
         ELSE /\ WorkerAt("evict", "fail")
              /\ victims' = <<>>
              /\ UNCHANGED weights
  /\ UNCHANGED <<cache, current, content, mapped, queueVars, signalVars,
                 clientVars, engineVars, req, idx, dst>>

WorkerDone ==
  /\ victims = <<>>
  /\ WorkerAt("evict", "loop")
  /\ EndRequest
  /\ UNCHANGED <<partVars, queueVars, signalVars, clientVars, engineVars>>

\* The catch block: fail the request, whatever it had come to ...
WorkerFail ==
  LET r == weights[req] IN
  /\ WorkerAt("fail", "notify")
  /\ SetRecord(req, IF Registered(r) THEN FailLoad(r) ELSE r)
  /\ UNCHANGED <<cache, current, content, mapped, queueVars, signalVars,
                 clientVars, engineVars, req, idx, dst, victims>>

\* Mutant of WorkerNotify: the request is tried again on the spot.
WorkerNotifyRetry ==
  /\ WorkerAt("notify", "begin")
  /\ UNCHANGED <<partVars, queueVars, signalVars, clientVars, engineVars,
                 req, idx, dst, victims>>

\* ... and hand back the buffer, whether or not it had been taken.
WorkerNotify ==
  /\ WorkerAt("notify", "loop")
  /\ available' = TRUE
  /\ EndRequest
  /\ UNCHANGED <<partVars, queueVars, running, clientVars, engineVars>>

WorkerProgress ==
  \/ WorkerLoop \/ WorkerDequeue \/ WorkerDrained \/ WorkerInspect
  \/ WorkerImport \/ WorkerPublish \/ WorkerAdmitIPC
  \/ WorkerAwait \/ WorkerPark
  \/ WorkerBegin \/ WorkerIndex \/ WorkerDest \/ WorkerCopy \/ WorkerRecord
  \/ WorkerComplete \/ WorkerAdmit \/ WorkerEvict \/ WorkerDone
  \/ WorkerFail \/ WorkerNotify

-----------------------------------------------------------------------------
(* Clients: the public operations of CommunicationEngine.                  *)

Idle(c) == cpc[c] = "idle"

Goto(c, step) == cpc' = [cpc EXCEPT ![c] = step]

ClientAt(c, here, there) == cpc[c] = here /\ Goto(c, there)

\* The operation returns or throws: its locals go out of scope.
EndCall(c) ==
  /\ arg' = [arg EXCEPT ![c] = None]
  /\ snap' = [snap EXCEPT ![c] = NoSnap]
  /\ ids' = [ids EXCEPT ![c] = {}]

\* Operations that take the engine mutex and give it up in the same step.
Locked(c) == Idle(c) /\ lock = None

Initialize(c) ==
  /\ Locked(c) /\ ~initialized /\ queue = <<>>
  /\ initialized' = TRUE /\ closed' = FALSE
  /\ cache' = EmptyCache
  /\ running' = TRUE /\ available' = TRUE /\ wpc' = "loop"
  /\ UNCHANGED <<lock, weights, current, content, mapped, queue,
                 req, idx, dst, victims, clientVars>>

\* A queue that was closed with requests left in it cannot be reset.
InitializeThrows(c) ==
  /\ Locked(c) /\ ~initialized /\ queue # <<>>
  /\ UNCHANGED vars

Register(c, e) ==
  /\ Locked(c) /\ initialized
  /\ ~Registered(weights[e])
  /\ \/ e \in Local /\ Size[e] <= Staging /\ SetRecord(e, NewRecord(FALSE))
     \/ e \in Remote /\ SetRecord(e, NewRecord(TRUE))
  /\ UNCHANGED <<cache, current, content, mapped, queueVars, workerVars,
                 signalVars, clientVars, engineVars>>

Prefetch(c, e) ==
  /\ Locked(c) /\ initialized
  /\ Careful => Registered(weights[e])
  /\ ~closed /\ Len(queue) < MaxQueue
  /\ queue' = Append(queue, e)
  /\ UNCHANGED <<partVars, closed, workerVars, signalVars, clientVars,
                 engineVars>>

-----------------------------------------------------------------------------
(* getResidentPointer, which never takes the engine mutex.                 *)

\* A shutdown is under way.  It destroys the parts that the calls which do
\* not lock the engine use: a program may not start one of those now.
Stopping == \E c \in Client : cpc[c] \in {"close", "wake", "join"}

GetCall(c, e) ==
  /\ Idle(c) /\ initialized /\ ~Stopping
  /\ held[c][e] = Null
  /\ cache.pins[e] < MaxPins /\ weights[e].refs < MaxPins
  /\ Goto(c, "resolve")
  /\ arg' = [arg EXCEPT ![c] = e]
  /\ UNCHANGED <<partVars, queueVars, workerVars, signalVars, engineVars,
                 snap, ids, held>>

\* waitForResident blocks while the record is loading, then copies it.
GetResolve(c) ==
  LET r == weights[arg[c]] IN
  /\ cpc[c] = "resolve" /\ Settled(r)
  /\ IF r.resident
     THEN /\ Goto(c, IF r.imported THEN "pin" ELSE "claim")
          /\ snap' = [snap EXCEPT ![c] = [state |-> r.state, buf |-> r.buf,
                                          imported |-> r.imported]]
          /\ UNCHANGED <<arg, ids>>
     ELSE Goto(c, "idle") /\ EndCall(c)
  /\ UNCHANGED <<partVars, queueVars, workerVars, signalVars, engineVars, held>>

\* The copied record must be about the current buffer; if the copy says
\* Staged, the record itself must still be there to be activated.
Claimable(c) ==
  /\ snap[c].buf = current
  /\ snap[c].state = "Staged" => CanActivate(weights[arg[c]], current)

GetClaim(c) ==
  /\ cpc[c] = "claim"
  /\ IF Claimable(c)
     THEN /\ Goto(c, "pin")
          /\ SetRecord(arg[c], IF snap[c].state = "Staged"
                               THEN Activate(weights[arg[c]])
                               ELSE weights[arg[c]])
          /\ UNCHANGED <<arg, snap, ids>>
     ELSE Goto(c, "idle") /\ EndCall(c) /\ UNCHANGED weights
  /\ UNCHANGED <<cache, current, content, mapped, queueVars, workerVars,
                 signalVars, engineVars, held>>

GetPin(c) ==
  /\ cpc[c] = "pin"
  /\ IF CanPin(cache, arg[c])
     THEN /\ Goto(c, "mark")
          /\ cache' = Pin(cache, arg[c])
          /\ UNCHANGED <<arg, snap, ids>>
     ELSE Goto(c, "idle") /\ EndCall(c) /\ UNCHANGED cache
  /\ UNCHANGED <<weights, current, content, mapped, queueVars, workerVars,
                 signalVars, engineVars, held>>

GetMark(c) ==
  /\ ClientAt(c, "mark", "fetch")
  /\ SetRecord(arg[c], MarkAccessed(weights[arg[c]]))
  /\ UNCHANGED <<cache, current, content, mapped, queueVars, workerVars,
                 signalVars, engineVars, arg, snap, ids, held>>

\* Nothing undoes the pin and the reference when this last look throws.
GetFetch(c) ==
  LET r == weights[arg[c]] IN
  /\ ClientAt(c, "fetch", "idle")
  /\ held' = IF HasResidentPointer(r)
             THEN [held EXCEPT ![c][arg[c]] = r.ptr] ELSE held
  /\ EndCall(c)
  /\ UNCHANGED <<partVars, queueVars, workerVars, signalVars, engineVars>>

-----------------------------------------------------------------------------
(* release, which never takes the engine mutex either.                     *)

ReleaseUnpin(c, e) ==
  /\ Idle(c) /\ held[c][e] # Null
  /\ held' = [held EXCEPT ![c][e] = Null]
  /\ IF CanUnpin(cache, e)
     THEN /\ Goto(c, "deref")
          /\ arg' = [arg EXCEPT ![c] = e]
          /\ cache' = Unpin(cache, e)
     ELSE UNCHANGED <<cpc, arg, cache>>
  /\ UNCHANGED <<weights, current, content, mapped, queueVars, workerVars,
                 signalVars, engineVars, snap, ids>>

ReleaseDeref(c) ==
  /\ ClientAt(c, "deref", "idle")
  /\ SetRecord(arg[c], ReleaseRef(weights[arg[c]]))
  /\ EndCall(c)
  /\ UNCHANGED <<cache, current, content, mapped, queueVars, workerVars,
                 signalVars, engineVars, held>>

-----------------------------------------------------------------------------
(* swapBuffers, under the engine mutex.                                    *)

\* The worker owns the back buffer, or is about to publish into it.
LoadWindow ==
  {"begin", "index", "dest", "copy", "record", "complete", "admit", "evict"}

\* No other call is under way, and no load is or can start until the swap.
Quiet ==
  /\ \A c \in Client : Idle(c)
  /\ wpc \notin LoadWindow
  /\ available => queue = <<>> /\ wpc \in {"loop", "dequeue"}

Occupants == {e \in Expert : Occupies(weights[e], current)}

Retire(S) ==
  weights' = [e \in Expert |-> IF e \in S THEN Evict(weights[e]) ELSE weights[e]]

\* invalidateBuffer throws at the first referenced record it meets in an
\* order the hash map chooses: those it met before are already evicted.
SwapInvalidate(c) ==
  LET free == {e \in Occupants : CanEvict(weights[e])} IN
  /\ Locked(c) /\ initialized
  /\ Careful => Quiet
  /\ \/ /\ free = Occupants
        /\ Retire(Occupants)
        /\ ids' = [ids EXCEPT ![c] = Occupants]
        /\ lock' = c /\ Goto(c, "erase")
     \/ /\ free # Occupants
        /\ \E S \in SUBSET free : Retire(S)
        /\ UNCHANGED <<ids, lock, cpc>>
  /\ UNCHANGED <<cache, current, content, mapped, queueVars, workerVars,
                 signalVars, initialized, arg, snap, held>>

SwapErase(c) ==
  /\ cpc[c] = "erase"
  /\ \E e \in ids[c] :
       /\ cache' = IF CanErase(cache, e) THEN Erase(cache, e) ELSE cache
       /\ IF CanErase(cache, e)
          THEN /\ ids' = [ids EXCEPT ![c] = @ \ {e}]
               /\ UNCHANGED <<lock, cpc, arg, snap>>
          ELSE lock' = None /\ Goto(c, "idle") /\ EndCall(c)
  /\ UNCHANGED <<weights, current, content, mapped, queueVars, workerVars,
                 signalVars, initialized, held>>

SwapFlip(c) ==
  /\ ids[c] = {}
  /\ ClientAt(c, "erase", "notify")
  /\ current' = 1 - current
  /\ UNCHANGED <<weights, cache, content, mapped, queueVars, workerVars,
                 signalVars, engineVars, arg, snap, ids, held>>

\* notifyBufferAvailable needs the worker's mutex.
SwapNotify(c) ==
  /\ wpc # "parking"
  /\ ClientAt(c, "notify", "idle")
  /\ available' = TRUE
  /\ wpc' = IF wpc = "parked" THEN "await" ELSE wpc
  /\ lock' = None
  /\ UNCHANGED <<partVars, queueVars, running, req, idx, dst, victims,
                 initialized, arg, snap, ids, held>>

-----------------------------------------------------------------------------
(* shutdown, under the engine mutex.  It also runs in the destructor, so   *)
(* no other call is under way and no pointer is in use.                    *)

ShutdownStop(c) ==
  /\ Locked(c) /\ initialized
  /\ \A d \in Client : Idle(d) /\ \A e \in Expert : held[d][e] = Null
  /\ running' = FALSE
  /\ lock' = c /\ Goto(c, "close")
  /\ UNCHANGED <<partVars, queueVars, workerVars, available, initialized,
                 arg, snap, ids, held>>

\* Mutant of ShutdownClose: the queue is left open.
ShutdownCloseNot(c) ==
  /\ ClientAt(c, "close", "wake")
  /\ UNCHANGED <<partVars, queueVars, workerVars, signalVars, engineVars,
                 arg, snap, ids, held>>

ShutdownClose(c) ==
  /\ ClientAt(c, "close", "wake")
  /\ closed' = TRUE
  /\ UNCHANGED <<partVars, queue, workerVars, signalVars, engineVars,
                 arg, snap, ids, held>>

\* PrefetchWorker::stop notifies without the worker's mutex: a worker that
\* has looked at running_ but has not blocked yet does not hear of it.
ShutdownWake(c) ==
  /\ ClientAt(c, "wake", "join")
  /\ wpc' = IF wpc = "parked" THEN "await" ELSE wpc
  /\ UNCHANGED <<partVars, queueVars, req, idx, dst, victims, signalVars,
                 engineVars, arg, snap, ids, held>>

ShutdownJoin(c) ==
  /\ wpc = "exited"
  /\ ClientAt(c, "join", "idle")
  /\ initialized' = FALSE /\ lock' = None
  /\ mapped' = {}
  /\ weights' = [e \in Expert |-> NoRecord]
  /\ cache' = EmptyCache
  /\ current' = 0 /\ content' = [b \in Buffer |-> None]
  /\ EndRequest
  /\ UNCHANGED <<queueVars, wpc, signalVars, arg, snap, ids, held>>

-----------------------------------------------------------------------------
ClientProgress(c) ==
  \/ GetResolve(c) \/ GetClaim(c) \/ GetPin(c) \/ GetMark(c) \/ GetFetch(c)
  \/ ReleaseDeref(c)
  \/ SwapErase(c) \/ SwapFlip(c) \/ SwapNotify(c)
  \/ ShutdownClose(c) \/ ShutdownWake(c) \/ ShutdownJoin(c)

ClientCall(c) ==
  \/ Initialize(c) \/ InitializeThrows(c)
  \/ SwapInvalidate(c) \/ ShutdownStop(c)
  \/ \E e \in Expert :
       Register(c, e) \/ Prefetch(c, e) \/ GetCall(c, e) \/ ReleaseUnpin(c, e)

Next ==
  \/ WorkerProgress
  \/ SpuriousWakeup
  \/ \E c \in Client : ClientProgress(c) \/ ClientCall(c)

Spec == Init /\ [][Next]_vars

(* Threads that can run do run; nobody is obliged to call the engine, and  *)
(* the standard promises no spurious wakeup.                               *)
Fairness ==
  /\ WF_vars(WorkerProgress)
  /\ \A c \in Client : WF_vars(ClientProgress(c))

FairSpec == Spec /\ Fairness

-----------------------------------------------------------------------------
\* Type invariant of the engine, the worker and the clients.
TypeOK ==
  /\ initialized \in BOOLEAN /\ lock \in Client \cup {None}
  /\ weights \in [Expert -> ExpertRecord]
  /\ cache.cached \subseteq Expert /\ cache.pins \in [Expert -> Nat]
  /\ current \in Buffer
  /\ content \in [Buffer -> Expert \cup {None}]
  /\ mapped \subseteq Expert
  /\ queue \in Seq(Expert) /\ closed \in BOOLEAN
  /\ running \in BOOLEAN /\ available \in BOOLEAN
  /\ wpc \in WorkerStep /\ req \in Expert \cup {None}
  /\ idx \in Buffer /\ dst \in Buffer
  /\ victims \in Seq(Expert)
  /\ cpc \in [Client -> ClientStep]
  /\ arg \in [Client -> Expert \cup {None}]
  /\ snap \in [Client -> [ state : ResidentState \cup {"Absent"},
                           buf : Buffer, imported : BOOLEAN ]]
  /\ ids \in [Client -> SUBSET Expert]
  /\ held \in [Client -> [Expert -> Pointer]]

(* A record can be loading only while the worker is serving a request for  *)
(* it, at a step that will publish or fail it: this is what lets a client  *)
(* block on the loading flag in waitForResident without a timeout.         *)
LoadOwned ==
  \A e \in Expert : weights[e].loading =>
    e = req /\ wpc \in {"index", "dest", "copy", "record", "complete", "fail"}

(* The state, the two flags and the pointer of a record are separate       *)
(* fields that nine methods update; they never tell different stories.     *)
RecordsCoherent ==
  \A e \in Expert : LET r == weights[e] IN
    /\ r.resident <=> Published(r)
    /\ r.ptr # Null <=> Published(r)
    /\ r.loading <=> r.state = "Loading"
    /\ r.ptr = IpcMapping => r.imported /\ e \in mapped

(* A pointer some client holds still points at the bytes of its expert: in *)
(* a staging buffer, or through a mapping that is still open.              *)
HandlesSound ==
  \A c \in Client, e \in Expert :
    /\ held[c][e] \in Buffer    => content[held[c][e]] = e
    /\ held[c][e] = IpcMapping  => e \in mapped

\* The bytes a published record points at are those of its expert.
PublishedBytes ==
  \A e \in Expert : weights[e].ptr \in Buffer => content[weights[e].ptr] = e

(* "Pinned experts are never evicted" (runtime_invariants.h): as long as   *)
(* an expert is pinned, its published record stays published.              *)
PinnedNotEvicted ==
  [][ initialized' =>
        \A e \in Expert : cache.pins[e] > 0 /\ Published(weights[e])
                            => Published(weights'[e]) ]_vars

(* "An active expert occupies one cache slot" (runtime_invariants.h).  The *)
(* worker publishes a record before it admits it, so this is about moments *)
(* at which the worker is between requests and no client is in a call.     *)
AtRest == wpc \in {"loop", "dequeue"} /\ \A c \in Client : Idle(c)

ActiveHasSlot ==
  AtRest => \A e \in Expert : weights[e].state = "Active" => e \in cache.cached

(* Conversely a slot is not kept for an expert that is gone: a stale entry *)
(* would be chosen as a victim and fail the request that chose it.         *)
SlotIsPublished ==
  AtRest => \A e \in cache.cached : Published(weights[e])

(* At rest the two counts a client's hold leaves behind, the cache's pins  *)
(* and the record's references, are both the number of clients holding it. *)
Holders(e) == {c \in Client : held[c][e] # Null}

CountsAgree ==
  AtRest => \A e \in Expert : /\ cache.pins[e] = Cardinality(Holders(e))
                              /\ weights[e].refs = Cardinality(Holders(e))

(* Nobody blocks for ever in waitForResident, whatever fails.              *)
ResolveReturns ==
  \A c \in Client : cpc[c] = "resolve" ~> cpc[c] # "resolve"

(* shutdown returns, unless the worker blocked on its condition variable   *)
(* just after the one notification that was meant for it.                  *)
ShutdownReturns ==
  \A c \in Client : cpc[c] = "join" ~> (cpc[c] = "idle" \/ wpc = "parked")

(* "Shutdown the C++ engine and release all IPC handles" (execution.py):   *)
(* a shutdown that has told the worker to stop comes to its end.           *)
ShutdownReleases ==
  \A c \in Client : cpc[c] = "join" ~> ~initialized /\ mapped = {}

(* Every load the worker begins ends, and the worker takes up another      *)
(* request or stops.                                                       *)
LoadsEnd == wpc \in LoadWindow ~> wpc \in {"dequeue", "exited"}

-----------------------------------------------------------------------------
(* The promise to the executor, seen in the engine's state.                *)

StagedIn(b) ==
  LET S == {e \in Expert : Occupies(weights[e], b)}
  IN  IF S = {} THEN None
      ELSE IF S = {content[b]} THEN content[b] ELSE "corrupt"

Buffers == INSTANCE DoubleBuffer WITH
  Expert <- Local,
  front  <- StagedIn(current),
  back   <- StagedIn(1 - current),
  users  <- {use \in Client \X Local : held[use[1]][use[2]] # Null}

(* The engine implements the double buffer for locally staged experts.     *)
ImplementsDoubleBuffer == Buffers!Spec

(* When nothing is under way the cache, the records and the clients' holds *)
(* tell one story.                                                         *)
BooksAtRest == ActiveHasSlot /\ SlotIsPublished /\ CountsAgree
=============================================================================
