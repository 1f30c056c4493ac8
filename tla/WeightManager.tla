--------------------------- MODULE WeightManager ---------------------------
(***************************************************************************)
(* The expert records of DWDP/communication/weight_manager.{h,cpp}: what   *)
(* each method of WeightManager does to one record, and when it throws.    *)
(* Every method runs under the manager's mutex, so each operator below is  *)
(* used by a composing specification as (part of) one atomic step.  An     *)
(* unregistered id is a record in state "Absent": records_.find misses.    *)
(*                                                                         *)
(* A resident pointer is the staging buffer it points into (0 or 1), the   *)
(* imported CUDA IPC mapping, or null.  Sizes, timestamps, event indices   *)
(* and the write-only staging_pointer, location, owner_gpu and cache_slot  *)
(* fields are not part of a record here.                                   *)
(***************************************************************************)
EXTENDS Naturals

Buffer     == {0, 1}
IpcMapping == 2
Null       == 3
Pointer    == Buffer \cup {IpcMapping, Null}

ResidentState == {"Unloaded", "Loading", "Staged", "Active", "Evicted"}

\* remote stands for has_ipc_handle, imported for ipc_imported.
ExpertRecord ==
  [ state    : ResidentState \cup {"Absent"},
    remote   : BOOLEAN,
    imported : BOOLEAN,
    resident : BOOLEAN,
    loading  : BOOLEAN,
    buf      : Buffer,
    ptr      : Pointer,
    refs     : Nat ]

NoRecord ==
  [ state |-> "Absent", remote |-> FALSE, imported |-> FALSE,
    resident |-> FALSE, loading |-> FALSE, buf |-> 0, ptr |-> Null, refs |-> 0 ]

Registered(r) == r.state # "Absent"

NewRecord(hasHandle) ==
  [NoRecord EXCEPT !.state = "Unloaded", !.remote = hasHandle]

\* The two states beginLoad and publishIPC accept.
Reloadable(r) == r.state \in {"Unloaded", "Evicted"}

\* The two states in which a record's bytes may be handed out or evicted.
Published(r) == r.state \in {"Staged", "Active"}

BeginLoad(r) == [r EXCEPT !.loading = TRUE, !.state = "Loading"]

\* The buffer index is written before the state is checked: a completion
\* of a record that is not loading throws, and leaves the index behind.
CompleteLoad(r, dst, idx) ==
  IF r.state = "Loading"
  THEN [r EXCEPT !.buf = idx, !.resident = TRUE, !.loading = FALSE,
                 !.ptr = dst, !.state = "Staged"]
  ELSE [r EXCEPT !.buf = idx]

CanActivate(r, active) == r.state = "Staged" /\ r.buf = active

Activate(r) == [r EXCEPT !.state = "Active"]

\* Mutant of CanEvict: the reference count is not looked at.
CanEvictReferenced(r) == Published(r)

CanEvict(r) == r.refs = 0 /\ Published(r)

\* Mutant of Evict: the pointer to the storage is left behind.
EvictKeepingPointer(r) == [r EXCEPT !.resident = FALSE, !.state = "Evicted"]

Evict(r) == [r EXCEPT !.resident = FALSE, !.ptr = Null, !.state = "Evicted"]

PublishIPC(r) ==
  [r EXCEPT !.ptr = IpcMapping, !.imported = TRUE, !.resident = TRUE,
            !.state = "Active"]

\* Mutant of FailLoad: nobody is told that the load is over.
FailLoadQuietly(r) ==
  [r EXCEPT !.resident = FALSE, !.ptr = Null, !.state = "Evicted"]

FailLoad(r) ==
  [r EXCEPT !.loading = FALSE, !.resident = FALSE, !.ptr = Null,
            !.state = "Evicted"]

\* What invalidateBuffer(b) looks for: staged storage in buffer b.
Occupies(r, b) == ~r.imported /\ r.buf = b /\ Published(r)

\* waitForResident returns (or throws) once this holds.
Settled(r) == ~Registered(r) \/ r.resident \/ ~r.loading

MarkAccessed(r) == [r EXCEPT !.refs = @ + 1]

ReleaseRef(r) == IF r.refs # 0 THEN [r EXCEPT !.refs = @ - 1] ELSE r

HasResidentPointer(r) == r.resident /\ r.ptr # Null /\ Published(r)

=============================================================================
