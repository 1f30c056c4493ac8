---------------------------- MODULE StagedReads ----------------------------
(***************************************************************************)
(* What the staging buffers look like to the device.  The worker publishes *)
(* a record when it has issued the copy, not when the copy has run; the    *)
(* completion event is waited for by the engine's own compute stream,      *)
(* which no caller can reach, so the kernels of a caller run on a stream   *)
(* the engine knows nothing of.  One client and the worker; a request is   *)
(* served in one step here, CommunicationEngine has its interleavings, and *)
(* local experts that fit the cache, so that no admission evicts.          *)
(***************************************************************************)
EXTENDS WeightManager, StreamOrder

CONSTANTS
  Staged,       \* experts registered with registerExpert
  NoBytes,      \* what a buffer holds before the first copy
  Usages,       \* how callers may synchronize the device: before they read
                \* through a pointer, before they swap
  MaxCopies, MaxReads, MaxWaits  \* bounds: operations issued to each stream

ASSUME StagedReadsAssumption ==
  /\ {"copy", "compute", "caller"} \subseteq Stream
  /\ Usages \subseteq [beforeRead : BOOLEAN, beforeSwap : BOOLEAN]
  /\ MaxCopies \in Nat /\ MaxReads \in Nat /\ MaxWaits \in Nat

VARIABLES
  usage,      \* the caller's discipline
  records,    \* expert -> its record
  recorded,   \* expert -> the point of the copy stream its event marks
  requests,   \* the prefetch queue
  available,  \* the worker may fill the next buffer
  front,      \* the current buffer
  bytes,      \* buffer -> whose bytes the device has put there
  pointer     \* expert -> the pointer the caller holds

stagedVars == <<usage, records, recorded, requests, available, front, bytes,
                pointer, streamVars>>

StagedInit ==
  /\ usage \in Usages
  /\ records = [e \in Staged |-> NewRecord(FALSE)]
  /\ recorded = [e \in Staged |-> 0]
  /\ requests = <<>> /\ available = TRUE /\ front = 0
  /\ bytes = [b \in Buffer |-> NoBytes]
  /\ pointer = [e \in Staged |-> Null]
  /\ StreamsInit

Prefetch(e) ==
  /\ Issued("copy") + Len(requests) < MaxCopies
  /\ requests' = Append(requests, e)
  /\ UNCHANGED <<usage, records, recorded, available, front, bytes, pointer, streamVars>>

\* A published expert needs no work.
WorkerSkip ==
  /\ requests # <<>> /\ Published(records[Head(requests)])
  /\ requests' = Tail(requests)
  /\ UNCHANGED <<usage, records, recorded, available, front, bytes, pointer, streamVars>>

\* Copy to a buffer, record the event behind it, publish.
Fill(e, b) ==
  /\ Issue("copy", <<Work(e, "copy", {}, {b})>>)
  /\ recorded' = [recorded EXCEPT ![e] = Issued("copy") + 1]
  /\ records' = [records EXCEPT ![e] = CompleteLoad(BeginLoad(@), b, b)]

\* Mutant of WorkerServe: the worker does not wait for the next buffer.
WorkerServeUnawaited ==
  /\ requests # <<>> /\ Reloadable(records[Head(requests)])
  /\ available' = FALSE
  /\ Fill(Head(requests), 1 - front)
  /\ requests' = Tail(requests)
  /\ UNCHANGED <<usage, front, bytes, pointer>>

WorkerServe ==
  /\ requests # <<>> /\ Reloadable(records[Head(requests)])
  /\ available /\ available' = FALSE
  /\ Fill(Head(requests), 1 - front)
  /\ requests' = Tail(requests)
  /\ UNCHANGED <<usage, front, bytes, pointer>>

\* wait: the event as last recorded, if it ever was.
AwaitEvent(e) == Issue("compute", <<WaitFor("copy", recorded[e])>>)

WaitCall(e) ==
  /\ Issued("compute") < MaxWaits
  /\ AwaitEvent(e)
  /\ UNCHANGED <<usage, records, recorded, requests, available, front, bytes, pointer>>

\* getResidentPointer; the wait is issued even if it then throws because the
\* expert is in the next buffer.
GetPointer(e) ==
  /\ pointer[e] = Null /\ records[e].resident /\ Issued("compute") < MaxWaits
  /\ AwaitEvent(e)
  /\ IF records[e].buf = front
     THEN /\ pointer' = [pointer EXCEPT ![e] = records[e].ptr]
          /\ records' = [records EXCEPT ![e] = MarkAccessed(Activate(@))]
     ELSE UNCHANGED <<pointer, records>>
  /\ UNCHANGED <<usage, recorded, requests, available, front, bytes>>

\* The caller launches a kernel that reads through a pointer it holds.
ReadThrough(e) ==
  /\ pointer[e] # Null /\ Issued("caller") < MaxReads
  /\ usage.beforeRead => AllDrained
  /\ Issue("caller", <<Work(e, "read", {pointer[e]}, {})>>)
  /\ UNCHANGED <<usage, records, recorded, requests, available, front, bytes, pointer>>

\* release may follow the launch at once.
ReleaseExpert(e) ==
  /\ pointer[e] # Null
  /\ pointer' = [pointer EXCEPT ![e] = Null]
  /\ records' = [records EXCEPT ![e] = ReleaseRef(@)]
  /\ UNCHANGED <<usage, recorded, requests, available, front, bytes, streamVars>>

\* swapBuffers orders nothing on the device; a referenced expert makes it throw.
\* "after prior compute", its error message asks: the caller's own kernels.
SwapBuffers ==
  /\ usage.beforeSwap => Drained("caller")
  /\ LET there == {e \in Staged : Occupies(records[e], front)} IN
     /\ \A e \in there : CanEvict(records[e])
     /\ records' = [e \in Staged |-> IF e \in there THEN Evict(records[e]) ELSE records[e]]
  /\ front' = 1 - front /\ available' = TRUE
  /\ UNCHANGED <<usage, recorded, requests, bytes, pointer, streamVars>>

\* The device runs the next operation of a stream.
StreamRuns(s) ==
  /\ RunOne(s)
  /\ bytes' = IF ~Waits(s) /\ Front(s).do = "copy"
              THEN [b \in Buffer |-> IF b \in Front(s).writes THEN Front(s).by ELSE bytes[b]]
              ELSE bytes
  /\ UNCHANGED <<usage, records, recorded, requests, available, front, pointer>>

StagedNext ==
  \/ WorkerSkip \/ WorkerServe \/ SwapBuffers
  \/ \E e \in Staged : Prefetch(e) \/ WaitCall(e) \/ GetPointer(e)
                         \/ ReadThrough(e) \/ ReleaseExpert(e)
  \/ \E s \in Stream : StreamRuns(s)

StagedSpec == StagedInit /\ [][StagedNext]_stagedVars

-----------------------------------------------------------------------------
\* A kernel that reads through a pointer getResidentPointer returned finds the
\* bytes of its expert at the moment it runs, not just when it was launched.
ReadsRight ==
  \A s \in Stream :
    MayRunWork(s) /\ Front(s).do = "read" =>
      \A b \in Front(s).reads : bytes[b] = Front(s).by

\* No copy may be running into a buffer while a kernel may be reading it.
NoBufferClash == ~Clash("copy", "caller") /\ ~Clash("caller", "copy")

\* The staging buffers are safe to read: the right bytes, and none in flight.
StagingSafe == ReadsRight /\ NoBufferClash
=============================================================================
