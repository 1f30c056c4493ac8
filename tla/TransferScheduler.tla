------------------------- MODULE TransferScheduler -------------------------
(***************************************************************************)
(* DWDP/communication/transfer_scheduler.{h,cpp}: a priority queue of      *)
(* transfer tasks, one per expert, that worker threads take from.          *)
(*                                                                         *)
(* Every method holds the mutex, except that complete and fail run the     *)
(* task's callback after they have let go of it, and take gives it up      *)
(* while it waits on ready_.  A call that throws and changes nothing, or a *)
(* submit that returns the task already there, is not a step.              *)
(*                                                                         *)
(* A task is named by its sequence number.  Submitters drop the handle     *)
(* submit returns, as ExpertParallelPlanner does, so a task lives as long  *)
(* as it is queued or in the hands of a worker.                            *)
(***************************************************************************)
EXTENDS Integers, Sequences

CONSTANTS
  Expert,      (* expert ids                                  *)
  NoExpert,    (* whom a task not yet created is for          *)
  Priority,    (* the priorities submitted                    *)
  Worker,      (* threads that take tasks                     *)
  MaxTasks     (* bound on the number of tasks ever created   *)

ASSUME SchedulerAssumption ==
  /\ Priority \subseteq Int
  /\ MaxTasks \in Nat

Task   == 1..MaxTasks
NoTask == 0

VARIABLES
  sequence,    (* sequence_: tasks created so far                          *)
  state,       (* state[t]; "Created" until t is submitted                 *)
  expert, priority, retries,
  queue,       (* queue_: the tasks in the heap                            *)
  coalesced,   (* coalesced_[e], a weak reference; NoTask if no entry      *)
  closed,      (* closed_                                                  *)
  wpc,         (* what each worker is doing                                *)
  doing,       (* the task each worker has in its hands                    *)
  runs,        (* history: how often take handed out each task             *)
  told         (* history: the states each task's callback was called with *)

taskVars   == <<state, expert, priority, retries>>
workerVars == <<wpc, doing>>
history    == <<runs, told>>
vars == <<sequence, taskVars, queue, coalesced, closed, workerVars, history>>

TransferState ==
  {"Created", "Queued", "Waiting", "Running", "Completed", "Failed", "Cancelled"}

WorkerStep == {"idle", "blocked", "woken", "working", "calling", "done"}

Init ==
  /\ sequence = 0
  /\ state = [t \in Task |-> "Created"]
  /\ expert = [t \in Task |-> NoExpert] /\ priority = [t \in Task |-> 0]
  /\ retries = [t \in Task |-> 0]
  /\ queue = {}
  /\ coalesced = [e \in Expert |-> NoTask]
  /\ closed = FALSE
  /\ wpc = [w \in Worker |-> "idle"]
  /\ doing = [w \in Worker |-> NoTask]
  /\ runs = [t \in Task |-> 0]
  /\ told = [t \in Task |-> <<>>]

-----------------------------------------------------------------------------
\* A weak reference to t can be locked.
Alive(t) == t \in queue \/ \E w \in Worker : doing[w] = t

Blocked(pc) == {w \in Worker : pc[w] = "blocked"}

\* ready_.notify_one() while the workers are at pc.
NotifyOne(pc) ==
  IF Blocked(pc) = {} THEN {pc}
  ELSE {[pc EXCEPT ![w] = "woken"] : w \in Blocked(pc)}

\* Mutant of Before: the older of two equals is served last.
BeforeNewest(t, u) ==
  priority[t] > priority[u] \/ (priority[t] = priority[u] /\ t >= u)

\* The comparison that orders the heap: t is served before u.
Before(t, u) ==
  priority[t] > priority[u] \/ (priority[t] = priority[u] /\ t <= u)

\* Mutant of Submit: nobody is told of the new task.
SubmitSilently(e, p) ==
  LET t == sequence + 1 IN
  /\ ~closed
  /\ coalesced[e] = NoTask \/ ~Alive(coalesced[e])
  /\ sequence < MaxTasks
  /\ sequence' = t
  /\ state' = [state EXCEPT ![t] = "Queued"]
  /\ expert' = [expert EXCEPT ![t] = e]
  /\ priority' = [priority EXCEPT ![t] = p]
  /\ coalesced' = [coalesced EXCEPT ![e] = t]
  /\ queue' = queue \cup {t}
  /\ UNCHANGED <<wpc, retries, closed, doing, history>>

\* A new task, unless there is one for the expert that is still alive.
Submit(e, p) ==
  LET t == sequence + 1 IN
  /\ ~closed
  /\ coalesced[e] = NoTask \/ ~Alive(coalesced[e])
  /\ sequence < MaxTasks
  /\ sequence' = t
  /\ state' = [state EXCEPT ![t] = "Queued"]
  /\ expert' = [expert EXCEPT ![t] = e]
  /\ priority' = [priority EXCEPT ![t] = p]
  /\ coalesced' = [coalesced EXCEPT ![e] = t]
  /\ queue' = queue \cup {t}
  /\ wpc' \in NotifyOne(wpc)
  /\ UNCHANGED <<retries, closed, doing, history>>

\* cancel leaves the task in the heap and does not run its callback.
Cancel(e) ==
  LET t == coalesced[e] IN
  /\ t # NoTask
  /\ Alive(t) => state[t] = "Queued"
  /\ state' = IF Alive(t) THEN [state EXCEPT ![t] = "Cancelled"] ELSE state
  /\ coalesced' = [coalesced EXCEPT ![e] = NoTask]
  /\ UNCHANGED <<sequence, expert, priority, retries, queue, closed,
                 workerVars, history>>

\* Mutant of Close: only one of the waiting workers is woken.
CloseNotifyOne ==
  /\ closed' = TRUE
  /\ wpc' \in NotifyOne(wpc)
  /\ UNCHANGED <<sequence, taskVars, queue, coalesced, doing, history>>

Close ==
  /\ closed' = TRUE
  /\ wpc' = [w \in Worker |-> IF wpc[w] = "blocked" THEN "woken" ELSE wpc[w]]
  /\ UNCHANGED <<sequence, taskVars, queue, coalesced, doing, history>>

-----------------------------------------------------------------------------
(* take: called by an idle worker, resumed by one that was woken.          *)

Taking(w) == wpc[w] \in {"idle", "woken"}

TakeBlocks(w) ==
  /\ Taking(w) /\ queue = {} /\ ~closed
  /\ wpc' = [wpc EXCEPT ![w] = "blocked"]
  /\ UNCHANGED <<sequence, taskVars, queue, coalesced, closed, doing, history>>

\* nullopt: nothing is left and nothing will come.
TakeNone(w) ==
  /\ Taking(w) /\ queue = {} /\ closed
  /\ wpc' = [wpc EXCEPT ![w] = "done"]
  /\ UNCHANGED <<sequence, taskVars, queue, coalesced, closed, doing, history>>

TakeTask(w) ==
  /\ Taking(w)
  /\ \E t \in queue :
       /\ \A u \in queue : Before(t, u)
       /\ state[t] = "Queued"
       /\ queue' = queue \ {t}
       /\ state' = [state EXCEPT ![t] = "Running"]
       /\ wpc' = [wpc EXCEPT ![w] = "working"]
       /\ doing' = [doing EXCEPT ![w] = t]
       /\ runs' = [runs EXCEPT ![t] = @ + 1]
  /\ UNCHANGED <<sequence, expert, priority, retries, coalesced, closed, told>>

\* The top of the heap was cancelled: take throws, having popped it.
TakeThrows(w) ==
  /\ Taking(w)
  /\ \E t \in queue :
       /\ \A u \in queue : Before(t, u)
       /\ state[t] # "Queued"
       /\ queue' = queue \ {t}
       /\ wpc' = [wpc EXCEPT ![w] = "idle"]
  /\ UNCHANGED <<sequence, taskVars, coalesced, closed, doing, history>>

SpuriousWakeup(w) ==
  /\ wpc[w] = "blocked"
  /\ wpc' = [wpc EXCEPT ![w] = "woken"]
  /\ UNCHANGED <<sequence, taskVars, queue, coalesced, closed, doing, history>>

-----------------------------------------------------------------------------
(* What a worker does with the task it took.                               *)

\* Mutant of Finish: no callback once the scheduler is closed.
FinishQuietly(w, end) ==
  LET t == doing[w] IN
  /\ state[t] = "Running"
  /\ state' = [state EXCEPT ![t] = end]
  /\ coalesced' = [coalesced EXCEPT ![expert[t]] = NoTask]
  /\ wpc' = [wpc EXCEPT ![w] = IF closed THEN "idle" ELSE "calling"]
  /\ doing' = IF closed THEN [doing EXCEPT ![w] = NoTask] ELSE doing
  /\ UNCHANGED <<sequence, expert, priority, queue, closed, history>>

\* Under the mutex; the callback comes after.
Finish(w, end) ==
  LET t == doing[w] IN
  /\ state[t] = "Running"
  /\ state' = [state EXCEPT ![t] = end]
  /\ coalesced' = [coalesced EXCEPT ![expert[t]] = NoTask]
  /\ wpc' = [wpc EXCEPT ![w] = "calling"]
  /\ UNCHANGED <<sequence, expert, priority, queue, closed, doing, history>>

Complete(w) ==
  /\ wpc[w] = "working"
  /\ Finish(w, "Completed")
  /\ UNCHANGED retries

\* retryable && retries++ < 2: the count moves only if retryable.
FailForGood(w) ==
  LET t == doing[w] IN
  /\ wpc[w] = "working"
  /\ \/ UNCHANGED retries
     \/ retries[t] >= 2 /\ retries' = [retries EXCEPT ![t] = @ + 1]
  /\ Finish(w, "Failed")

\* Mutant of FailAndRetry: one retry too many.
RetryOnceMore(w) ==
  LET t == doing[w] IN
  /\ wpc[w] = "working" /\ state[t] = "Running"
  /\ retries[t] <= 2
  /\ retries' = [retries EXCEPT ![t] = @ + 1]
  /\ state' = [state EXCEPT ![t] = "Queued"]
  /\ queue' = queue \cup {t}
  /\ wpc' \in NotifyOne([wpc EXCEPT ![w] = "idle"])
  /\ doing' = [doing EXCEPT ![w] = NoTask]
  /\ UNCHANGED <<sequence, expert, priority, coalesced, closed, history>>

\* Mutant of FailAndRetry: the task is left in the state nothing uses.
RetryWaiting(w) ==
  LET t == doing[w] IN
  /\ wpc[w] = "working" /\ state[t] = "Running"
  /\ retries[t] < 2
  /\ retries' = [retries EXCEPT ![t] = @ + 1]
  /\ state' = [state EXCEPT ![t] = "Waiting"]
  /\ queue' = queue \cup {t}
  /\ wpc' \in NotifyOne([wpc EXCEPT ![w] = "idle"])
  /\ doing' = [doing EXCEPT ![w] = NoTask]
  /\ UNCHANGED <<sequence, expert, priority, coalesced, closed, history>>

\* Mutant of FailAndRetry: every failure erases the expert's entry.
RetryErasing(w) ==
  LET t == doing[w] IN
  /\ wpc[w] = "working" /\ state[t] = "Running"
  /\ retries[t] < 2
  /\ retries' = [retries EXCEPT ![t] = @ + 1]
  /\ state' = [state EXCEPT ![t] = "Queued"]
  /\ queue' = queue \cup {t}
  /\ wpc' \in NotifyOne([wpc EXCEPT ![w] = "idle"])
  /\ doing' = [doing EXCEPT ![w] = NoTask]
  /\ coalesced' = [coalesced EXCEPT ![expert[t]] = NoTask]
  /\ UNCHANGED <<sequence, expert, priority, closed, history>>

FailAndRetry(w) ==
  LET t == doing[w] IN
  /\ wpc[w] = "working" /\ state[t] = "Running"
  /\ retries[t] < 2
  /\ retries' = [retries EXCEPT ![t] = @ + 1]
  /\ state' = [state EXCEPT ![t] = "Queued"]
  /\ queue' = queue \cup {t}
  /\ wpc' \in NotifyOne([wpc EXCEPT ![w] = "idle"])
  /\ doing' = [doing EXCEPT ![w] = NoTask]
  /\ UNCHANGED <<sequence, expert, priority, coalesced, closed, history>>

Callback(w) ==
  LET t == doing[w] IN
  /\ wpc[w] = "calling"
  /\ told' = [told EXCEPT ![t] = Append(@, state[t])]
  /\ wpc' = [wpc EXCEPT ![w] = "idle"]
  /\ doing' = [doing EXCEPT ![w] = NoTask]
  /\ UNCHANGED <<sequence, taskVars, queue, coalesced, closed, runs>>

\* The worker drops its handle without completing or failing the task.
Abandon(w) ==
  /\ wpc[w] = "working"
  /\ wpc' = [wpc EXCEPT ![w] = "idle"]
  /\ doing' = [doing EXCEPT ![w] = NoTask]
  /\ UNCHANGED <<sequence, taskVars, queue, coalesced, closed, history>>

Take(w) == TakeBlocks(w) \/ TakeNone(w) \/ TakeTask(w) \/ TakeThrows(w)

Work(w) == Complete(w) \/ FailForGood(w) \/ FailAndRetry(w) \/ Abandon(w)

Next ==
  \/ \E e \in Expert : Cancel(e) \/ \E p \in Priority : Submit(e, p)
  \/ Close
  \/ \E w \in Worker : Take(w) \/ SpuriousWakeup(w) \/ Work(w) \/ Callback(w)

Spec == Init /\ [][Next]_vars

(* Workers are loops around take that deal with what they are given; the   *)
(* caller of submit, cancel and close promises nothing, and the standard   *)
(* promises no spurious wakeup.                                            *)
Fairness ==
  \A w \in Worker : WF_vars(Take(w)) /\ WF_vars(Work(w)) /\ WF_vars(Callback(w))

FairSpec == Spec /\ Fairness

-----------------------------------------------------------------------------
\* Type invariant.  No task is ever in kWaiting, which nothing assigns.
TypeOK ==
  /\ sequence \in 0..MaxTasks
  /\ state \in [Task -> TransferState \ {"Waiting"}]
  /\ expert \in [Task -> Expert \cup {NoExpert}] /\ priority \in [Task -> Int]
  /\ retries \in [Task -> Nat]
  /\ queue \subseteq Task
  /\ coalesced \in [Expert -> Task \cup {NoTask}]
  /\ closed \in BOOLEAN
  /\ wpc \in [Worker -> WorkerStep]
  /\ doing \in [Worker -> Task \cup {NoTask}]
  /\ runs \in [Task -> Nat]
  /\ told \in [Task -> Seq(TransferState)]

(* "coalesces requests by expert id" (communication/README.md): however    *)
(* submit, cancel, retry and expired references interleave, no two tasks   *)
(* of an expert are under way at once, so no expert is copied twice in     *)
(* parallel.                                                               *)
UnderWay(t) == state[t] \in {"Queued", "Running"} /\ Alive(t)

OneTaskPerExpert ==
  \A t, u \in Task :
    UnderWay(t) /\ UnderWay(u) /\ expert[t] = expert[u] => t = u

(* "bounded retry" (communication/README.md): whatever the workers do with *)
(* it, a task is handed out at most three times.                           *)
RunsBounded == \A t \in Task : runs[t] <= 3

(* The heap holds handles to tasks whose state changes behind its back     *)
(* (cancel) and gets tasks back with their old sequence number (retry);    *)
(* still no task starts before an earlier one of at least its priority.    *)
Started(t) == runs[t] > 0

NoOvertaking ==
  \A t, u \in Task :
    t < u /\ priority[t] >= priority[u] /\ Started(u)
      => Started(t) \/ state[t] = "Cancelled"

(* "Completion callbacks observe the terminal state"                       *)
(* (communication/README.md): a task that completed or failed has its      *)
(* callback run once, with the state it ended in: not lost between the     *)
(* unlock and the call, nor run before the end, for a failure that is      *)
(* retried, or twice.  Nothing is asked of a cancelled task: cancel runs   *)
(* no callback, whatever that sentence promises.                           *)
Finished == {"Completed", "Failed"}
Terminal == Finished \cup {"Cancelled"}
CalledBack(t) ==
  \/ told[t] = <<state[t]>>
  \/ told[t] = <<>> /\ \E w \in Worker : wpc[w] = "calling" /\ doing[w] = t

CallbackOnce ==
  \A t \in Task :
    /\ state[t] \in Finished => CalledBack(t)
    /\ told[t] # <<>> => state[t] \in Terminal /\ told[t] = <<state[t]>>

(* notify_one wakes somebody for every task queued or queued again: no     *)
(* task waits in the heap while every worker waits for a task.             *)
TasksLeaveQueue == \A t \in Task : t \in queue ~> t \notin queue

(* close releases every worker that waits: each of them drains what is     *)
(* left in the heap and is then told that nothing will come.               *)
CloseEndsWorkers == \A w \in Worker : closed ~> wpc[w] = "done"

=============================================================================
