---------------------- MODULE TransferSchedulerProofs ----------------------
(***************************************************************************)
(* For any experts, priorities, workers and number of tasks: the types are *)
(* kept, an expert never has two tasks under way, no task is handed out    *)
(* more than three times or before an earlier one of its priority, and     *)
(* callbacks are run once.                                                 *)
(***************************************************************************)
EXTENDS TransferScheduler, TLAPS

\* A worker has a task in its hands exactly while it works on it.
Hands == \A w \in Worker : doing[w] # NoTask <=> wpc[w] \in {"working", "calling"}

\* Types hold only together with this: fail writes to the task in hand.
Typed == TypeOK /\ Hands

\* Nothing is known of a task that was never submitted.
Unborn(t) == /\ state[t] = "Created" /\ t \notin queue
             /\ \A w \in Worker : doing[w] # t

Fresh == \A t \in Task : IF t > sequence THEN Unborn(t) ELSE expert[t] \in Expert

\* A task is in one place, and its state fits the place.
Placed ==
  /\ \A t \in queue : /\ state[t] \in {"Queued", "Cancelled"}
                      /\ \A w \in Worker : doing[w] # t
  /\ \A v, w \in Worker : doing[v] = doing[w] /\ doing[v] # NoTask => v = w
  /\ \A w \in Worker : wpc[w] = "working" => state[doing[w]] = "Running"
  /\ \A w \in Worker : wpc[w] = "calling" => state[doing[w]] \in {"Completed", "Failed"}

\* The coalescing map knows every task under way: a task is dropped from it
\* only when it ends, and replaced only when nobody can reach it.
Mapped == \A t \in Task : UnderWay(t) => coalesced[expert[t]] = t

\* Each run but the last of a task ended in a retry that was counted.
Counted ==
  \A t \in Task :
    /\ state[t] = "Created" => runs[t] = 0 /\ retries[t] = 0
    /\ state[t] = "Queued"  => runs[t] = retries[t] /\ retries[t] <= 2
    /\ state[t] = "Running" => runs[t] = retries[t] + 1 /\ retries[t] <= 2
    /\ runs[t] <= 3

Inv == Typed /\ Fresh /\ Placed /\ Mapped /\ Counted

-----------------------------------------------------------------------------
(* notify_one touches nobody but a blocked worker.                         *)
LEMMA NotifyMoves ==
  ASSUME NEW pc \in [Worker -> WorkerStep], NEW q \in NotifyOne(pc)
  PROVE  /\ q \in [Worker -> WorkerStep]
         /\ \A w \in Worker : \/ q[w] = pc[w]
                              \/ pc[w] = "blocked" /\ q[w] = "woken"
  BY DEF NotifyOne, Blocked, WorkerStep

(* The two notifying calls, with what their notification may do spelled    *)
(* out.                                                                    *)
LEMMA SubmitMoves ==
  ASSUME Typed, NEW e \in Expert, NEW p \in Priority, Submit(e, p)
  PROVE  /\ wpc' \in [Worker -> WorkerStep]
         /\ \A w \in Worker : \/ wpc'[w] = wpc[w]
                              \/ wpc[w] = "blocked" /\ wpc'[w] = "woken"
  BY NotifyMoves DEF Typed, TypeOK, Submit

LEMMA RetryMoves ==
  ASSUME Typed, NEW w \in Worker, FailAndRetry(w)
  PROVE  /\ wpc' \in [Worker -> WorkerStep]
         /\ wpc'[w] = "idle"
         /\ \A v \in Worker \ {w} : \/ wpc'[v] = wpc[v]
                                    \/ wpc[v] = "blocked" /\ wpc'[v] = "woken"
<1> DEFINE pc == [wpc EXCEPT ![w] = "idle"]
<1>1. pc \in [Worker -> WorkerStep]
  BY DEF Typed, TypeOK, WorkerStep
<1>2. /\ pc[w] = "idle"
      /\ \A v \in Worker \ {w} : pc[v] = wpc[v]
  BY DEF Typed, TypeOK
<1>3. wpc' \in NotifyOne(pc)
  BY DEF FailAndRetry
<1> HIDE DEF pc
<1>4. QED
  BY <1>1, <1>2, <1>3, NotifyMoves

-----------------------------------------------------------------------------
(* Task numbers are left alone from here on but for these facts.           *)
LEMMA TaskNumbers == Task \subseteq Nat /\ NoTask \notin Task
BY DEF Task, NoTask

LEMMA NextTask ==
  ASSUME NEW t \in 0..MaxTasks, t < MaxTasks
  PROVE  t + 1 \in Task /\ t + 1 \in 0..MaxTasks
BY SchedulerAssumption DEF Task

LEMMA TypedStep == Typed /\ [Next]_vars => Typed'
<1> SUFFICES ASSUME Typed, [Next]_vars PROVE Typed'
  OBVIOUS
<1> USE TaskNumbers DEF Typed, TypeOK, Hands, TransferState
<1>1. ASSUME NEW e \in Expert, NEW p \in Priority, Submit(e, p) PROVE Typed'
  <2>1. sequence + 1 \in Task /\ sequence + 1 \in 0..MaxTasks /\ p \in Int
    BY <1>1, NextTask, SchedulerAssumption DEF Submit
  <2>2. /\ wpc' \in [Worker -> WorkerStep]
        /\ \A w \in Worker : \/ wpc'[w] = wpc[w]
                             \/ wpc[w] = "blocked" /\ wpc'[w] = "woken"
    BY <1>1, SubmitMoves
  <2>3. Hands'
    BY <1>1, <2>2 DEF Submit
  <2>4. TypeOK'
    BY <1>1, <2>1, <2>2 DEF Submit, history
  <2> QED BY <2>3, <2>4
<1>2. ASSUME NEW e \in Expert, Cancel(e) PROVE Typed'
  BY <1>2 DEF Cancel, workerVars, history
<1>3. CASE Close
  BY <1>3 DEF Close, taskVars, history, WorkerStep
<1>4. ASSUME NEW w \in Worker, Take(w) PROVE Typed'
  <2>1. CASE TakeTask(w)
    <3>1. PICK t \in queue :
            /\ queue' = queue \ {t}
            /\ state' = [state EXCEPT ![t] = "Running"]
            /\ wpc' = [wpc EXCEPT ![w] = "working"]
            /\ doing' = [doing EXCEPT ![w] = t]
            /\ runs' = [runs EXCEPT ![t] = @ + 1]
      BY <2>1 DEF TakeTask
    <3>2. t \in Task
      OBVIOUS
    <3>3. Hands'
      BY <3>1, <3>2
    <3>4. state' \in [Task -> TransferState \ {"Waiting"}] /\ runs' \in [Task -> Nat]
      BY <3>1, <3>2
    <3>5. wpc' \in [Worker -> WorkerStep] /\ doing' \in [Worker -> Task \cup {NoTask}]
      BY <3>1, <3>2 DEF WorkerStep
    <3> QED BY <2>1, <3>1, <3>3, <3>4, <3>5 DEF TakeTask
  <2>2. CASE TakeBlocks(w) \/ TakeNone(w) \/ TakeThrows(w)
    <3>1. /\ queue' \subseteq queue
          /\ \E step \in {"idle", "blocked", "done"} :
               wpc' = [wpc EXCEPT ![w] = step]
          /\ wpc[w] \in {"idle", "woken"}
          /\ UNCHANGED <<sequence, taskVars, coalesced, closed, doing, history>>
      BY <2>2 DEF TakeBlocks, TakeNone, TakeThrows, Taking
    <3> QED BY <3>1 DEF taskVars, history, WorkerStep
  <2> QED BY <1>4, <2>1, <2>2 DEF Take
<1>5. ASSUME NEW w \in Worker, SpuriousWakeup(w) PROVE Typed'
  BY <1>5 DEF SpuriousWakeup, taskVars, history, WorkerStep
<1>6. ASSUME NEW w \in Worker, NEW end \in {"Completed", "Failed"},
             wpc[w] = "working", Finish(w, end), retries' \in [Task -> Nat]
      PROVE  Typed'
  <2>1. doing[w] \in Task
    BY <1>6
  <2>2. /\ state' \in [Task -> TransferState \ {"Waiting"}]
        /\ coalesced' \in [Expert -> Task \cup {NoTask}]
        /\ wpc' \in [Worker -> WorkerStep]
    BY <1>6, <2>1 DEF Finish, WorkerStep
  <2>3. Hands'
    BY <1>6 DEF Finish
  <2> QED BY <1>6, <2>2, <2>3 DEF Finish, history
<1>7. ASSUME NEW w \in Worker, Complete(w) \/ FailForGood(w) PROVE Typed'
  <2>1. doing[w] \in Task /\ wpc[w] = "working"
    BY <1>7 DEF Complete, FailForGood
  <2>2. retries' \in [Task -> Nat]
    BY <1>7, <2>1 DEF Complete, FailForGood
  <2> QED BY <1>6, <1>7, <2>1, <2>2 DEF Complete, FailForGood
<1>8. ASSUME NEW w \in Worker, FailAndRetry(w) PROVE Typed'
  <2>1. doing[w] \in Task
    BY <1>8 DEF FailAndRetry
  <2>2. /\ wpc' \in [Worker -> WorkerStep]
        /\ wpc'[w] = "idle"
        /\ \A v \in Worker \ {w} : \/ wpc'[v] = wpc[v]
                                   \/ wpc[v] = "blocked" /\ wpc'[v] = "woken"
    BY <1>8, RetryMoves
  <2>3. state' \in [Task -> TransferState \ {"Waiting"}] /\ queue' \subseteq Task
    BY <1>8, <2>1 DEF FailAndRetry
  <2>4. retries' \in [Task -> Nat]
    <3>1. retries' = [retries EXCEPT ![doing[w]] = retries[doing[w]] + 1]
      BY <1>8 DEF FailAndRetry
    <3>2. retries[doing[w]] + 1 \in Nat
      <4>1. PICK n \in Nat : n = retries[doing[w]]
        BY <2>1
      <4> QED BY <4>1
    <3> QED BY <3>1, <3>2
  <2>5. doing' = [doing EXCEPT ![w] = NoTask]
    BY <1>8 DEF FailAndRetry
  <2>6. Hands'
    BY <2>2, <2>5
  <2>7. UNCHANGED <<sequence, expert, priority, coalesced, closed, runs, told>>
    BY <1>8 DEF FailAndRetry, history
  <2>8. TypeOK'
    BY <2>2, <2>3, <2>4, <2>5, <2>7
  <2> QED BY <2>6, <2>8
<1>9. ASSUME NEW w \in Worker, Abandon(w) PROVE Typed'
  BY <1>9 DEF Abandon, taskVars, history, WorkerStep
<1>10. ASSUME NEW w \in Worker, Callback(w) PROVE Typed'
  <2>1. doing[w] \in Task /\ state[doing[w]] \in TransferState
    BY <1>10 DEF Callback
  <2>2. Append(told[doing[w]], state[doing[w]]) \in Seq(TransferState)
    BY <2>1
  <2>3. told' \in [Task -> Seq(TransferState)]
    BY <1>10, <2>2 DEF Callback
  <2> QED BY <1>10, <2>3 DEF Callback, taskVars, WorkerStep
<1>11. CASE UNCHANGED vars
  BY <1>11 DEF vars, taskVars, workerVars, history
<1> QED
  BY <1>1, <1>2, <1>3, <1>4, <1>5, <1>7, <1>8, <1>9, <1>10, <1>11
     DEF Next, Work

-----------------------------------------------------------------------------
(* One lemma per call that can disturb the invariant.                      *)

LEMMA SubmitStep ==
  ASSUME Inv, Typed', NEW e \in Expert, NEW p \in Priority, Submit(e, p)
  PROVE  Inv'
<1> DEFINE t == sequence + 1
<1> USE TaskNumbers
<1>1. /\ t \in Task /\ state[t] = "Created" /\ t \notin queue
      /\ \A w \in Worker : doing[w] # t
      /\ \A u \in Task : UnderWay(u) => u # t
  BY NextTask, SchedulerAssumption
     DEF Inv, Typed, TypeOK, Fresh, Unborn, Submit, UnderWay
<1>2. /\ wpc' \in [Worker -> WorkerStep]
      /\ \A w \in Worker : \/ wpc'[w] = wpc[w]
                           \/ wpc[w] = "blocked" /\ wpc'[w] = "woken"
  BY SubmitMoves DEF Inv
<1>3. Fresh'
  <2>1. /\ sequence' = t /\ doing' = doing /\ queue' = queue \cup {t}
        /\ state' = [state EXCEPT ![t] = "Queued"]
        /\ expert' = [expert EXCEPT ![t] = e]
    BY DEF Submit
  <2>2. \A u \in Task : u > t => u # t /\ u > sequence
    BY DEF Inv, Typed, TypeOK
  <2>3. \A u \in Task : ~(u > t) => u = t \/ ~(u > sequence)
    BY DEF Inv, Typed, TypeOK
  <2>4. ASSUME NEW u \in Task, u > t PROVE Unborn(u)'
    <3>1. u # t /\ Unborn(u)
      BY <2>2, <2>4 DEF Inv, Fresh
    <3> QED BY <2>1, <3>1 DEF Inv, Typed, TypeOK, Unborn
  <2>5. ASSUME NEW u \in Task, ~(u > t) PROVE expert'[u] \in Expert
    BY <2>1, <2>3, <2>5 DEF Inv, Typed, TypeOK, Fresh
  <2> QED BY <2>1, <2>4, <2>5 DEF Fresh
<1>4. Placed'
  <2>1. /\ doing' = doing /\ queue' = queue \cup {t}
        /\ state'[t] = "Queued" /\ \A u \in Task \ {t} : state'[u] = state[u]
    BY <1>1 DEF Inv, Typed, TypeOK, Submit
  <2>2. /\ queue \subseteq Task /\ t \in Task /\ t \notin queue
        /\ \A w \in Worker : doing[w] \in Task \cup {NoTask} /\ doing[w] # t
        /\ \A w \in Worker : wpc[w] \in {"working", "calling"} => doing[w] # NoTask
    BY <1>1 DEF Inv, Typed, TypeOK, Hands
  <2>3. \A w \in Worker : wpc'[w] \in {"working", "calling"} => wpc[w] = wpc'[w]
    BY <1>2
  <2>4. \A u \in queue' : /\ state'[u] \in {"Queued", "Cancelled"}
                          /\ \A w \in Worker : doing'[w] # u
    BY <2>1, <2>2 DEF Inv, Placed
  <2>5. ASSUME NEW w \in Worker, wpc'[w] \in {"working", "calling"}
        PROVE  wpc[w] = wpc'[w] /\ state'[doing'[w]] = state[doing[w]]
    BY <2>1, <2>2, <2>3, <2>5
  <2> QED BY <2>1, <2>4, <2>5 DEF Inv, Placed
<1>5. \A u \in Task : u # t =>
        /\ UnderWay(u)' => UnderWay(u)
        /\ expert'[u] = expert[u]
  BY <1>1 DEF Inv, Typed, TypeOK, Submit, UnderWay, Alive
<1>6. \A u \in Task : UnderWay(u) => expert[u] # e
  BY DEF Inv, Mapped, Submit, UnderWay
<1>7. Mapped'
  <2>1. /\ coalesced'[e] = t /\ expert'[t] = e
        /\ \A x \in Expert \ {e} : coalesced'[x] = coalesced[x]
    BY <1>1 DEF Inv, Typed, TypeOK, Submit
  <2>2. \A u \in Task : UnderWay(u) => expert[u] \in Expert
    BY DEF Inv, Fresh, Unborn, UnderWay
  <2>3. ASSUME NEW u \in Task, u # t, UnderWay(u)'
        PROVE  coalesced'[expert'[u]] = u
    <3>1. UnderWay(u) /\ expert'[u] = expert[u] /\ coalesced[expert[u]] = u
      BY <1>5, <2>3 DEF Inv, Mapped
    <3> QED BY <1>6, <2>1, <2>2, <3>1
  <2> QED BY <2>1, <2>3 DEF Mapped
<1>8. Counted'
  BY <1>1 DEF Inv, Typed, TypeOK, Counted, Submit, history
<1> QED BY <1>3, <1>4, <1>7, <1>8 DEF Inv

LEMMA CancelStep ==
  ASSUME Inv, Typed', NEW e \in Expert, Cancel(e)
  PROVE  Inv'
<1> USE TaskNumbers
<1>1. Fresh'
  BY DEF Inv, Typed, TypeOK, Fresh, Unborn, Cancel, workerVars, Alive
<1>2. Placed'
  BY DEF Inv, Typed, TypeOK, Hands, Placed, Cancel, workerVars, Alive
<1>3. Mapped'
  BY DEF Inv, Typed, TypeOK, Mapped, Cancel, workerVars, UnderWay, Alive
<1>4. Counted'
  BY DEF Inv, Typed, TypeOK, Counted, Cancel, history
<1> QED BY <1>1, <1>2, <1>3, <1>4 DEF Inv

LEMMA TakeStep ==
  ASSUME Inv, Typed', NEW w \in Worker, Take(w)
  PROVE  Inv'
<1> USE TaskNumbers
<1>1. CASE TakeTask(w)
  <2>1. PICK t \in queue :
          /\ state[t] = "Queued"
          /\ queue' = queue \ {t}
          /\ state' = [state EXCEPT ![t] = "Running"]
          /\ wpc' = [wpc EXCEPT ![w] = "working"]
          /\ doing' = [doing EXCEPT ![w] = t]
          /\ runs' = [runs EXCEPT ![t] = @ + 1]
    BY <1>1 DEF TakeTask
  <2>2. t \in Task /\ UnderWay(t)
    BY <2>1 DEF Inv, Typed, TypeOK, UnderWay, Alive
  <2>3. UNCHANGED <<sequence, expert, priority, retries, coalesced, closed, told>>
    BY <1>1 DEF TakeTask
  <2>4. Fresh'
    BY <2>1, <2>2, <2>3 DEF Inv, Typed, TypeOK, Fresh, Unborn
  <2>5. Placed'
    BY <1>1, <2>1, <2>2 DEF Inv, Typed, TypeOK, Hands, Placed, TakeTask, Taking
  <2>6. \A u \in Task : UnderWay(u)' => UnderWay(u)
    BY <2>1, <2>2 DEF Inv, Typed, TypeOK, UnderWay, Alive
  <2>7. Mapped'
    BY <2>3, <2>6 DEF Inv, Mapped
  <2>8. Counted'
    <3>1. \A u \in Task \ {t} : UNCHANGED <<state[u], runs[u], retries[u]>>
      BY <2>1, <2>3 DEF Inv, Typed, TypeOK
    <3>2. state'[t] = "Running" /\ runs'[t] = runs[t] + 1 /\ retries'[t] = retries[t]
      BY <2>1, <2>2, <2>3 DEF Inv, Typed, TypeOK
    <3>3. runs[t] = retries[t] /\ retries[t] <= 2 /\ retries[t] \in Nat
      BY <2>1, <2>2 DEF Inv, Typed, TypeOK, Counted
    <3> QED BY <3>1, <3>2, <3>3 DEF Inv, Counted
  <2> QED BY <2>4, <2>5, <2>7, <2>8 DEF Inv
<1>2. CASE TakeBlocks(w) \/ TakeNone(w) \/ TakeThrows(w)
  <2>1. /\ UNCHANGED <<sequence, taskVars, coalesced, closed, doing, history>>
        /\ queue' \subseteq queue
        /\ wpc'[w] \in {"idle", "blocked", "done"}
        /\ \A v \in Worker \ {w} : wpc'[v] = wpc[v]
    BY <1>2 DEF TakeBlocks, TakeNone, TakeThrows, Inv, Typed, TypeOK
  <2>2. Fresh' /\ Counted'
    BY <2>1 DEF Inv, Fresh, Unborn, Counted, taskVars, history
  <2>3. Placed'
    BY <2>1 DEF Inv, Placed, taskVars
  <2>4. Mapped'
    BY <2>1 DEF Inv, Mapped, UnderWay, Alive, taskVars
  <2> QED BY <2>2, <2>3, <2>4 DEF Inv
<1> QED BY <1>1, <1>2 DEF Take

LEMMA FinishStep ==
  ASSUME Inv, Typed', NEW w \in Worker, Complete(w) \/ FailForGood(w)
  PROVE  Inv'
<1> USE TaskNumbers
<1> DEFINE t == doing[w]
<1>1. /\ t \in Task /\ t \notin queue /\ expert[t] \in Expert
      /\ state[t] = "Running" /\ UnderWay(t)
      /\ \A v \in Worker : doing[v] = t => v = w
  <2>1. t \in Task /\ state[t] = "Running"
    BY DEF Inv, Typed, TypeOK, Hands, Complete, FailForGood, Finish
  <2>2. t \notin queue /\ \A v \in Worker : doing[v] = t => v = w
    BY <2>1 DEF Inv, Placed
  <2>3. expert[t] \in Expert
    BY <2>1 DEF Inv, Fresh, Unborn
  <2> QED BY <2>1, <2>2, <2>3 DEF UnderWay, Alive
<1>2. \E end \in {"Completed", "Failed"} :
        /\ state' = [state EXCEPT ![t] = end]
        /\ coalesced' = [coalesced EXCEPT ![expert[t]] = NoTask]
        /\ wpc' = [wpc EXCEPT ![w] = "calling"]
        /\ UNCHANGED <<sequence, expert, priority, queue, closed, doing, history>>
        /\ \A u \in Task \ {t} : retries'[u] = retries[u]
  BY <1>1 DEF Inv, Typed, TypeOK, Complete, FailForGood, Finish
<1>3. Fresh'
  BY <1>1, <1>2 DEF Inv, Typed, TypeOK, Fresh, Unborn
<1>4. Placed'
  BY <1>1, <1>2 DEF Inv, Typed, TypeOK, Hands, Placed
<1>5. \A u \in Task : UnderWay(u)' => UnderWay(u) /\ u # t
  BY <1>1, <1>2 DEF Inv, Typed, TypeOK, UnderWay, Alive
<1>6. \A u \in Task : UnderWay(u) /\ u # t => expert[u] # expert[t]
  BY <1>1 DEF Inv, Mapped
<1>7. Mapped'
  <2> SUFFICES ASSUME NEW u \in Task, UnderWay(u)'
               PROVE  coalesced'[expert'[u]] = u
    BY DEF Mapped
  <2>1. UnderWay(u) /\ expert'[u] = expert[u] /\ expert[u] # expert[t]
    BY <1>2, <1>5, <1>6
  <2>2. coalesced[expert[u]] = u /\ expert[u] \in Expert
    BY <2>1 DEF Inv, Mapped, Fresh, Unborn, UnderWay
  <2> QED BY <1>2, <2>1, <2>2 DEF Inv, Typed, TypeOK
<1>8. Counted'
  BY <1>1, <1>2 DEF Inv, Typed, TypeOK, Counted, history
<1> QED BY <1>3, <1>4, <1>7, <1>8 DEF Inv

LEMMA RetryStep ==
  ASSUME Inv, Typed', NEW w \in Worker, FailAndRetry(w)
  PROVE  Inv'
<1> USE TaskNumbers
<1> DEFINE t == doing[w]
<1>1. /\ t \in Task /\ t \notin queue /\ expert[t] \in Expert /\ ~(t > sequence)
      /\ state[t] = "Running" /\ UnderWay(t)
      /\ \A v \in Worker : doing[v] = t => v = w
  <2>1. t \in Task /\ state[t] = "Running"
    BY DEF Inv, Typed, TypeOK, Hands, FailAndRetry
  <2>2. t \notin queue /\ \A v \in Worker : doing[v] = t => v = w
    BY <2>1 DEF Inv, Placed
  <2>3. expert[t] \in Expert /\ ~(t > sequence)
    BY <2>1 DEF Inv, Fresh, Unborn
  <2> QED BY <2>1, <2>2, <2>3 DEF UnderWay, Alive
<1>2. /\ wpc' \in [Worker -> WorkerStep]
      /\ wpc'[w] = "idle"
      /\ \A v \in Worker \ {w} : \/ wpc'[v] = wpc[v]
                                 \/ wpc[v] = "blocked" /\ wpc'[v] = "woken"
  BY RetryMoves DEF Inv
<1>3. Fresh'
  BY <1>1 DEF Inv, Typed, TypeOK, Fresh, Unborn, FailAndRetry
<1>4. Placed'
  BY <1>1, <1>2 DEF Inv, Typed, TypeOK, Hands, Placed, FailAndRetry
<1>5. Mapped'
  BY <1>1 DEF Inv, Typed, TypeOK, Mapped, UnderWay, Alive, FailAndRetry
<1>6. Counted'
  BY <1>1 DEF Inv, Typed, TypeOK, Counted, FailAndRetry, history
<1> QED BY <1>3, <1>4, <1>5, <1>6 DEF Inv

\* The worker lets go of its task.
LEMMA LetGoStep ==
  ASSUME Inv, Typed', NEW w \in Worker, Abandon(w) \/ Callback(w)
  PROVE  Inv'
<1> USE TaskNumbers
<1>1. /\ UNCHANGED <<sequence, taskVars, queue, coalesced, closed, runs>>
      /\ wpc' = [wpc EXCEPT ![w] = "idle"]
      /\ doing' = [doing EXCEPT ![w] = NoTask]
  BY DEF Abandon, Callback, history
<1>2. Fresh' /\ Counted'
  BY <1>1 DEF Inv, Typed, TypeOK, Fresh, Unborn, Counted, taskVars
<1>3. Placed'
  BY <1>1 DEF Inv, Typed, TypeOK, Placed, taskVars
<1>4. Mapped'
  BY <1>1 DEF Inv, Typed, TypeOK, Mapped, UnderWay, Alive, taskVars
<1> QED BY <1>2, <1>3, <1>4 DEF Inv

LEMMA WakeStep ==
  ASSUME Inv, Typed', Close \/ \E w \in Worker : SpuriousWakeup(w)
  PROVE  Inv'
<1>1. /\ UNCHANGED <<sequence, taskVars, queue, coalesced, doing, history>>
      /\ \A w \in Worker : \/ wpc'[w] = wpc[w]
                           \/ wpc[w] = "blocked" /\ wpc'[w] = "woken"
  BY DEF Inv, Typed, TypeOK, Close, SpuriousWakeup
<1> QED
  BY <1>1 DEF Inv, Fresh, Unborn, Placed, Mapped, Counted, UnderWay, Alive, taskVars,
              history

LEMMA InvStep == Inv /\ [Next]_vars => Inv'
<1> SUFFICES ASSUME Inv, [Next]_vars PROVE Inv'
  OBVIOUS
<1>1. Typed'
  BY TypedStep DEF Inv
<1>2. CASE UNCHANGED vars
  BY <1>1, <1>2 DEF Inv, Fresh, Unborn, Placed, Mapped, Counted, UnderWay, Alive, vars,
                    taskVars, workerVars, history
<1> QED
  BY <1>1, <1>2, SubmitStep, CancelStep, TakeStep, FinishStep, RetryStep,
     LetGoStep, WakeStep DEF Next, Work

LEMMA InvInit == Init => Inv
<1> SUFFICES ASSUME Init PROVE Inv
  OBVIOUS
<1> USE TaskNumbers DEF Init
<1>1. Typed
  <2>1. TypeOK
    <3>1. <<>> \in Seq(TransferState) /\ 0 \in 0..MaxTasks
      BY SchedulerAssumption
    <3>2. told \in [Task -> Seq(TransferState)]
      BY <3>1
    <3>3. /\ state \in [Task -> TransferState \ {"Waiting"}] /\ retries \in [Task -> Nat]
          /\ runs \in [Task -> Nat] /\ priority \in [Task -> Int]
          /\ expert \in [Task -> Expert \cup {NoExpert}]
      BY DEF TransferState
    <3>4. /\ coalesced \in [Expert -> Task \cup {NoTask}]
          /\ doing \in [Worker -> Task \cup {NoTask}]
          /\ wpc \in [Worker -> WorkerStep]
      BY DEF WorkerStep
    <3> QED BY <3>1, <3>2, <3>3, <3>4 DEF TypeOK
  <2>2. Hands
    BY DEF Hands
  <2> QED BY <2>1, <2>2 DEF Typed
<1>2. Fresh /\ Placed /\ Mapped /\ Counted
  BY DEF Fresh, Unborn, Placed, Mapped, Counted, UnderWay
<1> QED BY <1>1, <1>2 DEF Inv

LEMMA Invariant == Spec => []Inv
  BY InvInit, InvStep, PTL DEF Spec

-----------------------------------------------------------------------------
(* The variables keep their types, whatever is called in whatever order.   *)
THEOREM SchedulerTypes == Spec => []TypeOK
<1>1. Inv => TypeOK
  BY DEF Inv, Typed
<1> QED BY <1>1, Invariant, PTL

(* submit, cancel, fail and complete keep the coalescing map right for     *)
(* each other: an expert never has two transfers under way.                *)
THEOREM CoalescingSound == Spec => []OneTaskPerExpert
<1>1. Inv => OneTaskPerExpert
  BY DEF Inv, Mapped, OneTaskPerExpert
<1> QED BY <1>1, Invariant, PTL

(* However often its workers fail it, a transfer runs at most three times. *)
THEOREM RetriesBounded == Spec => []RunsBounded
<1>1. Inv => RunsBounded
  BY DEF Inv, Counted, RunsBounded
<1> QED BY <1>1, Invariant, PTL

-----------------------------------------------------------------------------
(* The order in which tasks start.  A task that waits is in the heap, so   *)
(* that take compares it with what it hands out, and one that was started  *)
(* is known to have been.                                                  *)
Accounted ==
  /\ \A t \in Task : state[t] = "Queued" => t \in queue
  /\ \A t \in Task : state[t] \in Finished => Started(t)
  /\ \A t \in Task : t <= sequence => state[t] # "Created"

Ordered == Accounted /\ NoOvertaking

\* A task once started, cancelled or submitted with its priority stays so.
LEMMA Settled ==
  ASSUME Inv, [Next]_vars
  PROVE  /\ \A t \in Task : t <= sequence => t <= sequence' /\ priority'[t] = priority[t]
         /\ \A t \in Task : Started(t) => Started(t)' /\ t <= sequence
         /\ \A t \in Task : state[t] = "Cancelled" => state'[t] = "Cancelled"
         /\ runs' = runs \/ \E w \in Worker : TakeTask(w)
<1> DEFINE Steady ==
             /\ \A t \in Task : t <= sequence => t <= sequence' /\ priority'[t] = priority[t]
             /\ \A t \in Task : Started(t) => Started(t)' /\ t <= sequence
             /\ \A t \in Task : state[t] = "Cancelled" => state'[t] = "Cancelled"
<1> USE TaskNumbers DEF Inv, Typed, TypeOK
<1>1. \A t \in Task : Started(t) => t <= sequence
  BY DEF Fresh, Unborn, Counted, Started
<1>2. ASSUME NEW e \in Expert, NEW p \in Priority, Submit(e, p)
      PROVE  /\ sequence' = sequence + 1 /\ runs' = runs
             /\ \A t \in Task : t <= sequence => priority'[t] = priority[t]
                                                 /\ state'[t] = state[t]
             /\ state[sequence + 1] = "Created" /\ sequence + 1 \in Task
             /\ \A t \in Task : t # sequence + 1 => state'[t] = state[t]
  BY <1>2, NextTask DEF Submit, history, Fresh, Unborn
<1>3. ASSUME NEW e \in Expert, Cancel(e)
      PROVE  /\ UNCHANGED <<sequence, priority, runs>>
             /\ \A t \in Task : state[t] = "Cancelled" => state'[t] = "Cancelled"
  BY <1>3 DEF Cancel, history
<1>4. ASSUME NEW w \in Worker, TakeTask(w)
      PROVE  /\ UNCHANGED <<sequence, priority>>
             /\ \A t \in Task : Started(t) => Started(t)'
             /\ \A t \in Task : state[t] = "Cancelled" => state'[t] = "Cancelled"
  BY <1>4 DEF TakeTask, Started
<1>5. ASSUME NEW w \in Worker, Complete(w) \/ FailForGood(w) \/ FailAndRetry(w)
      PROVE  /\ UNCHANGED <<sequence, priority, runs>>
             /\ \A t \in Task : state[t] = "Cancelled" => state'[t] = "Cancelled"
  BY <1>5 DEF Complete, FailForGood, Finish, FailAndRetry, history
<1>6. CASE UNCHANGED <<sequence, priority, runs, state>>
  BY <1>1, <1>6 DEF Started
<1>7. \/ UNCHANGED <<sequence, priority, runs, state>>
      \/ \E e \in Expert : Cancel(e) \/ \E p \in Priority : Submit(e, p)
      \/ \E w \in Worker : TakeTask(w) \/ Complete(w) \/ FailForGood(w) \/ FailAndRetry(w)
  BY DEF Next, Close, Take, TakeBlocks, TakeNone, TakeThrows, SpuriousWakeup, Work,
         Abandon, Callback, vars, taskVars, history
<1>8. ASSUME NEW e \in Expert, NEW p \in Priority, Submit(e, p)
      PROVE  Steady /\ runs' = runs
  BY <1>1, <1>2, <1>8 DEF Started
<1>9. ASSUME NEW w \in Worker, Complete(w) \/ FailForGood(w) \/ FailAndRetry(w)
      PROVE  Steady /\ runs' = runs
  BY <1>1, <1>5, <1>9 DEF Started
<1>10. ASSUME NEW e \in Expert, Cancel(e) PROVE Steady /\ runs' = runs
  BY <1>1, <1>3, <1>10 DEF Started
<1>11. ASSUME NEW w \in Worker, TakeTask(w) PROVE Steady
  BY <1>1, <1>4, <1>11
<1> QED BY <1>6, <1>7, <1>8, <1>9, <1>10, <1>11

LEMMA AccountedStep ==
  ASSUME Inv, Accounted, [Next]_vars
  PROVE  Accounted'
<1> USE TaskNumbers DEF Inv, Typed, TypeOK, Accounted, Finished, Started
<1>1. ASSUME NEW e \in Expert, NEW p \in Priority, Submit(e, p) PROVE Accounted'
  BY <1>1, NextTask DEF Submit, history
<1>2. ASSUME NEW e \in Expert, Cancel(e) PROVE Accounted'
  BY <1>2 DEF Cancel, history
<1>3. ASSUME NEW w \in Worker, TakeTask(w) PROVE Accounted'
  <2>1. PICK t \in queue : /\ queue' = queue \ {t} /\ state' = [state EXCEPT ![t] = "Running"]
                           /\ runs' = [runs EXCEPT ![t] = @ + 1] /\ sequence' = sequence
    BY <1>3 DEF TakeTask
  <2>2. \A u \in Task : u # t => state'[u] = state[u] /\ runs'[u] = runs[u]
    BY <2>1
  <2>3. t \in Task /\ state'[t] = "Running"
    BY <2>1
  <2> QED BY <2>1, <2>2, <2>3
<1>8. ASSUME NEW w \in Worker, TakeThrows(w) PROVE Accounted'
  <2>1. PICK t \in queue : queue' = queue \ {t} /\ state[t] # "Queued"
    BY <1>8 DEF TakeThrows
  <2>2. UNCHANGED <<state, runs, sequence>>
    BY <1>8 DEF TakeThrows, taskVars, history
  <2> QED BY <2>1, <2>2
<1>4. ASSUME NEW w \in Worker, Complete(w) \/ FailForGood(w) PROVE Accounted'
  <2>1. /\ runs' = runs /\ queue' = queue /\ sequence' = sequence
        /\ \E end \in {"Completed", "Failed"} : state' = [state EXCEPT ![doing[w]] = end]
        /\ state[doing[w]] = "Running" /\ doing[w] \in Task
    BY <1>4 DEF Complete, FailForGood, Finish, history, Hands
  <2>2. runs[doing[w]] > 0
    BY <2>1 DEF Counted
  <2> QED BY <2>1, <2>2
<1>5. ASSUME NEW w \in Worker, FailAndRetry(w) PROVE Accounted'
  BY <1>5 DEF FailAndRetry, history
<1>6. CASE UNCHANGED <<sequence, state, runs, queue>>
  BY <1>6
<1>7. \/ UNCHANGED <<sequence, state, runs, queue>>
      \/ \E e \in Expert : Cancel(e) \/ \E p \in Priority : Submit(e, p)
      \/ \E w \in Worker : \/ TakeTask(w) \/ TakeThrows(w)
                           \/ Complete(w) \/ FailForGood(w) \/ FailAndRetry(w)
  BY DEF Next, Close, Take, TakeBlocks, TakeNone, SpuriousWakeup, Work,
         Abandon, Callback, vars, taskVars, history
<1> QED BY <1>1, <1>2, <1>3, <1>4, <1>5, <1>6, <1>7, <1>8

\* What take starts, it starts before everything else that waits.
LEMMA TakenInOrder ==
  ASSUME Inv, Ordered, NEW w \in Worker, TakeTask(w)
  PROVE  NoOvertaking'
<1> USE TaskNumbers DEF Inv, Typed, TypeOK
<1>1. PICK x \in queue :
        /\ \A u \in queue : Before(x, u)
        /\ runs' = [runs EXCEPT ![x] = @ + 1]
        /\ state' = [state EXCEPT ![x] = "Running"] /\ state[x] = "Queued"
        /\ priority' = priority
  BY DEF TakeTask
<1>2. /\ x \in Task /\ Started(x)' /\ x <= sequence
      /\ \A t \in Task \ {x} : /\ Started(t)' <=> Started(t)
                               /\ state'[t] = state[t]
  BY <1>1 DEF Started, Fresh, Unborn
<1>3. ASSUME NEW t \in Task, t < x, priority[t] >= priority[x],
             ~Started(t), state[t] # "Cancelled"
      PROVE  FALSE
  <2>1. ~Before(x, t)
    BY <1>2, <1>3 DEF Before
  <2>2. t <= sequence
    BY <1>2, <1>3, SchedulerAssumption
  <2>3. state[t] # "Running"
    BY <1>3 DEF Counted, Started
  <2> QED BY <1>1, <1>3, <2>1, <2>2, <2>3 DEF Ordered, Accounted, TransferState, Finished
<1> SUFFICES ASSUME NEW t \in Task, NEW u \in Task, t < u, priority[t] >= priority[u],
                    Started(u)'
             PROVE  Started(t)' \/ state'[t] = "Cancelled"
  BY <1>1 DEF NoOvertaking
<1>4. CASE u = x
  BY <1>2, <1>3, <1>4
<1>5. CASE u # x
  BY <1>2, <1>5 DEF Ordered, NoOvertaking
<1> QED BY <1>4, <1>5

LEMMA OrderedStep == Inv /\ Ordered /\ [Next]_vars => Ordered'
<1> SUFFICES ASSUME Inv, Ordered, [Next]_vars PROVE Ordered'
  OBVIOUS
<1> USE TaskNumbers
<1>1. NoOvertaking'
  <2>1. CASE \E w \in Worker : TakeTask(w)
    BY <2>1, TakenInOrder
  <2>2. CASE ~\E w \in Worker : TakeTask(w)
    <3> SUFFICES ASSUME NEW t \in Task, NEW u \in Task, t < u,
                        priority'[t] >= priority'[u], Started(u)'
                 PROVE  Started(t)' \/ state'[t] = "Cancelled"
      BY DEF NoOvertaking
    <3>1. Started(u) /\ u <= sequence
      BY <2>2, Settled DEF Started
    <3>2. t <= sequence /\ sequence \in Nat
      BY <3>1, SchedulerAssumption DEF Inv, Typed, TypeOK
    <3>3. priority[t] >= priority[u]
      BY <3>1, <3>2, Settled
    <3> QED BY <3>1, <3>3, Settled DEF Ordered, NoOvertaking
  <2> QED BY <2>1, <2>2
<1> QED BY <1>1, AccountedStep DEF Ordered

(* Whatever is cancelled or retried behind the heap's back, no transfer    *)
(* starts before an earlier one of at least its priority, for any number   *)
(* of tasks, priorities and workers.                                       *)
THEOREM StartsInOrder == Spec => []NoOvertaking
<1>1. Init => Ordered
  BY TaskNumbers, SchedulerAssumption
     DEF Init, Ordered, Accounted, NoOvertaking, Started, Finished, Task
<1>2. Ordered => NoOvertaking
  BY DEF Ordered
<1> QED BY <1>1, <1>2, OrderedStep, Invariant, PTL DEF Spec

-----------------------------------------------------------------------------
(* Callbacks.  A worker that is about to call back is the first to do so.  *)
Answered ==
  /\ CallbackOnce
  /\ \A w \in Worker : wpc[w] = "calling" => told[doing[w]] = <<>>

LEMMA AnsweredStep == Inv /\ Answered /\ [Next]_vars => Answered'
<1> SUFFICES ASSUME Inv, Answered, [Next]_vars PROVE Answered'
  OBVIOUS
<1> USE TaskNumbers DEF Inv, Typed, TypeOK, Answered, CallbackOnce, CalledBack, Terminal, Finished
<1>1. ASSUME NEW e \in Expert, NEW p \in Priority, Submit(e, p) PROVE Answered'
  <2>1. /\ \A w \in Worker : wpc'[w] = "calling" <=> wpc[w] = "calling"
        /\ told' = told /\ doing' = doing
    BY <1>1, SubmitMoves DEF Submit, history
  <2>2. /\ \A t \in Task \ {sequence + 1} : state'[t] = state[t]
        /\ state[sequence + 1] = "Created" /\ state'[sequence + 1] = "Queued"
        /\ sequence + 1 \in Task
    BY <1>1, NextTask DEF Submit, Fresh, Unborn
  <2> QED BY <2>1, <2>2
<1>2. ASSUME NEW e \in Expert, Cancel(e) PROVE Answered'
  <2>1. UNCHANGED <<told, wpc, doing>>
    BY <1>2 DEF Cancel, history, workerVars
  <2>2. \A t \in Task : \/ state'[t] = state[t]
                        \/ state[t] = "Queued" /\ state'[t] = "Cancelled"
    BY <1>2 DEF Cancel
  <2> QED BY <2>1, <2>2
<1>3. ASSUME NEW w \in Worker, TakeTask(w) PROVE Answered'
  <2>1. PICK x \in queue :
          /\ state' = [state EXCEPT ![x] = "Running"] /\ state[x] = "Queued"
          /\ wpc' = [wpc EXCEPT ![w] = "working"]
          /\ doing' = [doing EXCEPT ![w] = x]
          /\ told' = told /\ wpc[w] # "calling"
    BY <1>3 DEF TakeTask, Taking
  <2> QED BY <2>1
<1>4. ASSUME NEW w \in Worker, Complete(w) \/ FailForGood(w) PROVE Answered'
  <2>1. /\ \E end \in {"Completed", "Failed"} : state' = [state EXCEPT ![doing[w]] = end]
        /\ wpc' = [wpc EXCEPT ![w] = "calling"] /\ UNCHANGED <<told, doing>>
        /\ state[doing[w]] = "Running" /\ doing[w] \in Task
    BY <1>4 DEF Complete, FailForGood, Finish, history, Hands
  <2>2. told[doing[w]] = <<>>
    BY <2>1
  <2> QED BY <2>1, <2>2
<1>5. ASSUME NEW w \in Worker, FailAndRetry(w) PROVE Answered'
  <2>1. /\ state' = [state EXCEPT ![doing[w]] = "Queued"] /\ told' = told
        /\ doing' = [doing EXCEPT ![w] = NoTask]
        /\ state[doing[w]] = "Running" /\ doing[w] \in Task /\ wpc[w] = "working"
    BY <1>5 DEF FailAndRetry, history, Hands
  <2>2. \A v \in Worker : wpc'[v] = "calling" <=> wpc[v] = "calling"
    BY <1>5, <2>1, RetryMoves
  <2> QED BY <2>1, <2>2
<1>6. ASSUME NEW w \in Worker, Callback(w) PROVE Answered'
  <2>1. /\ doing[w] \in Task /\ told[doing[w]] = <<>>
        /\ state[doing[w]] \in {"Completed", "Failed"}
    BY <1>6 DEF Callback, Hands, Placed
  <2>2. Append(told[doing[w]], state[doing[w]]) = <<state[doing[w]]>>
    BY <2>1
  <2>3. /\ told' = [told EXCEPT ![doing[w]] = <<state[doing[w]]>>]
        /\ wpc' = [wpc EXCEPT ![w] = "idle"]
        /\ doing' = [doing EXCEPT ![w] = NoTask]
        /\ state' = state
    BY <1>6, <2>2 DEF Callback, taskVars
  <2>4. \A v \in Worker \ {w} : wpc[v] = "calling" => doing[v] # doing[w]
    BY <2>1 DEF Placed, Hands
  <2>5. <<state[doing[w]]>> # <<>>
    OBVIOUS
  <2> QED BY <2>1, <2>3, <2>4, <2>5
<1>7. ASSUME NEW w \in Worker, \/ TakeBlocks(w) \/ TakeNone(w) \/ TakeThrows(w)
                               \/ SpuriousWakeup(w) \/ Abandon(w)
      PROVE  Answered'
  <2>1. /\ UNCHANGED <<state, told>> /\ wpc[w] # "calling" /\ wpc'[w] # "calling"
        /\ \A v \in Worker \ {w} : wpc'[v] = wpc[v] /\ doing'[v] = doing[v]
    BY <1>7 DEF TakeBlocks, TakeNone, TakeThrows, SpuriousWakeup, Abandon, Taking,
       taskVars, history
  <2> QED BY <2>1
<1>8. CASE Close
  <2>1. /\ UNCHANGED <<state, told, doing>>
        /\ \A v \in Worker : wpc'[v] = "calling" <=> wpc[v] = "calling"
    BY <1>8 DEF Close, taskVars, history
  <2> QED BY <2>1
<1>9. CASE UNCHANGED vars
  BY <1>9 DEF vars, taskVars, workerVars, history
<1> QED BY <1>1, <1>2, <1>3, <1>4, <1>5, <1>6, <1>7, <1>8, <1>9 DEF Next, Take, Work

(* However workers, cancellations and closing interleave, the callback of  *)
(* a transfer that completed or failed is run once, with its outcome, and  *)
(* none is run before its transfer has ended.                              *)
THEOREM CallbacksRunOnce == Spec => []CallbackOnce
<1>1. Init => Answered
  BY DEF Init, Answered, CallbackOnce, Finished, Terminal
<1>2. Answered => CallbackOnce
  BY DEF Answered
<1> QED BY <1>1, <1>2, AnsweredStep, Invariant, PTL DEF Spec

=============================================================================
