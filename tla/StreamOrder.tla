---------------------------- MODULE StreamOrder ----------------------------
(***************************************************************************)
(* CUDA streams as the code relies on them: a stream runs its operations   *)
(* in the order they were issued, streams run independently, and a wait    *)
(* holds its stream until another has got as far as it had when the wait   *)
(* (or the event the wait names) was issued.  What an operation does to    *)
(* memory is up to the module that issues it.                              *)
(***************************************************************************)
EXTENDS Naturals, Sequences

CONSTANT Stream

VARIABLES
  pending,   \* stream -> operations issued and not yet run
  ran        \* stream -> how many operations it has run

streamVars == <<pending, ran>>

StreamsInit == pending = [s \in Stream |-> <<>>] /\ ran = [s \in Stream |-> 0]

\* A kernel or copy that reads and writes pieces of memory on behalf of "by".
Work(by, kind, reads, writes) ==
  [do |-> kind, by |-> by, reads |-> reads, writes |-> writes]
WaitFor(s, position) == [do |-> "wait", on |-> s, position |-> position]

\* How far a stream will have got when all it has been given is done.
Issued(s) == ran[s] + Len(pending[s])

Issue(s, ops) ==
  /\ pending' = [pending EXCEPT ![s] = @ \o ops]
  /\ UNCHANGED ran

Front(s) == Head(pending[s])
Waits(s) == pending[s] # <<>> /\ Front(s).do = "wait"
MayRun(s) ==
  /\ pending[s] # <<>>
  /\ Front(s).do = "wait" => ran[Front(s).on] >= Front(s).position

RunOne(s) ==
  /\ MayRun(s)
  /\ pending' = [pending EXCEPT ![s] = Tail(@)]
  /\ ran' = [ran EXCEPT ![s] = @ + 1]

Drained(s) == pending[s] = <<>>
AllDrained == \A s \in Stream : Drained(s)

\* Two operations that may run at the same time, one of which writes what the
\* other reads or writes.
MayRunWork(s) == MayRun(s) /\ ~Waits(s)
Clash(s, t) ==
  /\ s # t /\ MayRunWork(s) /\ MayRunWork(t)
  /\ Front(s).writes \cap (Front(t).reads \cup Front(t).writes) # {}
=============================================================================
