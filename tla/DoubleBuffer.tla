---------------------------- MODULE DoubleBuffer ----------------------------
(***************************************************************************)
(* What the engine promises the executor about locally staged experts: a   *)
(* front slot that computation reads, a back slot that is filled meanwhile *)
(* and a swap that never takes the front expert from one of its users.     *)
(***************************************************************************)
CONSTANTS
  Expert,   (* the experts that can be staged     *)
  Client,   (* the threads that use them          *)
  None      (* an empty slot                      *)

VARIABLES
  front,    (* the expert computation may read    *)
  back,     (* the expert staged for the next one *)
  users     (* pairs <<c, e>>: c is using e       *)

vars == <<front, back, users>>

Init == front = None /\ back = None /\ users = {}

\* An expert arrives in an empty back slot.
Stage(e) ==
  /\ back = None /\ e # front
  /\ back' = e
  /\ UNCHANGED <<front, users>>

\* The front slot is emptied once nobody uses it ...
Retire ==
  /\ users = {}
  /\ front' = None
  /\ UNCHANGED <<back, users>>

\* ... and then the back expert comes to the front.
Flip ==
  /\ front = None
  /\ front' = back /\ back' = None
  /\ UNCHANGED users

Acquire(c) ==
  /\ front # None
  /\ users' = users \cup {<<c, front>>}
  /\ UNCHANGED <<front, back>>

Release(c, e) ==
  /\ <<c, e>> \in users
  /\ users' = users \ {<<c, e>>}
  /\ UNCHANGED <<front, back>>

\* The engine is shut down while nobody uses it.
Reset ==
  /\ users = {}
  /\ front' = None /\ back' = None
  /\ UNCHANGED users

Next ==
  \/ \E e \in Expert : Stage(e)
  \/ Retire \/ Flip \/ Reset
  \/ \E c \in Client : Acquire(c) \/ \E e \in Expert : Release(c, e)

Spec == Init /\ [][Next]_vars

=============================================================================
