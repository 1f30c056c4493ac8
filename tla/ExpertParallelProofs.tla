------------------------ MODULE ExpertParallelProofs ------------------------
(***************************************************************************)
(* For any number of ranks, experts, layers and passes, whatever fails at  *)
(* load time and whichever path each rank takes in each pass: the ranks'   *)
(* collectives are a rendezvous, their tables place experts on ranks that  *)
(* hold them and know as many as their gathers brought, with the handles   *)
(* of the layer whose gather was met, the plans made from the tables can   *)
(* be executed and move every byte once, what a rank takes in an exchange  *)
(* has the rows its split sizes announce, and a forward returns to each    *)
(* assignment what its expert computes.                                    *)
(***************************************************************************)
EXTENDS ExpertParallel, FiniteSetTheorems, TLAPS

Control == Collective \cup {"init", "boot", "attach", "idle", "execute"}

\* Messages of s that r has not taken.
Pending(s, r) == Len(mail[s][r])

\* What r has in its mail from s is what s entered and r has not finished.
CollInv ==
  /\ pc \in [Rank -> Control]
  /\ comm \in [Rank -> {"up", "broken"}]
  /\ calls \in [Rank -> Nat]
  /\ \E M : mail \in [Rank -> [Rank -> Seq(M)]]
  /\ \A r \in Rank : Waiting(r) => comm[r] = "up"
  /\ \A s, r \in Rank : Pending(s, r) \in Nat /\ Pending(s, r) = calls[s] - Finished[r]

\* A step in which r enters in (0 or 1) collectives and leaves fin of them.
Sends(r, in, fin) ==
  /\ calls' \in [Rank -> Nat]
  /\ calls' = [calls EXCEPT ![r] = @ + in]
  /\ \E M : mail' \in [Rank -> [Rank -> Seq(M)]]
  /\ \A s, d \in Rank : s # r /\ d # r => Pending(s, d)' = Pending(s, d)
  /\ \A d \in Rank : d # r => Pending(r, d)' = Pending(r, d) + in
  /\ \A s \in Rank : s # r => Pending(s, r)' = Pending(s, r) - fin
  /\ Pending(r, r)' = (Pending(r, r) + in) - fin
  /\ fin = 1 => Arrived(r)

\* What it does to the rank's own place: others keep theirs.
Turns(r, in, fin) ==
  /\ pc' \in [Rank -> Control]
  /\ comm' \in [Rank -> {"up", "broken"}]
  /\ \A q \in Rank : q # r => pc'[q] = pc[q] /\ comm'[q] = comm[q]
  /\ Waiting(r)' => comm'[r] = "up"
  /\ Finished'[r] = Finished[r] + fin
  /\ in = 1 => Finished[r] + fin = calls[r]
  /\ fin = 1 => Waiting(r)

-----------------------------------------------------------------------------
(* What the operations on collectives do to the mail.                      *)

LEMMA SeqGrows ==
  ASSUME NEW M, NEW N, NEW x \in N, NEW t \in Seq(M)
  PROVE  t \in Seq(M \cup N) /\ Append(t, x) \in Seq(M \cup N)
         /\ Len(Append(t, x)) = Len(t) + 1
  OBVIOUS

LEMMA SeqShrinks ==
  ASSUME NEW M, NEW t \in Seq(M), t # <<>>
  PROVE  Tail(t) \in Seq(M) /\ Len(Tail(t)) = Len(t) - 1 /\ Len(t) >= 1
  OBVIOUS

LEMMA EnterSends ==
  ASSUME CollInv, NEW r \in Rank, NEW kind, NEW parts, Enter(r, kind, parts)
  PROVE  Sends(r, 1, 0)
<1>1. PICK M : mail \in [Rank -> [Rank -> Seq(M)]]
  BY DEF CollInv
<1> DEFINE N == {<<kind, parts[d]>> : d \in Rank}
<1>2. mail' = [mail EXCEPT ![r] = [d \in Rank |-> Append(mail[r][d], <<kind, parts[d]>>)]]
  BY DEF Enter
<1>3. \A d \in Rank : <<kind, parts[d]>> \in N
  OBVIOUS
<1> HIDE DEF N
<1>4. \A d \in Rank : /\ mail'[r][d] \in Seq(M \cup N)
                      /\ Pending(r, d)' = Pending(r, d) + 1
  BY <1>1, <1>2, <1>3, SeqGrows DEF Pending
<1>5. \A s, d \in Rank : s # r => mail'[s][d] = mail[s][d] /\ mail[s][d] \in Seq(M \cup N)
  <2>1. \A x : x \in N => \A s, d \in Rank : mail[s][d] \in Seq(M \cup N)
    BY <1>1, SeqGrows
  <2>2. \E x : x \in N
    BY <1>3
  <2> QED
    BY <1>1, <1>2, <2>1, <2>2
<1>6. mail' \in [Rank -> [Rank -> Seq(M \cup N)]]
  <2>1. \A s \in Rank : mail'[s] \in [Rank -> Seq(M \cup N)]
    <3>1. mail'[r] = [d \in Rank |-> mail'[r][d]]
      BY <1>1, <1>2
    <3>2. \A s \in Rank : s # r => mail'[s] = [d \in Rank |-> mail'[s][d]]
      BY <1>1, <1>2
    <3> QED
      BY <3>1, <3>2, <1>4, <1>5
  <2>2. mail' = [s \in Rank |-> mail'[s]]
    BY <1>1, <1>2
  <2> QED
    BY <2>1, <2>2
<1>7. \A s, d \in Rank : Pending(s, d) \in Nat
  BY DEF CollInv
<1>8. calls' = [calls EXCEPT ![r] = @ + 1] /\ calls' \in [Rank -> Nat]
  BY DEF Enter, CollInv
<1>9. /\ \A s, d \in Rank : s # r /\ d # r => Pending(s, d)' = Pending(s, d)
      /\ \A d \in Rank : d # r => Pending(r, d)' = Pending(r, d) + 1
      /\ \A s \in Rank : s # r => Pending(s, r)' = Pending(s, r) - 0
      /\ Pending(r, r)' = (Pending(r, r) + 1) - 0
  <2>1. \A s, d \in Rank : s # r => Pending(s, d)' = Pending(s, d)
    BY <1>5 DEF Pending
  <2> QED
    BY <1>4, <1>7, <2>1
<1> QED
  BY <1>6, <1>8, <1>9 DEF Sends

LEMMA LeaveSends ==
  ASSUME CollInv, NEW r \in Rank, Leave(r)
  PROVE  Sends(r, 0, 1)
<1>1. PICK M : mail \in [Rank -> [Rank -> Seq(M)]]
  BY DEF CollInv
<1>2. mail' = [s \in Rank |-> [mail[s] EXCEPT ![r] = Tail(mail[s][r])]]
  BY DEF Leave
<1>3. Arrived(r)
  BY DEF Leave, Matched
<1>4. \A s \in Rank : /\ mail'[s][r] \in Seq(M)
                      /\ Pending(s, r)' = Pending(s, r) - 1
  BY <1>1, <1>2, <1>3, SeqShrinks DEF Arrived, Pending
<1>5. \A s, d \in Rank : d # r => mail'[s][d] = mail[s][d]
  BY <1>1, <1>2
<1>6. mail' \in [Rank -> [Rank -> Seq(M)]]
  <2>1. \A s \in Rank : mail'[s] = [d \in Rank |-> mail'[s][d]]
    BY <1>1, <1>2
  <2>2. \A s, d \in Rank : mail'[s][d] \in Seq(M)
    BY <1>1, <1>4, <1>5
  <2>3. \A s \in Rank : mail'[s] \in [Rank -> Seq(M)]
    BY <2>1, <2>2
  <2> QED
    BY <1>2, <2>3
<1>7. \A s, d \in Rank : Pending(s, d) \in Nat
  BY DEF CollInv
<1>8. calls' = calls /\ calls \in [Rank -> Nat]
  BY DEF Leave, CollInv
<1>9. calls' = [calls EXCEPT ![r] = @ + 0]
  BY <1>8
<1>10. /\ \A s, d \in Rank : s # r /\ d # r => Pending(s, d)' = Pending(s, d)
       /\ \A d \in Rank : d # r => Pending(r, d)' = Pending(r, d) + 0
       /\ \A s \in Rank : s # r => Pending(s, r)' = Pending(s, r) - 1
       /\ Pending(r, r)' = (Pending(r, r) + 0) - 1
  <2>1. \A s, d \in Rank : d # r => Pending(s, d)' = Pending(s, d)
    BY <1>5 DEF Pending
  <2> QED
    BY <1>4, <1>7, <2>1
<1> QED
  BY <1>3, <1>6, <1>8, <1>9, <1>10 DEF Sends

LEMMA LeaveAndEnterSends ==
  ASSUME CollInv, NEW r \in Rank, NEW kind, NEW parts, LeaveAndEnter(r, kind, parts)
  PROVE  Sends(r, 1, 1)
<1>1. PICK M : mail \in [Rank -> [Rank -> Seq(M)]]
  BY DEF CollInv
<1> DEFINE N == {<<kind, parts[d]>> : d \in Rank}
           rest(s, d) == IF d = r THEN Tail(mail[s][d]) ELSE mail[s][d]
           size(s, d) == Len(rest(s, d))
<1>2. mail' = [s \in Rank |-> [d \in Rank |->
                 IF s = r THEN Append(rest(s, d), <<kind, parts[d]>>) ELSE rest(s, d)]]
  BY DEF LeaveAndEnter
<1>3. Arrived(r)
  BY DEF LeaveAndEnter, Matched
<1>4. \A d \in Rank : <<kind, parts[d]>> \in N
  OBVIOUS
<1>5. /\ \A s, d \in Rank : rest(s, d) \in Seq(M)
      /\ \A s \in Rank : size(s, r) = Pending(s, r) - 1
      /\ \A s, d \in Rank : d # r => size(s, d) = Pending(s, d)
  <2>1. \A s \in Rank : Tail(mail[s][r]) \in Seq(M)
                        /\ Len(Tail(mail[s][r])) = Pending(s, r) - 1
    BY <1>1, <1>3, SeqShrinks DEF Arrived, Pending
  <2>2. \A s, d \in Rank : mail[s][d] \in Seq(M)
    BY <1>1
  <2> QED
    BY <2>1, <2>2 DEF Pending
<1>6. \A s, d \in Rank : Pending(s, d) \in Nat
  BY DEF CollInv
<1> HIDE DEF N, rest
<1>7. /\ \A s, d \in Rank : mail'[s][d] \in Seq(M \cup N)
      /\ \A d \in Rank : Pending(r, d)' = size(r, d) + 1
      /\ \A s, d \in Rank : s # r => Pending(s, d)' = size(s, d)
  <2>1. \A s, d \in Rank :
          /\ rest(s, d) \in Seq(M \cup N)
          /\ Append(rest(s, d), <<kind, parts[d]>>) \in Seq(M \cup N)
          /\ Len(Append(rest(s, d), <<kind, parts[d]>>)) = size(s, d) + 1
    BY <1>4, <1>5, SeqGrows
  <2>2. /\ \A d \in Rank : mail'[r][d] = Append(rest(r, d), <<kind, parts[d]>>)
        /\ \A s, d \in Rank : s # r => mail'[s][d] = rest(s, d)
    BY <1>2
  <2>3. \A s, d \in Rank : mail'[s][d] \in Seq(M \cup N)
    BY <2>1, <2>2
  <2>4. \A d \in Rank : Pending(r, d)' = size(r, d) + 1
    BY <2>1, <2>2 DEF Pending
  <2>5. \A s, d \in Rank : s # r => Pending(s, d)' = size(s, d)
    BY <2>2 DEF Pending
  <2> QED
    BY <2>3, <2>4, <2>5
<1>8. mail' \in [Rank -> [Rank -> Seq(M \cup N)]]
  <2>1. \A s \in Rank : mail'[s] = [d \in Rank |-> mail'[s][d]]
    BY <1>2
  <2>2. \A s \in Rank : mail'[s] \in [Rank -> Seq(M \cup N)]
    BY <1>7, <2>1
  <2> QED
    BY <1>2, <2>2
<1>9. calls' = [calls EXCEPT ![r] = @ + 1] /\ calls' \in [Rank -> Nat]
  BY DEF LeaveAndEnter, CollInv
<1> HIDE DEF size
<1>10. /\ \A s, d \in Rank : s # r /\ d # r => Pending(s, d)' = Pending(s, d)
       /\ \A d \in Rank : d # r => Pending(r, d)' = Pending(r, d) + 1
       /\ \A s \in Rank : s # r => Pending(s, r)' = Pending(s, r) - 1
       /\ Pending(r, r)' = (Pending(r, r) + 1) - 1
  BY <1>5, <1>6, <1>7
<1> QED
  BY <1>3, <1>8, <1>9, <1>10 DEF Sends

LEMMA QuietSends ==
  ASSUME CollInv, NEW r \in Rank, UNCHANGED <<calls, mail>>
  PROVE  Sends(r, 0, 0)
<1>1. PICK M : mail \in [Rank -> [Rank -> Seq(M)]]
  BY DEF CollInv
<1>2. /\ mail' = mail /\ calls' = calls
      /\ \A s, d \in Rank : Pending(s, d) \in Nat /\ Pending(s, d)' = Pending(s, d)
  BY DEF CollInv, Pending
<1>3. calls' = [calls EXCEPT ![r] = @ + 0] /\ calls' \in [Rank -> Nat]
  BY <1>2 DEF CollInv
<1>4. /\ \A s, d \in Rank : s # r /\ d # r => Pending(s, d)' = Pending(s, d)
      /\ \A d \in Rank : d # r => Pending(r, d)' = Pending(r, d) + 0
      /\ \A s \in Rank : s # r => Pending(s, r)' = Pending(s, r) - 0
      /\ Pending(r, r)' = (Pending(r, r) + 0) - 0
  BY <1>2
<1>5. mail' \in [Rank -> [Rank -> Seq(M)]]
  BY <1>1, <1>2
<1>6. \E N : mail' \in [Rank -> [Rank -> Seq(N)]]
  BY <1>5
<1>7. 0 = 1 => Arrived(r)
  OBVIOUS
<1> QED
  BY <1>3, <1>4, <1>6, <1>7, Zenon DEF Sends

-----------------------------------------------------------------------------
(* A step that sends and turns keeps the invariant and is a step of the    *)
(* rendezvous.                                                             *)

LEMMA ArrivedPending ==
  ASSUME CollInv, NEW r \in Rank, Arrived(r), NEW s \in Rank
  PROVE  Pending(s, r) >= 1
<1>1. PICK M : mail \in [Rank -> [Rank -> Seq(M)]]
  BY DEF CollInv
<1>2. mail[s][r] \in Seq(M) /\ mail[s][r] # <<>>
  BY <1>1 DEF Arrived
<1>3. Len(mail[s][r]) >= 1
  BY <1>2, SeqShrinks
<1> QED
  BY <1>3 DEF Pending

LEMMA SentPending ==
  ASSUME NEW r \in Rank, NEW in, NEW fin, Sends(r, in, fin)
  PROVE  \A s, d \in Rank : Pending(s, d)' \in Nat
<1>1. PICK M : mail' \in [Rank -> [Rank -> Seq(M)]]
  BY DEF Sends
<1>2. \A s, d \in Rank : mail'[s][d] \in Seq(M)
  BY <1>1
<1> QED
  BY <1>2 DEF Pending

LEMMA FinishedIs ==
  ASSUME CollInv, NEW r \in Rank
  PROVE  /\ Finished[r] \in Int
         /\ Finished[r] = IF Waiting(r) \/ comm[r] = "broken" THEN calls[r] - 1 ELSE calls[r]
  BY DEF CollInv, Finished

LEMMA MoveKeeps ==
  ASSUME CollInv, NEW r \in Rank, NEW in \in {0, 1}, NEW fin \in {0, 1},
         Sends(r, in, fin), Turns(r, in, fin)
  PROVE  CollInv' /\ [Collectives!RendezvousNext]_<<calls, Finished>>
<1>1. \A q \in Rank : Finished[q] \in Int /\ calls[q] \in Nat
  BY FinishedIs DEF CollInv
<1>2. \A q \in Rank : q # r => Finished'[q] = Finished[q] /\ calls'[q] = calls[q]
  BY DEF Finished, Turns, Sends, CollInv, Waiting
<1>3. Finished'[r] = Finished[r] + fin /\ calls'[r] = calls[r] + in
  BY DEF Turns, Sends, CollInv
<1>4. \A s, d \in Rank : Pending(s, d)' = calls'[s] - Finished'[d]
  <2>1. TAKE s, d \in Rank
  <2>2. Pending(s, d) = calls[s] - Finished[d]
    BY DEF CollInv
  <2>3. CASE s # r /\ d # r
    BY <1>2, <2>2, <2>3 DEF Sends
  <2>4. CASE s = r /\ d # r
    BY <1>1, <1>2, <1>3, <2>2, <2>4 DEF Sends
  <2>5. CASE s # r /\ d = r
    BY <1>1, <1>2, <1>3, <2>2, <2>5 DEF Sends
  <2>6. CASE s = r /\ d = r
    BY <1>1, <1>3, <2>2, <2>6 DEF Sends
  <2> QED
    BY <2>3, <2>4, <2>5, <2>6
<1>14. \A s, d \in Rank : Pending(s, d)' \in Nat
  BY SentPending
<1>5. CollInv'
  <2>1. \A q \in Rank : Waiting(q)' => comm'[q] = "up"
    BY DEF Turns, CollInv, Waiting
  <2> QED
    BY <1>4, <1>14, <2>1 DEF CollInv, Turns, Sends
<1>13. Finished \in [Rank -> Int]
  BY <1>1 DEF Finished
<1>6. Finished' = [Finished EXCEPT ![r] = @ + fin]
  <2>1. Finished' = [q \in Rank |-> Finished'[q]]
    BY DEF Finished
  <2> QED
    BY <1>2, <1>3, <1>13, <2>1
<1>7. calls' = [calls EXCEPT ![r] = @ + in]
  BY DEF Sends
<1>8. fin = 1 => /\ calls[r] = Finished[r] + 1
                 /\ \A q \in Rank : calls[q] >= calls[r]
  <2> SUFFICES ASSUME fin = 1
               PROVE  calls[r] = Finished[r] + 1 /\ \A q \in Rank : calls[q] >= calls[r]
    OBVIOUS
  <2>1. Waiting(r) /\ Arrived(r)
    BY DEF Turns, Sends
  <2>2. calls[r] = Finished[r] + 1
    BY <1>1, <2>1, FinishedIs
  <2>3. \A q \in Rank : Pending(q, r) >= 1
    BY <2>1, ArrivedPending
  <2>4. \A q \in Rank : Pending(q, r) = calls[q] - Finished[r]
    BY DEF CollInv
  <2>5. ASSUME NEW q \in Rank PROVE calls[q] >= calls[r]
    BY <1>1, <2>2, <2>3, <2>4
  <2> QED
    BY <2>2, <2>5
<1>9. CASE in = 0 /\ fin = 0
  <2>1. calls' = calls
    BY <1>7, <1>9 DEF CollInv
  <2>2. Finished' = Finished
    BY <1>6, <1>9, <1>13
  <2> QED
    BY <1>5, <2>1, <2>2
<1>10. CASE in = 1 /\ fin = 0
  <2>1. calls[r] = Finished[r]
    BY <1>1, <1>10 DEF Turns
  <2>2. Finished' = Finished
    BY <1>6, <1>10, <1>13
  <2>3. Collectives!Enter(r)
    BY <1>7, <1>10, <2>1, <2>2 DEF Collectives!Enter
  <2> QED
    BY <1>5, <2>3 DEF Collectives!RendezvousNext
<1>11. CASE in = 0 /\ fin = 1
  <2>1. calls' = calls
    BY <1>7, <1>11 DEF CollInv
  <2>2. Collectives!Leave(r)
    BY <1>6, <1>8, <1>11, <2>1 DEF Collectives!Leave
  <2> QED
    BY <1>5, <2>2 DEF Collectives!RendezvousNext
<1>12. CASE in = 1 /\ fin = 1
  <2>1. Collectives!LeaveAndEnter(r)
    BY <1>6, <1>7, <1>8, <1>12 DEF Collectives!LeaveAndEnter
  <2> QED
    BY <1>5, <2>1 DEF Collectives!RendezvousNext
<1> QED
  BY <1>9, <1>10, <1>11, <1>12

-----------------------------------------------------------------------------
(* Every action of a rank sends and turns.                                 *)

\* The steps that touch neither mail nor process group, outside collectives.
LEMMA QuietKeeps ==
  ASSUME CollInv, NEW r \in Rank, NEW place \in Control \ Collective,
         UNCHANGED <<calls, mail, comm>>, ~Waiting(r),
         pc' = [pc EXCEPT ![r] = place]
  PROVE  CollInv' /\ [Collectives!RendezvousNext]_<<calls, Finished>>
<1>1. Sends(r, 0, 0)
  BY QuietSends
<1>2. Turns(r, 0, 0)
  <2>1. pc' \in [Rank -> Control] /\ \A q \in Rank : q # r => pc'[q] = pc[q]
    BY DEF CollInv
  <2>2. ~Waiting(r)'
    BY DEF CollInv, Waiting
  <2>3. Finished'[r] = Finished[r] + 0
    BY <2>2, FinishedIs DEF Finished
  <2> QED
    BY <2>1, <2>2, <2>3 DEF Turns, CollInv
<1> QED
  BY <1>1, <1>2, MoveKeeps

LEMMA EnterKeeps ==
  ASSUME CollInv, NEW r \in Rank, NEW kind \in Collective, NEW parts,
         Enter(r, kind, parts), UNCHANGED comm, comm[r] = "up", ~Waiting(r),
         pc' = [pc EXCEPT ![r] = kind]
  PROVE  CollInv' /\ [Collectives!RendezvousNext]_<<calls, Finished>>
<1>1. Sends(r, 1, 0)
  BY EnterSends
<1>2. Turns(r, 1, 0)
  <2>1. pc' \in [Rank -> Control] /\ \A q \in Rank : q # r => pc'[q] = pc[q]
    BY DEF CollInv, Control
  <2>2. Finished[r] = calls[r] /\ calls'[r] = calls[r] + 1 /\ calls[r] \in Nat
    BY FinishedIs DEF Enter, CollInv
  <2>3. Waiting(r)'
    BY DEF CollInv, Waiting
  <2>4. Finished'[r] = Finished[r] + 0
    BY <2>2, <2>3 DEF Finished
  <2> QED
    BY <2>1, <2>2, <2>4 DEF Turns, CollInv
<1> QED
  BY <1>1, <1>2, MoveKeeps

LEMMA LeaveKeeps ==
  ASSUME CollInv, NEW r \in Rank, NEW place \in Control \ Collective,
         Leave(r), UNCHANGED comm, Waiting(r), pc' = [pc EXCEPT ![r] = place]
  PROVE  CollInv' /\ [Collectives!RendezvousNext]_<<calls, Finished>>
<1>1. Sends(r, 0, 1)
  BY LeaveSends
<1>2. Turns(r, 0, 1)
  <2>1. pc' \in [Rank -> Control] /\ \A q \in Rank : q # r => pc'[q] = pc[q]
    BY DEF CollInv
  <2>2. Finished[r] = calls[r] - 1 /\ calls' = calls /\ calls[r] \in Nat /\ comm[r] = "up"
    BY FinishedIs DEF Leave, CollInv
  <2>3. ~Waiting(r)'
    BY DEF CollInv, Waiting
  <2>4. Finished'[r] = Finished[r] + 1
    BY <2>2, <2>3 DEF Finished
  <2> QED
    BY <2>1, <2>2, <2>3, <2>4 DEF Turns, CollInv
<1> QED
  BY <1>1, <1>2, MoveKeeps

LEMMA LeaveAndEnterKeeps ==
  ASSUME CollInv, NEW r \in Rank, NEW kind \in Collective, NEW parts,
         LeaveAndEnter(r, kind, parts), UNCHANGED comm, Waiting(r),
         pc' = [pc EXCEPT ![r] = kind]
  PROVE  CollInv' /\ [Collectives!RendezvousNext]_<<calls, Finished>>
<1>1. Sends(r, 1, 1)
  BY LeaveAndEnterSends
<1>2. Turns(r, 1, 1)
  <2>1. pc' \in [Rank -> Control] /\ \A q \in Rank : q # r => pc'[q] = pc[q]
    BY DEF CollInv, Control
  <2>2. Finished[r] = calls[r] - 1 /\ calls'[r] = calls[r] + 1 /\ calls[r] \in Nat
    BY FinishedIs DEF LeaveAndEnter, CollInv
  <2>3. Waiting(r)' /\ comm[r] = "up"
    BY DEF CollInv, Waiting
  <2>4. Finished'[r] = Finished[r] + 1
    BY <2>2, <2>3 DEF Finished
  <2> QED
    BY <2>1, <2>2, <2>3, <2>4 DEF Turns, CollInv
<1> QED
  BY <1>1, <1>2, MoveKeeps

\* An exception in a gather leaves the rank's own call unfinished for good.
LEMMA CutKeeps ==
  ASSUME CollInv, NEW r \in Rank, CutGather(r)
  PROVE  CollInv' /\ [Collectives!RendezvousNext]_<<calls, Finished>>
<1>1. Sends(r, 0, 0)
  BY QuietSends DEF CutGather
<1>2. Turns(r, 0, 0)
  <2>1. /\ pc' = [pc EXCEPT ![r] = "attach"] /\ comm' = [comm EXCEPT ![r] = "broken"]
        /\ calls' = calls /\ Waiting(r)
    BY DEF CutGather, Waiting, Collective
  <2>2. /\ pc' \in [Rank -> Control] /\ comm' \in [Rank -> {"up", "broken"}]
        /\ \A q \in Rank : q # r => pc'[q] = pc[q] /\ comm'[q] = comm[q]
    BY <2>1 DEF CollInv, Control
  <2>3. ~Waiting(r)' /\ comm'[r] = "broken"
    BY <2>1 DEF CollInv, Waiting, Collective
  <2>4. Finished'[r] = Finished[r] + 0
    <3>1. Finished[r] = calls[r] - 1 /\ calls[r] \in Nat
      BY <2>1, FinishedIs DEF CollInv
    <3>2. Finished'[r] = calls'[r] - 1
      BY <2>3 DEF Finished
    <3> QED
      BY <2>1, <3>1, <3>2
  <2> QED
    BY <2>2, <2>3, <2>4 DEF Turns
<1> QED
  BY <1>1, <1>2, MoveKeeps

LEMMA BootKeeps ==
  ASSUME CollInv, NEW r \in Rank, Boot(r)
  PROVE  CollInv' /\ [Collectives!RendezvousNext]_<<calls, Finished>>
<1>1. CASE InitGroup(r)
  <2>1. \E place \in {"idle", "boot"} : pc' = [pc EXCEPT ![r] = place]
    BY <1>1 DEF InitGroup
  <2> QED
    BY <1>1, <2>1, QuietKeeps DEF InitGroup, Waiting, Control, Collective
<1>2. CASE BeginGather(r)
  <2>1. ~Waiting(r)
    BY <1>2 DEF BeginGather, Waiting, Collective
  <2>2. CASE comm[r] = "up" /\ <<r, layer[r]>> \notin fault.refused
    BY <1>2, <2>1, <2>2, EnterKeeps DEF BeginGather, Collective
  <2>3. CASE ~(comm[r] = "up" /\ <<r, layer[r]>> \notin fault.refused)
    BY <1>2, <2>1, <2>3, QuietKeeps DEF BeginGather, Control, Collective
  <2> QED
    BY <2>2, <2>3
<1>3. CASE EndGather(r)
  BY <1>3, LeaveKeeps DEF EndGather, Waiting, Control, Collective
<1>6. CASE LoseGather(r)
  BY <1>6, LeaveKeeps DEF LoseGather, Waiting, Control, Collective
<1>4. CASE CutGather(r)
  BY <1>4, CutKeeps
<1>5. CASE Attach(r)
  <2>1. \E place \in {"idle", "boot"} : pc' = [pc EXCEPT ![r] = place]
    BY <1>5 DEF Attach
  <2> QED
    BY <1>5, <2>1, QuietKeeps DEF Attach, Waiting, Control, Collective
<1> QED
  BY <1>1, <1>2, <1>3, <1>4, <1>5, <1>6 DEF Boot

LEMMA ExchangeKeeps ==
  ASSUME CollInv, NEW r \in Rank, Exchange(r)
  PROVE  CollInv' /\ [Collectives!RendezvousNext]_<<calls, Finished>>
<1>1. CASE RefuseShape(r) \/ RefuseExchange(r)
  BY <1>1, QuietKeeps
     DEF RefuseShape, RefuseExchange, Abandon, Serving, Waiting, Control, Collective
<1>2. CASE BeginExchange(r)
  <2>1. PICK flat \in Routing(Batch(r).tokens) : Enter(r, "counts", SendCounts(flat))
    BY <1>2 DEF BeginExchange
  <2> QED
    BY <1>2, <2>1, EnterKeeps DEF BeginExchange, Serving, Waiting, Collective
<1>3. CASE SendTokens(r)
  BY <1>3, LeaveAndEnterKeeps DEF SendTokens, Waiting, Collective
<1>4. CASE SendExperts(r)
  BY <1>4, LeaveAndEnterKeeps DEF SendExperts, Waiting, Collective
<1>5. CASE SendBack(r)
  BY <1>5, LeaveAndEnterKeeps DEF SendBack, Waiting, Collective
<1>6. CASE MissExpert(r)
  BY <1>6, LeaveKeeps DEF MissExpert, Waiting, Control, Collective
<1>7. CASE EndExchange(r)
  BY <1>7, LeaveKeeps DEF EndExchange, NextLayer, Waiting, Control, Collective
<1> QED
  BY <1>1, <1>2, <1>3, <1>4, <1>5, <1>6, <1>7 DEF Exchange

LEMMA PipelineKeeps ==
  ASSUME CollInv, NEW r \in Rank, Pipeline(r)
  PROVE  CollInv' /\ [Collectives!RendezvousNext]_<<calls, Finished>>
<1>1. CASE BeginPipeline(r)
  BY <1>1, QuietKeeps DEF BeginPipeline, Serving, Waiting, Control, Collective
<1>2. CASE RaiseInPipeline(r)
  BY <1>2, QuietKeeps DEF RaiseInPipeline, Abandon, Waiting, Control, Collective
<1>3. CASE EndPipeline(r)
  BY <1>3, QuietKeeps DEF EndPipeline, NextLayer, Waiting, Control, Collective
<1> QED
  BY <1>1, <1>2, <1>3 DEF Pipeline

LEMMA CollInvInit == Init => CollInv /\ Collectives!RendezvousInit
<1> SUFFICES ASSUME Init PROVE CollInv /\ Collectives!RendezvousInit
  OBVIOUS
<1>1. /\ pc = [r \in Rank |-> "init"] /\ comm = [r \in Rank |-> "up"]
      /\ calls = [r \in Rank |-> 0] /\ mail = [r \in Rank |-> [q \in Rank |-> <<>>]]
  BY DEF Init
<1>2. Finished = [r \in Rank |-> 0]
  BY <1>1 DEF Finished, Waiting, Collective
<1>3. \A s, r \in Rank : mail[s][r] = <<>> /\ Pending(s, r) = 0
  BY <1>1 DEF Pending
<1>4. mail \in [Rank -> [Rank -> Seq({})]]
  BY <1>1
<1>5. CollInv
  BY <1>1, <1>2, <1>3, <1>4 DEF CollInv, Control
<1> QED
  BY <1>1, <1>2, <1>5 DEF Collectives!RendezvousInit

LEMMA CollInvNext ==
  CollInv /\ [Next]_vars => CollInv' /\ [Collectives!RendezvousNext]_<<calls, Finished>>
<1> SUFFICES ASSUME CollInv, [Next]_vars
             PROVE  CollInv' /\ [Collectives!RendezvousNext]_<<calls, Finished>>
  OBVIOUS
<1>1. CASE UNCHANGED vars
  <2>1. pc' = pc /\ comm' = comm /\ calls' = calls /\ mail' = mail
    BY <1>1 DEF vars
  <2>2. Finished' = Finished
    BY <2>1 DEF Finished, Waiting
  <2>3. \A s, r \in Rank : Pending(s, r)' = Pending(s, r)
    BY <2>1 DEF Pending
  <2> QED
    BY <2>1, <2>2, <2>3 DEF CollInv, Waiting
<1>2. ASSUME NEW r \in Rank, RankStep(r)
      PROVE  CollInv' /\ [Collectives!RendezvousNext]_<<calls, Finished>>
  BY <1>2, BootKeeps, ExchangeKeeps, PipelineKeeps DEF RankStep
<1> QED
  BY <1>1, <1>2 DEF Next

\* The ranks' collectives are a rendezvous, for any number of ranks and
\* whatever path each takes: a rank leaves its k-th collective only after
\* every rank entered its k-th, also when gathers are skipped, lost or cut.
THEOREM ExchangesRendezvous == Spec => RanksRendezvous
  BY CollInvInit, CollInvNext, PTL DEF Spec, RanksRendezvous, Collectives!RendezvousSpec

-----------------------------------------------------------------------------
(* The tables.  The k-th collective of a rank is its k-th gather, while it *)
(* has gathers to enter, so the part a rank finds at the head of its mail  *)
(* is the sender's mapping of the layer whose gather is its k-th.          *)

Mapping == [owner : Rank, layer : Layer, bytes : Nat, handle : BOOLEAN]
Tables == UNION {[D -> Mapping] : D \in SUBSET Expert}
Exchanging == {"counts", "tokens", "experts", "combine"}
Busy == Exchanging \cup {"execute"}
Booting == {"init", "boot", "gather", "attach"}

\* The gathers each rank enters up to each layer.
Nth == [r \in Rank |-> [l \in 0 .. Layers |-> Gathered(r, l)]]

\* What the load-time steps and the passes read.
PlaceTypes ==
  /\ policy \in Policies /\ held \in Registries /\ load \in Loads
  /\ layer \in [Rank -> Layer] /\ pass \in [Rank -> Nat \ {0}]
  /\ \A r \in Rank : pass[r] <= Len(load[r]) + 1
  /\ \A r \in Rank : pc[r] \in Busy => pass[r] <= Len(load[r])

BootTypes ==
  /\ attached \in [Rank -> SUBSET Layer] /\ native \in [Rank -> SUBSET Layer]
  /\ table \in [Rank -> [Layer -> Tables]]
  /\ imported \in [Rank -> [Layer -> SUBSET Expert]]

ForwardTypes ==
  /\ requested \in [Rank -> [Layer -> SUBSET Expert]]
  /\ tasks = [r \in Rank |-> tasks[r]]
  /\ \A r \in Rank : tasks[r] = [l \in Layer |-> tasks[r][l]]
  /\ \A r \in Rank, l \in Layer : DOMAIN tasks[r][l] \subseteq Expert
  /\ plan = [r \in Rank |-> plan[r]]
  /\ \A r \in Rank : plan[r].local \subseteq Expert /\ plan[r].remote \subseteq Expert

\* How many collectives a rank has entered where it is.
CountedAt(r) ==
  /\ pc[r] = "init" => layer[r] = 1 /\ calls[r] = 0
  /\ pc[r] = "boot" /\ comm[r] = "up" => calls[r] = Nth[r][layer[r] - 1]
  /\ pc[r] = "gather" => calls[r] = Nth[r][layer[r]]
  /\ pc[r] = "attach" /\ comm[r] = "up" => calls[r] = Nth[r][layer[r]]
  /\ pc[r] \notin Booting /\ comm[r] = "up" /\ ~fault.group => calls[r] >= Nth[r][Layers]
  /\ pc[r] \in Exchanging => ~fault.group
Counted == \A r \in Rank : CountedAt(r)

\* What s sends in its k-th collective; the j-th message that waits for r from s.
Label(s, k, m) ==
  /\ m[1] = "gather" => \E x \in Layer : Nth[s][x] = k /\ m[2] = LocalMappings(s, x)
  /\ k <= Nth[s][Layers] => m[1] = "gather"
Labelled ==
  \A s, r \in Rank : \A j \in 1 .. Pending(s, r) : Label(s, Finished[r] + j, mail[s][r][j])

All == UNION {held[s] : s \in Rank}
GoodEntry(r, l, e, m) ==
  /\ e \in held[m.owner]
  /\ (m.owner = r) <=> (e \in held[r])
  /\ m.handle => <<m.owner, m.layer>> \notin fault.export
  /\ Nth[m.owner][m.layer] = Nth[r][l]
GoodTable(r, l, t) == \A e \in DOMAIN t : GoodEntry(r, l, e, t[e])

\* The exchange of a layer raised nothing on r.
Whole(r, l) == <<r, l>> \notin fault.refused \cup fault.cut

\* What a rank's table of a layer holds before, in and after its gather.
TableAt(r) ==
  /\ \A l \in Layer : GoodTable(r, l, table[r][l])
  /\ \A l \in attached[r] : /\ held[r] \subseteq DOMAIN table[r][l]
                            /\ imported[r][l] \subseteq DOMAIN table[r][l] \ held[r]
                            /\ comm[r] = "up" /\ Whole(r, l) => DOMAIN table[r][l] = All
  /\ pc[r] \in Booting => \A l \in attached[r] : l < layer[r]
  /\ pc[r] = "gather" => table[r][layer[r]] = LocalMappings(r, layer[r])
  /\ pc[r] = "attach" => /\ held[r] \subseteq DOMAIN table[r][layer[r]]
                         /\ comm[r] = "up" /\ Whole(r, layer[r]) =>
                              DOMAIN table[r][layer[r]] = All
TableInv == \A r \in Rank : TableAt(r)

TablesInv ==
  /\ CollInv /\ PlaceTypes /\ BootTypes /\ ForwardTypes
  /\ Counted /\ Labelled /\ TableInv

-----------------------------------------------------------------------------
(* What the steps do to the labels of the mail.                            *)

Constant == UNCHANGED <<held, fault, Nth>>

LEMMA ConstantIs == UNCHANGED <<held, fault>> => Constant
<1> SUFFICES ASSUME UNCHANGED <<held, fault>> PROVE Constant
  OBVIOUS
<1>1. Nth' = Nth
  BY DEF Nth, Gathered
<1> QED BY <1>1 DEF Constant

LEMMA LayerIs == Layer \subseteq Nat /\ 1 \in Layer /\ \A l \in Layer : l <= Layers /\ l >= 1
BY ParallelAssumption DEF Layer

\* A rank enters one gather more with each layer it is not refused at.
LEMMA NthIs ==
  ASSUME NEW r \in Rank
  PROVE  /\ \A l \in 0 .. Layers : Nth[r][l] \in Nat /\ Nth[r][l] <= Nth[r][Layers]
         /\ Nth[r][0] = 0
         /\ \A l \in Layer : Nth[r][l] =
              IF <<r, l>> \in fault.refused THEN Nth[r][l - 1] ELSE Nth[r][l - 1] + 1
<1> DEFINE S(l) == {x \in 1 .. l : <<r, x>> \notin fault.refused}
<1>1. Layers \in Nat
  BY ParallelAssumption
<1>2. \A l \in 0 .. Layers : Nth[r][l] = Cardinality(S(l))
  BY DEF Nth, Gathered
<1>3. ASSUME NEW l \in Nat PROVE IsFiniteSet(S(l)) /\ Cardinality(S(l)) \in Nat
  <2>1. IsFiniteSet(1 .. l)
    BY FS_Interval
  <2>2. IsFiniteSet(S(l))
    BY <2>1, FS_Subset
  <2> QED BY <2>2, FS_CardinalityType
<1>4. ASSUME NEW l \in 0 .. Layers
      PROVE  Nth[r][l] \in Nat /\ Nth[r][l] <= Nth[r][Layers]
  <2>1. S(l) \subseteq S(Layers)
    BY <1>1
  <2>2. IsFiniteSet(S(Layers)) /\ l \in Nat /\ Layers \in 0 .. Layers
    BY <1>1, <1>3
  <2>3. Cardinality(S(l)) <= Cardinality(S(Layers))
    <3> HIDE DEF S
    <3> QED BY <2>1, <2>2, FS_Subset
  <2> QED BY <1>2, <1>3, <2>2, <2>3
<1>5. Nth[r][0] = 0
  <2>1. S(0) = {} /\ 0 \in 0 .. Layers
    BY <1>1
  <2> HIDE DEF S
  <2> QED BY <1>2, <2>1, FS_EmptySet
<1>6. ASSUME NEW l \in Layer
      PROVE  Nth[r][l] =
               IF <<r, l>> \in fault.refused THEN Nth[r][l - 1] ELSE Nth[r][l - 1] + 1
  <2>1. l \in 0 .. Layers /\ l - 1 \in 0 .. Layers /\ l \in Nat /\ l - 1 \in Nat
    BY <1>1 DEF Layer
  <2>2. CASE <<r, l>> \in fault.refused
    <3>1. S(l) = S(l - 1)
      BY <2>1, <2>2
    <3> QED BY <1>2, <2>1, <2>2, <3>1
  <2>3. CASE <<r, l>> \notin fault.refused
    <3>1. S(l) = S(l - 1) \cup {l} /\ l \notin S(l - 1)
      BY <2>1, <2>3
    <3>2. IsFiniteSet(S(l - 1)) /\ Cardinality(S(l - 1)) \in Nat
      BY <1>3, <2>1
    <3>3. Cardinality(S(l)) = Cardinality(S(l - 1)) + 1
      <4> HIDE DEF S
      <4> QED BY <3>1, <3>2, FS_AddElement
    <3> QED BY <1>2, <2>1, <2>3, <3>3
  <2> QED BY <2>2, <2>3
<1> QED BY <1>4, <1>5, <1>6

LEMMA NthBelow ==
  ASSUME NEW r \in Rank, NEW l \in Layer
  PROVE  /\ Nth[r][l] \in Nat /\ Nth[r][l] <= Nth[r][Layers]
         /\ Nth[r][l - 1] \in Nat /\ Nth[r][l - 1] <= Nth[r][Layers]
<1>1. l \in 0 .. Layers /\ l - 1 \in 0 .. Layers
  BY ParallelAssumption DEF Layer
<1> QED BY <1>1, NthIs

LEMMA LabelStays ==
  ASSUME Constant, NEW s, NEW k, NEW m, Label(s, k, m)
  PROVE  Label(s, k, m)'
<1>1. \A x : LocalMappings(s, x)' = LocalMappings(s, x)
  BY DEF Constant, LocalMappings
<1> QED BY <1>1 DEF Constant, Label

LEMMA LabelAfter ==
  ASSUME Constant, NEW s \in Rank, NEW d \in Rank, NEW j,
         Label(s, Finished'[d] + j, mail'[s][d][j])
  PROVE  Label(s, Finished[d] + j, mail[s][d][j])'
<1>1. PICK k, m : k = Finished'[d] + j /\ m = mail'[s][d][j]
  OBVIOUS
<1>2. Label(s, k, m)'
  BY <1>1, LabelStays
<1> QED BY <1>1, <1>2 DEF Label

\* A message behind the last one is of the call that sends it.
LEMMA LabelNext ==
  ASSUME CollInv, NEW s \in Rank, NEW d \in Rank
  PROVE  /\ Finished[d] + (Pending(s, d) + 1) = calls[s] + 1
         /\ Pending(s, d) \in Nat /\ Finished[d] \in Int
<1>1. /\ Pending(s, d) \in Nat /\ Pending(s, d) = calls[s] - Finished[d]
      /\ calls[s] \in Nat
  BY DEF CollInv
<1>2. Finished[d] \in Int
  BY FinishedIs
<1> QED BY <1>1, <1>2

\* The mail of one pair after each kind of step.
LEMMA AppendLabels ==
  ASSUME CollInv, Labelled, Constant, NEW s \in Rank, NEW d \in Rank, NEW m,
         Label(s, calls[s] + 1, m), Finished'[d] = Finished[d],
         mail'[s][d] = Append(mail[s][d], m)
  PROVE  \A j \in 1 .. Pending(s, d)' : Label(s, Finished[d] + j, mail[s][d][j])'
<1>1. PICK M : mail \in [Rank -> [Rank -> Seq(M)]]
  BY DEF CollInv
<1>2. mail[s][d] \in Seq(M) /\ Pending(s, d) \in Nat
  BY <1>1 DEF Pending
<1> DEFINE t == mail[s][d]
<1>3. /\ Len(Append(t, m)) = Len(t) + 1
      /\ \A j \in 1 .. Len(t) : Append(t, m)[j] = t[j]
      /\ Append(t, m)[Len(t) + 1] = m
  BY <1>2
<1> SUFFICES ASSUME NEW j \in 1 .. Pending(s, d)'
             PROVE  Label(s, Finished[d] + j, mail[s][d][j])'
  OBVIOUS
<1>4. Pending(s, d)' = Pending(s, d) + 1
  BY <1>3 DEF Pending
<1>5. CASE j = Pending(s, d) + 1
  <2>1. mail'[s][d][j] = m
    BY <1>3, <1>5 DEF Pending
  <2>2. Finished'[d] + j = calls[s] + 1
    BY <1>5, LabelNext
  <2>3. Label(s, Finished'[d] + j, mail'[s][d][j])
    BY <2>1, <2>2
  <2> QED BY <2>3, LabelAfter
<1>6. CASE j # Pending(s, d) + 1
  <2>1. j \in 1 .. Pending(s, d)
    BY <1>2, <1>4, <1>6
  <2>2. mail'[s][d][j] = mail[s][d][j]
    BY <1>3, <2>1 DEF Pending
  <2>3. Label(s, Finished[d] + j, mail[s][d][j])
    BY <2>1 DEF Labelled
  <2>4. Label(s, Finished'[d] + j, mail'[s][d][j])
    BY <2>2, <2>3
  <2> QED BY <2>4, LabelAfter
<1> QED BY <1>5, <1>6

LEMMA TailLabels ==
  ASSUME CollInv, Labelled, Constant, NEW s \in Rank, NEW d \in Rank, mail[s][d] # <<>>,
         Finished'[d] = Finished[d] + 1, mail'[s][d] = Tail(mail[s][d])
  PROVE  \A j \in 1 .. Pending(s, d)' : Label(s, Finished[d] + j, mail[s][d][j])'
<1>1. PICK M : mail \in [Rank -> [Rank -> Seq(M)]]
  BY DEF CollInv
<1>2. mail[s][d] \in Seq(M) /\ Pending(s, d) \in Nat /\ Finished[d] \in Int
  BY <1>1, LabelNext DEF Pending
<1> DEFINE t == mail[s][d]
<1>3. Len(Tail(t)) = Len(t) - 1 /\ \A j \in 1 .. Len(t) - 1 : Tail(t)[j] = t[j + 1]
  BY <1>2
<1> SUFFICES ASSUME NEW j \in 1 .. Pending(s, d)'
             PROVE  Label(s, Finished[d] + j, mail[s][d][j])'
  OBVIOUS
<1>4. j \in 1 .. Len(t) - 1 /\ j + 1 \in 1 .. Pending(s, d)
  BY <1>2, <1>3 DEF Pending
<1>5. mail'[s][d][j] = mail[s][d][j + 1]
  BY <1>3, <1>4
<1>6. Label(s, Finished[d] + (j + 1), mail[s][d][j + 1])
  BY <1>4 DEF Labelled
<1>7. Finished'[d] + j = Finished[d] + (j + 1)
  BY <1>2, <1>4
<1>8. Label(s, Finished'[d] + j, mail'[s][d][j])
  BY <1>5, <1>6, <1>7
<1> QED BY <1>8, LabelAfter

LEMMA SameLabels ==
  ASSUME CollInv, Labelled, Constant, NEW s \in Rank, NEW d \in Rank,
         Finished'[d] = Finished[d], mail'[s][d] = mail[s][d]
  PROVE  \A j \in 1 .. Pending(s, d)' : Label(s, Finished[d] + j, mail[s][d][j])'
<1> SUFFICES ASSUME NEW j \in 1 .. Pending(s, d)'
             PROVE  Label(s, Finished[d] + j, mail[s][d][j])'
  OBVIOUS
<1>1. j \in 1 .. Pending(s, d)
  BY DEF Pending
<1>2. Label(s, Finished'[d] + j, mail'[s][d][j])
  BY <1>1 DEF Labelled
<1> QED BY <1>2, LabelAfter

LEMMA EnterLabels ==
  ASSUME CollInv, Labelled, Constant, NEW r \in Rank, NEW kind, NEW parts,
         Enter(r, kind, parts), Finished' = Finished,
         \A d \in Rank : Label(r, calls[r] + 1, <<kind, parts[d]>>)
  PROVE  Labelled'
<1>1. PICK M : mail \in [Rank -> [Rank -> Seq(M)]]
  BY DEF CollInv
<1>2. mail' = [mail EXCEPT ![r] = [d \in Rank |-> Append(mail[r][d], <<kind, parts[d]>>)]]
  BY DEF Enter
<1>3. ASSUME NEW s \in Rank, NEW d \in Rank
      PROVE  \A j \in 1 .. Pending(s, d)' : Label(s, Finished[d] + j, mail[s][d][j])'
  <2>1. CASE s = r
    <3>1. mail'[r][d] = Append(mail[r][d], <<kind, parts[d]>>)
      BY <1>1, <1>2
    <3> QED BY <2>1, <3>1, AppendLabels
  <2>2. CASE s # r
    <3>1. mail'[s][d] = mail[s][d]
      BY <1>1, <1>2, <2>2
    <3> QED BY <3>1, SameLabels
  <2> QED BY <2>1, <2>2
<1> QED BY <1>3 DEF Labelled

LEMMA LeaveLabels ==
  ASSUME CollInv, Labelled, Constant, NEW r \in Rank, Leave(r),
         \A d \in Rank : Finished'[d] = IF d = r THEN Finished[d] + 1 ELSE Finished[d]
  PROVE  Labelled'
<1>1. PICK M : mail \in [Rank -> [Rank -> Seq(M)]]
  BY DEF CollInv
<1>2. mail' = [s \in Rank |-> [mail[s] EXCEPT ![r] = Tail(mail[s][r])]] /\ Arrived(r)
  BY DEF Leave, Matched
<1>3. ASSUME NEW s \in Rank, NEW d \in Rank
      PROVE  \A j \in 1 .. Pending(s, d)' : Label(s, Finished[d] + j, mail[s][d][j])'
  <2>1. CASE d = r
    <3>1. mail'[s][r] = Tail(mail[s][r]) /\ mail[s][r] # <<>>
      BY <1>1, <1>2 DEF Arrived
    <3> QED BY <2>1, <3>1, TailLabels
  <2>2. CASE d # r
    <3>1. mail'[s][d] = mail[s][d]
      BY <1>1, <1>2, <2>2
    <3> QED BY <2>2, <3>1, SameLabels
  <2> QED BY <2>1, <2>2
<1> QED BY <1>3 DEF Labelled

\* A message that is no gather, past the gathers of who sends it.
LEMMA LaterLabel ==
  ASSUME NEW s \in Rank, NEW k \in Nat, NEW kind, kind # "gather", k > Nth[s][Layers], NEW x
  PROVE  Label(s, k, <<kind, x>>)
<1>1. Nth[s][Layers] \in Nat
  BY NthIs, ParallelAssumption
<1> QED BY <1>1 DEF Label

\* A pair whose mail loses its head and gets a message.
LEMMA TailAppendLabels ==
  ASSUME CollInv, Labelled, Constant, NEW s \in Rank, mail[s][s] # <<>>, NEW m,
         Label(s, calls[s] + 1, m), Finished'[s] = Finished[s] + 1,
         mail'[s][s] = Append(Tail(mail[s][s]), m)
  PROVE  \A j \in 1 .. Pending(s, s)' : Label(s, Finished[s] + j, mail[s][s][j])'
<1>1. PICK M : mail \in [Rank -> [Rank -> Seq(M)]]
  BY DEF CollInv
<1> DEFINE t == mail[s][s]
<1>2. t \in Seq(M) /\ Pending(s, s) \in Nat /\ Finished[s] \in Int
      /\ Finished[s] + (Pending(s, s) + 1) = calls[s] + 1 /\ Pending(s, s) = Len(t)
  BY <1>1, LabelNext DEF Pending
<1>3. /\ Tail(t) \in Seq(M) /\ Len(Tail(t)) = Len(t) - 1 /\ Len(t) >= 1
      /\ \A j \in 1 .. Len(t) - 1 : Tail(t)[j] = t[j + 1]
  BY <1>2
<1>4. /\ Len(Append(Tail(t), m)) = Len(t)
      /\ \A j \in 1 .. Len(t) - 1 : Append(Tail(t), m)[j] = t[j + 1]
      /\ Append(Tail(t), m)[Len(t)] = m
  <2> DEFINE u == Tail(t)
  <2>1. u \in Seq(M) /\ Len(u) = Len(t) - 1 /\ \A j \in 1 .. Len(u) : u[j] = t[j + 1]
    BY <1>3
  <2> HIDE DEF u
  <2>2. /\ Len(Append(u, m)) = Len(u) + 1 /\ Append(u, m)[Len(u) + 1] = m
        /\ \A j \in 1 .. Len(u) : Append(u, m)[j] = u[j]
    BY <2>1
  <2>3. Len(u) + 1 = Len(t)
    BY <1>2, <2>1
  <2> QED BY <2>1, <2>2, <2>3 DEF u
<1> SUFFICES ASSUME NEW j \in 1 .. Pending(s, s)'
             PROVE  Label(s, Finished[s] + j, mail[s][s][j])'
  OBVIOUS
<1>5. j \in 1 .. Len(t)
  BY <1>4 DEF Pending
<1> HIDE DEF t
<1>6. CASE j = Len(t)
  <2>1. mail'[s][s][j] = m
    BY <1>4, <1>6 DEF t
  <2>2. Finished'[s] + j = calls[s] + 1
    BY <1>2, <1>6
  <2>3. Label(s, Finished'[s] + j, mail'[s][s][j])
    BY <2>1, <2>2
  <2> QED BY <2>3, LabelAfter
<1>7. CASE j # Len(t)
  <2>1. j \in 1 .. Len(t) - 1 /\ j + 1 \in 1 .. Pending(s, s)
    BY <1>2, <1>5, <1>7
  <2>2. mail'[s][s][j] = mail[s][s][j + 1]
    BY <1>4, <2>1 DEF t
  <2>3. Label(s, Finished[s] + (j + 1), mail[s][s][j + 1])
    BY <2>1 DEF Labelled
  <2>4. Finished'[s] + j = Finished[s] + (j + 1)
    <3>1. PICK n, x : n = Finished[s] /\ x = Finished'[s]
      OBVIOUS
    <3>2. n \in Int /\ j \in Int /\ x = n + 1
      BY <1>2, <2>1, <3>1
    <3>3. x + j = n + (j + 1)
      BY ONLY <3>2
    <3> QED BY <3>1, <3>3
  <2>5. Label(s, Finished'[s] + j, mail'[s][s][j])
    BY <2>2, <2>3, <2>4
  <2> QED BY <2>5, LabelAfter
<1> QED BY <1>6, <1>7

LEMMA LeaveAndEnterLabels ==
  ASSUME CollInv, Labelled, Constant, NEW r \in Rank, NEW kind, kind # "gather", NEW parts,
         LeaveAndEnter(r, kind, parts), calls[r] >= Nth[r][Layers],
         \A d \in Rank : Finished'[d] = IF d = r THEN Finished[d] + 1 ELSE Finished[d]
  PROVE  Labelled'
<1>1. PICK M : mail \in [Rank -> [Rank -> Seq(M)]]
  BY DEF CollInv
<1>2. /\ mail' = [s \in Rank |-> [d \in Rank |->
         IF s = r THEN Append(IF d = r THEN Tail(mail[s][d]) ELSE mail[s][d], <<kind, parts[d]>>)
         ELSE IF d = r THEN Tail(mail[s][d]) ELSE mail[s][d]]]
      /\ \A s \in Rank : mail[s][r] # <<>>
  BY DEF LeaveAndEnter, Matched, Arrived
<1>3. \A d \in Rank : Label(r, calls[r] + 1, <<kind, parts[d]>>)
  <2>1. Nth[r][Layers] \in Nat /\ calls[r] \in Nat
    BY NthIs, ParallelAssumption DEF CollInv
  <2>2. calls[r] + 1 \in Nat /\ calls[r] + 1 > Nth[r][Layers]
    BY <2>1
  <2> QED BY <2>2, LaterLabel
<1>4. ASSUME NEW s \in Rank, NEW d \in Rank
      PROVE  \A j \in 1 .. Pending(s, d)' : Label(s, Finished[d] + j, mail[s][d][j])'
  <2>1. CASE d = r /\ s = r
    <3>1. mail'[r][r] = Append(Tail(mail[r][r]), <<kind, parts[r]>>)
      BY <1>2
    <3> QED BY <1>2, <1>3, <2>1, <3>1, TailAppendLabels
  <2>4. CASE d = r /\ s # r
    <3>1. mail'[s][r] = Tail(mail[s][r])
      BY <1>2, <2>4
    <3> QED BY <1>2, <2>4, <3>1, TailLabels
  <2>2. CASE d # r /\ s = r
    <3>1. mail'[r][d] = Append(mail[r][d], <<kind, parts[d]>>)
      BY <1>2, <2>2
    <3> QED BY <1>3, <2>2, <3>1, AppendLabels
  <2>3. CASE d # r /\ s # r
    <3>1. mail'[s][d] = mail[s][d]
      BY <1>2, <2>3
    <3> QED BY <2>3, <3>1, SameLabels
  <2> QED BY <2>1, <2>2, <2>3, <2>4
<1> QED BY <1>4 DEF Labelled

LEMMA QuietLabels ==
  ASSUME CollInv, Labelled, Constant, Finished' = Finished, UNCHANGED mail
  PROVE  Labelled'
BY SameLabels DEF Labelled

-----------------------------------------------------------------------------
(* Load time.                                                              *)

\* A rank that does not move keeps its place.
LEMMA OthersCounted ==
  ASSUME CollInv, Counted, Constant, NEW r \in Rank,
         \A q \in Rank \ {r} : /\ pc'[q] = pc[q] /\ comm'[q] = comm[q]
                               /\ layer'[q] = layer[q] /\ calls'[q] = calls[q],
         CountedAt(r)'
  PROVE  Counted'
<1>1. ASSUME NEW q \in Rank, q # r PROVE CountedAt(q)'
  <2>1. /\ pc'[q] = pc[q] /\ comm'[q] = comm[q] /\ layer'[q] = layer[q]
        /\ calls'[q] = calls[q] /\ Nth' = Nth /\ fault' = fault
    BY <1>1 DEF Constant
  <2>2. CountedAt(q)
    BY DEF Counted
  <2> QED BY <2>1, <2>2 DEF CountedAt
<1> QED BY <1>1 DEF Counted

LEMMA OthersTables ==
  ASSUME TableInv, Constant, NEW r \in Rank,
         \A q \in Rank \ {r} : /\ pc'[q] = pc[q] /\ comm'[q] = comm[q] /\ layer'[q] = layer[q]
                               /\ table'[q] = table[q] /\ attached'[q] = attached[q]
                               /\ imported'[q] = imported[q],
         TableAt(r)'
  PROVE  TableInv'
<1>0. All' = All /\ \A q, l : LocalMappings(q, l)' = LocalMappings(q, l)
  BY DEF Constant, All, LocalMappings
<1>1. ASSUME NEW q \in Rank, q # r PROVE TableAt(q)'
  <2>1. /\ pc'[q] = pc[q] /\ comm'[q] = comm[q] /\ layer'[q] = layer[q]
        /\ table'[q] = table[q] /\ attached'[q] = attached[q] /\ imported'[q] = imported[q]
    BY <1>1
  <2>2. TableAt(q)
    BY DEF TableInv
  <2>3. \A l \in Layer : GoodTable(q, l, table[q][l])'
    <3>1. \A l \in Layer : GoodTable(q, l, table[q][l])
      BY <2>2 DEF TableAt
    <3>2. table'[q] = table[q]
      BY <2>1
    <3>3. \A l, e, m : GoodEntry(q, l, e, m)' = GoodEntry(q, l, e, m)
      BY DEF GoodEntry, Constant
    <3> QED BY <3>1, <3>2, <3>3 DEF GoodTable
  <2>4. \A l : Whole(q, l)' <=> Whole(q, l)
    BY DEF Whole, Constant
  <2>5. \A l \in attached[q] :
          /\ held[q] \subseteq DOMAIN table[q][l]
          /\ imported[q][l] \subseteq DOMAIN table[q][l] \ held[q]
          /\ comm[q] = "up" /\ Whole(q, l) => DOMAIN table[q][l] = All
    BY <2>2 DEF TableAt
  <2>6. (\A l \in attached[q] :
          /\ held[q] \subseteq DOMAIN table[q][l]
          /\ imported[q][l] \subseteq DOMAIN table[q][l] \ held[q]
          /\ comm[q] = "up" /\ Whole(q, l) => DOMAIN table[q][l] = All)'
    BY <1>0, <2>1, <2>4, <2>5 DEF Constant
  <2> DEFINE k == layer[q]
  <2>7. k' = k /\ (Whole(q, k)' <=> Whole(q, k)) /\ LocalMappings(q, k)' = LocalMappings(q, k)
    BY <1>0, <2>1, <2>4 DEF Whole, LocalMappings, Constant
  <2>8. (pc[q] \in Booting => \A l \in attached[q] : l < layer[q])'
    BY <2>1, <2>2 DEF TableAt
  <2>9. (pc[q] = "gather" => table[q][k] = LocalMappings(q, k))'
    BY <2>1, <2>2, <2>7 DEF TableAt
  <2>10. (pc[q] = "attach" =>
            /\ held[q] \subseteq DOMAIN table[q][k]
            /\ comm[q] = "up" /\ Whole(q, k) => DOMAIN table[q][k] = All)'
    BY <1>0, <2>1, <2>2, <2>7 DEF TableAt, Constant
  <2> QED BY <2>3, <2>6, <2>8, <2>9, <2>10 DEF TableAt
<1> QED BY <1>1 DEF TableInv

LEMMA HeldTypes ==
  ASSUME PlaceTypes, NEW r \in Rank
  PROVE  held[r] \subseteq Expert /\ held \in [Rank -> SUBSET Expert]
         /\ load \in [Rank -> Seq(Batches)] /\ Len(load[r]) \in Nat
BY ParallelAssumption DEF PlaceTypes

LEMMA LocalTable ==
  ASSUME PlaceTypes, NEW r \in Rank, NEW l \in Layer
  PROVE  /\ LocalMappings(r, l) \in Tables
         /\ DOMAIN LocalMappings(r, l) = held[r]
         /\ GoodTable(r, l, LocalMappings(r, l))
         /\ \A e \in held[r] : LocalMappings(r, l)[e] \in Mapping
                               /\ LocalMappings(r, l)[e].owner = r
                               /\ LocalMappings(r, l)[e].layer = l
                               /\ (LocalMappings(r, l)[e].handle => <<r, l>> \notin fault.export)
<1> DEFINE h == <<r, l>> \notin fault.export
<1>1. held[r] \subseteq Expert
  BY HeldTypes
<1>2. Weights \in Nat
  BY ParallelAssumption
<1>3. h \in BOOLEAN /\ (h = TRUE => <<r, l>> \notin fault.export)
  OBVIOUS
<1>4. /\ LocalMappings(r, l) = [e \in held[r] |-> LocalMappings(r, l)[e]]
      /\ \A e \in held[r] : LocalMappings(r, l)[e] =
           [owner |-> r, layer |-> l, bytes |-> Weights, handle |-> h]
  BY DEF LocalMappings
<1> HIDE DEF h, LocalMappings
<1>5. ASSUME NEW e \in held[r]
      PROVE  /\ LocalMappings(r, l)[e] \in Mapping
             /\ LocalMappings(r, l)[e].owner = r /\ LocalMappings(r, l)[e].layer = l
             /\ LocalMappings(r, l)[e].handle = h
  BY <1>2, <1>3, <1>4 DEF Mapping
<1>6. LocalMappings(r, l) \in [held[r] -> Mapping]
  BY <1>4, <1>5
<1>7. LocalMappings(r, l) \in Tables /\ DOMAIN LocalMappings(r, l) = held[r]
  BY <1>1, <1>6 DEF Tables
<1>8. \A e \in held[r] : LocalMappings(r, l)[e].handle => <<r, l>> \notin fault.export
  BY <1>3, <1>5
<1>9. GoodTable(r, l, LocalMappings(r, l))
  BY <1>5, <1>7, <1>8 DEF GoodTable, GoodEntry
<1> QED BY <1>5, <1>7, <1>8, <1>9

LEMMA FirstRank ==
  ASSUME NEW T, T \subseteq Nat, T # {}
  PROVE  \E n \in T : \A m \in T : n <= m
<1>1. PICK n \in T : \A m \in T : ~ (<<m, n>> \in OpToRel(<, Nat))
  BY NatLessThanWellFounded, WFMin
<1>2. ASSUME NEW m \in T, m < n PROVE FALSE
  BY <1>1, <1>2 DEF OpToRel
<1> QED BY <1>2

LEMMA FirstHolderIs ==
  ASSUME NEW parts, NEW e, \E s \in Rank : e \in DOMAIN parts[s]
  PROVE  FirstHolder(parts, e) \in Rank /\ e \in DOMAIN parts[FirstHolder(parts, e)]
<1> DEFINE T == {s \in Rank : e \in DOMAIN parts[s]}
<1>1. T \subseteq Nat /\ T # {}
  BY DEF Rank
<1>2. PICK n \in T : \A m \in T : n <= m
  <2> HIDE DEF T
  <2> QED BY <1>1, FirstRank
<1>3. \A q \in Rank : q < n => e \notin DOMAIN parts[q]
  <2> SUFFICES ASSUME NEW q \in Rank, q < n, e \in DOMAIN parts[q] PROVE FALSE
    OBVIOUS
  <2>1. q \in T /\ q \in Nat /\ n \in Nat
    BY <1>1
  <2> QED BY <1>2, <2>1
<1> QED BY <1>2, <1>3 DEF FirstHolder

\* A part that s sends in its n-th gather.
FromGather(s, n, part) == \E x \in Layer : Nth[s][x] = n /\ part = LocalMappings(s, x)

\* What a rank makes of its own mapping and everybody's.
LEMMA MergeIs ==
  ASSUME PlaceTypes, NEW r \in Rank, NEW l \in Layer, NEW parts,
         \A s \in Rank : FromGather(s, Nth[r][l], parts[s])
  PROVE  LET t == Merge(LocalMappings(r, l), parts) IN
         t \in Tables /\ DOMAIN t = All /\ GoodTable(r, l, t)
<1> DEFINE own == LocalMappings(r, l)
           t == Merge(own, parts)
<1>1. \A s \in Rank : DOMAIN parts[s] = held[s] /\ held[s] \subseteq Expert
  <2> TAKE s \in Rank
  <2>1. held[s] \subseteq Expert
    BY HeldTypes
  <2>2. PICK x \in Layer : parts[s] = LocalMappings(s, x)
    BY DEF FromGather
  <2>3. DOMAIN LocalMappings(s, x) = held[s]
    BY LocalTable
  <2> QED BY <2>1, <2>2, <2>3
<1>2. DOMAIN own = held[r]
  BY LocalTable
<1>3. DOMAIN own \cup UNION {DOMAIN parts[s] : s \in Rank} = All
  <2>1. UNION {DOMAIN parts[s] : s \in Rank} = All
    BY <1>1 DEF All
  <2> QED BY <1>2, <2>1 DEF All
<1> HIDE DEF own
<1>4. /\ DOMAIN t = All
      /\ \A e \in All : t[e] = IF e \in held[r] THEN own[e] ELSE parts[FirstHolder(parts, e)][e]
  BY <1>2, <1>3 DEF Merge
<1>5. t = [e \in All |-> t[e]]
  BY <1>3 DEF Merge
<1> HIDE DEF t
<1>6. ASSUME NEW e \in All PROVE t[e] \in Mapping /\ GoodEntry(r, l, e, t[e])
  <2>1. CASE e \in held[r]
    <3>1. t[e] = LocalMappings(r, l)[e]
      BY <1>4, <2>1 DEF own
    <3>2. /\ t[e] \in Mapping /\ t[e].owner = r /\ t[e].layer = l
          /\ (t[e].handle => <<r, l>> \notin fault.export)
      BY <2>1, <3>1, LocalTable
    <3> QED BY <2>1, <3>2 DEF GoodEntry
  <2>2. CASE e \notin held[r]
    <3> DEFINE s == FirstHolder(parts, e)
    <3>1. \E q \in Rank : e \in DOMAIN parts[q]
      BY <1>1 DEF All
    <3>2. s \in Rank /\ e \in held[s]
      BY <1>1, <3>1, FirstHolderIs
    <3>3. t[e] = parts[s][e]
      BY <1>4, <2>2, <3>2
    <3> HIDE DEF s
    <3>4. s # r
      BY <2>2, <3>2
    <3>6. PICK x \in Layer : Nth[s][x] = Nth[r][l] /\ parts[s] = LocalMappings(s, x)
      BY <3>2 DEF FromGather
    <3>5. /\ t[e] \in Mapping /\ t[e].owner = s /\ t[e].layer = x
          /\ (t[e].handle => <<s, x>> \notin fault.export)
      BY <3>2, <3>3, <3>6, LocalTable
    <3> QED BY <2>2, <3>2, <3>4, <3>5, <3>6 DEF GoodEntry
  <2> QED BY <2>1, <2>2
<1>7. All \subseteq Expert
  BY <1>1 DEF All
<1>8. t \in [All -> Mapping]
  BY <1>5, <1>6
<1>9. t \in Tables
  BY <1>7, <1>8 DEF Tables
<1>10. GoodTable(r, l, t)
  BY <1>4, <1>6 DEF GoodTable
<1> QED BY <1>4, <1>9, <1>10 DEF t, own

\* The parts of the invariant that steps at load time can disturb.
BootInv == PlaceTypes /\ BootTypes /\ Counted /\ Labelled /\ TableInv

LEMMA PlaceMoves ==
  ASSUME CollInv, PlaceTypes, UNCHANGED config, NEW r \in Rank, NEW place \in Control,
         NEW l \in Layer, NEW p \in Nat \ {0}, p <= Len(load[r]) + 1,
         place \in Busy => p <= Len(load[r]),
         pc' = [pc EXCEPT ![r] = place], layer' = [layer EXCEPT ![r] = l],
         pass' = [pass EXCEPT ![r] = p]
  PROVE  PlaceTypes'
<1>1. /\ pc'[r] = place /\ layer'[r] = l /\ pass'[r] = p
      /\ \A q \in Rank : q # r => pc'[q] = pc[q] /\ layer'[q] = layer[q] /\ pass'[q] = pass[q]
  BY DEF CollInv, PlaceTypes
<1>2. layer' \in [Rank -> Layer] /\ pass' \in [Rank -> Nat \ {0}]
  BY DEF PlaceTypes
<1>3. policy' \in Policies /\ held' \in Registries /\ load' \in Loads /\ load' = load
  BY DEF PlaceTypes, config
<1>4. \A q \in Rank : pass'[q] <= Len(load[q]) + 1
  BY <1>1 DEF PlaceTypes
<1>5. \A q \in Rank : pc'[q] \in Busy => pass'[q] <= Len(load[q])
  BY <1>1 DEF PlaceTypes
<1> QED BY <1>2, <1>3, <1>4, <1>5 DEF PlaceTypes

\* A step at load time starts no pass.
LEMMA BootPlaces ==
  ASSUME CollInv, PlaceTypes, UNCHANGED <<config, pass>>, NEW r \in Rank,
         NEW place \in Control \ Busy, NEW l \in Layer,
         pc' = [pc EXCEPT ![r] = place], layer' = [layer EXCEPT ![r] = l]
  PROVE  PlaceTypes'
<1>1. pass' = [pass EXCEPT ![r] = pass[r]] /\ pass[r] \in Nat \ {0} /\ pass[r] <= Len(load[r]) + 1
  BY DEF PlaceTypes
<1> QED BY <1>1, PlaceMoves

LEMMA SameFinished ==
  ASSUME CollInv, NEW r \in Rank,
         \A q \in Rank \ {r} : pc'[q] = pc[q] /\ comm'[q] = comm[q] /\ calls'[q] = calls[q],
         NEW f, Finished'[r] = f
  PROVE  \A d \in Rank : Finished'[d] = IF d = r THEN f ELSE Finished[d]
BY DEF Finished, Waiting

LEMMA FinishedEquals ==
  ASSUME CollInv, \A d \in Rank : Finished'[d] = Finished[d]
  PROVE  Finished' = Finished
BY DEF Finished

LEMMA TableWritten ==
  ASSUME BootTypes, NEW r \in Rank, NEW l \in Layer, NEW t \in Tables,
         table' = [table EXCEPT ![r][l] = t]
  PROVE  /\ table' \in [Rank -> [Layer -> Tables]]
         /\ table'[r][l] = t
         /\ \A k \in Layer : k # l => table'[r][k] = table[r][k]
         /\ \A q \in Rank : q # r => table'[q] = table[q]
<1> DEFINE row == [table[r] EXCEPT ![l] = t]
<1>1. table \in [Rank -> [Layer -> Tables]]
  BY DEF BootTypes
<1>2. row \in [Layer -> Tables] /\ row[l] = t /\ \A k \in Layer : k # l => row[k] = table[r][k]
  BY <1>1
<1>3. table' = [table EXCEPT ![r] = row]
  BY <1>1
<1> HIDE DEF row
<1> QED BY <1>1, <1>2, <1>3

LEMMA LayerSets ==
  ASSUME NEW f \in [Rank -> SUBSET Layer], NEW r \in Rank, NEW S, S \subseteq Layer, NEW g,
         g = [f EXCEPT ![r] = S]
  PROVE  /\ g \in [Rank -> SUBSET Layer] /\ g[r] = S
         /\ \A q \in Rank : q # r => g[q] = f[q]
OBVIOUS

LEMMA EngineLayers == ASSUME NEW r, NEW l \in Layer PROVE EngineOf(r, l) \subseteq Layer
BY DEF EngineOf

LEMMA InitGroupTables ==
  ASSUME CollInv, BootInv, NEW r \in Rank, InitGroup(r)
  PROVE  BootInv'
<1>1. /\ pc[r] = "init" /\ native' = [native EXCEPT ![r] = EngineOf(r, 1)]
      /\ UNCHANGED <<config, layer, pass, comm, calls, mail, table, attached, imported>>
  BY DEF InitGroup
<1>2. UNCHANGED fault /\ Constant
  BY <1>1, ConstantIs DEF config, Constant
<1>3. PICK place \in {"idle", "boot"} :
        pc' = [pc EXCEPT ![r] = place] /\ (place = "idle" <=> fault.group)
  BY DEF InitGroup
<1>4. pc'[r] = place /\ \A q \in Rank \ {r} : pc'[q] = pc[q]
  BY <1>3 DEF CollInv
<1>5. PlaceTypes'
  <2>1. place \in Control \ Busy
    BY DEF Control, Collective, Busy, Exchanging
  <2>2. layer' = [layer EXCEPT ![r] = layer[r]] /\ layer[r] \in Layer
    BY <1>1 DEF BootInv, PlaceTypes
  <2> QED BY <1>1, <1>3, <2>1, <2>2, BootPlaces DEF BootInv
<1>6. BootTypes'
  <2>1. native' \in [Rank -> SUBSET Layer]
    BY <1>1, LayerIs, EngineLayers DEF BootInv, BootTypes
  <2> QED BY <1>1, <2>1 DEF BootInv, BootTypes
<1>7. Finished' = Finished
  BY <1>1, <1>4 DEF Finished, Waiting, Collective, CollInv
<1>8. Labelled'
  BY <1>1, <1>2, <1>7, QuietLabels DEF BootInv
<1>9. Counted'
  <2>1. layer[r] = 1 /\ calls[r] = 0 /\ calls' = calls /\ layer' = layer
    BY <1>1 DEF BootInv, Counted, CountedAt
  <2>3. Nth[r][layer[r] - 1] = 0 /\ Nth' = Nth
    BY <1>2, <2>1, NthIs DEF Constant
  <2>2. CountedAt(r)'
    BY <1>1, <1>2, <1>3, <1>4, <2>1, <2>3 DEF CountedAt, Booting, Exchanging
  <2> QED BY <1>1, <1>2, <1>4, <2>2, OthersCounted DEF BootInv
<1>10. TableInv'
  <2>1. TableAt(r)
    BY DEF BootInv, TableInv
  <2>2. \A l \in Layer : GoodTable(r, l, table[r][l])'
    BY <1>1, <1>2, <2>1 DEF TableAt, GoodTable, GoodEntry, Constant
  <2>3. All' = All /\ held' = held
    BY <1>2 DEF Constant, All
  <2>4. pc[r] \in Booting /\ pc'[r] # "gather" /\ pc'[r] # "attach"
    BY <1>1, <1>4 DEF Booting
  <2>6. \A l : Whole(r, l)' <=> Whole(r, l)
    BY <1>2 DEF Whole
  <2>5. TableAt(r)'
    BY <1>1, <2>1, <2>2, <2>3, <2>4, <2>6 DEF TableAt
  <2> QED BY <1>1, <1>2, <1>4, <2>5, OthersTables DEF BootInv
<1> QED BY <1>5, <1>6, <1>8, <1>9, <1>10 DEF BootInv

\* What a rank registers and what it sends are its mappings of its layer.
LEMMA BeginGatherTables ==
  ASSUME CollInv, BootInv, NEW r \in Rank, BeginGather(r)
  PROVE  BootInv'
<1> DEFINE l == layer[r]
<1>1. /\ pc[r] = "boot" /\ native' = [native EXCEPT ![r] = native[r] \cup EngineOf(r, l)]
      /\ table' = [table EXCEPT ![r][l] = LocalMappings(r, l)]
      /\ UNCHANGED <<config, layer, pass, attached, imported>>
  BY DEF BeginGather
<1>2. l \in Layer /\ layer' = [layer EXCEPT ![r] = l]
  BY <1>1 DEF BootInv, PlaceTypes
<1> HIDE DEF l
<1>3. Constant /\ UNCHANGED fault /\ All' = All /\ held' = held
      /\ LocalMappings(r, l)' = LocalMappings(r, l')
  BY <1>1, ConstantIs DEF config, Constant, All, LocalMappings
<1>4. /\ table' \in [Rank -> [Layer -> Tables]] /\ table'[r][l] = LocalMappings(r, l)
      /\ \A k \in Layer : k # l => table'[r][k] = table[r][k]
      /\ \A q \in Rank : q # r => table'[q] = table[q]
  <2>1. LocalMappings(r, l) \in Tables
    BY <1>2, LocalTable DEF BootInv
  <2> QED BY <1>1, <1>2, <2>1, TableWritten DEF BootInv
<1>5. BootTypes'
  <2>1. native' \in [Rank -> SUBSET Layer]
    <3>1. native[r] \cup EngineOf(r, l) \subseteq Layer
      BY <1>2, EngineLayers DEF BootInv, BootTypes
    <3> QED BY <1>1, <3>1 DEF BootInv, BootTypes
  <2> QED BY <1>1, <1>4, <2>1 DEF BootInv, BootTypes
<1>6. TableAt(r) /\ CountedAt(r) /\ pc[r] \in Booting /\ ~Waiting(r)
  BY <1>1 DEF BootInv, TableInv, Counted, Booting, Waiting, Collective
<1>7. \A k \in Layer : GoodTable(r, k, table[r][k])'
  <2>1. TAKE k \in Layer
  <2>2. GoodTable(r, k, table'[r][k])
    <3>1. GoodTable(r, l, LocalMappings(r, l))
      BY <1>2, LocalTable DEF BootInv
    <3> QED BY <1>4, <1>6, <3>1 DEF TableAt
  <2> QED BY <1>3, <2>2 DEF GoodTable, GoodEntry, Constant
<1>8. \A k \in attached[r] : k \in Layer /\ k # l
  <2>1. attached[r] \subseteq Layer
    BY DEF BootInv, BootTypes
  <2>2. \A k \in attached[r] : k < l
    BY <1>6 DEF TableAt, l
  <2> QED BY <1>2, <2>1, <2>2, LayerIs
<1>9. \A q \in Rank \ {r} : table'[q] = table[q] /\ attached'[q] = attached[q]
                            /\ imported'[q] = imported[q] /\ layer'[q] = layer[q]
  BY <1>1, <1>4
<1>10. layer'[r] = l
  BY <1>1 DEF l
<1>11. DOMAIN LocalMappings(r, l) = held[r]
  BY <1>2, LocalTable DEF BootInv
<1>14. \A k : Whole(r, k)' <=> Whole(r, k)
  BY <1>3 DEF Whole
<1>12. CASE comm[r] = "up" /\ <<r, l>> \notin fault.refused
  <2>1. /\ Enter(r, "gather", [d \in Rank |-> LocalMappings(r, l)])
        /\ pc' = [pc EXCEPT ![r] = "gather"] /\ UNCHANGED comm
    BY <1>12 DEF BeginGather, l
  <2>2. pc'[r] = "gather" /\ \A q \in Rank \ {r} : pc'[q] = pc[q]
    BY <2>1 DEF CollInv
  <2>3. calls[r] + 1 = Nth[r][l] /\ calls[r] \in Nat
    <3>1. calls[r] = Nth[r][l - 1] /\ calls[r] \in Nat
      BY <1>1, <1>6, <1>12 DEF CountedAt, l, CollInv
    <3> QED BY <1>2, <1>12, <3>1, NthIs
  <2>4. calls'[r] = calls[r] + 1 /\ \A q \in Rank \ {r} : calls'[q] = calls[q]
    BY <2>1 DEF Enter, CollInv
  <2>5. Finished' = Finished
    <3>1. Finished[r] = calls[r]
      BY <1>6, <1>12, FinishedIs
    <3>2. Finished'[r] = calls[r]
      BY <2>2, <2>3, <2>4 DEF Finished, Waiting, Collective
    <3>3. \A d \in Rank : Finished'[d] = Finished[d]
      BY <2>1, <2>2, <2>4, <3>1, <3>2, SameFinished
    <3> QED BY <3>3, FinishedEquals
  <2>6. Labelled'
    <3> DEFINE parts == [d \in Rank |-> LocalMappings(r, l)]
    <3>2. \A d \in Rank : Label(r, calls[r] + 1, <<"gather", parts[d]>>)
      BY <1>2, <2>3 DEF Label
    <3>3. Enter(r, "gather", parts)
      BY <2>1
    <3> HIDE DEF parts
    <3> QED BY <1>3, <2>5, <3>2, <3>3, EnterLabels DEF BootInv
  <2>7. PlaceTypes'
    <3>1. "gather" \in Control \ Busy
      BY DEF Control, Collective, Busy, Exchanging
    <3> QED BY <1>1, <1>2, <2>1, <3>1, BootPlaces DEF BootInv
  <2>8. Counted'
    <3>1. calls'[r] = Nth'[r][l]
      BY <1>3, <2>3, <2>4 DEF Constant
    <3>2. CountedAt(r)'
      BY <1>10, <2>2, <3>1 DEF CountedAt, Booting, Exchanging
    <3> QED BY <1>3, <1>9, <2>1, <2>2, <2>4, <3>2, OthersCounted DEF BootInv
  <2>9. TableInv'
    <3>1. LocalMappings(r, l') = LocalMappings(r, l) /\ LocalMappings(r, layer[r])' = LocalMappings(r, l)
      BY <1>3, <1>10 DEF LocalMappings, l, Constant
    <3>2. TableAt(r)'
      BY <1>1, <1>3, <1>4, <1>6, <1>7, <1>8, <1>10, <1>14, <2>1, <2>2, <3>1 DEF TableAt, l
    <3> QED BY <1>3, <1>9, <2>1, <2>2, <3>2, OthersTables DEF BootInv
  <2> QED BY <1>5, <2>6, <2>7, <2>8, <2>9 DEF BootInv
<1>13. CASE ~(comm[r] = "up" /\ <<r, l>> \notin fault.refused)
  <2>1. pc' = [pc EXCEPT ![r] = "attach"] /\ UNCHANGED <<mail, calls, comm>>
    BY <1>13 DEF BeginGather, l
  <2>2. /\ pc'[r] = "attach" /\ comm' = comm
        /\ \A q \in Rank \ {r} : pc'[q] = pc[q] /\ comm'[q] = comm[q]
    BY <2>1 DEF CollInv
  <2>3. Finished' = Finished
    <3>1. Finished'[r] = Finished[r]
      BY <1>6, <2>1, <2>2 DEF Finished, Waiting, Collective
    <3>2. \A d \in Rank : Finished'[d] = Finished[d]
      BY <2>1, <2>2, <3>1, SameFinished
    <3> QED BY <3>2, FinishedEquals
  <2>4. Labelled'
    BY <1>3, <2>1, <2>3, QuietLabels DEF BootInv
  <2>5. PlaceTypes'
    <3>1. "attach" \in Control \ Busy
      BY DEF Control, Collective, Busy, Exchanging
    <3> QED BY <1>1, <1>2, <2>1, <3>1, BootPlaces DEF BootInv
  <2>6. Counted'
    <3>1. comm'[r] = "up" => calls'[r] = Nth'[r][l]
      <4>1. comm[r] = "up" => calls[r] = Nth[r][l - 1]
        BY <1>1, <1>6 DEF CountedAt, l
      <4>2. comm[r] = "up" => Nth[r][l] = Nth[r][l - 1]
        BY <1>2, <1>13, NthIs
      <4> QED BY <1>3, <2>1, <4>1, <4>2 DEF Constant
    <3>2. CountedAt(r)'
      BY <1>10, <2>2, <3>1 DEF CountedAt, Booting, Exchanging
    <3> QED BY <1>3, <1>9, <2>1, <2>2, <3>2, OthersCounted DEF BootInv
  <2>7. TableInv'
    <3>3. ~(comm'[r] = "up" /\ Whole(r, l))
      BY <1>13, <2>1 DEF Whole
    <3>1. TableAt(r)'
      BY <1>1, <1>3, <1>4, <1>6, <1>7, <1>8, <1>10, <1>11, <1>14, <2>2, <3>3 DEF TableAt, l
    <3> QED BY <1>3, <1>9, <2>2, <3>1, OthersTables DEF BootInv
  <2> QED BY <1>5, <2>4, <2>5, <2>6, <2>7 DEF BootInv
<1> QED BY <1>12, <1>13

\* The part a rank takes in its n-th gather is each sender's mapping of the
\* layer of its own n-th.
LEMMA GatheredParts ==
  ASSUME CollInv, BootInv, NEW r \in Rank, pc[r] = "gather", Matched(r)
  PROVE  \A s \in Rank : FromGather(s, Nth[r][layer[r]], Part(r)[s])
<1> TAKE s \in Rank
<1>1. PICK M : mail \in [Rank -> [Rank -> Seq(M)]]
  BY DEF CollInv
<1>2. mail[s][r] \in Seq(M) /\ mail[s][r] # <<>> /\ Head(mail[s][r])[1] = "gather"
  BY <1>1 DEF Matched, Arrived
<1>3. Head(mail[s][r]) = mail[s][r][1] /\ Pending(s, r) \in Nat /\ Pending(s, r) >= 1
  BY <1>2 DEF Pending
<1>4. Label(s, Finished[r] + 1, mail[s][r][1])
  BY <1>3 DEF BootInv, Labelled
<1>5. Finished[r] + 1 = Nth[r][layer[r]]
  <2>1. CountedAt(r) /\ Waiting(r) /\ calls[r] \in Nat
    BY DEF BootInv, Counted, Waiting, Collective, CollInv
  <2>2. calls[r] = Nth[r][layer[r]]
    BY <2>1 DEF CountedAt
  <2>3. Finished[r] = calls[r] - 1
    BY <2>1, FinishedIs
  <2> QED BY <2>1, <2>2, <2>3
<1>6. FromGather(s, Nth[r][layer[r]], mail[s][r][1][2])
  BY <1>2, <1>3, <1>4, <1>5 DEF Label, FromGather
<1> QED BY <1>3, <1>6 DEF Part

LEMMA EndGatherTables ==
  ASSUME CollInv, BootInv, NEW r \in Rank, EndGather(r)
  PROVE  BootInv'
<1> DEFINE l == layer[r]
           t == Merge(LocalMappings(r, l), Part(r))
<1>1. /\ pc[r] = "gather" /\ Leave(r) /\ pc' = [pc EXCEPT ![r] = "attach"]
      /\ table' = [table EXCEPT ![r][l] = Merge(table[r][l], Part(r))]
      /\ UNCHANGED <<config, layer, pass, comm, attached, native, imported>>
  BY DEF EndGather
<1>2. l \in Layer /\ layer' = [layer EXCEPT ![r] = l]
  BY <1>1 DEF BootInv, PlaceTypes
<1>3. TableAt(r) /\ CountedAt(r) /\ pc[r] \in Booting /\ Waiting(r) /\ calls' = calls
  BY <1>1 DEF BootInv, TableInv, Counted, Booting, Waiting, Collective, Leave
<1>4. table[r][l] = LocalMappings(r, l)
  BY <1>1, <1>3 DEF TableAt
<1>5. t \in Tables /\ DOMAIN t = All /\ GoodTable(r, l, t)
  <2>1. \A s \in Rank : FromGather(s, Nth[r][l], Part(r)[s])
    BY <1>1, GatheredParts DEF Leave
  <2> QED BY <1>2, <2>1, MergeIs DEF BootInv
<1>6. table' = [table EXCEPT ![r][l] = t]
  BY <1>1, <1>4
<1> HIDE DEF t
<1>7. /\ table' \in [Rank -> [Layer -> Tables]] /\ table'[r][l] = t
      /\ \A k \in Layer : k # l => table'[r][k] = table[r][k]
      /\ \A q \in Rank : q # r => table'[q] = table[q]
  <2> HIDE DEF l
  <2> QED BY <1>2, <1>5, <1>6, TableWritten DEF BootInv
<1>8. Constant /\ UNCHANGED fault /\ All' = All /\ held' = held
  BY <1>1, ConstantIs DEF config, Constant, All
<1>9. /\ pc'[r] = "attach" /\ layer'[r] = l
      /\ \A q \in Rank \ {r} : pc'[q] = pc[q] /\ comm'[q] = comm[q] /\ calls'[q] = calls[q]
                               /\ table'[q] = table[q] /\ attached'[q] = attached[q]
                               /\ imported'[q] = imported[q] /\ layer'[q] = layer[q]
  BY <1>1, <1>3, <1>7 DEF CollInv
<1>10. held[r] \subseteq All
  BY DEF All
<1>11. PlaceTypes'
  <2>1. "attach" \in Control \ Busy
    BY DEF Control, Collective, Busy, Exchanging
  <2> QED BY <1>1, <1>2, <2>1, BootPlaces DEF BootInv
<1>12. BootTypes'
  BY <1>1, <1>7 DEF BootInv, BootTypes
<1>13. Counted'
  <2>1. CountedAt(r)'
    BY <1>1, <1>3, <1>8, <1>9 DEF CountedAt, Booting, Exchanging, Constant
  <2> QED BY <1>8, <1>9, <2>1, OthersCounted DEF BootInv
<1>14. Labelled'
  <2>1. Finished'[r] = Finished[r] + 1
    <3>1. Finished[r] = calls[r] - 1 /\ comm[r] = "up" /\ calls[r] \in Nat
      BY <1>3, FinishedIs DEF CollInv
    <3>2. Finished'[r] = calls[r]
      BY <1>1, <1>3, <1>9, <3>1 DEF Finished, Waiting, Collective
    <3> QED BY <3>1, <3>2
  <2>2. \A d \in Rank : Finished'[d] = IF d = r THEN Finished[r] + 1 ELSE Finished[d]
    BY <1>9, <2>1, SameFinished
  <2> QED BY <1>1, <1>8, <2>2, LeaveLabels DEF BootInv
<1>15. TableInv'
  <2>1. \A k \in Layer : GoodTable(r, k, table[r][k])'
    <3>1. TAKE k \in Layer
    <3>2. GoodTable(r, k, table'[r][k])
      BY <1>3, <1>5, <1>7 DEF TableAt
    <3> QED BY <1>8, <3>2 DEF GoodTable, GoodEntry, Constant
  <2>2. \A k \in attached[r] : k \in Layer /\ k # l
    <3>1. attached[r] \subseteq Layer
      BY DEF BootInv, BootTypes
    <3>2. \A k \in attached[r] : k < l
      BY <1>3 DEF TableAt
    <3> QED BY <1>2, <3>1, <3>2, LayerIs
  <2>4. \A k : Whole(r, k)' <=> Whole(r, k)
    BY <1>8 DEF Whole
  <2>3. TableAt(r)'
    BY <1>1, <1>3, <1>5, <1>7, <1>8, <1>9, <1>10, <2>1, <2>2, <2>4 DEF TableAt
  <2> QED BY <1>8, <1>9, <2>3, OthersTables DEF BootInv
<1> QED BY <1>11, <1>12, <1>13, <1>14, <1>15 DEF BootInv

\* A gather whose parts are lost leaves the rank with its own mapping.
LEMMA LoseGatherTables ==
  ASSUME CollInv, BootInv, NEW r \in Rank, LoseGather(r)
  PROVE  BootInv'
<1> DEFINE l == layer[r]
<1>1. /\ pc[r] = "gather" /\ Leave(r) /\ pc' = [pc EXCEPT ![r] = "attach"]
      /\ <<r, l>> \in fault.cut
      /\ UNCHANGED <<config, layer, pass, comm, calls, attached, native, imported, table>>
  BY DEF LoseGather, Leave, bootVars
<1>2. l \in Layer /\ layer' = [layer EXCEPT ![r] = l]
  BY <1>1 DEF BootInv, PlaceTypes
<1>3. TableAt(r) /\ CountedAt(r) /\ pc[r] \in Booting /\ Waiting(r)
  BY <1>1 DEF BootInv, TableInv, Counted, Booting, Waiting, Collective
<1>4. table[r][l] = LocalMappings(r, l) /\ DOMAIN LocalMappings(r, l) = held[r]
  BY <1>1, <1>2, <1>3, LocalTable DEF TableAt, BootInv
<1>5. Constant /\ UNCHANGED fault /\ All' = All /\ held' = held
  BY <1>1, ConstantIs DEF config, Constant, All
<1>6. /\ pc'[r] = "attach" /\ layer'[r] = l
      /\ \A q \in Rank \ {r} : pc'[q] = pc[q] /\ comm'[q] = comm[q] /\ calls'[q] = calls[q]
                               /\ table'[q] = table[q] /\ attached'[q] = attached[q]
                               /\ imported'[q] = imported[q] /\ layer'[q] = layer[q]
  BY <1>1 DEF CollInv
<1>7. PlaceTypes'
  <2>1. "attach" \in Control \ Busy
    BY DEF Control, Collective, Busy, Exchanging
  <2> QED BY <1>1, <1>2, <2>1, BootPlaces DEF BootInv
<1>8. BootTypes'
  BY <1>1 DEF BootInv, BootTypes
<1>9. Counted'
  <2>1. CountedAt(r)'
    BY <1>1, <1>3, <1>5, <1>6 DEF CountedAt, Booting, Exchanging, Constant
  <2> QED BY <1>5, <1>6, <2>1, OthersCounted DEF BootInv
<1>10. Labelled'
  <2>1. Finished'[r] = Finished[r] + 1
    <3>1. Finished[r] = calls[r] - 1 /\ comm[r] = "up" /\ calls[r] \in Nat
      BY <1>3, FinishedIs DEF CollInv
    <3>2. Finished'[r] = calls[r]
      BY <1>1, <1>3, <1>6, <3>1 DEF Finished, Waiting, Collective
    <3> QED BY <3>1, <3>2
  <2>2. \A d \in Rank : Finished'[d] = IF d = r THEN Finished[r] + 1 ELSE Finished[d]
    BY <1>6, <2>1, SameFinished
  <2> QED BY <1>1, <1>5, <2>2, LeaveLabels DEF BootInv
<1>11. TableInv'
  <2>1. \A k \in Layer : GoodTable(r, k, table[r][k])'
    BY <1>1, <1>3, <1>5 DEF TableAt, GoodTable, GoodEntry, Constant
  <2>3. (\A k : Whole(r, k)' <=> Whole(r, k)) /\ ~Whole(r, l)
    BY <1>1, <1>5 DEF Whole
  <2>2. TableAt(r)'
    BY <1>1, <1>3, <1>4, <1>5, <1>6, <2>1, <2>3 DEF TableAt
  <2> QED BY <1>5, <1>6, <2>2, OthersTables DEF BootInv
<1> QED BY <1>7, <1>8, <1>9, <1>10, <1>11 DEF BootInv

LEMMA CutGatherTables ==
  ASSUME CollInv, BootInv, NEW r \in Rank, CutGather(r)
  PROVE  BootInv'
<1> DEFINE l == layer[r]
<1>1. /\ pc[r] = "gather" /\ pc' = [pc EXCEPT ![r] = "attach"]
      /\ comm' = [comm EXCEPT ![r] = "broken"]
      /\ UNCHANGED <<config, layer, pass, calls, mail, attached, native, imported, table>>
  BY DEF CutGather, bootVars
<1>2. l \in Layer /\ layer' = [layer EXCEPT ![r] = l]
  BY <1>1 DEF BootInv, PlaceTypes
<1>3. TableAt(r) /\ CountedAt(r) /\ pc[r] \in Booting /\ Waiting(r)
  BY <1>1 DEF BootInv, TableInv, Counted, Booting, Waiting, Collective
<1>4. table[r][l] = LocalMappings(r, l) /\ DOMAIN LocalMappings(r, l) = held[r]
  BY <1>1, <1>2, <1>3, LocalTable DEF TableAt, BootInv
<1>5. Constant /\ UNCHANGED fault /\ All' = All /\ held' = held
  BY <1>1, ConstantIs DEF config, Constant, All
<1>6. /\ pc'[r] = "attach" /\ comm'[r] = "broken" /\ layer'[r] = l
      /\ \A q \in Rank \ {r} : pc'[q] = pc[q] /\ comm'[q] = comm[q] /\ calls'[q] = calls[q]
                               /\ table'[q] = table[q] /\ attached'[q] = attached[q]
                               /\ imported'[q] = imported[q] /\ layer'[q] = layer[q]
  BY <1>1 DEF CollInv
<1>7. PlaceTypes'
  <2>1. "attach" \in Control \ Busy
    BY DEF Control, Collective, Busy, Exchanging
  <2> QED BY <1>1, <1>2, <2>1, BootPlaces DEF BootInv
<1>8. BootTypes'
  BY <1>1 DEF BootInv, BootTypes
<1>9. Counted'
  <2>1. CountedAt(r)'
    BY <1>6 DEF CountedAt, Booting, Exchanging
  <2> QED BY <1>5, <1>6, <2>1, OthersCounted DEF BootInv
<1>10. Labelled'
  <2>1. Finished'[r] = Finished[r]
    <3>1. Finished[r] = calls[r] - 1
      BY <1>3, FinishedIs
    <3>2. Finished'[r] = calls[r] - 1
      BY <1>1, <1>6 DEF Finished
    <3> QED BY <3>1, <3>2
  <2>2. \A d \in Rank : Finished'[d] = Finished[d]
    BY <1>6, <2>1, SameFinished
  <2>3. Finished' = Finished
    BY <2>2, FinishedEquals
  <2> QED BY <1>1, <1>5, <2>3, QuietLabels DEF BootInv
<1>11. TableInv'
  <2>1. \A k \in Layer : GoodTable(r, k, table[r][k])'
    BY <1>1, <1>3, <1>5 DEF TableAt, GoodTable, GoodEntry, Constant
  <2>3. \A k : Whole(r, k)' <=> Whole(r, k)
    BY <1>5 DEF Whole
  <2>2. TableAt(r)'
    BY <1>1, <1>3, <1>4, <1>5, <1>6, <2>1, <2>3 DEF TableAt
  <2> QED BY <1>5, <1>6, <2>2, OthersTables DEF BootInv
<1> QED BY <1>7, <1>8, <1>9, <1>10, <1>11 DEF BootInv

\* What is registered with the engine are experts of the table other ranks hold.
LEMMA AttachTables ==
  ASSUME CollInv, BootInv, NEW r \in Rank, Attach(r)
  PROVE  BootInv'
<1> DEFINE l == layer[r]
           S == Registered(r, l, Importable(r, l))
           next == IF l < Layers THEN l + 1 ELSE 1
           place == IF l < Layers THEN "boot" ELSE "idle"
<1>1. /\ pc[r] = "attach" /\ pc' = [pc EXCEPT ![r] = place]
      /\ imported' = [imported EXCEPT ![r][l] = S]
      /\ attached' = [attached EXCEPT ![r] = attached[r] \cup {l}]
      /\ layer' = [layer EXCEPT ![r] = next]
      /\ UNCHANGED <<config, pass, comm, calls, mail, native, table>>
  BY DEF Attach
<1>2. l \in Layer
  BY DEF BootInv, PlaceTypes
<1>3. TableAt(r) /\ CountedAt(r) /\ pc[r] \in Booting /\ ~Waiting(r)
  BY <1>1 DEF BootInv, TableInv, Counted, Booting, Waiting, Collective
<1>4. S \subseteq DOMAIN table[r][l] \ held[r]
  <2>1. GoodTable(r, l, table[r][l])
    BY <1>2, <1>3 DEF TableAt
  <2>2. \A e \in Importable(r, l) : e \in DOMAIN table[r][l] /\ e \notin held[r]
    BY <2>1 DEF Importable, GoodTable, GoodEntry
  <2> QED BY <2>2 DEF Registered
<1>5. DOMAIN table[r][l] \subseteq Expert
  <2>1. table[r][l] \in Tables
    BY <1>2 DEF BootInv, BootTypes
  <2> QED BY <2>1 DEF Tables
<1>6. next \in Layer
  BY <1>2, LayerIs, ParallelAssumption DEF Layer
<1> HIDE DEF S
<1>7. /\ imported' \in [Rank -> [Layer -> SUBSET Expert]] /\ imported'[r][l] = S
      /\ \A k \in Layer : k # l => imported'[r][k] = imported[r][k]
      /\ \A q \in Rank : q # r => imported'[q] = imported[q]
  <2> DEFINE row == [imported[r] EXCEPT ![l] = S]
  <2> HIDE DEF l
  <2>1. imported \in [Rank -> [Layer -> SUBSET Expert]] /\ S \subseteq Expert
    BY <1>4, <1>5 DEF BootInv, BootTypes
  <2>2. row \in [Layer -> SUBSET Expert] /\ row[l] = S /\ \A k \in Layer : k # l => row[k] = imported[r][k]
    BY <1>2, <2>1
  <2>3. imported' = [imported EXCEPT ![r] = row]
    BY <1>1, <2>1
  <2> HIDE DEF row
  <2> QED BY <2>1, <2>2, <2>3
<1>8. Constant /\ UNCHANGED fault /\ All' = All /\ held' = held
  BY <1>1, ConstantIs DEF config, Constant, All
<1>9. /\ pc'[r] = place /\ layer'[r] = next /\ attached'[r] = attached[r] \cup {l}
      /\ \A q \in Rank \ {r} : pc'[q] = pc[q] /\ comm'[q] = comm[q] /\ calls'[q] = calls[q]
                               /\ table'[q] = table[q] /\ attached'[q] = attached[q]
                               /\ imported'[q] = imported[q] /\ layer'[q] = layer[q]
  BY <1>1, <1>7 DEF CollInv, BootInv, BootTypes, PlaceTypes
<1>10. attached' \in [Rank -> SUBSET Layer]
  BY <1>1, <1>2 DEF BootInv, BootTypes
<1>11. PlaceTypes'
  <2>1. place \in Control \ Busy
    BY DEF Control, Collective, Busy, Exchanging
  <2> HIDE DEF place, next
  <2> QED BY <1>1, <1>6, <2>1, BootPlaces DEF BootInv
<1>12. BootTypes'
  BY <1>1, <1>7, <1>10 DEF BootInv, BootTypes
<1>13. Counted'
  <2>1. CountedAt(r)'
    <3>1. comm'[r] = "up" => calls'[r] = Nth'[r][l]
      BY <1>1, <1>3, <1>8 DEF CountedAt, Constant
    <3>2. l \in Nat /\ l <= Layers /\ Layers \in Nat
      BY <1>2, LayerIs, ParallelAssumption
    <3>3. CASE l < Layers
      <4>1. pc'[r] = "boot" /\ layer'[r] - 1 = l
        BY <1>9, <3>2, <3>3
      <4> HIDE DEF l
      <4> QED BY <3>1, <4>1 DEF CountedAt, Booting, Exchanging
    <3>4. CASE ~(l < Layers)
      <4>1. pc'[r] = "idle" /\ l = Layers
        BY <1>9, <3>2, <3>4
      <4>2. Nth[r][Layers] \in Nat /\ Nth' = Nth
        BY <1>8, <3>2, NthIs DEF Constant
      <4> HIDE DEF l
      <4> QED BY <3>1, <4>1, <4>2 DEF CountedAt, Booting, Exchanging
    <3> QED BY <3>3, <3>4
  <2> QED BY <1>8, <1>9, <2>1, OthersCounted DEF BootInv
<1>14. Labelled'
  <2>1. Finished' = Finished
    <3>1. ~Waiting(r)'
      BY <1>9 DEF Waiting, Collective
    <3>2. Finished'[r] = Finished[r]
      BY <1>1, <1>3, <3>1 DEF Finished
    <3>3. \A d \in Rank : Finished'[d] = Finished[d]
      BY <1>9, <3>2, SameFinished
    <3> QED BY <3>3, FinishedEquals
  <2> QED BY <1>1, <1>8, <2>1, QuietLabels DEF BootInv
<1>15. TableInv'
  <2>1. \A k \in Layer : GoodTable(r, k, table[r][k])'
    <3>1. table' = table /\ Nth' = Nth /\ held' = held /\ fault' = fault
      BY <1>1, <1>8 DEF Constant
    <3>2. \A k \in Layer : GoodTable(r, k, table[r][k])
      BY <1>3 DEF TableAt
    <3> QED BY ONLY <3>1, <3>2 DEF GoodTable, GoodEntry
  <2>2. /\ held[r] \subseteq DOMAIN table[r][l]
        /\ comm[r] = "up" /\ Whole(r, l) => DOMAIN table[r][l] = All
    BY <1>1, <1>3 DEF TableAt
  <2>8. \A k : Whole(r, k)' <=> Whole(r, k)
    BY <1>8 DEF Whole
  <2>3. \A k \in attached[r] : k \in Layer /\ k # l /\ k < l
    <3>1. attached[r] \subseteq Layer
      BY DEF BootInv, BootTypes
    <3>2. \A k \in attached[r] : k < l
      BY <1>3 DEF TableAt
    <3>3. l \in Nat /\ \A k \in Layer : k \in Nat
      BY <1>2, LayerIs
    <3>4. \A k \in attached[r] : k \in Nat /\ k < l
      BY <3>1, <3>2, <3>3
    <3> HIDE DEF l
    <3>5. \A k \in attached[r] : k # l
      BY <3>3, <3>4
    <3> QED BY <3>1, <3>4, <3>5
  <2>4. \A k \in attached'[r] : /\ held'[r] \subseteq DOMAIN table'[r][k]
                                /\ imported'[r][k] \subseteq DOMAIN table'[r][k] \ held'[r]
                                /\ comm'[r] = "up" /\ Whole(r, k)' => DOMAIN table'[r][k] = All'
    <3> SUFFICES ASSUME NEW k \in attached'[r]
                 PROVE  /\ held'[r] \subseteq DOMAIN table'[r][k]
                        /\ imported'[r][k] \subseteq DOMAIN table'[r][k] \ held'[r]
                        /\ comm'[r] = "up" /\ Whole(r, k)' => DOMAIN table'[r][k] = All'
      OBVIOUS
    <3>1. CASE k = l
      BY <1>1, <1>4, <1>7, <1>8, <2>2, <2>8, <3>1
    <3>2. CASE k # l
      <4>1. k \in attached[r] /\ k \in Layer
        BY <1>9, <2>3, <3>2
      <4> QED BY <1>1, <1>3, <1>7, <1>8, <2>8, <3>2, <4>1 DEF TableAt
    <3> QED BY <3>1, <3>2
  <2>5. pc'[r] \in Booting => \A k \in attached'[r] : k < layer'[r]
    <3> SUFFICES ASSUME pc'[r] \in Booting, NEW k \in attached'[r] PROVE k < layer'[r]
      OBVIOUS
    <3>1. l < Layers /\ layer'[r] = l + 1
      BY <1>9 DEF Booting
    <3>2. k = l \/ (k \in Layer /\ k < l)
      BY <1>9, <2>3
    <3>3. l \in Nat /\ (k \in Layer => k \in Nat)
      BY <1>2, LayerIs
    <3> HIDE DEF l
    <3>4. CASE k = l
      BY <3>1, <3>3, <3>4
    <3>5. CASE k \in Layer /\ k < l
      BY <3>1, <3>3, <3>5
    <3> QED BY <3>2, <3>4, <3>5
  <2>6. pc'[r] # "gather" /\ pc'[r] # "attach"
    BY <1>9
  <2>7. TableAt(r)'
    BY <2>1, <2>4, <2>5, <2>6 DEF TableAt
  <2> QED BY <1>8, <1>9, <2>7, OthersTables DEF BootInv
<1> QED BY <1>11, <1>12, <1>13, <1>14, <1>15 DEF BootInv

-----------------------------------------------------------------------------
(* Passes: they leave tables, registrations and process groups alone.      *)

\* A step of a pass of r.
PassStep(r) ==
  /\ UNCHANGED <<config, comm, bootVars>>
  /\ pc[r] \notin Booting /\ pc'[r] \notin Booting
  /\ \A q \in Rank \ {r} : /\ pc'[q] = pc[q] /\ layer'[q] = layer[q]
                           /\ calls'[q] = calls[q]
  /\ calls'[r] \in Nat /\ calls'[r] >= calls[r]
  /\ pc'[r] \in Exchanging => ~fault.group

LEMMA PassTables ==
  ASSUME CollInv, BootInv, NEW r \in Rank, PassStep(r)
  PROVE  BootTypes' /\ Counted' /\ TableInv'
<1>1. /\ Constant /\ UNCHANGED fault /\ All' = All /\ held' = held /\ comm' = comm
      /\ table' = table /\ attached' = attached /\ native' = native /\ imported' = imported
  BY ConstantIs DEF PassStep, config, bootVars, Constant, All
<1>2. BootTypes'
  BY <1>1 DEF BootInv, BootTypes
<1>3. Counted'
  <2>1. CountedAt(r) /\ calls[r] \in Nat /\ Nth[r][Layers] \in Nat /\ Nth' = Nth
    BY <1>1, NthIs, ParallelAssumption DEF BootInv, Counted, CollInv, Constant
  <2>2. pc'[r] \notin {"init", "boot", "gather", "attach"} /\ pc'[r] \notin Booting
    BY DEF PassStep, Booting
  <2>3. comm'[r] = "up" /\ ~fault'.group => calls'[r] >= Nth'[r][Layers]
    <3> SUFFICES ASSUME comm'[r] = "up", ~fault'.group PROVE calls'[r] >= Nth'[r][Layers]
      OBVIOUS
    <3>1. calls[r] >= Nth[r][Layers]
      BY <1>1, <2>1 DEF CountedAt, PassStep
    <3> QED BY <2>1, <3>1 DEF PassStep
  <2>4. pc'[r] \in Exchanging => ~fault'.group
    BY <1>1 DEF PassStep
  <2>5. CountedAt(r)'
    BY <2>2, <2>3, <2>4 DEF CountedAt
  <2> QED BY <1>1, <2>5, OthersCounted DEF BootInv, PassStep
<1>4. TableInv'
  <2>1. TableAt(r)
    BY DEF BootInv, TableInv
  <2>2. \A l \in Layer : GoodTable(r, l, table[r][l])'
    BY <1>1, <2>1 DEF TableAt, GoodTable, GoodEntry, Constant
  <2>3. pc'[r] # "gather" /\ pc'[r] # "attach" /\ pc'[r] \notin Booting
    BY DEF PassStep, Booting
  <2>5. \A l : Whole(r, l)' <=> Whole(r, l)
    BY <1>1 DEF Whole
  <2>4. TableAt(r)'
    BY <1>1, <2>1, <2>2, <2>3, <2>5 DEF TableAt
  <2> QED BY <1>1, <2>4, OthersTables DEF BootInv, PassStep
<1> QED BY <1>2, <1>3, <1>4

\* A rank between or in passes whose group is up has entered every gather.
LEMMA GathersEntered ==
  ASSUME BootInv, NEW r \in Rank, comm[r] = "up", ~fault.group, pc[r] \notin Booting
  PROVE  calls[r] >= Nth[r][Layers] /\ Nth[r][Layers] \in Nat
BY NthIs, ParallelAssumption DEF BootInv, Counted, CountedAt

\* Where a pass goes on: the next layer, or the next pass.
LEMMA NextPlaces ==
  ASSUME CollInv, PlaceTypes, UNCHANGED config, NEW r \in Rank, pc[r] \in Busy \cup {"idle"},
         Serving(r) \/ pc[r] \in Busy, NextLayer(r) \/ Abandon(r)
  PROVE  PlaceTypes'
<1>1. /\ layer[r] \in Layer /\ pass[r] \in Nat \ {0} /\ pass[r] <= Len(load[r])
      /\ Len(load[r]) \in Nat
  BY HeldTypes DEF PlaceTypes, Serving
<1>2. "idle" \in Control /\ "idle" \notin Busy
  BY DEF Control, Busy, Exchanging
<1>3. CASE NextLayer(r)
  <2> DEFINE l == IF layer[r] < Layers THEN layer[r] + 1 ELSE 1
             p == IF layer[r] < Layers THEN pass[r] ELSE pass[r] + 1
  <2>1. l \in Layer
    BY <1>1, LayerIs, ParallelAssumption DEF Layer
  <2>2. p \in Nat \ {0} /\ p <= Len(load[r]) + 1
    BY <1>1
  <2>3. /\ layer' = [layer EXCEPT ![r] = l] /\ pass' = [pass EXCEPT ![r] = p]
        /\ pc' = [pc EXCEPT ![r] = "idle"]
    BY <1>3 DEF NextLayer
  <2> HIDE DEF l, p
  <2> QED BY <1>2, <2>1, <2>2, <2>3, PlaceMoves
<1>4. CASE Abandon(r)
  <2>1. pass[r] + 1 \in Nat \ {0} /\ pass[r] + 1 <= Len(load[r]) + 1
    BY <1>1
  <2>2. /\ layer' = [layer EXCEPT ![r] = 1] /\ pass' = [pass EXCEPT ![r] = pass[r] + 1]
        /\ pc' = [pc EXCEPT ![r] = "idle"]
    BY <1>4 DEF Abandon
  <2> QED BY <1>2, <2>1, <2>2, LayerIs, PlaceMoves
<1> QED BY <1>3, <1>4

\* A step within a pass.
LEMMA BusyPlaces ==
  ASSUME CollInv, PlaceTypes, UNCHANGED <<config, layer, pass>>, NEW r \in Rank,
         Serving(r) \/ pc[r] \in Busy, NEW place \in Busy, pc' = [pc EXCEPT ![r] = place]
  PROVE  PlaceTypes'
<1>1. /\ layer[r] \in Layer /\ pass[r] \in Nat \ {0} /\ pass[r] <= Len(load[r])
      /\ pass[r] <= Len(load[r]) + 1
  BY DEF PlaceTypes, Serving
<1>2. layer' = [layer EXCEPT ![r] = layer[r]] /\ pass' = [pass EXCEPT ![r] = pass[r]]
  BY DEF PlaceTypes
<1>3. place \in Control
  BY DEF Control, Collective, Busy, Exchanging
<1>4. UNCHANGED config
  OBVIOUS
<1> DEFINE l == layer[r]
           p == pass[r]
<1>5. /\ l \in Layer /\ p \in Nat \ {0} /\ p <= Len(load[r]) /\ p <= Len(load[r]) + 1
      /\ layer' = [layer EXCEPT ![r] = l] /\ pass' = [pass EXCEPT ![r] = p]
  BY <1>1, <1>2
<1> HIDE DEF l, p
<1> QED BY <1>3, <1>4, <1>5, PlaceMoves

-----------------------------------------------------------------------------
(* Steps of a pass that leave the mail alone.                              *)

LEMMA QuietPass ==
  ASSUME CollInv, BootInv, NEW r \in Rank, UNCHANGED <<config, comm, calls, mail, bootVars>>,
         NEW place \in {"idle", "execute"}, pc[r] \in {"idle", "execute"},
         pc' = [pc EXCEPT ![r] = place],
         \A q \in Rank \ {r} : layer'[q] = layer[q],
         PlaceTypes'
  PROVE  BootInv'
<1>1. pc'[r] = place /\ \A q \in Rank \ {r} : pc'[q] = pc[q]
  BY DEF CollInv
<1>2. PassStep(r)
  BY <1>1 DEF PassStep, Booting, Exchanging, CollInv
<1>3. Constant
  BY ConstantIs DEF Constant, config
<1>4. Finished' = Finished
  <2>1. ~Waiting(r) /\ ~Waiting(r)'
    BY <1>1 DEF Waiting, Collective
  <2>2. Finished'[r] = Finished[r]
    BY <2>1 DEF Finished
  <2>3. \A d \in Rank : Finished'[d] = Finished[d]
    BY <1>1, <2>2, SameFinished
  <2> QED BY <2>3, FinishedEquals
<1>5. Labelled'
  BY <1>3, <1>4, QuietLabels DEF BootInv
<1> QED BY <1>2, <1>5, PassTables DEF BootInv

LEMMA RefuseTables ==
  ASSUME CollInv, BootInv, NEW r \in Rank, RefuseShape(r) \/ RefuseExchange(r)
  PROVE  BootInv'
<1>1. Serving(r) /\ Abandon(r) /\ UNCHANGED <<config, comm, calls, mail, bootVars>>
  BY DEF RefuseShape, RefuseExchange
<1>2. pc[r] = "idle" /\ pc' = [pc EXCEPT ![r] = "idle"] /\ \A q \in Rank \ {r} : layer'[q] = layer[q]
  BY <1>1 DEF Serving, Abandon, BootInv, PlaceTypes
<1>3. PlaceTypes'
  BY <1>1, <1>2, NextPlaces DEF BootInv
<1> QED BY <1>1, <1>2, <1>3, QuietPass

LEMMA PipelineTables ==
  ASSUME CollInv, BootInv, NEW r \in Rank, Pipeline(r)
  PROVE  BootInv'
<1>1. CASE BeginPipeline(r)
  <2>1. /\ Serving(r) /\ pc[r] = "idle" /\ pc' = [pc EXCEPT ![r] = "execute"]
        /\ UNCHANGED <<config, layer, pass, comm, calls, mail, bootVars>>
    BY <1>1 DEF BeginPipeline, Serving
  <2>2. PlaceTypes'
    <3>1. "execute" \in Busy
      BY DEF Busy
    <3> QED BY <2>1, <3>1, BusyPlaces DEF BootInv
  <2> QED BY <2>1, <2>2, QuietPass
<1>2. CASE RaiseInPipeline(r) \/ EndPipeline(r)
  <2>1. /\ pc[r] = "execute" /\ pc[r] \in Busy /\ (NextLayer(r) \/ Abandon(r))
        /\ UNCHANGED <<config, comm, calls, mail, bootVars>>
    BY <1>2 DEF RaiseInPipeline, EndPipeline, Busy
  <2>2. pc' = [pc EXCEPT ![r] = "idle"] /\ \A q \in Rank \ {r} : layer'[q] = layer[q]
    BY <2>1 DEF NextLayer, Abandon, BootInv, PlaceTypes
  <2>3. PlaceTypes'
    BY <2>1, NextPlaces DEF BootInv
  <2> QED BY <2>1, <2>2, <2>3, QuietPass
<1> QED BY <1>1, <1>2 DEF Pipeline

-----------------------------------------------------------------------------
(* Steps of the decode exchange.                                           *)

LEMMA EnterPass ==
  ASSUME CollInv, BootInv, NEW r \in Rank, Serving(r), ~fault.group, comm[r] = "up",
         NEW parts, Enter(r, "counts", parts), pc' = [pc EXCEPT ![r] = "counts"],
         UNCHANGED <<config, layer, pass, comm, bootVars>>
  PROVE  BootInv'
<1>1. /\ pc[r] = "idle" /\ pc'[r] = "counts" /\ \A q \in Rank \ {r} : pc'[q] = pc[q]
      /\ calls[r] \in Nat /\ calls'[r] = calls[r] + 1
      /\ \A q \in Rank \ {r} : calls'[q] = calls[q]
  BY DEF Serving, CollInv, Enter
<1>2. PassStep(r)
  <2>1. calls'[r] \in Nat /\ calls'[r] >= calls[r]
    BY <1>1
  <2> QED BY <1>1, <2>1 DEF PassStep, Booting
<1>3. Constant
  BY ConstantIs DEF Constant, config
<1>4. Finished' = Finished
  <2>1. Finished[r] = calls[r]
    BY <1>1, FinishedIs DEF Waiting, Collective
  <2>2. Finished'[r] = calls[r]
    BY <1>1 DEF Finished, Waiting, Collective
  <2>3. \A d \in Rank : Finished'[d] = Finished[d]
    BY <1>1, <2>1, <2>2, SameFinished
  <2> QED BY <2>3, FinishedEquals
<1>5. Labelled'
  <2>1. calls[r] >= Nth[r][Layers] /\ Nth[r][Layers] \in Nat
    BY <1>1, GathersEntered DEF Booting
  <2>2. calls[r] + 1 \in Nat /\ calls[r] + 1 > Nth[r][Layers]
    BY <1>1, <2>1
  <2>3. \A d \in Rank : Label(r, calls[r] + 1, <<"counts", parts[d]>>)
    BY <2>2, LaterLabel
  <2> QED BY <1>3, <1>4, <2>3, EnterLabels DEF BootInv
<1>6. PlaceTypes'
  <2>1. "counts" \in Busy
    BY DEF Busy, Exchanging
  <2> QED BY <2>1, BusyPlaces DEF BootInv
<1> QED BY <1>2, <1>5, <1>6, PassTables DEF BootInv

\* A rank in an exchange has left every gather behind.
LEMMA ExchangingIs ==
  ASSUME CollInv, BootInv, NEW r \in Rank, pc[r] \in Exchanging
  PROVE  /\ ~fault.group /\ comm[r] = "up" /\ Waiting(r) /\ pc[r] \notin Booting
         /\ calls[r] \in Nat /\ calls[r] >= Nth[r][Layers] /\ Nth[r][Layers] \in Nat
         /\ Finished[r] = calls[r] - 1 /\ pc[r] \in Busy
<1>1. ~fault.group
  BY DEF BootInv, Counted, CountedAt
<1>2. Waiting(r) /\ pc[r] \notin Booting /\ pc[r] \in Busy
  BY DEF Waiting, Collective, Exchanging, Booting, Busy
<1>3. comm[r] = "up" /\ calls[r] \in Nat
  BY <1>2 DEF CollInv
<1>4. calls[r] >= Nth[r][Layers] /\ Nth[r][Layers] \in Nat
  BY <1>1, <1>2, <1>3, GathersEntered
<1>5. Finished[r] = calls[r] - 1
  BY <1>2, FinishedIs
<1> QED BY <1>1, <1>2, <1>3, <1>4, <1>5

LEMMA LeaveAndEnterPass ==
  ASSUME CollInv, BootInv, NEW r \in Rank, pc[r] \in Exchanging, NEW kind \in Exchanging,
         NEW parts, LeaveAndEnter(r, kind, parts), pc' = [pc EXCEPT ![r] = kind],
         UNCHANGED <<config, layer, pass, comm, bootVars>>
  PROVE  BootInv'
<1>1. /\ pc'[r] = kind /\ \A q \in Rank \ {r} : pc'[q] = pc[q]
      /\ calls'[r] = calls[r] + 1 /\ \A q \in Rank \ {r} : calls'[q] = calls[q]
  BY DEF CollInv, LeaveAndEnter
<1>2. PassStep(r)
  <2>1. calls'[r] \in Nat /\ calls'[r] >= calls[r]
    BY <1>1, ExchangingIs
  <2> QED BY <1>1, <2>1, ExchangingIs DEF PassStep, Booting, Exchanging
<1>3. Constant
  BY ConstantIs DEF Constant, config
<1>4. Finished'[r] = Finished[r] + 1
  <2>1. Waiting(r)'
    BY <1>1 DEF Waiting, Collective, Exchanging
  <2>2. Finished'[r] = calls'[r] - 1
    BY <2>1 DEF Finished
  <2> QED BY <1>1, <2>2, ExchangingIs
<1>5. \A d \in Rank : Finished'[d] = IF d = r THEN Finished[d] + 1 ELSE Finished[d]
  BY <1>1, <1>4, SameFinished
<1>6. Labelled'
  <2>1. calls[r] >= Nth[r][Layers] /\ kind # "gather"
    BY ExchangingIs DEF Exchanging
  <2> QED BY <1>3, <1>5, <2>1, LeaveAndEnterLabels DEF BootInv
<1>7. PlaceTypes'
  <2>1. kind \in Busy
    BY DEF Busy
  <2> QED BY <2>1, ExchangingIs, BusyPlaces DEF BootInv
<1> QED BY <1>2, <1>6, <1>7, PassTables DEF BootInv

LEMMA LeavePass ==
  ASSUME CollInv, BootInv, NEW r \in Rank, pc[r] \in Exchanging, Leave(r),
         pc' = [pc EXCEPT ![r] = "idle"], UNCHANGED <<config, comm, bootVars>>,
         \A q \in Rank \ {r} : layer'[q] = layer[q], PlaceTypes'
  PROVE  BootInv'
<1>1. /\ pc'[r] = "idle" /\ \A q \in Rank \ {r} : pc'[q] = pc[q]
      /\ calls' = calls
  BY DEF CollInv, Leave
<1>2. PassStep(r)
  <2>1. calls'[r] \in Nat /\ calls'[r] >= calls[r]
    BY <1>1, ExchangingIs
  <2> QED BY <1>1, <2>1, ExchangingIs DEF PassStep, Booting, Exchanging
<1>3. Constant
  BY ConstantIs DEF Constant, config
<1>4. Finished'[r] = Finished[r] + 1
  <2>1. ~Waiting(r)'
    BY <1>1 DEF Waiting, Collective
  <2>2. Finished'[r] = calls[r]
    BY <1>1, <2>1, ExchangingIs DEF Finished
  <2> QED BY <2>2, ExchangingIs
<1>5. \A d \in Rank : Finished'[d] = IF d = r THEN Finished[r] + 1 ELSE Finished[d]
  BY <1>1, <1>4, SameFinished
<1>6. Labelled'
  BY <1>3, <1>5, LeaveLabels DEF BootInv
<1> QED BY <1>2, <1>6, PassTables DEF BootInv

LEMMA ExchangeTables ==
  ASSUME CollInv, BootInv, NEW r \in Rank, Exchange(r)
  PROVE  BootInv'
<1>1. CASE RefuseShape(r) \/ RefuseExchange(r)
  BY <1>1, RefuseTables
<1>2. CASE BeginExchange(r)
  <2>1. PICK flat \in Routing(Batch(r).tokens) : Enter(r, "counts", SendCounts(flat))
    BY <1>2 DEF BeginExchange
  <2>2. ~fault.group
    BY <1>2 DEF BeginExchange, TakesExchange
  <2> QED BY <1>2, <2>1, <2>2, EnterPass DEF BeginExchange
<1>3. CASE SendTokens(r)
  <2>1. pc[r] \in Exchanging /\ "tokens" \in Exchanging
    BY <1>3 DEF SendTokens, Exchanging
  <2> QED BY <1>3, <2>1, LeaveAndEnterPass DEF SendTokens
<1>4. CASE SendExperts(r)
  <2>1. pc[r] \in Exchanging /\ "experts" \in Exchanging
    BY <1>4 DEF SendExperts, Exchanging
  <2> QED BY <1>4, <2>1, LeaveAndEnterPass DEF SendExperts
<1>5. CASE SendBack(r)
  <2>1. pc[r] \in Exchanging /\ "combine" \in Exchanging
    BY <1>5 DEF SendBack, Exchanging
  <2> QED BY <1>5, <2>1, LeaveAndEnterPass DEF SendBack
<1>6. CASE MissExpert(r)
  <2>1. /\ pc[r] \in Exchanging /\ Leave(r) /\ pc' = [pc EXCEPT ![r] = "idle"]
        /\ layer' = [layer EXCEPT ![r] = 1] /\ pass' = [pass EXCEPT ![r] = Len(load[r]) + 1]
        /\ UNCHANGED <<config, comm, bootVars>>
    BY <1>6 DEF MissExpert, Exchanging
  <2>2. PlaceTypes'
    <3> DEFINE p == Len(load[r]) + 1
    <3>1. p \in Nat \ {0} /\ p <= Len(load[r]) + 1
      BY HeldTypes DEF BootInv
    <3>2. pass' = [pass EXCEPT ![r] = p]
      BY <2>1
    <3> HIDE DEF p
    <3>3. "idle" \in Control /\ "idle" \notin Busy
      BY DEF Control, Busy, Exchanging
    <3> QED BY <2>1, <3>1, <3>2, <3>3, LayerIs, PlaceMoves DEF BootInv
  <2>3. \A q \in Rank \ {r} : layer'[q] = layer[q]
    BY <2>1 DEF BootInv, PlaceTypes
  <2> QED BY <2>1, <2>2, <2>3, LeavePass
<1>7. CASE EndExchange(r)
  <2>1. /\ pc[r] \in Exchanging /\ pc[r] \in Busy /\ Leave(r) /\ NextLayer(r)
        /\ UNCHANGED <<config, comm, bootVars>>
    BY <1>7 DEF EndExchange, Exchanging, Busy
  <2>2. pc' = [pc EXCEPT ![r] = "idle"] /\ \A q \in Rank \ {r} : layer'[q] = layer[q]
    BY <2>1 DEF NextLayer, BootInv, PlaceTypes
  <2>3. PlaceTypes'
    BY <2>1, NextPlaces DEF BootInv
  <2> QED BY <2>1, <2>2, <2>3, LeavePass
<1> QED BY <1>1, <1>2, <1>3, <1>4, <1>5, <1>6, <1>7 DEF Exchange

-----------------------------------------------------------------------------
(* Plans.                                                                  *)

\* What a router returns for the batch of a pass are experts.
LEMMA RoutedExperts ==
  ASSUME PlaceTypes, NEW r \in Rank, pass[r] <= Len(load[r]),
         NEW flat \in Routing(Batch(r).tokens)
  PROVE  flat \in Seq(Expert)
<1>1. pass[r] \in DOMAIN load[r]
  BY HeldTypes DEF PlaceTypes
<1> QED BY <1>1, ParallelAssumption DEF PlaceTypes, Batch

\* A queue of experts is no longer than there are experts.
LEMMA QueueSize ==
  ASSUME NEW queue, queue \subseteq Expert
  PROVE  /\ IsFiniteSet(queue) /\ Cardinality(queue) \in Nat
         /\ Cardinality(queue) <= NumExperts
<1>1. NumExperts \in Nat \ {0}
  BY OwnershipAssumption
<1>2. IsFiniteSet(Expert) /\ Cardinality(Expert) = NumExperts
  BY <1>1, FS_Interval DEF Expert
<1> QED BY <1>2, FS_Subset, FS_CardinalityType

\* The ids a planner classifies are experts, however short the queue.
LEMMA PlannedExperts ==
  ASSUME NEW r, NEW l, NEW queue, queue \subseteq Expert
  PROVE  /\ ParallelPlan(r, l, queue).local \subseteq Expert
         /\ ParallelPlan(r, l, queue).remote \subseteq Expert
<1> DEFINE n == Cardinality(queue)
<1>1. n \in Nat /\ n <= NumExperts /\ NumExperts \in Nat
  BY QueueSize, OwnershipAssumption
<1>2. ParallelPlan(r, l, queue).local = LocalIds(r, l \in attached[r], table[r][l], n)
  BY DEF ParallelPlan
<1>3. ParallelPlan(r, l, queue).remote = RemoteIds(r, l \in attached[r], table[r][l], n)
  BY DEF ParallelPlan
<1> HIDE DEF n
<1>4. 0 .. n - 1 \subseteq Expert
  BY <1>1 DEF Expert
<1> QED BY <1>2, <1>3, <1>4 DEF LocalIds, RemoteIds

LEMMA BeginPipelineTypes ==
  ASSUME PlaceTypes, BootTypes, ForwardTypes, NEW r \in Rank, BeginPipeline(r)
  PROVE  ForwardTypes'
<1> DEFINE l == layer[r]
<1>1. pass[r] <= Len(load[r]) /\ l \in Layer
  BY DEF BeginPipeline, Serving, PlaceTypes
<1>2. PICK flat \in Routing(Batch(r).tokens) :
        LET queue == {flat[i] : i \in DOMAIN flat}
            p == IF policy = "static" THEN StaticPlan(queue) ELSE ParallelPlan(r, l, queue) IN
        /\ plan' = [plan EXCEPT ![r] = p]
        /\ tasks' = [tasks EXCEPT ![r][l] = Submit(tasks[r][l], p.remote, Cardinality(queue))]
        /\ requested' = [requested EXCEPT ![r][l] =
             IF l \in native[r] THEN requested[r][l] \cup p.remote ELSE requested[r][l]]
  BY DEF BeginPipeline
<1> DEFINE queue == {flat[i] : i \in DOMAIN flat}
           p == IF policy = "static" THEN StaticPlan(queue) ELSE ParallelPlan(r, l, queue)
           S == Submit(tasks[r][l], p.remote, Cardinality(queue))
           Q == IF l \in native[r] THEN requested[r][l] \cup p.remote ELSE requested[r][l]
<1>3. /\ plan' = [plan EXCEPT ![r] = p] /\ tasks' = [tasks EXCEPT ![r][l] = S]
      /\ requested' = [requested EXCEPT ![r][l] = Q]
  BY <1>2
<1>4. queue \subseteq Expert
  <2>1. flat \in Seq(Expert)
    BY <1>1, RoutedExperts
  <2> QED BY <2>1
<1> HIDE DEF queue, l
<1>5. p.local \subseteq Expert /\ p.remote \subseteq Expert
  <2>1. StaticPlan(queue).local = queue /\ StaticPlan(queue).remote = {}
    BY DEF StaticPlan
  <2>2. /\ ParallelPlan(r, l, queue).local \subseteq Expert
        /\ ParallelPlan(r, l, queue).remote \subseteq Expert
    BY <1>4, PlannedExperts
  <2> QED BY <1>4, <2>1, <2>2
<1> HIDE DEF p
<1>6. DOMAIN S \subseteq Expert
  <2>1. DOMAIN tasks[r][l] \subseteq Expert
    BY <1>1 DEF ForwardTypes
  <2> QED BY <1>5, <2>1 DEF Submit
<1>7. Q \subseteq Expert
  <2>1. requested[r][l] \subseteq Expert
    BY <1>1 DEF ForwardTypes
  <2> QED BY <1>5, <2>1
<1> HIDE DEF S, Q
<1>8. /\ plan' = [q \in Rank |-> plan'[q]]
      /\ \A q \in Rank : plan'[q].local \subseteq Expert /\ plan'[q].remote \subseteq Expert
  <2>1. plan = [q \in Rank |-> plan[q]]
    BY DEF ForwardTypes
  <2>2. plan' = [q \in Rank |-> plan'[q]] /\ plan'[r] = p
        /\ \A q \in Rank : q # r => plan'[q] = plan[q]
    BY <1>3, <2>1
  <2> QED BY <1>5, <2>2 DEF ForwardTypes
<1>9. requested' \in [Rank -> [Layer -> SUBSET Expert]]
  <2> DEFINE row == [requested[r] EXCEPT ![l] = Q]
  <2>1. requested \in [Rank -> [Layer -> SUBSET Expert]]
    BY DEF ForwardTypes
  <2>2. row \in [Layer -> SUBSET Expert]
    BY <1>1, <1>7, <2>1
  <2>3. requested' = [requested EXCEPT ![r] = row]
    BY <1>3, <2>1
  <2> HIDE DEF row
  <2> QED BY <2>1, <2>2, <2>3
<1>10. /\ tasks' = [q \in Rank |-> tasks'[q]]
       /\ \A q \in Rank : tasks'[q] = [k \in Layer |-> tasks'[q][k]]
       /\ \A q \in Rank, k \in Layer : DOMAIN tasks'[q][k] \subseteq Expert
  <2> DEFINE row == [tasks[r] EXCEPT ![l] = S]
  <2>1. tasks = [q \in Rank |-> tasks[q]] /\ tasks[r] = [k \in Layer |-> tasks[r][k]]
    BY DEF ForwardTypes
  <2>2. /\ row = [k \in Layer |-> row[k]] /\ row[l] = S
        /\ \A k \in Layer : k # l => row[k] = tasks[r][k]
    BY <1>1, <2>1
  <2>3. tasks' = [tasks EXCEPT ![r] = row]
    BY <1>3, <2>1
  <2> HIDE DEF row
  <2>4. /\ tasks' = [q \in Rank |-> tasks'[q]] /\ tasks'[r] = row
        /\ \A q \in Rank : q # r => tasks'[q] = tasks[q]
    BY <2>1, <2>3
  <2>5. \A q \in Rank : tasks'[q] = [k \in Layer |-> tasks'[q][k]]
    BY <2>2, <2>4 DEF ForwardTypes
  <2>6. ASSUME NEW q \in Rank, NEW k \in Layer PROVE DOMAIN tasks'[q][k] \subseteq Expert
    BY <1>6, <2>2, <2>4 DEF ForwardTypes
  <2> QED BY <2>4, <2>5, <2>6
<1> QED BY <1>8, <1>9, <1>10 DEF ForwardTypes

LEMMA StepForwards ==
  ASSUME PlaceTypes, BootTypes, ForwardTypes, NEW r \in Rank, RankStep(r)
  PROVE  ForwardTypes'
<1>1. CASE BeginPipeline(r)
  BY <1>1, BeginPipelineTypes
<1>2. CASE ~BeginPipeline(r)
  <2>1. UNCHANGED <<requested, tasks, plan>>
    <3>1. Boot(r) => UNCHANGED <<requested, tasks, plan>>
      BY DEF Boot, InitGroup, BeginGather, EndGather, LoseGather, CutGather, Attach, forwardVars
    <3>2. Exchange(r) => UNCHANGED <<requested, tasks, plan>>
      BY DEF Exchange, RefuseShape, RefuseExchange, BeginExchange, SendTokens, SendExperts,
             SendBack, MissExpert, EndExchange, forwardVars
    <3>3. RaiseInPipeline(r) \/ EndPipeline(r) => UNCHANGED <<requested, tasks, plan>>
      BY DEF RaiseInPipeline, EndPipeline
    <3> QED BY <1>2, <3>1, <3>2, <3>3 DEF RankStep, Pipeline
  <2> QED BY <2>1 DEF ForwardTypes
<1> QED BY <1>1, <1>2

-----------------------------------------------------------------------------
LEMMA TablesInvInit == Init => TablesInv
<1> SUFFICES ASSUME Init PROVE TablesInv
  OBVIOUS
<1>1. CollInv
  BY CollInvInit
<1>2. /\ policy \in Policies /\ held \in Registries /\ load \in Loads
      /\ pc = [r \in Rank |-> "init"] /\ layer = [r \in Rank |-> 1]
      /\ pass = [r \in Rank |-> 1] /\ calls = [r \in Rank |-> 0]
  BY DEF Init
<1>3. PlaceTypes
  <2>1. \A r \in Rank : Len(load[r]) \in Nat /\ pc[r] \notin Busy
    BY <1>2, ParallelAssumption DEF Busy, Exchanging
  <2> QED BY <1>2, <2>1, LayerIs DEF PlaceTypes
<1>4. EmptyMap \in Tables /\ DOMAIN EmptyMap = {}
  BY DEF EmptyMap, Tables
<1>5. table = [r \in Rank |-> [l \in Layer |-> EmptyMap]]
      /\ attached = [r \in Rank |-> {}] /\ native = [r \in Rank |-> {}]
      /\ imported = [r \in Rank |-> [l \in Layer |-> {}]]
  BY DEF Init
<1>6. BootTypes
  BY <1>4, <1>5 DEF BootTypes
<1>7. ForwardTypes
  <2>1. /\ requested = [r \in Rank |-> [l \in Layer |-> {}]]
        /\ tasks = [r \in Rank |-> [l \in Layer |-> EmptyMap]]
        /\ plan = [r \in Rank |-> NoPlan]
    BY DEF Init
  <2>2. NoPlan.local = {} /\ NoPlan.remote = {}
    BY DEF NoPlan
  <2>3. \A r \in Rank : tasks[r] = [l \in Layer |-> tasks[r][l]]
    BY <2>1
  <2>4. tasks = [r \in Rank |-> tasks[r]] /\ plan = [r \in Rank |-> plan[r]]
    BY <2>1
  <2>5. \A r \in Rank, l \in Layer : DOMAIN tasks[r][l] \subseteq Expert
    BY <1>4, <2>1
  <2> QED BY <2>1, <2>2, <2>3, <2>4, <2>5 DEF ForwardTypes
<1>8. Counted
  BY <1>2 DEF Counted, CountedAt, Booting, Exchanging
<1>9. Labelled
  <2>1. \A s, r \in Rank : Pending(s, r) = 0
    BY DEF Init, Pending
  <2> QED BY <2>1 DEF Labelled
<1>10. TableInv
  <2>1. \A r \in Rank, l \in Layer : GoodTable(r, l, table[r][l])
    BY <1>4, <1>5 DEF GoodTable
  <2> QED BY <1>2, <1>5, <2>1 DEF TableInv, TableAt
<1> QED BY <1>1, <1>3, <1>6, <1>7, <1>8, <1>9, <1>10 DEF TablesInv

LEMMA TablesInvNext == TablesInv /\ [Next]_vars => TablesInv'
<1> SUFFICES ASSUME TablesInv, [Next]_vars PROVE TablesInv'
  OBVIOUS
<1>1. CollInv' /\ CollInv
  BY CollInvNext DEF TablesInv
<1>2. BootInv /\ ForwardTypes /\ PlaceTypes /\ BootTypes
  BY DEF TablesInv, BootInv
<1>3. CASE UNCHANGED vars
  <2>1. UNCHANGED <<policy, held, load, fault, pc, layer, pass, comm, calls, mail,
                    table, attached, native, imported, requested, tasks, plan>>
    BY <1>3 DEF vars, config, bootVars, forwardVars
  <2>2. PlaceTypes' /\ BootTypes' /\ ForwardTypes'
    BY <1>2, <2>1 DEF PlaceTypes, BootTypes, ForwardTypes
  <2>4. Finished' = Finished /\ Constant
    BY <2>1, ConstantIs DEF Finished, Waiting
  <2>3. Counted'
    BY <1>2, <2>1, <2>4 DEF BootInv, Counted, CountedAt, Constant
  <2>5. Labelled'
    BY <1>1, <1>2, <2>1, <2>4, QuietLabels DEF BootInv
  <2>6. TableInv'
    <3> SUFFICES ASSUME NEW q \in Rank PROVE TableAt(q)'
      BY DEF TableInv
    <3>1. TableAt(q)
      BY <1>2 DEF BootInv, TableInv
    <3>2. \A l \in Layer : GoodTable(q, l, table[q][l])'
      BY <2>1, <2>4, <3>1 DEF TableAt, GoodTable, GoodEntry, Constant
    <3>4. \A l : Whole(q, l)' <=> Whole(q, l)
      BY <2>1 DEF Whole
    <3>3. All' = All /\ LocalMappings(q, layer[q])' = LocalMappings(q, layer[q])
      BY <2>1 DEF All, LocalMappings
    <3> QED BY <2>1, <3>1, <3>2, <3>3, <3>4 DEF TableAt
  <2> QED BY <1>1, <2>2, <2>3, <2>5, <2>6 DEF TablesInv
<1>4. CASE Next
  <2>1. PICK r \in Rank : RankStep(r)
    BY <1>4 DEF Next
  <2>2. ForwardTypes'
    BY <1>2, <2>1, StepForwards
  <2>3. BootInv'
    <3>1. CASE Boot(r)
      BY <1>1, <1>2, <3>1, InitGroupTables, BeginGatherTables, EndGatherTables,
         LoseGatherTables, CutGatherTables, AttachTables DEF Boot
    <3> QED BY <1>1, <1>2, <2>1, <3>1, ExchangeTables, PipelineTables DEF RankStep
  <2> QED BY <1>1, <2>2, <2>3 DEF TablesInv, BootInv
<1> QED BY <1>3, <1>4

LEMMA NothingSkipped ==
  ASSUME fault.refused = {}, NEW r, NEW l \in 0 .. Layers
  PROVE  Gathered(r, l) = l
<1>1. {x \in 1 .. l : <<r, x>> \notin fault.refused} = 1 .. l /\ l \in Nat
  OBVIOUS
<1>2. Cardinality(1 .. l) = l
  BY <1>1, FS_Interval
<1> QED BY <1>1, <1>2 DEF Gathered

LEMMA TablesInvSound == TablesInv => RanksConsistent
<1> SUFFICES ASSUME TablesInv PROVE RanksConsistent
  OBVIOUS
<1> USE DEF TablesInv
<1>1. TypeOK
  <2>1. policy \in Policies /\ held \in Registries /\ load \in Loads
    BY DEF PlaceTypes
  <2> SUFFICES ASSUME NEW r \in Rank
               PROVE  /\ pc[r] \in Collective \cup {"init", "boot", "attach", "idle", "execute"}
                      /\ layer[r] \in Layer /\ pass[r] \in 1 .. Len(load[r]) + 1
                      /\ comm[r] \in {"up", "broken"} /\ calls[r] \in Nat
                      /\ attached[r] \subseteq Layer /\ native[r] \subseteq Layer
                      /\ \A l \in Layer :
                         /\ DOMAIN table[r][l] \subseteq Expert
                         /\ \A e \in DOMAIN table[r][l] : IsMapping(table[r][l][e])
                         /\ imported[r][l] \subseteq Expert /\ requested[r][l] \subseteq Expert
                         /\ DOMAIN tasks[r][l] \subseteq Expert
                      /\ plan[r].local \subseteq Expert /\ plan[r].remote \subseteq Expert
    BY <2>1 DEF TypeOK
  <2>2. /\ pc[r] \in Collective \cup {"init", "boot", "attach", "idle", "execute"}
        /\ comm[r] \in {"up", "broken"} /\ calls[r] \in Nat
    BY DEF CollInv, Control
  <2>3. layer[r] \in Layer /\ pass[r] \in 1 .. Len(load[r]) + 1
    <3>1. /\ layer[r] \in Layer /\ pass[r] \in Nat \ {0} /\ pass[r] <= Len(load[r]) + 1
          /\ Len(load[r]) \in Nat
      BY HeldTypes DEF PlaceTypes
    <3> QED BY <3>1
  <2>4. attached[r] \subseteq Layer /\ native[r] \subseteq Layer
    BY DEF BootTypes
  <2>5. ASSUME NEW l \in Layer
        PROVE  /\ DOMAIN table[r][l] \subseteq Expert
               /\ \A e \in DOMAIN table[r][l] : IsMapping(table[r][l][e])
               /\ imported[r][l] \subseteq Expert /\ requested[r][l] \subseteq Expert
               /\ DOMAIN tasks[r][l] \subseteq Expert
    <3>1. table[r][l] \in Tables
      BY DEF BootTypes
    <3>2. PICK D \in SUBSET Expert : table[r][l] \in [D -> Mapping]
      BY <3>1 DEF Tables
    <3>3. \A m \in Mapping : IsMapping(m)
      BY DEF Mapping, IsMapping
    <3>4. DOMAIN table[r][l] \subseteq Expert /\ \A e \in DOMAIN table[r][l] : IsMapping(table[r][l][e])
      BY <3>2, <3>3
    <3>5. imported[r][l] \subseteq Expert /\ requested[r][l] \subseteq Expert
          /\ DOMAIN tasks[r][l] \subseteq Expert
      BY DEF BootTypes, ForwardTypes
    <3> QED BY <3>4, <3>5
  <2>6. plan[r].local \subseteq Expert /\ plan[r].remote \subseteq Expert
    BY DEF ForwardTypes
  <2> QED BY <2>2, <2>3, <2>4, <2>5, <2>6
<1>2. TableSound
  <2> SUFFICES ASSUME NEW r \in Rank, NEW l \in Layer, NEW e \in DOMAIN table[r][l],
                      NEW m, m = table[r][l][e]
               PROVE  /\ e \in held[m.owner]
                      /\ (m.owner = r) <=> (e \in held[r])
                      /\ m.handle => <<m.owner, m.layer>> \notin fault.export
                      /\ Gathered(m.owner, m.layer) = Gathered(r, l)
                      /\ fault.refused = {} => m.layer = l
    BY DEF TableSound
  <2>1. GoodEntry(r, l, e, m)
    BY DEF TableInv, TableAt, GoodTable
  <2>2. IsMapping(m)
    BY <1>1 DEF TypeOK
  <2>3. m.owner \in Rank /\ m.layer \in 0 .. Layers /\ l \in 0 .. Layers
    <3>1. m.owner \in Rank /\ m.layer \in Layer
      BY <2>2 DEF IsMapping
    <3>2. Layer \subseteq 0 .. Layers
      BY ParallelAssumption DEF Layer
    <3> QED BY <3>1, <3>2
  <2>4. Nth[m.owner][m.layer] = Gathered(m.owner, m.layer) /\ Nth[r][l] = Gathered(r, l)
    BY <2>3 DEF Nth
  <2>5. Gathered(m.owner, m.layer) = Gathered(r, l)
    BY <2>1, <2>4 DEF GoodEntry
  <2>6. ASSUME fault.refused = {} PROVE m.layer = l
    BY <2>3, <2>5, <2>6, NothingSkipped
  <2> QED BY <2>1, <2>5, <2>6 DEF GoodEntry
<1>3. TablesComplete
  <2> SUFFICES ASSUME NEW r \in Rank, NEW l \in attached[r]
               PROVE  /\ comm[r] = "up" /\ <<r, l>> \notin fault.refused \cup fault.cut =>
                           DOMAIN table[r][l] = UNION {held[s] : s \in Rank}
                      /\ imported[r][l] \subseteq DOMAIN table[r][l] \ held[r]
    BY DEF TablesComplete
  <2>1. TableAt(r)
    BY DEF TableInv
  <2>2. imported[r][l] \subseteq DOMAIN table[r][l] \ held[r]
    BY <2>1 DEF TableAt
  <2>3. comm[r] = "up" /\ Whole(r, l) => DOMAIN table[r][l] = All
    BY <2>1 DEF TableAt
  <2> QED BY <2>2, <2>3 DEF Whole, All
<1> QED BY <1>1, <1>2, <1>3 DEF RanksConsistent

\* For any registries, any number of ranks and layers, and whichever ranks skip,
\* lose or break whichever gathers: each rank's table of a layer places an expert
\* only on a rank that holds it, with a handle that rank exported for the layer
\* whose gather is its n-th, where the table's own is the n-th (so of the same
\* layer unless the two skipped differently); it knows every expert any rank holds
\* if the exchange of that layer raised nothing on a rank whose group is up; and
\* only other ranks' experts of the table are registered for streaming
\* (GlobalExpertTable.exchange_handles, bootstrap_dwdp_distributed).
THEOREM TablesAreSound == Spec => []RanksConsistent
<1>1. Init => TablesInv
  BY TablesInvInit
<1>2. TablesInv /\ [Next]_vars => TablesInv'
  BY TablesInvNext
<1>3. TablesInv => RanksConsistent
  BY TablesInvSound
<1> QED BY <1>1, <1>2, <1>3, PTL DEF Spec

-----------------------------------------------------------------------------
(* Slices.                                                                 *)

LEMMA Divides ==
  ASSUME NEW a \in Nat, NEW N \in Nat \ {0}
  PROVE  /\ a \div N \in Nat /\ a % N \in Nat /\ a % N < N
         /\ a = (a \div N) * N + (a % N)
<1> DEFINE q == a \div N
           x == a % N
<1>1. q \in Int
  OBVIOUS
<1>2. x \in 0 .. N - 1
  OBVIOUS
<1>3. a = N * q + x
  OBVIOUS
<1>4. q >= 0
  OBVIOUS
<1> HIDE DEF q, x
<1>5. q \in Nat /\ x \in Nat /\ x < N /\ N * q = q * N
  BY <1>1, <1>2, <1>4
<1>6. a = q * N + x
  BY <1>3, <1>5
<1> QED BY <1>5, <1>6 DEF q, x

LEMMA MultMonotone ==
  ASSUME NEW a \in Nat, NEW b \in Nat, NEW N \in Nat, a < b
  PROVE  a * N + N <= b * N
<1>1. PICK d \in Nat : b = (a + 1) + d
  <2>1. b - (a + 1) \in Nat /\ b = (a + 1) + (b - (a + 1))
    OBVIOUS
  <2> QED BY <2>1
<1>2. d * N \in Nat /\ a * N \in Nat /\ b * N = a * N + N + d * N
  BY <1>1
<1> QED BY <1>2

LEMMA ModUnique ==
  ASSUME NEW q \in Nat, NEW x \in Nat, NEW N \in Nat \ {0}, x < N
  PROVE  (q * N + x) % N = x
<1> DEFINE a == q * N + x
           p == a \div N
           y == a % N
<1>1. a \in Nat /\ q * N \in Nat
  OBVIOUS
<1>2. p \in Nat /\ y \in Nat /\ y < N /\ a = p * N + y
  BY <1>1, Divides
<1> HIDE DEF p, y
<1>3. p * N \in Nat
  BY <1>2
<1>4. ~(p < q)
  <2>1. p < q => p * N + N <= q * N
    BY <1>2, MultMonotone
  <2> QED BY <1>1, <1>2, <1>3, <2>1
<1>5. ~(q < p)
  <2>1. q < p => q * N + N <= p * N
    BY <1>2, MultMonotone
  <2> QED BY <1>1, <1>2, <1>3, <2>1
<1>6. p = q
  BY <1>2, <1>4, <1>5
<1> QED BY <1>1, <1>2, <1>3, <1>6 DEF y

\* The round robin: rank r's i-th slice.
LEMMA ModWraps ==
  ASSUME NEW r \in Nat, NEW N \in Nat \ {0}, NEW i \in 0 .. N - 1
  PROVE  (r + i) % N = IF (r % N) + i < N THEN (r % N) + i ELSE ((r % N) + i) - N
<1> DEFINE q == r \div N
           m == r % N
<1>1. q \in Nat /\ m \in Nat /\ m < N /\ r = q * N + m
  BY Divides
<1> HIDE DEF q, m
<1>2. q * N \in Nat /\ (q + 1) * N = q * N + N
  BY <1>1
<1>3. CASE m + i < N
  <2>1. r + i = q * N + (m + i) /\ m + i \in Nat
    BY <1>1, <1>2
  <2>2. (q * N + (m + i)) % N = m + i
    BY <1>1, <1>3, <2>1, ModUnique
  <2> QED BY <1>3, <2>1, <2>2 DEF m
<1>4. CASE ~(m + i < N)
  <2>1. r + i = (q + 1) * N + ((m + i) - N) /\ (m + i) - N \in Nat /\ (m + i) - N < N
    BY <1>1, <1>2, <1>4
  <2>2. ((q + 1) * N + ((m + i) - N)) % N = (m + i) - N
    <3>1. q + 1 \in Nat
      BY <1>1
    <3> QED BY <2>1, <3>1, ModUnique
  <2> QED BY <1>4, <2>1, <2>2 DEF m
<1> QED BY <1>3, <1>4 DEF m

\* The round robin visits every index once.
LEMMA RoundRobin ==
  ASSUME NEW r \in Nat, NEW N \in Nat \ {0}
  PROVE  /\ \A i \in 0 .. N - 1 : (r + i) % N \in 0 .. N - 1
         /\ \A i, j \in 0 .. N - 1 : i # j => (r + i) % N # (r + j) % N
         /\ \A k \in 0 .. N - 1 : \E i \in 0 .. N - 1 : (r + i) % N = k
<1> DEFINE m == r % N
           f(i) == (r + i) % N
<1>1. m \in Nat /\ m < N
  BY Divides
<1>2. \A i \in 0 .. N - 1 : f(i) = IF m + i < N THEN m + i ELSE (m + i) - N
  BY ModWraps
<1> HIDE DEF m, f
<1>3. \A i \in 0 .. N - 1 : f(i) \in 0 .. N - 1
  BY <1>1, <1>2
<1>4. \A i, j \in 0 .. N - 1 : i # j => f(i) # f(j)
  BY <1>1, <1>2
<1>5. ASSUME NEW k \in 0 .. N - 1 PROVE \E i \in 0 .. N - 1 : f(i) = k
  <2>1. CASE m <= k
    <3>1. k - m \in 0 .. N - 1 /\ m + (k - m) = k
      BY <1>1, <2>1
    <3> QED BY <1>2, <3>1
  <2>2. CASE ~(m <= k)
    <3>1. (k + N) - m \in 0 .. N - 1 /\ m + ((k + N) - m) = k + N
      BY <1>1, <2>2
    <3> QED BY <1>2, <3>1
  <2> QED BY <2>1, <2>2
<1> QED BY <1>3, <1>4, <1>5 DEF f

LEMMA SliceNumber ==
  ASSUME NEW size \in Nat
  PROVE  /\ NumSlices(size) \in Nat \ {0}
         /\ size # 0 => /\ (NumSlices(size) - 1) * SliceBytes < size
                        /\ size <= NumSlices(size) * SliceBytes
         /\ size = 0 => NumSlices(size) = 1
<1> DEFINE S == SliceBytes
           a == size + S - 1
           c == a \div S
           x == a % S
<1>1. S \in Nat \ {0} /\ a \in Nat /\ NumSlices(size) = IF c < 1 THEN 1 ELSE c
  BY OwnershipAssumption DEF NumSlices, AtLeastOne, CeilDiv
<1>2. c \in Nat /\ x \in Nat /\ x < S /\ a = c * S + x
  BY <1>1, Divides
<1> HIDE DEF c, x
<1>3. c * S \in Nat
  BY <1>1, <1>2
<1>4. size = 0 => c = 0
  <2>1. c # 0 => 0 * S + S <= c * S
    <3> SUFFICES ASSUME c # 0 PROVE 0 * S + S <= c * S
      OBVIOUS
    <3>1. 0 < c
      BY <1>2
    <3> QED BY <1>1, <1>2, <3>1, MultMonotone
  <2>2. 0 * S = 0
    BY <1>1
  <2> HIDE DEF S
  <2> QED BY <1>1, <1>2, <1>3, <2>1, <2>2 DEF a
<1>5. size # 0 => c # 0
  <2>1. c = 0 => c * S = 0
    BY <1>1
  <2> HIDE DEF S
  <2> QED BY <1>1, <1>2, <1>3, <2>1 DEF a
<1>6. size # 0 => (c - 1) * S < size /\ size <= c * S
  <2>1. (c - 1) * S = c * S - S
    BY <1>1, <1>2
  <2> HIDE DEF S
  <2> QED BY <1>1, <1>2, <1>3, <2>1 DEF a
<1>7. NumSlices(size) = IF size = 0 THEN 1 ELSE c
  BY <1>1, <1>2, <1>4, <1>5
<1> QED BY <1>2, <1>5, <1>6, <1>7

\* The bytes of the slice with index k.
Covered(k, size) ==
  LET count == IF size = 0 THEN 0 ELSE Lesser(SliceBytes, size - k * SliceBytes) IN
  k * SliceBytes .. k * SliceBytes + count - 1

LEMMA CoveredOnce ==
  ASSUME NEW size \in Nat
  PROVE  /\ \A k, j \in 0 .. NumSlices(size) - 1 : k # j => Covered(k, size) \cap Covered(j, size) = {}
         /\ UNION {Covered(k, size) : k \in 0 .. NumSlices(size) - 1} = 0 .. size - 1
<1> DEFINE S == SliceBytes
           N == NumSlices(size)
<1>1. S \in Nat \ {0}
  BY OwnershipAssumption
<1>2. N \in Nat \ {0}
  BY SliceNumber
<1>3. CASE size = 0
  <2>1. N = 1
    BY <1>3, SliceNumber
  <2>2. 0 .. N - 1 = {0}
    BY <2>1
  <2>3. Covered(0, size) = {} /\ 0 .. size - 1 = {}
    BY <1>1, <1>3 DEF Covered
  <2> QED BY <2>2, <2>3
<1>4. CASE size # 0
  <2>1. (N - 1) * S < size /\ size <= N * S
    BY <1>4, SliceNumber
  <2> HIDE DEF N, S
  <2>2. ASSUME NEW k \in 0 .. N - 1
        PROVE  /\ k * S \in Nat /\ k * S < size
               /\ \A b \in Int : b \in Covered(k, size) <=> k * S <= b /\ b < k * S + S /\ b < size
               /\ Covered(k, size) \subseteq Int
    <3>1. k * S \in Nat /\ (N - 1) * S \in Nat
      BY <1>1, <1>2
    <3>2. k * S <= (N - 1) * S
      <4>1. CASE k < N - 1
        <5>1. k * S + S <= (N - 1) * S
          BY <1>1, <1>2, <4>1, MultMonotone
        <5> QED BY <1>1, <3>1, <5>1
      <4>2. CASE k = N - 1
        BY <3>1, <4>2
      <4> QED BY <1>2, <4>1, <4>2
    <3>3. k * S < size
      BY <2>1, <3>1, <3>2
    <3> DEFINE start == k * S
    <3>4. Covered(k, size) = start .. start + (IF S <= size - start THEN S ELSE size - start) - 1
      BY <1>4 DEF Covered, S, Lesser
    <3>5. start \in Nat /\ start < size
      BY <3>1, <3>3
    <3> HIDE DEF start
    <3>6. \A b \in Int : b \in Covered(k, size) <=> start <= b /\ b < start + S /\ b < size
      BY <1>1, <3>4, <3>5
    <3>7. Covered(k, size) \subseteq Int
      BY <1>1, <3>4, <3>5
    <3> QED BY <3>5, <3>6, <3>7 DEF start
  <2>3. ASSUME NEW k \in 0 .. N - 1, NEW j \in 0 .. N - 1, k < j
        PROVE  Covered(k, size) \cap Covered(j, size) = {}
    <3>1. k * S + S <= j * S
      BY <1>1, <1>2, <2>3, MultMonotone
    <3>2. k * S \in Nat /\ j * S \in Nat
      BY <2>2
    <3> SUFFICES ASSUME NEW b \in Covered(k, size), b \in Covered(j, size) PROVE FALSE
      OBVIOUS
    <3>3. b \in Int /\ b < k * S + S /\ j * S <= b
      BY <2>2
    <3> DEFINE u == k * S
               v == j * S
    <3>4. u \in Nat /\ v \in Nat /\ u + S <= v /\ b < u + S /\ v <= b
      BY <3>1, <3>2, <3>3
    <3> HIDE DEF u, v
    <3> QED BY <1>1, <3>3, <3>4
  <2>4. \A k, j \in 0 .. N - 1 : k # j => Covered(k, size) \cap Covered(j, size) = {}
    <3> SUFFICES ASSUME NEW k \in 0 .. N - 1, NEW j \in 0 .. N - 1, k # j
                 PROVE  Covered(k, size) \cap Covered(j, size) = {}
      OBVIOUS
    <3>1. k < j \/ j < k
      BY <1>2
    <3> QED BY <2>3, <3>1
  <2>5. ASSUME NEW b \in 0 .. size - 1 PROVE \E k \in 0 .. N - 1 : b \in Covered(k, size)
    <3> DEFINE k == b \div S
               x == b % S
    <3>1. k \in Nat /\ x \in Nat /\ x < S /\ b = k * S + x
      BY <1>1, Divides
    <3> HIDE DEF k, x
    <3>2. k * S \in Nat /\ N * S \in Nat
      BY <1>1, <1>2, <3>1
    <3>3. k < N
      <4>1. N < k => N * S + S <= k * S
        BY <1>1, <1>2, <3>1, MultMonotone
      <4>2. N = k => N * S = k * S
        OBVIOUS
      <4> DEFINE u == N * S
                 v == k * S
      <4>3. u \in Nat /\ v \in Nat /\ (N < k => u + S <= v) /\ (N = k => u = v)
            /\ size <= u /\ b = v + x
        BY <2>1, <3>1, <3>2, <4>1, <4>2
      <4> HIDE DEF u, v
      <4> QED BY <1>1, <1>2, <3>1, <4>3
    <3>4. k \in 0 .. N - 1
      BY <1>2, <3>1, <3>3
    <3> DEFINE v == k * S
    <3>5. b = v + x /\ v \in Nat
      BY <3>1, <3>2
    <3>6. \A d \in Int : d \in Covered(k, size) <=> v <= d /\ d < v + S /\ d < size
      BY <2>2, <3>4
    <3> HIDE DEF v
    <3>7. v <= b /\ b < v + S /\ b < size /\ b \in Int
      BY <1>1, <3>1, <3>5
    <3> QED BY <3>4, <3>6, <3>7
  <2>6. \A k \in 0 .. N - 1 : Covered(k, size) \subseteq 0 .. size - 1
    <3> SUFFICES ASSUME NEW k \in 0 .. N - 1, NEW b \in Covered(k, size) PROVE b \in 0 .. size - 1
      OBVIOUS
    <3> DEFINE v == k * S
    <3>1. v \in Nat /\ b \in Int /\ v <= b /\ b < size
      BY <2>2
    <3> HIDE DEF v
    <3> QED BY <3>1
  <2>7. UNION {Covered(k, size) : k \in 0 .. N - 1} = 0 .. size - 1
    BY <2>5, <2>6
  <2> QED BY <2>4, <2>7 DEF N
<1> QED BY <1>3, <1>4

\* Slices that cover the bytes below size once each.
Bytes(t) == t.start .. t.start + t.count - 1
Tiling(slices, size) ==
  /\ \A t, u \in slices : t # u => Bytes(t) \cap Bytes(u) = {}
  /\ UNION {Bytes(t) : t \in slices} = 0 .. size - 1

\* The descriptors of one transfer cover its bytes once each, in whatever order
\* the rank starts them.
LEMMA TransfersTile ==
  ASSUME NEW r \in Rank, NEW source, NEW e, NEW size \in Nat, NEW priority
  PROVE  /\ Tiling(Transfers(r, source, e, size, priority), size)
         /\ \A t \in Transfers(r, source, e, size, priority) : t.expert = e
<1> DEFINE slices == Transfers(r, source, e, size, priority)
           bytes(t) == Bytes(t)
           N == NumSlices(size)
           op == IF CanAccess(source, LocalGpu) THEN "p2p" ELSE "staged"
           t(i) == [op |-> op, expert |-> e, source |-> source, index |-> i, priority |-> priority,
                    start |-> SliceStart(r, i, size), count |-> SliceCount(r, i, size)]
           f(i) == (r + i) % N
<1>1. r \in Nat /\ N \in Nat \ {0}
  BY SliceNumber DEF Rank
<1>2. slices = {t(i) : i \in 0 .. N - 1}
  BY DEF Transfers
<1>3. \A i \in 0 .. N - 1 : bytes(t(i)) = Covered(f(i), size) /\ t(i).expert = e
  BY DEF SliceStart, SliceCount, SliceIndex, Covered, Bytes
<1>4. /\ \A i \in 0 .. N - 1 : f(i) \in 0 .. N - 1
      /\ \A i, j \in 0 .. N - 1 : i # j => f(i) # f(j)
      /\ \A k \in 0 .. N - 1 : \E i \in 0 .. N - 1 : f(i) = k
  BY <1>1, RoundRobin
<1>5. /\ \A k, j \in 0 .. N - 1 : k # j => Covered(k, size) \cap Covered(j, size) = {}
      /\ UNION {Covered(k, size) : k \in 0 .. N - 1} = 0 .. size - 1
  BY CoveredOnce
<1> HIDE DEF slices, bytes, N, t, f
<1>6. ASSUME NEW u \in slices, NEW v \in slices, u # v PROVE bytes(u) \cap bytes(v) = {}
  <2>1. PICK i \in 0 .. N - 1 : u = t(i)
    BY <1>2
  <2>2. PICK j \in 0 .. N - 1 : v = t(j)
    BY <1>2
  <2>3. i # j
    BY <1>6, <2>1, <2>2
  <2> QED BY <1>3, <1>4, <1>5, <2>1, <2>2, <2>3
<1>7. UNION {bytes(u) : u \in slices} = 0 .. size - 1
  <2>1. {bytes(u) : u \in slices} = {Covered(k, size) : k \in 0 .. N - 1}
    <3>1. ASSUME NEW u \in slices PROVE \E k \in 0 .. N - 1 : bytes(u) = Covered(k, size)
      BY <1>2, <1>3, <1>4
    <3>2. ASSUME NEW k \in 0 .. N - 1 PROVE \E u \in slices : bytes(u) = Covered(k, size)
      BY <1>2, <1>3, <1>4
    <3> QED BY <3>1, <3>2
  <2> QED BY <1>5, <2>1
<1>8. \A u \in slices : u.expert = e
  BY <1>2, <1>3
<1> QED BY <1>6, <1>7, <1>8 DEF slices, bytes, Tiling

\* The plan under execution is the one its layer's table gives.
PlanOf(r, queue) ==
  IF policy = "static" THEN StaticPlan(queue) ELSE ParallelPlan(r, layer[r], queue)
PlanAt(r) ==
  pc[r] = "execute" => \E queue \in SUBSET Expert : plan[r] = PlanOf(r, queue)
PlansInv == TablesInv /\ \A r \in Rank : PlanAt(r)

\* Only the rank that moves changes what its plans are made from.
LEMMA OthersStay ==
  ASSUME TablesInv, NEW r \in Rank, RankStep(r), NEW q \in Rank, q # r
  PROVE  /\ pc'[q] = pc[q] /\ layer'[q] = layer[q] /\ plan'[q] = plan[q]
         /\ attached'[q] = attached[q] /\ table'[q] = table[q] /\ policy' = policy
<1> USE DEF config, bootVars, forwardVars
<1>1. /\ pc = [s \in Rank |-> pc[s]] /\ layer = [s \in Rank |-> layer[s]]
      /\ plan = [s \in Rank |-> plan[s]] /\ attached = [s \in Rank |-> attached[s]]
      /\ table = [s \in Rank |-> table[s]]
  <2>1. pc = [s \in Rank |-> pc[s]]
    BY DEF TablesInv, CollInv
  <2>2. layer = [s \in Rank |-> layer[s]]
    BY DEF TablesInv, PlaceTypes
  <2>3. plan = [s \in Rank |-> plan[s]]
    BY DEF TablesInv, ForwardTypes
  <2>4. attached = [s \in Rank |-> attached[s]] /\ table = [s \in Rank |-> table[s]]
    BY DEF TablesInv, BootTypes
  <2> QED BY <2>1, <2>2, <2>3, <2>4
<1>2. CASE Boot(r)
  BY <1>1, <1>2 DEF Boot, InitGroup, BeginGather, EndGather, LoseGather, CutGather, Attach
<1>3. CASE Exchange(r)
  BY <1>1, <1>3 DEF Exchange, RefuseShape, RefuseExchange, BeginExchange, SendTokens, SendExperts,
             SendBack, MissExpert, EndExchange, Abandon, NextLayer
<1>4. CASE RaiseInPipeline(r) \/ EndPipeline(r)
  BY <1>1, <1>4 DEF RaiseInPipeline, EndPipeline, Abandon, NextLayer
<1>5. CASE BeginPipeline(r)
  <2>1. /\ pc' = [pc EXCEPT ![r] = "execute"] /\ UNCHANGED <<config, layer, bootVars>>
        /\ \E p : plan' = [plan EXCEPT ![r] = p]
    BY <1>5 DEF BeginPipeline
  <2> QED BY <1>1, <2>1
<1> QED BY <1>2, <1>3, <1>4, <1>5 DEF RankStep, Pipeline

LEMMA SamePlan ==
  ASSUME NEW q \in Rank, PlanAt(q), pc'[q] = pc[q], layer'[q] = layer[q], plan'[q] = plan[q],
         attached'[q] = attached[q], table'[q] = table[q], policy' = policy
  PROVE  PlanAt(q)'
<1>1. \A queue : PlanOf(q, queue)' = PlanOf(q, queue)
  BY DEF PlanOf, StaticPlan, ParallelPlan
<1> QED BY <1>1 DEF PlanAt

LEMMA MadePlan ==
  ASSUME TablesInv, NEW r \in Rank, RankStep(r)
  PROVE  PlanAt(r)'
<1>1. CASE BeginPipeline(r)
  <2>1. /\ pass[r] <= Len(load[r])
        /\ UNCHANGED <<config, layer, bootVars>>
    BY <1>1 DEF BeginPipeline, Serving
  <2>2. PICK flat \in Routing(Batch(r).tokens) :
          plan' = [plan EXCEPT ![r] = PlanOf(r, {flat[i] : i \in DOMAIN flat})]
    BY <1>1 DEF BeginPipeline, PlanOf
  <2> DEFINE queue == {flat[i] : i \in DOMAIN flat}
  <2>3. queue \in SUBSET Expert
    <3>1. flat \in Seq(Expert)
      BY <2>1, RoutedExperts DEF TablesInv
    <3> QED BY <3>1
  <2> HIDE DEF queue
  <2>4. plan'[r] = PlanOf(r, queue)
    <3>1. plan = [s \in Rank |-> plan[s]] /\ plan' = [plan EXCEPT ![r] = PlanOf(r, queue)]
      BY <2>2 DEF TablesInv, ForwardTypes, queue
    <3> QED BY <3>1
  <2>5. PlanOf(r, queue)' = PlanOf(r, queue')
    <3>1. policy' = policy /\ layer' = layer /\ attached' = attached /\ table' = table
      BY <2>1 DEF config, bootVars
    <3> QED BY <3>1 DEF PlanOf, StaticPlan, ParallelPlan
  <2>6. plan'[r] = IF policy' = "static" THEN StaticPlan(queue)
                   ELSE ParallelPlan(r, layer'[r], queue)
    BY <2>1, <2>4 DEF PlanOf, config
  <2>7. \E s \in SUBSET Expert : plan'[r] = PlanOf(r, s)'
    <3>1. policy' = policy /\ layer' = layer /\ attached' = attached /\ table' = table
      BY <2>1 DEF config, bootVars
    <3>2. \A s : PlanOf(r, s)' = PlanOf(r, s)
      BY <3>1 DEF PlanOf, StaticPlan, ParallelPlan
    <3> QED BY <2>3, <2>4, <3>2
  <2> QED BY <2>7 DEF PlanAt
<1>2. CASE ~BeginPipeline(r)
  <2>1. pc'[r] # "execute"
    <3>1. pc = [s \in Rank |-> pc[s]]
      BY DEF TablesInv, CollInv
    <3>2. Boot(r) => pc'[r] # "execute"
      BY <3>1 DEF Boot, InitGroup, BeginGather, EndGather, LoseGather, CutGather, Attach
    <3>3. Exchange(r) => pc'[r] # "execute"
      BY <3>1 DEF Exchange, RefuseShape, RefuseExchange, BeginExchange, SendTokens, SendExperts,
             SendBack, MissExpert, EndExchange, Abandon, NextLayer
    <3>4. RaiseInPipeline(r) \/ EndPipeline(r) => pc'[r] # "execute"
      BY <3>1 DEF RaiseInPipeline, EndPipeline, Abandon, NextLayer
    <3> QED BY <1>2, <3>2, <3>3, <3>4 DEF RankStep, Pipeline
  <2> QED BY <2>1 DEF PlanAt
<1> QED BY <1>1, <1>2

LEMMA PlansInvNext == PlansInv /\ [Next]_vars => PlansInv'
<1> SUFFICES ASSUME PlansInv, [Next]_vars PROVE PlansInv'
  OBVIOUS
<1>1. TablesInv /\ TablesInv'
  BY TablesInvNext DEF PlansInv
<1>2. CASE UNCHANGED vars
  <2>1. \A q \in Rank : PlanAt(q)'
    BY <1>2, SamePlan DEF PlansInv, vars, config, bootVars, forwardVars
  <2> QED BY <1>1, <2>1 DEF PlansInv
<1>3. CASE Next
  <2>1. PICK r \in Rank : RankStep(r)
    BY <1>3 DEF Next
  <2>2. ASSUME NEW q \in Rank, q # r PROVE PlanAt(q)'
    BY <1>1, <2>1, <2>2, OthersStay, SamePlan DEF PlansInv
  <2>3. PlanAt(r)'
    BY <1>1, <2>1, MadePlan
  <2> QED BY <1>1, <2>2, <2>3 DEF PlansInv
<1> QED BY <1>2, <1>3

\* With every expert on every rank an attached table makes every id local.
LEMMA FullPlans ==
  ASSUME PlansInv, \A r \in Rank : held[r] = Expert, NEW r \in Rank, pc[r] = "execute",
         policy = "static" \/ attached[r] = Layer
  PROVE  ~Refused(r)
<1>1. PICK queue \in SUBSET Expert : plan[r] = PlanOf(r, queue)
  BY DEF PlansInv, PlanAt
<1>2. plan[r].queue = queue
  BY <1>1 DEF PlanOf, StaticPlan, ParallelPlan
<1>3. plan[r].remote = {}
  <2>1. CASE policy = "static"
    BY <1>1, <2>1 DEF PlanOf, StaticPlan
  <2>2. CASE policy # "static"
    <3> DEFINE l == layer[r]
               n == Cardinality(queue)
    <3>1. l \in attached[r] /\ l \in Layer
      BY <2>2 DEF PlansInv, TablesInv, PlaceTypes
    <3>2. plan[r].remote = RemoteIds(r, l \in attached[r], table[r][l], n)
      BY <1>1, <2>2 DEF PlanOf, ParallelPlan
    <3>3. 0 .. n - 1 \subseteq Expert
      <4>1. n \in Nat /\ n <= NumExperts /\ NumExperts \in Nat
        BY QueueSize, OwnershipAssumption
      <4> HIDE DEF n
      <4> QED BY <4>1 DEF Expert
    <3>4. Expert \subseteq DOMAIN table[r][l] /\ GoodTable(r, l, table[r][l])
      BY <3>1 DEF PlansInv, TablesInv, TableInv, TableAt
    <3>5. \A e \in Expert : Owner(l \in attached[r], table[r][l], e, n) = r
      BY <3>1, <3>4 DEF Owner, GoodTable, GoodEntry
    <3> QED BY <3>2, <3>3, <3>5 DEF RemoteIds
  <2> QED BY <2>1, <2>2
<1> QED BY <1>2, <1>3 DEF Refused, WaitFails, RefusesPlan, Unregistered

LEMMA PlannedSlices ==
  ASSUME PlansInv, NEW r \in Rank, pc[r] = "execute", NEW e \in plan[r].remote
  PROVE  Tiling({t \in plan[r].transfers : t.expert = e},
                ExpertBytes(layer[r] \in attached[r], table[r][layer[r]], e))
<1> DEFINE l == layer[r]
           known == l \in attached[r]
           T == table[r][l]
           slices == {t \in plan[r].transfers : t.expert = e}
<1>1. PICK queue \in SUBSET Expert : plan[r] = PlanOf(r, queue)
  BY DEF PlansInv, PlanAt
<1> DEFINE n == Cardinality(queue)
           R == RemoteIds(r, known, T, n)
           made(f) == Transfers(r, Owner(known, T, f, n), f, ExpertBytes(known, T, f), Priority(R, f, n))
           size == ExpertBytes(known, T, e)
<1>2. policy # "static"
  BY <1>1 DEF PlanOf, StaticPlan
<1>3. plan[r].remote = R /\ plan[r].transfers = UNION {made(f) : f \in R}
  BY <1>1, <1>2 DEF PlanOf, ParallelPlan
<1>4. \A f : ExpertBytes(known, T, f) \in Nat
  <2>1. T \in Tables
    BY DEF PlansInv, TablesInv, PlaceTypes, BootTypes
  <2>2. PICK D \in SUBSET Expert : T \in [D -> Mapping]
    BY <2>1 DEF Tables
  <2> HIDE DEF T
  <2>3. \A f \in DOMAIN T : T[f].bytes \in Nat
    BY <2>2 DEF Mapping
  <2> QED BY <2>3 DEF ExpertBytes
<1>5. \A f : \A t \in made(f) : t.expert = f
  BY DEF Transfers
<1> HIDE DEF made, R
<1>6. slices = made(e)
  BY <1>3, <1>5
<1>7. size \in Nat
  BY <1>4
<1> HIDE DEF size, slices, known, T, l, n
<1>8. Tiling(made(e), size)
  BY <1>7, TransfersTile DEF made, size
<1> QED BY <1>6, <1>8 DEF slices, size, known, T, l

\* For any number of ranks, experts and bytes and any slice size: with every
\* expert in every registry, as the adapter builds them, no plan made from an
\* attached table is refused, and the slices of a transfer of the plan under
\* execution cover the expert's bytes once each (ExpertParallelPlanner.forward).
THEOREM PlansAreSound == Spec => []PlansSound
<1>1. Init => PlansInv
  BY TablesInvInit DEF PlansInv, PlanAt, Init
<1>2. PlansInv /\ [Next]_vars => PlansInv'
  BY PlansInvNext
<1>3. PlansInv => PlansSound
  BY FullPlans, PlannedSlices DEF PlansSound, FullRegistryServes, SlicesTile, Tiling, Bytes
<1> QED BY <1>1, <1>2, <1>3, PTL DEF Spec

-----------------------------------------------------------------------------
(* Splitting and joining: where the parts of a collective begin, and that  *)
(* joining undoes splitting.                                               *)

Ends == 0 .. WorldSize
Vectors == [Rank -> Nat]

LEMMA RanksAre ==
  /\ WorldSize \in Nat \ {0} /\ Rank \subseteq Nat
  /\ \A q \in Rank : q \in Ends /\ q + 1 \in Ends /\ q < WorldSize
  /\ \A q \in Ends : q # 0 => q - 1 \in Rank
  /\ 0 \in Ends /\ WorldSize \in Ends /\ Ends \subseteq Nat
BY OwnershipAssumption DEF Rank, Ends

\* f holds the offsets up to n.
Starts(f, counts, n) ==
  f = [q \in 0 .. n |-> IF q = 0 THEN 0 ELSE f[q - 1] + counts[q - 1]]

LEMMA StartsExist ==
  ASSUME NEW counts, NEW n \in Nat
  PROVE  \E f : Starts(f, counts, n)
<1> DEFINE Bad == {m \in Nat : ~ \E f : Starts(f, counts, m)}
<1> SUFFICES ASSUME Bad # {} PROVE FALSE
  OBVIOUS
<1>1. PICK m \in Bad : \A j \in Bad : m <= j
  <2>1. Bad \subseteq Nat
    OBVIOUS
  <2> HIDE DEF Bad
  <2> QED BY <2>1, FirstRank
<1>2. CASE m = 0
  <2>1. Starts([q \in 0 .. 0 |-> 0], counts, 0)
    BY DEF Starts
  <2> QED BY <1>2, <2>1
<1>3. CASE m # 0
  <2>1. m - 1 \in Nat /\ m - 1 \notin Bad
    BY <1>1, <1>3
  <2>2. PICK f : Starts(f, counts, m - 1)
    BY <2>1
  <2> DEFINE last == f[m - 1] + counts[m - 1]
             h == [q \in 0 .. m |-> IF q = m THEN last ELSE f[q]]
  <2>3. ASSUME NEW q \in 0 .. m
        PROVE  h[q] = IF q = 0 THEN 0 ELSE h[q - 1] + counts[q - 1]
    <3>1. CASE q = m
      <4>1. h[q] = last /\ q - 1 \in 0 .. m /\ q - 1 # m /\ q # 0
        BY <1>3, <3>1
      <4>2. h[q - 1] = f[q - 1]
        BY <4>1
      <4> QED BY <3>1, <4>1, <4>2
    <3>2. CASE q # m /\ q # 0
      <4>1. h[q] = f[q] /\ q \in 0 .. (m - 1) /\ q - 1 \in 0 .. m /\ q - 1 # m
        BY <1>3, <3>2
      <4>2. h[q - 1] = f[q - 1]
        BY <4>1
      <4>3. f[q] = IF q = 0 THEN 0 ELSE f[q - 1] + counts[q - 1]
        BY <2>2, <4>1 DEF Starts
      <4> QED BY <3>2, <4>1, <4>2, <4>3
    <3>3. CASE q # m /\ q = 0
      <4>1. h[q] = f[q] /\ q \in 0 .. (m - 1)
        BY <1>3, <3>3
      <4> QED BY <2>2, <3>3, <4>1 DEF Starts
    <3> QED BY <3>1, <3>2, <3>3
  <2>4. h = [q \in 0 .. m |-> IF q = 0 THEN 0 ELSE h[q - 1] + counts[q - 1]]
    <3> HIDE DEF last
    <3>1. h = [q \in 0 .. m |-> h[q]]
      OBVIOUS
    <3> HIDE DEF h
    <3> QED BY <2>3, <3>1
  <2> HIDE DEF h
  <2>5. Starts(h, counts, m)
    BY <2>4 DEF Starts
  <2> QED BY <2>5
<1> QED BY <1>2, <1>3

\* The offsets of a vector of counts: sums, none before the first rank.
LEMMA OffsetsAre ==
  ASSUME NEW counts \in Vectors
  PROVE  /\ Offsets(counts)[0] = 0
         /\ \A q \in Rank : Offsets(counts)[q + 1] = Offsets(counts)[q] + counts[q]
         /\ \A q \in Ends : Offsets(counts)[q] \in Nat
<1> DEFINE O == Offsets(counts)
<1>1. O = CHOOSE f : Starts(f, counts, WorldSize)
  BY DEF Offsets, Starts
<1>2. Starts(O, counts, WorldSize)
  BY <1>1, StartsExist, RanksAre
<1>3. \A q \in Ends : O[q] = IF q = 0 THEN 0 ELSE O[q - 1] + counts[q - 1]
  BY <1>2 DEF Starts, Ends
<1> HIDE DEF O
<1>4. O[0] = 0
  BY <1>3, RanksAre
<1>5. ASSUME NEW q \in Rank PROVE O[q + 1] = O[q] + counts[q]
  <2>1. q + 1 \in Ends /\ q + 1 # 0 /\ (q + 1) - 1 = q
    BY RanksAre
  <2> QED BY <1>3, <2>1
<1>6. \A q \in Ends : O[q] \in Nat
  <2> DEFINE Bad == {q \in Ends : O[q] \notin Nat}
  <2> SUFFICES ASSUME Bad # {} PROVE FALSE
    OBVIOUS
  <2>1. Bad \subseteq Nat
    BY RanksAre
  <2>2. PICK m \in Bad : \A j \in Bad : m <= j
    <3> HIDE DEF Bad
    <3> QED BY <2>1, FirstRank
  <2>3. m # 0 /\ m \in Ends
    BY <1>4, <2>2
  <2>4. m - 1 \in Rank /\ m - 1 \in Ends /\ m \in Nat /\ m - 1 < m
    BY <2>3, RanksAre
  <2>5. O[m - 1] \in Nat
    BY <2>2, <2>4
  <2>6. counts[m - 1] \in Nat
    BY <2>4 DEF Vectors
  <2>7. O[m] = O[m - 1] + counts[m - 1]
    BY <1>3, <2>3
  <2> QED BY <2>2, <2>5, <2>6, <2>7
<1> QED BY <1>4, <1>5, <1>6 DEF O

LEMMA OffsetsGrow ==
  ASSUME NEW counts \in Vectors, NEW p \in Ends, NEW q \in Ends, p <= q
  PROVE  Offsets(counts)[p] <= Offsets(counts)[q]
<1> DEFINE O == Offsets(counts)
           Bad == {m \in Ends : p <= m /\ ~(O[p] <= O[m])}
<1> SUFFICES ASSUME Bad # {} PROVE FALSE
  OBVIOUS
<1>1. Bad \subseteq Nat
  BY RanksAre
<1>2. PICK m \in Bad : \A j \in Bad : m <= j
  <2> HIDE DEF Bad
  <2> QED BY <1>1, FirstRank
<1>3. \A j \in Ends : O[j] \in Nat
  BY OffsetsAre
<1>4. m # p /\ m \in Ends /\ p <= m /\ m # 0 /\ p \in Nat /\ m \in Nat
  BY <1>2, <1>3, RanksAre
<1>5. m - 1 \in Rank /\ m - 1 \in Ends /\ p <= m - 1 /\ (m - 1) + 1 = m /\ m - 1 < m
  BY <1>4, RanksAre
<1>6. O[p] <= O[m - 1]
  <2>1. m - 1 \notin Bad
    BY <1>2, <1>4, <1>5
  <2> QED BY <1>5, <2>1
<1>7. O[m] = O[m - 1] + counts[m - 1] /\ counts[m - 1] \in Nat
  BY <1>5, OffsetsAre DEF Vectors
<1> HIDE DEF O
<1>8. O[p] <= O[m]
  BY <1>3, <1>4, <1>5, <1>6, <1>7
<1> QED BY <1>2, <1>8

\* Every row is the j-th of one rank's.
LEMMA RowOfRank ==
  ASSUME NEW counts \in Vectors, NEW i \in 1 .. Offsets(counts)[WorldSize]
  PROVE  \E q \in Rank : \E j \in 1 .. counts[q] : i = Offsets(counts)[q] + j
<1> DEFINE O == Offsets(counts)
           Beyond == {m \in Ends : i <= O[m]}
<1>1. Beyond \subseteq Nat /\ WorldSize \in Beyond
  <2>1. WorldSize \in Ends /\ i <= O[WorldSize]
    BY RanksAre, OffsetsAre
  <2> QED BY <2>1, RanksAre
<1>2. PICK m \in Beyond : \A j \in Beyond : m <= j
  <2> HIDE DEF Beyond
  <2> QED BY <1>1, FirstRank
<1>3. \A j \in Ends : O[j] \in Nat
  BY OffsetsAre
<1>4. m # 0 /\ m \in Ends /\ i <= O[m] /\ m \in Nat
  <2>1. O[0] = 0
    BY OffsetsAre
  <2> QED BY <1>2, <2>1, RanksAre
<1>5. m - 1 \in Rank /\ m - 1 \in Ends /\ (m - 1) + 1 = m /\ m - 1 < m
  BY <1>4, RanksAre
<1>6. ~(i <= O[m - 1])
  <2>1. m - 1 \notin Beyond
    BY <1>2, <1>4, <1>5
  <2> QED BY <1>5, <2>1
<1>7. O[m] = O[m - 1] + counts[m - 1] /\ counts[m - 1] \in Nat
  BY <1>5, OffsetsAre DEF Vectors
<1>8. O[m - 1] \in Nat /\ O[m] \in Nat /\ i \in Nat
  BY <1>3, <1>4, <1>5, RanksAre
<1> HIDE DEF O, Beyond
<1>9. i - O[m - 1] \in 1 .. counts[m - 1] /\ i = O[m - 1] + (i - O[m - 1])
  BY <1>4, <1>6, <1>7, <1>8
<1> QED BY <1>5, <1>9 DEF O

\* The rows of a rank are within the whole and none is another rank's.
LEMMA RowsWithin ==
  ASSUME NEW counts \in Vectors, NEW q \in Rank, NEW j \in 1 .. counts[q]
  PROVE  /\ Offsets(counts)[q] + j \in 1 .. Offsets(counts)[WorldSize]
         /\ Offsets(counts)[q] + j <= Offsets(counts)[q + 1]
         /\ Offsets(counts)[q] < Offsets(counts)[q] + j
<1> DEFINE O == Offsets(counts)
<1>1. O[q] \in Nat /\ O[q + 1] \in Nat /\ O[WorldSize] \in Nat
  BY OffsetsAre, RanksAre
<1>2. O[q + 1] = O[q] + counts[q] /\ counts[q] \in Nat
  BY OffsetsAre DEF Vectors
<1>3. O[q + 1] <= O[WorldSize]
  <2>1. q + 1 \in Ends /\ WorldSize \in Ends /\ q + 1 <= WorldSize
    BY RanksAre DEF Ends
  <2> QED BY <2>1, OffsetsGrow
<1> HIDE DEF O
<1>4. O[q] + j \in 1 .. O[WorldSize] /\ O[q] + j <= O[q + 1] /\ O[q] < O[q] + j
  BY <1>1, <1>2, <1>3
<1> QED BY <1>4 DEF O

\* The part of a rank is its rows in order.
LEMMA SplitPartIs ==
  ASSUME NEW counts \in Vectors, NEW M, NEW rows \in Seq(M),
         Len(rows) = Offsets(counts)[WorldSize], NEW q \in Rank
  PROVE  /\ SplitPart(rows, counts, q) \in Seq(M)
         /\ Len(SplitPart(rows, counts, q)) = counts[q]
         /\ \A j \in 1 .. counts[q] :
              SplitPart(rows, counts, q)[j] = rows[Offsets(counts)[q] + j]
<1> DEFINE O == Offsets(counts)
           a == O[q]
           b == O[q + 1]
<1>1. a \in Nat /\ b \in Nat /\ b = a + counts[q] /\ counts[q] \in Nat
  BY OffsetsAre, RanksAre DEF Vectors
<1>2. b <= Len(rows)
  <2>1. q + 1 \in Ends /\ WorldSize \in Ends /\ q + 1 <= WorldSize
    BY RanksAre DEF Ends
  <2> QED BY <2>1, OffsetsGrow
<1>3. Lesser(b, Len(rows)) = b
  BY <1>2 DEF Lesser
<1>4. SplitPart(rows, counts, q) = SubSeq(rows, a + 1, b)
  BY <1>3 DEF SplitPart
<1>5. Len(rows) \in Nat
  OBVIOUS
<1> HIDE DEF a, b
<1>6. SubSeq(rows, a + 1, b) \in Seq(M)
  BY <1>1, <1>2, <1>5
<1>7. Len(SubSeq(rows, a + 1, b)) = counts[q]
  BY <1>1, <1>2, <1>5
<1>8. \A j \in 1 .. counts[q] : SubSeq(rows, a + 1, b)[j] = rows[a + j]
  BY <1>1, <1>2, <1>5
<1> QED BY <1>4, <1>6, <1>7, <1>8 DEF a

\* A sequence of n rows.
IsRows(s, n) == n \in Nat /\ DOMAIN s = 1 .. n /\ s = [j \in 1 .. n |-> s[j]]

LEMMA RowsAre ==
  ASSUME NEW s, NEW n, IsRows(s, n)
  PROVE  s \in Seq(Range(s)) /\ Len(s) = n /\ n \in Nat
<1>1. n \in Nat /\ DOMAIN s = 1 .. n /\ s = [j \in 1 .. n |-> s[j]]
  BY DEF IsRows
<1>2. \A j \in 1 .. n : s[j] \in Range(s)
  BY <1>1 DEF Range
<1>3. s \in [1 .. n -> Range(s)]
  BY <1>1, <1>2
<1>4. s \in Seq(Range(s))
  BY <1>1, <1>3
<1> QED BY <1>1, <1>4

LEMMA SequenceRows ==
  ASSUME NEW M, NEW s \in Seq(M)
  PROVE  IsRows(s, Len(s))
BY DEF IsRows

\* Joining two sequences of rows.
Joined(s, m, t, n) ==
  /\ IsRows(s \o t, m + n)
  /\ \A j \in 1 .. m : (s \o t)[j] = s[j]
  /\ \A j \in 1 .. n : (s \o t)[m + j] = t[j]

LEMMA JoinRows ==
  ASSUME NEW s, NEW t, NEW m, NEW n, IsRows(s, m), IsRows(t, n)
  PROVE  Joined(s, m, t, n)
<1> DEFINE M == Range(s) \cup Range(t)
<1>1. s \in Seq(Range(s)) /\ t \in Seq(Range(t)) /\ Len(s) = m /\ Len(t) = n
      /\ m \in Nat /\ n \in Nat
  BY RowsAre
<1>2. s \in Seq(M) /\ t \in Seq(M)
  BY <1>1
<1> HIDE DEF M
<1>3. s \o t \in Seq(M) /\ Len(s \o t) = m + n
  BY <1>1, <1>2
<1>4. IsRows(s \o t, m + n)
  BY <1>3, SequenceRows
<1>5. \A j \in 1 .. m : (s \o t)[j] = s[j]
  BY <1>1, <1>2
<1>6. \A j \in 1 .. n : (s \o t)[m + j] = t[j]
  BY <1>1, <1>2
<1> QED BY <1>4, <1>5, <1>6 DEF Joined

\* The part of a rank is its rows in order.
LEMMA PartRows ==
  ASSUME NEW counts \in Vectors, NEW rows, IsRows(rows, Offsets(counts)[WorldSize]),
         NEW q \in Rank
  PROVE  /\ IsRows(Split(rows, counts)[q], counts[q])
         /\ \A j \in 1 .. counts[q] :
              Split(rows, counts)[q][j] = rows[Offsets(counts)[q] + j]
<1>1. rows \in Seq(Range(rows)) /\ Len(rows) = Offsets(counts)[WorldSize]
  BY RowsAre
<1>2. Split(rows, counts)[q] = SplitPart(rows, counts, q)
  BY DEF Split
<1>3. /\ SplitPart(rows, counts, q) \in Seq(Range(rows))
      /\ Len(SplitPart(rows, counts, q)) = counts[q]
      /\ \A j \in 1 .. counts[q] :
           SplitPart(rows, counts, q)[j] = rows[Offsets(counts)[q] + j]
  BY <1>1, SplitPartIs
<1>4. IsRows(SplitPart(rows, counts, q), counts[q])
  BY <1>3, SequenceRows
<1> QED BY <1>2, <1>3, <1>4

-----------------------------------------------------------------------------
(* Joining the parts of a collective.                                      *)

\* f holds what the first parts make, up to the n-th.
Joins(f, seqs, n) ==
  f = [i \in 1 .. n |-> IF i = 1 THEN seqs[i] ELSE f[i - 1] \o seqs[i]]

LEMMA JoinsExist ==
  ASSUME NEW seqs, NEW n \in Nat
  PROVE  \E f : Joins(f, seqs, n)
<1> DEFINE Bad == {m \in Nat : ~ \E f : Joins(f, seqs, m)}
<1> SUFFICES ASSUME Bad # {} PROVE FALSE
  OBVIOUS
<1>1. PICK m \in Bad : \A j \in Bad : m <= j
  <2>1. Bad \subseteq Nat
    OBVIOUS
  <2> HIDE DEF Bad
  <2> QED BY <2>1, FirstRank
<1>2. CASE m = 0
  <2>1. Joins([i \in 1 .. 0 |-> 0], seqs, 0)
    BY DEF Joins
  <2> QED BY <1>2, <2>1
<1>3. CASE m # 0
  <2>1. m - 1 \in Nat /\ m - 1 \notin Bad
    BY <1>1, <1>3
  <2>2. PICK f : Joins(f, seqs, m - 1)
    BY <2>1
  <2> DEFINE last == IF m = 1 THEN seqs[m] ELSE f[m - 1] \o seqs[m]
             h == [i \in 1 .. m |-> IF i = m THEN last ELSE f[i]]
  <2>3. ASSUME NEW i \in 1 .. m
        PROVE  h[i] = IF i = 1 THEN seqs[i] ELSE h[i - 1] \o seqs[i]
    <3>1. CASE i = m /\ i = 1
      BY <3>1
    <3>2. CASE i = m /\ i # 1
      <4>1. /\ m \in Nat /\ m # 1 /\ m # 0
            /\ i - 1 \in 1 .. m /\ i - 1 # m
        BY <1>3, <3>2
      <4>3. h[i] = f[m - 1] \o seqs[m]
        BY <3>2, <4>1
      <4>2. h[i - 1] = f[m - 1]
        BY <3>2, <4>1
      <4> QED BY <3>2, <4>1, <4>2, <4>3
    <3>3. CASE i # m /\ i # 1
      <4>1. h[i] = f[i] /\ i \in 1 .. (m - 1) /\ i - 1 \in 1 .. m /\ i - 1 # m
        BY <1>3, <3>3
      <4>2. h[i - 1] = f[i - 1]
        BY <4>1
      <4>3. f[i] = IF i = 1 THEN seqs[i] ELSE f[i - 1] \o seqs[i]
        BY <2>2, <4>1 DEF Joins
      <4> QED BY <3>3, <4>1, <4>2, <4>3
    <3>4. CASE i # m /\ i = 1
      <4>1. h[i] = f[i] /\ i \in 1 .. (m - 1)
        BY <1>3, <3>4
      <4> QED BY <2>2, <3>4, <4>1 DEF Joins
    <3> QED BY <3>1, <3>2, <3>3, <3>4
  <2>4. h = [i \in 1 .. m |-> IF i = 1 THEN seqs[i] ELSE h[i - 1] \o seqs[i]]
    <3> HIDE DEF last
    <3>1. h = [i \in 1 .. m |-> h[i]]
      OBVIOUS
    <3> HIDE DEF h
    <3> QED BY <2>3, <3>1
  <2> HIDE DEF h
  <2>5. Joins(h, seqs, m)
    BY <2>4 DEF Joins
  <2> QED BY <2>5
<1> QED BY <1>2, <1>3

\* The rows of every rank in turn.
LEMMA ConcatIs ==
  ASSUME NEW counts \in Vectors, NEW parts, \A q \in Rank : IsRows(parts[q], counts[q])
  PROVE  /\ IsRows(Concat(parts), Offsets(counts)[WorldSize])
         /\ \A q \in Rank : \A j \in 1 .. counts[q] :
              Concat(parts)[Offsets(counts)[q] + j] = parts[q][j]
<1> DEFINE seqs == [k \in 1 .. WorldSize |-> parts[k - 1]]
           O == Offsets(counts)
<1>1. Len(seqs) = WorldSize /\ WorldSize \in Nat /\ WorldSize # 0
  <2> DEFINE M == {parts[k - 1] : k \in 1 .. WorldSize}
  <2>3. \A k \in 1 .. WorldSize : parts[k - 1] \in M
    OBVIOUS
  <2> HIDE DEF M
  <2>1. seqs \in Seq(M)
    BY <2>3, RanksAre
  <2>2. DOMAIN seqs = 1 .. WorldSize
    OBVIOUS
  <2> QED BY <2>1, <2>2, RanksAre
<1>2. PICK f : Joins(f, seqs, WorldSize) /\ Concat(parts) = f[WorldSize]
  <2> DEFINE f == CHOOSE f : f = [i \in 1 .. Len(seqs) |->
                      IF i = 1 THEN seqs[i] ELSE f[i - 1] \o seqs[i]]
  <2>1. Concat(parts) = f[Len(seqs)]
    BY <1>1 DEF Concat, FlattenSeq
  <2>2. f = CHOOSE g : Joins(g, seqs, Len(seqs))
    BY DEF Joins
  <2>3. Joins(f, seqs, Len(seqs))
    BY <1>1, <2>2, JoinsExist
  <2> QED BY <1>1, <2>1, <2>3
<1>3. \A q \in Rank : q + 1 \in 1 .. WorldSize /\ seqs[q + 1] = parts[q]
  <2>1. \A q \in Rank : q + 1 \in 1 .. WorldSize /\ (q + 1) - 1 = q
    BY <1>1 DEF Rank
  <2> QED BY <2>1
<1> HIDE DEF seqs
<1>4. \A q \in Rank : f[q + 1] = IF q = 0 THEN parts[q] ELSE f[q] \o parts[q]
  <2> SUFFICES ASSUME NEW q \in Rank
               PROVE  f[q + 1] = IF q = 0 THEN parts[q] ELSE f[q] \o parts[q]
    OBVIOUS
  <2>1. q \in Nat /\ (q + 1) - 1 = q /\ (q + 1 = 1 <=> q = 0)
    BY RanksAre
  <2> QED BY <1>2, <1>3, <2>1 DEF Joins
<1>5. /\ O[0] = 0 /\ \A q \in Rank : O[q + 1] = O[q] + counts[q]
      /\ \A q \in Ends : O[q] \in Nat
  BY OffsetsAre
<1> DEFINE Right(n) == /\ IsRows(f[n], O[n])
                       /\ \A q \in Rank : q < n => \A j \in 1 .. counts[q] :
                            f[n][O[q] + j] = parts[q][j]
<1> HIDE DEF O
<1>6. ASSUME NEW n \in Rank, n # 0 => Right(n) PROVE Right(n + 1)
  <2>1. O[n + 1] = O[n] + counts[n] /\ counts[n] \in Nat /\ n \in Nat /\ O[n] \in Nat
    BY <1>5, RanksAre DEF Vectors
  <2>2. CASE n = 0
    <3>1. O[n] = 0 /\ f[n + 1] = parts[n] /\ O[n + 1] = counts[n]
      BY <1>4, <1>5, <2>1, <2>2
    <3>2. IsRows(f[n + 1], O[n + 1])
      BY <3>1
    <3>3. ASSUME NEW q \in Rank, q < n + 1, NEW j \in 1 .. counts[q]
          PROVE  f[n + 1][O[q] + j] = parts[q][j]
      <4>1. q = n
        BY <2>2, <3>3, RanksAre
      <4>2. O[q] + j = j
        BY <2>1, <3>1, <4>1
      <4> QED BY <3>1, <4>1, <4>2
    <3> QED BY <3>2, <3>3
  <2>3. CASE n # 0
    <3>1. f[n + 1] = f[n] \o parts[n]
      BY <1>4, <2>3
    <3>2. IsRows(f[n], O[n]) /\ IsRows(parts[n], counts[n])
      BY <1>6, <2>3
    <3>3. /\ IsRows(f[n + 1], O[n + 1])
          /\ \A j \in 1 .. O[n] : f[n + 1][j] = f[n][j]
          /\ \A j \in 1 .. counts[n] : f[n + 1][O[n] + j] = parts[n][j]
      <4> DEFINE a == f[n]
                 b == parts[n]
                 x == O[n]
                 y == counts[n]
      <4>1. IsRows(a, x) /\ IsRows(b, y)
        BY <3>2
      <4>2. f[n + 1] = a \o b /\ O[n + 1] = x + y
        BY <2>1, <3>1
      <4> HIDE DEF a, b, x, y
      <4>3. Joined(a, x, b, y)
        BY <4>1, JoinRows
      <4>4. /\ IsRows(a \o b, x + y)
            /\ \A j \in 1 .. x : (a \o b)[j] = a[j]
            /\ \A j \in 1 .. y : (a \o b)[x + j] = b[j]
        BY <4>3 DEF Joined
      <4> QED BY <4>2, <4>4 DEF a, b, x, y
    <3>4. ASSUME NEW q \in Rank, q < n + 1, NEW j \in 1 .. counts[q]
          PROVE  f[n + 1][O[q] + j] = parts[q][j]
      <4>1. CASE q = n
        BY <3>3, <4>1
      <4>2. CASE q # n
        <5>1. q < n /\ q + 1 <= n /\ q + 1 \in Ends /\ n \in Ends
          BY <2>1, <3>4, <4>2, RanksAre
        <5>2. O[q + 1] <= O[n] /\ O[q + 1] = O[q] + counts[q]
          BY <1>5, <5>1, OffsetsGrow DEF O
        <5>3. O[q] \in Nat /\ counts[q] \in Nat
          BY <1>5, RanksAre DEF Vectors
        <5>4. O[q] + j \in 1 .. O[n]
          BY <2>1, <5>2, <5>3
        <5> QED BY <1>6, <2>3, <3>3, <5>1, <5>4
      <4> QED BY <4>1, <4>2
    <3> QED BY <3>3, <3>4
  <2> QED BY <2>2, <2>3
<1> HIDE DEF Right
<1> DEFINE Bad == {n \in 1 .. WorldSize : ~Right(n)}
<1>7. Bad = {}
  <2> SUFFICES ASSUME Bad # {} PROVE FALSE
    OBVIOUS
  <2>1. Bad \subseteq Nat
    OBVIOUS
  <2>2. PICK m \in Bad : \A j \in Bad : m <= j
    <3> HIDE DEF Bad
    <3> QED BY <2>1, FirstRank
  <2>3. m \in 1 .. WorldSize /\ m - 1 \in Rank /\ (m - 1) + 1 = m
    BY <1>1 DEF Rank
  <2>4. m - 1 # 0 => m - 1 \in 1 .. WorldSize /\ m - 1 \notin Bad
    BY <1>1, <2>2, <2>3
  <2>5. m - 1 # 0 => Right(m - 1)
    BY <2>4
  <2>6. Right((m - 1) + 1)
    BY <1>6, <2>3, <2>5
  <2> QED BY <2>2, <2>3, <2>6
<1>8. Right(WorldSize)
  BY <1>1, <1>7
<1>9. \A q \in Rank : q < WorldSize
  BY RanksAre
<1> QED BY <1>2, <1>8, <1>9 DEF Right, O

-----------------------------------------------------------------------------
(* What a rank announces is all it sends.                                  *)

LEMMA OwnersAre ==
  ASSUME NEW e \in Expert
  PROVE  BlockOwner(e, NumExperts) \in Rank
<1> DEFINE d == ExpertsPerRank(NumExperts)
<1>1. CeilDiv(NumExperts, WorldSize) \in Nat
  <2>1. NumExperts + WorldSize - 1 \in Nat
    BY OwnershipAssumption
  <2> DEFINE x == NumExperts + WorldSize - 1
  <2>2. x \div WorldSize \in Nat
    <3> HIDE DEF x
    <3> QED BY <2>1, Divides, OwnershipAssumption DEF x
  <2> QED BY <2>2 DEF CeilDiv
<1>2. d \in Nat \ {0}
  BY <1>1 DEF ExpertsPerRank, AtLeastOne
<1>3. e \in Nat
  BY OwnershipAssumption DEF Expert
<1> HIDE DEF d
<1> DEFINE x == e \div d
<1>4. x \in Nat
  BY <1>2, <1>3, Divides
<1>5. BlockOwner(e, NumExperts) = Lesser(x, WorldSize - 1)
  BY DEF BlockOwner, d
<1> HIDE DEF x
<1> QED BY <1>4, <1>5, OwnershipAssumption DEF Lesser, Rank

LEMMA TargetIs ==
  ASSUME NEW flat \in Seq(Expert), NEW i \in DOMAIN flat
  PROVE  Target(flat, i) \in Rank
BY OwnersAre DEF Target

\* The assignments of a batch that go to a rank, and those of lower ranks.
Going(flat, q) == {i \in DOMAIN flat : Target(flat, i) = q}
GoingBelow(flat, q) == {i \in DOMAIN flat : Target(flat, i) < q}

LEMMA GoingIs ==
  ASSUME NEW flat \in Seq(Expert)
  PROVE  /\ IsFiniteSet(DOMAIN flat) /\ Cardinality(DOMAIN flat) = Len(flat)
         /\ \A T \in SUBSET DOMAIN flat :
              IsFiniteSet(T) /\ Cardinality(T) \in Nat /\ Cardinality(T) <= Len(flat)
         /\ SendCounts(flat) \in Vectors
         /\ \A q \in Rank : SendCounts(flat)[q] = Cardinality(Going(flat, q))
<1>1. DOMAIN flat = 1 .. Len(flat) /\ Len(flat) \in Nat
  OBVIOUS
<1>2. IsFiniteSet(DOMAIN flat) /\ Cardinality(DOMAIN flat) = Len(flat)
  <2>1. IsFiniteSet(1 .. Len(flat)) /\ Cardinality(1 .. Len(flat)) = Len(flat)
    BY <1>1, FS_Interval
  <2> QED BY <1>1, <2>1
<1>3. ASSUME NEW T \in SUBSET DOMAIN flat
      PROVE  IsFiniteSet(T) /\ Cardinality(T) \in Nat /\ Cardinality(T) <= Len(flat)
  BY <1>2, FS_Subset, FS_CardinalityType
<1>4. \A q \in Rank : SendCounts(flat)[q] = Cardinality(Going(flat, q))
  BY DEF SendCounts, Going
<1>5. \A q \in Rank : Cardinality(Going(flat, q)) \in Nat
  <2> SUFFICES ASSUME NEW q \in Rank PROVE Cardinality(Going(flat, q)) \in Nat
    OBVIOUS
  <2>1. Going(flat, q) \in SUBSET DOMAIN flat
    BY DEF Going
  <2> QED BY <1>3, <2>1
<1>6. SendCounts(flat) = [q \in Rank |-> SendCounts(flat)[q]]
  BY DEF SendCounts
<1>7. SendCounts(flat) \in Vectors
  BY <1>4, <1>5, <1>6 DEF Vectors
<1> QED BY <1>2, <1>3, <1>4, <1>7

\* The rows of a rank begin behind those of the lower ranks.
LEMMA OffsetsCount ==
  ASSUME NEW flat \in Seq(Expert), NEW q \in Ends
  PROVE  Offsets(SendCounts(flat))[q] = Cardinality(GoingBelow(flat, q))
<1> DEFINE O == Offsets(SendCounts(flat))
           Below(m) == Cardinality(GoingBelow(flat, m))
           Bad == {m \in Ends : O[m] # Below(m)}
<1> SUFFICES ASSUME Bad # {} PROVE FALSE
  OBVIOUS
<1>1. PICK m \in Bad : \A j \in Bad : m <= j
  <2>1. Bad \subseteq Nat
    BY RanksAre
  <2> HIDE DEF Bad
  <2> QED BY <2>1, FirstRank
<1>2. SendCounts(flat) \in Vectors
  BY GoingIs
<1>3. m # 0
  <2> SUFFICES ASSUME m = 0 PROVE FALSE
    OBVIOUS
  <2>1. GoingBelow(flat, 0) = {}
    <3>1. \A i \in DOMAIN flat : Target(flat, i) \in Nat
      BY TargetIs, RanksAre
    <3>2. \A i \in DOMAIN flat : ~(Target(flat, i) < 0)
      BY <3>1
    <3> QED BY <3>2 DEF GoingBelow
  <2>2. O[0] = 0
    BY <1>2, OffsetsAre
  <2>3. Below(0) = 0
    BY <2>1, FS_EmptySet
  <2> QED BY <1>1, <2>2, <2>3
<1>4. m \in Ends /\ m \in Nat /\ m - 1 \in Rank /\ m - 1 \in Ends /\ m - 1 \in Nat /\ m - 1 < m
      /\ (m - 1) + 1 = m
  BY <1>1, <1>3, RanksAre
<1>5. O[m - 1] = Below(m - 1)
  <2>1. m - 1 \notin Bad
    BY <1>1, <1>4
  <2> QED BY <1>4, <2>1
<1>6. O[m] = O[m - 1] + SendCounts(flat)[m - 1]
  BY <1>2, <1>4, OffsetsAre
<1> DEFINE A == GoingBelow(flat, m - 1)
           B == Going(flat, m - 1)
<1>7. A \cup B = GoingBelow(flat, m) /\ A \cap B = {}
  <2>1. \A i \in DOMAIN flat : Target(flat, i) \in Nat
    BY TargetIs, RanksAre
  <2>2. \A i \in DOMAIN flat :
          /\ Target(flat, i) < m <=> (Target(flat, i) < m - 1 \/ Target(flat, i) = m - 1)
          /\ ~(Target(flat, i) < m - 1 /\ Target(flat, i) = m - 1)
    BY <1>4, <2>1
  <2> QED BY <2>2 DEF Going, GoingBelow
<1>8. A \in SUBSET DOMAIN flat /\ B \in SUBSET DOMAIN flat
  BY DEF Going, GoingBelow
<1>9. IsFiniteSet(A) /\ IsFiniteSet(B) /\ Cardinality(A) \in Nat /\ Cardinality(B) \in Nat
  BY <1>8, GoingIs
<1>10. Cardinality(A \cup B) = Cardinality(A) + Cardinality(B) - Cardinality(A \cap B)
  <2> HIDE DEF A, B
  <2> QED BY <1>9, FS_Union
<1>11. Cardinality(A \cup B) = Cardinality(A) + Cardinality(B)
  <2>1. Cardinality(A \cap B) = 0
    BY <1>7, FS_EmptySet
  <2> HIDE DEF A, B
  <2> QED BY <1>9, <1>10, <2>1
<1>12. SendCounts(flat)[m - 1] = Cardinality(B)
  BY <1>4, GoingIs
<1>13. Below(m) = Below(m - 1) + SendCounts(flat)[m - 1]
  BY <1>7, <1>11, <1>12
<1> QED BY <1>1, <1>5, <1>6, <1>13

LEMMA AnnouncedAll ==
  ASSUME NEW flat \in Seq(Expert)
  PROVE  Offsets(SendCounts(flat))[WorldSize] = Len(flat)
<1>1. \A i \in DOMAIN flat : Target(flat, i) < WorldSize
  BY TargetIs, RanksAre
<1>2. GoingBelow(flat, WorldSize) = DOMAIN flat
  BY <1>1 DEF GoingBelow
<1> QED BY <1>2, OffsetsCount, GoingIs, RanksAre

-----------------------------------------------------------------------------
(* The order of the collectives, and what their messages carry.            *)

\* Which collective the n-th call of a rank is where every rank enters g gathers:
\* these, then the four of one exchange after the other.
AtRest(g, n) == n >= g /\ (n - g) % 4 = 0
Kind(g, n) ==
  IF n <= g THEN "gather"
  ELSE IF (n - g) % 4 = 1 THEN "counts"
  ELSE IF (n - g) % 4 = 2 THEN "tokens"
  ELSE IF (n - g) % 4 = 3 THEN "experts" ELSE "combine"

\* How far a rank is: in an exchange, without a group, or between its exchanges;
\* or out of the last one for good, for an expert it lacks.
PhaseAt(g, r) ==
  /\ pc[r] \in Exchanging => Kind(g, calls[r]) = pc[r]
  /\ comm[r] # "up" \/ fault.group => calls[r] <= g
  /\ pc[r] \in {"idle", "execute"} /\ comm[r] = "up" /\ ~fault.group =>
       AtRest(g, calls[r]) \/ (pass[r] > Len(load[r]) /\ Kind(g, calls[r]) = "experts")
Phases(g) == \A r \in Rank : Nth[r][Layers] = g /\ PhaseAt(g, r)

\* What s announces to r.
Announced(s, r) == SendCounts(job[s].flat)[r]

\* What the message of the n-th call of s carries to r.
Carries(g, s, r, n, m) ==
  /\ m[1] = Kind(g, n)
  /\ Kind(g, n) = "counts" => m[2] = Announced(s, r)
  /\ Kind(g, n) = "tokens" => IsRows(m[2], Announced(s, r))
  /\ Kind(g, n) = "experts" => IsRows(m[2], job[r].recv[s])
  /\ Kind(g, n) = "combine" /\ pc[r] \in Exchanging => IsRows(m[2], Announced(r, s))
MailRight(g) ==
  \A s, r \in Rank : \A j \in 1 .. Pending(s, r) :
    Carries(g, s, r, Finished[r] + j, mail[s][r][j])

\* The exchange under way: what r received is what was announced to it.
JobAt(r) ==
  /\ DOMAIN job[r] = {"flat", "recv", "tokens"}
  /\ job[r].flat \in Seq(Expert) /\ job[r].recv \in Vectors
  /\ pc[r] \in {"tokens", "experts"} =>
       \A s \in Rank : pc[s] \in Exchanging => job[r].recv[s] = Announced(s, r)
  /\ pc[r] = "experts" => IsRows(job[r].tokens, Offsets(job[r].recv)[WorldSize])
Jobs == job = [r \in Rank |-> job[r]] /\ \A r \in Rank : JobAt(r)

LEMMA Kinds ==
  ASSUME NEW g \in Nat, NEW n \in Int
  PROVE  /\ n <= g <=> Kind(g, n) = "gather"
         /\ Kind(g, n) \in Collective
         /\ AtRest(g, n) => n >= g /\ Kind(g, n + 1) = "counts" /\ Kind(g, n) \in {"gather", "combine"}
         /\ Kind(g, n) = "counts" => Kind(g, n + 1) = "tokens"
         /\ Kind(g, n) = "tokens" => Kind(g, n + 1) = "experts"
         /\ Kind(g, n) = "experts" => Kind(g, n + 1) = "combine"
         /\ Kind(g, n) = "combine" => AtRest(g, n)
         /\ AtRest(g, g)
<1> DEFINE k == n - g
<1>1. k \in Int /\ n = k + g /\ (n + 1) - g = k + 1
      /\ (n <= g <=> k <= 0) /\ (n + 1 <= g <=> k < 0) /\ (n >= g <=> k >= 0)
  OBVIOUS
<1>2. k % 4 \in 0 .. 3 /\ (k + 1) % 4 = (IF k % 4 = 3 THEN 0 ELSE (k % 4) + 1)
  BY <1>1
<1>3. g - g = 0 /\ 0 % 4 = 0 /\ g >= g
  OBVIOUS
<1> HIDE DEF k
<1>4. AtRest(g, g)
  BY <1>3 DEF AtRest
<1>5. AtRest(g, n) <=> k >= 0 /\ k % 4 = 0
  BY <1>1 DEF AtRest, k
<1> DEFINE x == k % 4
           Name(y) == IF y = 1 THEN "counts" ELSE IF y = 2 THEN "tokens"
                      ELSE IF y = 3 THEN "experts" ELSE "combine"
<1>6. Kind(g, n) = IF k <= 0 THEN "gather" ELSE Name(x)
  BY <1>1 DEF Kind, k
<1>7. Kind(g, n + 1) = IF k < 0 THEN "gather" ELSE Name(IF x = 3 THEN 0 ELSE x + 1)
  BY <1>1, <1>2 DEF Kind
<1>8. x \in 0 .. 3
  BY <1>2
<1>9. AtRest(g, n) <=> k >= 0 /\ x = 0
  BY <1>5
<1> HIDE DEF x
<1>10. x \in {0, 1, 2, 3}
  BY <1>8
<1> QED BY <1>1, <1>4, <1>6, <1>7, <1>9, <1>10 DEF Collective

\* No rank is more than one collective ahead of another.
LEMMA Near ==
  ASSUME CollInv, NEW s \in Rank, NEW d \in Rank
  PROVE  /\ calls[s] \in Nat /\ calls[d] \in Nat /\ Finished[s] \in Int /\ Finished[d] \in Int
         /\ Finished[s] \in {calls[s], calls[s] - 1} /\ Finished[d] \in {calls[d], calls[d] - 1}
         /\ Finished[d] <= calls[s] /\ Finished[s] <= calls[d]
         /\ Pending(s, d) \in Nat /\ Pending(s, d) = calls[s] - Finished[d]
<1>1. /\ Pending(s, d) \in Nat /\ Pending(s, d) = calls[s] - Finished[d]
      /\ Pending(d, s) \in Nat /\ Pending(d, s) = calls[d] - Finished[s]
      /\ calls[s] \in Nat /\ calls[d] \in Nat
  BY DEF CollInv
<1>2. /\ Finished[s] \in Int /\ Finished[d] \in Int
      /\ Finished[s] \in {calls[s], calls[s] - 1} /\ Finished[d] \in {calls[d], calls[d] - 1}
  BY FinishedIs
<1> QED BY <1>1, <1>2

-----------------------------------------------------------------------------
(* A step keeps the messages it does not take, under their numbers.        *)

\* The j-th message in the mail after a step was there before it.
OldMail(s, d, j) ==
  \E i \in 1 .. Pending(s, d) : /\ mail'[s][d][j] = mail[s][d][i]
                               /\ Finished'[d] + j = Finished[d] + i
NewMail(s, d, j, r, kind, parts) ==
  /\ s = r /\ Finished'[d] + j = calls[r] + 1
  /\ mail'[s][d][j] = <<kind, parts[d]>>

Carried == \A s, d \in Rank : \A j \in 1 .. Pending(s, d)' : OldMail(s, d, j)
CarriedWith(r, kind, parts) ==
  \A s, d \in Rank : \A j \in 1 .. Pending(s, d)' :
    OldMail(s, d, j) \/ NewMail(s, d, j, r, kind, parts)

LEMMA SameMail ==
  ASSUME CollInv, NEW s \in Rank, NEW d \in Rank,
         Finished'[d] = Finished[d], mail'[s][d] = mail[s][d]
  PROVE  \A j \in 1 .. Pending(s, d)' : OldMail(s, d, j)
<1> SUFFICES ASSUME NEW j \in 1 .. Pending(s, d)' PROVE OldMail(s, d, j)
  OBVIOUS
<1>1. j \in 1 .. Pending(s, d)
  BY DEF Pending
<1> QED BY <1>1 DEF OldMail

LEMMA TailMail ==
  ASSUME CollInv, NEW s \in Rank, NEW d \in Rank, mail[s][d] # <<>>,
         Finished'[d] = Finished[d] + 1, mail'[s][d] = Tail(mail[s][d])
  PROVE  \A j \in 1 .. Pending(s, d)' : OldMail(s, d, j)
<1>1. PICK M : mail \in [Rank -> [Rank -> Seq(M)]]
  BY DEF CollInv
<1>2. mail[s][d] \in Seq(M) /\ Pending(s, d) \in Nat /\ Finished[d] \in Int
  BY <1>1, LabelNext DEF Pending
<1> DEFINE t == mail[s][d]
<1>3. Len(Tail(t)) = Len(t) - 1 /\ \A j \in 1 .. Len(t) - 1 : Tail(t)[j] = t[j + 1]
  BY <1>2
<1> SUFFICES ASSUME NEW j \in 1 .. Pending(s, d)' PROVE OldMail(s, d, j)
  OBVIOUS
<1>4. j \in 1 .. Len(t) - 1 /\ j + 1 \in 1 .. Pending(s, d)
  BY <1>2, <1>3 DEF Pending
<1>5. mail'[s][d][j] = mail[s][d][j + 1]
  BY <1>3, <1>4
<1>6. Finished'[d] + j = Finished[d] + (j + 1)
  <2>1. PICK n \in Int : n = Finished[d]
    BY <1>2
  <2>2. j \in Int /\ Finished'[d] = n + 1
    BY <1>4, <2>1
  <2> QED BY ONLY <2>1, <2>2
<1> QED BY <1>4, <1>5, <1>6 DEF OldMail

LEMMA AppendMail ==
  ASSUME CollInv, NEW s \in Rank, NEW d \in Rank, NEW kind, NEW parts,
         Finished'[d] = Finished[d], mail'[s][d] = Append(mail[s][d], <<kind, parts[d]>>)
  PROVE  \A j \in 1 .. Pending(s, d)' : OldMail(s, d, j) \/ NewMail(s, d, j, s, kind, parts)
<1>1. PICK M : mail \in [Rank -> [Rank -> Seq(M)]]
  BY DEF CollInv
<1>2. mail[s][d] \in Seq(M) /\ Pending(s, d) \in Nat
  BY <1>1 DEF Pending
<1> DEFINE t == mail[s][d]
           m == <<kind, parts[d]>>
<1>3. /\ Len(Append(t, m)) = Len(t) + 1
      /\ \A j \in 1 .. Len(t) : Append(t, m)[j] = t[j]
      /\ Append(t, m)[Len(t) + 1] = m
  <2>1. t \in Seq(M) /\ <<kind, parts[d]>> = m
    BY <1>2
  <2>2. PICK u, x : u = t /\ x = m
    OBVIOUS
  <2>3. u \in Seq(M)
    BY <2>1, <2>2
  <2>4. /\ Len(Append(u, x)) = Len(u) + 1
        /\ \A j \in 1 .. Len(u) : Append(u, x)[j] = u[j]
        /\ Append(u, x)[Len(u) + 1] = x
    BY ONLY <2>3
  <2> QED BY <2>2, <2>4
<1> HIDE DEF m
<1> SUFFICES ASSUME NEW j \in 1 .. Pending(s, d)'
             PROVE  OldMail(s, d, j) \/ NewMail(s, d, j, s, kind, parts)
  OBVIOUS
<1>4. Pending(s, d)' = Pending(s, d) + 1
  BY <1>3 DEF Pending, m
<1>5. CASE j = Pending(s, d) + 1
  <2>1. mail'[s][d][j] = m
    BY <1>3, <1>5 DEF Pending, m
  <2>2. Finished'[d] + j = calls[s] + 1
    BY <1>5, LabelNext
  <2> QED BY <2>1, <2>2 DEF NewMail, m
<1>6. CASE j # Pending(s, d) + 1
  <2>1. j \in 1 .. Pending(s, d)
    BY <1>2, <1>4, <1>6
  <2>2. mail'[s][d][j] = mail[s][d][j]
    BY <1>3, <2>1 DEF Pending, m
  <2> QED BY <2>1, <2>2 DEF OldMail
<1> QED BY <1>5, <1>6

LEMMA EnterMail ==
  ASSUME CollInv, NEW r \in Rank, NEW kind, NEW parts, Enter(r, kind, parts),
         Finished' = Finished
  PROVE  CarriedWith(r, kind, parts)
<1>1. PICK M : mail \in [Rank -> [Rank -> Seq(M)]]
  BY DEF CollInv
<1>2. mail' = [mail EXCEPT ![r] = [d \in Rank |-> Append(mail[r][d], <<kind, parts[d]>>)]]
  BY DEF Enter
<1>3. ASSUME NEW s \in Rank, NEW d \in Rank
      PROVE  \A j \in 1 .. Pending(s, d)' :
               OldMail(s, d, j) \/ NewMail(s, d, j, r, kind, parts)
  <2>1. CASE s = r
    <3>1. mail'[r][d] = Append(mail[r][d], <<kind, parts[d]>>)
      BY <1>1, <1>2
    <3> QED BY <2>1, <3>1, AppendMail
  <2>2. CASE s # r
    <3>1. mail'[s][d] = mail[s][d]
      BY <1>1, <1>2, <2>2
    <3> QED BY <3>1, SameMail
  <2> QED BY <2>1, <2>2
<1> QED BY <1>3 DEF CarriedWith

LEMMA LeaveMail ==
  ASSUME CollInv, NEW r \in Rank, Leave(r),
         \A d \in Rank : Finished'[d] = IF d = r THEN Finished[d] + 1 ELSE Finished[d]
  PROVE  Carried
<1>1. PICK M : mail \in [Rank -> [Rank -> Seq(M)]]
  BY DEF CollInv
<1>2. mail' = [s \in Rank |-> [mail[s] EXCEPT ![r] = Tail(mail[s][r])]] /\ Arrived(r)
  BY DEF Leave, Matched
<1>3. ASSUME NEW s \in Rank, NEW d \in Rank
      PROVE  \A j \in 1 .. Pending(s, d)' : OldMail(s, d, j)
  <2>1. CASE d = r
    <3>1. mail'[s][r] = Tail(mail[s][r]) /\ mail[s][r] # <<>>
      BY <1>1, <1>2 DEF Arrived
    <3> QED BY <2>1, <3>1, TailMail
  <2>2. CASE d # r
    <3>1. mail'[s][d] = mail[s][d]
      BY <1>1, <1>2, <2>2
    <3> QED BY <2>2, <3>1, SameMail
  <2> QED BY <2>1, <2>2
<1> QED BY <1>3 DEF Carried

LEMMA LeaveAndEnterMail ==
  ASSUME CollInv, NEW r \in Rank, NEW kind, NEW parts, LeaveAndEnter(r, kind, parts),
         \A d \in Rank : Finished'[d] = IF d = r THEN Finished[d] + 1 ELSE Finished[d]
  PROVE  CarriedWith(r, kind, parts)
<1>1. PICK M : mail \in [Rank -> [Rank -> Seq(M)]]
  BY DEF CollInv
<1>2. mail' = [s \in Rank |-> [d \in Rank |->
       IF s = r THEN Append(IF d = r THEN Tail(mail[s][d]) ELSE mail[s][d], <<kind, parts[d]>>)
       ELSE IF d = r THEN Tail(mail[s][d]) ELSE mail[s][d]]]
      /\ Arrived(r)
  BY DEF LeaveAndEnter, Matched
<1>3. ASSUME NEW s \in Rank, NEW d \in Rank
      PROVE  \A j \in 1 .. Pending(s, d)' :
               OldMail(s, d, j) \/ NewMail(s, d, j, r, kind, parts)
  <2>1. CASE d = r /\ s # r
    <3>1. mail'[s][d] = Tail(mail[s][d]) /\ mail[s][d] # <<>>
      BY <1>2, <2>1 DEF Arrived
    <3> QED BY <2>1, <3>1, TailMail
  <2>2. CASE d # r /\ s = r
    <3>1. mail'[r][d] = Append(mail[r][d], <<kind, parts[d]>>)
      BY <1>2, <2>2
    <3> QED BY <2>2, <3>1, AppendMail
  <2>3. CASE d # r /\ s # r
    <3>1. mail'[s][d] = mail[s][d]
      BY <1>2, <2>3
    <3> QED BY <2>3, <3>1, SameMail
  <2>4. CASE d = r /\ s = r
    <3> DEFINE t == mail[r][r]
               m == <<kind, parts[r]>>
    <3>1. t \in Seq(M) /\ t # <<>> /\ mail'[s][d] = Append(Tail(t), m)
      BY <1>1, <1>2, <2>4 DEF Arrived
    <3> HIDE DEF t, m
    <3>2. /\ Len(t) \in Nat /\ Len(t) >= 1
          /\ Len(Append(Tail(t), m)) = Len(t)
          /\ \A j \in 1 .. Len(t) - 1 : Append(Tail(t), m)[j] = t[j + 1]
          /\ Append(Tail(t), m)[Len(t)] = m
      BY <3>1
    <3>3. Pending(r, r) = Len(t) /\ Pending(s, d)' = Len(t)
      BY <3>1, <3>2 DEF Pending, t
    <3>4. Finished[r] + Pending(r, r) = calls[r] /\ Finished[r] \in Int
      BY Near
    <3> SUFFICES ASSUME NEW j \in 1 .. Pending(s, d)'
                 PROVE  OldMail(s, d, j) \/ NewMail(s, d, j, r, kind, parts)
      OBVIOUS
    <3>5. CASE j = Len(t)
      <4>1. mail'[s][d][j] = m
        BY <3>1, <3>2, <3>5
      <4>2. Finished'[d] + j = calls[r] + 1
        BY <2>4, <3>2, <3>3, <3>4, <3>5
      <4> QED BY <2>4, <4>1, <4>2 DEF NewMail, m
    <3>6. CASE j # Len(t)
      <4>1. j \in 1 .. Len(t) - 1 /\ j + 1 \in 1 .. Len(t)
        BY <3>2, <3>3, <3>6
      <4>2. mail'[s][d][j] = mail[s][d][j + 1]
        BY <2>4, <3>1, <3>2, <4>1 DEF t
      <4>3. Finished'[d] + j = Finished[d] + (j + 1)
        BY <2>4, <3>4, <4>1
      <4> QED BY <2>4, <3>3, <4>1, <4>2, <4>3 DEF OldMail
    <3> QED BY <3>5, <3>6
  <2> QED BY <2>1, <2>2, <2>3, <2>4
<1> QED BY <1>3 DEF CarriedWith

LEMMA QuietMail ==
  ASSUME CollInv, Finished' = Finished, UNCHANGED mail
  PROVE  Carried
BY SameMail DEF Carried

SplitsInv(g) == TablesInv /\ Phases(g) /\ Jobs /\ MailRight(g)

\* The steps from one collective of an exchange to the next.
LEMMA SendingIs ==
  ASSUME NEW r \in Rank, SendTokens(r) \/ SendExperts(r) \/ SendBack(r)
  PROVE  /\ calls' = [calls EXCEPT ![r] = calls[r] + 1]
         /\ layer' = layer /\ pass' = pass /\ comm' = comm
         /\ \/ pc[r] = "counts" /\ pc' = [pc EXCEPT ![r] = "tokens"]
            \/ pc[r] = "tokens" /\ pc' = [pc EXCEPT ![r] = "experts"]
            \/ pc[r] = "experts" /\ pc' = [pc EXCEPT ![r] = "combine"]
         /\ \/ job' = job
            \/ \E x : job' = [job EXCEPT ![r].recv = x]
            \/ \E x : job' = [job EXCEPT ![r].tokens = x]
<1>1. \A kind, p : LeaveAndEnter(r, kind, p) => calls' = [calls EXCEPT ![r] = calls[r] + 1]
  BY DEF LeaveAndEnter
<1>2. CASE SendTokens(r)
  BY <1>1, <1>2 DEF SendTokens
<1>3. CASE SendExperts(r)
  BY <1>1, <1>3 DEF SendExperts
<1>4. CASE SendBack(r)
  BY <1>1, <1>4 DEF SendBack, forwardVars
<1> QED BY <1>2, <1>3, <1>4

\* Only the rank that moves changes where it is in an exchange.
LEMMA OthersKeep ==
  ASSUME TablesInv, Jobs, NEW r \in Rank, RankStep(r), NEW q \in Rank, q # r
  PROVE  /\ pc'[q] = pc[q] /\ calls'[q] = calls[q] /\ comm'[q] = comm[q]
         /\ pass'[q] = pass[q] /\ layer'[q] = layer[q] /\ job'[q] = job[q]
<1> USE DEF config, bootVars, forwardVars, Enter, Leave, LeaveAndEnter
<1>1. /\ pc = [s \in Rank |-> pc[s]] /\ pass = [s \in Rank |-> pass[s]]
      /\ layer = [s \in Rank |-> layer[s]]
      /\ comm = [s \in Rank |-> comm[s]] /\ calls = [s \in Rank |-> calls[s]]
      /\ job = [s \in Rank |-> job[s]]
  <2>1. pc = [s \in Rank |-> pc[s]] /\ comm = [s \in Rank |-> comm[s]]
        /\ calls = [s \in Rank |-> calls[s]]
    BY DEF TablesInv, CollInv
  <2>2. pass = [s \in Rank |-> pass[s]] /\ layer = [s \in Rank |-> layer[s]]
    BY DEF TablesInv, PlaceTypes
  <2> QED BY <2>1, <2>2 DEF Jobs
<1>2. CASE Boot(r)
  BY <1>1, <1>2 DEF Boot, InitGroup, BeginGather, EndGather, LoseGather, CutGather, Attach
<1>3. CASE Exchange(r)
  <2>1. CASE RefuseShape(r) \/ RefuseExchange(r) \/ MissExpert(r) \/ EndExchange(r)
    BY <1>1, <2>1 DEF RefuseShape, RefuseExchange, MissExpert, EndExchange, Abandon, NextLayer
  <2>2. CASE BeginExchange(r)
    BY <1>1, <2>2 DEF BeginExchange
  <2>3. CASE SendTokens(r) \/ SendExperts(r) \/ SendBack(r)
    BY <1>1, <2>3, SendingIs
  <2> QED BY <1>3, <2>1, <2>2, <2>3 DEF Exchange
<1>4. CASE RaiseInPipeline(r) \/ EndPipeline(r)
  BY <1>1, <1>4 DEF RaiseInPipeline, EndPipeline, Abandon, NextLayer
<1>5. CASE BeginPipeline(r)
  <2>1. /\ pc' = [pc EXCEPT ![r] = "execute"] /\ UNCHANGED <<config, layer, pass, comm, calls>>
        /\ \E p : job' = [job EXCEPT ![r].flat = p]
    BY <1>5 DEF BeginPipeline
  <2> QED BY <1>1, <2>1
<1> QED BY <1>2, <1>3, <1>4, <1>5 DEF RankStep, Pipeline

LEMMA SameConfig ==
  ASSUME NEW r, RankStep(r)  PROVE UNCHANGED <<policy, held, load, fault>>
<1> USE DEF config
<1>1. Boot(r) => UNCHANGED config
  BY DEF Boot, InitGroup, BeginGather, EndGather, LoseGather, CutGather, Attach
<1>2. Exchange(r) => UNCHANGED config
  BY DEF Exchange, RefuseShape, RefuseExchange, BeginExchange, SendTokens, SendExperts,
             SendBack, MissExpert, EndExchange
<1>3. Pipeline(r) => UNCHANGED config
  BY DEF Pipeline, BeginPipeline, RaiseInPipeline, EndPipeline
<1> QED BY <1>1, <1>2, <1>3 DEF RankStep

-----------------------------------------------------------------------------
(* Where the ranks are.                                                    *)

LEMMA BootingIs ==
  ASSUME NEW g \in Nat, TablesInv, Phases(g), NEW r \in Rank, pc[r] \in Booting
  PROVE  calls[r] <= g
<1>1. CountedAt(r) /\ PhaseAt(g, r) /\ layer[r] \in Layer /\ calls[r] \in Nat
      /\ comm[r] \in {"up", "broken"}
  BY DEF TablesInv, Counted, Phases, PlaceTypes, CollInv
<1>2. /\ Nth[r][layer[r]] \in Nat /\ Nth[r][layer[r]] <= g
      /\ Nth[r][layer[r] - 1] \in Nat /\ Nth[r][layer[r] - 1] <= g
  BY <1>1, NthBelow DEF Phases
<1>3. pc[r] = "gather" => comm[r] = "up"
  BY DEF TablesInv, CollInv, Waiting, Collective
<1> QED BY <1>1, <1>2, <1>3 DEF CountedAt, PhaseAt, Booting

LEMMA BootPhases ==
  ASSUME NEW g \in Nat, TablesInv, TablesInv', Phases(g), Jobs, NEW r \in Rank, Boot(r)
  PROVE  PhaseAt(g, r)'
<1>1. /\ CountedAt(r) /\ PhaseAt(g, r) /\ layer[r] \in Layer /\ calls[r] \in Nat
      /\ comm[r] \in {"up", "broken"}
  BY DEF TablesInv, Counted, Phases, PlaceTypes, CollInv
<1>2. /\ layer[r] \in Nat /\ layer[r] <= Layers /\ layer[r] >= 1 /\ Layers \in Nat
      /\ AtRest(g, g) /\ Nth[r][Layers] = g
  <2>1. /\ layer[r] \in Nat /\ layer[r] <= Layers /\ layer[r] >= 1 /\ Layers \in Nat
    BY <1>1, LayerIs, ParallelAssumption
  <2>2. g \in Int
    OBVIOUS
  <2> QED BY <2>1, <2>2, Kinds DEF Phases
<1>3. /\ pc = [s \in Rank |-> pc[s]] /\ comm = [s \in Rank |-> comm[s]]
      /\ calls = [s \in Rank |-> calls[s]]
  BY DEF TablesInv, CollInv
<1>4. fault' = fault /\ load' = load
  BY SameConfig DEF RankStep
<1> USE DEF Booting, Exchanging
<1>5. CASE InitGroup(r)
  <2>1. /\ pc[r] = "init" /\ calls' = calls /\ comm' = comm
        /\ pc'[r] = IF fault.group THEN "idle" ELSE "boot"
    BY <1>3, <1>5 DEF InitGroup
  <2>2. calls[r] = 0
    BY <1>1, <2>1 DEF CountedAt
  <2> QED BY <1>1, <1>2, <1>4, <2>1, <2>2 DEF PhaseAt
<1>6. CASE BeginGather(r)
  <2>1. pc[r] = "boot" /\ pc[r] \in Booting
    BY <1>6 DEF BeginGather
  <2>2. calls[r] <= g
    BY <2>1, BootingIs
  <2>3. CASE /\ comm[r] = "up" /\ <<r, layer[r]>> \notin fault.refused
             /\ pc'[r] = "gather" /\ comm' = comm /\ calls'[r] = calls[r] + 1
    <3>1. calls[r] = Nth[r][layer[r] - 1]
      BY <1>1, <2>1, <2>3 DEF CountedAt
    <3>2. Nth[r][layer[r]] = Nth[r][layer[r] - 1] + 1 /\ Nth[r][layer[r]] <= g
      BY <1>1, <1>2, <2>3, NthIs, NthBelow
    <3>3. calls'[r] <= g
      BY <2>3, <3>1, <3>2
    <3> QED BY <1>4, <2>3, <3>3 DEF PhaseAt
  <2>4. CASE pc'[r] = "attach" /\ calls' = calls
    BY <1>4, <2>2, <2>4 DEF PhaseAt
  <2> QED BY <1>3, <1>6, <2>3, <2>4 DEF BeginGather, Enter
<1>7. CASE EndGather(r) \/ LoseGather(r)
  <2>1. pc[r] = "gather" /\ pc[r] \in Booting /\ pc'[r] = "attach" /\ calls' = calls
    BY <1>3, <1>7 DEF EndGather, LoseGather, Leave
  <2>2. calls[r] <= g
    BY <2>1, BootingIs
  <2> QED BY <1>4, <2>1, <2>2 DEF PhaseAt
<1>8. CASE CutGather(r)
  <2>1. pc[r] = "gather" /\ pc[r] \in Booting /\ pc'[r] = "attach" /\ calls' = calls
    BY <1>3, <1>8 DEF CutGather
  <2>2. calls[r] <= g
    BY <2>1, BootingIs
  <2> QED BY <1>4, <2>1, <2>2 DEF PhaseAt
<1>9. CASE Attach(r)
  <2>1. /\ pc[r] = "attach" /\ pc[r] \in Booting /\ calls' = calls /\ comm' = comm
        /\ pc'[r] = IF layer[r] < Layers THEN "boot" ELSE "idle"
    BY <1>3, <1>9 DEF Attach
  <2>2. calls[r] <= g
    BY <2>1, BootingIs
  <2>3. comm[r] = "up" /\ pc'[r] = "idle" => AtRest(g, calls[r])
    <3> SUFFICES ASSUME comm[r] = "up", pc'[r] = "idle" PROVE AtRest(g, calls[r])
      OBVIOUS
    <3>1. calls[r] = Nth[r][layer[r]] /\ layer[r] = Layers
      BY <1>1, <1>2, <2>1 DEF CountedAt
    <3> QED BY <1>2, <3>1
  <2> QED BY <1>4, <2>1, <2>2, <2>3 DEF PhaseAt
<1> QED BY <1>5, <1>6, <1>7, <1>8, <1>9 DEF Boot

\* A rank between two exchanges, or without a group.
Resting(g, r) ==
  /\ pc[r] \notin Exchanging
  /\ calls[r] <= g \/ (Finished[r] = calls[r] /\ AtRest(g, calls[r]))

LEMMA ServingRests ==
  ASSUME NEW g \in Nat, TablesInv, Phases(g), NEW r \in Rank, pc[r] \in {"idle", "execute"},
         pass[r] <= Len(load[r])
  PROVE  Resting(g, r) /\ (comm[r] = "up" /\ ~fault.group => AtRest(g, calls[r]))
<1>1. PhaseAt(g, r) /\ pass[r] \in Nat /\ Len(load[r]) \in Nat
  BY HeldTypes DEF Phases, TablesInv, PlaceTypes
<1>2. comm[r] = "up" /\ ~fault.group => AtRest(g, calls[r])
  BY <1>1 DEF PhaseAt
<1>3. comm[r] # "up" \/ fault.group => calls[r] <= g
  BY <1>1 DEF PhaseAt
<1>4. comm[r] = "up" => Finished[r] = calls[r]
  BY FinishedIs DEF TablesInv, Waiting, Collective
<1> QED BY <1>2, <1>3, <1>4 DEF Resting, Exchanging

LEMMA PassPhases ==
  ASSUME NEW g \in Nat, TablesInv, TablesInv', Phases(g), Jobs, NEW r \in Rank,
         Exchange(r) \/ Pipeline(r)
  PROVE  PhaseAt(g, r)'
<1>1. /\ PhaseAt(g, r) /\ calls[r] \in Nat /\ pass[r] \in Nat /\ Len(load[r]) \in Nat
  BY HeldTypes DEF TablesInv, Phases, PlaceTypes, CollInv
<1>2. /\ pc = [s \in Rank |-> pc[s]] /\ calls = [s \in Rank |-> calls[s]]
      /\ pass = [s \in Rank |-> pass[s]]
  BY DEF TablesInv, CollInv, PlaceTypes
<1>3. fault' = fault /\ load' = load
  BY SameConfig DEF RankStep
<1>4. comm' = comm
  BY DEF Exchange, Pipeline, RefuseShape, RefuseExchange, BeginExchange, SendTokens, SendExperts,
         SendBack, MissExpert, EndExchange, BeginPipeline, RaiseInPipeline, EndPipeline
<1> USE DEF Exchanging
<1>5. ASSUME calls' = calls, pc[r] \in {"idle", "execute"}, pc'[r] \in {"idle", "execute"},
             pass[r] <= Len(load[r])
      PROVE  PhaseAt(g, r)'
  BY <1>1, <1>3, <1>4, <1>5, ServingRests DEF PhaseAt
<1>6. CASE RefuseShape(r) \/ RefuseExchange(r)
  <2>1. /\ calls' = calls /\ pc[r] = "idle" /\ pc'[r] = "idle" /\ pass[r] <= Len(load[r])
    BY <1>2, <1>6 DEF RefuseShape, RefuseExchange, Serving, Abandon
  <2> QED BY <1>5, <2>1
<1>7. CASE BeginPipeline(r)
  <2>1. /\ calls' = calls /\ pc[r] = "idle" /\ pc'[r] = "execute" /\ pass[r] <= Len(load[r])
    BY <1>2, <1>7 DEF BeginPipeline, Serving
  <2> QED BY <1>5, <2>1
<1>8. CASE RaiseInPipeline(r) \/ EndPipeline(r)
  <2>1. calls' = calls /\ pc[r] = "execute" /\ pc'[r] = "idle"
    BY <1>2, <1>8 DEF RaiseInPipeline, EndPipeline, Abandon, NextLayer
  <2>2. pass[r] <= Len(load[r])
    BY <2>1 DEF TablesInv, PlaceTypes, Busy
  <2> QED BY <1>5, <2>1, <2>2
<1>9. CASE BeginExchange(r)
  <2>1. /\ pc[r] = "idle" /\ comm[r] = "up" /\ ~fault.group /\ pass[r] <= Len(load[r])
        /\ pc'[r] = "counts" /\ calls'[r] = calls[r] + 1
    BY <1>2, <1>9 DEF BeginExchange, Serving, TakesExchange, Enter
  <2>2. Kind(g, calls'[r]) = "counts"
    <3>1. AtRest(g, calls[r]) /\ calls[r] \in Int
      BY <1>1, <2>1, ServingRests
    <3> QED BY <2>1, <3>1, Kinds
  <2> QED BY <1>3, <1>4, <2>1, <2>2 DEF PhaseAt
<1>10. CASE SendTokens(r) \/ SendExperts(r) \/ SendBack(r)
  <2>1. /\ calls'[r] = calls[r] + 1 /\ pc[r] \in Exchanging
        /\ \/ pc[r] = "counts" /\ pc'[r] = "tokens"
           \/ pc[r] = "tokens" /\ pc'[r] = "experts"
           \/ pc[r] = "experts" /\ pc'[r] = "combine"
    BY <1>2, <1>10, SendingIs
  <2>2. Kind(g, calls[r]) = pc[r]
    BY <1>1, <2>1 DEF PhaseAt
  <2>3. Kind(g, calls'[r]) = pc'[r]
    <3>1. calls[r] \in Int
      BY <1>1
    <3> QED BY <2>1, <2>2, <3>1, Kinds
  <2>4. comm[r] = "up" /\ ~fault.group
    BY <2>1, ExchangingIs DEF TablesInv, BootInv
  <2> QED BY <1>3, <1>4, <2>1, <2>3, <2>4 DEF PhaseAt
<1>11. CASE MissExpert(r)
  <2>1. /\ calls' = calls /\ pc[r] = "experts" /\ pc'[r] = "idle"
        /\ pass'[r] = Len(load[r]) + 1
    BY <1>2, <1>11 DEF MissExpert, Leave
  <2>2. Kind(g, calls[r]) = "experts" /\ comm[r] = "up" /\ ~fault.group
    BY <1>1, <2>1, ExchangingIs DEF PhaseAt, TablesInv, BootInv
  <2>3. pass'[r] > Len(load[r])
    BY <1>1, <2>1
  <2> QED BY <1>3, <1>4, <2>1, <2>2, <2>3 DEF PhaseAt
<1>12. CASE EndExchange(r)
  <2>1. calls' = calls /\ pc[r] = "combine" /\ pc'[r] = "idle"
    BY <1>2, <1>12 DEF EndExchange, Leave, NextLayer
  <2>2. Kind(g, calls[r]) = "combine" /\ comm[r] = "up" /\ ~fault.group
    BY <1>1, <2>1, ExchangingIs DEF PhaseAt, TablesInv, BootInv
  <2>3. AtRest(g, calls[r])
    <3>1. calls[r] \in Int
      BY <1>1
    <3> QED BY <2>2, <3>1, Kinds
  <2> QED BY <1>3, <1>4, <2>1, <2>2, <2>3 DEF PhaseAt
<1> QED BY <1>6, <1>7, <1>8, <1>9, <1>10, <1>11, <1>12 DEF Exchange, Pipeline

LEMMA StepPhases ==
  ASSUME NEW g \in Nat, TablesInv, TablesInv', Phases(g), Jobs, NEW r \in Rank, RankStep(r)
  PROVE  Phases(g)'
<1>1. PhaseAt(g, r)'
  BY BootPhases, PassPhases DEF RankStep
<1>2. ASSUME NEW q \in Rank, q # r PROVE PhaseAt(g, q)'
  <2>1. PhaseAt(g, q)
    BY DEF Phases
  <2>2. pc'[q] = pc[q] /\ calls'[q] = calls[q] /\ comm'[q] = comm[q] /\ pass'[q] = pass[q]
    BY <1>2, OthersKeep
  <2> QED BY <2>1, <2>2, SameConfig DEF PhaseAt
<1>3. Nth' = Nth
  BY SameConfig, ConstantIs DEF Constant
<1> QED BY <1>1, <1>2, <1>3 DEF Phases

-----------------------------------------------------------------------------
(* What a rank finds in its mail, and where its peers are then.            *)

LEMMA ExchangingPhase ==
  ASSUME NEW g \in Nat, TablesInv, Phases(g), NEW r \in Rank, pc[r] \in Exchanging
  PROVE  /\ Kind(g, calls[r]) = pc[r] /\ Finished[r] = calls[r] - 1 /\ calls[r] \in Nat
         /\ calls[r] > g /\ comm[r] = "up" /\ ~fault.group
<1>1. Kind(g, calls[r]) = pc[r]
  BY DEF Phases, PhaseAt
<1>2. Finished[r] = calls[r] - 1 /\ calls[r] \in Nat /\ comm[r] = "up" /\ ~fault.group
  BY ExchangingIs DEF TablesInv, BootInv
<1>3. calls[r] > g
  <2>1. Kind(g, calls[r]) # "gather" /\ calls[r] \in Int
    BY <1>1, <1>2 DEF Exchanging
  <2>2. ~(calls[r] <= g)
    BY <2>1, Kinds
  <2> QED BY <1>2, <2>2
<1> QED BY <1>1, <1>2, <1>3

LEMMA OutsideIs ==
  ASSUME NEW g \in Nat, TablesInv, Phases(g), NEW r \in Rank, pc[r] \notin Exchanging
  PROVE  \/ calls[r] <= g
         \/ /\ Finished[r] = calls[r]
            /\ \/ AtRest(g, calls[r])
               \/ Kind(g, calls[r]) = "experts" /\ pass[r] > Len(load[r])
<1>1. PhaseAt(g, r) /\ pc[r] \in Control
  BY DEF Phases, TablesInv, CollInv
<1>2. CASE pc[r] \in Booting
  BY <1>2, BootingIs
<1>3. CASE pc[r] \notin Booting /\ comm[r] = "up" /\ ~fault.group
  <2>1. pc[r] \in {"idle", "execute"}
    BY <1>1, <1>3 DEF Control, Collective, Exchanging, Booting
  <2>2. Finished[r] = calls[r]
    BY <1>3, <2>1, FinishedIs DEF TablesInv, Waiting, Collective
  <2> QED BY <1>1, <1>3, <2>1, <2>2 DEF PhaseAt
<1>4. CASE comm[r] # "up" \/ fault.group
  BY <1>1, <1>4 DEF PhaseAt
<1> QED BY <1>2, <1>3, <1>4

\* The peers of a rank that has the first two parts of an exchange are in it.
LEMMA Together ==
  ASSUME NEW g \in Nat, TablesInv, Phases(g), NEW r \in Rank, Arrived(r), NEW s \in Rank
  PROVE  /\ pc[r] \in {"counts", "tokens"} => pc[s] \in Exchanging
         /\ pc[r] = "counts" => pc[s] \in {"counts", "tokens"}
         /\ pc[r] = "tokens" => pc[s] \in {"tokens", "experts"}
         /\ pc[r] = "experts" => pc[s] \notin Exchanging \/ pc[s] \in {"experts", "combine"}
<1>6. CASE pc[r] \notin Exchanging
  BY <1>6 DEF Exchanging
<1>7. CASE pc[r] \in Exchanging
  <2>1. /\ Kind(g, calls[r]) = pc[r] /\ Finished[r] = calls[r] - 1 /\ calls[r] \in Nat
        /\ calls[r] > g
    BY <1>7, ExchangingPhase
  <2>2. /\ Pending(s, r) >= 1 /\ Pending(s, r) = calls[s] - Finished[r]
        /\ Finished[s] <= calls[r] /\ Finished[s] \in Int /\ calls[s] \in Nat
    BY ArrivedPending, Near DEF TablesInv
  <2>3. calls[s] >= calls[r] /\ calls[s] > g
    BY <2>1, <2>2, ParallelAssumption
  <2>4. ASSUME pc[s] \in Exchanging PROVE pc[s] = pc[r] \/ pc[s] = Kind(g, calls[r] + 1)
    <3>1. Kind(g, calls[s]) = pc[s] /\ Finished[s] = calls[s] - 1
      BY <2>4, ExchangingPhase
    <3>2. calls[s] = calls[r] \/ calls[s] = calls[r] + 1
      BY <2>1, <2>2, <2>3, <3>1
    <3> QED BY <2>1, <3>1, <3>2
  <2>5. ASSUME pc[s] \notin Exchanging PROVE pc[r] \notin {"counts", "tokens"}
    <3>1. Finished[s] = calls[s] /\ (AtRest(g, calls[s]) \/ Kind(g, calls[s]) = "experts")
      BY <2>2, <2>3, <2>5, OutsideIs, ParallelAssumption
    <3>2. calls[s] = calls[r] /\ calls[r] \in Int
      BY <2>1, <2>2, <2>3, <3>1
    <3>3. Kind(g, calls[r]) \in {"gather", "combine", "experts"}
      BY <3>1, <3>2, Kinds
    <3> QED BY <2>1, <3>3
  <2>6. calls[r] \in Int
    BY <2>1
  <2>7. /\ pc[r] = "counts" => Kind(g, calls[r] + 1) = "tokens"
        /\ pc[r] = "tokens" => Kind(g, calls[r] + 1) = "experts"
        /\ pc[r] = "experts" => Kind(g, calls[r] + 1) = "combine"
    BY <2>1, <2>6, Kinds
  <2> QED BY <2>4, <2>5, <2>7
<1> QED BY <1>6, <1>7

\* The part at the head of the mail is of the collective the rank is in.
LEMMA Heads ==
  ASSUME NEW g \in Nat, TablesInv, MailRight(g), NEW r \in Rank, Finished[r] = calls[r] - 1,
         Arrived(r),
         NEW s \in Rank
  PROVE  Carries(g, s, r, calls[r], Head(mail[s][r])) /\ Part(r)[s] = Head(mail[s][r])[2]
<1>1. PICK M : mail \in [Rank -> [Rank -> Seq(M)]]
  BY DEF TablesInv, CollInv
<1>2. mail[s][r] \in Seq(M) /\ mail[s][r] # <<>>
  BY <1>1 DEF Arrived
<1>3. Head(mail[s][r]) = mail[s][r][1]
  BY <1>2
<1>4. 1 \in 1 .. Pending(s, r)
  BY ArrivedPending, Near DEF TablesInv
<1>5. calls[r] \in Nat /\ Finished[r] + 1 = calls[r]
  BY Near DEF TablesInv
<1>6. Carries(g, s, r, Finished[r] + 1, mail[s][r][1])
  BY <1>4 DEF MailRight
<1> QED BY <1>3, <1>5, <1>6 DEF Part

\* The messages of a rank that rests are of gathers and combines, those for it
\* of gathers and counts.
LEMMA RestingMail ==
  ASSUME NEW g \in Nat, TablesInv, Phases(g), NEW r \in Rank, Resting(g, r), NEW s \in Rank,
         NEW n \in Int
  PROVE  /\ Finished[s] < n /\ n <= calls[r] => Kind(g, n) \in {"gather", "combine"}
         /\ Finished[r] < n /\ n <= calls[s] => Kind(g, n) \in {"gather", "counts"}
<1>1. /\ calls[r] \in Nat /\ calls[s] \in Nat /\ Finished[r] \in Int /\ Finished[s] \in Int
      /\ Finished[s] \in {calls[s], calls[s] - 1} /\ Finished[r] \in {calls[r], calls[r] - 1}
      /\ Finished[s] <= calls[r] /\ Finished[r] <= calls[s]
  BY Near DEF TablesInv
<1>2. g \in Nat /\ g \in Int
  OBVIOUS
<1>3. AtRest(g, g) /\ (n <= g => Kind(g, n) = "gather")
  BY <1>2, Kinds
<1>4. CASE calls[r] <= g
  <2>1. n <= calls[r] => n <= g
    BY <1>1, <1>2, <1>4
  <2>2. n <= calls[s] => n <= g \/ n = g + 1
    BY <1>1, <1>2, <1>4
  <2>3. Kind(g, g + 1) = "counts"
    BY <1>2, <1>3, Kinds
  <2> QED BY <1>3, <2>1, <2>2, <2>3
<1>5. CASE Finished[r] = calls[r] /\ AtRest(g, calls[r])
  <2>1. Finished[s] < n /\ n <= calls[r] => n = calls[r]
    BY <1>1, <1>5
  <2>2. Finished[r] < n /\ n <= calls[s] => n = calls[r] + 1
    BY <1>1, <1>5
  <2>3. Kind(g, calls[r] + 1) = "counts" /\ Kind(g, calls[r]) \in {"gather", "combine"}
    <3>1. calls[r] \in Int
      BY <1>1
    <3> QED BY <1>5, <3>1, Kinds
  <2> QED BY <2>1, <2>2, <2>3
<1> QED BY <1>4, <1>5 DEF Resting

-----------------------------------------------------------------------------
(* Messages after a step.                                                  *)

\* Messages that waited before a step and still wait carry what they did.
StillRight(g, s, d) ==
  \A n \in Int : \A m :
    Finished'[d] < n /\ n <= calls[s] /\ Carries(g, s, d, n, m) => Carries(g, s, d, n, m)'

LEMMA OldCarries ==
  ASSUME NEW g \in Nat, TablesInv, TablesInv', MailRight(g), NEW s \in Rank, NEW d \in Rank,
         NEW j \in 1 .. Pending(s, d)', OldMail(s, d, j), StillRight(g, s, d)
  PROVE  Carries(g, s, d, Finished[d] + j, mail[s][d][j])'
<1>1. PICK i \in 1 .. Pending(s, d) : /\ mail'[s][d][j] = mail[s][d][i]
                                     /\ Finished'[d] + j = Finished[d] + i
  BY DEF OldMail
<1>2. Carries(g, s, d, Finished[d] + i, mail[s][d][i])
  BY DEF MailRight
<1>3. /\ Pending(s, d) \in Nat /\ Pending(s, d) = calls[s] - Finished[d]
      /\ Finished[d] \in Int /\ calls[s] \in Nat
  BY Near DEF TablesInv
<1>4. Finished'[d] \in Int
  BY FinishedIs DEF TablesInv, CollInv, Finished
<1> DEFINE n == Finished[d] + i
           m == mail[s][d][i]
<1>5. n \in Int /\ Finished'[d] < n /\ n <= calls[s]
  BY <1>1, <1>3, <1>4
<1>6. Carries(g, s, d, n, m)
  BY <1>2
<1>7. PICK k, x : k = n /\ x = m
  OBVIOUS
<1>8. Carries(g, s, d, k, x)'
  BY <1>5, <1>6, <1>7 DEF StillRight
<1>9. k = Finished'[d] + j /\ x = mail'[s][d][j]
  BY <1>1, <1>7
<1> QED BY <1>8, <1>9 DEF Carries

LEMMA CarriedRight ==
  ASSUME NEW g \in Nat, TablesInv, TablesInv', MailRight(g), Carried,
         \A s, d \in Rank : StillRight(g, s, d)
  PROVE  MailRight(g)'
<1> SUFFICES ASSUME NEW s \in Rank, NEW d \in Rank, NEW j \in 1 .. Pending(s, d)'
             PROVE  Carries(g, s, d, Finished[d] + j, mail[s][d][j])'
  BY DEF MailRight
<1> QED BY OldCarries DEF Carried

LEMMA CarriedWithRight ==
  ASSUME NEW g \in Nat, TablesInv, TablesInv', MailRight(g), NEW r \in Rank, NEW kind, NEW parts,
         CarriedWith(r, kind, parts), \A s, d \in Rank : StillRight(g, s, d),
         NEW n, n = calls[r] + 1, \A d \in Rank : Carries(g, r, d, n, <<kind, parts[d]>>)'
  PROVE  MailRight(g)'
<1> SUFFICES ASSUME NEW s \in Rank, NEW d \in Rank, NEW j \in 1 .. Pending(s, d)'
             PROVE  Carries(g, s, d, Finished[d] + j, mail[s][d][j])'
  BY DEF MailRight
<1>1. CASE OldMail(s, d, j)
  BY <1>1, OldCarries
<1>2. CASE NewMail(s, d, j, r, kind, parts)
  <2>1. s = r /\ Finished'[d] + j = n /\ mail'[s][d][j] = <<kind, parts[d]>>
    BY <1>2 DEF NewMail
  <2>2. Carries(g, s, d, n, <<kind, parts[d]>>)'
    BY <2>1
  <2> QED BY <2>1, <2>2 DEF Carries
<1> QED BY <1>1, <1>2 DEF CarriedWith

LEMMA StillRightIf ==
  ASSUME NEW g \in Nat, NEW s \in Rank, NEW d \in Rank,
         \A n \in Int : Finished'[d] < n /\ n <= calls[s] =>
           /\ Kind(g, n) \in {"counts", "tokens"} => job'[s].flat = job[s].flat
           /\ Kind(g, n) = "experts" => job'[d].recv = job[d].recv
           /\ Kind(g, n) = "combine" /\ pc'[d] \in Exchanging =>
                pc[d] \in Exchanging /\ job'[d].flat = job[d].flat
  PROVE  StillRight(g, s, d)
<1> SUFFICES ASSUME NEW n \in Int, NEW m, Finished'[d] < n, n <= calls[s], Carries(g, s, d, n, m)
             PROVE  Carries(g, s, d, n, m)'
  BY DEF StillRight
<1>1. /\ Kind(g, n) \in {"counts", "tokens"} => Announced(s, d)' = Announced(s, d)
      /\ Kind(g, n) = "combine" /\ pc'[d] \in Exchanging =>
           pc[d] \in Exchanging /\ Announced(d, s)' = Announced(d, s)
      /\ Kind(g, n) = "experts" => job'[d].recv = job[d].recv
  BY DEF Announced
<1> QED BY <1>1 DEF Carries

\* Only the rank that moves starts or ends a job.
Alone(r) == \A q \in Rank : q # r => pc'[q] = pc[q] /\ job'[q] = job[q]

LEMMA RestRight ==
  ASSUME NEW g \in Nat, TablesInv, Phases(g), NEW r \in Rank, Resting(g, r), Alone(r),
         \A q \in Rank : Finished'[q] \in Int /\ Finished'[q] >= Finished[q]
  PROVE  \A s, d \in Rank : StillRight(g, s, d)
<1> SUFFICES ASSUME NEW s \in Rank, NEW d \in Rank,
                    NEW n \in Int, Finished'[d] < n, n <= calls[s]
             PROVE  /\ Kind(g, n) \in {"counts", "tokens"} => job'[s].flat = job[s].flat
                    /\ Kind(g, n) = "experts" => job'[d].recv = job[d].recv
                    /\ Kind(g, n) = "combine" /\ pc'[d] \in Exchanging =>
                         pc[d] \in Exchanging /\ job'[d].flat = job[d].flat
  BY StillRightIf
<1>1. Finished[d] < n
  <2>1. Finished[d] \in Int
    BY Near DEF TablesInv
  <2> QED BY <2>1
<1>2. s = r => Kind(g, n) \in {"gather", "combine"}
  BY <1>1, RestingMail
<1>3. d = r => Kind(g, n) \in {"gather", "counts"}
  BY <1>1, RestingMail
<1> QED BY <1>2, <1>3 DEF Alone

LEMMA ExchangeRight ==
  ASSUME NEW g \in Nat, TablesInv, Phases(g), NEW r \in Rank, Alone(r), pc[r] \in Exchanging,
         pc'[r] \in Exchanging, job'[r].flat = job[r].flat,
         pc[r] = "counts" \/ job'[r].recv = job[r].recv,
         \A d \in Rank : Finished'[d] = IF d = r THEN Finished[d] + 1 ELSE Finished[d]
  PROVE  \A s, d \in Rank : StillRight(g, s, d)
<1> SUFFICES ASSUME NEW s \in Rank, NEW d \in Rank,
                    NEW n \in Int, Finished'[d] < n, n <= calls[s]
             PROVE  /\ Kind(g, n) \in {"counts", "tokens"} => job'[s].flat = job[s].flat
                    /\ Kind(g, n) = "experts" => job'[d].recv = job[d].recv
                    /\ Kind(g, n) = "combine" /\ pc'[d] \in Exchanging =>
                         pc[d] \in Exchanging /\ job'[d].flat = job[d].flat
  BY StillRightIf
<1>1. d = r /\ pc[r] = "counts" => Kind(g, n) = "tokens"
  <2> SUFFICES ASSUME d = r, pc[r] = "counts" PROVE Kind(g, n) = "tokens"
    OBVIOUS
  <2>1. Kind(g, calls[r]) = "counts" /\ Finished[r] = calls[r] - 1 /\ calls[r] \in Nat
    BY ExchangingPhase
  <2>2. /\ Finished[s] <= calls[r] /\ Finished[s] \in {calls[s], calls[s] - 1}
        /\ calls[s] \in Nat
    BY Near DEF TablesInv
  <2>3. n = calls[r] + 1 /\ calls[r] \in Int
    BY <2>1, <2>2
  <2> QED BY <2>1, <2>3, Kinds
<1> QED BY <1>1 DEF Alone

LEMMA LeavingRight ==
  ASSUME NEW g \in Nat, TablesInv, Phases(g), NEW r \in Rank, Alone(r), Arrived(r),
         pc[r] \in {"experts", "combine"}, pc'[r] \notin Exchanging,
         \A d \in Rank : Finished'[d] = IF d = r THEN Finished[d] + 1 ELSE Finished[d]
  PROVE  \A s, d \in Rank : StillRight(g, s, d)
<1> SUFFICES ASSUME NEW s \in Rank, NEW d \in Rank,
                    NEW n \in Int, Finished'[d] < n, n <= calls[s]
             PROVE  /\ Kind(g, n) \in {"counts", "tokens"} => job'[s].flat = job[s].flat
                    /\ Kind(g, n) = "experts" => job'[d].recv = job[d].recv
                    /\ Kind(g, n) = "combine" /\ pc'[d] \in Exchanging =>
                         pc[d] \in Exchanging /\ job'[d].flat = job[d].flat
  BY StillRightIf
<1>1. Kind(g, calls[r]) = pc[r] /\ Finished[r] = calls[r] - 1 /\ calls[r] \in Nat
  BY ExchangingPhase DEF Exchanging
<1>2. /\ Pending(d, r) >= 1 /\ Pending(d, r) = calls[d] - Finished[r]
      /\ calls[d] \in Nat /\ calls[s] \in Nat
      /\ Finished[d] \in {calls[d], calls[d] - 1} /\ Finished[s] \in {calls[s], calls[s] - 1}
      /\ Finished[s] <= calls[r]
  BY ArrivedPending, Near DEF TablesInv
<1>3. calls[r] \in Int /\ Kind(g, calls[r] + 1) \in {"combine", "counts"}
  <2>1. calls[r] \in Int
    BY <1>1
  <2> QED BY <1>1, <2>1, Kinds
<1>4. CASE d = r
  <2>1. Finished'[r] = Finished[r] + 1
    OBVIOUS
  <2>2. calls[r] < n
    BY <1>1, <1>4, <2>1
  <2>3. calls[s] <= calls[r] + 1
    BY <1>1, <1>2
  <2>4. n = calls[r] + 1
    BY <1>1, <1>2, <2>2, <2>3
  <2>5. s # r
    BY <1>1, <2>2
  <2> QED BY <1>3, <1>4, <2>4, <2>5 DEF Alone
<1>5. CASE d # r /\ s = r
  <2>1. n = calls[r]
    BY <1>1, <1>2, <1>5
  <2> QED BY <1>1, <1>5, <2>1 DEF Alone
<1>6. CASE d # r /\ s # r
  BY <1>6 DEF Alone
<1> QED BY <1>4, <1>5, <1>6

-----------------------------------------------------------------------------
(* The jobs after a step.                                                  *)

JobShape(j) ==
  DOMAIN j = {"flat", "recv", "tokens"} /\ j.flat \in Seq(Expert) /\ j.recv \in Vectors

\* What r is told by the ranks in its exchange.
Told(r, s) ==
  pc[r] \in {"tokens", "experts"} /\ pc[s] \in Exchanging => job[r].recv[s] = Announced(s, r)

LEMMA JobsAre ==
  Jobs <=> /\ job = [r \in Rank |-> job[r]]
           /\ \A r \in Rank :
              /\ JobShape(job[r])
              /\ \A s \in Rank : Told(r, s)
              /\ pc[r] = "experts" => IsRows(job[r].tokens, Offsets(job[r].recv)[WorldSize])
BY DEF Jobs, JobAt, JobShape, Told

LEMMA JobsKept ==
  ASSUME Jobs, NEW r \in Rank, NEW j, JobShape(j), job' = [job EXCEPT ![r] = j],
         Alone(r), Told(r, r)', \A s \in Rank : s # r => Told(r, s)' /\ Told(s, r)',
         pc'[r] = "experts" => IsRows(j.tokens, Offsets(j.recv)[WorldSize])
  PROVE  Jobs'
<1>1. /\ job = [q \in Rank |-> job[q]]
      /\ \A q \in Rank :
         /\ JobShape(job[q])
         /\ \A s \in Rank : Told(q, s)
         /\ pc[q] = "experts" => IsRows(job[q].tokens, Offsets(job[q].recv)[WorldSize])
  BY JobsAre
<1>2. job'[r] = j /\ job' = [q \in Rank |-> job'[q]]
  BY <1>1
<1>3. ASSUME NEW q \in Rank, NEW s \in Rank PROVE Told(q, s)'
  <2>1. CASE q # r /\ s # r
    <3>1. pc'[q] = pc[q] /\ job'[q] = job[q] /\ pc'[s] = pc[s] /\ job'[s] = job[s]
      BY <2>1 DEF Alone
    <3>2. Told(q, s)
      BY <1>1
    <3> QED BY <3>1, <3>2 DEF Told, Announced
  <2> QED BY <2>1
<1>4. ASSUME NEW q \in Rank
      PROVE  /\ JobShape(job'[q])
             /\ pc'[q] = "experts" => IsRows(job'[q].tokens, Offsets(job'[q].recv)[WorldSize])
  <2>1. CASE q = r
    BY <1>2, <2>1
  <2>2. CASE q # r
    BY <1>1, <2>2 DEF Alone
  <2> QED BY <2>1, <2>2
<1> QED BY <1>2, <1>3, <1>4 DEF Jobs, JobAt, JobShape, Told

-----------------------------------------------------------------------------
(* Steps of a rank outside an exchange.                                    *)

LEMMA EnterFinished ==
  ASSUME CollInv, NEW r \in Rank, ~Waiting(r), comm[r] = "up", NEW kind \in Collective, NEW parts,
         Enter(r, kind, parts), pc' = [pc EXCEPT ![r] = kind], UNCHANGED comm
  PROVE  Finished' = Finished
<1>1. /\ pc'[r] = kind /\ \A q \in Rank \ {r} : pc'[q] = pc[q] /\ calls'[q] = calls[q]
      /\ calls[r] \in Nat /\ calls'[r] = calls[r] + 1
  BY DEF CollInv, Enter
<1>2. Finished[r] = calls[r]
  BY FinishedIs
<1>3. Finished'[r] = calls[r]
  BY <1>1 DEF Finished, Waiting
<1>4. \A d \in Rank : Finished'[d] = Finished[d]
  BY <1>1, <1>2, <1>3, SameFinished
<1> QED BY <1>4, FinishedEquals

LEMMA LeaveFinished ==
  ASSUME CollInv, NEW r \in Rank, Waiting(r), Leave(r), NEW place, place \notin Collective,
         pc' = [pc EXCEPT ![r] = place], UNCHANGED comm
  PROVE  \A d \in Rank : Finished'[d] = IF d = r THEN Finished[d] + 1 ELSE Finished[d]
<1>1. /\ pc'[r] = place /\ \A q \in Rank \ {r} : pc'[q] = pc[q]
      /\ calls[r] \in Nat /\ calls' = calls
  BY DEF CollInv, Leave
<1>2. Finished[r] = calls[r] - 1 /\ comm[r] = "up"
  BY FinishedIs DEF CollInv
<1>3. Finished'[r] = calls[r]
  BY <1>1, <1>2 DEF Finished, Waiting
<1>4. Finished'[r] = Finished[r] + 1
  BY <1>1, <1>2, <1>3
<1>5. \A d \in Rank : Finished'[d] = IF d = r THEN Finished[r] + 1 ELSE Finished[d]
  BY <1>1, <1>4, SameFinished
<1> QED BY <1>5

LEMMA LeaveAndEnterFinished ==
  ASSUME CollInv, NEW r \in Rank, Waiting(r), NEW kind \in Collective, NEW parts,
         LeaveAndEnter(r, kind, parts), pc' = [pc EXCEPT ![r] = kind], UNCHANGED comm
  PROVE  \A d \in Rank : Finished'[d] = IF d = r THEN Finished[d] + 1 ELSE Finished[d]
<1>1. /\ pc'[r] = kind /\ \A q \in Rank \ {r} : pc'[q] = pc[q] /\ calls'[q] = calls[q]
      /\ calls[r] \in Nat /\ calls'[r] = calls[r] + 1
  BY DEF CollInv, LeaveAndEnter
<1>2. Finished[r] = calls[r] - 1
  BY FinishedIs
<1>3. Finished'[r] = calls'[r] - 1
  BY <1>1 DEF Finished, Waiting
<1>4. Finished'[r] = Finished[r] + 1
  BY <1>1, <1>2, <1>3
<1>5. \A d \in Rank : Finished'[d] = IF d = r THEN Finished[r] + 1 ELSE Finished[d]
  BY <1>1, <1>4, SameFinished
<1> QED BY <1>5

LEMMA AloneIs ==
  ASSUME TablesInv, Jobs, NEW r \in Rank, RankStep(r)
  PROVE  Alone(r)
BY OthersKeep DEF Alone

LEMMA SameJob == 
  ASSUME Jobs, NEW r \in Rank
  PROVE  job = [job EXCEPT ![r] = job[r]] /\ JobShape(job[r])
BY JobsAre

LEMMA NoJobShape == JobShape(NoJob) /\ \A flat \in Seq(Expert) : JobShape([NoJob EXCEPT !.flat = flat])
<1>1. NoJob.recv \in Vectors
  BY DEF NoJob, Vectors
<1>2. NoJob.flat \in Seq(Expert)
  BY DEF NoJob
<1> QED BY <1>1, <1>2 DEF JobShape, NoJob

LEMMA RestJobs ==
  ASSUME Jobs, NEW r \in Rank, NEW j, JobShape(j), job' = [job EXCEPT ![r] = j],
         Alone(r), pc'[r] \notin Exchanging
  PROVE  Jobs'
<1>1. Told(r, r)' /\ \A s \in Rank : s # r => Told(r, s)' /\ Told(s, r)'
  BY DEF Told, Exchanging
<1>2. pc'[r] # "experts"
  BY DEF Exchanging
<1> QED BY <1>1, <1>2, JobsKept

\* A step never gives back a collective, and sends at most one message to each.
Onward == \A q \in Rank : Finished'[q] \in Int /\ Finished'[q] >= Finished[q]

LEMMA StillOnward ==
  ASSUME CollInv, \A q \in Rank : Finished'[q] = Finished[q]
  PROVE  Onward
<1>1. \A q \in Rank : Finished[q] \in Int
  BY FinishedIs
<1> QED BY <1>1 DEF Onward

LEMMA LeaveOnward ==
  ASSUME CollInv, NEW r \in Rank,
         \A d \in Rank : Finished'[d] = IF d = r THEN Finished[d] + 1 ELSE Finished[d]
  PROVE  Onward
<1>1. \A q \in Rank : Finished[q] \in Int
  BY FinishedIs
<1> QED BY <1>1 DEF Onward

\* A step that leaves the calls and the mail alone.
LEMMA QuietCarries ==
  ASSUME TablesInv, Jobs, NEW r \in Rank, RankStep(r),
         UNCHANGED mail, Finished'[r] = Finished[r]
  PROVE  Onward /\ Carried
<1>1. CollInv
  BY DEF TablesInv
<1>2. \A q \in Rank \ {r} : pc'[q] = pc[q] /\ comm'[q] = comm[q] /\ calls'[q] = calls[q]
  BY OthersKeep
<1>3. \A d \in Rank : Finished'[d] = Finished[d]
  BY <1>1, <1>2, SameFinished
<1>4. Finished' = Finished
  BY <1>1, <1>3, FinishedEquals
<1> QED BY <1>1, <1>3, <1>4, StillOnward, QuietMail

\* A step at load time sends nothing or the part of a gather.
Gathers(g, r) == Carried \/ \E p : CarriedWith(r, "gather", p) /\ Kind(g, calls[r] + 1) = "gather"

LEMMA BootCarries ==
  ASSUME NEW g \in Nat, TablesInv, Phases(g), Jobs, NEW r \in Rank, Boot(r)
  PROVE  Onward /\ Gathers(g, r)
<1>1. /\ pc = [s \in Rank |-> pc[s]] /\ comm = [s \in Rank |-> comm[s]]
      /\ calls = [s \in Rank |-> calls[s]] /\ CollInv
  BY DEF TablesInv, CollInv
<1>2. RankStep(r)
  BY DEF RankStep
<1>3. CASE InitGroup(r) \/ Attach(r)
  <2>1. UNCHANGED mail /\ UNCHANGED calls /\ UNCHANGED comm
    BY <1>3 DEF InitGroup, Attach
  <2>2. pc[r] \notin Collective /\ pc'[r] \notin Collective
    BY <1>1, <1>3 DEF InitGroup, Attach, Collective
  <2>3. Finished'[r] = Finished[r]
    BY <2>1, <2>2 DEF Finished, Waiting
  <2> QED BY <1>2, <2>1, <2>3, QuietCarries DEF Gathers
<1>4. CASE CutGather(r)
  <2>1. UNCHANGED mail /\ UNCHANGED calls /\ comm'[r] = "broken" /\ pc[r] = "gather"
    BY <1>1, <1>4 DEF CutGather
  <2>2. Finished'[r] = Finished[r]
    BY <2>1 DEF Finished, Waiting, Collective
  <2> QED BY <1>2, <2>1, <2>2, QuietCarries DEF Gathers
<1>5. CASE EndGather(r) \/ LoseGather(r)
  <2>1. pc[r] = "gather" /\ Leave(r) /\ pc' = [pc EXCEPT ![r] = "attach"] /\ UNCHANGED comm
    BY <1>5 DEF EndGather, LoseGather
  <2>2. \A d \in Rank : Finished'[d] = IF d = r THEN Finished[d] + 1 ELSE Finished[d]
    BY <1>1, <2>1, LeaveFinished DEF Waiting, Collective
  <2> QED BY <1>1, <2>1, <2>2, LeaveMail, LeaveOnward DEF Gathers
<1>6. CASE BeginGather(r)
  <2>1. pc[r] = "boot"
    BY <1>6 DEF BeginGather
  <2>2. CASE /\ comm[r] = "up" /\ <<r, layer[r]>> \notin fault.refused
             /\ Enter(r, "gather", [d \in Rank |-> LocalMappings(r, layer[r])])
             /\ pc' = [pc EXCEPT ![r] = "gather"] /\ UNCHANGED comm
    <3>1. PICK p : p = [d \in Rank |-> LocalMappings(r, layer[r])]
      OBVIOUS
    <3>2. ~Waiting(r) /\ "gather" \in Collective
      BY <2>1 DEF Waiting, Collective
    <3>3. Finished' = Finished
      BY <1>1, <2>2, <3>2, EnterFinished
    <3>4. CarriedWith(r, "gather", p)
      BY <1>1, <2>2, <3>1, <3>3, EnterMail
    <3>5. Kind(g, calls[r] + 1) = "gather"
      <4>1. CountedAt(r) /\ layer[r] \in Layer /\ Nth[r][Layers] = g
        BY DEF TablesInv, Counted, PlaceTypes, Phases
      <4>2. calls[r] = Nth[r][layer[r] - 1]
        BY <2>1, <2>2, <4>1 DEF CountedAt
      <4>3. /\ Nth[r][layer[r]] = Nth[r][layer[r] - 1] + 1
            /\ Nth[r][layer[r]] \in Nat /\ Nth[r][layer[r]] <= g
        BY <2>2, <4>1, NthIs, NthBelow
      <4>4. calls[r] + 1 \in Int /\ calls[r] + 1 <= g
        BY <4>2, <4>3
      <4> QED BY <4>4, Kinds
    <3> QED BY <1>1, <3>3, <3>4, <3>5, StillOnward DEF Gathers
  <2>3. CASE /\ UNCHANGED <<mail, calls>> /\ pc' = [pc EXCEPT ![r] = "attach"]
             /\ UNCHANGED comm
    <3>1. pc'[r] = "attach" /\ comm'[r] = comm[r]
      BY <1>1, <2>3
    <3>2. Finished'[r] = Finished[r]
      BY <2>1, <2>3, <3>1 DEF Finished, Waiting, Collective
    <3> QED BY <1>2, <2>3, <3>2, QuietCarries DEF Gathers
  <2> QED BY <1>6, <2>2, <2>3 DEF BeginGather
<1> QED BY <1>3, <1>4, <1>5, <1>6 DEF Boot

LEMMA BootRests ==
  ASSUME NEW g \in Nat, TablesInv, Phases(g), NEW r \in Rank, Boot(r)
  PROVE  pc[r] \in Booting /\ Resting(g, r) /\ pc'[r] \notin Exchanging
<1>1. pc = [s \in Rank |-> pc[s]]
  BY DEF TablesInv, CollInv
<1>2. pc[r] \in Booting /\ pc[r] \notin Exchanging /\ pc'[r] \notin Exchanging
  BY <1>1 DEF Boot, InitGroup, BeginGather, EndGather, LoseGather, CutGather, Attach, Booting,
     Exchanging
<1> QED BY <1>2, BootingIs DEF Resting

LEMMA BootSplits ==
  ASSUME NEW g \in Nat, TablesInv, TablesInv', Phases(g), Jobs, MailRight(g), NEW r \in Rank,
         Boot(r)
  PROVE  Jobs' /\ MailRight(g)'
<1>1. Alone(r)
  BY AloneIs DEF RankStep
<1>2. Resting(g, r) /\ pc'[r] \notin Exchanging
  BY BootRests
<1>3. job' = job
  BY DEF Boot, InitGroup, BeginGather, EndGather, LoseGather, CutGather, Attach, forwardVars
<1>4. Jobs'
  BY <1>1, <1>2, <1>3, SameJob, RestJobs
<1>5. Onward /\ Gathers(g, r)
  BY BootCarries
<1>6. \A s, d \in Rank : StillRight(g, s, d)
  BY <1>1, <1>2, <1>5, RestRight DEF Onward
<1>7. ASSUME NEW p, CarriedWith(r, "gather", p), Kind(g, calls[r] + 1) = "gather"
      PROVE  MailRight(g)'
  <2>1. PICK n : n = calls[r] + 1
    OBVIOUS
  <2>2. \A d \in Rank : Carries(g, r, d, n, <<"gather", p[d]>>)'
    BY <1>7, <2>1 DEF Carries
  <2> QED BY <1>6, <1>7, <2>1, <2>2, CarriedWithRight
<1> QED BY <1>4, <1>5, <1>6, <1>7, CarriedRight DEF Gathers

\* The steps of a pass that take no part in an exchange.
Passes(r) == RefuseShape(r) \/ RefuseExchange(r) \/ Pipeline(r)

LEMMA PassCarries ==
  ASSUME NEW g \in Nat, TablesInv, Phases(g), Jobs, NEW r \in Rank, Passes(r)
  PROVE  /\ Resting(g, r) /\ pc'[r] \notin Exchanging /\ pass[r] <= Len(load[r])
         /\ Onward /\ Carried
<1>1. /\ pc = [s \in Rank |-> pc[s]] /\ CollInv
  BY DEF TablesInv, CollInv
<1>2. RankStep(r)
  BY DEF RankStep, Exchange, Passes
<1>3. /\ pc[r] \in {"idle", "execute"} /\ pc'[r] \in {"idle", "execute"}
      /\ UNCHANGED mail /\ UNCHANGED calls /\ UNCHANGED comm
      /\ pass[r] <= Len(load[r])
  <2>1. pc[r] = "execute" => pass[r] <= Len(load[r])
    BY DEF TablesInv, PlaceTypes, Busy
  <2> QED BY <1>1, <2>1 DEF Passes, RefuseShape, RefuseExchange, Pipeline, BeginPipeline,
                            RaiseInPipeline, EndPipeline, Serving, Abandon, NextLayer
<1>4. pc'[r] \notin Exchanging
  BY <1>3 DEF Exchanging
<1>5. Resting(g, r)
  BY <1>3, ServingRests
<1>6. Finished'[r] = Finished[r]
  BY <1>3 DEF Finished, Waiting, Collective
<1> QED BY <1>2, <1>3, <1>4, <1>5, <1>6, QuietCarries

\* Their job keeps its shape.
LEMMA PassJob ==
  ASSUME TablesInv, Jobs, NEW r \in Rank, Passes(r)
  PROVE  \E j : JobShape(j) /\ job' = [job EXCEPT ![r] = j]
<1>1. CASE RefuseShape(r) \/ RefuseExchange(r)
  BY <1>1, SameJob DEF RefuseShape, RefuseExchange, forwardVars
<1>2. CASE RaiseInPipeline(r) \/ EndPipeline(r)
  BY <1>2, NoJobShape DEF RaiseInPipeline, EndPipeline
<1>3. CASE BeginPipeline(r)
  <2>1. PICK flat \in Routing(Batch(r).tokens) : job' = [job EXCEPT ![r].flat = flat]
    BY <1>3 DEF BeginPipeline
  <2>2. flat \in Seq(Expert)
    <3>1. pass[r] <= Len(load[r])
      BY <1>3 DEF BeginPipeline, Serving
    <3> QED BY <2>1, <3>1, RoutedExperts DEF TablesInv
  <2>3. job' = [job EXCEPT ![r] = [job[r] EXCEPT !.flat = flat]]
    BY <2>1
  <2>4. JobShape([job[r] EXCEPT !.flat = flat])
    BY <2>2, SameJob DEF JobShape
  <2> QED BY <2>3, <2>4
<1> QED BY <1>1, <1>2, <1>3 DEF Passes, Pipeline

LEMMA PassSplits ==
  ASSUME NEW g \in Nat, TablesInv, TablesInv', Phases(g), Jobs, MailRight(g), NEW r \in Rank,
         Passes(r)
  PROVE  Jobs' /\ MailRight(g)'
<1>1. Alone(r)
  BY AloneIs DEF RankStep, Exchange, Passes
<1>2. /\ Resting(g, r) /\ pc'[r] \notin Exchanging /\ pass[r] <= Len(load[r])
      /\ Onward /\ Carried
  BY PassCarries
<1>3. MailRight(g)'
  BY <1>1, <1>2, RestRight, CarriedRight DEF Onward
<1>4. \E j : JobShape(j) /\ job' = [job EXCEPT ![r] = j]
  BY PassJob
<1>5. PICK j : JobShape(j) /\ job' = [job EXCEPT ![r] = j]
  BY <1>4
<1>6. Jobs'
  BY <1>1, <1>2, <1>5, RestJobs
<1> QED BY <1>3, <1>6

-----------------------------------------------------------------------------
(* Steps of a rank in an exchange.                                         *)

\* A rank begins an exchange: none of its peers is within one.
LEMMA BeginCarries ==
  ASSUME NEW g \in Nat, TablesInv, Phases(g), NEW r \in Rank, BeginExchange(r)
  PROVE  /\ Resting(g, r) /\ pc'[r] = "counts" /\ Kind(g, calls[r] + 1) = "counts"
         /\ \A s \in Rank : s # r => pc[s] \notin {"tokens", "experts"}
         /\ Onward
         /\ \E flat \in Seq(Expert) :
              /\ job' = [job EXCEPT ![r] = [NoJob EXCEPT !.flat = flat]]
              /\ CarriedWith(r, "counts", SendCounts(flat))
<1>1. /\ pc = [s \in Rank |-> pc[s]] /\ CollInv
  BY DEF TablesInv, CollInv
<1>2. /\ pc[r] = "idle" /\ comm[r] = "up" /\ ~fault.group /\ pass[r] <= Len(load[r])
      /\ pc' = [pc EXCEPT ![r] = "counts"] /\ UNCHANGED comm
  BY DEF BeginExchange, Serving, TakesExchange
<1>3. PICK flat \in Routing(Batch(r).tokens) :
        /\ job' = [job EXCEPT ![r] = [NoJob EXCEPT !.flat = flat]]
        /\ Enter(r, "counts", SendCounts(flat))
  BY DEF BeginExchange
<1>4. flat \in Seq(Expert)
  BY <1>2, RoutedExperts DEF TablesInv
<1>5. Resting(g, r) /\ AtRest(g, calls[r])
  BY <1>2, ServingRests
<1>6. ~Waiting(r) /\ "counts" \in Collective
  BY <1>2 DEF Waiting, Collective
<1>7. Finished' = Finished /\ Finished[r] = calls[r]
  BY <1>1, <1>2, <1>3, <1>6, EnterFinished, FinishedIs
<1>8. pc'[r] = "counts"
  BY <1>1, <1>2
<1>9. calls[r] \in Nat /\ calls[r] \in Int
  BY <1>1 DEF CollInv
<1>10. Kind(g, calls[r] + 1) = "counts" /\ Kind(g, calls[r]) \in {"gather", "combine"}
  BY <1>5, <1>9, Kinds
<1>11. ASSUME NEW s \in Rank, s # r PROVE pc[s] \notin {"tokens", "experts"}
  <2> SUFFICES ASSUME pc[s] \in {"tokens", "experts"} PROVE FALSE
    OBVIOUS
  <2>1. Kind(g, calls[s]) = pc[s] /\ Finished[s] = calls[s] - 1 /\ calls[s] \in Nat
    BY ExchangingPhase DEF Exchanging
  <2>2. Finished[r] <= calls[s] /\ Finished[s] <= calls[r]
    BY <1>1, Near
  <2>3. calls[s] = calls[r] \/ calls[s] = calls[r] + 1
    BY <1>7, <1>9, <2>1, <2>2
  <2> QED BY <1>10, <2>1, <2>3
<1>12. CarriedWith(r, "counts", SendCounts(flat))
  <2>1. PICK p : p = SendCounts(flat)
    OBVIOUS
  <2>2. CarriedWith(r, "counts", p)
    BY <1>1, <1>3, <1>7, <2>1, EnterMail
  <2> QED BY <2>1, <2>2
<1>13. Onward
  BY <1>1, <1>7, StillOnward
<1> QED BY <1>3, <1>4, <1>5, <1>8, <1>10, <1>11, <1>12, <1>13

LEMMA BeginSplits ==
  ASSUME NEW g \in Nat, TablesInv, TablesInv', Phases(g), Jobs, MailRight(g), NEW r \in Rank,
         BeginExchange(r)
  PROVE  Jobs' /\ MailRight(g)'
<1>1. Alone(r)
  BY AloneIs DEF RankStep, Exchange
<1>2. /\ Resting(g, r) /\ pc'[r] = "counts" /\ Kind(g, calls[r] + 1) = "counts" /\ Onward
      /\ \A s \in Rank : s # r => pc[s] \notin {"tokens", "experts"}
  BY BeginCarries
<1>3. PICK flat \in Seq(Expert) : /\ job' = [job EXCEPT ![r] = [NoJob EXCEPT !.flat = flat]]
                                  /\ CarriedWith(r, "counts", SendCounts(flat))
  BY BeginCarries
<1>4. Jobs'
  <2>1. JobShape([NoJob EXCEPT !.flat = flat])
    BY NoJobShape
  <2>2. Told(r, r)' /\ \A s \in Rank : s # r => Told(r, s)' /\ Told(s, r)'
    BY <1>1, <1>2 DEF Told, Alone
  <2> QED BY <1>1, <1>2, <1>3, <2>1, <2>2, JobsKept
<1>5. MailRight(g)'
  <2>1. PICK p : p = SendCounts(flat)
    OBVIOUS
  <2>2. PICK n : n = calls[r] + 1
    OBVIOUS
  <2>3. job'[r].flat = flat
    <3>1. job' = [job EXCEPT ![r] = [NoJob EXCEPT !.flat = flat]] /\ job = [s \in Rank |-> job[s]]
      BY <1>3 DEF Jobs
    <3>2. job'[r] = [NoJob EXCEPT !.flat = flat]
      BY <3>1
    <3> QED BY <3>2 DEF NoJob
  <2>4. \A d \in Rank : Carries(g, r, d, n, <<"counts", p[d]>>)'
    BY <1>2, <2>1, <2>2, <2>3 DEF Carries, Announced
  <2>5. CarriedWith(r, "counts", p)
    BY <1>3, <2>1
  <2>6. \A s, d \in Rank : StillRight(g, s, d)
    BY <1>1, <1>2, RestRight DEF Onward
  <2> QED BY <2>2, <2>4, <2>5, <2>6, CarriedWithRight
<1> QED BY <1>4, <1>5

\* A rank leaves an exchange.
LEMMA LeaveCarries ==
  ASSUME TablesInv, NEW r \in Rank, MissExpert(r) \/ EndExchange(r)
  PROVE  /\ pc[r] \in {"experts", "combine"} /\ pc'[r] \notin Exchanging /\ Arrived(r)
         /\ Finished[r] = calls[r] - 1 /\ job' = [job EXCEPT ![r] = NoJob]
         /\ \A d \in Rank : Finished'[d] = IF d = r THEN Finished[d] + 1 ELSE Finished[d]
         /\ Carried
<1>1. /\ pc = [s \in Rank |-> pc[s]] /\ CollInv
  BY DEF TablesInv, CollInv
<1>2. /\ pc[r] \in {"experts", "combine"} /\ Leave(r) /\ pc' = [pc EXCEPT ![r] = "idle"]
      /\ UNCHANGED comm /\ job' = [job EXCEPT ![r] = NoJob]
  BY DEF MissExpert, EndExchange, NextLayer
<1>3. pc'[r] \notin Exchanging /\ Waiting(r) /\ Arrived(r)
  BY <1>1, <1>2 DEF Exchanging, Waiting, Collective, Leave, Matched
<1>4. \A d \in Rank : Finished'[d] = IF d = r THEN Finished[d] + 1 ELSE Finished[d]
  <2>1. "idle" \notin Collective
    BY DEF Collective
  <2> QED BY <1>1, <1>2, <1>3, <2>1, LeaveFinished
<1>5. Carried
  BY <1>1, <1>2, <1>4, LeaveMail
<1>6. Finished[r] = calls[r] - 1
  BY <1>1, <1>3, FinishedIs
<1> QED BY <1>2, <1>3, <1>4, <1>5, <1>6

LEMMA LeaveSplits ==
  ASSUME NEW g \in Nat, TablesInv, TablesInv', Phases(g), Jobs, MailRight(g), NEW r \in Rank,
         MissExpert(r) \/ EndExchange(r)
  PROVE  Jobs' /\ MailRight(g)'
<1>1. Alone(r)
  BY AloneIs DEF RankStep, Exchange
<1>2. /\ pc[r] \in {"experts", "combine"} /\ pc'[r] \notin Exchanging /\ Arrived(r)
      /\ job' = [job EXCEPT ![r] = NoJob] /\ Carried
      /\ \A d \in Rank : Finished'[d] = IF d = r THEN Finished[d] + 1 ELSE Finished[d]
  BY LeaveCarries
<1>3. Jobs'
  BY <1>1, <1>2, NoJobShape, RestJobs
<1>4. \A s, d \in Rank : StillRight(g, s, d)
  BY <1>1, <1>2, LeavingRight
<1> QED BY <1>2, <1>3, <1>4, CarriedRight

\* What a step of an exchange does to the mail.
LEMMA PassOnCarries ==
  ASSUME CollInv, NEW r \in Rank, pc[r] \in Exchanging, NEW kind \in Exchanging,
         pc' = [pc EXCEPT ![r] = kind], UNCHANGED comm, NEW p, LeaveAndEnter(r, kind, p)
  PROVE  /\ pc'[r] \in Exchanging /\ CarriedWith(r, kind, p)
         /\ \A d \in Rank : Finished'[d] = IF d = r THEN Finished[d] + 1 ELSE Finished[d]
<1>1. pc = [s \in Rank |-> pc[s]]
  BY DEF CollInv
<1>2. Waiting(r) /\ kind \in Collective /\ pc'[r] \in Exchanging
  BY <1>1 DEF Waiting, Collective, Exchanging
<1>3. \A d \in Rank : Finished'[d] = IF d = r THEN Finished[d] + 1 ELSE Finished[d]
  BY <1>2, LeaveAndEnterFinished
<1>4. CarriedWith(r, kind, p)
  BY <1>3, LeaveAndEnterMail
<1> QED BY <1>2, <1>3, <1>4

LEMMA PassOnRight ==
  ASSUME NEW g \in Nat, TablesInv, TablesInv', Phases(g), MailRight(g), NEW r \in Rank, Alone(r),
         pc[r] \in Exchanging, NEW kind \in Exchanging, pc' = [pc EXCEPT ![r] = kind],
         UNCHANGED comm, NEW p, LeaveAndEnter(r, kind, p),
         job'[r].flat = job[r].flat, pc[r] = "counts" \/ job'[r].recv = job[r].recv,
         NEW n, n = calls[r] + 1, \A d \in Rank : Carries(g, r, d, n, <<kind, p[d]>>)'
  PROVE  MailRight(g)'
<1>1. /\ pc'[r] \in Exchanging /\ CarriedWith(r, kind, p)
      /\ \A d \in Rank : Finished'[d] = IF d = r THEN Finished[d] + 1 ELSE Finished[d]
  BY PassOnCarries DEF TablesInv
<1>2. \A s, d \in Rank : StillRight(g, s, d)
  BY <1>1, ExchangeRight
<1> QED BY <1>1, <1>2, CarriedWithRight

\* The call an exchange enters next.
LEMMA NextKind ==
  ASSUME NEW g \in Nat, TablesInv, Phases(g), NEW r \in Rank, pc[r] \in Exchanging
  PROVE  /\ pc[r] = "counts" => Kind(g, calls[r] + 1) = "tokens"
         /\ pc[r] = "tokens" => Kind(g, calls[r] + 1) = "experts"
         /\ pc[r] = "experts" => Kind(g, calls[r] + 1) = "combine"
<1>1. Kind(g, calls[r]) = pc[r] /\ calls[r] \in Nat
  BY ExchangingPhase
<1>2. PICK n \in Int : n = calls[r]
  BY <1>1
<1>3. /\ Kind(g, n) = "counts" => Kind(g, n + 1) = "tokens"
      /\ Kind(g, n) = "tokens" => Kind(g, n + 1) = "experts"
      /\ Kind(g, n) = "experts" => Kind(g, n + 1) = "combine"
  BY Kinds
<1> QED BY <1>1, <1>2, <1>3

LEMMA TokenSplits ==
  ASSUME NEW g \in Nat, TablesInv, TablesInv', Phases(g), Jobs, MailRight(g), NEW r \in Rank,
         SendTokens(r)
  PROVE  Jobs' /\ MailRight(g)'
<1>1. /\ pc = [s \in Rank |-> pc[s]] /\ job = [s \in Rank |-> job[s]]
  BY DEF TablesInv, CollInv, Jobs
<1>2. Alone(r)
  BY AloneIs DEF RankStep, Exchange
<1>3. PICK flat : flat = job[r].flat
  OBVIOUS
<1>4. PICK rows : rows = [j \in DOMAIN flat |-> Activation(r, TokenOf(Order(flat)[j]))]
  OBVIOUS
<1>5. PICK p : p = Split(rows, SendCounts(flat))
  OBVIOUS
<1>6. PICK recv : recv = Part(r)
  OBVIOUS
<1>7. /\ pc[r] = "counts" /\ LeaveAndEnter(r, "tokens", p) /\ pc' = [pc EXCEPT ![r] = "tokens"]
      /\ job' = [job EXCEPT ![r].recv = recv] /\ UNCHANGED comm /\ Arrived(r)
  BY <1>3, <1>4, <1>5, <1>6 DEF SendTokens, LeaveAndEnter, Matched
<1>8. JobShape(job[r]) /\ flat \in Seq(Expert)
  BY <1>3, SameJob DEF JobShape
<1>9. pc[r] \in Exchanging /\ "tokens" \in Exchanging /\ pc'[r] = "tokens"
  BY <1>1, <1>7 DEF Exchanging
<1>10. \A s \in Rank : recv[s] = Announced(s, r)
  <2> SUFFICES ASSUME NEW s \in Rank PROVE recv[s] = Announced(s, r)
    OBVIOUS
  <2>1. Kind(g, calls[r]) = "counts" /\ Finished[r] = calls[r] - 1
    BY <1>7, <1>9, ExchangingPhase
  <2> QED BY <1>6, <1>7, <2>1, Heads DEF Carries
<1>11. recv \in Vectors
  <2>1. recv = [s \in Rank |-> recv[s]]
    BY <1>6 DEF Part
  <2>2. ASSUME NEW s \in Rank PROVE recv[s] \in Nat
    <3>1. job[s].flat \in Seq(Expert)
      BY SameJob DEF JobShape
    <3>2. SendCounts(job[s].flat) \in Vectors
      BY <3>1, GoingIs
    <3> QED BY <1>10, <3>2 DEF Announced, Vectors
  <2> QED BY <2>1, <2>2 DEF Vectors
<1>12. PICK j : j = [job[r] EXCEPT !.recv = recv]
  OBVIOUS
<1>13. job' = [job EXCEPT ![r] = j] /\ job'[r] = j
  BY <1>1, <1>7, <1>12
<1>14. JobShape(j) /\ j.flat = flat /\ j.recv = recv
  BY <1>3, <1>8, <1>11, <1>12 DEF JobShape
<1>15. \A s \in Rank : Announced(s, r)' = Announced(s, r)
  BY <1>2, <1>3, <1>13, <1>14 DEF Announced, Alone
<1>16. Jobs'
  <2>1. \A s \in Rank : Told(r, s)'
    BY <1>10, <1>13, <1>14, <1>15 DEF Told
  <2>2. ASSUME NEW s \in Rank, s # r PROVE Told(s, r)'
    <3>1. Told(s, r)
      BY JobsAre
    <3>2. Announced(r, s)' = Announced(r, s)
      BY <1>3, <1>13, <1>14 DEF Announced
    <3> QED BY <1>2, <1>9, <2>2, <3>1, <3>2 DEF Told, Alone
  <2>3. pc'[r] # "experts"
    BY <1>9
  <2> QED BY <1>2, <1>13, <1>14, <2>1, <2>2, <2>3, JobsKept
<1>17. MailRight(g)'
  <2>1. PICK n : n = calls[r] + 1
    OBVIOUS
  <2>2. Kind(g, n) = "tokens"
    BY <1>7, <1>9, <2>1, NextKind
  <2>3. ASSUME NEW d \in Rank PROVE IsRows(p[d], SendCounts(flat)[d])
    <3>1. SendCounts(flat) \in Vectors /\ Offsets(SendCounts(flat))[WorldSize] = Len(flat)
      BY <1>8, GoingIs, AnnouncedAll
    <3>2. IsRows(rows, Len(flat))
      BY <1>4, <1>8 DEF IsRows
    <3> QED BY <1>5, <3>1, <3>2, PartRows
  <2>4. \A d \in Rank : Carries(g, r, d, n, <<"tokens", p[d]>>)'
    BY <1>13, <1>14, <2>2, <2>3 DEF Carries, Announced
  <2>5. job'[r].flat = job[r].flat
    BY <1>3, <1>13, <1>14
  <2> QED BY <1>2, <1>7, <1>9, <2>1, <2>4, <2>5, PassOnRight
<1> QED BY <1>16, <1>17

LEMMA ExpertSplits ==
  ASSUME NEW g \in Nat, TablesInv, TablesInv', Phases(g), Jobs, MailRight(g), NEW r \in Rank,
         SendExperts(r)
  PROVE  Jobs' /\ MailRight(g)'
<1>1. /\ pc = [s \in Rank |-> pc[s]] /\ job = [s \in Rank |-> job[s]]
  BY DEF TablesInv, CollInv, Jobs
<1>2. Alone(r)
  BY AloneIs DEF RankStep, Exchange
<1>3. PICK flat : flat = job[r].flat
  OBVIOUS
<1>4. PICK ids : ids = [j \in DOMAIN flat |-> flat[Order(flat)[j]]]
  OBVIOUS
<1>5. PICK p : p = Split(ids, SendCounts(flat))
  OBVIOUS
<1>6. PICK tokens : tokens = Concat(Part(r))
  OBVIOUS
<1>7. /\ pc[r] = "tokens" /\ LeaveAndEnter(r, "experts", p) /\ pc' = [pc EXCEPT ![r] = "experts"]
      /\ job' = [job EXCEPT ![r].tokens = tokens] /\ UNCHANGED comm /\ Arrived(r)
  BY <1>3, <1>4, <1>5, <1>6 DEF SendExperts, LeaveAndEnter, Matched
<1>8. JobShape(job[r]) /\ flat \in Seq(Expert)
  BY <1>3, SameJob DEF JobShape
<1>9. pc[r] \in Exchanging /\ "experts" \in Exchanging /\ pc'[r] = "experts"
  BY <1>1, <1>7 DEF Exchanging
<1>10. \A s \in Rank : pc[s] \in {"tokens", "experts"}
  BY <1>7, Together
<1>11. \A s \in Rank : job[r].recv[s] = Announced(s, r) /\ job[s].recv[r] = Announced(r, s)
  <2>1. \A s \in Rank : Told(r, s) /\ Told(s, r)
    BY JobsAre
  <2> QED BY <1>7, <1>9, <1>10, <2>1 DEF Told, Exchanging
<1>12. PICK j : j = [job[r] EXCEPT !.tokens = tokens]
  OBVIOUS
<1>13. job' = [job EXCEPT ![r] = j] /\ job'[r] = j
  BY <1>1, <1>7, <1>12
<1>14. JobShape(j) /\ j.flat = flat /\ j.recv = job[r].recv /\ j.tokens = tokens
  BY <1>3, <1>8, <1>12 DEF JobShape
<1>15. \A s \in Rank : Announced(s, r)' = Announced(s, r) /\ Announced(r, s)' = Announced(r, s)
  BY <1>2, <1>3, <1>13, <1>14 DEF Announced, Alone
<1>16. IsRows(tokens, Offsets(job[r].recv)[WorldSize])
  <2>1. job[r].recv \in Vectors
    BY <1>8 DEF JobShape
  <2>2. ASSUME NEW s \in Rank PROVE IsRows(Part(r)[s], job[r].recv[s])
    <3>1. Kind(g, calls[r]) = "tokens" /\ Finished[r] = calls[r] - 1
      BY <1>7, <1>9, ExchangingPhase
    <3>2. IsRows(Part(r)[s], Announced(s, r))
      BY <1>7, <3>1, Heads DEF Carries
    <3> QED BY <1>11, <3>2
  <2> QED BY <1>6, <2>1, <2>2, ConcatIs
<1>17. Jobs'
  <2>1. \A s \in Rank : Told(r, s)'
    BY <1>11, <1>13, <1>14, <1>15 DEF Told
  <2>2. ASSUME NEW s \in Rank, s # r PROVE Told(s, r)'
    BY <1>2, <1>11, <1>15, <2>2 DEF Told, Alone
  <2>3. IsRows(j.tokens, Offsets(j.recv)[WorldSize])
    BY <1>14, <1>16
  <2> QED BY <1>2, <1>13, <1>14, <2>1, <2>2, <2>3, JobsKept
<1>18. MailRight(g)'
  <2>1. PICK n : n = calls[r] + 1
    OBVIOUS
  <2>2. Kind(g, n) = "experts"
    BY <1>7, <1>9, <2>1, NextKind
  <2>3. ASSUME NEW d \in Rank PROVE IsRows(p[d], SendCounts(flat)[d])
    <3>1. SendCounts(flat) \in Vectors /\ Offsets(SendCounts(flat))[WorldSize] = Len(flat)
      BY <1>8, GoingIs, AnnouncedAll
    <3>2. IsRows(ids, Len(flat))
      BY <1>4, <1>8 DEF IsRows
    <3> QED BY <1>5, <3>1, <3>2, PartRows
  <2>4. ASSUME NEW d \in Rank PROVE IsRows(p[d], job'[d].recv[r])
    <3>1. job'[d].recv = job[d].recv
      BY <1>2, <1>13, <1>14 DEF Alone
    <3>2. job[d].recv[r] = SendCounts(flat)[d]
      BY <1>3, <1>11 DEF Announced
    <3> QED BY <2>3, <3>1, <3>2
  <2>5. \A d \in Rank : Carries(g, r, d, n, <<"experts", p[d]>>)'
    BY <2>2, <2>4 DEF Carries
  <2>6. job'[r].flat = job[r].flat /\ job'[r].recv = job[r].recv
    BY <1>3, <1>13, <1>14
  <2> QED BY <1>2, <1>7, <1>9, <2>1, <2>5, <2>6, PassOnRight
<1> QED BY <1>17, <1>18

LEMMA BackSplits ==
  ASSUME NEW g \in Nat, TablesInv, TablesInv', Phases(g), Jobs, MailRight(g), NEW r \in Rank,
         SendBack(r)
  PROVE  Jobs' /\ MailRight(g)'
<1>1. /\ pc = [s \in Rank |-> pc[s]] /\ job = [s \in Rank |-> job[s]]
  BY DEF TablesInv, CollInv, Jobs
<1>2. Alone(r)
  BY AloneIs DEF RankStep, Exchange
<1>3. PICK recv : recv = job[r].recv
  OBVIOUS
<1>4. PICK rows : rows = Compute(r, job[r].tokens, Concat(Part(r)))
  OBVIOUS
<1>5. PICK p : p = Split(rows, recv)
  OBVIOUS
<1>6. /\ pc[r] = "experts" /\ LeaveAndEnter(r, "combine", p) /\ pc' = [pc EXCEPT ![r] = "combine"]
      /\ job' = job /\ UNCHANGED comm
  BY <1>3, <1>4, <1>5 DEF SendBack, forwardVars
<1>7. pc[r] \in Exchanging /\ "combine" \in Exchanging /\ pc'[r] = "combine"
  BY <1>1, <1>6 DEF Exchanging
<1>8. \A s \in Rank : pc[s] \in Exchanging => recv[s] = Announced(s, r)
  <2>1. \A s \in Rank : Told(r, s)
    BY JobsAre
  <2> QED BY <1>3, <1>6, <2>1 DEF Told
<1>9. \A s, d \in Rank : Announced(s, d)' = Announced(s, d)
  BY <1>6 DEF Announced
<1>10. Jobs'
  <2>1. Told(r, r)' /\ \A s \in Rank : s # r => Told(r, s)'
    BY <1>7 DEF Told
  <2>2. ASSUME NEW s \in Rank, s # r PROVE Told(s, r)'
    <3>1. Told(s, r)
      BY JobsAre
    <3> QED BY <1>2, <1>6, <1>7, <1>9, <2>2, <3>1 DEF Told, Alone
  <2>3. pc'[r] # "experts" /\ JobShape(job[r]) /\ job' = [job EXCEPT ![r] = job[r]]
    BY <1>6, <1>7, SameJob
  <2> QED BY <1>2, <2>1, <2>2, <2>3, JobsKept
<1>11. MailRight(g)'
  <2>1. PICK n : n = calls[r] + 1
    OBVIOUS
  <2>2. Kind(g, n) = "combine"
    BY <1>6, <1>7, <2>1, NextKind
  <2>3. ASSUME NEW d \in Rank PROVE IsRows(p[d], recv[d])
    <3>1. recv \in Vectors
      BY <1>3, SameJob DEF JobShape
    <3>2. IsRows(job[r].tokens, Offsets(recv)[WorldSize])
      BY <1>3, <1>6, JobsAre
    <3>3. IsRows(rows, Offsets(recv)[WorldSize])
      BY <1>4, <3>2 DEF IsRows, Compute
    <3> QED BY <1>5, <3>1, <3>3, PartRows
  <2>4. ASSUME NEW d \in Rank, pc'[d] \in Exchanging PROVE IsRows(p[d], Announced(d, r)')
    <3>1. pc[d] \in Exchanging
      BY <1>2, <1>7, <2>4 DEF Alone
    <3>2. recv[d] = Announced(d, r)
      BY <1>8, <3>1
    <3> QED BY <1>9, <2>3, <3>2
  <2>5. \A d \in Rank : Carries(g, r, d, n, <<"combine", p[d]>>)'
    BY <2>2, <2>4 DEF Carries
  <2>6. job'[r].flat = job[r].flat /\ job'[r].recv = job[r].recv
    BY <1>6
  <2> QED BY <1>2, <1>6, <1>7, <2>1, <2>5, <2>6, PassOnRight
<1> QED BY <1>10, <1>11

-----------------------------------------------------------------------------
LEMMA SplitsInvInit ==
  ASSUME NEW g \in Nat, \A r \in Rank : Nth[r][Layers] = g, Init
  PROVE  SplitsInv(g)
<1>1. TablesInv
  BY TablesInvInit
<1>2. /\ pc = [r \in Rank |-> "init"] /\ calls = [r \in Rank |-> 0]
      /\ comm = [r \in Rank |-> "up"] /\ job = [r \in Rank |-> NoJob]
      /\ mail = [r \in Rank |-> [q \in Rank |-> <<>>]]
  BY DEF Init
<1>3. Phases(g)
  BY <1>2, ParallelAssumption DEF Phases, PhaseAt, Exchanging
<1>4. Jobs
  <2>1. \A r \in Rank : JobShape(job[r])
    BY <1>2, NoJobShape
  <2>2. job = [r \in Rank |-> job[r]] /\ \A r \in Rank : pc[r] = "init"
    BY <1>2
  <2> QED BY <2>1, <2>2, JobsAre DEF Told
<1>5. MailRight(g)
  <2>1. \A s, r \in Rank : Pending(s, r) = 0
    BY <1>2 DEF Pending
  <2> QED BY <2>1 DEF MailRight
<1> QED BY <1>1, <1>3, <1>4, <1>5 DEF SplitsInv

LEMMA StepSplits ==
  ASSUME NEW g \in Nat, TablesInv, TablesInv', Phases(g), Jobs, MailRight(g), NEW r \in Rank,
         RankStep(r)
  PROVE  Jobs' /\ MailRight(g)'
BY BootSplits, PassSplits, BeginSplits, TokenSplits, ExpertSplits, BackSplits, LeaveSplits
   DEF RankStep, Exchange, Passes

LEMMA SplitsInvNext ==
  ASSUME NEW g \in Nat, SplitsInv(g), [Next]_vars
  PROVE  SplitsInv(g)'
<1>1. TablesInv /\ TablesInv'
  BY TablesInvNext DEF SplitsInv
<1>2. CASE UNCHANGED vars
  <2>1. /\ pc' = pc /\ calls' = calls /\ comm' = comm /\ pass' = pass /\ load' = load
        /\ fault' = fault /\ job' = job /\ mail' = mail
    BY <1>2 DEF vars, config, forwardVars
  <2>2. Finished' = Finished
    BY <2>1 DEF Finished, Waiting
  <2>3. Phases(g)'
    <3>1. Nth' = Nth
      BY <1>2, ConstantIs DEF Constant, vars, config
    <3> QED BY <2>1, <3>1 DEF SplitsInv, Phases, PhaseAt
  <2>4. Jobs'
    BY <2>1 DEF SplitsInv, Jobs, JobAt, Announced
  <2>5. MailRight(g)'
    BY <2>1, <2>2 DEF SplitsInv, MailRight, Carries, Announced, Pending
  <2> QED BY <1>1, <2>3, <2>4, <2>5 DEF SplitsInv
<1>3. CASE Next
  <2>1. PICK r \in Rank : RankStep(r)
    BY <1>3 DEF Next
  <2>2. Phases(g)'
    BY <1>1, <2>1, StepPhases DEF SplitsInv
  <2>3. Jobs' /\ MailRight(g)'
    BY <1>1, <2>1, StepSplits DEF SplitsInv
  <2> QED BY <1>1, <2>2, <2>3 DEF SplitsInv
<1> QED BY <1>2, <1>3

LEMMA SplitsRight ==
  ASSUME NEW g \in Nat, SplitsInv(g)
  PROVE  SplitsAgree
<1> SUFFICES ASSUME NEW r \in Rank, Waiting(r), Arrived(r), NEW s \in Rank
             PROVE  /\ Head(mail[s][r])[1] = pc[r]
                    /\ pc[r] \in {"tokens", "experts"} => Len(Part(r)[s]) = job[r].recv[s]
                    /\ pc[r] = "combine" => Len(Part(r)[s]) = SendCounts(job[r].flat)[s]
  BY DEF SplitsAgree, Matched
<1>1. TablesInv /\ Phases(g) /\ Jobs /\ MailRight(g)
  BY DEF SplitsInv
<1>2. Finished[r] = calls[r] - 1 /\ calls[r] \in Int
  BY <1>1, FinishedIs DEF TablesInv, CollInv
<1>3. Carries(g, s, r, calls[r], Head(mail[s][r])) /\ Part(r)[s] = Head(mail[s][r])[2]
  BY <1>1, <1>2, Heads
<1>4. CASE pc[r] = "gather"
  <2>1. calls[r] <= g
    BY <1>1, <1>4, BootingIs DEF Booting
  <2>2. Kind(g, calls[r]) = "gather"
    BY <1>2, <2>1, Kinds
  <2> QED BY <1>3, <1>4, <2>2 DEF Carries
<1>5. CASE pc[r] \in Exchanging
  <2>1. Kind(g, calls[r]) = pc[r]
    BY <1>1, <1>5, ExchangingPhase
  <2>2. pc[r] = "tokens" => IsRows(Part(r)[s], job[r].recv[s])
    <3> SUFFICES ASSUME pc[r] = "tokens" PROVE IsRows(Part(r)[s], job[r].recv[s])
      OBVIOUS
    <3>1. pc[s] \in Exchanging
      BY <1>1, Together
    <3>2. Told(r, s)
      BY <1>1, JobsAre
    <3> QED BY <1>3, <2>1, <3>1, <3>2 DEF Carries, Told
  <2>3. pc[r] = "experts" => IsRows(Part(r)[s], job[r].recv[s])
    BY <1>3, <2>1 DEF Carries
  <2>4. pc[r] = "combine" => IsRows(Part(r)[s], SendCounts(job[r].flat)[s])
    BY <1>3, <1>5, <2>1 DEF Carries, Announced
  <2>5. Head(mail[s][r])[1] = pc[r]
    BY <1>3, <2>1 DEF Carries
  <2> QED BY <2>2, <2>3, <2>4, <2>5, RowsAre
<1> QED BY <1>4, <1>5 DEF Waiting, Collective, Exchanging

-----------------------------------------------------------------------------
(* Ranks out of step.  When ranks enter different numbers of gathers, a    *)
(* rank that goes on to exchanges never leaves the counts of its first:    *)
(* its peers' parts of that collective are of another, or never sent.      *)

StuckAt(r) ==
  /\ pc[r] \notin {"tokens", "experts", "combine"}
  /\ calls[r] <= Nth[r][Layers] + (IF pc[r] = "counts" THEN 1 ELSE 0)
Stuck == \A r \in Rank : StuckAt(r)

LEMMA InStepIs ==
  /\ InStep <=> \E g \in Nat : \A r \in Rank : Nth[r][Layers] = g
  /\ InStep <=> \A r, s \in Rank : Nth[r][Layers] = Nth[s][Layers]
<1>1. Layers \in 0 .. Layers
  BY ParallelAssumption
<1>2. \A r \in Rank : Nth[r][Layers] = Gathered(r, Layers)
  BY <1>1 DEF Nth
<1>3. \A r \in Rank : Nth[r][Layers] \in Nat
  BY <1>1, NthIs
<1>4. 0 \in Rank
  BY OwnershipAssumption DEF Rank
<1> QED BY <1>2, <1>3, <1>4 DEF InStep

LEMMA StaysOutOfStep ==
  ASSUME UNCHANGED fault
  PROVE  InStep' = InStep
BY DEF InStep, Gathered

\* The counts of a rank are never those of all its peers.
LEMMA NoCounts ==
  ASSUME TablesInv, Stuck, NEW r \in Rank, pc[r] = "counts", Matched(r)
  PROVE  InStep
<1>1. Arrived(r) /\ Waiting(r) /\ Finished[r] = calls[r] - 1 /\ calls[r] \in Nat
  BY FinishedIs DEF Matched, Waiting, Collective, TablesInv, CollInv
<1>2. \A s \in Rank : Nth[s][Layers] \in Nat
  BY NthIs, ParallelAssumption
<1>3. ASSUME NEW s \in Rank PROVE calls[r] > Nth[s][Layers] /\ calls[s] >= calls[r]
  <2>1. Pending(s, r) >= 1 /\ Pending(s, r) = calls[s] - Finished[r] /\ calls[s] \in Nat
        /\ Pending(s, r) \in Nat
    BY <1>1, ArrivedPending, Near DEF TablesInv
  <2>2. Label(s, Finished[r] + 1, mail[s][r][1])
    <3>1. 1 \in 1 .. Pending(s, r)
      BY <2>1
    <3> QED BY <3>1 DEF TablesInv, Labelled
  <2>3. mail[s][r][1][1] # "gather"
    <3>1. PICK M : mail \in [Rank -> [Rank -> Seq(M)]]
      BY DEF TablesInv, CollInv
    <3>2. mail[s][r] \in Seq(M) /\ mail[s][r] # <<>>
      BY <1>1, <3>1 DEF Arrived
    <3>3. Head(mail[s][r]) = mail[s][r][1]
      BY <3>2
    <3>4. Head(mail[s][r])[1] = "counts"
      BY DEF Matched
    <3> QED BY <3>3, <3>4
  <2>4. ~(Finished[r] + 1 <= Nth[s][Layers])
    BY <2>2, <2>3 DEF Label
  <2> QED BY <1>1, <1>2, <2>1, <2>4
<1>4. ASSUME NEW s \in Rank PROVE Nth[s][Layers] = Nth[r][Layers]
  <2>1. calls[r] <= Nth[r][Layers] + 1
    BY DEF Stuck, StuckAt
  <2>2. calls[s] <= Nth[s][Layers] + 1 /\ calls[s] \in Nat
    <3>1. StuckAt(s) /\ calls[s] \in Nat
      BY DEF Stuck, TablesInv, CollInv
    <3> QED BY <1>2, <3>1 DEF StuckAt
  <2> QED BY <1>1, <1>2, <1>3, <2>1, <2>2
<1> QED BY <1>4, InStepIs

LEMMA StuckStep ==
  ASSUME TablesInv, Stuck, Jobs, ~InStep, NEW r \in Rank, RankStep(r)
  PROVE  Stuck' /\ Jobs' /\ (Boot(r) \/ Passes(r) \/ BeginExchange(r))
<1>1. /\ pc = [s \in Rank |-> pc[s]] /\ calls = [s \in Rank |-> calls[s]]
      /\ calls[r] \in Nat /\ layer[r] \in Layer /\ CountedAt(r) /\ StuckAt(r)
  BY DEF TablesInv, CollInv, PlaceTypes, Counted, Stuck
<1>2. Nth[r][Layers] \in Nat
  BY NthIs, ParallelAssumption
<1>3. Nth' = Nth
  BY SameConfig, ConstantIs DEF Constant
<1>4. Boot(r) \/ Passes(r) \/ BeginExchange(r)
  <2>1. ~SendTokens(r)
    BY NoCounts DEF SendTokens, LeaveAndEnter
  <2>2. ~SendExperts(r) /\ ~SendBack(r) /\ ~MissExpert(r) /\ ~EndExchange(r)
    BY <1>1 DEF StuckAt, SendExperts, SendBack, MissExpert, EndExchange
  <2> QED BY <2>1, <2>2 DEF RankStep, Exchange, Passes
<1>5. /\ pc'[r] \notin {"tokens", "experts", "combine"}
      /\ calls'[r] <= Nth[r][Layers] + (IF pc'[r] = "counts" THEN 1 ELSE 0)
  <2>1. CASE BeginGather(r) /\ calls' # calls
    <3>1. /\ comm[r] = "up" /\ <<r, layer[r]>> \notin fault.refused /\ pc[r] = "boot"
          /\ calls' = [calls EXCEPT ![r] = @ + 1] /\ pc' = [pc EXCEPT ![r] = "gather"]
      BY <2>1 DEF BeginGather, Enter
    <3>2. calls'[r] = Nth[r][layer[r] - 1] + 1 /\ pc'[r] = "gather"
      BY <1>1, <3>1 DEF CountedAt
    <3>3. calls'[r] = Nth[r][layer[r]]
      BY <1>1, <3>1, <3>2, NthIs
    <3>4. Nth[r][layer[r]] \in Nat /\ Nth[r][layer[r]] <= Nth[r][Layers]
      BY <1>1, NthBelow
    <3> QED BY <1>2, <3>2, <3>3, <3>4
  <2>2. CASE Boot(r) /\ calls' = calls
    <3>1. pc[r] \in Booting /\ pc'[r] \in Booting \cup {"idle"}
      BY <1>1, <2>2 DEF Boot, InitGroup, BeginGather, EndGather, LoseGather, CutGather, Attach,
                        Booting
    <3> QED BY <1>1, <2>2, <3>1 DEF StuckAt, Booting
  <2>3. CASE Passes(r)
    <3>1. /\ pc[r] \in {"idle", "execute"} /\ pc'[r] \in {"idle", "execute"}
          /\ calls' = calls
      BY <1>1, <2>3 DEF Passes, RefuseShape, RefuseExchange, Pipeline, BeginPipeline,
                        RaiseInPipeline, EndPipeline, Serving, Abandon, NextLayer
    <3> QED BY <1>1, <3>1 DEF StuckAt
  <2>4. CASE BeginExchange(r)
    <3>1. pc[r] = "idle" /\ pc'[r] = "counts" /\ calls'[r] = calls[r] + 1
      BY <1>1, <2>4 DEF BeginExchange, Serving, Enter
    <3> QED BY <1>1, <1>2, <3>1 DEF StuckAt
  <2>5. Boot(r) /\ calls' # calls => BeginGather(r)
    BY DEF Boot, InitGroup, EndGather, LoseGather, CutGather, Attach, Leave
  <2> QED BY <1>4, <2>1, <2>2, <2>3, <2>4, <2>5
<1>6. Stuck'
  <2>1. ASSUME NEW q \in Rank, q # r PROVE StuckAt(q)'
    <3>1. pc'[q] = pc[q] /\ calls'[q] = calls[q]
      BY <2>1, OthersKeep
    <3>2. StuckAt(q)
      BY DEF Stuck
    <3> QED BY <1>3, <3>1, <3>2 DEF StuckAt
  <2>2. StuckAt(r)'
    BY <1>3, <1>5 DEF StuckAt
  <2> QED BY <2>1, <2>2 DEF Stuck
<1>7. \E j : JobShape(j) /\ job' = [job EXCEPT ![r] = j]
  <2>1. CASE Boot(r)
    <3>1. job' = job
      BY <2>1 DEF Boot, InitGroup, BeginGather, EndGather, LoseGather, CutGather, Attach,
                  forwardVars
    <3> QED BY <3>1, SameJob
  <2>2. CASE Passes(r)
    BY <2>2, PassJob
  <2>3. CASE BeginExchange(r)
    <3>1. PICK flat \in Routing(Batch(r).tokens) :
            job' = [job EXCEPT ![r] = [NoJob EXCEPT !.flat = flat]]
      BY <2>3 DEF BeginExchange
    <3>2. flat \in Seq(Expert)
      <4>1. pass[r] <= Len(load[r])
        BY <2>3 DEF BeginExchange, Serving
      <4> QED BY <3>1, <4>1, RoutedExperts DEF TablesInv
    <3> QED BY <3>1, <3>2, NoJobShape
  <2> QED BY <1>4, <2>1, <2>2, <2>3
<1>8. Jobs'
  <2>1. PICK j : JobShape(j) /\ job' = [job EXCEPT ![r] = j]
    BY <1>7
  <2>2. \A q \in Rank : pc'[q] \notin {"tokens", "experts"}
    BY <1>6 DEF Stuck, StuckAt
  <2>3. Told(r, r)' /\ \A s \in Rank : s # r => Told(r, s)' /\ Told(s, r)'
    BY <2>2 DEF Told
  <2> QED BY <2>1, <2>2, <2>3, AloneIs, JobsKept
<1> QED BY <1>4, <1>6, <1>8

\* The ranks that skipped equally many gathers, and the ranks that did not.
Meeting ==
  /\ TablesInv
  /\ \A g \in Nat : (\A r \in Rank : Nth[r][Layers] = g) => SplitsInv(g)
  /\ ~InStep => Jobs /\ Stuck

LEMMA MeetingInit == Init => Meeting
<1> SUFFICES ASSUME Init PROVE Meeting
  OBVIOUS
<1>1. \A g \in Nat : (\A r \in Rank : Nth[r][Layers] = g) => SplitsInv(g)
  BY SplitsInvInit
<1>2. /\ pc = [r \in Rank |-> "init"] /\ calls = [r \in Rank |-> 0]
      /\ job = [r \in Rank |-> NoJob]
  BY DEF Init
<1>3. Stuck
  <2>1. \A r \in Rank : Nth[r][Layers] \in Nat
    BY NthIs, ParallelAssumption
  <2> QED BY <1>2, <2>1 DEF Stuck, StuckAt
<1>4. Jobs
  <2>1. \A r \in Rank : JobShape(job[r])
    BY <1>2, NoJobShape
  <2>2. job = [r \in Rank |-> job[r]] /\ \A r \in Rank : pc[r] = "init"
    BY <1>2
  <2> QED BY <2>1, <2>2, JobsAre DEF Told
<1> QED BY <1>1, <1>3, <1>4, TablesInvInit DEF Meeting

LEMMA MeetingNext == Meeting /\ [Next]_vars => Meeting'
<1> SUFFICES ASSUME Meeting, [Next]_vars PROVE Meeting'
  OBVIOUS
<1>1. TablesInv /\ TablesInv'
  BY TablesInvNext DEF Meeting
<1>2. held' = held /\ fault' = fault
  <2>1. CASE Next
    BY <2>1, SameConfig DEF Next
  <2>2. CASE UNCHANGED vars
    BY <2>2 DEF vars, config
  <2> QED BY <2>1, <2>2
<1>3. Nth' = Nth /\ InStep' = InStep
  BY <1>2, ConstantIs, StaysOutOfStep DEF Constant
<1>4. ASSUME NEW g \in Nat, \A r \in Rank : Nth'[r][Layers] = g PROVE SplitsInv(g)'
  <2>1. SplitsInv(g)
    BY <1>3, <1>4 DEF Meeting
  <2> QED BY <2>1, SplitsInvNext
<1>5. ASSUME ~InStep PROVE Jobs' /\ Stuck'
  <2>1. Jobs /\ Stuck
    BY <1>5 DEF Meeting
  <2>2. CASE Next
    BY <1>1, <1>5, <2>1, <2>2, StuckStep DEF Next
  <2>3. CASE UNCHANGED vars
    <3>1. pc' = pc /\ calls' = calls /\ job' = job
      BY <2>3 DEF vars, forwardVars
    <3>2. Jobs'
      BY <2>1, <3>1 DEF Jobs, JobAt, Announced
    <3>3. Stuck'
      BY <1>3, <2>1, <3>1 DEF Stuck, StuckAt
    <3> QED BY <3>2, <3>3
  <2> QED BY <2>2, <2>3
<1>6. \A g \in Nat : (\A r \in Rank : Nth'[r][Layers] = g) => SplitsInv(g)'
  BY <1>4
<1>7. ~InStep' => Jobs' /\ Stuck'
  BY <1>3, <1>5
<1> QED BY <1>1, <1>6, <1>7 DEF Meeting

LEMMA MeetingAgrees == Meeting => SplitsAgree
<1> SUFFICES ASSUME Meeting PROVE SplitsAgree
  OBVIOUS
<1>1. CASE InStep
  <2>1. PICK g \in Nat : \A r \in Rank : Nth[r][Layers] = g
    BY <1>1, InStepIs
  <2>2. SplitsInv(g)
    BY <2>1 DEF Meeting
  <2> QED BY <2>2, SplitsRight
<1>2. CASE ~InStep
  BY <1>2 DEF Meeting, Stuck, StuckAt, SplitsAgree
<1> QED BY <1>1, <1>2

\* For any number of ranks and experts, any routing, any loads and any fault:
\* ranks that enter equally many gathers at load time, and go on after others
\* that failed, always meet in one collective, also when their k-th passes
\* differ; and a rank only takes parts that have as many rows as the split sizes
\* it computed announce, also when gathers put the ranks out of step (the input
\* and output split sizes of all_to_all_single).
THEOREM SplitsAreAgreed == Spec => []SplitsAgree
<1> QED BY MeetingInit, MeetingNext, MeetingAgrees, PTL DEF Spec

-----------------------------------------------------------------------------
(* The sort by owner.                                                      *)

\* An expert is in the block of the rank that owns it.
LEMMA OwnBlock ==
  ASSUME NEW e \in Expert
  PROVE  e \in Block(BlockOwner(e, NumExperts), NumExperts)
<1> DEFINE c == CeilDiv(NumExperts, WorldSize)
           d == ExpertsPerRank(NumExperts)
           n == NumExperts
           W == WorldSize
<1>1. n \in Nat \ {0} /\ W \in Nat \ {0} /\ e \in Nat /\ e < n
  BY OwnershipAssumption DEF Expert
<1>2. c \in Nat /\ n <= c * W /\ c * W \in Nat
  <2> DEFINE a == n + W - 1
  <2>1. a \in Nat
    BY <1>1
  <2>2. /\ a \div W \in Nat /\ a % W \in Nat /\ a % W < W
        /\ a = (a \div W) * W + (a % W)
    <3> HIDE DEF a
    <3> QED BY <1>1, <2>1, Divides
  <2> DEFINE p == (a \div W) * W
             x == a % W
  <2>3. p \in Nat /\ x \in Nat /\ x < W /\ n + W - 1 = p + x
    <3>1. a \div W \in Nat /\ W \in Nat
      BY <1>1, <2>2
    <3> DEFINE k == a \div W
    <3>2. k * W \in Nat
      <4> HIDE DEF k, W
      <4> QED BY <3>1 DEF k
    <3> QED BY <2>2, <3>2
  <2>4. n <= p
    <3> HIDE DEF p, x
    <3> QED BY <1>1, <2>3
  <2> QED BY <2>2, <2>3, <2>4 DEF CeilDiv
<1>3. d = c /\ d \in Nat \ {0}
  <2>1. c # 0
    <3> SUFFICES ASSUME c = 0 PROVE FALSE
      OBVIOUS
    <3>1. c * W = 0
      <4> HIDE DEF c, W
      <4> QED BY <1>1
    <3> QED BY <1>1, <1>2, <3>1
  <2> HIDE DEF c
  <2>2. d = AtLeastOne(c)
    BY DEF ExpertsPerRank, c
  <2> QED BY <1>2, <2>1, <2>2 DEF AtLeastOne
<1> DEFINE q == e \div d
           x == e % d
<1>4. q \in Nat /\ x \in Nat /\ x < d /\ e = q * d + x
  <2> HIDE DEF d
  <2> QED BY <1>1, <1>3, Divides
<1>5. BlockOwner(e, n) = Lesser(q, W - 1)
  BY DEF BlockOwner
<1>6. Block(q, n) = q * d .. Lesser(n, (q + 1) * d) - 1
  BY DEF Block
<1>7. n <= W * d
  BY <1>1, <1>2, <1>3
<1> HIDE DEF c, d, q, x, n, W
<1>8. q * d \in Nat /\ W * d \in Nat /\ (q + 1) * d = q * d + d
  BY <1>1, <1>3, <1>4
<1>9. q < W
  <2> SUFFICES ASSUME W <= q PROVE FALSE
    BY <1>1, <1>4
  <2>1. W < q => W * d + d <= q * d
    BY <1>1, <1>3, <1>4, MultMonotone
  <2>2. W = q => W * d = q * d
    OBVIOUS
  <2> DEFINE u == W * d
             v == q * d
  <2>3. /\ u \in Nat /\ v \in Nat /\ (W < q => u + d <= v) /\ (W = q => u = v)
        /\ n <= u /\ e = v + x
    BY <1>4, <1>7, <1>8, <2>1, <2>2
  <2> HIDE DEF u, v
  <2> QED BY <1>1, <1>3, <1>4, <2>3
<1>10. Lesser(q, W - 1) = q
  BY <1>1, <1>4, <1>9 DEF Lesser
<1>11. e \in q * d .. Lesser(n, (q + 1) * d) - 1
  <2> DEFINE v == q * d
             w == (q + 1) * d
  <2>1. v \in Nat /\ w = v + d /\ e = v + x
    BY <1>4, <1>8
  <2> HIDE DEF v, w
  <2>2. e \in v .. Lesser(n, w) - 1
    BY <1>1, <1>3, <1>4, <2>1 DEF Lesser
  <2> QED BY <2>2 DEF v, w
<1> QED BY <1>5, <1>6, <1>10, <1>11 DEF n

\* The assignments of a batch that go where i goes and are no later.
GoingUpTo(flat, i) == {j \in DOMAIN flat : Target(flat, j) = Target(flat, i) /\ j <= i}

LEMMA PlaceIs ==
  ASSUME NEW flat \in Seq(Expert), NEW i \in DOMAIN flat
  PROVE  \E m \in 1 .. SendCounts(flat)[Target(flat, i)] :
           /\ m = Cardinality(GoingUpTo(flat, i))
           /\ Place(flat, i) = Offsets(SendCounts(flat))[Target(flat, i)] + m
<1> DEFINE T == Target(flat, i)
           A == GoingBelow(flat, T)
           B == GoingUpTo(flat, i)
           G == Going(flat, T)
<1>1. T \in Rank /\ T \in Ends
  BY TargetIs, RanksAre
<1>2. A \in SUBSET DOMAIN flat /\ B \in SUBSET DOMAIN flat /\ G \in SUBSET DOMAIN flat
      /\ B \in SUBSET G /\ i \in B
  BY DEF GoingBelow, GoingUpTo, Going
<1>3. \A j \in DOMAIN flat : Target(flat, j) \in Nat
  BY TargetIs, RanksAre
<1>4. Place(flat, i) = Cardinality(A \cup B)
  <2> DEFINE C == {j \in DOMAIN flat :
                     \/ Target(flat, j) < Target(flat, i)
                     \/ Target(flat, j) = Target(flat, i) /\ j <= i}
  <2>1. Place(flat, i) = Cardinality(C)
    BY DEF Place
  <2>2. \A j : j \in A <=> j \in DOMAIN flat /\ Target(flat, j) < T
    BY DEF GoingBelow
  <2>3. \A j : j \in B <=> j \in DOMAIN flat /\ Target(flat, j) = T /\ j <= i
    BY DEF GoingUpTo
  <2>4. \A j : j \in C <=> \/ j \in DOMAIN flat /\ Target(flat, j) < T
                           \/ j \in DOMAIN flat /\ Target(flat, j) = T /\ j <= i
    OBVIOUS
  <2> HIDE DEF A, B, C, T
  <2>5. C = A \cup B
    BY <2>2, <2>3, <2>4
  <2> QED BY <2>1, <2>5
<1>5. A \cap B = {}
  <2>1. \A j \in DOMAIN flat : ~(Target(flat, j) < T /\ Target(flat, j) = T)
    BY <1>1, <1>3, RanksAre
  <2> QED BY <2>1 DEF GoingBelow, GoingUpTo
<1>6. /\ IsFiniteSet(A) /\ IsFiniteSet(B) /\ IsFiniteSet(G)
      /\ Cardinality(A) \in Nat /\ Cardinality(B) \in Nat /\ Cardinality(G) \in Nat
  BY <1>2, GoingIs
<1>7. Cardinality(A) = Offsets(SendCounts(flat))[T] /\ Cardinality(G) = SendCounts(flat)[T]
  BY <1>1, OffsetsCount, GoingIs
<1> HIDE DEF A, B, G, T
<1>8. Cardinality(A \cup B) = Cardinality(A) + Cardinality(B) - Cardinality(A \cap B)
  BY <1>6, FS_Union
<1>9. Cardinality(A \cup B) = Cardinality(A) + Cardinality(B)
  <2>1. Cardinality(A \cap B) = 0
    BY <1>5, FS_EmptySet
  <2> QED BY <1>6, <1>8, <2>1
<1>10. Cardinality(B) <= Cardinality(G)
  BY <1>2, <1>6, FS_Subset
<1>11. Cardinality(B) # 0
  BY <1>2, <1>6, FS_EmptySet
<1>12. Cardinality(B) \in 1 .. Cardinality(G)
  BY <1>6, <1>10, <1>11
<1> QED BY <1>4, <1>7, <1>9, <1>12 DEF T, B

\* No two assignments have one place.
LEMMA PlacesDiffer ==
  ASSUME NEW flat \in Seq(Expert), NEW i \in DOMAIN flat, NEW k \in DOMAIN flat,
         Place(flat, i) = Place(flat, k)
  PROVE  i = k
<1> DEFINE O == Offsets(SendCounts(flat))
           c == SendCounts(flat)
           t == Target(flat, i)
           u == Target(flat, k)
<1>1. c \in Vectors
  BY GoingIs
<1>2. t \in Rank /\ u \in Rank
  BY TargetIs
<1>3. PICK m \in 1 .. c[t] : m = Cardinality(GoingUpTo(flat, i)) /\ Place(flat, i) = O[t] + m
  BY PlaceIs
<1>4. PICK n \in 1 .. c[u] : n = Cardinality(GoingUpTo(flat, k)) /\ Place(flat, k) = O[u] + n
  BY PlaceIs
<1>0. c[t] \in Nat /\ c[u] \in Nat
  BY <1>1, <1>2 DEF Vectors
<1>5. t = u
  <2>1. O[t] + m <= O[t + 1] /\ O[t] < O[t] + m /\ O[u] + n <= O[u + 1] /\ O[u] < O[u] + n
    BY <1>1, <1>2, <1>3, <1>4, RowsWithin
  <2>2. t \in Ends /\ t + 1 \in Ends /\ u \in Ends /\ u + 1 \in Ends /\ t \in Nat /\ u \in Nat
    BY <1>2, RanksAre
  <2>3. O[t] \in Nat /\ O[t + 1] \in Nat /\ O[u] \in Nat /\ O[u + 1] \in Nat
    BY <1>1, <2>2, OffsetsAre
  <2>4. (t + 1 <= u => O[t + 1] <= O[u]) /\ (u + 1 <= t => O[u + 1] <= O[t])
    BY <1>1, <2>2, OffsetsGrow
  <2>5. O[t] + m = O[u] + n /\ m \in Int /\ n \in Int
    <3>1. m \in Int /\ n \in Int
      BY <1>0
    <3>2. O[t] + m = O[u] + n
      BY <1>3, <1>4
    <3> QED BY <3>1, <3>2
  <2>6. PICK v, w, a, b, x, y : v = t /\ w = u /\ a = O[t] /\ b = O[t + 1] /\ x = O[u] /\ y = O[u + 1]
    OBVIOUS
  <2>7. /\ v \in Nat /\ w \in Nat /\ a \in Nat /\ b \in Nat /\ x \in Nat /\ y \in Nat
        /\ m \in Int /\ n \in Int /\ a + m = x + n
        /\ a + m <= b /\ a < a + m /\ x + n <= y /\ x < x + n
        /\ (v + 1 <= w => b <= x) /\ (w + 1 <= v => y <= a)
    BY <2>1, <2>2, <2>3, <2>4, <2>5, <2>6
  <2>8. v = w
    BY ONLY <2>7
  <2> QED BY <2>6, <2>8
<1>6. m = n
  <2>1. O[t] \in Nat /\ c[t] \in Nat
    BY <1>1, <1>2, OffsetsAre, RanksAre DEF Vectors
  <2>2. O[t] + m = O[t] + n /\ m \in Int /\ n \in Int
    <3>1. m \in Int /\ n \in Int
      BY <1>0
    <3>2. O[t] + m = O[t] + n
      BY <1>3, <1>4, <1>5
    <3> QED BY <3>1, <3>2
  <2>3. PICK a : a = O[t]
    OBVIOUS
  <2>4. a \in Nat /\ a + m = a + n /\ m \in Int /\ n \in Int
    BY <2>1, <2>2, <2>3
  <2> QED BY ONLY <2>4
<1>7. ASSUME NEW a \in DOMAIN flat, NEW b \in DOMAIN flat, Target(flat, a) = Target(flat, b), a < b
      PROVE  Cardinality(GoingUpTo(flat, a)) # Cardinality(GoingUpTo(flat, b))
  <2>1. DOMAIN flat \subseteq Int
    OBVIOUS
  <2>4. \A j \in DOMAIN flat : (j <= a => j <= b) /\ b <= b /\ ~(b <= a)
    <3>1. PICK D, x, y : D = DOMAIN flat /\ x = a /\ y = b
      OBVIOUS
    <3>2. D \subseteq Int /\ x \in D /\ y \in D /\ x < y
      BY <1>7, <2>1, <3>1
    <3>3. \A j \in D : (j <= x => j <= y) /\ y <= y /\ ~(y <= x)
      BY ONLY <3>2
    <3> QED BY <3>1, <3>3
  <2>2. /\ GoingUpTo(flat, a) \in SUBSET GoingUpTo(flat, b)
        /\ b \in GoingUpTo(flat, b) /\ b \notin GoingUpTo(flat, a)
    BY <1>7, <2>4 DEF GoingUpTo
  <2>3. IsFiniteSet(GoingUpTo(flat, b))
    <3>1. GoingUpTo(flat, b) \in SUBSET DOMAIN flat
      BY DEF GoingUpTo
    <3> QED BY <3>1, GoingIs
  <2> QED BY <2>2, <2>3, FS_Subset
<1>8. i \in Nat /\ k \in Nat
  OBVIOUS
<1>9. ~(i < k) /\ ~(k < i)
  BY <1>3, <1>4, <1>5, <1>6, <1>7
<1> QED BY <1>8, <1>9

\* The order is a permutation: the place of an assignment undoes it.
LEMMA OrderIs ==
  ASSUME NEW flat \in Seq(Expert)
  PROVE  /\ Order(flat) = [p \in DOMAIN flat |-> Order(flat)[p]]
         /\ \A p \in DOMAIN flat : Order(flat)[p] \in DOMAIN flat /\ Place(flat, Order(flat)[p]) = p
         /\ \A i \in DOMAIN flat : Place(flat, i) \in DOMAIN flat /\ Order(flat)[Place(flat, i)] = i
<1> DEFINE D == DOMAIN flat
           f == [i \in D |-> Place(flat, i)]
<1>1. \A i \in D : Place(flat, i) \in D
  <2> SUFFICES ASSUME NEW i \in D PROVE Place(flat, i) \in D
    OBVIOUS
  <2>1. SendCounts(flat) \in Vectors /\ Target(flat, i) \in Rank
    BY GoingIs, TargetIs
  <2>2. PICK m \in 1 .. SendCounts(flat)[Target(flat, i)] :
          Place(flat, i) = Offsets(SendCounts(flat))[Target(flat, i)] + m
    BY PlaceIs
  <2>3. Place(flat, i) \in 1 .. Offsets(SendCounts(flat))[WorldSize]
    BY <2>1, <2>2, RowsWithin
  <2>4. Place(flat, i) \in 1 .. Len(flat)
    BY <2>3, AnnouncedAll
  <2> QED BY <2>4
<1>2. IsFiniteSet(D)
  BY GoingIs
<1>3. \A i, k \in D : Place(flat, i) = Place(flat, k) => i = k
  BY PlacesDiffer
<1>4. f \in [D -> D] /\ \A i, k \in D : f[i] = f[k] => i = k
  BY <1>1, <1>3
<1> HIDE DEF D, f
<1>5. f \in Injection(D, D)
  BY <1>4 DEF Injection, IsInjective
<1>6. f \in Surjection(D, D)
  BY <1>2, <1>5, FS_Injection
<1>7. \A p \in D : \E i \in D : f[i] = p
  BY <1>6 DEF Surjection
<1>8. \A i \in D : f[i] = Place(flat, i)
  BY DEF f
<1>9. \A p \in D : Order(flat)[p] \in D /\ Place(flat, Order(flat)[p]) = p
  <2> SUFFICES ASSUME NEW p \in D PROVE Order(flat)[p] \in D /\ Place(flat, Order(flat)[p]) = p
    OBVIOUS
  <2>1. Order(flat)[p] = CHOOSE i \in D : Place(flat, i) = p
    BY DEF Order, D
  <2>2. \E i \in D : Place(flat, i) = p
    BY <1>7, <1>8
  <2> QED BY <2>1, <2>2
<1>10. \A i \in D : Order(flat)[Place(flat, i)] = i
  BY <1>1, <1>3, <1>9 DEF D
<1>11. Order(flat) = [p \in D |-> Order(flat)[p]]
  BY DEF Order, D
<1> QED BY <1>1, <1>9, <1>10, <1>11 DEF D

\* In this order the rows of a rank are the assignments it owns.
LEMMA SortedTargets ==
  ASSUME NEW flat \in Seq(Expert), NEW q \in Rank, NEW j \in 1 .. SendCounts(flat)[q]
  PROVE  LET p == Offsets(SendCounts(flat))[q] + j IN
         p \in DOMAIN flat /\ Order(flat)[p] \in DOMAIN flat /\ Target(flat, Order(flat)[p]) = q
<1> DEFINE O == Offsets(SendCounts(flat))
           c == SendCounts(flat)
           p == O[q] + j
           i == Order(flat)[p]
           t == Target(flat, i)
<1>1. c \in Vectors
  BY GoingIs
<1>2. p \in 1 .. O[WorldSize] /\ p <= O[q + 1] /\ O[q] < p
  BY <1>1, RowsWithin
<1>3. p \in DOMAIN flat
  <2>1. O[WorldSize] = Len(flat)
    BY AnnouncedAll
  <2> QED BY <1>2, <2>1
<1>4. i \in DOMAIN flat /\ Place(flat, i) = p
  BY <1>3, OrderIs
<1>5. t \in Rank
  BY <1>4, TargetIs
<1>6. PICK m \in 1 .. c[t] : p = O[t] + m
  BY <1>4, PlaceIs
<1>7. p <= O[t + 1] /\ O[t] < p
  BY <1>1, <1>5, <1>6, RowsWithin
<1>8. t \in Ends /\ t + 1 \in Ends /\ q \in Ends /\ q + 1 \in Ends /\ t \in Nat /\ q \in Nat
  BY <1>5, RanksAre
<1>9. O[t] \in Nat /\ O[t + 1] \in Nat /\ O[q] \in Nat /\ O[q + 1] \in Nat /\ p \in Nat
  <2>1. O[t] \in Nat /\ O[t + 1] \in Nat /\ O[q] \in Nat /\ O[q + 1] \in Nat
    BY <1>1, <1>8, OffsetsAre
  <2> QED BY <1>3, <2>1
<1>10. (t + 1 <= q => O[t + 1] <= O[q]) /\ (q + 1 <= t => O[q + 1] <= O[t])
  BY <1>1, <1>8, OffsetsGrow
<1>11. t = q
  <2>1. PICK v, w, a, b, x, y, z : /\ v = t /\ w = q /\ a = O[t] /\ b = O[t + 1]
                                  /\ x = O[q] /\ y = O[q + 1] /\ z = p
    OBVIOUS
  <2>2. /\ v \in Nat /\ w \in Nat /\ a \in Nat /\ b \in Nat /\ x \in Nat /\ y \in Nat
        /\ z \in Nat
    BY <1>8, <1>9, <2>1
  <2>3. /\ z <= b /\ a < z /\ z <= y /\ x < z
        /\ (v + 1 <= w => b <= x) /\ (w + 1 <= v => y <= a)
    BY <1>2, <1>7, <1>10, <2>1
  <2>4. v = w
    BY ONLY <2>2, <2>3
  <2> QED BY <2>1, <2>4
<1> QED BY <1>3, <1>4, <1>11

-----------------------------------------------------------------------------
(* What the messages contain.                                              *)

\* The assignment of s whose row is the j-th it sends to d.
Row(s, d, j) == Order(job[s].flat)[Offsets(SendCounts(job[s].flat))[d] + j]
TokenRow(s, d, j) == Activation(s, TokenOf(Row(s, d, j)))
ExpertRow(s, d, j) == job[s].flat[Row(s, d, j)]

\* What d computes for the j-th row it gets from s.
ResultRow(s, d, j) ==
  [act |-> TokenRow(s, d, j), expert |-> ExpertRow(s, d, j), by |-> d, layer |-> layer[s]]

\* What the message of the n-th call of s brings r.
Delivers(g, s, r, n, m) ==
  /\ Kind(g, n) = "tokens" => \A j \in 1 .. Announced(s, r) : m[2][j] = TokenRow(s, r, j)
  /\ Kind(g, n) = "experts" /\ pc[s] \in Exchanging =>
       \A j \in 1 .. Announced(s, r) : m[2][j] = ExpertRow(s, r, j)
  /\ Kind(g, n) = "combine" /\ pc[r] \in Exchanging =>
       \A j \in 1 .. Announced(r, s) : m[2][j] = ResultRow(r, s, j)
MailTrue(g) ==
  \A s, r \in Rank : \A j \in 1 .. Pending(s, r) :
    Delivers(g, s, r, Finished[r] + j, mail[s][r][j])

\* The tokens r computes on are those its peers in the exchange sent.
ReceivedAt(r) ==
  pc[r] = "experts" =>
    \A s \in Rank : pc[s] \in Exchanging =>
      \A j \in 1 .. Announced(s, r) :
        job[r].tokens[Offsets(job[r].recv)[s] + j] = TokenRow(s, r, j)
Received == \A r \in Rank : ReceivedAt(r)

\* The n calls before the exchange of a layer are those of whole passes and of
\* the layers before.
Began(g, l, n) == \E x \in Nat : n = g + 4 * (x * Layers + (l - 1))
Step(place) ==
  IF place = "counts" THEN 1 ELSE IF place = "tokens" THEN 2 ELSE IF place = "experts" THEN 3 ELSE 4

\* The passes whose layers are all exchanges.
Exchanges(r) == TakesExchange(r) /\ Batch(r).flat
RoundAt(g, r) ==
  /\ pc[r] \in Exchanging => Exchanges(r) /\ Began(g, layer[r], calls[r] - Step(pc[r]))
  /\ pc[r] = "execute" => ~TakesExchange(r)
  /\ pc[r] \in {"idle", "execute"} /\ comm[r] = "up" /\ ~fault.group /\ pass[r] <= Len(load[r]) =>
       Began(g, IF Exchanges(r) THEN layer[r] ELSE 1, calls[r])
Rounds(g) == \A r \in Rank : RoundAt(g, r)

-----------------------------------------------------------------------------
(* Ranks that have entered as many exchanges are in one layer.             *)

LEMMA SameLayer ==
  ASSUME NEW g \in Nat, NEW l \in Layer, NEW k \in Layer, NEW n, Began(g, l, n), Began(g, k, n)
  PROVE  l = k
<1>1. PICK x \in Nat : n = g + 4 * (x * Layers + (l - 1))
  BY DEF Began
<1>2. PICK y \in Nat : n = g + 4 * (y * Layers + (k - 1))
  BY DEF Began
<1>3. Layers \in Nat \ {0}
  BY ParallelAssumption
<1>4. l \in Nat /\ k \in Nat /\ 1 <= l /\ l <= Layers /\ 1 <= k /\ k <= Layers
  BY LayerIs
<1> DEFINE u == x * Layers
           v == y * Layers
<1>5. u \in Nat /\ v \in Nat
  BY <1>3
<1>6. /\ x < y => u + Layers <= v
      /\ y < x => v + Layers <= u
      /\ x = y => u = v
  BY <1>3, MultMonotone
<1>7. n = g + 4 * (u + (l - 1)) /\ n = g + 4 * (v + (k - 1))
  BY <1>1, <1>2
<1> HIDE DEF u, v
<1>8. u + l = v + k
  BY <1>3, <1>4, <1>5, <1>7
<1>9. ~(x < y) /\ ~(y < x)
  BY <1>3, <1>4, <1>5, <1>6, <1>8
<1> QED BY <1>4, <1>5, <1>6, <1>8, <1>9

LEMMA BeganFirst ==
  ASSUME NEW g \in Nat
  PROVE  Began(g, 1, g)
<1>1. Layers \in Nat
  BY ParallelAssumption
<1>2. g = g + 4 * (0 * Layers + (1 - 1)) /\ 0 \in Nat
  BY <1>1
<1> QED BY <1>2 DEF Began

LEMMA BeganNext ==
  ASSUME NEW g \in Nat, NEW l \in Layer, NEW n \in Int, Began(g, l, n - 4)
  PROVE  Began(g, IF l < Layers THEN l + 1 ELSE 1, n)
<1>1. PICK x \in Nat : n - 4 = g + 4 * (x * Layers + (l - 1))
  BY DEF Began
<1>2. Layers \in Nat \ {0} /\ l \in Nat /\ l <= Layers
  BY ParallelAssumption, LayerIs
<1> DEFINE u == x * Layers
           v == (x + 1) * Layers
<1>3. u \in Nat /\ v = u + Layers /\ n - 4 = g + 4 * (u + (l - 1))
  BY <1>1, <1>2
<1> HIDE DEF u, v
<1>4. CASE l < Layers
  <2>1. n = g + 4 * (u + ((l + 1) - 1))
    BY <1>2, <1>3
  <2> QED BY <1>4, <2>1 DEF Began, u
<1>5. CASE ~(l < Layers)
  <2>1. n = g + 4 * (v + (1 - 1)) /\ x + 1 \in Nat
    BY <1>2, <1>3, <1>5
  <2> QED BY <1>5, <2>1 DEF Began, v
<1> QED BY <1>4, <1>5

\* A peer that is in the exchange whose experts a rank has is in its layer.
LEMMA PeersLayer ==
  ASSUME NEW g \in Nat, TablesInv, Phases(g), Rounds(g), NEW r \in Rank, Arrived(r),
         pc[r] = "experts",
         NEW s \in Rank, pc[s] \in Exchanging
  PROVE  layer[s] = layer[r]
<1>1. pc[r] \in Exchanging
  BY DEF Exchanging
<1>2. /\ Kind(g, calls[r]) = "experts" /\ Kind(g, calls[s]) = pc[s]
      /\ Finished[r] = calls[r] - 1 /\ Finished[s] = calls[s] - 1
      /\ calls[r] \in Nat /\ calls[s] \in Nat
  BY <1>1, ExchangingPhase
<1>3. Pending(s, r) >= 1 /\ Pending(s, r) = calls[s] - Finished[r] /\ Finished[s] <= calls[r]
  BY ArrivedPending, Near DEF TablesInv
<1>4. calls[s] = calls[r] \/ calls[s] = calls[r] + 1
  BY <1>2, <1>3
<1>5. Kind(g, calls[r] + 1) = "combine"
  BY <1>1, NextKind
<1>6. calls[s] - Step(pc[s]) = calls[r] - Step(pc[r])
  <2>1. CASE calls[s] = calls[r]
    BY <1>2, <2>1
  <2>2. CASE calls[s] = calls[r] + 1
    <3>1. pc[s] = "combine"
      BY <1>2, <1>5, <2>2
    <3>2. Step(pc[s]) = 4 /\ Step(pc[r]) = 3
      BY <3>1 DEF Step
    <3> QED BY <1>2, <2>2, <3>2
  <2> QED BY <1>4, <2>1, <2>2
<1>7. Began(g, layer[s], calls[s] - Step(pc[s])) /\ Began(g, layer[r], calls[r] - Step(pc[r]))
  BY <1>1 DEF Rounds, RoundAt
<1>8. layer[s] \in Layer /\ layer[r] \in Layer
  BY DEF TablesInv, PlaceTypes
<1>9. PICK n : n = calls[r] - Step(pc[r])
  OBVIOUS
<1> QED BY <1>6, <1>7, <1>8, <1>9, SameLayer

-----------------------------------------------------------------------------
(* A step keeps the contents of the messages it does not take.             *)

\* What a rank's rows are made of.
Same(q) == job'[q].flat = job[q].flat /\ pass'[q] = pass[q] /\ layer'[q] = layer[q]

\* Messages that waited before a step and still wait deliver what they did.
StillTrue(g, s, d) ==
  \A n \in Int : \A m :
    Finished'[d] < n /\ n <= calls[s] /\ Delivers(g, s, d, n, m) => Delivers(g, s, d, n, m)'

LEMMA StillTrueIf ==
  ASSUME NEW g \in Nat, NEW s \in Rank, NEW d \in Rank,
         \A n \in Int : Finished'[d] < n /\ n <= calls[s] =>
           /\ Kind(g, n) = "tokens" => Same(s)
           /\ Kind(g, n) = "experts" /\ pc'[s] \in Exchanging => pc[s] \in Exchanging /\ Same(s)
           /\ Kind(g, n) = "combine" /\ pc'[d] \in Exchanging => pc[d] \in Exchanging /\ Same(d)
  PROVE  StillTrue(g, s, d)
<1> SUFFICES ASSUME NEW n \in Int, NEW m, Finished'[d] < n, n <= calls[s], Delivers(g, s, d, n, m)
             PROVE  Delivers(g, s, d, n, m)'
  BY DEF StillTrue
<1>1. ASSUME NEW q \in Rank, Same(q), NEW e \in Rank
      PROVE  /\ Announced(q, e)' = Announced(q, e)
             /\ \A j : /\ TokenRow(q, e, j)' = TokenRow(q, e, j)
                       /\ ExpertRow(q, e, j)' = ExpertRow(q, e, j)
                       /\ ResultRow(q, e, j)' = ResultRow(q, e, j)
  BY <1>1 DEF Same, Announced, TokenRow, ExpertRow, ResultRow, Row, Activation
<1>2. Kind(g, n) = "tokens" =>
        (\A j \in 1 .. Announced(s, d) : m[2][j] = TokenRow(s, d, j))'
  BY <1>1 DEF Delivers
<1>3. Kind(g, n) = "experts" /\ pc'[s] \in Exchanging =>
        (\A j \in 1 .. Announced(s, d) : m[2][j] = ExpertRow(s, d, j))'
  BY <1>1 DEF Delivers
<1>4. Kind(g, n) = "combine" /\ pc'[d] \in Exchanging =>
        (\A j \in 1 .. Announced(d, s) : m[2][j] = ResultRow(d, s, j))'
  BY <1>1 DEF Delivers
<1> QED BY <1>2, <1>3, <1>4 DEF Delivers

\* Only the rank that moves changes its rows.
Apart(r) == \A q \in Rank : q # r => pc'[q] = pc[q] /\ Same(q)

LEMMA ApartIs ==
  ASSUME TablesInv, Jobs, NEW r \in Rank, RankStep(r)
  PROVE  Apart(r)
<1> SUFFICES ASSUME NEW q \in Rank, q # r PROVE pc'[q] = pc[q] /\ Same(q)
  BY DEF Apart
<1>1. pc'[q] = pc[q] /\ pass'[q] = pass[q] /\ layer'[q] = layer[q] /\ job'[q] = job[q]
  BY OthersKeep
<1> QED BY <1>1 DEF Same

LEMMA RestTrue ==
  ASSUME NEW g \in Nat, TablesInv, Phases(g), NEW r \in Rank, Resting(g, r), Apart(r),
         \A q \in Rank : Finished'[q] \in Int /\ Finished'[q] >= Finished[q]
  PROVE  \A s, d \in Rank : StillTrue(g, s, d)
<1> SUFFICES ASSUME NEW s \in Rank, NEW d \in Rank,
                    NEW n \in Int, Finished'[d] < n, n <= calls[s]
             PROVE  /\ Kind(g, n) = "tokens" => Same(s)
                    /\ Kind(g, n) = "experts" /\ pc'[s] \in Exchanging => pc[s] \in Exchanging /\ Same(s)
                    /\ Kind(g, n) = "combine" /\ pc'[d] \in Exchanging => pc[d] \in Exchanging /\ Same(d)
  BY StillTrueIf
<1>1. Finished[d] < n
  <2>1. Finished[d] \in Int
    BY Near DEF TablesInv
  <2> QED BY <2>1
<1>2. s = r => Kind(g, n) \in {"gather", "combine"}
  BY <1>1, RestingMail
<1>3. d = r => Kind(g, n) \in {"gather", "counts"}
  BY <1>1, RestingMail
<1> QED BY <1>2, <1>3 DEF Apart

LEMMA PassOnTrue ==
  ASSUME NEW g \in Nat, NEW r \in Rank, Apart(r), pc[r] \in Exchanging, Same(r)
  PROVE  \A s, d \in Rank : StillTrue(g, s, d)
<1>1. \A q \in Rank : Same(q) /\ (pc'[q] \in Exchanging => pc[q] \in Exchanging)
  BY DEF Apart
<1> QED BY <1>1, StillTrueIf

LEMMA LeavingTrue ==
  ASSUME NEW g \in Nat, TablesInv, Phases(g), NEW r \in Rank, Apart(r), Arrived(r),
         pc[r] \in {"experts", "combine"}, pc'[r] \notin Exchanging,
         \A d \in Rank : Finished'[d] = IF d = r THEN Finished[d] + 1 ELSE Finished[d]
  PROVE  \A s, d \in Rank : StillTrue(g, s, d)
<1> SUFFICES ASSUME NEW s \in Rank, NEW d \in Rank,
                    NEW n \in Int, Finished'[d] < n, n <= calls[s]
             PROVE  /\ Kind(g, n) = "tokens" => Same(s)
                    /\ Kind(g, n) = "experts" /\ pc'[s] \in Exchanging => pc[s] \in Exchanging /\ Same(s)
                    /\ Kind(g, n) = "combine" /\ pc'[d] \in Exchanging => pc[d] \in Exchanging /\ Same(d)
  BY StillTrueIf
<1>1. Kind(g, calls[r]) = pc[r] /\ Finished[r] = calls[r] - 1 /\ calls[r] \in Nat
  BY ExchangingPhase DEF Exchanging
<1>2. /\ Pending(d, r) >= 1 /\ Pending(d, r) = calls[d] - Finished[r]
      /\ calls[d] \in Nat /\ Finished[d] \in {calls[d], calls[d] - 1}
  BY ArrivedPending, Near DEF TablesInv
<1>3. CASE s = r /\ d = r
  <2>1. Finished'[r] = calls[r]
    BY <1>1
  <2> QED BY <1>1, <1>3, <2>1
<1>4. CASE s = r /\ d # r
  <2>1. n = calls[r]
    BY <1>1, <1>2, <1>4
  <2> QED BY <1>1, <1>4, <2>1 DEF Apart
<1>5. CASE s # r
  BY <1>5 DEF Apart
<1> QED BY <1>3, <1>4, <1>5

LEMMA OldTrue ==
  ASSUME NEW g \in Nat, TablesInv, TablesInv', MailTrue(g), NEW s \in Rank, NEW d \in Rank,
         NEW j \in 1 .. Pending(s, d)', OldMail(s, d, j), StillTrue(g, s, d)
  PROVE  Delivers(g, s, d, Finished[d] + j, mail[s][d][j])'
<1>1. PICK i \in 1 .. Pending(s, d) : /\ mail'[s][d][j] = mail[s][d][i]
                                     /\ Finished'[d] + j = Finished[d] + i
  BY DEF OldMail
<1>2. Delivers(g, s, d, Finished[d] + i, mail[s][d][i])
  BY DEF MailTrue
<1>3. /\ Pending(s, d) \in Nat /\ Pending(s, d) = calls[s] - Finished[d]
      /\ Finished[d] \in Int /\ calls[s] \in Nat
  BY Near DEF TablesInv
<1>4. Finished'[d] \in Int
  BY FinishedIs DEF TablesInv, CollInv, Finished
<1> DEFINE n == Finished[d] + i
           m == mail[s][d][i]
<1>5. n \in Int /\ Finished'[d] < n /\ n <= calls[s]
  BY <1>1, <1>3, <1>4
<1>6. Delivers(g, s, d, n, m)
  BY <1>2
<1>7. PICK k, x : k = n /\ x = m
  OBVIOUS
<1>8. Delivers(g, s, d, k, x)'
  BY <1>5, <1>6, <1>7 DEF StillTrue
<1>9. k = Finished'[d] + j /\ x = mail'[s][d][j]
  BY <1>1, <1>7
<1> QED BY <1>8, <1>9 DEF Delivers

LEMMA CarriedTrue ==
  ASSUME NEW g \in Nat, TablesInv, TablesInv', MailTrue(g), Carried,
         \A s, d \in Rank : StillTrue(g, s, d)
  PROVE  MailTrue(g)'
<1> SUFFICES ASSUME NEW s \in Rank, NEW d \in Rank, NEW j \in 1 .. Pending(s, d)'
             PROVE  Delivers(g, s, d, Finished[d] + j, mail[s][d][j])'
  BY DEF MailTrue
<1> QED BY OldTrue DEF Carried

LEMMA CarriedWithTrue ==
  ASSUME NEW g \in Nat, TablesInv, TablesInv', MailTrue(g), NEW r \in Rank, NEW kind, NEW parts,
         CarriedWith(r, kind, parts), \A s, d \in Rank : StillTrue(g, s, d),
         NEW n, n = calls[r] + 1, \A d \in Rank : Delivers(g, r, d, n, <<kind, parts[d]>>)'
  PROVE  MailTrue(g)'
<1> SUFFICES ASSUME NEW s \in Rank, NEW d \in Rank, NEW j \in 1 .. Pending(s, d)'
             PROVE  Delivers(g, s, d, Finished[d] + j, mail[s][d][j])'
  BY DEF MailTrue
<1>1. CASE OldMail(s, d, j)
  BY <1>1, OldTrue
<1>2. CASE NewMail(s, d, j, r, kind, parts)
  <2>1. s = r /\ Finished'[d] + j = n /\ mail'[s][d][j] = <<kind, parts[d]>>
    BY <1>2 DEF NewMail
  <2>2. Delivers(g, s, d, n, <<kind, parts[d]>>)'
    BY <2>1
  <2> QED BY <2>1, <2>2 DEF Delivers
<1> QED BY <1>1, <1>2 DEF CarriedWith

\* What the part at the head of the mail says.
LEMMA HeadsTrue ==
  ASSUME NEW g \in Nat, TablesInv, MailTrue(g), NEW r \in Rank, Finished[r] = calls[r] - 1,
         Arrived(r),
         NEW s \in Rank
  PROVE  Delivers(g, s, r, calls[r], Head(mail[s][r])) /\ Part(r)[s] = Head(mail[s][r])[2]
<1>1. PICK M : mail \in [Rank -> [Rank -> Seq(M)]]
  BY DEF TablesInv, CollInv
<1>2. mail[s][r] \in Seq(M) /\ mail[s][r] # <<>>
  BY <1>1 DEF Arrived
<1>3. Head(mail[s][r]) = mail[s][r][1]
  BY <1>2
<1>4. 1 \in 1 .. Pending(s, r)
  BY ArrivedPending, Near DEF TablesInv
<1>5. calls[r] \in Nat /\ Finished[r] + 1 = calls[r]
  BY Near DEF TablesInv
<1>6. Delivers(g, s, r, Finished[r] + 1, mail[s][r][1])
  BY <1>4 DEF MailTrue
<1> QED BY <1>3, <1>5, <1>6 DEF Part

-----------------------------------------------------------------------------
(* In which layer the ranks are.                                           *)

LEMMA RoundsKept ==
  ASSUME NEW g \in Nat, TablesInv, TablesInv', Jobs, Rounds(g), NEW r \in Rank, RankStep(r),
         RoundAt(g, r)'
  PROVE  Rounds(g)'
<1> SUFFICES ASSUME NEW q \in Rank, q # r PROVE RoundAt(g, q)'
  BY DEF Rounds
<1>1. /\ pc'[q] = pc[q] /\ calls'[q] = calls[q] /\ comm'[q] = comm[q]
      /\ pass'[q] = pass[q] /\ layer'[q] = layer[q]
  BY OthersKeep
<1>2. load' = load /\ fault' = fault
  BY SameConfig
<1>3. RoundAt(g, q)
  BY DEF Rounds
<1>4. /\ Exchanges(q)' = Exchanges(q) /\ TakesExchange(q)' = TakesExchange(q)
  BY <1>1, <1>2 DEF Exchanges, TakesExchange, Batch
<1> QED BY <1>1, <1>2, <1>3, <1>4 DEF RoundAt

LEMMA BootRounds ==
  ASSUME NEW g \in Nat, TablesInv, TablesInv', Phases(g), Jobs, Rounds(g), NEW r \in Rank, Boot(r)
  PROVE  RoundAt(g, r)'
<1>1. /\ pc = [s \in Rank |-> pc[s]] /\ comm = [s \in Rank |-> comm[s]]
      /\ calls = [s \in Rank |-> calls[s]] /\ layer = [s \in Rank |-> layer[s]]
  BY DEF TablesInv, CollInv, PlaceTypes
<1>2. fault' = fault
  BY SameConfig DEF RankStep
<1>3. CASE pc'[r] \in Booting
  BY <1>3 DEF RoundAt, Booting, Exchanging
<1>4. CASE InitGroup(r)
  <2>1. pc'[r] = IF fault.group THEN "idle" ELSE "boot"
    BY <1>1, <1>4 DEF InitGroup
  <2> QED BY <1>2, <2>1 DEF RoundAt, Exchanging
<1>5. CASE Attach(r)
  <2>1. /\ pc[r] = "attach" /\ calls' = calls /\ comm' = comm
        /\ pc'[r] = IF layer[r] < Layers THEN "boot" ELSE "idle"
        /\ layer'[r] = IF layer[r] < Layers THEN layer[r] + 1 ELSE 1
    BY <1>1, <1>5 DEF Attach
  <2>2. CASE layer[r] < Layers
    BY <2>1, <2>2 DEF RoundAt, Exchanging
  <2>3. CASE ~(layer[r] < Layers)
    <3>1. CountedAt(r) /\ layer[r] \in Layer
      BY DEF TablesInv, Counted, PlaceTypes
    <3>2. layer[r] = Layers
      <4>1. layer[r] \in Nat /\ layer[r] <= Layers /\ Layers \in Nat
        BY <3>1, LayerIs, ParallelAssumption
      <4> QED BY <2>3, <4>1
    <3>3. pc'[r] = "idle" /\ layer'[r] = 1
      BY <2>1, <2>3
    <3>4. comm[r] = "up" => calls[r] = g
      BY <2>1, <3>1, <3>2 DEF CountedAt, Phases
    <3>5. comm'[r] = "up" => Began(g, 1, calls'[r])
      BY <2>1, <3>4, BeganFirst
    <3> QED BY <3>3, <3>5 DEF RoundAt, Exchanging
  <2> QED BY <2>2, <2>3
<1>6. CASE BeginGather(r) \/ EndGather(r) \/ LoseGather(r) \/ CutGather(r)
  <2>1. pc'[r] \in Booting
    BY <1>1, <1>6 DEF BeginGather, EndGather, LoseGather, CutGather, Booting
  <2> QED BY <1>3, <2>1
<1> QED BY <1>4, <1>5, <1>6 DEF Boot

LEMMA PassRounds ==
  ASSUME NEW g \in Nat, TablesInv, TablesInv', Phases(g), Jobs, Rounds(g), NEW r \in Rank,
         Exchange(r) \/ Pipeline(r)
  PROVE  RoundAt(g, r)'
<1>1. /\ pc = [s \in Rank |-> pc[s]] /\ calls = [s \in Rank |-> calls[s]]
      /\ pass = [s \in Rank |-> pass[s]] /\ layer = [s \in Rank |-> layer[s]]
  BY DEF TablesInv, CollInv, PlaceTypes
<1>2. /\ RoundAt(g, r) /\ calls[r] \in Nat /\ pass[r] \in Nat /\ Len(load[r]) \in Nat
      /\ layer[r] \in Layer
  BY HeldTypes DEF TablesInv, Rounds, PlaceTypes, CollInv
<1>3. fault' = fault /\ load' = load
  BY SameConfig DEF RankStep
<1>4. comm' = comm
  BY DEF Exchange, Pipeline, RefuseShape, RefuseExchange, BeginExchange, SendTokens, SendExperts,
         SendBack, MissExpert, EndExchange, BeginPipeline, RaiseInPipeline, EndPipeline
<1>5. pass'[r] = pass[r] =>
        /\ TakesExchange(r)' = TakesExchange(r) /\ Exchanges(r)' = Exchanges(r)
  BY <1>3 DEF TakesExchange, Exchanges, Batch
<1>6. \* The place of a rank whose pass is no exchange, before and after.
      ASSUME comm[r] = "up" /\ ~fault.group => Began(g, 1, calls[r]), calls' = calls,
             pc'[r] \in {"idle", "execute"}, pc'[r] = "execute" => ~TakesExchange(r)',
             layer'[r] = 1 \/ ~Exchanges(r)'
      PROVE  RoundAt(g, r)'
  <2>1. comm'[r] = "up" /\ ~fault'.group =>
          Began(g, IF Exchanges(r)' THEN layer'[r] ELSE 1, calls'[r])
    BY <1>3, <1>4, <1>6
  <2> QED BY <1>6, <2>1 DEF RoundAt, Exchanging
<1>7. CASE RefuseShape(r)
  <2>1. /\ calls' = calls /\ pc[r] = "idle" /\ pc'[r] = "idle" /\ pass[r] <= Len(load[r])
        /\ layer'[r] = 1 /\ ~Exchanges(r)
    BY <1>1, <1>7 DEF RefuseShape, Serving, Abandon, Exchanges
  <2>2. comm[r] = "up" /\ ~fault.group => Began(g, 1, calls[r])
    BY <1>2, <2>1 DEF RoundAt
  <2> QED BY <1>6, <2>1, <2>2
<1>8. CASE RefuseExchange(r)
  <2>1. calls' = calls /\ pc'[r] = "idle" /\ layer'[r] = 1 /\ comm[r] # "up"
    BY <1>1, <1>8 DEF RefuseExchange, Abandon
  <2> QED BY <1>6, <2>1
<1>9. CASE BeginExchange(r)
  <2>1. /\ pc[r] = "idle" /\ comm[r] = "up" /\ ~fault.group /\ pass[r] <= Len(load[r])
        /\ pc'[r] = "counts" /\ calls'[r] = calls[r] + 1 /\ Exchanges(r)
        /\ layer' = layer /\ pass' = pass
    BY <1>1, <1>9 DEF BeginExchange, Serving, TakesExchange, Exchanges, Enter
  <2>2. Began(g, layer[r], calls[r])
    BY <1>2, <2>1 DEF RoundAt
  <2>3. calls'[r] - Step(pc'[r]) = calls[r]
    BY <1>2, <2>1 DEF Step
  <2>4. Exchanges(r)' /\ Began(g, layer'[r], calls'[r] - Step(pc'[r]))
    BY <1>5, <2>1, <2>2, <2>3
  <2> QED BY <2>1, <2>4 DEF RoundAt, Exchanging
<1>10. CASE SendTokens(r) \/ SendExperts(r) \/ SendBack(r)
  <2>1. /\ calls'[r] = calls[r] + 1 /\ pc[r] \in Exchanging
        /\ \/ pc[r] = "counts" /\ pc'[r] = "tokens"
           \/ pc[r] = "tokens" /\ pc'[r] = "experts"
           \/ pc[r] = "experts" /\ pc'[r] = "combine"
        /\ layer' = layer /\ pass' = pass
    BY <1>1, <1>10, SendingIs DEF Exchanging
  <2>2. Began(g, layer[r], calls[r] - Step(pc[r])) /\ Exchanges(r)
    BY <1>2, <2>1 DEF RoundAt
  <2>3. calls'[r] - Step(pc'[r]) = calls[r] - Step(pc[r])
    <3>1. /\ calls'[r] = calls[r] + 1 /\ calls[r] \in Nat
          /\ Step(pc'[r]) = Step(pc[r]) + 1 /\ Step(pc[r]) \in Nat
      BY <1>2, <2>1 DEF Step
    <3> QED BY <3>1
  <2>4. Exchanges(r)' /\ Began(g, layer'[r], calls'[r] - Step(pc'[r]))
    BY <1>5, <2>1, <2>2, <2>3
  <2> QED BY <2>1, <2>4 DEF RoundAt
<1>11. CASE MissExpert(r)
  <2>1. pc'[r] = "idle" /\ pass'[r] = Len(load[r]) + 1
    BY <1>1, <1>11 DEF MissExpert
  <2>2. ~(pass'[r] <= Len(load'[r]))
    BY <1>2, <1>3, <2>1
  <2> QED BY <2>1, <2>2 DEF RoundAt, Exchanging
<1>12. CASE EndExchange(r)
  <2>1. /\ calls' = calls /\ pc[r] = "combine" /\ pc'[r] = "idle" /\ pc[r] \in Exchanging
        /\ layer'[r] = IF layer[r] < Layers THEN layer[r] + 1 ELSE 1
        /\ pass'[r] = IF layer[r] < Layers THEN pass[r] ELSE pass[r] + 1
    BY <1>1, <1>12 DEF EndExchange, Leave, NextLayer, Exchanging
  <2>2. Began(g, layer[r], calls[r] - 4) /\ Exchanges(r)
    BY <1>2, <2>1 DEF RoundAt, Step
  <2>3. Began(g, layer'[r], calls'[r])
    <3>1. PICK l \in Layer, n \in Int : l = layer[r] /\ n = calls[r]
      BY <1>2
    <3>2. Began(g, IF l < Layers THEN l + 1 ELSE 1, n)
      BY <2>2, <3>1, BeganNext
    <3> QED BY <2>1, <3>1, <3>2
  <2>4. Exchanges(r)' \/ layer'[r] = 1
    BY <1>5, <2>1, <2>2
  <2>5. Began(g, IF Exchanges(r)' THEN layer'[r] ELSE 1, calls'[r])
    BY <2>3, <2>4
  <2> QED BY <2>1, <2>5 DEF RoundAt, Exchanging
<1>13. CASE Pipeline(r)
  <2>1. calls' = calls
    BY <1>13 DEF Pipeline, BeginPipeline, RaiseInPipeline, EndPipeline
  <2>2. /\ pc[r] \in {"idle", "execute"} /\ pass[r] <= Len(load[r])
        /\ ~TakesExchange(r) /\ ~Exchanges(r)
    <3>1. pc[r] = "execute" => pass[r] <= Len(load[r]) /\ ~TakesExchange(r)
      BY <1>2 DEF RoundAt, TablesInv, PlaceTypes, Busy
    <3>2. \/ pc[r] = "idle" /\ pass[r] <= Len(load[r]) /\ ~TakesExchange(r)
          \/ pc[r] = "execute"
      BY <1>13 DEF Pipeline, BeginPipeline, RaiseInPipeline, EndPipeline, Serving
    <3> QED BY <3>1, <3>2 DEF Exchanges
  <2>3. comm[r] = "up" /\ ~fault.group => Began(g, 1, calls[r])
    BY <1>2, <2>2 DEF RoundAt
  <2>4. CASE BeginPipeline(r)
    <3>1. pc'[r] = "execute" /\ pass' = pass
      BY <1>1, <2>4 DEF BeginPipeline
    <3> QED BY <1>5, <1>6, <2>1, <2>2, <2>3, <3>1
  <2>5. CASE RaiseInPipeline(r)
    <3>1. pc'[r] = "idle" /\ layer'[r] = 1
      BY <1>1, <2>5 DEF RaiseInPipeline, Abandon
    <3> QED BY <1>6, <2>1, <2>3, <3>1
  <2>6. CASE EndPipeline(r)
    <3>1. /\ pc'[r] = "idle"
          /\ layer'[r] = IF layer[r] < Layers THEN layer[r] + 1 ELSE 1
          /\ pass'[r] = IF layer[r] < Layers THEN pass[r] ELSE pass[r] + 1
      BY <1>1, <2>6 DEF EndPipeline, NextLayer
    <3>2. layer'[r] = 1 \/ ~Exchanges(r)'
      BY <1>5, <2>2, <3>1
    <3> QED BY <1>6, <2>1, <2>3, <3>1, <3>2
  <2> QED BY <1>13, <2>4, <2>5, <2>6 DEF Pipeline
<1> QED BY <1>7, <1>8, <1>9, <1>10, <1>11, <1>12, <1>13 DEF Exchange

LEMMA StepRounds ==
  ASSUME NEW g \in Nat, TablesInv, TablesInv', Phases(g), Jobs, Rounds(g), NEW r \in Rank,
         RankStep(r)
  PROVE  Rounds(g)'
BY BootRounds, PassRounds, RoundsKept DEF RankStep

-----------------------------------------------------------------------------
(* What the ranks hold and what waits for them, after a step.              *)

LEMMA ReceivedKept ==
  ASSUME Received, NEW r \in Rank, Alone(r), Apart(r), ReceivedAt(r)',
         \A q \in Rank : q # r /\ pc[q] = "experts" /\ pc'[r] \in Exchanging =>
           pc[r] \in Exchanging /\ Same(r)
  PROVE  Received'
<1> SUFFICES ASSUME NEW q \in Rank, q # r PROVE ReceivedAt(q)'
  BY DEF Received
<1>1. pc'[q] = pc[q] /\ job'[q] = job[q] /\ ReceivedAt(q)
  BY DEF Received, Alone
<1> SUFFICES ASSUME pc[q] = "experts", NEW s \in Rank, pc'[s] \in Exchanging,
                    NEW j \in 1 .. Announced(s, q)'
             PROVE  job[q].tokens[Offsets(job[q].recv)[s] + j] = TokenRow(s, q, j)'
  BY <1>1 DEF ReceivedAt
<1>2. pc[s] \in Exchanging /\ Same(s)
  BY DEF Apart
<1>3. Announced(s, q)' = Announced(s, q) /\ TokenRow(s, q, j)' = TokenRow(s, q, j)
  BY <1>2 DEF Same, Announced, TokenRow, Row, Activation
<1>4. job[q].tokens[Offsets(job[q].recv)[s] + j] = TokenRow(s, q, j)
  BY <1>1, <1>2, <1>3 DEF ReceivedAt
<1> QED BY <1>3, <1>4

LEMMA BootTrue ==
  ASSUME NEW g \in Nat, TablesInv, TablesInv', Phases(g), Jobs, Received, MailTrue(g),
         NEW r \in Rank, Boot(r)
  PROVE  Received' /\ MailTrue(g)'
<1>1. Alone(r) /\ Apart(r)
  BY AloneIs, ApartIs DEF RankStep
<1>2. Resting(g, r) /\ pc'[r] \notin Exchanging
  BY BootRests
<1>3. Received'
  BY <1>1, <1>2, ReceivedKept DEF ReceivedAt, Exchanging
<1>4. Onward /\ Gathers(g, r)
  BY BootCarries
<1>5. \A s, d \in Rank : StillTrue(g, s, d)
  BY <1>1, <1>2, <1>4, RestTrue DEF Onward
<1>6. ASSUME NEW p, CarriedWith(r, "gather", p), Kind(g, calls[r] + 1) = "gather"
      PROVE  MailTrue(g)'
  <2>1. PICK n : n = calls[r] + 1
    OBVIOUS
  <2>2. \A d \in Rank : Delivers(g, r, d, n, <<"gather", p[d]>>)'
    BY <1>6, <2>1 DEF Delivers
  <2> QED BY <1>5, <1>6, <2>1, <2>2, CarriedWithTrue
<1> QED BY <1>3, <1>4, <1>5, <1>6, CarriedTrue DEF Gathers

LEMMA PassTrue ==
  ASSUME NEW g \in Nat, TablesInv, TablesInv', Phases(g), Jobs, Received, MailTrue(g),
         NEW r \in Rank, Passes(r)
  PROVE  Received' /\ MailTrue(g)'
<1>1. Alone(r) /\ Apart(r)
  BY AloneIs, ApartIs DEF RankStep, Exchange, Passes
<1>2. Resting(g, r) /\ pc'[r] \notin Exchanging /\ Onward /\ Carried
  BY PassCarries
<1>3. Received'
  BY <1>1, <1>2, ReceivedKept DEF ReceivedAt, Exchanging
<1>4. \A s, d \in Rank : StillTrue(g, s, d)
  BY <1>1, <1>2, RestTrue DEF Onward
<1> QED BY <1>2, <1>3, <1>4, CarriedTrue

LEMMA BeginTrue ==
  ASSUME NEW g \in Nat, TablesInv, TablesInv', Phases(g), Jobs, Received, MailTrue(g),
         NEW r \in Rank,
         BeginExchange(r)
  PROVE  Received' /\ MailTrue(g)'
<1>1. Alone(r) /\ Apart(r)
  BY AloneIs, ApartIs DEF RankStep, Exchange
<1>2. /\ Resting(g, r) /\ pc'[r] = "counts" /\ Kind(g, calls[r] + 1) = "counts" /\ Onward
      /\ \A s \in Rank : s # r => pc[s] \notin {"tokens", "experts"}
  BY BeginCarries
<1>3. PICK flat \in Seq(Expert) : CarriedWith(r, "counts", SendCounts(flat))
  BY BeginCarries
<1>4. Received'
  BY <1>1, <1>2, ReceivedKept DEF ReceivedAt
<1>5. \A s, d \in Rank : StillTrue(g, s, d)
  BY <1>1, <1>2, RestTrue DEF Onward
<1>6. MailTrue(g)'
  <2>1. PICK p : p = SendCounts(flat)
    OBVIOUS
  <2>2. PICK n : n = calls[r] + 1
    OBVIOUS
  <2>3. \A d \in Rank : Delivers(g, r, d, n, <<"counts", p[d]>>)'
    BY <1>2, <2>2 DEF Delivers
  <2>4. CarriedWith(r, "counts", p)
    BY <1>3, <2>1
  <2> QED BY <1>5, <2>2, <2>3, <2>4, CarriedWithTrue
<1> QED BY <1>4, <1>6

LEMMA LeaveTrue ==
  ASSUME NEW g \in Nat, TablesInv, TablesInv', Phases(g), Jobs, Received, MailTrue(g),
         NEW r \in Rank,
         MissExpert(r) \/ EndExchange(r)
  PROVE  Received' /\ MailTrue(g)'
<1>1. Alone(r) /\ Apart(r)
  BY AloneIs, ApartIs DEF RankStep, Exchange
<1>2. /\ pc[r] \in {"experts", "combine"} /\ pc'[r] \notin Exchanging /\ Arrived(r) /\ Carried
      /\ \A d \in Rank : Finished'[d] = IF d = r THEN Finished[d] + 1 ELSE Finished[d]
  BY LeaveCarries
<1>3. Received'
  BY <1>1, <1>2, ReceivedKept DEF ReceivedAt, Exchanging
<1>4. \A s, d \in Rank : StillTrue(g, s, d)
  BY <1>1, <1>2, LeavingTrue
<1> QED BY <1>2, <1>3, <1>4, CarriedTrue

LEMMA PassOnTruly ==
  ASSUME NEW g \in Nat, TablesInv, TablesInv', Phases(g), MailTrue(g), NEW r \in Rank, Apart(r),
         Same(r),
         pc[r] \in Exchanging, NEW kind \in Exchanging, pc' = [pc EXCEPT ![r] = kind],
         UNCHANGED comm, NEW p, LeaveAndEnter(r, kind, p),
         NEW n, n = calls[r] + 1, \A d \in Rank : Delivers(g, r, d, n, <<kind, p[d]>>)'
  PROVE  MailTrue(g)'
<1>1. CarriedWith(r, kind, p)
  BY PassOnCarries DEF TablesInv
<1>2. \A s, d \in Rank : StillTrue(g, s, d)
  BY PassOnTrue
<1> QED BY <1>1, <1>2, CarriedWithTrue

LEMMA TokensTrue ==
  ASSUME NEW g \in Nat, TablesInv, TablesInv', Phases(g), Jobs, Received, MailTrue(g),
         NEW r \in Rank, SendTokens(r)
  PROVE  Received' /\ MailTrue(g)'
<1>1. /\ pc = [s \in Rank |-> pc[s]] /\ job = [s \in Rank |-> job[s]]
  BY DEF TablesInv, CollInv, Jobs
<1>2. Alone(r) /\ Apart(r)
  BY AloneIs, ApartIs DEF RankStep, Exchange
<1>3. PICK flat : flat = job[r].flat
  OBVIOUS
<1>4. PICK rows : rows = [j \in DOMAIN flat |-> Activation(r, TokenOf(Order(flat)[j]))]
  OBVIOUS
<1>5. PICK p : p = Split(rows, SendCounts(flat))
  OBVIOUS
<1>6. /\ pc[r] = "counts" /\ LeaveAndEnter(r, "tokens", p) /\ pc' = [pc EXCEPT ![r] = "tokens"]
      /\ job' = [job EXCEPT ![r].recv = Part(r)] /\ UNCHANGED <<comm, layer, pass>>
  BY <1>3, <1>4, <1>5 DEF SendTokens
<1>7. JobShape(job[r]) /\ flat \in Seq(Expert)
  BY <1>3, SameJob DEF JobShape
<1>8. pc[r] \in Exchanging /\ "tokens" \in Exchanging /\ pc'[r] = "tokens"
  BY <1>1, <1>6 DEF Exchanging
<1>9. job'[r].flat = flat
  <2>1. job'[r] = [job[r] EXCEPT !.recv = Part(r)]
    BY <1>1, <1>6
  <2> QED BY <1>3, <1>7, <2>1 DEF JobShape
<1>10. Same(r)
  BY <1>3, <1>6, <1>9 DEF Same
<1>11. Received'
  BY <1>2, <1>8, <1>10, ReceivedKept DEF ReceivedAt
<1>12. MailTrue(g)'
  <2>1. PICK n : n = calls[r] + 1
    OBVIOUS
  <2>2. Kind(g, n) = "tokens"
    BY <1>6, <1>8, <2>1, NextKind
  <2>3. ASSUME NEW d \in Rank, NEW j \in 1 .. SendCounts(flat)[d]
        PROVE  p[d][j] = TokenRow(r, d, j)
    <3>1. SendCounts(flat) \in Vectors /\ Offsets(SendCounts(flat))[WorldSize] = Len(flat)
      BY <1>7, GoingIs, AnnouncedAll
    <3>2. IsRows(rows, Len(flat))
      BY <1>4, <1>7 DEF IsRows
    <3>3. p[d][j] = rows[Offsets(SendCounts(flat))[d] + j]
      BY <1>5, <3>1, <3>2, PartRows
    <3>4. Offsets(SendCounts(flat))[d] + j \in DOMAIN flat
      BY <1>7, SortedTargets
    <3> QED BY <1>3, <1>4, <3>3, <3>4 DEF TokenRow, Row
  <2>4. ASSUME NEW d \in Rank PROVE Delivers(g, r, d, n, <<"tokens", p[d]>>)'
    <3>1. Announced(r, d)' = SendCounts(flat)[d]
      BY <1>9 DEF Announced
    <3>2. \A j : TokenRow(r, d, j)' = TokenRow(r, d, j)
      BY <1>10 DEF Same, TokenRow, Row, Activation
    <3> QED BY <2>2, <2>3, <3>1, <3>2 DEF Delivers
  <2> QED BY <1>2, <1>6, <1>8, <1>10, <2>1, <2>4, PassOnTruly
<1> QED BY <1>11, <1>12

LEMMA ExpertsTrue ==
  ASSUME NEW g \in Nat, TablesInv, TablesInv', Phases(g), Jobs, MailRight(g), Received, MailTrue(g),
         NEW r \in Rank,
         SendExperts(r)
  PROVE  Received' /\ MailTrue(g)'
<1>1. /\ pc = [s \in Rank |-> pc[s]] /\ job = [s \in Rank |-> job[s]]
  BY DEF TablesInv, CollInv, Jobs
<1>2. Alone(r) /\ Apart(r)
  BY AloneIs, ApartIs DEF RankStep, Exchange
<1>3. PICK flat : flat = job[r].flat
  OBVIOUS
<1>4. PICK ids : ids = [j \in DOMAIN flat |-> flat[Order(flat)[j]]]
  OBVIOUS
<1>5. PICK p : p = Split(ids, SendCounts(flat))
  OBVIOUS
<1>6. PICK tokens, recv : tokens = Concat(Part(r)) /\ recv = job[r].recv
  OBVIOUS
<1>7. /\ pc[r] = "tokens" /\ LeaveAndEnter(r, "experts", p) /\ pc' = [pc EXCEPT ![r] = "experts"]
      /\ job' = [job EXCEPT ![r].tokens = tokens] /\ UNCHANGED <<comm, layer, pass>> /\ Arrived(r)
  BY <1>3, <1>4, <1>5, <1>6 DEF SendExperts, LeaveAndEnter, Matched
<1>8. JobShape(job[r]) /\ flat \in Seq(Expert) /\ recv \in Vectors
  BY <1>3, <1>6, SameJob DEF JobShape
<1>9. pc[r] \in Exchanging /\ "experts" \in Exchanging /\ pc'[r] = "experts"
  BY <1>1, <1>7 DEF Exchanging
<1>10. job'[r].flat = flat /\ job'[r].recv = recv /\ job'[r].tokens = tokens
  <2>1. job'[r] = [job[r] EXCEPT !.tokens = tokens]
    BY <1>1, <1>7
  <2> QED BY <1>3, <1>6, <1>8, <2>1 DEF JobShape
<1>11. Same(r)
  BY <1>3, <1>7, <1>10 DEF Same
<1>12. ASSUME NEW s \in Rank, NEW d \in Rank
       PROVE  Announced(s, d)' = Announced(s, d) /\ \A j : TokenRow(s, d, j)' = TokenRow(s, d, j)
                                                           /\ ExpertRow(s, d, j)' = ExpertRow(s, d, j)
  <2>1. Same(s)
    BY <1>2, <1>11 DEF Apart
  <2> QED BY <2>1 DEF Same, Announced, TokenRow, ExpertRow, Row, Activation
<1>13. /\ Kind(g, calls[r]) = "tokens" /\ Finished[r] = calls[r] - 1
       /\ \A s \in Rank : pc[s] \in Exchanging
  BY <1>7, <1>9, ExchangingPhase, Together
<1>14. ASSUME NEW s \in Rank
       PROVE  /\ recv[s] = Announced(s, r) /\ IsRows(Part(r)[s], recv[s])
              /\ \A j \in 1 .. recv[s] : Part(r)[s][j] = TokenRow(s, r, j)
  <2>1. recv[s] = Announced(s, r)
    BY <1>6, <1>7, <1>13, JobsAre DEF Told
  <2>2. Carries(g, s, r, calls[r], Head(mail[s][r])) /\ Part(r)[s] = Head(mail[s][r])[2]
    BY <1>7, <1>13, Heads
  <2>3. Delivers(g, s, r, calls[r], Head(mail[s][r]))
    BY <1>7, <1>13, HeadsTrue
  <2> QED BY <1>13, <2>1, <2>2, <2>3 DEF Carries, Delivers
<1>15. ReceivedAt(r)'
  <2> SUFFICES ASSUME NEW s \in Rank, NEW j \in 1 .. Announced(s, r)'
               PROVE  job'[r].tokens[Offsets(job'[r].recv)[s] + j] = TokenRow(s, r, j)'
    BY DEF ReceivedAt
  <2>1. j \in 1 .. recv[s]
    BY <1>12, <1>14
  <2>2. tokens[Offsets(recv)[s] + j] = Part(r)[s][j]
    BY <1>6, <1>8, <1>14, <2>1, ConcatIs
  <2> QED BY <1>10, <1>12, <1>14, <2>1, <2>2
<1>16. Received'
  BY <1>2, <1>9, <1>11, <1>15, ReceivedKept
<1>17. MailTrue(g)'
  <2>1. PICK n : n = calls[r] + 1
    OBVIOUS
  <2>2. Kind(g, n) = "experts"
    BY <1>7, <1>9, <2>1, NextKind
  <2>3. ASSUME NEW d \in Rank, NEW j \in 1 .. SendCounts(flat)[d]
        PROVE  p[d][j] = ExpertRow(r, d, j)
    <3>1. SendCounts(flat) \in Vectors /\ Offsets(SendCounts(flat))[WorldSize] = Len(flat)
      BY <1>8, GoingIs, AnnouncedAll
    <3>2. IsRows(ids, Len(flat))
      BY <1>4, <1>8 DEF IsRows
    <3>3. p[d][j] = ids[Offsets(SendCounts(flat))[d] + j]
      BY <1>5, <3>1, <3>2, PartRows
    <3>4. Offsets(SendCounts(flat))[d] + j \in DOMAIN flat
      BY <1>8, SortedTargets
    <3> QED BY <1>3, <1>4, <3>3, <3>4 DEF ExpertRow, Row
  <2>4. ASSUME NEW d \in Rank PROVE Delivers(g, r, d, n, <<"experts", p[d]>>)'
    <3>1. Announced(r, d)' = SendCounts(flat)[d]
      BY <1>10 DEF Announced
    <3>2. \A j : ExpertRow(r, d, j)' = ExpertRow(r, d, j)
      BY <1>12
    <3> QED BY <2>2, <2>3, <3>1, <3>2 DEF Delivers
  <2> QED BY <1>2, <1>7, <1>9, <1>11, <2>1, <2>4, PassOnTruly
<1> QED BY <1>16, <1>17

\* The rows a rank computes for a peer in the exchange: of the experts it owns,
\* in the layer of the peer.
LEMMA RowsComputed ==
  ASSUME NEW g \in Nat, TablesInv, Phases(g), Rounds(g), Jobs, MailRight(g), Received, MailTrue(g),
         NEW r \in Rank,
         pc[r] = "experts", Arrived(r), NEW d \in Rank, pc[d] \in Exchanging,
         NEW j \in 1 .. Announced(d, r)
  PROVE  /\ Offsets(job[r].recv)[d] + j \in DOMAIN job[r].tokens
         /\ Compute(r, job[r].tokens, Concat(Part(r)))[Offsets(job[r].recv)[d] + j]
              = ResultRow(d, r, j)
<1>1. PICK recv, experts, k : /\ recv = job[r].recv /\ experts = Concat(Part(r))
                              /\ k = Offsets(recv)[d] + j
  OBVIOUS
<1>2. recv \in Vectors /\ job[d].flat \in Seq(Expert)
  BY <1>1, SameJob DEF JobShape
<1>3. recv[d] = Announced(d, r)
  BY <1>1, JobsAre DEF Told
<1>4. Kind(g, calls[r]) = "experts" /\ Finished[r] = calls[r] - 1
  BY ExchangingPhase DEF Exchanging
<1>5. \A s \in Rank : IsRows(Part(r)[s], recv[s])
  BY <1>1, <1>4, Heads DEF Carries
<1>6. Part(r)[d][j] = ExpertRow(d, r, j)
  <2>1. Delivers(g, d, r, calls[r], Head(mail[d][r])) /\ Part(r)[d] = Head(mail[d][r])[2]
    BY <1>4, HeadsTrue
  <2> QED BY <1>4, <2>1 DEF Delivers
<1>7. experts[k] = ExpertRow(d, r, j)
  BY <1>1, <1>2, <1>3, <1>5, <1>6, ConcatIs
<1>8. job[r].tokens[k] = TokenRow(d, r, j)
  BY <1>1 DEF Received, ReceivedAt
<1>9. k \in DOMAIN job[r].tokens
  <2>1. k \in 1 .. Offsets(recv)[WorldSize]
    BY <1>1, <1>2, <1>3, RowsWithin
  <2>2. IsRows(job[r].tokens, Offsets(recv)[WorldSize])
    BY <1>1, JobsAre
  <2> QED BY <2>1, <2>2 DEF IsRows
<1>10. ExpertRow(d, r, j) \in Block(r, NumExperts)
  <2>1. Row(d, r, j) \in DOMAIN job[d].flat /\ Target(job[d].flat, Row(d, r, j)) = r
    BY <1>2, SortedTargets DEF Row, Announced
  <2>2. ExpertRow(d, r, j) \in Expert /\ BlockOwner(ExpertRow(d, r, j), NumExperts) = r
    BY <1>2, <2>1 DEF ExpertRow, Target
  <2> QED BY <2>2, OwnBlock
<1>11. layer[d] = layer[r]
  BY PeersLayer
<1>12. Compute(r, job[r].tokens, experts)[k]
         = [act |-> TokenRow(d, r, j), expert |-> ExpertRow(d, r, j), by |-> r, layer |-> layer[r]]
  BY <1>7, <1>8, <1>9, <1>10 DEF Compute
<1> QED BY <1>1, <1>9, <1>11, <1>12 DEF ResultRow

LEMMA BackTrue ==
  ASSUME NEW g \in Nat, TablesInv, TablesInv', Phases(g), Rounds(g), Jobs, MailRight(g), Received,
         MailTrue(g),
         NEW r \in Rank, SendBack(r)
  PROVE  Received' /\ MailTrue(g)'
<1>1. /\ pc = [s \in Rank |-> pc[s]] /\ job = [s \in Rank |-> job[s]]
  BY DEF TablesInv, CollInv, Jobs
<1>2. Alone(r) /\ Apart(r)
  BY AloneIs, ApartIs DEF RankStep, Exchange
<1>3. PICK recv, rows, p : /\ recv = job[r].recv
                           /\ rows = Compute(r, job[r].tokens, Concat(Part(r)))
                           /\ p = Split(rows, recv)
  OBVIOUS
<1>4. /\ pc[r] = "experts" /\ LeaveAndEnter(r, "combine", p) /\ pc' = [pc EXCEPT ![r] = "combine"]
      /\ job' = job /\ UNCHANGED <<comm, layer, pass>> /\ Arrived(r)
  BY <1>3 DEF SendBack, Matched, forwardVars
<1>5. pc[r] \in Exchanging /\ "combine" \in Exchanging /\ pc'[r] = "combine" /\ Same(r)
  BY <1>1, <1>4 DEF Exchanging, Same
<1>6. Received'
  BY <1>2, <1>5, ReceivedKept DEF ReceivedAt
<1>7. PICK n : n = calls[r] + 1
  OBVIOUS
<1>8. Kind(g, n) = "combine"
  BY <1>4, <1>5, <1>7, NextKind
<1>9. ASSUME NEW d \in Rank, pc[d] \in Exchanging, NEW j \in 1 .. Announced(d, r)
      PROVE  p[d][j] = ResultRow(d, r, j)
  <2>1. recv \in Vectors /\ recv[d] = Announced(d, r)
    <3>1. JobShape(job[r]) /\ Told(r, d)
      BY JobsAre
    <3> QED BY <1>3, <1>4, <1>9, <3>1 DEF Told, JobShape
  <2>2. IsRows(rows, Offsets(recv)[WorldSize])
    <3>1. IsRows(job[r].tokens, Offsets(recv)[WorldSize])
      BY <1>3, <1>4, JobsAre
    <3> QED BY <1>3, <3>1 DEF IsRows, Compute
  <2>3. p[d][j] = rows[Offsets(recv)[d] + j]
    BY <1>3, <2>1, <2>2, PartRows
  <2> QED BY <1>3, <1>4, <1>9, <2>3, RowsComputed
<1>10. ASSUME NEW d \in Rank PROVE Delivers(g, r, d, n, <<"combine", p[d]>>)'
  <2>1. pc'[d] \in Exchanging => pc[d] \in Exchanging
    BY <1>2, <1>5 DEF Apart
  <2>2. Announced(d, r)' = Announced(d, r) /\ \A j : ResultRow(d, r, j)' = ResultRow(d, r, j)
    BY <1>4 DEF Announced, ResultRow, TokenRow, ExpertRow, Row, Activation
  <2> QED BY <1>8, <1>9, <2>1, <2>2 DEF Delivers
<1>11. MailTrue(g)'
  BY <1>2, <1>4, <1>5, <1>7, <1>10, PassOnTruly
<1> QED BY <1>6, <1>11

LEMMA StepTrue ==
  ASSUME NEW g \in Nat, TablesInv, TablesInv', Phases(g), Rounds(g), Jobs, MailRight(g), Received,
         MailTrue(g),
         NEW r \in Rank, RankStep(r)
  PROVE  Received' /\ MailTrue(g)'
BY BootTrue, PassTrue, BeginTrue, TokensTrue, ExpertsTrue, BackTrue, LeaveTrue
   DEF RankStep, Exchange, Passes

-----------------------------------------------------------------------------
(* What a forward returns.                                                 *)

\* What an output's rows say of the assignments, of rank r.
RightOut(r, o) ==
  /\ {o.rows[j].assignment : j \in DOMAIN o.rows} = DOMAIN o.flat
  /\ Len(o.rows) = Len(o.flat)
  /\ \A j \in DOMAIN o.rows :
     LET i == o.rows[j].assignment IN
     o.rows[j].value =
       [act |-> <<r, o.pass, o.layer, TokenOf(i)>>, expert |-> o.flat[i],
        by |-> IF o.exchange THEN BlockOwner(o.flat[i], NumExperts) ELSE r,
        layer |-> o.layer]

Outs == out = [r \in Rank |-> out[r]] /\ \A r \in Rank : RightOut(r, out[r])

LEMMA OutsRight == Outs => OutputsRight
BY DEF Outs, RightOut, OutputsRight

LEMMA OutsSet ==
  ASSUME Outs, NEW r \in Rank, NEW o, RightOut(r, o), out' = [out EXCEPT ![r] = o]
  PROVE  Outs'
<1>1. out = [q \in Rank |-> out[q]] /\ \A q \in Rank : RightOut(q, out[q])
  BY DEF Outs
<1>2. out' = [q \in Rank |-> out'[q]] /\ \A q \in Rank : out'[q] = IF q = r THEN o ELSE out[q]
  BY <1>1
<1>3. \A q \in Rank : RightOut(q, out'[q])
  BY <1>1, <1>2
<1> QED BY <1>2, <1>3 DEF Outs

LEMMA NothingReturned == \A r : RightOut(r, NoOut)
BY DEF RightOut, NoOut

\* An output whose k-th row is of assignment order[k].
Permutes(order, flat) == {order[k] : k \in DOMAIN flat} = DOMAIN flat
Output(p, l, x, flat, order, rows) ==
  [pass |-> p, layer |-> l, exchange |-> x, flat |-> flat,
   rows |-> [k \in DOMAIN rows |-> [assignment |-> order[k], value |-> rows[k]]]]
Values(r, p, l, x, flat, order) ==
  [k \in DOMAIN flat |->
     [act |-> <<r, p, l, TokenOf(order[k])>>, expert |-> flat[order[k]],
      by |-> IF x THEN BlockOwner(flat[order[k]], NumExperts) ELSE r, layer |-> l]]

\* The rows of an output: a permutation of the assignments, each with its value.
LEMMA RowsMake ==
  ASSUME NEW r, NEW p, NEW l, NEW x \in BOOLEAN, NEW flat \in Seq(Expert), NEW order, NEW rows,
         IsRows(rows, Len(flat)),
         Permutes(order, flat),
         \A k \in DOMAIN flat : rows[k] = Values(r, p, l, x, flat, order)[k]
  PROVE  RightOut(r, Output(p, l, x, flat, order, rows))
<1> DEFINE all == [k \in DOMAIN rows |-> [assignment |-> order[k], value |-> rows[k]]]
           o == [pass |-> p, layer |-> l, exchange |-> x, flat |-> flat, rows |-> all]
<1>0. Output(p, l, x, flat, order, rows) = o
  BY DEF Output
<1>1. DOMAIN rows = DOMAIN flat /\ DOMAIN rows = 1 .. Len(flat) /\ Len(flat) \in Nat
  BY DEF IsRows
<1>2. /\ DOMAIN all = DOMAIN flat
      /\ \A k \in DOMAIN all : all[k].assignment = order[k] /\ all[k].value = rows[k]
  BY <1>1
<1>3. Len(all) = Len(flat)
  BY <1>1
<1> HIDE DEF all
<1>4. o.pass = p /\ o.layer = l /\ o.exchange = x /\ o.flat = flat /\ o.rows = all
  OBVIOUS
<1> HIDE DEF o
<1>5. {o.rows[j].assignment : j \in DOMAIN o.rows} = DOMAIN o.flat
  <2>1. \A j \in DOMAIN all : all[j].assignment = order[j]
    BY <1>2
  <2>2. {all[j].assignment : j \in DOMAIN all} = {order[k] : k \in DOMAIN flat}
    BY <1>2, <2>1
  <2> QED BY <1>4, <2>2 DEF Permutes
<1>6. ASSUME NEW j \in DOMAIN o.rows
      PROVE  LET i == o.rows[j].assignment IN
             o.rows[j].value =
               [act |-> <<r, o.pass, o.layer, TokenOf(i)>>, expert |-> o.flat[i],
                by |-> IF o.exchange THEN BlockOwner(o.flat[i], NumExperts) ELSE r,
                layer |-> o.layer]
  <2>1. j \in DOMAIN flat /\ o.rows[j].assignment = order[j] /\ o.rows[j].value = rows[j]
    BY <1>2, <1>4
  <2>2. rows[j] = [act |-> <<r, p, l, TokenOf(order[j])>>, expert |-> flat[order[j]],
            by |-> IF x THEN BlockOwner(flat[order[j]], NumExperts) ELSE r, layer |-> l]
    BY <2>1 DEF Values
  <2> QED BY <1>4, <2>1, <2>2
<1>7. RightOut(r, o)
  BY <1>3, <1>4, <1>5, <1>6 DEF RightOut
<1> QED BY <1>0, <1>7

\* What comes back from an exchange, in the sorted order.
LEMMA RowsReturned ==
  ASSUME NEW g \in Nat, TablesInv, Phases(g), Jobs, MailRight(g), MailTrue(g), NEW r \in Rank,
         pc[r] = "combine", Arrived(r), NEW flat, flat = job[r].flat
  PROVE  /\ flat \in Seq(Expert) /\ IsRows(Concat(Part(r)), Len(flat))
         /\ \A k \in DOMAIN flat : Concat(Part(r))[k] =
              [act |-> Activation(r, TokenOf(Order(flat)[k])), expert |-> flat[Order(flat)[k]],
               by |-> BlockOwner(flat[Order(flat)[k]], NumExperts), layer |-> layer[r]]
<1>1. flat \in Seq(Expert)
  BY SameJob DEF JobShape
<1>2. PICK c : c = SendCounts(flat)
  OBVIOUS
<1>3. c \in Vectors /\ Offsets(c)[WorldSize] = Len(flat)
  BY <1>1, <1>2, GoingIs, AnnouncedAll
<1>4. pc[r] \in Exchanging /\ Kind(g, calls[r]) = "combine" /\ Finished[r] = calls[r] - 1
  BY ExchangingPhase DEF Exchanging
<1>5. ASSUME NEW q \in Rank
      PROVE  /\ IsRows(Part(r)[q], c[q])
             /\ \A j \in 1 .. c[q] : Part(r)[q][j] = ResultRow(r, q, j)
  <2>1. Carries(g, q, r, calls[r], Head(mail[q][r])) /\ Part(r)[q] = Head(mail[q][r])[2]
    BY <1>4, Heads
  <2>2. Delivers(g, q, r, calls[r], Head(mail[q][r]))
    BY <1>4, HeadsTrue
  <2>3. Announced(r, q) = c[q]
    BY <1>2 DEF Announced
  <2> QED BY <1>4, <2>1, <2>2, <2>3 DEF Carries, Delivers
<1>6. /\ IsRows(Concat(Part(r)), Len(flat))
      /\ \A q \in Rank : \A j \in 1 .. c[q] :
           Concat(Part(r))[Offsets(c)[q] + j] = ResultRow(r, q, j)
  BY <1>3, <1>5, ConcatIs
<1>7. ASSUME NEW k \in DOMAIN flat
      PROVE  Concat(Part(r))[k] =
              [act |-> Activation(r, TokenOf(Order(flat)[k])), expert |-> flat[Order(flat)[k]],
               by |-> BlockOwner(flat[Order(flat)[k]], NumExperts), layer |-> layer[r]]
  <2>1. k \in 1 .. Offsets(c)[WorldSize]
    BY <1>1, <1>3
  <2>2. PICK q \in Rank : \E j \in 1 .. c[q] : k = Offsets(c)[q] + j
    BY <1>3, <2>1, RowOfRank
  <2>3. PICK j \in 1 .. c[q] : k = Offsets(c)[q] + j
    BY <2>2
  <2>4. Row(r, q, j) = Order(flat)[k]
    BY <1>2, <2>3 DEF Row
  <2>5. Target(flat, Order(flat)[k]) = q
    BY <1>1, <1>2, <2>3, SortedTargets
  <2>6. BlockOwner(flat[Order(flat)[k]], NumExperts) = q
    BY <2>5 DEF Target
  <2>7. Concat(Part(r))[k] = ResultRow(r, q, j)
    BY <1>6, <2>3
  <2> QED BY <2>4, <2>6, <2>7 DEF ResultRow, TokenRow, ExpertRow
<1> QED BY <1>1, <1>6, <1>7

LEMMA EndExchangeOuts ==
  ASSUME NEW g \in Nat, TablesInv, Phases(g), Jobs, MailRight(g), MailTrue(g), Outs, NEW r \in Rank,
         EndExchange(r)
  PROVE  Outs'
<1>1. PICK flat, rows : flat = job[r].flat /\ rows = Concat(Part(r))
  OBVIOUS
<1>2. PICK p, l : p = pass[r] /\ l = layer[r]
  OBVIOUS
<1>3. /\ pc[r] = "combine" /\ Arrived(r)
      /\ out' = [out EXCEPT ![r] =
           [pass |-> p, layer |-> l, exchange |-> TRUE, flat |-> flat,
            rows |-> [j \in DOMAIN rows |-> [assignment |-> Order(flat)[j], value |-> rows[j]]]]]
  BY <1>1, <1>2 DEF EndExchange, Leave, Matched
<1>4. /\ flat \in Seq(Expert) /\ IsRows(rows, Len(flat))
      /\ \A k \in DOMAIN flat : rows[k] =
           [act |-> Activation(r, TokenOf(Order(flat)[k])), expert |-> flat[Order(flat)[k]],
            by |-> BlockOwner(flat[Order(flat)[k]], NumExperts), layer |-> layer[r]]
  BY <1>1, <1>3, RowsReturned
<1>5. Permutes(Order(flat), flat)
  <2>1. \A k \in DOMAIN flat : Order(flat)[k] \in DOMAIN flat
    BY <1>4, OrderIs
  <2>2. \A i \in DOMAIN flat : Place(flat, i) \in DOMAIN flat /\ Order(flat)[Place(flat, i)] = i
    BY <1>4, OrderIs
  <2> QED BY <2>1, <2>2 DEF Permutes
<1>6. PICK order, x, o : /\ order = Order(flat) /\ x = TRUE /\ x \in BOOLEAN
                        /\ o = Output(p, l, x, flat, order, rows)
  OBVIOUS
<1>7. \A k \in DOMAIN flat : rows[k] = Values(r, p, l, x, flat, order)[k]
  BY <1>2, <1>4, <1>6 DEF Activation, Values
<1>8. RightOut(r, o)
  BY <1>4, <1>5, <1>6, <1>7, RowsMake
<1>9. out' = [out EXCEPT ![r] = o]
  BY <1>3, <1>6 DEF Output
<1> QED BY <1>8, <1>9, OutsSet

LEMMA EndPipelineOuts ==
  ASSUME TablesInv, Jobs, Outs, NEW r \in Rank, EndPipeline(r)
  PROVE  Outs'
<1>1. PICK flat, p, l : flat = job[r].flat /\ p = pass[r] /\ l = layer[r]
  OBVIOUS
<1>2. flat \in Seq(Expert)
  BY <1>1, SameJob DEF JobShape
<1>3. PICK order, x, rows, o :
        /\ order = [i \in DOMAIN flat |-> i] /\ x = FALSE /\ x \in BOOLEAN
        /\ rows = Values(r, p, l, x, flat, order) /\ o = Output(p, l, x, flat, order, rows)
  OBVIOUS
<1>4. rows = [i \in DOMAIN flat |->
        [act |-> Activation(r, TokenOf(i)), expert |-> flat[i], by |-> r, layer |-> layer[r]]]
  BY <1>1, <1>3 DEF Values, Activation
<1>5. o = [pass |-> pass[r], layer |-> layer[r], exchange |-> FALSE, flat |-> flat,
        rows |-> [i \in DOMAIN flat |->
          [assignment |-> i,
           value |-> [act |-> Activation(r, TokenOf(i)), expert |-> flat[i],
                      by |-> r, layer |-> layer[r]]]]]
  BY <1>1, <1>3, <1>4 DEF Output
<1>6. out' = [out EXCEPT ![r] = o]
  BY <1>1, <1>5 DEF EndPipeline
<1>7. IsRows(rows, Len(flat))
  BY <1>2, <1>4 DEF IsRows
<1>8. Permutes(order, flat)
  BY <1>3 DEF Permutes
<1>9. RightOut(r, o)
  BY <1>2, <1>3, <1>7, <1>8, RowsMake
<1> QED BY <1>6, <1>9, OutsSet

LEMMA StepOuts ==
  ASSUME NEW g \in Nat, TablesInv, Phases(g), Jobs, MailRight(g), MailTrue(g), Outs, NEW r \in Rank,
         RankStep(r)
  PROVE  Outs'
<1>1. ASSUME out' = out PROVE Outs'
  BY <1>1 DEF Outs, RightOut
<1>2. CASE Boot(r)
  BY <1>1, <1>2 DEF Boot, InitGroup, BeginGather, EndGather, LoseGather, CutGather, Attach,
     forwardVars
<1>3. CASE Exchange(r)
  <2>1. CASE RefuseShape(r) \/ RefuseExchange(r) \/ BeginExchange(r) \/ SendTokens(r)
              \/ SendExperts(r) \/ SendBack(r) \/ MissExpert(r)
    BY <1>1, <2>1 DEF RefuseShape, RefuseExchange, BeginExchange, SendTokens, SendExperts,
                      SendBack, MissExpert, forwardVars
  <2> QED BY <1>3, <2>1, EndExchangeOuts DEF Exchange
<1>4. CASE Pipeline(r)
  <2>1. CASE BeginPipeline(r) \/ RaiseInPipeline(r)
    BY <1>1, <2>1 DEF BeginPipeline, RaiseInPipeline
  <2> QED BY <1>4, <2>1, EndPipelineOuts DEF Pipeline
<1> QED BY <1>2, <1>3, <1>4 DEF RankStep

-----------------------------------------------------------------------------
ResultsInv(g) == SplitsInv(g) /\ Rounds(g) /\ Received /\ MailTrue(g) /\ Outs

LEMMA ResultsInvInit ==
  ASSUME NEW g \in Nat, \A r \in Rank : Nth[r][Layers] = g, Init
  PROVE  ResultsInv(g)
<1>1. SplitsInv(g)
  BY SplitsInvInit
<1>2. /\ pc = [r \in Rank |-> "init"] /\ mail = [r \in Rank |-> [q \in Rank |-> <<>>]]
      /\ out = [r \in Rank |-> NoOut]
  BY DEF Init
<1>3. Rounds(g)
  BY <1>2 DEF Rounds, RoundAt, Exchanging
<1>4. Received
  BY <1>2 DEF Received, ReceivedAt
<1>5. MailTrue(g)
  <2>1. \A s, r \in Rank : Pending(s, r) = 0
    BY <1>2 DEF Pending
  <2> QED BY <2>1 DEF MailTrue
<1>6. Outs
  BY <1>2, NothingReturned DEF Outs
<1> QED BY <1>1, <1>3, <1>4, <1>5, <1>6 DEF ResultsInv

LEMMA ResultsInvNext ==
  ASSUME NEW g \in Nat, ResultsInv(g), [Next]_vars
  PROVE  ResultsInv(g)'
<1>1. SplitsInv(g) /\ SplitsInv(g)'
  BY SplitsInvNext DEF ResultsInv
<1>2. /\ TablesInv /\ TablesInv' /\ Phases(g) /\ Jobs /\ MailRight(g)
      /\ Rounds(g) /\ Received /\ MailTrue(g) /\ Outs
  BY <1>1 DEF SplitsInv, ResultsInv
<1>3. CASE UNCHANGED vars
  <2>1. /\ pc' = pc /\ calls' = calls /\ comm' = comm /\ pass' = pass /\ load' = load
        /\ layer' = layer /\ fault' = fault /\ job' = job /\ mail' = mail /\ out' = out
    BY <1>3 DEF vars, config, forwardVars
  <2>2. Finished' = Finished
    BY <2>1 DEF Finished, Waiting
  <2>3. Rounds(g)'
    BY <1>2, <2>1 DEF Rounds, RoundAt, Exchanges, TakesExchange, Batch
  <2>4. \A s, d : /\ Announced(s, d)' = Announced(s, d)
                  /\ \A j : /\ TokenRow(s, d, j)' = TokenRow(s, d, j)
                            /\ ExpertRow(s, d, j)' = ExpertRow(s, d, j)
                            /\ ResultRow(s, d, j)' = ResultRow(s, d, j)
    BY <2>1 DEF Announced, TokenRow, ExpertRow, ResultRow, Row, Activation
  <2>5. Received'
    BY <1>2, <2>1, <2>4 DEF Received, ReceivedAt
  <2>6. MailTrue(g)'
    BY <1>2, <2>1, <2>2, <2>4 DEF MailTrue, Delivers, Pending
  <2>7. Outs'
    BY <1>2, <2>1 DEF Outs, RightOut
  <2> QED BY <1>1, <2>3, <2>5, <2>6, <2>7 DEF ResultsInv
<1>4. CASE Next
  <2>1. PICK r \in Rank : RankStep(r)
    BY <1>4 DEF Next
  <2>2. Rounds(g)' /\ Received' /\ MailTrue(g)' /\ Outs'
    BY <1>2, <2>1, StepRounds, StepTrue, StepOuts
  <2> QED BY <1>1, <2>2 DEF ResultsInv
<1> QED BY <1>3, <1>4

-----------------------------------------------------------------------------
(* The results, in and out of step.                                        *)

LEMMA StuckOuts ==
  ASSUME TablesInv, Jobs, Outs, NEW r \in Rank, Boot(r) \/ Passes(r) \/ BeginExchange(r)
  PROVE  Outs'
<1>1. ASSUME out' = out PROVE Outs'
  BY <1>1 DEF Outs, RightOut
<1>2. CASE EndPipeline(r)
  BY <1>2, EndPipelineOuts
<1>3. CASE ~EndPipeline(r)
  <2>1. Boot(r) => out' = out
    BY DEF Boot, InitGroup, BeginGather, EndGather, LoseGather, CutGather, Attach, forwardVars
  <2>2. RefuseShape(r) \/ RefuseExchange(r) \/ BeginExchange(r) => out' = out
    BY DEF RefuseShape, RefuseExchange, BeginExchange, forwardVars
  <2>3. BeginPipeline(r) \/ RaiseInPipeline(r) => out' = out
    BY DEF BeginPipeline, RaiseInPipeline
  <2> QED BY <1>1, <1>3, <2>1, <2>2, <2>3 DEF Passes, Pipeline
<1> QED BY <1>2, <1>3

Returning ==
  /\ Meeting
  /\ \A g \in Nat : (\A r \in Rank : Nth[r][Layers] = g) => ResultsInv(g)
  /\ ~InStep => Outs

LEMMA ReturningInit == Init => Returning
<1> SUFFICES ASSUME Init PROVE Returning
  OBVIOUS
<1>1. \A g \in Nat : (\A r \in Rank : Nth[r][Layers] = g) => ResultsInv(g)
  BY ResultsInvInit
<1>2. Outs
  BY NothingReturned DEF Init, Outs
<1> QED BY <1>1, <1>2, MeetingInit DEF Returning

LEMMA ReturningNext == Returning /\ [Next]_vars => Returning'
<1> SUFFICES ASSUME Returning, [Next]_vars PROVE Returning'
  OBVIOUS
<1>1. Meeting /\ Meeting'
  BY MeetingNext DEF Returning
<1>2. held' = held /\ fault' = fault
  <2>1. CASE Next
    BY <2>1, SameConfig DEF Next
  <2>2. CASE UNCHANGED vars
    BY <2>2 DEF vars, config
  <2> QED BY <2>1, <2>2
<1>3. Nth' = Nth /\ InStep' = InStep
  BY <1>2, ConstantIs, StaysOutOfStep DEF Constant
<1>4. ASSUME NEW g \in Nat, \A r \in Rank : Nth'[r][Layers] = g PROVE ResultsInv(g)'
  <2>1. ResultsInv(g)
    BY <1>3, <1>4 DEF Returning
  <2> QED BY <2>1, ResultsInvNext
<1>5. ASSUME ~InStep PROVE Outs'
  <2>1. TablesInv /\ Jobs /\ Stuck /\ Outs
    BY <1>5 DEF Meeting, Returning
  <2>2. CASE Next
    <3>1. PICK r \in Rank : RankStep(r)
      BY <2>2 DEF Next
    <3>2. Boot(r) \/ Passes(r) \/ BeginExchange(r)
      BY <1>5, <2>1, <3>1, StuckStep
    <3> QED BY <2>1, <3>2, StuckOuts
  <2>3. CASE UNCHANGED vars
    <3>1. out' = out
      BY <2>3 DEF vars, forwardVars
    <3> QED BY <2>1, <3>1 DEF Outs, RightOut
  <2> QED BY <2>2, <2>3
<1>6. \A g \in Nat : (\A r \in Rank : Nth'[r][Layers] = g) => ResultsInv(g)'
  BY <1>4
<1>7. ~InStep' => Outs'
  BY <1>3, <1>5
<1> QED BY <1>1, <1>6, <1>7 DEF Returning

LEMMA ReturningRight == Returning => OutputsRight
<1> SUFFICES ASSUME Returning PROVE OutputsRight
  OBVIOUS
<1>1. CASE InStep
  <2>1. PICK g \in Nat : \A r \in Rank : Nth[r][Layers] = g
    BY <1>1, InStepIs
  <2>2. ResultsInv(g)
    BY <2>1 DEF Returning
  <2> QED BY <2>2, OutsRight DEF ResultsInv
<1>2. CASE ~InStep
  BY <1>2, OutsRight DEF Returning
<1> QED BY <1>1, <1>2

\* For any number of ranks and experts, any routing, any loads and any fault at
\* load time: a forward that returns gives each assignment of each token once,
\* with the result of its expert of this layer on this rank's activation of that
\* token, computed by the rank that owns the expert, or by this rank in the
\* pipeline. It holds too when the ranks disagree which passes are exchanges, and
\* when the gathers they skipped put them out of step.
THEOREM ResultsAreRight == Spec => []OutputsRight
<1> QED BY ReturningInit, ReturningNext, ReturningRight, PTL DEF Spec

=============================================================================
