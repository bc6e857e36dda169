---------------------------- MODULE OutboxProofs ----------------------------
(***************************************************************************)
(* Outbox for any set of rows, schedulers and tokens: the invariants of    *)
(* the runs, and that the table implements WorkLedger.                     *)
(***************************************************************************)
EXTENDS Outbox, TLAPS

USE OutboxConstants

\* A cycle holds claims only while it works its batch; between batches nothing of the
\* last one is left.  Without it a revoked claim could be confused with a null lease.
CycleShape ==
  \A w \in Workers : pc[w] # "work" =>
    batch[w] = {} /\ current[w] = NoItem /\ outdated[w] = {}

\* The inductive invariant.
IInv ==
  TypeOK /\ LeaseCoherent /\ TokensDistinct /\ NoLeaseLeftBehind /\ OutdatedNeverOwns /\ CycleShape
-----------------------------------------------------------------------------
LEMMA BumpType == \A n \in 0..MaxAttempts : Bump(n) \in 0..MaxAttempts
  BY DEF Bump

LEMMA LimitedSubset == ASSUME NEW S, NEW n, NEW T \in Limited(S, n) PROVE T \subseteq S
  BY DEF Limited

\* Type correctness is inductive on its own.
LEMMA TypeInit == Init => TypeOK
  BY DEF Init, TypeOK, RowStatus, CycleStage

LEMMA TypeStep == TypeOK /\ [Next]_vars => TypeOK'
  <1> SUFFICES ASSUME TypeOK, [Next]_vars PROVE TypeOK'
    OBVIOUS
  <1> USE DEF TypeOK, RowStatus, CycleStage, Ready, Succeeded, rows, cycle
  <1>1. ASSUME NEW S \in SUBSET Items, Requeue(S), due' \subseteq Items PROVE TypeOK'
    BY <1>1 DEF Requeue, Claimed
  <1>2. CASE Produce
    <2>1. ASSUME NEW i \in Items, Enqueue(i) PROVE TypeOK'
      BY <1>1, <2>1 DEF Enqueue
    <2>2. ASSUME NEW i \in Items, EnqueueOnce(i) PROVE TypeOK'
      BY <1>1, <2>2 DEF EnqueueOnce
    <2>3. ASSUME NEW i \in Items, EnqueueTerminal(i) PROVE TypeOK'
      BY <1>1, <2>3 DEF EnqueueTerminal
    <2>4. ASSUME NEW i \in Items, EnqueueDebounced(i) PROVE TypeOK'
      BY <1>1, <2>4 DEF EnqueueDebounced
    <2>5. ASSUME NEW T \in SUBSET Topics, RequeueSucceeded(T) PROVE TypeOK'
      BY <1>1, <2>5 DEF RequeueSucceeded
    <2> QED
      BY <1>2, <2>1, <2>2, <2>3, <2>4, <2>5 DEF Produce
  <1>3. ASSUME NEW w \in Workers, Work(w) PROVE TypeOK'
    <2>1. CASE BeginCycle(w)
      BY <2>1, LimitedSubset DEF BeginCycle, FreshTokens
    <2>2. CASE PrepareProcessors(w)
      BY <2>2 DEF PrepareProcessors, Unblock
    <2>3. CASE LeaseReady(w)
      BY <2>3, LimitedSubset, BumpType DEF LeaseReady
    <2>4. ASSUME NEW i \in Items, BlockInactive(w, i) PROVE TypeOK'
      BY <2>4 DEF BlockInactive, BlockRow
    <2>5. ASSUME NEW i \in Items, StartItem(w, i) PROVE TypeOK'
      BY <2>5 DEF StartItem
    <2>6. CASE LeaseLost(w)
      BY <2>6 DEF LeaseLost
    <2>7. CASE Fail(w)
      BY <2>7 DEF Fail
    <2>8. CASE BlockPermanent(w)
      BY <2>8 DEF BlockPermanent, BlockRow
    <2>9. ASSUME NEW result \in Succeeded, Complete(w, result) PROVE TypeOK'
      BY <2>9 DEF Complete
    <2>10. CASE EndCycle(w)
      BY <2>10 DEF EndCycle, Stop
    <2> QED
      BY <1>3, <2>1, <2>2, <2>3, <2>4, <2>5, <2>6, <2>7, <2>8, <2>9, <2>10 DEF Work
  <1>4. ASSUME NEW w \in Workers, PrepareFails(w) PROVE TypeOK'
    BY <1>4 DEF PrepareFails, Unblock
  <1>5. ASSUME NEW w \in Workers, Abort(w) PROVE TypeOK'
    BY <1>5 DEF Abort, Stop
  <1>6. ASSUME NEW i \in Items, BecomeDue(i) \/ LeaseExpires(i) \/ LeaseLapses(i) PROVE TypeOK'
    BY <1>6 DEF BecomeDue, LeaseExpires, LeaseLapses
  <1>7. CASE Configure
    BY <1>7 DEF Configure
  <1>8. CASE UNCHANGED vars
    BY <1>8 DEF vars
  <1> QED
    BY <1>2, <1>3, <1>4, <1>5, <1>6, <1>7, <1>8 DEF Next, Passage

\* Every reachable table and cycle is well formed.
THEOREM TypeCorrect == Spec => []TypeOK
  BY TypeInit, TypeStep, PTL DEF Spec
-----------------------------------------------------------------------------
\* The invariants hold in the empty table.
LEMMA InvInit == Init => IInv
  BY TypeInit DEF Init, IInv, LeaseCoherent, TokensDistinct, NoLeaseLeftBehind,
                  OutdatedNeverOwns, CycleShape

\* Re-queueing revokes the lease of every row it touches.
LEMMA RequeueStep ==
  ASSUME IInv, NEW S \in SUBSET Items, Requeue(S)
  PROVE  LeaseCoherent' /\ TokensDistinct' /\ NoLeaseLeftBehind' /\ OutdatedNeverOwns' /\ CycleShape'
  <1> USE DEF IInv, TypeOK, RowStatus, CycleStage, Ready, Succeeded
  <1>1. LeaseCoherent'
    BY DEF LeaseCoherent, Requeue
  <1>2. TokensDistinct' /\ CycleShape'
    BY DEF TokensDistinct, CycleShape, Requeue, cycle, Claimed
  <1>3. NoLeaseLeftBehind'
    BY DEF NoLeaseLeftBehind, LeaseCoherent, Requeue, cycle, Claimed
  <1>4. OutdatedNeverOwns'
    <2> SUFFICES ASSUME NEW w \in Workers, NEW i \in outdated'[w]
                 PROVE  lease_owner'[i] # token'[w]
      BY DEF OutdatedNeverOwns
    <2>1. pc[w] = "work" /\ token'[w] = token[w] /\ i \in Items
      BY DEF Requeue, cycle, CycleShape, Claimed
    <2>2. token[w] # NoToken
      BY <2>1 DEF TokensDistinct
    <2> QED
      BY <2>1, <2>2 DEF OutdatedNeverOwns, Requeue
  <1> QED
    BY <1>1, <1>2, <1>3, <1>4

\* An outcome written under the lease, or nothing at all: complete, fail and block_item
\* all settle the row i of worker w this way.
Settles(w, i) ==
  /\ i \in Claimed(w) /\ pc[w] = "work"
  /\ \/ /\ Owns(w, i)
        /\ \E s \in RowStatus \ {"processing", "absent"} : status' = [status EXCEPT ![i] = s]
        /\ lease_owner' = [lease_owner EXCEPT ![i] = NoToken]
        /\ live' = live \ {i}
     \/ /\ ~ Owns(w, i)
        /\ UNCHANGED <<status, lease_owner, live>>
  /\ \/ batch' = [batch EXCEPT ![w] = @ \ {i}] /\ i \in batch[w] /\ UNCHANGED current
     \/ current' = [current EXCEPT ![w] = NoItem] /\ i = current[w] /\ UNCHANGED batch
  /\ UNCHANGED <<pc, token, outdated>>

\* Settling the row drops the claim and the lease together.
LEMMA SettleStep ==
  ASSUME IInv, NEW w \in Workers, NEW i \in Items, Settles(w, i)
  PROVE  LeaseCoherent' /\ TokensDistinct' /\ NoLeaseLeftBehind' /\ OutdatedNeverOwns' /\ CycleShape'
  <1> USE DEF IInv, TypeOK, Settles
  <1>1. LeaseCoherent'
    BY DEF LeaseCoherent, Owns
  <1>2. TokensDistinct'
    BY DEF TokensDistinct
  <1>3. CycleShape'
    BY DEF CycleShape
  <1>4. NoLeaseLeftBehind'
    <2> SUFFICES ASSUME NEW v \in Workers, NEW j \in live', lease_owner'[j] = token'[v]
                 PROVE  j \in Claimed(v)'
      BY DEF NoLeaseLeftBehind
    <2>1. j \in live /\ j \in Items
      OBVIOUS
    <2>2. lease_owner'[j] = lease_owner[j]
      BY DEF Owns
    <2>3. j \in Claimed(v)
      BY <2>1, <2>2 DEF NoLeaseLeftBehind
    <2>4. ASSUME v = w, j = i PROVE FALSE
      BY <2>1, <2>2, <2>4 DEF LeaseCoherent, Owns
    <2> QED
      BY <2>3, <2>4 DEF Claimed
  <1>5. OutdatedNeverOwns'
    <2> SUFFICES ASSUME NEW v \in Workers, NEW j \in outdated[v]
                 PROVE  lease_owner'[j] # token[v]
      BY DEF OutdatedNeverOwns
    <2>1. pc[v] = "work" /\ j \in Items
      BY DEF CycleShape, CycleStage
    <2>2. token[v] # NoToken /\ lease_owner[j] # token[v]
      BY <2>1 DEF TokensDistinct, OutdatedNeverOwns
    <2> QED
      BY <2>1, <2>2
  <1> QED
    BY <1>1, <1>2, <1>3, <1>4, <1>5

\* Every outcome of an item is of that form.
LEMMA Outcomes ==
  ASSUME IInv, NEW w \in Workers
  PROVE  /\ \A i \in Items : BlockInactive(w, i) => Settles(w, i)
         /\ LeaseLost(w) \/ Fail(w) \/ BlockPermanent(w) => Settles(w, current[w]) /\ current[w] \in Items
         /\ \A result \in Succeeded : Complete(w, result) => Settles(w, current[w]) /\ current[w] \in Items
  <1> USE DEF IInv, TypeOK, RowStatus, Settles, Claimed, rows
  <1>1. \A i \in Items : BlockInactive(w, i) => Settles(w, i)
    BY DEF BlockInactive, BlockRow
  <1>2. LeaseLost(w) => Settles(w, current[w]) /\ current[w] \in Items
    BY DEF LeaseLost
  <1>3. Fail(w) => Settles(w, current[w]) /\ current[w] \in Items
    BY DEF Fail, Ready
  <1>4. BlockPermanent(w) => Settles(w, current[w]) /\ current[w] \in Items
    BY DEF BlockPermanent, BlockRow
  <1>5. \A result \in Succeeded : Complete(w, result) => Settles(w, current[w]) /\ current[w] \in Items
    BY DEF Complete, Succeeded
  <1> QED
    BY <1>1, <1>2, <1>3, <1>4, <1>5

LEMMA BeginStep ==
  ASSUME IInv, NEW w \in Workers, BeginCycle(w)
  PROVE  LeaseCoherent' /\ TokensDistinct' /\ NoLeaseLeftBehind' /\ OutdatedNeverOwns' /\ CycleShape'
  <1> USE DEF IInv, TypeOK
  <1> PICK S \in Limited({i \in Items : status[i] = "processing" /\ i \notin live}, BatchSize) :
        /\ status' = [i \in Items |-> IF i \in S THEN "retry" ELSE status[i]]
        /\ lease_owner' = [i \in Items |-> IF i \in S THEN NoToken ELSE lease_owner[i]]
    BY DEF BeginCycle
  <1> PICK t \in FreshTokens : token' = [token EXCEPT ![w] = t]
    BY DEF BeginCycle
  <1>0. /\ \A i \in S : status[i] = "processing" /\ i \notin live /\ i \in Items
        /\ t \in Tokens /\ t # NoToken
        /\ \A i \in Items : lease_owner[i] # t
        /\ \A v \in Workers : token[v] # t
    BY LimitedSubset DEF FreshTokens
  <1>1. LeaseCoherent'
    BY <1>0 DEF LeaseCoherent, BeginCycle
  <1>2. TokensDistinct'
    BY <1>0 DEF TokensDistinct, BeginCycle, CycleStage
  <1>3. CycleShape'
    BY DEF CycleShape, BeginCycle, CycleStage
  <1>4. NoLeaseLeftBehind'
    BY <1>0 DEF NoLeaseLeftBehind, BeginCycle, Claimed
  <1>5. OutdatedNeverOwns'
    <2> SUFFICES ASSUME NEW v \in Workers, NEW j \in outdated[v]
                 PROVE  lease_owner'[j] # token'[v]
      BY DEF OutdatedNeverOwns, BeginCycle
    <2>1. pc[v] = "work" /\ j \in Items /\ v # w
      BY DEF CycleShape, CycleStage, BeginCycle
    <2>2. token[v] # NoToken /\ lease_owner[j] # token[v] /\ token'[v] = token[v]
      BY <2>1 DEF TokensDistinct, OutdatedNeverOwns
    <2> QED
      BY <2>1, <2>2
  <1> QED
    BY <1>1, <1>2, <1>3, <1>4, <1>5

LEMMA PrepareStep ==
  ASSUME IInv, NEW w \in Workers, NEW T \in SUBSET Topics, Unblock(w, T)
  PROVE  LeaseCoherent' /\ TokensDistinct' /\ NoLeaseLeftBehind' /\ OutdatedNeverOwns' /\ CycleShape'
  BY DEF Unblock, IInv, TypeOK, LeaseCoherent, TokensDistinct, NoLeaseLeftBehind,
         OutdatedNeverOwns, CycleShape, Claimed

LEMMA StartStep ==
  ASSUME IInv, NEW w \in Workers, NEW i \in Items, StartItem(w, i)
  PROVE  LeaseCoherent' /\ TokensDistinct' /\ NoLeaseLeftBehind' /\ OutdatedNeverOwns' /\ CycleShape'
  BY DEF StartItem, rows, IInv, TypeOK, LeaseCoherent, TokensDistinct, NoLeaseLeftBehind,
         OutdatedNeverOwns, CycleShape, Claimed

LEMMA LeaseStep ==
  ASSUME IInv, NEW w \in Workers, LeaseReady(w)
  PROVE  LeaseCoherent' /\ TokensDistinct' /\ NoLeaseLeftBehind' /\ OutdatedNeverOwns' /\ CycleShape'
  <1> USE DEF IInv, TypeOK
  <1> PICK S \in Limited({i \in Items : status[i] \in Ready /\ i \in due}, BatchSize) :
        /\ status' = [i \in Items |-> IF i \in S THEN "processing" ELSE status[i]]
        /\ lease_owner' = [i \in Items |-> IF i \in S THEN token[w] ELSE lease_owner[i]]
        /\ live' = live \cup S
        /\ batch' = [batch EXCEPT ![w] = S]
    BY DEF LeaseReady
  <1>0. /\ \A i \in S : status[i] \in Ready /\ i \in Items
        /\ token[w] # NoToken /\ token[w] \in Tokens
        /\ pc[w] = "lease" /\ pc' = [pc EXCEPT ![w] = "work"]
        /\ UNCHANGED <<token, current>>
    BY LimitedSubset DEF LeaseReady, TokensDistinct
  <1>1. LeaseCoherent'
    BY <1>0 DEF LeaseCoherent, Ready
  <1>2. TokensDistinct'
    BY <1>0 DEF TokensDistinct
  <1>3. CycleShape'
    BY <1>0 DEF CycleShape, LeaseReady
  <1>4. NoLeaseLeftBehind'
    <2> SUFFICES ASSUME NEW v \in Workers, NEW j \in live', lease_owner'[j] = token[v]
                 PROVE  j \in Claimed(v)'
      BY <1>0 DEF NoLeaseLeftBehind
    <2>1. CASE j \in S
      <3>1. lease_owner'[j] = token[w]
        BY <2>1, <1>0
      <3>2. v = w
        BY <3>1, <1>0 DEF TokensDistinct
      <3> QED
        BY <3>2, <2>1 DEF Claimed
    <2>2. CASE j \notin S
      <3>1. j \in live /\ lease_owner[j] = token[v]
        BY <2>2
      <3>2. j \in Claimed(v)
        BY <3>1 DEF NoLeaseLeftBehind
      <3>3. v # w
        BY <3>2, <1>0 DEF CycleShape, Claimed
      <3> QED
        BY <3>2, <3>3, <1>0 DEF Claimed
    <2> QED
      BY <2>1, <2>2
  <1>5. OutdatedNeverOwns'
    <2> SUFFICES ASSUME NEW v \in Workers, NEW j \in outdated'[v]
                 PROVE  lease_owner'[j] # token[v]
      BY <1>0 DEF OutdatedNeverOwns
    <2>1. v # w /\ j \in outdated[v] /\ j \in Items
      BY DEF LeaseReady
    <2>2. token[v] # token[w] /\ lease_owner[j] # token[v]
      BY <2>1, <1>0 DEF TokensDistinct, OutdatedNeverOwns
    <2> QED
      BY <2>1, <2>2
  <1> QED
    BY <1>1, <1>2, <1>3, <1>4, <1>5

LEMMA StopStep ==
  ASSUME IInv, NEW w \in Workers, Stop(w)
  PROVE  LeaseCoherent' /\ TokensDistinct' /\ NoLeaseLeftBehind' /\ OutdatedNeverOwns' /\ CycleShape'
  <1> USE DEF IInv, TypeOK, Stop, rows
  <1>1. LeaseCoherent' /\ TokensDistinct' /\ CycleShape' /\ OutdatedNeverOwns'
    BY DEF LeaseCoherent, TokensDistinct, CycleShape, OutdatedNeverOwns
  <1>2. NoLeaseLeftBehind'
    <2> SUFFICES ASSUME NEW v \in Workers, NEW j \in live, lease_owner[j] = token'[v]
                 PROVE  j \in Claimed(v)'
      BY DEF NoLeaseLeftBehind
    <2>1. lease_owner[j] # NoToken
      BY DEF LeaseCoherent
    <2> QED
      BY <2>1 DEF NoLeaseLeftBehind, Claimed
  <1> QED
    BY <1>1, <1>2

LEMMA InvStep == IInv /\ [Next]_vars => IInv'
  <1> SUFFICES ASSUME IInv, [Next]_vars PROVE IInv'
    OBVIOUS
  <1> DEFINE Rest == LeaseCoherent /\ TokensDistinct /\ NoLeaseLeftBehind /\ OutdatedNeverOwns /\ CycleShape
  <1>0. TypeOK'
    BY TypeStep DEF IInv
  <1>1. CASE Produce
    <2>1. PICK S \in SUBSET Items : Requeue(S)
      BY <1>1 DEF Produce, Enqueue, EnqueueOnce, EnqueueTerminal, EnqueueDebounced, RequeueSucceeded
    <2> QED
      BY <1>0, <2>1, RequeueStep DEF IInv
  <1>2. ASSUME NEW w \in Workers, Work(w) PROVE Rest'
    <2>1. CASE BeginCycle(w)
      BY <2>1, BeginStep
    <2>2. CASE PrepareProcessors(w)
      BY <2>2, PrepareStep DEF PrepareProcessors, IInv, TypeOK
    <2>3. CASE LeaseReady(w)
      BY <2>3, LeaseStep
    <2>4. ASSUME NEW i \in Items, BlockInactive(w, i) PROVE Rest'
      BY <2>4, Outcomes, SettleStep
    <2>5. ASSUME NEW i \in Items, StartItem(w, i) PROVE Rest'
      BY <2>5, StartStep
    <2>6. CASE LeaseLost(w) \/ Fail(w) \/ BlockPermanent(w)
      BY <2>6, Outcomes, SettleStep
    <2>7. ASSUME NEW result \in Succeeded, Complete(w, result) PROVE Rest'
      BY <2>7, Outcomes, SettleStep
    <2>8. CASE EndCycle(w)
      BY <2>8, StopStep DEF EndCycle
    <2> QED
      BY <1>2, <2>1, <2>2, <2>3, <2>4, <2>5, <2>6, <2>7, <2>8 DEF Work
  <1>3. ASSUME NEW w \in Workers, PrepareFails(w) PROVE Rest'
    BY <1>3, PrepareStep DEF PrepareFails, IInv, TypeOK
  <1>4. ASSUME NEW w \in Workers, Abort(w) PROVE Rest'
    BY <1>4, StopStep DEF Abort
  <1>5. ASSUME NEW i \in Items, BecomeDue(i) \/ LeaseExpires(i) \/ LeaseLapses(i) PROVE Rest'
    BY <1>5 DEF BecomeDue, LeaseExpires, LeaseLapses, cycle, IInv, TypeOK, LeaseCoherent,
                TokensDistinct, NoLeaseLeftBehind, OutdatedNeverOwns, CycleShape, Claimed
  <1>6. CASE Configure \/ UNCHANGED vars
    BY <1>6 DEF Configure, rows, cycle, vars, IInv, TypeOK, LeaseCoherent,
                TokensDistinct, NoLeaseLeftBehind, OutdatedNeverOwns, CycleShape, Claimed
  <1> QED
    BY <1>0, <1>1, <1>2, <1>3, <1>4, <1>5, <1>6 DEF Next, Passage, IInv

\* Leases are coherent with the row status, tell cycles apart and are never left
\* behind, and a revoked claim never owns its row again.
THEOREM LeasesSafe == Spec => []LeaseDiscipline
  <1>1. IInv => LeaseDiscipline
    BY DEF IInv, LeaseDiscipline
  <1> QED
    BY <1>1, InvInit, InvStep, PTL DEF Spec
-----------------------------------------------------------------------------
\* Only the run that still owns its row can make it succeed, and no outdated claim owns.
LEMMA AnswerStep ==
  ASSUME IInv, [Next]_vars, NEW i \in Items, status[i] = "processing", status'[i] \in Succeeded
  PROVE  \E w \in Workers : current[w] = i /\ current'[w] = NoItem /\ i \notin outdated[w]
  <1> USE DEF IInv, TypeOK, RowStatus, Succeeded, Ready, rows
  <1>1. ASSUME NEW w \in Workers, NEW result \in Succeeded, Complete(w, result)
        PROVE  current[w] = i /\ current'[w] = NoItem /\ i \notin outdated[w]
    BY <1>1 DEF Complete, Owns, OutdatedNeverOwns
  <1>2. ASSUME NEW w \in Workers, Work(w), \A result \in Succeeded : ~ Complete(w, result) PROVE FALSE
    <2>1. ~ (BeginCycle(w) \/ PrepareProcessors(w) \/ LeaseReady(w))
      <3>1. ~ BeginCycle(w)
        BY DEF BeginCycle
      <3>2. ~ PrepareProcessors(w)
        BY DEF PrepareProcessors, Unblock
      <3>3. ~ LeaseReady(w)
        BY DEF LeaseReady
      <3> QED
        BY <3>1, <3>2, <3>3
    <2>2. ~ \E j \in Items : BlockInactive(w, j) \/ StartItem(w, j)
      BY DEF BlockInactive, BlockRow, StartItem
    <2>3. ~ (LeaseLost(w) \/ BlockPermanent(w) \/ EndCycle(w))
      BY DEF LeaseLost, BlockPermanent, BlockRow, EndCycle, Stop
    <2>4. ~ Fail(w)
      BY DEF Fail
    <2> QED
      BY <1>2, <2>1, <2>2, <2>3, <2>4 DEF Work
  <1>3. ~ Produce
    BY DEF Produce, Requeue, Enqueue, EnqueueOnce, EnqueueTerminal, EnqueueDebounced, RequeueSucceeded
  <1>4. ASSUME NEW w \in Workers, PrepareFails(w) \/ Abort(w) PROVE FALSE
    BY <1>4 DEF PrepareFails, Unblock, Abort, Stop
  <1>5. ~ (Passage \/ Configure \/ UNCHANGED vars \/ \E j \in Items : LeaseLapses(j))
    BY DEF Passage, BecomeDue, LeaseExpires, LeaseLapses, Configure, vars
  <1> QED
    BY <1>1, <1>2, <1>3, <1>4, <1>5 DEF Next

\* A row succeeds only through a run leased after the row was last put back to pending.
THEOREM LatestRequestAnswered == Spec => AnswersLatestRequest
  <1>1. IInv /\ [Next]_vars =>
          [\A i \in Items :
             status[i] = "processing" /\ status'[i] \in Succeeded =>
               \E w \in Workers : current[w] = i /\ current'[w] = NoItem /\ i \notin outdated[w]]_vars
    BY AnswerStep
  <1> QED
    BY <1>1, InvInit, InvStep, PTL DEF Spec, AnswersLatestRequest
-----------------------------------------------------------------------------
\* Each step of the table is a step of the ledger, or none it can see.
LEMMA RequeueRefines ==
  ASSUME IInv, NEW S \in SUBSET Items, Requeue(S) PROVE Ledger!Request(S)
  BY DEF IInv, TypeOK, Requeue, cycle, Claimed, Ready, Ledger!Request, Owed, TakenUp, GivenUp

LEMMA LeaseRefines ==
  ASSUME IInv, NEW w \in Workers, LeaseReady(w) PROVE Ledger!Serve
  <1> USE DEF IInv, TypeOK, Ready
  <1> PICK S \in Limited({i \in Items : status[i] \in Ready /\ i \in due}, BatchSize) :
        /\ status' = [i \in Items |-> IF i \in S THEN "processing" ELSE status[i]]
        /\ batch' = [batch EXCEPT ![w] = S]
    BY DEF LeaseReady
  <1>1. \A i \in S : status[i] \in Ready /\ i \in Items
    BY LimitedSubset
  <1>2. UNCHANGED <<Owed, GivenUp>>
    BY <1>1 DEF Owed, GivenUp
  <1>3. TakenUp' \subseteq TakenUp \cup Owed
    BY <1>1 DEF LeaseReady, TakenUp, Owed, Claimed, CycleShape
  <1> QED
    BY <1>2, <1>3 DEF Ledger!Serve

\* An outcome under the lease discharges the row or gives it up; without it, nothing.
LEMMA SettleRefines ==
  ASSUME IInv, NEW w \in Workers, NEW i \in Items, Settles(w, i)
  PROVE  Ledger!Next
  <1> USE DEF IInv, TypeOK, RowStatus, Ready, Succeeded, Settles
  <1>1. TakenUp' \subseteq TakenUp
    BY DEF TakenUp, Claimed
  <1>2. CASE Owns(w, i)
    <2>1. i \in TakenUp /\ i \in Owed
      BY <1>2 DEF Owns, OutdatedNeverOwns, TakenUp, Owed
    <2> PICK s \in RowStatus \ {"processing", "absent"} : status' = [status EXCEPT ![i] = s]
      BY <1>2
    <2>2. CASE s \in {"succeeded", "superseded"}
      <3>1. Owed' = Owed \ {i} /\ GivenUp' = GivenUp
        BY <2>1, <2>2 DEF Owed, GivenUp
      <3> QED
        BY <1>1, <2>1, <3>1 DEF Ledger!Next, Ledger!Discharge
    <2>3. CASE s = "dead"
      <3>1. Owed' = Owed \ {i} /\ GivenUp' = GivenUp \cup {i}
        BY <2>1, <2>3 DEF Owed, GivenUp
      <3> QED
        BY <1>1, <2>1, <3>1 DEF Ledger!Next, Ledger!GiveUp
    <2>4. CASE s \in {"pending", "retry", "blocked"}
      <3>1. Owed' = Owed /\ GivenUp' = GivenUp
        BY <2>1, <2>4 DEF Owed, GivenUp
      <3> QED
        BY <1>1, <3>1 DEF Ledger!Next, Ledger!Serve
    <2> QED
      BY <2>2, <2>3, <2>4
  <1>3. CASE ~ Owns(w, i)
    <2>1. Owed' = Owed /\ GivenUp' = GivenUp
      BY <1>3 DEF Owed, GivenUp
    <2> QED
      BY <1>1, <2>1 DEF Ledger!Next, Ledger!Serve
  <1> QED
    BY <1>2, <1>3

LEMMA QuietRefines == Owed' = Owed /\ GivenUp' = GivenUp /\ TakenUp' \subseteq TakenUp => Ledger!Next
  BY DEF Ledger!Next, Ledger!Serve

LEMMA CycleRefines ==
  ASSUME IInv, NEW w \in Workers
  PROVE  /\ BeginCycle(w) => Ledger!Next
         /\ \A T \in SUBSET Topics : Unblock(w, T) => Ledger!Next
         /\ Stop(w) => Ledger!Next
         /\ \A i \in Items : StartItem(w, i) => Ledger!Next
  <1> USE DEF IInv, TypeOK, Ready
  <1>1. ASSUME BeginCycle(w) PROVE Ledger!Next
    <2> PICK S \in Limited({i \in Items : status[i] = "processing" /\ i \notin live}, BatchSize) :
          status' = [i \in Items |-> IF i \in S THEN "retry" ELSE status[i]]
      BY <1>1 DEF BeginCycle
    <2>1. \A i \in S : status[i] = "processing"
      BY LimitedSubset
    <2>2. Owed' = Owed /\ GivenUp' = GivenUp
      BY <2>1 DEF Owed, GivenUp
    <2>3. TakenUp' = TakenUp
      BY <1>1 DEF BeginCycle, TakenUp, Claimed
    <2> QED
      BY <2>2, <2>3, QuietRefines
  <1>2. ASSUME NEW T \in SUBSET Topics, Unblock(w, T) PROVE Ledger!Next
    <2>1. Owed' = Owed /\ GivenUp' = GivenUp
      BY <1>2 DEF Unblock, Owed, GivenUp
    <2>2. TakenUp' = TakenUp
      BY <1>2 DEF Unblock, TakenUp, Claimed
    <2> QED
      BY <2>1, <2>2, QuietRefines
  <1>3. ASSUME Stop(w) PROVE Ledger!Next
    <2>1. Owed' = Owed /\ GivenUp' = GivenUp
      BY <1>3 DEF Stop, rows, Owed, GivenUp
    <2>2. TakenUp' \subseteq TakenUp
      BY <1>3 DEF Stop, TakenUp, Claimed
    <2> QED
      BY <2>1, <2>2, QuietRefines
  <1>4. ASSUME NEW i \in Items, StartItem(w, i) PROVE Ledger!Next
    <2>1. Owed' = Owed /\ GivenUp' = GivenUp
      BY <1>4 DEF StartItem, rows, Owed, GivenUp
    <2>2. TakenUp' \subseteq TakenUp
      BY <1>4 DEF StartItem, TakenUp, Claimed
    <2> QED
      BY <2>1, <2>2, QuietRefines
  <1> QED
    BY <1>1, <1>2, <1>3, <1>4

LEMMA LedgerStep == IInv /\ [Next]_vars => [Ledger!Next]_Ledger!vars
  <1> SUFFICES ASSUME IInv, [Next]_vars PROVE Ledger!Next \/ UNCHANGED Ledger!vars
    OBVIOUS
  <1>1. CASE Produce
    <2> PICK S \in SUBSET Items : Requeue(S)
      BY <1>1 DEF Produce, Enqueue, EnqueueOnce, EnqueueTerminal, EnqueueDebounced, RequeueSucceeded
    <2> QED
      BY RequeueRefines DEF Ledger!Next
  <1>2. ASSUME NEW w \in Workers, Work(w) PROVE Ledger!Next
    <2>1. CASE PrepareProcessors(w) \/ BeginCycle(w) \/ EndCycle(w)
      BY <2>1, CycleRefines DEF PrepareProcessors, EndCycle, IInv, TypeOK
    <2>2. CASE LeaseReady(w)
      BY <2>2, LeaseRefines DEF Ledger!Next
    <2>3. ASSUME NEW i \in Items, BlockInactive(w, i) \/ StartItem(w, i) PROVE Ledger!Next
      BY <2>3, Outcomes, SettleRefines, CycleRefines
    <2>4. CASE LeaseLost(w) \/ Fail(w) \/ BlockPermanent(w)
      BY <2>4, Outcomes, SettleRefines
    <2>5. ASSUME NEW result \in Succeeded, Complete(w, result) PROVE Ledger!Next
      BY <2>5, Outcomes, SettleRefines
    <2> QED
      BY <1>2, <2>1, <2>2, <2>3, <2>4, <2>5 DEF Work
  <1>3. ASSUME NEW w \in Workers, PrepareFails(w) \/ Abort(w) PROVE Ledger!Next
    BY <1>3, CycleRefines DEF PrepareFails, Abort, IInv, TypeOK
  <1>4. CASE Passage \/ Configure \/ (\E i \in Items : LeaseLapses(i)) \/ UNCHANGED vars
    BY <1>4 DEF Passage, BecomeDue, LeaseExpires, LeaseLapses, Configure, vars, rows, cycle,
                Ledger!vars, Owed, TakenUp, GivenUp, Claimed
  <1> QED
    BY <1>1, <1>2, <1>3, <1>4 DEF Next

\* The table and its schedulers implement the ledger: nothing requested is forgotten, or
\* answered by a run that took it up before it was requested.
THEOREM ImplementsLedger == Spec => LedgerSpec
  <1>1. Init => Ledger!Init
    BY DEF Init, Ledger!Init, Owed, TakenUp, GivenUp, Claimed, Ready
  <1> QED
    BY <1>1, InvInit, InvStep, LedgerStep, PTL DEF Spec, LedgerSpec, Ledger!Spec
=============================================================================
