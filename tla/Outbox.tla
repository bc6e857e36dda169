------------------------------- MODULE Outbox -------------------------------
(***************************************************************************)
(* The transactional outbox of one tenant (table resource_outbox) and the  *)
(* scheduler cycles that work it: data_foundation/outbox_repository.py,    *)
(* outbox_worker.py and the outbox part of scheduler.py.                   *)
(*                                                                         *)
(* A row is named by its dedupe key.  Every repository call is one         *)
(* PostgreSQL transaction and one action here.  Time is kept as the two    *)
(* comparisons the SQL makes: next_attempt_at <= now() (the set due) and   *)
(* lease_expires_at > now() (the set live).                                *)
(***************************************************************************)
EXTENDS Naturals, FiniteSets

CONSTANTS
  Items,        \* dedupe keys
  Producer,     \* the operation that writes each key
  Topics,       \* registry.topics
  TopicOf,      \* the topic of each key
  Workers,      \* scheduler instances
  Tokens,       \* lease owners "<instance>:<uuid4>"
  NoToken,      \* lease_owner is null
  NoItem,       \* a worker between two items
  MaxAttempts,  \* max_attempts of fail()
  BatchSize,    \* outbox_batch_size, also the limit of recover_expired
  MaxFaults     \* bound on crashes, timeouts and lapsed leases in a behaviour

ASSUME OutboxConstants ==
  /\ Producer \in [Items -> {"ensure", "once", "terminal", "debounced"}]
  /\ TopicOf \in [Items -> Topics]
  /\ NoToken \notin Tokens
  /\ NoItem \notin Items
  /\ MaxAttempts \in Nat \ {0}
  /\ BatchSize \in Nat \ {0}
  /\ MaxFaults \in Nat

VARIABLES
  status, attempts, lease_owner,  \* the columns of each row
  due, live,                      \* rows whose next attempt is due / lease unexpired
  enabled,                        \* topics whose processor the configuration enables
  pc,                             \* where each scheduler cycle stands
  active,                         \* the registry a cycle built when it began
  token,                          \* the lease_owner of the running cycle
  batch,                          \* leased rows the cycle has not taken up yet
  current,                        \* the row in processor.process()
  outdated,                       \* claimed rows re-queued after they were leased (history)
  faults                          \* faults so far

rows == <<status, attempts, lease_owner, due, live>>
cycle == <<pc, active, token, batch, current>>
vars == <<status, attempts, lease_owner, due, live, enabled,
          pc, active, token, batch, current, outdated, faults>>

Ready      == {"pending", "retry"}
Succeeded  == {"succeeded", "superseded"}
RowStatus  == Ready \cup Succeeded \cup {"absent", "processing", "blocked", "dead"}
CycleStage == {"idle", "prepare", "lease", "work"}

\* The rows a cycle believes it has leased.
Claimed(w) == batch[w] \cup ({current[w]} \ {NoItem})

\* The condition shared by renew, complete, fail and block_item.
Owns(w, i) ==
  /\ status[i] = "processing"
  /\ lease_owner[i] = token[w]
  /\ i \in live

\* attempts + 1; only attempts >= max_attempts is ever asked, so it saturates.
Bump(n) == IF n < MaxAttempts THEN n + 1 ELSE n

\* A uuid4 no row and no cycle carries.
FreshTokens ==
  {t \in Tokens : (\A i \in Items : lease_owner[i] # t) /\ (\A w \in Workers : token[w] # t)}

Limited(S, n) == {T \in SUBSET S : Cardinality(T) = n \/ (T = S /\ Cardinality(S) < n)}
-----------------------------------------------------------------------------
Init ==
  /\ status = [i \in Items |-> "absent"]
  /\ attempts = [i \in Items |-> 0]
  /\ lease_owner = [i \in Items |-> NoToken]
  /\ due = {} /\ live = {}
  /\ enabled \in SUBSET Topics
  /\ pc = [w \in Workers |-> "idle"]
  /\ active = [w \in Workers |-> {}]
  /\ token = [w \in Workers |-> NoToken]
  /\ batch = [w \in Workers |-> {}]
  /\ current = [w \in Workers |-> NoItem]
  /\ outdated = [w \in Workers |-> {}]
  /\ faults = 0

\* Put the rows of S back to pending with a clean slate; every claim on them is outdated.
Requeue(S) ==
  /\ status' = [i \in Items |-> IF i \in S THEN "pending" ELSE status[i]]
  /\ attempts' = [i \in Items |-> IF i \in S THEN 0 ELSE attempts[i]]
  /\ lease_owner' = [i \in Items |-> IF i \in S THEN NoToken ELSE lease_owner[i]]
  /\ live' = live \ S
  /\ outdated' = [w \in Workers |-> outdated[w] \cup (S \cap Claimed(w))]
  /\ UNCHANGED <<enabled, cycle, faults>>

\* OutboxRepository.enqueue: insert, or revive a dead or superseded row.
Enqueue(i) ==
  /\ Producer[i] = "ensure"
  /\ status[i] \in {"absent", "dead", "superseded"}
  /\ Requeue({i}) /\ due' = due \cup {i}

\* ResourceRepository._enqueue_outbox and _enqueue_exact: on conflict do nothing.
EnqueueOnce(i) ==
  /\ Producer[i] = "once"
  /\ status[i] = "absent"
  /\ Requeue({i}) /\ due' = due \cup {i}

\* _enqueue_exact(requeue_terminal=True): run a finished row once more.
EnqueueTerminal(i) ==
  /\ Producer[i] = "terminal"
  /\ status[i] \in Succeeded \cup {"absent", "dead"}
  /\ Requeue({i}) /\ due' = due \cup {i}

\* enqueue_preference_synthesis: pending whatever the row was, due in one second.
EnqueueDebounced(i) ==
  /\ Producer[i] = "debounced"
  /\ Requeue({i}) /\ due' = due \ {i}

\* The operator's requeue_succeeded(topics).
RequeueSucceeded(T) ==
  LET S == {i \in Items : status[i] = "succeeded" /\ TopicOf[i] \in T}
  IN  /\ S # {}
      /\ Requeue(S) /\ due' = due \cup S

Produce ==
  \/ \E i \in Items : Enqueue(i) \/ EnqueueOnce(i) \/ EnqueueTerminal(i) \/ EnqueueDebounced(i)
  \/ \E T \in SUBSET Topics : RequeueSucceeded(T)
-----------------------------------------------------------------------------
\* Mutant: recover_expired is forgotten.
BeginCycleWithoutRecovery(w) ==
  /\ pc[w] = "idle"
  /\ active' = [active EXCEPT ![w] = enabled]
  /\ \E t \in FreshTokens : token' = [token EXCEPT ![w] = t]
  /\ pc' = [pc EXCEPT ![w] = "prepare"]
  /\ UNCHANGED <<rows, enabled, batch, current, outdated, faults>>

\* run_cycle begins: a registry from the current configuration, recover_expired,
\* then the cycle's lease_owner.  Recovery keeps attempts and next_attempt_at.
BeginCycle(w) ==
  /\ pc[w] = "idle"
  /\ \E S \in Limited({i \in Items : status[i] = "processing" /\ i \notin live}, BatchSize) :
       /\ status' = [i \in Items |-> IF i \in S THEN "retry" ELSE status[i]]
       /\ lease_owner' = [i \in Items |-> IF i \in S THEN NoToken ELSE lease_owner[i]]
  /\ active' = [active EXCEPT ![w] = enabled]
  /\ \E t \in FreshTokens : token' = [token EXCEPT ![w] = t]
  /\ pc' = [pc EXCEPT ![w] = "prepare"]
  /\ UNCHANGED <<attempts, due, live, enabled, batch, current, outdated, faults>>

\* unblock_available for the topics of T.
Unblock(w, T) ==
  LET S == {i \in Items : status[i] = "blocked" /\ TopicOf[i] \in T}
  IN  /\ pc[w] = "prepare"
      /\ status' = [i \in Items |-> IF i \in S THEN "pending" ELSE status[i]]
      /\ due' = due \cup S
      /\ pc' = [pc EXCEPT ![w] = "lease"]
      /\ UNCHANGED <<attempts, lease_owner, live, enabled, active, token, batch, current, outdated>>

\* Mutant: no topic is unblocked.
PrepareNothing(w) == Unblock(w, {}) /\ UNCHANGED faults

\* _prepare_processors: unblock every topic this cycle holds to be active ...
PrepareProcessors(w) == Unblock(w, active[w]) /\ UNCHANGED faults

\* ... except those whose preparation raised.
PrepareFails(w) ==
  /\ faults < MaxFaults /\ faults' = faults + 1
  /\ \E T \in SUBSET active[w] : Unblock(w, T)

\* lease_ready over every registered topic, active or not.
LeaseReady(w) ==
  /\ pc[w] = "lease"
  /\ \E S \in Limited({i \in Items : status[i] \in Ready /\ i \in due}, BatchSize) :
       /\ status' = [i \in Items |-> IF i \in S THEN "processing" ELSE status[i]]
       /\ attempts' = [i \in Items |-> IF i \in S THEN Bump(attempts[i]) ELSE attempts[i]]
       /\ lease_owner' = [i \in Items |-> IF i \in S THEN token[w] ELSE lease_owner[i]]
       /\ live' = live \cup S
       /\ batch' = [batch EXCEPT ![w] = S]
  /\ outdated' = [outdated EXCEPT ![w] = {}]
  /\ pc' = [pc EXCEPT ![w] = "work"]
  /\ UNCHANGED <<due, enabled, active, token, current, faults>>

\* The effect of block_item on row i for worker w: nothing unless w owns it.
BlockRow(w, i) ==
  /\ status' = IF Owns(w, i) THEN [status EXCEPT ![i] = "blocked"] ELSE status
  /\ lease_owner' = IF Owns(w, i) THEN [lease_owner EXCEPT ![i] = NoToken] ELSE lease_owner
  /\ live' = IF Owns(w, i) THEN live \ {i} ELSE live
  /\ UNCHANGED <<attempts, due>>

\* Mutant: the inactive topic is skipped and its row not blocked.
SkipInactive(w, i) ==
  /\ pc[w] = "work" /\ current[w] = NoItem /\ i \in batch[w]
  /\ TopicOf[i] \notin active[w]
  /\ batch' = [batch EXCEPT ![w] = @ \ {i}]
  /\ UNCHANGED <<rows, enabled, pc, active, token, current, outdated, faults>>

\* process_outbox_item on a topic without an active processor.
BlockInactive(w, i) ==
  /\ pc[w] = "work" /\ current[w] = NoItem /\ i \in batch[w]
  /\ TopicOf[i] \notin active[w]
  /\ BlockRow(w, i)
  /\ batch' = [batch EXCEPT ![w] = @ \ {i}]
  /\ UNCHANGED <<enabled, pc, active, token, current, outdated, faults>>

\* processor.process(item, lease) starts; the lease is not checked first.
StartItem(w, i) ==
  /\ pc[w] = "work" /\ current[w] = NoItem /\ i \in batch[w]
  /\ TopicOf[i] \in active[w]
  /\ batch' = [batch EXCEPT ![w] = @ \ {i}]
  /\ current' = [current EXCEPT ![w] = i]
  /\ UNCHANGED <<rows, enabled, pc, active, token, outdated, faults>>

\* LeaseGuard.assert_owned with the lease gone: LEASE_LOST is raised, and fail()
\* finds no row to update.
LeaseLost(w) ==
  /\ pc[w] = "work" /\ current[w] # NoItem
  /\ ~ Owns(w, current[w])
  /\ current' = [current EXCEPT ![w] = NoItem]
  /\ UNCHANGED <<rows, enabled, pc, active, token, batch, outdated, faults>>

\* Mutant: complete() updates by id alone.
CompleteUnchecked(w, result) ==
  /\ pc[w] = "work" /\ current[w] # NoItem
  /\ status' = [status EXCEPT ![current[w]] = result]
  /\ lease_owner' = [lease_owner EXCEPT ![current[w]] = NoToken]
  /\ live' = live \ {current[w]}
  /\ current' = [current EXCEPT ![w] = NoItem]
  /\ UNCHANGED <<attempts, due, enabled, pc, active, token, batch, outdated, faults>>

\* The processor returned: complete(status), which may find the lease gone.
Complete(w, result) ==
  LET i == current[w] IN
  /\ pc[w] = "work" /\ i # NoItem /\ result \in Succeeded
  /\ status' = IF Owns(w, i) THEN [status EXCEPT ![i] = result] ELSE status
  /\ lease_owner' = IF Owns(w, i) THEN [lease_owner EXCEPT ![i] = NoToken] ELSE lease_owner
  /\ live' = IF Owns(w, i) THEN live \ {i} ELSE live
  /\ current' = [current EXCEPT ![w] = NoItem]
  /\ UNCHANGED <<attempts, due, enabled, pc, active, token, batch, outdated, faults>>

\* Mutant: fail() updates by id alone.
FailUnchecked(w) ==
  LET i == current[w] IN
  /\ pc[w] = "work" /\ i # NoItem
  /\ status' = [status EXCEPT ![i] = IF attempts[i] >= MaxAttempts THEN "dead" ELSE "retry"]
  /\ lease_owner' = [lease_owner EXCEPT ![i] = NoToken]
  /\ live' = live \ {i} /\ due' = due \ {i}
  /\ current' = [current EXCEPT ![w] = NoItem]
  /\ UNCHANGED <<attempts, enabled, pc, active, token, batch, outdated, faults>>

\* The processor raised: fail() backs the row off, or buries it at max_attempts.
Fail(w) ==
  LET i == current[w] IN
  /\ pc[w] = "work" /\ i # NoItem
  /\ status' = IF Owns(w, i)
                 THEN [status EXCEPT ![i] = IF attempts[i] >= MaxAttempts THEN "dead" ELSE "retry"]
                 ELSE status
  /\ lease_owner' = IF Owns(w, i) THEN [lease_owner EXCEPT ![i] = NoToken] ELSE lease_owner
  /\ live' = IF Owns(w, i) THEN live \ {i} ELSE live
  /\ due' = IF Owns(w, i) THEN due \ {i} ELSE due
  /\ current' = [current EXCEPT ![w] = NoItem]
  /\ UNCHANGED <<attempts, enabled, pc, active, token, batch, outdated, faults>>

\* The processor raised PermanentProcessingError.
BlockPermanent(w) ==
  /\ pc[w] = "work" /\ current[w] # NoItem
  /\ BlockRow(w, current[w])
  /\ current' = [current EXCEPT ![w] = NoItem]
  /\ UNCHANGED <<enabled, pc, active, token, batch, outdated, faults>>

\* Forget everything the cycle held in memory.
Stop(w) ==
  /\ pc' = [pc EXCEPT ![w] = "idle"]
  /\ active' = [active EXCEPT ![w] = {}]
  /\ token' = [token EXCEPT ![w] = NoToken]
  /\ batch' = [batch EXCEPT ![w] = {}]
  /\ current' = [current EXCEPT ![w] = NoItem]
  /\ outdated' = [outdated EXCEPT ![w] = {}]
  /\ UNCHANGED <<rows, enabled>>

EndCycle(w) ==
  /\ pc[w] = "work" /\ batch[w] = {} /\ current[w] = NoItem
  /\ Stop(w) /\ UNCHANGED faults

\* A crash, a repository call that raises, or wait_for cancelling the batch at
\* outbox_timeout_seconds: the leases stay behind in the table.
Abort(w) ==
  /\ pc[w] # "idle" /\ faults < MaxFaults
  /\ Stop(w) /\ faults' = faults + 1
-----------------------------------------------------------------------------
\* now() passes next_attempt_at.
BecomeDue(i) ==
  /\ status[i] \in Ready /\ i \notin due
  /\ due' = due \cup {i}
  /\ UNCHANGED <<status, attempts, lease_owner, live, enabled, cycle, outdated, faults>>

Abandoned(i) == \A w \in Workers : i \in Claimed(w) => token[w] # lease_owner[i]

\* now() passes lease_expires_at of a row no running cycle holds ...
LeaseExpires(i) ==
  /\ i \in live /\ Abandoned(i)
  /\ live' = live \ {i}
  /\ UNCHANGED <<status, attempts, lease_owner, due, enabled, cycle, outdated, faults>>

\* ... or of one whose holder is still at work: renewals came too late.
LeaseLapses(i) ==
  /\ i \in live /\ ~ Abandoned(i) /\ faults < MaxFaults
  /\ live' = live \ {i}
  /\ faults' = faults + 1
  /\ UNCHANGED <<status, attempts, lease_owner, due, enabled, cycle, outdated>>

\* An administrator configures or removes a provider.
Configure ==
  /\ \E T \in SUBSET Topics : T # enabled /\ enabled' = T
  /\ UNCHANGED <<rows, cycle, outdated, faults>>

Work(w) ==
  \/ BeginCycle(w) \/ PrepareProcessors(w) \/ LeaseReady(w)
  \/ \E i \in Items : BlockInactive(w, i) \/ StartItem(w, i)
  \/ LeaseLost(w) \/ Fail(w) \/ BlockPermanent(w)
  \/ \E result \in Succeeded : Complete(w, result)
  \/ EndCycle(w)

Passage == \E i \in Items : BecomeDue(i) \/ LeaseExpires(i)

Next ==
  \/ Produce \/ Passage \/ Configure
  \/ \E w \in Workers : Work(w) \/ PrepareFails(w) \/ Abort(w)
  \/ \E i \in Items : LeaseLapses(i)

Spec == Init /\ [][Next]_vars

\* The supervisor loop starts a cycle whenever the last one ended and a cycle runs
\* on; the clock passes every deadline.
FairSpec ==
  /\ Spec
  /\ \A w \in Workers : WF_vars(Work(w))
  /\ \A i \in Items : WF_vars(BecomeDue(i)) /\ WF_vars(LeaseExpires(i))
-----------------------------------------------------------------------------
TypeOK ==
  /\ status \in [Items -> RowStatus]
  /\ attempts \in [Items -> 0..MaxAttempts]
  /\ lease_owner \in [Items -> Tokens \cup {NoToken}]
  /\ due \subseteq Items /\ live \subseteq Items
  /\ enabled \subseteq Topics
  /\ pc \in [Workers -> CycleStage]
  /\ active \in [Workers -> SUBSET Topics]
  /\ token \in [Workers -> Tokens \cup {NoToken}]
  /\ batch \in [Workers -> SUBSET Items]
  /\ current \in [Workers -> Items \cup {NoItem}]
  /\ outdated \in [Workers -> SUBSET Items]
  /\ faults \in 0..MaxFaults

\* A row carries a lease exactly while it is processing, and only such a row can be
\* unexpired: enqueue, requeue, recovery and every outcome clear the lease with the
\* status, so no path leaves a processing row that recover_expired cannot find.
LeaseCoherent ==
  \A i \in Items :
    /\ status[i] = "processing" <=> lease_owner[i] # NoToken
    /\ i \in live => status[i] = "processing"

\* Lease owners tell cycles apart: no two running cycles, of one instance or of two,
\* ever act under the same lease_owner.
TokensDistinct ==
  /\ \A w \in Workers : pc[w] = "idle" <=> token[w] = NoToken
  /\ \A v, w \in Workers : v # w /\ token[v] # NoToken => token[v] # token[w]

\* A running cycle leaves no live lease behind: an unexpired row leased under its token
\* is one it still has to take up or is processing, whichever way earlier items went.
NoLeaseLeftBehind ==
  \A w \in Workers : \A i \in live : lease_owner[i] = token[w] => i \in Claimed(w)

\* A cycle whose claim was revoked by a re-queue cannot own the row again, even when
\* the row is leased anew while the cycle still processes the old payload.
OutdatedNeverOwns ==
  \A w \in Workers : \A i \in outdated[w] : lease_owner[i] # token[w]

\* Lease fencing as a whole: of a row's lease, of the tokens, of what a cycle holds and of
\* what was taken from it.
LeaseDiscipline == LeaseCoherent /\ TokensDistinct /\ NoLeaseLeftBehind /\ OutdatedNeverOwns

\* The latest request is the one answered: a row turns succeeded or superseded only by
\* a processor run that was leased after the row was last put back to pending.
AnswersLatestRequest ==
  [][\A i \in Items :
       status[i] = "processing" /\ status'[i] \in Succeeded =>
         \E w \in Workers : current[w] = i /\ current'[w] = NoItem /\ i \notin outdated[w]]_vars

\* Once producers pause, every queued row reaches an outcome - succeeded, superseded,
\* dead, or blocked for want of a processor - through crashes, timeouts and lost leases.
EverySettles ==
  <>[][~ Produce]_vars =>
    \A i \in Items : status[i] \in Ready \cup {"processing"}
                       ~> status[i] \in Succeeded \cup {"dead", "blocked"}

\* A row blocked while its processor was off returns to the queue when the processor is
\* configured and stays so ("blocked never unblocked" is the deadlock scheduler.py fears).
BlockedReturns ==
  \A i \in Items : status[i] = "blocked" /\ TopicOf[i] \in enabled
                     ~> status[i] # "blocked" \/ TopicOf[i] \notin enabled

\* The table as the promise of WorkLedger sees it: what is owed, taken up and given up.
Owed    == {i \in Items : status[i] \in Ready \cup {"processing", "blocked"}}
TakenUp == {i \in Items : \E w \in Workers : i \in Claimed(w) \ outdated[w]}
GivenUp == {i \in Items : status[i] = "dead"}

Ledger == INSTANCE WorkLedger WITH owed <- Owed, claimed <- TakenUp, givenUp <- GivenUp

\* At-least-once delivery: no request is forgotten, answered by a run that started
\* before it was made, or abandoned without having been tried.
LedgerSpec == Ledger!Spec
=============================================================================
