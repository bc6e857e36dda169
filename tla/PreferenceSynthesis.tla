------------------------ MODULE PreferenceSynthesis ------------------------
(***************************************************************************)
(* Synthesis of one actor's writing patterns: preference_outbox.py,        *)
(* processors/preference.py, PreferenceLearningService.synthesize_patterns *)
(* and mark_synthesis_completed.                                           *)
(*                                                                         *)
(* Some changes of the facts raise a trigger, which advances               *)
(* requested_revision and re-queues the actor's one outbox row; others     *)
(* raise none, or one that was raised before, and the patterns wait for    *)
(* the next.  Scheduler instances lease the row, recompute every pattern   *)
(* in one READ COMMITTED transaction under an advisory lock and then       *)
(* record the revision as completed.  The ready states of the row          *)
(* (pending, retry, an expired lease) are one here: the queue itself is    *)
(* the module Outbox.  A classification reads and writes in one step here: *)
(* KnowledgeIndex and KnowledgeFamilies take the two apart.                *)
(***************************************************************************)
EXTENDS Naturals, FiniteSets

CONSTANTS
  Workers,      \* scheduler instances
  Assets,       \* knowledge assets, one duplicate family each
  Own,          \* those that belong to the actor
  Copies,       \* his generated copies; the other assets are imported materials
  Drafts,       \* the versions of a copy
  Scopes,       \* account and niche contexts of the actor
  Global,       \* the global scope, and the place of an asset without a context
  ScopeOf,      \* the context each version of a copy is bound to
  Profiled,     \* the actor has a writing profile
  MinFamilies,  \* MIN_PATTERN_FAMILIES
  NoWorker,     \* lease_owner is null, the lock is free
  MaxChanges,   \* bound on changes from outside
  MaxFaults     \* bound on lapsed leases, cancellations and crashes

ASSUME PreferenceConstants ==
  /\ Global \notin Scopes /\ NoWorker \notin Workers
  /\ Own \subseteq Assets /\ Copies \subseteq Own /\ Profiled \in BOOLEAN
  /\ Drafts \subseteq Nat \ {0} /\ ScopeOf \in [Copies \X Drafts -> Scopes \cup {Global}]
  /\ MinFamilies \in Nat \ {0}
  /\ MaxChanges \in Nat /\ MaxFaults \in Nat

VARIABLES
  edition,       \* newest version of a material, knowledge target of a copy; 0 for none
  round,          \* lifecycle_state_version of a copy
  visibility,    \* of each asset
  granted,       \* the assets with a user permission of the actor
  poor,          \* the <<asset, version>> pairs whose performance falls short
  qualified,     \* the pairs eligible_for_synthesis
  unclassified,  \* the pairs whose knowledge_enrich row is outstanding
  told,          \* trigger keys of the classifications that were recorded
  fed,           \* the assets with an edge from a pattern of the actor
  requested, completed,  \* preference_synthesis_states
  row,           \* the outbox row: status, owner and the revision in its payload
  pattern,       \* per scope, the evidence of the active pattern; {} when there is none
  lock,          \* holder of the actor's advisory lock
  job,           \* what each worker is doing
  changes,       \* changes from outside so far
  silent,        \* the inputs changed and no trigger was raised since (history)
  basis,         \* changes seen by the transaction that wrote the patterns (history)
  faults

inputs == <<edition, round, visibility, granted, poor, qualified>>
facts == <<inputs, unclassified, told, requested, changes, silent>>
vars == <<facts, fed, completed, row, pattern, lock, job, basis, faults>>

AllScopes == Scopes \cup {Global}
Visibilities == {"team", "private"}
Idle == [stage |-> "idle"]

Now(a) == <<a, edition[a]>>
Place(p) == IF p[1] \in Copies THEN ScopeOf[p] ELSE Global

\* current_knowledge_targets and what the actor may read of them.
Readable(a) == a \in Own \/ a \in granted \/ visibility[a] = "team"
Targets == {a \in Assets : Readable(a) /\ Now(a) \in qualified}

\* list_eligible_assets: to the global scope belong the assets without a context, to
\* another one its own and those without; synthesize_pattern_candidates drops the poor.
Evidence(s) == {p \in {Now(a) : a \in Targets} : p \notin poor /\ Place(p) \in {s, Global}}

\* synthesize_pattern_candidates: enough independent families, or no pattern.
Supported(s) == IF Cardinality(Evidence(s)) >= MinFamilies THEN Evidence(s) ELSE {}

\* The scopes one synthesis visits: the global one and those of the eligible assets.
Contexts == {Global} \cup {Place(Now(a)) : a \in Targets}

\* What a synthesis could read now.
Inputs == <<Contexts, [s \in AllScopes |-> Evidence(s)]>>

\* Patterns f with those of g written over them.
Over(f, g) == [s \in DOMAIN f \cup DOMAIN g |-> IF s \in DOMAIN g THEN g[s] ELSE f[s]]
Only(s, E) == [x \in {s} |-> E]
NothingRead == [s \in {} |-> {}]

Owned(w) == row.owner = w
-----------------------------------------------------------------------------
Init ==
  /\ edition = [a \in Assets |-> IF a \in Copies THEN 0 ELSE 1]
  /\ round = [a \in Assets |-> 0] /\ visibility = [a \in Assets |-> "private"]
  /\ granted \in SUBSET (Assets \ Own) /\ poor = {} /\ qualified = {}
  /\ unclassified = {<<a, 1>> : a \in Assets \ Copies} /\ told = {} /\ fed = {}
  /\ requested = 0 /\ completed = 0
  /\ row = [status |-> "absent", owner |-> NoWorker, revision |-> 0]
  /\ pattern = [s \in AllScopes |-> {}]
  /\ lock = NoWorker
  /\ job = [w \in Workers |-> Idle]
  /\ changes = 0 /\ silent = FALSE /\ basis = 0 /\ faults = 0

\* Mutant: a row being processed keeps its lease and only gets the new revision.
TriggerKeepingLease ==
  /\ requested' = requested + 1
  /\ row' = IF row.status = "processing" THEN [row EXCEPT !.revision = requested + 1]
            ELSE [status |-> "ready", owner |-> NoWorker, revision |-> requested + 1]
  /\ silent' = FALSE

\* enqueue_preference_synthesis with a new trigger key: the row is ready again under the
\* new revision, whoever held it.
Trigger ==
  /\ requested' = requested + 1
  /\ row' = [status |-> "ready", owner |-> NoWorker, revision |-> requested + 1]
  /\ silent' = FALSE

\* A change nobody is told of.
Quietly ==
  /\ silent' = (silent \/ Inputs' # Inputs)
  /\ UNCHANGED <<requested, row>>

Outside ==
  /\ changes < MaxChanges /\ changes' = changes + 1
  /\ UNCHANGED <<told, fed, completed, pattern, lock, job, basis, faults>>

\* grant_permission and revoke_permission, of what belongs to somebody else: the key is
\* the permission row's own.
ChangeAccess(a) ==
  /\ a \notin Own /\ Outside /\ Trigger
  /\ granted' = IF a \in granted THEN granted \ {a} ELSE granted \cup {a}
  /\ UNCHANGED <<edition, round, visibility, poor, qualified, unclassified>>

\* upsert_resource: another content or visibility of a material is a version of its own,
\* and the older one is no target any more.  Enrichment follows later.
Revise(a) ==
  /\ a \notin Copies /\ Outside
  /\ edition' = [edition EXCEPT ![a] = @ + 1]
  /\ \E v \in Visibilities : visibility' = [visibility EXCEPT ![a] = v]
  /\ unclassified' = unclassified \cup {Now(a)'}
  /\ UNCHANGED <<round, granted, poor, qualified>>
  /\ Quietly

\* adopt and finalize of a copy: a draft becomes its knowledge target, under a
\* knowledge_enrich key of the event.
Retarget(a) ==
  /\ a \in Copies /\ Outside
  /\ \E v \in Drafts : edition' = [edition EXCEPT ![a] = v]
  /\ round' = [round EXCEPT ![a] = @ + 1]
  /\ unclassified' = unclassified \cup {Now(a)'}
  /\ UNCHANGED <<visibility, granted, poor, qualified>>
  /\ Quietly

\* The verdict on a teardown's source queues the enrichment of the teardown again.
Requeue(a) ==
  /\ a \notin Copies /\ Outside
  /\ Now(a) \notin unclassified
  /\ unclassified' = unclassified \cup {Now(a)}
  /\ UNCHANGED inputs
  /\ Quietly

\* A performance metric of the version is recorded: it feeds the candidates, no trigger.
Measure(a) ==
  /\ edition[a] # 0 /\ Outside
  /\ poor' = IF Now(a) \in poor THEN poor \ {Now(a)} ELSE poor \cup {Now(a)}
  /\ UNCHANGED <<edition, round, visibility, granted, qualified, unclassified>>
  /\ Quietly

\* _synthesis_actor_ids: is the actor told of a classification of the asset?
Listed(a) == a \in Own \/ a \in granted \/ a \in fed \/ (visibility[a] = "team" /\ Profiled)

\* classify_knowledge_asset: a copy is knowledge by being the target; a material by its text.
Verdicts(p) == IF p[1] \in Copies THEN {p = Now(p[1])} ELSE BOOLEAN

\* persist_enrichment of one version.  had_synthesis_input is asked after the row of this
\* version is written; a key recorded before raises nothing.
Classify(a) ==
  \E p \in unclassified, ok \in BOOLEAN :
    LET key == <<p, ok, visibility[a], round[a]>> IN
    /\ p[1] = a /\ ok \in Verdicts(p)
    /\ unclassified' = unclassified \ {p}
    /\ qualified' = IF ok THEN qualified \cup {p} ELSE qualified \ {p}
    /\ UNCHANGED <<edition, round, visibility, granted, poor, changes, fed, completed, pattern, lock, job, basis, faults>>
    /\ IF Listed(a) /\ key \notin told /\ (\E q \in qualified' : q[1] = a)
         THEN Trigger /\ told' = told \cup {key}
         ELSE Quietly /\ UNCHANGED told

\* The worker leases the row and keeps its payload.
Lease(w) ==
  /\ job[w] = Idle /\ row.status = "ready"
  /\ row' = [row EXCEPT !.status = "processing", !.owner = w]
  /\ job' = [job EXCEPT ![w] = [stage |-> "synthesize", revision |-> row.revision, cancelled |-> FALSE]]
  /\ UNCHANGED <<facts, fed, completed, pattern, lock, basis, faults>>

\* Mutant: no advisory lock.
AcquireNoLock(w) ==
  /\ job[w].stage = "synthesize"
  /\ job' = [job EXCEPT ![w] = [stage |-> "read", revision |-> job[w].revision, cancelled |-> job[w].cancelled,
               scopes |-> Contexts, writes |-> NothingRead, seen |-> changes]]
  /\ UNCHANGED <<facts, fed, completed, row, pattern, lock, basis, faults>>

\* acquire_actor_lock, then list_eligible_contexts.
Acquire(w) ==
  /\ job[w].stage = "synthesize" /\ lock = NoWorker
  /\ lock' = w
  /\ job' = [job EXCEPT ![w] = [stage |-> "read", revision |-> job[w].revision, cancelled |-> job[w].cancelled,
               scopes |-> Contexts, writes |-> NothingRead, seen |-> changes]]
  /\ UNCHANGED <<facts, fed, completed, row, pattern, basis, faults>>

\* _synthesize_pattern_scope: the assets as they are now; candidates are written and a
\* pattern they no longer support is retired, to be seen at commit.
ReadScope(w) ==
  /\ job[w].stage = "read"
  /\ \E s \in job[w].scopes :
       job' = [job EXCEPT ![w].scopes = @ \ {s}, ![w].writes = Over(@, Only(s, Supported(s)))]
  /\ UNCHANGED <<facts, fed, completed, row, pattern, lock, basis, faults>>

\* The unit of work commits and the lock goes with it.  A cancelled processor waits for
\* this before it gives up the row.
Commit(w) ==
  /\ job[w].stage = "read" /\ job[w].scopes = {}
  /\ pattern' = Over(pattern, job[w].writes)
  /\ fed' = fed \cup {p[1] : p \in UNION {job[w].writes[s] : s \in DOMAIN job[w].writes}}
  /\ basis' = job[w].seen
  /\ lock' = IF lock = w THEN NoWorker ELSE lock
  /\ job' = [job EXCEPT ![w] = IF job[w].cancelled THEN Idle ELSE [stage |-> "check", revision |-> job[w].revision]]
  /\ UNCHANGED <<facts, completed, row, faults>>

\* assert_owned before the completion is recorded.
Check(w) ==
  /\ job[w].stage = "check"
  /\ job' = [job EXCEPT ![w] = IF Owned(w) THEN [job[w] EXCEPT !.stage = "mark"] ELSE Idle]
  /\ UNCHANGED <<facts, fed, completed, row, pattern, lock, basis, faults>>

\* Mutant: a revision already recorded counts as stale.
MarkOnce(w) ==
  /\ job[w].stage = "mark"
  /\ LET fresh == requested = job[w].revision /\ completed < requested IN
       /\ completed' = IF fresh THEN requested ELSE completed
       /\ job' = [job EXCEPT ![w] = [stage |-> "settle", done |-> fresh]]
  /\ UNCHANGED <<facts, fed, row, pattern, lock, basis, faults>>

\* mark_synthesis_completed: only the requested revision; recording it again is success.
Mark(w) ==
  /\ job[w].stage = "mark"
  /\ LET current == requested = job[w].revision IN
       /\ completed' = IF current THEN requested ELSE completed
       /\ job' = [job EXCEPT ![w] = [stage |-> "settle", done |-> current]]
  /\ UNCHANGED <<facts, fed, row, pattern, lock, basis, faults>>

\* complete() or fail(), by the owner only.
Settle(w) ==
  /\ job[w].stage = "settle"
  /\ row' = IF Owned(w)
              THEN [row EXCEPT !.status = IF job[w].done THEN "succeeded" ELSE "ready", !.owner = NoWorker]
              ELSE row
  /\ job' = [job EXCEPT ![w] = Idle]
  /\ UNCHANGED <<facts, fed, completed, pattern, lock, basis, faults>>

Fault == faults < MaxFaults /\ faults' = faults + 1

\* The lease expires and recover_expired makes the row ready.
Lapse ==
  /\ row.status = "processing"
  /\ IF job[row.owner] = Idle THEN UNCHANGED faults ELSE Fault
  /\ row' = [row EXCEPT !.status = "ready", !.owner = NoWorker]
  /\ UNCHANGED <<facts, fed, completed, pattern, lock, job, basis>>

\* outbox_timeout_seconds, or a heartbeat that finds the lease lost: the thread is awaited.
Cancel(w) ==
  /\ job[w].stage \in {"synthesize", "read"} /\ ~ job[w].cancelled /\ Fault
  /\ job' = [job EXCEPT ![w].cancelled = TRUE]
  /\ UNCHANGED <<facts, fed, completed, row, pattern, lock, basis>>

\* The process dies: the transaction rolls back and the lock is released.
Crash(w) ==
  /\ job[w] # Idle /\ Fault
  /\ job' = [job EXCEPT ![w] = Idle]
  /\ lock' = IF lock = w THEN NoWorker ELSE lock
  /\ UNCHANGED <<facts, fed, completed, row, pattern, basis>>

Work(w) == Lease(w) \/ Acquire(w) \/ ReadScope(w) \/ Commit(w) \/ Check(w) \/ Mark(w) \/ Settle(w)

Next ==
  \/ \E a \in Assets : ChangeAccess(a) \/ Revise(a) \/ Retarget(a) \/ Requeue(a) \/ Measure(a) \/ Classify(a)
  \/ \E w \in Workers : Work(w) \/ Cancel(w) \/ Crash(w)
  \/ Lapse

Spec == Init /\ [][Next]_vars

\* Schedulers keep cycling, leases expire, enrichment gets to every version.
FairSpec ==
  /\ Spec
  /\ \A w \in Workers : WF_vars(Work(w))
  /\ WF_vars(Lapse)
  /\ \A a \in Assets : WF_vars(Classify(a))
-----------------------------------------------------------------------------
Editions == Assets \X Nat
TypeOK ==
  /\ edition \in [Assets -> Nat] /\ round \in [Assets -> Nat] /\ visibility \in [Assets -> Visibilities]
  /\ granted \subseteq Assets /\ fed \subseteq Assets
  /\ poor \cup qualified \cup unclassified \subseteq Editions
  /\ \A a \in Copies : edition[a] \in Drafts \cup {0}
  /\ completed \in 0..requested /\ row.revision \in 0..requested
  /\ row.status = "processing" <=> row.owner # NoWorker
  /\ row.owner \in Workers \cup {NoWorker} /\ lock \in Workers \cup {NoWorker}
  /\ pattern \in [AllScopes -> SUBSET Editions]
  /\ changes \in 0..MaxChanges /\ silent \in BOOLEAN /\ basis \in 0..changes /\ faults \in 0..MaxFaults

\* Every request is completed, and no change went by silently since the newest.
Answered == completed = requested /\ ~ silent

\* Once the newest revision is recorded as completed, the patterns of every scope that has
\* eligible assets are those the current facts support, although a synthesis reads scope
\* after scope while facts change.
CompletedReflects == Answered => \A s \in Contexts : pattern[s] = Supported(s)

\* A requested revision not yet completed is still queued: no race with the completion of
\* an earlier one marks the row succeeded.
OutstandingQueued == completed < requested => row.status \in {"ready", "processing"}

\* No change of the facts up to the newest trigger is forgotten: it is queued, or in the
\* patterns.
NoChangeForgotten == CompletedReflects /\ OutstandingQueued

\* A synthesis that lost its lease never overwrites the patterns of a later one.
NeverOlderEvidence == [][basis' >= basis]_vars

\* The row drains when facts stop changing.
JobDrains == <>[](row.status \in {"absent", "succeeded"} /\ completed = requested)

\* test_preference_learning.py:841: a pattern is retired when the current inputs no longer
\* support it.
RetiredWhenUnsupported == Answered => \A s \in AllScopes : Supported(s) = {} => pattern[s] = {}
=============================================================================
