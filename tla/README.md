# TLA+ verification of the Xiaohongshu agent

The repository is a content agent: a LangGraph process (one worker, `data_foundation/http_app.py`)
that serves conversations and an HTTP API, a data foundation over PostgreSQL that keeps resources,
their enrichment and what is learnt about each user, background schedulers that synchronise sources
and work a transactional outbox, and a configuration centre from which models and credentials are
hot-reloaded. This directory holds TLA+ models of the parts in which order, concurrency and failure
matter, the TLC runs that check them on small instances, and proofs that TLAPS checks for all
instances. `PROJECT.json` ties every definition to the lines it models.

## Inventory

| Part | State it keeps | Operations | Hard behaviour | What makes it correct |
|---|---|---|---|---|
| Outbox (`outbox_repository`, `outbox_worker`, `scheduler`, producers in `repositories/resource`, `knowledge/repository`, `preference_outbox`) | rows of `resource_outbox`: status, attempts, lease owner and expiry, revision asked for | enqueue (four flavours), recover, unblock, lease a batch, renew, complete, fail, block | schedulers race for rows, leases lapse in the middle of a batch, processes stop, topics go inactive, requests arrive during work | no row settled by a worker that lost it; every request is worked or given up; latest request answered |
| Configuration centre and model pool (`config_center`, `internal_api`, `model_registry`, `model_health`, `models`, start-up in `http_app`) | encrypted document with history, process environment, pool in service | POST of settings (verify, save, project, reload), health probe, bootstrap, restart | two awaits between read and save, pools built in threads, gateways going away, crash between save and reload | no update lost, environment follows the centre, pool never empty, pool converges to the saved configuration |
| Source synchronisation (`source_repository`, `sources/*`, `sync_service`, `scheduler`) | source lease, cursor, run rows | lease, page through a table, walk a Feishu base, manual synchronisation, finish source and run, recover stale runs | lost leases, timeouts, crashes between two commits, half-failed pages, manual runs, failed listings that note nothing | nothing behind the cursor is missing, cursor never goes back, a success imported what its reads brought, every run ends |
| Preference synthesis (`preference_learning`, `preference_outbox`, `processors/preference`, `repositories/preference`) | requested and completed revision, patterns per scope, actor lock | trigger, lease, synthesise scope by scope, retire, mark completed | facts change between reads and some without a trigger, threads outlive their lease, triggers race with completion | completed means reflecting what was triggered, uncompleted means queued, no write from older evidence, the queue drains |
| User skills (`user_skill_*`, `repositories/user_skill`) | versions, publication pointer, audit trail, catalogue revision; catalogue kept in an agent thread | create, append, publish, roll back, disable, archive; load and resolve in a turn | catalogue read over three connections while skills change, threads shared by users | the trail explains the state; a turn works with its own user's current catalogue |
| Feishu user token store (`tools/uat_store.py`, the OAuth callback in `internal_api`) | token pairs, in a PostgreSQL table or an encrypted file | save, read, refresh, delete | a refresh token works once; two threads refresh at once, an answer is lost, a process stops, a user authorises again meanwhile, the file cannot be read | in the table a valid login is not thrown away, serving one user leaves the others' records |
| Generated copy and its publication (`repositories/generated_copy`, `creation_memory`, `studio_api`, `performance_feedback`, `StudioContext.tsx`) | immutable versions, the pointers selected, adopted, finalized and published, a state version; the metric that carries the stage | select, revise, regenerate, adopt, schedule, publish, backfill | several tabs with tokens of different age, lost answers repeated, a stage read before its transaction | nothing happens twice, a committed call is answered as success, the final version is frozen, stage and status agree |
| Knowledge enrichment, keyword index, graph, vectors (`knowledge/*`, `processors/*`, `embedding_*`) | classification per version, outbox rows per engine, the contents of three engines | classify, reconcile the keyword index, merge into the graph, compute vectors, reconcile vectors | rows run in any order and again, external writes are not atomic with the database, a target is left and returned to | each engine settles on what PostgreSQL calls current |
| Generation provenance (`repositories/generation`, `generation_provenance`) | citations of a version | record, inherit | none of its own: it writes in the transaction of the copy | a version cites what it was made from |
| Retrieval metrics (`retrieval_metrics`, `repositories/retrieval_metrics`, `repositories/telemetry`) | runs, exposures and evidence identities in the database; permits, a global dispatcher, an executor | submit, record, replay, expire, report | statements of a recorder and a cleaner interleave under READ COMMITTED; a bounded queue at its limit; shutdown during work; observations and events dated before they can be seen | no identity lost or left over, a reported figure stands, no permit lost |
| Supervisor (`supervisor`, `http_app`) | coroutine, cycle thread, listener, connection, wake event | start, run cycles, listen, stop | stop during a cycle, notifications during a cycle | the connection outlives the cycle, no wake-up is lost, a stop ends |
| Model router (`middlewares`, `models`) | pool in service, cooldown of each candidate | order, call, fail over, retry | calls share the health of the pool without a lock while the pool is reloaded | a call fails only when what it could try is exhausted |
| Resources (`repositories/resource`, `permissions`) | resources and versions, external mapping, counts per type, grants | upsert, share, grant, revoke, recount | imports of one identity meet; the statements of two upserts interleave | one resource for an identity, counts are the numbers of rows |
| Retrieval (`retrieval`, `knowledge/grounding`, `ranking`) | a package per run, kept for a minute | recall, gate, expand by the graph, rank, wait with a timeout | shares, pointers and qualifications change between any two of these; two indexes and a graph outside PostgreSQL | a model sees only what its actor could see |
| Creation turns (`tools`, `creation_memory`, `turn_state`, `online_adopt`) | what the run has loaded, copies by origin turn, the stored request of a turn | start a run, save, revise | runs repeated for a message, tool calls in parallel | a message makes at most one copy |
| Knowledge families (`knowledge/repository`, `knowledge/policy`) | verdict, family and match of each exact version, edges, pending rows | classify, confirm, join or found a family, follow a source | rows of a teardown and of its source run in any order | a teardown is knowledge exactly while its source is |
| Writing profile (`preference_learning`, `creation_memory`, `performance_feedback`, `writing_context`) | facts of a user with their scope, a profile per scope | record the events of an exact version, bind, rebuild | transactions of one user overlap, roll back and repeat | a profile knows the facts of its scope and nobody else's |
| Agent assembly, external tools, reports, evaluation, web client | little or none of their own | | mostly pure functions and calls to other systems | |

The parts meet in the database and in one process. A resource upsert, an ACL change, an enrichment or
a feedback enqueues outbox rows; the scheduler's cycle first leases a source, then leases a batch and
calls processors; a processor of `preference_synthesize` runs the synthesis; the POST of a setting
changes what every later call of the agent uses; a published skill reaches the agent's thread at its
next turn. A lifecycle transition of a copy writes a `knowledge_enrich` row in its own transaction; the
classification it leads to takes the same advisory lock and writes the rows of the three engines.
`PROJECT.json` lists every component with its status and every hazard with its line.

## Modules

| Module | Models | State ↔ code |
|---|---|---|
| `Outbox` | one tenant's outbox table, its four producers and the outbox part of the schedulers' cycles | `status`, `attempts`, `lease_owner` are the row's columns; `due` and `live` the comparisons `next_attempt_at <= now()` and `lease_expires_at > now()`; `pc`, `token`, `batch`, `current` are the local variables of a running cycle, `active` the registry it built when it began, `enabled` what the configuration enables; `outdated` remembers which claims were revoked by a re-queue |
| `WorkLedger` | what the outbox promises its producers: a request is owed until a run that took it up after it was made discharges it, or it is given up | abstract; `Outbox!LedgerSpec` is the refinement: owed is ready, processing or blocked, claimed is what a cycle holds and has not lost to a re-queue, given up is dead |
| `ModelConfig` | configuration centre, environment, pool registry, POST handlers, health probe, embedding bootstrap, restart | `history` is the document, `environ` is `os.environ`, `cache` is `_DISCOVER_CACHE`, `registry` the pool served and its version, `job` each request or thread between its awaits; `down` the gateways out of reach; `verified` and `lastSet` remember what was verified and saved |
| `SourceSync` | table and Feishu sources, the source part of the schedulers' cycles and the manual run | `lease`, `owner`, `sourceDue`, `cursor` are columns of `sync_sources`; `runs` are rows of `sync_runs`, with a history of what each promises; `job` is a cycle's local state, `manual` a run by hand; `tableRows` and `imported` are the outside and what arrived |
| `PreferenceSynthesis` | one actor's synthesis | `requested`, `completed` are the state row; `row` the outbox row; `lock` the advisory lock; `job` a worker's transaction with what it has read; `pattern` the committed patterns and `fed` the edges from them; `edition`, `round`, `visibility`, `granted`, `poor`, `qualified` are the facts a synthesis reads, `unclassified` the outstanding enrichment rows, `told` the trigger keys used; `silent` remembers a change without a trigger, `basis` how new the facts behind the patterns are |
| `UserSkill` | skills of some users and an agent thread | `skill`, `audit`, `revision` are the tables; `loaded` the catalogue in the thread's state, `turn` the middleware's position; the two history variables remember what was published at some and at every moment of a turn |
| `GeneratedCopy` | one generated copy, the tabs that work on it, its performance metric | `copy` is the row of `generated_copy_states` with the latest version; `view` what a tab last read, `pending` the call it has no answer to; `metric` the performance metric, `post` a stage request between its read and its transaction; `queued` the enrichment rows, named by version and state version (one event each); `did` remembers that a pending call has changed the copy |
| `KnowledgeIndex` | what follows a transition, composed with `GeneratedCopy` | `enriched` the rows whose result is recorded, `asset` and `gen` the columns of `knowledge_asset_states`, `searchRows`, `graphRows`, `vectorRows` the outbox rows of each engine, `document`, `edges`, `vectors` what the engines hold, `job` a worker between its reads and writes |
| `KnowledgeFamilies` | classification across resources: confirmation, families of duplicates, edges between versions, teardowns that follow their source | `edition`, `text`, `basis`, `confirmed` are columns of resources and versions, `asset` is `knowledge_asset_states`, `founder` `knowledge_families`, `links` the other edges, `owed` the pending `knowledge_enrich` rows, `enricher` a worker between its snapshot and its commit |
| `UatStore` | user tokens in either backend, and Feishu as the code uses it | `tokens` are the stored records, `honoured` and `issued` what Feishu accepts and has issued, `caller` the local state of `get_uat` and of a callback in a thread, `backend` which store is configured, `legible` whether the file can be read and decrypted |
| `ServiceProcess` | lifespan, supervisor, and the dispatcher of measurements, in one process | `life` is how far start-up or shutdown has come, `sup` the supervisor's coroutine, thread, connection and events, `metrics` the global dispatcher, `pool` each dispatcher's permits and executor, `payload` each measurement; `told` remembers a notification after the last work taken |
| `ModelRouter` | the model call of a turn: retry, order, failover | `serving` is the registry's pool, `cooling` the candidates in their cooldown, `call` the local variables of a call, with what it has tried |
| `Resources` | `upsert_resource` and the recount of the migration | `res`, `mapping`, `counts`, `queued` are tables, `importer` a transaction between its statements with what it has read |
| `Retrieval` | one grounding: recall, gate, graph, ranking, cache and timeout | `newest`, `pointer`, `qualified`, `team`, `acl` are what the gate reads; `thread` is `retrieve` in its thread, `turn` what the waiting agent has, `cached` the `GroundingCache`; `wasOpen` remembers what was readable since the run began |
| `RetrievalMetrics` | the recording, replay and expiry of runs, statement by statement | `row`, `exposed`, `identity` are tables, `writer` and `cleaner` transactions; `earliest` remembers the first observation |
| `RetrievalOutcomes` | the report over exposures and outcomes | `exposures`, `cites`, `events`, `copyAt` are tables; `unwritten` the dated measurements yet to be recorded, `open` the lifecycle transactions that have begun and not committed; `day` the clock and the `as_of` of a report |
| `CreationTurn` | runs of a conversation that save and revise copy | `asked`, `scope`, `grounding`, `profile` are the thread's state, `draft` and `feedback` tables, `toolCall` a save in its transaction |
| `WritingProfile` | what one user's writing preferences are learned from | `niche`, `bound`, `learned`, `profiles` are tables, `editor` a transaction with the facts it has read |
| `ResourceStore` | what imports are promised: an upsert takes effect at one instant, on the row it replaces, with the counts right at once | abstract; `Resources` implements it (`ImportsAreAtomic`) |
| `OutboxProofs`, `KnowledgeProofs`, `BackgroundProofs`, `ResourceProofs`, `SearchProofs`, `PersonalProofs`, `AgentProofs`, `ConfigProofs` | the theorems, each module about the one to four components that *Proofs* names | |

An action is a handler's step between two points at which something else may run: a database
transaction or a statement of it where READ COMMITTED lets another transaction in between, a synchronous stretch
between two awaits, a thread's commit. What is not told apart by a
property is left out: payloads, texts, tenants other than one (but in `Resources`), the wording of errors.

`KnowledgeIndex` uses of the outbox what `WorkLedger` promises (a row a worker holds is outstanding until its
result is recorded) and not its leases; so do `KnowledgeFamilies` and, for the one row of an actor, `PreferenceSynthesis`.
That each of the three keeps the ledger is proved (*Proofs*, the ledger). A classification and a repository call are one step because both hold
the copy's advisory lock from the read to the commit. Left out of `KnowledgeIndex`: rows given up as dead, the node's attributes in the graph, a change
of the embedding profile, and a write to Meili that goes on in its thread after its row was taken again. The
scheduling call is the tab's in `StudioContext.tsx`; a lost select, revision or adoption is repeated the same way,
which the page does not do by itself but a user or a tool may.

The other parts meet through what one leaves for the other. `Retrieval` reads what `KnowledgeFamilies` and
`KnowledgeIndex` qualify and `GeneratedCopy` points at: there, `qualified` and `pointer` change at every moment.
`RetrievalMetrics` gets what `Retrieval` has shown through the dispatcher of `ServiceProcess`, which may refuse or
drop it. `RetrievalOutcomes` reads the exposures and the events of the copies, in any order `GeneratedCopy` allows.
`CreationTurn` starts from the package of `Retrieval`, and its copies are those of `GeneratedCopy`.
`WritingProfile` takes the events of exact versions in any order.

### Hosts

The `MC*` modules give TLC its constants. Four of them host several components: `MCQueues` (outbox, synchronisation,
service process), `MCContent` (the nine parts of a session), `MCProgress` (the liveness of the first three) and
`MCPersonal` (preferences and skills). Their specification draws a `part` at the start; a behaviour is then one of
that component, with the others' variables as they began. Their state space is the sum of the components' and not
the product, and no property relates variables of two parts. `MCProgress` and `MCPersonal` state the fairness
of each part's specification conjoined with `part = ...`.

### What the code does not promise

Four models were written so that a promise the code does not keep is not assumed, and their properties say how far it goes.

* `UatStore`. The file backend has no lock around read, refresh and delete: a thread that was refused may delete the record
  another has just refreshed, which the code accepts for local development, so `DeletedWhenDead` is about the database.
  `_read_store` takes a file it cannot read or decrypt for an empty one (`LoseSight`), and the next save or refresh replaces it by the
  caller's record alone: everybody else's is lost, as a comment there says and a test repeats. `OthersKept` is about the table and about a file
  that can be read when it is replaced.
* `SourceSync`. A listing of Feishu that fails, or is not configured, is an error in a field nobody looks at: the read brings nothing and notes nothing,
  and the run is recorded succeeded with nothing imported (`Nothing(FALSE)` in `FeishuReads`). The walk of a wiki stops at its
  `max_docs` (`WalkLimit`; the code's is 20) and succeeds. So the promise of a Feishu run is what its reads brought (`Brought`), not what Feishu
  holds, and `RowsArrive` is about what the walk comes to. A table is read in full and its run promises every row there was when it began.
* `RetrievalOutcomes`. `created_at` of an event is the start of its transaction, which may wait for the copy's lock and commit after a report
  (`BeginLifecycle`, `Happen`); a run is dated when it is observed and written when the queue comes to it, or never (`ShowEvidence`, `Record`, `Drop`). A figure of a closed window
  can therefore still be moved, by an exposure that changes the attribution or by a transaction dated within the window, and
  `FiguresFinal` says that nothing else moves it. Service and database are taken to read one clock.
* `PreferenceSynthesis`. Not every change of what a synthesis reads raises a trigger: a performance metric does not, nor a new version or target before
  its classification, nor a classification whose asset has no actor in `_synthesis_actor_ids` that is this one (`Listed`), nor one whose key (version, verdict,
  visibility, lifecycle version) was used before, as `on conflict do nothing` swallows it. A rejection of a version that was eligible raises none either
  when no version of the asset is left that is, because the question whether there was one is asked after the row is written, although the docstring of
  `enqueue_preference_synthesis` (`preference_outbox.py:20`) speaks of eligible and rejected transitions alike. These changes go by silently
  (`Quietly`) and the patterns wait for the next trigger: `NoChangeForgotten` is about everything up to the newest one.

## Runs

| Run | Instance | Shows |
|---|---|---|
| `queues` | outbox: two rows with an `ensure` and a `debounced` producer, two schedulers, three tokens, two attempts, one fault; synchronisation: one table of two pages, two schedulers, two faults, or an empty Base and a wiki of two documents with a walk of one, one cycle at a time beside a run by hand, one fault; process: two measurements, one permit, two lifespans | leases are exclusive and coherent, a completion answers the latest request, the outbox implements `WorkLedger`; nothing behind the cursor is missing and it never goes back, a run recorded succeeded imported what its reads brought; a shutdown closes nothing under a thread that uses it and leaves neither permit nor writer, no notification is slept on |
| `content` | two users, two threads or transactions in each of nine parts, see below | no live authorization is deleted from the table, and serving one user loses no other's record unless the file cannot be read; a model call fails only when exhausted; counts and mappings exact; measurements exact while they expire, reported figures move only by what is dated within their windows; a model is shown only what was open; one copy per message; a teardown follows its source; profiles know their facts |
| `progress` | outbox: two rows with `once` and `terminal` producers on two topics, one scheduler, one fault; synchronisation: one Feishu source, one scheduler and a manual run, one fault; process: one lifespan; fairness of each | every queued row settles once producers pause, a blocked row returns when its processor is configured; a manual run does not take a live lease, every run ends and every row arrives; a shutdown that has begun ends |
| `model_config` | two administrators, probe, bootstrap, two gateways, a configured and an empty deployment, three saves, one outage, one restart, `FairSpec` | no update is lost; the environment and the pool follow the centre and the pool is never emptied; it converges to the saved configuration |
| `model_config_verified` | two administrators, three saves | finding 1 |
| `personal` | preferences: a foreign material, not shared or shared before it is imported (then without faults), and a copy with two drafts bound to two accounts, one family makes a pattern, two workers, two changes, one fault; skills: two users with a skill each, two versions, six and one audited operations, one shared thread; fairness of each | no change up to the newest trigger is forgotten, no write rests on older facts than the one before, the job drains; the audit replays to the state, a turn is offered its own user's current catalogue, catalogues are hot-reloaded |
| `preference_retire` | the same preferences, the actor with a profile | finding 2 |
| `knowledge` | five scopes, see below | a token names one state; a call that changed the copy is never accepted again and is answered as success; the final version is frozen; stage, status and version agree; keyword index, classification and vectors settle on the current target |
| `knowledge_graph` | one tab, one worker on the graph, two candidates | finding 3 |
| `knowledge_stage` | two tabs that publish, one lost message | finding 4 |
| `creation_revision` | two messages, two copies of up to three versions, two tool calls | finding 5 |
| `profile_scopes` | two versions and one feedback, one account, two niches, two transactions | finding 6 |

### Bounds

Every unbounded counter is cut off by a guard with a named constant: `MaxAttempts` is the code's own,
`MaxFaults` and `MaxSyncFaults` (crashes, timeouts, lapses) in `Outbox`, `PreferenceSynthesis` and `SourceSync`, `MaxSaves`,
`MaxOutages` and `MaxRestarts` in `ModelConfig`, `MaxRow`, `MaxRuns`, `MaxManual` and `WalkLimit` (for the code's 20) in `SourceSync`,
`MaxChanges` in `PreferenceSynthesis`, `MaxVersions` and `MaxEvents` in `UserSkill`, `MaxVersion` and `MaxState` in
`GeneratedCopy`. In the parts of a session: `MaxToken`, `MaxRetries`, `MaxRevision`, `MaxTime`, `MaxDay`, `MaxSeen`, `MaxCopyVersion`,
`MaxEvents`, `MaxItemVersion`, `MaxShifts`, `MaxDraftVersion`, `MaxEdition`, `MaxFamily`, `MaxOwed`, and `MaxStarts` in `ServiceProcess`. Requests on the outbox
are not bounded: its counters saturate. Each bound admits the
interesting case and one more: a second lease after a lost one, a request during the second attempt,
a save between another's read and its save with a third after them, a page that fails and a page after it, a change between
two reads and another after the completion, a publication between the read of a revision and the read of the
documents. Two schedulers suffice because a row has one owner at a time and the races are
between an old owner and a new one; the theorems about `Outbox` and the other proved modules hold for every value of these bounds. The
runs without two schedulers are the liveness runs, in which the other scheduler could only help.

The parts of `content` are small and each has its race in full: two threads that refresh one user's token with a
callback between (two tokens); two calls over two candidates with one retry and a reload; two imports of one
identity, with a change of type (two ids, two types, three revisions); two runs that show overlapping evidence, two recorders and two
cleaners; a copy with two versions, one piece of evidence and two observations in a report of five days, windows of one and two; a draft and a teardown of it,
of two users, in two runs, one share or pointer moved; two messages, two tool calls, three versions; a snapshot of
two versions with a teardown of it, two workers; two rival versions, one feedback on the chosen one, one account whose niche
changes, two editors. `MaxEvents` is one for the report, since a figure is moved by a single late event, and
`MaxShifts` is one, since the property is about a change after the history began and each of recall, gate, graph and
answer may have it before or after it.

A behaviour of `KnowledgeIndex` draws one of the run's `Scopes` at its start, so that the tabs' network and the
workers' interleavings do not multiply: two tabs that only write, with two lost messages; two tabs that also
publish and measure, with one (both from one candidate, up to three versions and five state versions, enough for a
regeneration of two candidates and a finalization after it, or a finalization with a draft, publication and
measurement); one tab that adopts and schedules and two workers on the keyword index (with publication) or on the
vectors, one on the graph, with two versions, four state versions (adopt, leave, return) and, but for the graph, one crash. What a tab loses cannot be told from a slow tab by the
workers: they see transactions only, and every sequence of transitions that move the target, within the bound,
occurs with the single tab (selecting and revising write no row for the workers). `MaxPasses` is two where the code has `max_reconcile_passes = 4`: the least that has a first, a last and a failing pass.

### Fairness

Only weak fairness is used, and only for the program's own steps and the clock, never for requests, edits, crashes or lapses of
leases still in use. Weak fairness of a scheduler's next step stands for `supervisor._run`, which starts a cycle each
interval, and for a cycle that runs on; that of `BecomeDue`, `LeaseExpires`, `Lapse` and `RunAges` is time
passing a deadline. In `ModelConfig` the probe's rounds, the threads that build pools and the requests run on. In
`PreferenceSynthesis` enrichment gets to every version. In `UserSkill` it is a user who goes on with turns. In `ServiceProcess` it is the event loop, the steps of a
shutdown, the cycle thread, which is assumed to end, and the writers. Faults are bounded in
number, the usual meaning of "if faults stop"; a processor that was started is assumed to return or
to be timed out.

## Findings

1. **An unverified merge is stored** (`model_config_verified`). The POST handler verifies the update
   merged with the document it read before awaiting the gateways, and saves the update merged with the
   document as it is then. Two overlapping POSTs, each fine alone, can leave a configuration from which
   no pool can be built.
2. **A pattern outlives its evidence** (`preference_retire`). Synthesis visits the scopes that have
   eligible assets; the scope that lost its last one is not among them and its pattern stays active.
3. **A returning version loses its edges** (`knowledge_graph`). The graph row of a version is inserted
   once. Adopt 2, adopt 1 before that row has run (it ends superseded), adopt 2 again: the second request is
   swallowed and the graph never gets the current version. Search rows have a key per generation and vector rows
   are revived by the reconciliation; the graph has neither.
4. **The stage goes backwards** (`knowledge_stage`). `_persist_pipeline_stage` reads the metric before it opens
   its transaction and writes back what it read. Of two overlapping publish requests the later undoes a backfill that
   was recorded between them.
5. **A message revises once** (`creation_revision`). A revision stores the user's request as feedback under the
   turn's key, in its transaction. A second revision in the turn (the run is repeated for the message, or the model
   revises twice) is about another version, the stored payload differs, and the revision is refused although its tokens are the latest.
6. **A profile misses facts of no account** (`profile_scopes`). A fact without an account belongs to every scope's
   list, but its event rebuilds only the global profile and its own: the profiles of the user's accounts lack it until an
   event of theirs happens to come.

## Proofs

Seventeen modules are proved about, and two abstract specifications proved to be implemented, in eight modules of proofs, for every value of their constants. Every safety theorem has the same shape: an
inductive invariant that holds initially, a lemma per action (or group of actions with a common effect) that it is preserved,
and the property as one of its conjuncts or as what a step from it does. All invariants and all action properties
of the passing runs are proved, with the type invariants they rest on.

`OutboxProofs` (`Outbox`, `WorkLedger`):

* `TypeCorrect`: `Spec => []TypeOK`, inductive on its own;
* `LeasesSafe`: a lease is on a row exactly while it is processing, no two cycles share a token, no
  running cycle leaves a live lease behind, and a cycle whose claim was revoked cannot own the row again. None of the
  four is inductive alone: that a fresh token is fresh needs the coherence of leases, that a revoked
  claim is not mistaken for a new one needs the tokens to be distinct. `IInv` is their conjunction with
  `TypeOK` and `CycleShape`, which says that a cycle keeps no claims between batches; each action (or group
  of actions with a common effect: `RequeueStep`, `SettleStep`) has its own lemma;
* `LatestRequestAnswered`: the action property that a row turns succeeded or superseded only by
  a run leased after the row was last put back to pending, from `OutdatedNeverOwns`;
* `ImplementsLedger`: `Spec => LedgerSpec`. Initial states map to initial states and each action to
  a request, a discharge, a giving-up or a service step of the ledger, using `IInv` to know that the worker that settles
  still holds the claim.

`KnowledgeProofs` (`GeneratedCopy`, `KnowledgeIndex`) proves the seven properties of the run `knowledge` from `KnowledgeInv`, in two halves. What any
transaction does to the row of the copy is one formula, `Forward`: a changed row has a greater state version, a final row keeps its pointers,
and a change of the target or of its publication writes an enrichment row with a key no row had. The tabs, the metric and a
stage change under way survive every such transaction (`ForwardKeeps`), so `CallShape` (a call that
took effect has an outdated token), `PostShape` and `MetricShape` are inductive, and with them `TokenIsState`,
`RetriesAreSafe`, `FinalStaysFinal` and `MetricIsOfFinal`. On the index side
`QualifiedOrOwed` says that the target is classified as the copy stands or an enrichment is outstanding, and `SearchOwed` that the
document is current, an enrichment is outstanding, or some search row is such that every job on it is yet to write or
has just written what the index holds and is yet to confirm it. A stale write by one worker makes its own row the one that is owed,
which is why no order of the rows can leave an old document behind; it needs each row to be held by one worker
(`JobRows`) and a new row to have a key nobody holds (`Generations`).

`BackgroundProofs` (`SourceSync`, `ServiceProcess`):

* `SkipsNothing`, `SuccessIsImported`, `CursorNeverBack` and `LeaseIsRespected`, from `SyncInv`. What is behind the saved cursor is imported
  because a sync under way has imported what is behind its own (`Paged`), and because the saved cursor is the one it began from
  for as long as it owns the source; that a lost lease is not mistaken for a new one needs the tokens of the cycles to be distinct
  (`TokensDistinct`). A run that may still be recorded succeeded answers for its promise, the rows a table had when it began and what its Feishu reads brought so far
  (`ReadIsPromised`): without errors each is imported or still ahead of its sync (`Answers`, and `ManualOK` for the run by hand, which has no lease). A run
  belongs to one sync and has not succeeded while that sync is at work (`RunsDistinct`), so no promise is made on behalf of a success.
  Rows and imports only grow (`Grows`) and a run only ends (`RunsKept`), so every other sync survives a step of this one;
* `StopsClean` and `NeverSleepsOnWork`. `ServiceInv` relates the supervisor's coroutine to its thread and
  connection (`SupShape`), a notification to the event that stands for it (`ToldShape`), the dispatchers to the lifespans
  (`DispatcherShape`), and counts: the free permits and the measurements that hold one add up to `MaxInFlight` for each dispatcher
  (`PermitsExact`), whichever measurement moves (`OneMoves`, on cardinalities).

`ResourceProofs` (`Resources`, `KnowledgeFamilies`):

* `CountsAreExact` and `IdentityMakesOneResource`, from `ResourcesInv`. Two transactions never hold the lock of one identity or of one row
  (`OneImportPerIdentity`, `OneWriterPerResource`); hence the type an import has read is the type at its commit (`SeenIsCurrent`), which makes
  its corrections of the counts right, and an identity is mapped to nothing or to the resource its import works on (`MappedToIt`);
* `ImportsAreAtomic`: `Resources` implements `ResourceStore`, the tables with upserts that happen at one instant. A commit maps to a write,
  the discovery that a row is unchanged to a find, every other step to a stutter; the same invariant shows that the row which is replaced is
  the row that was read (`SeenIsCurrent`), and `CountsAreExact` that a migration's recount changes nothing;
* `TeardownsFollow`, from `FamiliesInv`. A teardown that disagrees with its source has a row outstanding (`FamOpen`), or its source will tell it:
  the source's newest version is still to be classified and nobody was told of it (`SourceOwes`, `Untold`), or a worker that has counted the sources
  as they are is about to commit (`Settling`). That the rows a source wrote for its teardowns are not older than what it is
  needs two more facts: a qualified newest version that is no teardown is active and, of a snapshot, confirmed, which nothing takes back (`SourceStands`), and a row that
  says "qualified" comes from a version that is (`ToldByQualified`).

`SearchProofs` (`Retrieval`, `RetrievalMetrics`, `RetrievalOutcomes`):

* `ShowsOnlyOpen` is `Spec => []ShownWasOpen`. The property is not inductive: what is shown comes from the
  thread's rows or from the cache, so `RetrievalInv` says of both that they were open to the actor since the run
  began (`RowsWereOpen`, `KeptWasOpen`), that the calls of a run share one history (`SharedHistory`), and that there is none before the run began, which is what lets a run begin
  with an empty one. Steps of the world only ever add to the history; steps of a call (`MoveOf`) add rows
  that pass the gate at that moment;
* `MetricsAreExact`, from `MetricsInv`. A run is locked by one cleaner and an evidence identity by one transaction (`LocksExclusive`); what
  a cleaner read under its locks is therefore still so when it deletes (`Stands`: the exposures of its runs, then which of its identities no other run names),
  and a recorder whose run is not yet visible is alone in writing it (`Recording`);
* `FiguresAreFinal`: `OutcomesInv` is small (nothing is dated in the future), the work is in the arithmetic of windows. A cohort's
  date is the least of its exposures and an outcome the least of its events (`LeastExists`). An event that is committed and is not `Late` is dated after
  every window of its copy that counts as closed, so the least event within such a window is the same before and after (`FirstDecides`).

`PersonalProofs` (`PreferenceSynthesis`, `UserSkill`):

* `ForgetsNothing` and `NeverFromOlder`, from `PreferenceInv`. `NoChangeForgotten` looks at committed
  patterns and needs to know what will become of a synthesis under way: `WritesRight` says that what it is about to write is
  what the facts support unless a newer request is outstanding or a change went by silently, `ReadsAll` that one for the newest request leaves no context
  out, `DoneCompleted` that a worker which may settle its row as done has completed what is requested.
  A change without a trigger leaves what a synthesis reads as it was or is remembered as silent (`QuietStep`), one with a trigger makes every synthesis under way an older one (`TriggerStep`).
  `SeenRecent` with `LockHeld` makes the reads of the holder of the advisory lock the newest;
* `OffersAreCurrent`, from `OffersInv`. Of every catalogue there is, loaded or being read, it says that if it names its user's
  present revision its documents are those published (`UpToRevision`), at the stage between the reads of names and documents of the names alone
  (`NamesRight`); and that what is published lies between the turn's two histories (`HistoryBounds`). An edit that changes what an owner has published
  bumps the owner's revision (`PublishedStays` for those that do not), which makes the premise false rather than the conclusion;
* `TrailExplains`, from `AuditInv`. `Replay` is a recursive function of the trail; that a trail has one replay (`ReplaysOnce`, by the least
  position at which two would differ) and that an appended event continues it (`ReplayGoesOn`) are lemmas about every trail, and
  each operation writes the row its event says (`EditRecords`).

`AgentProofs` (`UatStore`, `ModelRouter`, `CreationTurn`, `WritingProfile`):

* `DeletesOnlyDead` and `KeepsOthers` are action properties proved from `UatInv`: the row lock has one holder,
  who works on the token of the row as read under the lock (`UnderLock`), and a refused token stays refused
  (`RejectedDead`), because no thread knows a token Feishu has yet to issue (`CallerShape`, `RecordsIssued`);
* `FailsExhausted`, from `RouterInv`: what a call has tried, has still to try and has missed between its two looks at the
  clock is the pool it read (`Covers`), whatever other calls do to the health it is ordered by;
* `OneCopy`, from `OneSaver` (the advisory lock) and `NothingToFind` (a save that goes on to write has found no
  copy of the turn, and nobody else can have made one since);
* `LearnsOwnFacts`: `AllRecorded` says that a transaction which has recorded its event has read
  exactly the committed facts and its own, and `OneRecorded` that there is one such transaction at a time; its commit then
  rebuilds from everything.

`ConfigProofs` (`ModelConfig`): `ConfigLosesNothing` and `ConfigFollowsCenter`, from `ConfigInv`. The history of the document only grows (`Extends`), so
the version a thread builds a pool for stays a version of it, and a pool about to be put in service was listed by that version's gateway
(`HeldVersions`), also when the list comes from the cache (`CacheListed`).

The ledger. Several components take their work from the outbox; what they rely on is one specification, `WorkLedger`, proved four times:
`ImplementsLedger` for the table with its leases and attempts, and for each model that uses a row without them `SearchRowsKeepLedger` (the search rows of
`KnowledgeIndex`), `EnrichmentKeepsLedger` (the `knowledge_enrich` rows of `KnowledgeFamilies`) and `SynthesisKeepsLedger` (the row of an actor in
`PreferenceSynthesis`). A row is owed until its result is recorded and claimed while a worker holds it; a request for a
row that is at work is absorbed by the `on conflict` clause and is none to the ledger. In these three models no row is given up as dead, so
`givenUp` is empty. The graph and vector rows of `KnowledgeIndex` are taken and superseded in one step, which the ledger has no step for; they are not included.

The theorems assume only the named assumptions of the modules (`OutboxConstants`, `PreferenceConstants`, `GCBounds`, `GCNone`, `GCCalls`, `KIPasses`,
`KIScopes`, `SourceConstants`, `ServiceAssumption`, `ResourcesAssumption`, `FamiliesAssumption`, `RetrievalAssumption`, `MetricsAssumption`, `OutcomesAssumption`,
`UserSkillConstants`, `UatAssumption`, `RouterAssumption`, `CreationAssumption`, `ProfileAssumption`, `ConfigConstants`, `ConfigOffers`), which TLC evaluates in the
runs: the types of the constants, that null values are not among the others, that what is counted (measurements, resource ids, evidence, copies) is finite, and
that what administrators post is a configuration.

The library's induction theorems take an operator as a parameter and cannot be used. Where an argument needs induction over the natural numbers it is
given as a least counterexample instead: the numbers are well founded under `<` (`NatLessThanWellFounded`), and a set of them that is not empty has a least element (`WFMin`).

Model-checked only: all liveness (`EverySettles`, `BlockedReturns`, `StopCompletes`, `SyncProgresses`, `Converges`,
`JobDrains`, `HotReload`), which rests on fairness and so on `ENABLED`, out of the prover's reach; and the violated
properties of the findings, for which a run shows a counterexample.

## Not modelled

`PROJECT.json` has a row per component. Left out for good: retrieval scoring and evaluation over large
data (pure, sequential, covered by numerical tests; in `Retrieval` which of the allowed rows come first is a free
choice), prompt and agent assembly (an external library), stateless tools, report queries, generation provenance (written
in the transaction of the copy), the schema, and the web client, whose stream state lives in a library.

Five components are modelled in part. Preference synthesis has its order and its races, and not the content of a
candidate. Resources and permissions leave out edges, listing and performance queries. Knowledge enrichment leaves out the
change of embedding profile, late writes to Meili and the drift repair; the first two are hazards without a property,
as is an outbox row whose processor always hangs: leases are taken back without regard to `attempts`, so such a row comes
back for ever, which the fairness assumed here (an attempt eventually ends) excludes. Retrieval leaves out the scores, the shadow reranker and the
Qdrant gate, which change no answer. Agent tools are modelled as far as they write copy.

Some steps are coarser than the code's, and some detail is left to a library:

* `PreferenceSynthesis`: a classification reads the versions, writes its verdict and raises its triggers in one step.
* `ModelConfig`: the embedding bootstrap saves the environment as it read it, and `lastSet` counts that as the last save, as the document does. An
  administrator's newer setting which it overwrites is thus not reported.
* `UserSkill`: `Fail` takes every timeout for a failed load. A timed-out download comes back as errors of the single files
  (`user_skill_backend.py:205-210`); whether the catalogue then counts as loaded is up to the skills middleware of the agent library.
* `RetrievalMetrics`: the clean-up takes all expired rows at once and not `LIMIT` at a time; a batch changes which rows go first and nothing else.

## Plan

1. (done) `Outbox` with `WorkLedger`; `ModelConfig`; `SourceSync`; `PreferenceSynthesis`; `UserSkill`; `GeneratedCopy`
   with `KnowledgeIndex`; `UatStore`; `ServiceProcess`; `ModelRouter`; `Resources`; `Retrieval`; `RetrievalMetrics` with
   `RetrievalOutcomes`; `CreationTurn`; `KnowledgeFamilies`; `WritingProfile`.
2. (done) Proofs of every invariant and action property of the passing runs.
3. Further abstract specifications with their refinements proved: what the copy's lifecycle promises its tabs, what a recorded run promises the report.
4. `KnowledgeIndex`: late writes to Meili, change of the embedding profile with activation and retirement of indexes, drift repair.
