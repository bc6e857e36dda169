----------------------------- MODULE SourceSync -----------------------------
(***************************************************************************)
(* Synchronising the external sources of one tenant: source_repository.py, *)
(* the source part of scheduler.py, sources/postgres.py, sources/feishu.py *)
(* and the manual sync_service.py.                                         *)
(*                                                                         *)
(* A table source (postgres_table) is read page by page behind a saved     *)
(* primary-key cursor; a Feishu source is read at once and imported in     *)
(* chunks.  Every repository call is one transaction and one action.       *)
(* lease_expires_at is kept as none, live or expired and next_run_at as    *)
(* the set due.                                                            *)
(***************************************************************************)
EXTENDS Naturals, Sequences, FiniteSets, FiniteSetsExt, SequencesExt

CONSTANTS
  Tables,      \* sources of type postgres_table
  Feishu,      \* sources of type feishu_base and feishu_wiki
  Base,        \* the Feishu source a manual sync files its run under
  Schedulers,
  LeaseTokens,      \* lease owners, one per cycle
  NoLeaseToken,     \* lease_owner is null
  MaxRow,      \* bound on the primary keys of a source
  PageSize,    \* page_size of a table, _SYNC_CHUNK_SIZE of Feishu
  WalkLimit,   \* max_docs of the walk of a wiki
  MaxRuns,     \* bound on the sync_runs looked at together; a finished one may be reused
  MaxManual,   \* bound on manual syncs
  MaxSyncFaults    \* bound on crashes, timeouts, lapsed leases, failed reads and rows

Sources == Tables \cup Feishu

ASSUME SourceConstants ==
  /\ Tables \cap Feishu = {} /\ (Feishu = {} \/ Base \in Feishu)
  /\ NoLeaseToken \notin LeaseTokens
  /\ MaxRow \in Nat /\ PageSize \in Nat \ {0} /\ WalkLimit \in Nat \ {0}
  /\ MaxRuns \in Nat /\ MaxManual \in Nat /\ MaxSyncFaults \in Nat

VARIABLES
  tableRows,      \* tableRows[s]: how many rows the external source has (keys 1..tableRows[s])
  imported,  \* imported[s]: the rows upserted as resources
  owner, lease, sourceDue, cursor,  \* the columns of sync_sources
  queue,     \* sources, least recently dispatched first
  runs,      \* sync_runs
  job,       \* what each scheduler is doing
  manual,    \* the manual sync under way
  manuals, syncFaults

columns == <<owner, lease, sourceDue, cursor>>
syncVars == <<tableRows, imported, owner, lease, sourceDue, cursor, queue, runs, job, manual, manuals, syncFaults>>

SyncIdle   == [stage |-> "idle"]
Rows   == 1..MaxRow
Working(w) == job[w].stage \in {"read", "renew", "import", "finish", "record"}

\* The rows a run answers for: those a table had when the run began and, of Feishu, what the
\* read brought.
Promise(ss) == {p \in (ss \cap Tables) \X Rows : p[2] <= tableRows[p[1]]}
Brought(i, s, rows) == [runs EXCEPT ![i].promise = @ \cup ({s} \X rows)]
Imported == {p \in Sources \X Rows : p[2] \in imported[p[1]]}

FreeRun(i) ==
  /\ runs[i].status # "running"
  /\ \A w \in Schedulers : ~ (Working(w) /\ job[w].run = i)
  /\ manual # SyncIdle => manual.run # i

NewRun(i, s, ss) ==
  /\ FreeRun(i) /\ \A j \in 1..i-1 : ~ FreeRun(j)
  /\ runs' = [runs EXCEPT ![i] = [source |-> s, status |-> "running", stale |-> FALSE, promise |-> Promise(ss)]]

\* finish_run: only a running run is finished.
FinishedRun(i, status) ==
  IF runs[i].status = "running" THEN [runs EXCEPT ![i].status = status, ![i].stale = FALSE] ELSE runs

\* _status_for_result and _source_result.
Result(errors, some) == IF ~ errors THEN "succeeded" ELSE IF some THEN "partial" ELSE "failed"

\* What Feishu holds and a read looks at: all of the Base, and of the wiki the first documents
\* in its listing until WalkLimit of them could be fetched.
LooksAt(s, unread) ==
  {r \in 1..tableRows[s] : s \in Tables \cup {Base} \/ Cardinality((1..r-1) \ unread) < WalkLimit}
WholeRead(s) == [rows |-> LooksAt(s, {}), errors |-> FALSE]

\* What a read of Feishu can bring.  A document or table that cannot be read is noted; a
\* listing that fails, or is not configured, brings an error with no rows: the table list of
\* the Base notes it, every other one notes nothing.
Nothing(errors) == [rows |-> {}, errors |-> errors]
FeishuReads(s) ==
  {[rows |-> LooksAt(s, unread) \ unread, errors |-> LooksAt(s, unread) \cap unread # {}] :
     unread \in SUBSET (1..tableRows[s])}
  \cup {Nothing(FALSE)} \cup (IF s = Base THEN {Nothing(TRUE)} ELSE {})

Leasable(s) == sourceDue[s] /\ lease[s] # "live"

\* The rows one upsert pass takes from those read: the lowest PageSize keys.
Chunk(rest) == {r \in rest : Cardinality({q \in rest : q < r}) < PageSize}
-----------------------------------------------------------------------------
SyncInit ==
  /\ tableRows \in [Sources -> 0..MaxRow]
  /\ imported = [s \in Sources |-> {}]
  /\ owner = [s \in Sources |-> NoLeaseToken]
  /\ lease = [s \in Sources |-> "none"]
  /\ sourceDue \in [Sources -> BOOLEAN]
  /\ cursor = [s \in Sources |-> 0]
  /\ queue \in SetToSeqs(Sources)
  /\ runs = [i \in 1..MaxRuns |-> [source |-> CHOOSE s \in Sources : TRUE, status |-> "failed", stale |-> FALSE, promise |-> {}]]
  /\ job = [w \in Schedulers |-> SyncIdle]
  /\ manual = SyncIdle
  /\ manuals = 0 /\ syncFaults = 0

Fault == syncFaults < MaxSyncFaults /\ syncFaults' = syncFaults + 1

\* Mutant: recovery ends the runs and leaves nothing else to anyone.
RecoverNothing(w, k) ==
  /\ job[w] = SyncIdle
  /\ job' = [job EXCEPT ![w] = [stage |-> "lease", token |-> k]]
  /\ UNCHANGED <<tableRows, imported, owner, lease, sourceDue, cursor, queue, runs, manual, manuals, syncFaults>>

\* A cycle begins with recover_stale_runs: stale runs are stopped, and a source of theirs
\* whose lease is not live is freed.
RecoverStale(w, k) ==
  /\ job[w] = SyncIdle
  /\ LET freed == {s \in Sources : lease[s] # "live" /\ \E i \in DOMAIN runs :
                     runs[i].source = s /\ runs[i].status = "running" /\ runs[i].stale}
     IN  /\ owner' = [s \in Sources |-> IF s \in freed THEN NoLeaseToken ELSE owner[s]]
         /\ lease' = [s \in Sources |-> IF s \in freed THEN "none" ELSE lease[s]]
  /\ runs' = [i \in DOMAIN runs |->
       IF runs[i].status = "running" /\ runs[i].stale THEN [runs[i] EXCEPT !.status = "stopped", !.stale = FALSE] ELSE runs[i]]
  /\ job' = [job EXCEPT ![w] = [stage |-> "lease", token |-> k]]
  /\ UNCHANGED <<tableRows, imported, sourceDue, cursor, queue, manual, manuals, syncFaults>>

BeginSync(w) ==
  \E k \in LeaseTokens :
    /\ \A s \in Sources : owner[s] # k
    /\ \A v \in Schedulers : job[v] # SyncIdle => job[v].token # k
    /\ RecoverStale(w, k)

\* lease_due_source: the due source that was dispatched longest ago.
Foremost(s) ==
  Leasable(s) /\ \E n \in DOMAIN queue : queue[n] = s /\ \A m \in 1..n-1 : ~ Leasable(queue[m])
LeaseDue(w) ==
  /\ job[w].stage = "lease"
  /\ \/ \E s \in Sources :
          /\ Foremost(s)
          /\ owner' = [owner EXCEPT ![s] = job[w].token]
          /\ lease' = [lease EXCEPT ![s] = "live"]
          /\ queue' = Append(Remove(queue, s), s)
          /\ job' = [job EXCEPT ![w] = [stage |-> "start", token |-> job[w].token, source |-> s]]
     \/ /\ \A s \in Sources : ~ Leasable(s)
        /\ job' = [job EXCEPT ![w] = SyncIdle] /\ UNCHANGED <<owner, lease, queue>>
  /\ UNCHANGED <<tableRows, imported, sourceDue, cursor, runs, manual, manuals, syncFaults>>

\* start_run, and the source re-read for its cursor.
StartRun(w) ==
  LET s == job[w].source IN
  /\ job[w].stage = "start"
  /\ \E i \in 1..MaxRuns :
       /\ NewRun(i, s, {s})
       /\ job' = [job EXCEPT ![w] = [stage |-> "read", token |-> job[w].token, source |-> s,
               run |-> i, from |-> cursor[s], cursor |-> cursor[s],
               rest |-> {}, errors |-> FALSE, some |-> FALSE]]
  /\ UNCHANGED <<tableRows, imported, columns, queue, manual, manuals, syncFaults>>

\* _failed_result, and the except branch of the table processor: the old cursor is kept.
FailedResult(j) == [j EXCEPT !.stage = "finish", !.cursor = j.from, !.rest = {}, !.errors = TRUE, !.some = FALSE]

\* Read the next page of the table, on a thread.
ReadTable(w) ==
  LET j == job[w]
      found == {r \in 1..tableRows[j.source] : r > j.cursor}
  IN
  /\ j.stage = "read" /\ j.source \in Tables
  /\ \/ job' = [job EXCEPT ![w] = IF found = {} THEN [j EXCEPT !.stage = "finish"]
                                  ELSE [j EXCEPT !.stage = "renew", !.rest = Chunk(found)]]
        /\ UNCHANGED syncFaults
     \/ Fault /\ job' = [job EXCEPT ![w] = FailedResult(j)]
  /\ UNCHANGED <<tableRows, imported, columns, queue, runs, manual, manuals>>

\* Read Feishu, on a thread: only what is raised becomes a failed result.
ReadFeishu(w) ==
  LET j == job[w] IN
  /\ j.stage = "read" /\ j.source \in Feishu
  /\ \/ \E got \in FeishuReads(j.source) :
          /\ IF got = WholeRead(j.source) THEN UNCHANGED syncFaults ELSE Fault
          /\ job' = [job EXCEPT ![w] = [j EXCEPT !.stage = "renew", !.rest = got.rows, !.errors = @ \/ got.errors]]
          /\ runs' = Brought(j.run, j.source, got.rows)
     \/ Fault /\ job' = [job EXCEPT ![w] = FailedResult(j)] /\ UNCHANGED runs
  /\ UNCHANGED <<tableRows, imported, columns, queue, manual, manuals>>

\* assert_owned before every page or chunk: the lease is renewed or the sync gives up.
\* The table processor turns the lost lease into a failed result first.
Renew(w) ==
  LET j == job[w] IN
  /\ j.stage = "renew"
  /\ IF owner[j.source] = j.token /\ lease[j.source] = "live"
       THEN job' = [job EXCEPT ![w].stage = IF j.rest = {} THEN "finish" ELSE "import"] /\ UNCHANGED runs
       ELSE IF j.source \in Tables
              THEN job' = [job EXCEPT ![w] = FailedResult(j)] /\ UNCHANGED runs
              ELSE job' = [job EXCEPT ![w] = SyncIdle] /\ runs' = FinishedRun(j.run, "failed")
  /\ UNCHANGED <<tableRows, imported, columns, queue, manual, manuals, syncFaults>>

\* Mutant: a row of a table that cannot be imported is noted and passed over.
ImportPassingOver(w) ==
  LET j == job[w]
      chunk == Chunk(j.rest)
  IN
  /\ j.stage = "import"
  /\ \E done \in SUBSET chunk :
       /\ IF done = chunk THEN UNCHANGED syncFaults ELSE Fault
       /\ imported' = [imported EXCEPT ![j.source] = @ \cup done]
       /\ job' = [job EXCEPT ![w] =
            LET rest == j.rest \ chunk IN
            [j EXCEPT !.stage = IF j.source \in Tables THEN "read" ELSE IF rest = {} THEN "finish" ELSE "renew",
                      !.cursor = IF j.source \in Tables THEN Max(chunk) ELSE 0, !.rest = rest,
                      !.errors = @ \/ done # chunk, !.some = @ \/ done # {}]]
  /\ UNCHANGED <<tableRows, columns, queue, runs, manual, manuals>>

\* Mutant: the errors of a chunk do not reach the result.
ImportSilently(w) ==
  LET j == job[w]
      chunk == Chunk(j.rest)
      rest == j.rest \ chunk
  IN
  /\ j.stage = "import"
  /\ \E done \in SUBSET chunk :
       /\ IF done = chunk THEN UNCHANGED syncFaults ELSE Fault
       /\ imported' = [imported EXCEPT ![j.source] = @ \cup done]
       /\ job' = [job EXCEPT ![w] =
            IF j.source \in Tables
              THEN IF done = chunk THEN [j EXCEPT !.stage = "read", !.cursor = Max(chunk), !.rest = {}, !.some = TRUE]
                   ELSE FailedResult(j)
              ELSE [j EXCEPT !.stage = IF rest = {} THEN "finish" ELSE "renew", !.rest = rest]]
  /\ UNCHANGED <<tableRows, columns, queue, runs, manual, manuals>>

\* Upsert one page or chunk.  A row that fails ends a table's sync; Feishu notes the error
\* and goes on.
Import(w) ==
  LET j == job[w]
      chunk == Chunk(j.rest)
      rest == j.rest \ chunk
  IN
  /\ j.stage = "import"
  /\ \E done \in SUBSET chunk :
       /\ IF done = chunk THEN UNCHANGED syncFaults ELSE Fault
       /\ j.source \in Tables => \A r \in done : Chunk(j.rest) \cap 1..r \subseteq done
       /\ imported' = [imported EXCEPT ![j.source] = @ \cup done]
       /\ job' = [job EXCEPT ![w] =
            IF j.source \in Tables
              THEN IF done = chunk THEN [j EXCEPT !.stage = "read", !.cursor = Max(chunk), !.rest = {}, !.some = TRUE]
                   ELSE FailedResult(j)
              ELSE [j EXCEPT !.stage = IF rest = {} THEN "finish" ELSE "renew", !.rest = rest,
                             !.errors = @ \/ done # chunk, !.some = @ \/ done # {}]]
  /\ UNCHANGED <<tableRows, columns, queue, runs, manual, manuals>>

\* Mutant: finish_source does not look at the lease.
FinishAnyway(w) ==
  LET j == job[w] IN
  /\ j.stage = "finish"
  /\ cursor' = [cursor EXCEPT ![j.source] = j.cursor]
  /\ owner' = [owner EXCEPT ![j.source] = NoLeaseToken]
  /\ lease' = [lease EXCEPT ![j.source] = "none"]
  /\ sourceDue' = [sourceDue EXCEPT ![j.source] = FALSE]
  /\ job' = [job EXCEPT ![w].stage = "record"]
  /\ UNCHANGED <<tableRows, imported, queue, runs, manual, manuals, syncFaults>>

\* The last assert_owned and finish_source, which checks the lease again.
FinishSource(w) ==
  LET j == job[w] IN
  /\ j.stage = "finish"
  /\ IF owner[j.source] = j.token /\ lease[j.source] = "live"
       THEN /\ cursor' = [cursor EXCEPT ![j.source] = j.cursor]
            /\ owner' = [owner EXCEPT ![j.source] = NoLeaseToken]
            /\ lease' = [lease EXCEPT ![j.source] = "none"]
            /\ sourceDue' = [sourceDue EXCEPT ![j.source] = FALSE]
            /\ job' = [job EXCEPT ![w].stage = "record"]
            /\ UNCHANGED runs
       ELSE /\ runs' = FinishedRun(j.run, "failed")
            /\ job' = [job EXCEPT ![w] = SyncIdle]
            /\ UNCHANGED columns
  /\ UNCHANGED <<tableRows, imported, queue, manual, manuals, syncFaults>>

\* finish_run with the processor's status; a run recovered meanwhile stays stopped.
RecordRun(w) ==
  LET j == job[w] IN
  /\ j.stage = "record"
  /\ runs' = FinishedRun(j.run, Result(j.errors, j.some))
  /\ job' = [job EXCEPT ![w] = SyncIdle]
  /\ UNCHANGED <<tableRows, imported, columns, queue, manual, manuals, syncFaults>>

\* source_timeout_seconds cancels the sync where it awaits.
Timeout(w) ==
  /\ job[w].stage \in {"read", "renew"} /\ Fault
  /\ runs' = FinishedRun(job[w].run, "failed")
  /\ job' = [job EXCEPT ![w] = SyncIdle]
  /\ UNCHANGED <<tableRows, imported, columns, queue, manual, manuals>>

Crash(w) ==
  /\ job[w] # SyncIdle /\ Fault
  /\ job' = [job EXCEPT ![w] = SyncIdle]
  /\ UNCHANGED <<tableRows, imported, columns, queue, runs, manual, manuals>>

\* sync_feishu_sources registers both Feishu sources and files its run under Base.
ManualStart ==
  /\ manual = SyncIdle /\ manuals < MaxManual /\ Feishu # {}
  /\ manuals' = manuals + 1
  /\ \E i \in 1..MaxRuns :
       /\ NewRun(i, Base, Feishu)
       /\ manual' = [stage |-> "import", run |-> i, rest |-> Feishu, errors |-> FALSE, some |-> FALSE]
  /\ UNCHANGED <<tableRows, imported, columns, queue, job, syncFaults>>

\* The Feishu processors run without a lease, one source after the other, on the same reads.
ManualImport ==
  /\ manual.stage = "import"
  /\ \E s \in manual.rest : \E got \in FeishuReads(s) \cup {Nothing(TRUE)} : \E done \in SUBSET got.rows :
       /\ s = Base \/ Base \notin manual.rest
       /\ IF got = WholeRead(s) /\ done = got.rows THEN UNCHANGED syncFaults ELSE Fault
       /\ imported' = [imported EXCEPT ![s] = @ \cup done]
       /\ runs' = Brought(manual.run, s, got.rows)
       /\ manual' = [manual EXCEPT !.stage = IF manual.rest = {s} THEN "record" ELSE "import",
                       !.rest = @ \ {s}, !.errors = @ \/ got.errors \/ done # got.rows, !.some = @ \/ done # {}]
  /\ UNCHANGED <<tableRows, columns, queue, job, manuals>>

ManualRecord ==
  /\ manual.stage = "record"
  /\ runs' = FinishedRun(manual.run, Result(manual.errors, manual.some))
  /\ manual' = [manual EXCEPT !.stage = "finish"]
  /\ UNCHANGED <<tableRows, imported, columns, queue, job, manuals, syncFaults>>

\* Mutant: the manual sync finishes a source a scheduler has leased.
ManualFinishAnyway ==
  /\ manual.stage = "finish"
  /\ cursor' = [s \in Sources |-> IF s \in Feishu THEN 0 ELSE cursor[s]]
  /\ sourceDue' = [s \in Sources |-> sourceDue[s] /\ s \notin Feishu]
  /\ owner' = [s \in Sources |-> IF s \in Feishu THEN NoLeaseToken ELSE owner[s]]
  /\ lease' = [s \in Sources |-> IF s \in Feishu THEN "none" ELSE lease[s]]
  /\ manual' = SyncIdle
  /\ UNCHANGED <<tableRows, imported, queue, runs, job, manuals, syncFaults>>

\* finish_source without a lease_owner: a source anyone has leased is left alone.
ManualFinish ==
  /\ manual.stage = "finish"
  /\ LET free == {s \in Feishu : owner[s] = NoLeaseToken}
     IN  /\ cursor' = [s \in Sources |-> IF s \in free THEN 0 ELSE cursor[s]]
         /\ sourceDue' = [s \in Sources |-> sourceDue[s] /\ s \notin free]
  /\ manual' = SyncIdle
  /\ UNCHANGED <<tableRows, imported, owner, lease, queue, runs, job, manuals, syncFaults>>

ManualCrash ==
  /\ manual # SyncIdle /\ Fault
  /\ manual' = SyncIdle
  /\ UNCHANGED <<tableRows, imported, columns, queue, runs, job, manuals>>

\* The external source grows.
AddRow(s) ==
  /\ tableRows[s] < MaxRow
  /\ tableRows' = [tableRows EXCEPT ![s] = @ + 1]
  /\ UNCHANGED <<imported, columns, queue, runs, job, manual, manuals, syncFaults>>

\* next_run_at passes.
SourceBecomesDue(s) ==
  /\ ~ sourceDue[s]
  /\ sourceDue' = [sourceDue EXCEPT ![s] = TRUE]
  /\ UNCHANGED <<tableRows, imported, owner, lease, cursor, queue, runs, job, manual, manuals, syncFaults>>

\* lease_expires_at passes; under a cycle that still works the source it is a fault.
Held(s) == \E w \in Schedulers : job[w] # SyncIdle /\ job[w].stage # "lease" /\ job[w].token = owner[s]
Lapse(s) ==
  /\ lease[s] = "live"
  /\ IF Held(s) THEN Fault ELSE UNCHANGED syncFaults
  /\ lease' = [lease EXCEPT ![s] = "expired"]
  /\ UNCHANGED <<tableRows, imported, owner, sourceDue, cursor, queue, runs, job, manual, manuals>>

\* stale_run_seconds passes.
RunAges(i) ==
  /\ runs[i].status = "running" /\ ~ runs[i].stale
  /\ runs' = [runs EXCEPT ![i].stale = TRUE]
  /\ UNCHANGED <<tableRows, imported, columns, queue, job, manual, manuals, syncFaults>>

Cycle(w) ==
  \/ BeginSync(w) \/ LeaseDue(w) \/ StartRun(w) \/ ReadTable(w) \/ ReadFeishu(w) \/ Renew(w)
  \/ Import(w) \/ FinishSource(w) \/ RecordRun(w)

ManualSync == ManualImport \/ ManualRecord \/ ManualFinish

SyncNext ==
  \/ \E w \in Schedulers : Cycle(w) \/ Timeout(w) \/ Crash(w)
  \/ ManualStart \/ ManualSync \/ ManualCrash
  \/ \E s \in Sources : AddRow(s) \/ SourceBecomesDue(s) \/ Lapse(s)
  \/ \E i \in 1..MaxRuns : RunAges(i)

SyncSpec == SyncInit /\ [][SyncNext]_syncVars

\* The supervisor starts a cycle every interval_seconds, a cycle and a manual sync run on,
\* and time passes.
SyncFairSpec ==
  /\ SyncSpec
  /\ \A w \in Schedulers : WF_syncVars(Cycle(w))
  /\ WF_syncVars(ManualSync)
  /\ \A s \in Sources : WF_syncVars(SourceBecomesDue(s)) /\ WF_syncVars(Lapse(s))
  /\ \A i \in 1..MaxRuns : WF_syncVars(RunAges(i))
-----------------------------------------------------------------------------
RunStatus == {"running", "succeeded", "partial", "failed", "stopped"}

SyncTypeOK ==
  /\ tableRows \in [Sources -> 0..MaxRow] /\ imported \in [Sources -> SUBSET Rows]
  /\ owner \in [Sources -> LeaseTokens \cup {NoLeaseToken}]
  /\ lease \in [Sources -> {"none", "live", "expired"}]
  /\ sourceDue \in [Sources -> BOOLEAN] /\ cursor \in [Sources -> 0..MaxRow]
  /\ \A s \in Sources : lease[s] = "none" <=> owner[s] = NoLeaseToken
  /\ queue \in SetToSeqs(Sources)
  /\ \A i \in DOMAIN runs : runs[i].status \in RunStatus

\* A row behind the saved cursor of a table has been imported: what no later page reads
\* again is never lost, however syncs fail, time out, crash or lose their lease.
NothingSkipped == \A s \in Tables : 1..cursor[s] \subseteq imported[s]

\* A run recorded succeeded imported every row its table had when it began, or everything its
\* reads of Feishu brought -- which is nothing if the listing failed without being noted, and
\* of the wiki no more than WalkLimit documents.
SucceededImported ==
  \A i \in DOMAIN runs : runs[i].status = "succeeded" => runs[i].promise \subseteq Imported

\* A table's cursor never moves back: a sync that lost its lease cannot overwrite what a
\* later one saved.
CursorAdvances == [][\A s \in Tables : cursor'[s] >= cursor[s]]_syncVars

\* A live lease ends by lapsing or by its holder finishing; neither recovery nor a manual
\* sync takes the source from it.
LiveLeaseRespected ==
  [][\A s \in Sources : lease[s] = "live" /\ lease'[s] = "none" =>
       \E w \in Schedulers : job[w].stage = "finish" /\ job[w].source = s /\ job[w].token = owner[s]]_syncVars

\* Every run comes to an end, that of a crashed process too.
RunsEnd == \A i \in 1..MaxRuns : runs[i].status = "running" ~> runs[i].status # "running"

\* Every row of a source is imported in the end, whatever went wrong a few times before; of
\* the wiki, every document its walk comes to.
RowsArrive == \A s \in Sources, r \in Rows : r \in LooksAt(s, {}) ~> r \in imported[s]

\* Neither a run nor a row waits for ever.
SyncProgresses == RunsEnd /\ RowsArrive
=============================================================================
