-------------------------- MODULE KnowledgeIndex --------------------------
(* What follows a lifecycle transition of GeneratedCopy: the version is     *)
(* classified under the same lock, and the keyword index, the graph and the *)
(* vectors are brought up to date by outbox rows that workers take in any   *)
(* order, lose and take again.  The rows keep the promises of WorkLedger;   *)
(* their leases are in Outbox and not repeated here: a row a worker holds   *)
(* is outstanding until its result is recorded, and a worker that dies or   *)
(* loses its lease leaves it outstanding.                                   *)
(*                                                                          *)
(* One copy, one embedding index in service; scope.engines are the engines  *)
(* that are configured, the rows of the others stay where they are.         *)
EXTENDS GeneratedCopy

CONSTANTS
  Workers, NoJob, NoDocument,
  MaxPasses     \* MeiliProcessor.max_reconcile_passes

ASSUME KIPasses == MaxPasses \in Nat \ {0}

VARIABLES
  enriched,   \* knowledge_enrich rows whose result is recorded
  asset,      \* knowledge_asset_states: the classification of each version
  gen,        \* search_reconcile_generation of each version
  searchRows, \* outstanding meili_index rows, <<version, generation>>
  document,   \* the copy's document in the keyword index
  graphRows,  \* graph_ingest rows of each version, by who wrote them
  edges,      \* the versions whose edges the graph has
  vectorRows, \* embedding_generate row of each version
  vectors,    \* the versions whose vectors are stored
  job         \* what each worker is in the middle of

indexVars == <<enriched, asset, gen, searchRows, document, graphRows, edges,
               vectorRows, vectors, job>>
vars == <<copyVars, indexVars>>

Kinds     == {"adopted", "published"}
Document  == [version : Versions, kind : Kinds] \cup {NoDocument}
Origins   == {"candidate", "knowledge"}

Job ==
  [topic : {"search"}, row : Versions \X Nat, desired : Document,
   pass : 1 .. MaxPasses, step : {"write", "confirm", "finish"}]
    \cup [topic : {"graph"}, row : Versions \X Origins]
    \cup [topic : {"vector"}, row : Versions]

Scope == [clients : SUBSET Clients, posters : SUBSET Clients, ops : SUBSET Ops, lost : Nat,
          candidates : Versions, latest : Versions, states : 1 .. MaxState,
          workers : SUBSET Workers, faults : Nat,
          engines : SUBSET {"search", "graph", "vector"}]

ASSUME KIScopes == Scopes \subseteq Scope

TypeOK ==
  /\ CopyTypeOK
  /\ scope \in Scope
  /\ enriched \subseteq queued
  /\ asset \in [Versions -> Kinds \cup {"none", "rejected"}]
  /\ gen \in [Versions -> Nat]
  /\ searchRows \subseteq Versions \X Nat
  /\ document \in Document
  /\ graphRows \in [Versions \X Origins -> {"none", "pending", "done"}]
  /\ edges \subseteq Versions /\ vectors \subseteq Versions
  /\ vectorRows \in [Versions -> {"none", "pending", "superseded", "succeeded"}]
  /\ job \in [Workers -> Job \cup {NoJob}]

Init ==
  /\ CopyInit
  /\ enriched = {}
  /\ asset = [v \in Versions |-> "none"]
  /\ gen = [v \in Versions |-> 0]
  /\ searchRows = {}
  /\ document = NoDocument
  \* only the first candidate of a turn asks for its graph node
  /\ graphRows = [r \in Versions \X Origins |-> IF r = <<1, "candidate">> THEN "pending" ELSE "none"]
  /\ edges = {}
  /\ vectorRows = [v \in Versions |-> "none"]
  /\ vectors = {}
  /\ job = [w \in Workers |-> NoJob]

-----------------------------------------------------------------------------
(* The view current_knowledge_targets: the qualified target, if it is one.   *)
CurrentIn(a) ==
  IF copy.target # 0 /\ a[copy.target] \in Kinds
    THEN [version |-> copy.target, kind |-> a[copy.target]] ELSE NoDocument
Current == CurrentIn(asset)

Unenriched == queued \ enriched
Held(topic) == {job[w].row : w \in {x \in Workers : job[x] # NoJob /\ job[x].topic = topic}}
Working(w) == w \in scope.workers
Runs(w, engine) == Working(w) /\ job[w] = NoJob /\ engine \in scope.engines

(* A worker dies, times out or loses its lease; the row stays outstanding.   *)
Fault == scope.faults > 0 /\ scope' = [scope EXCEPT !.faults = @ - 1]
Calm  == UNCHANGED scope

-----------------------------------------------------------------------------
(* KnowledgeService.enrich_exact_version, one transaction under the copy's    *)
(* classification lock: reading, deciding, storing and queueing downstream.   *)
Decision(v) ==
  IF copy.target # v THEN "rejected"
  ELSE IF copy.status \in {"published", "measured"} THEN "published" ELSE "adopted"

(* The search row has a key of its own for each classification, and is put    *)
(* back when it has ended; a row being worked on is left as it is.            *)
\* Mutant: one search row per version.
SearchKeyOfVersion(v) == <<v, 1>>
SearchKey(v) == <<v, gen[v] + 1>>

(* The graph row and the vector row are written once per version.             *)
Once(status) == IF status = "none" THEN "pending" ELSE status

Classify(v) ==
  LET a == [asset EXCEPT ![v] = Decision(v)]
  IN  /\ asset' = a
      /\ gen' = [gen EXCEPT ![v] = @ + 1]
      /\ searchRows' = searchRows \cup {SearchKey(v)}
      /\ graphRows' = [graphRows EXCEPT ![<<v, "knowledge">>] = Once(@)]
      /\ vectorRows' = IF CurrentIn(a) # NoDocument /\ copy.target = v
                         THEN [vectorRows EXCEPT ![v] = Once(@)] ELSE vectorRows

Enrich(w) ==
  \E key \in Unenriched :
    /\ Working(w) /\ job[w] = NoJob
    /\ Classify(key[1])
    /\ \/ Calm /\ enriched' = enriched \cup {key}
       \/ Fault /\ UNCHANGED enriched             \* committed, result not recorded
    /\ UNCHANGED <<copy, view, pending, did, metric, post, queued,
                   document, edges, vectors, job>>

-----------------------------------------------------------------------------
(* MeiliProcessor: write what PostgreSQL says, then look again.               *)
SearchTake(w) ==
  /\ Runs(w, "search")
  /\ \E row \in searchRows \ Held("search") :
       job' = [job EXCEPT ![w] = [topic |-> "search", row |-> row, desired |-> Current,
                                  pass |-> 1, step |-> "write"]]
  /\ UNCHANGED <<copyVars, enriched, asset, gen, searchRows, document, graphRows,
                 edges, vectorRows, vectors>>

SearchWrite(w) ==
  /\ job[w] # NoJob /\ job[w].topic = "search" /\ job[w].step = "write"
  /\ document' = job[w].desired
  /\ job' = [job EXCEPT ![w].step = "confirm"]
  /\ UNCHANGED <<copyVars, enriched, asset, gen, searchRows, graphRows, edges,
                 vectorRows, vectors>>

Stable(desired) == desired = Current

MorePasses(j) == j.pass < MaxPasses

SearchConfirm(w) ==
  /\ job[w] # NoJob /\ job[w].topic = "search" /\ job[w].step = "confirm"
  /\ LET j == job[w]
     IN  \/ /\ Stable(j.desired)
            /\ job' = [job EXCEPT ![w].step = "finish"]
         \/ /\ ~Stable(j.desired) /\ MorePasses(j)
            /\ job' = [job EXCEPT ![w] = [j EXCEPT !.desired = Current, !.pass = @ + 1,
                                                   !.step = "write"]]
         \/ /\ ~Stable(j.desired) /\ ~MorePasses(j)  \* MEILI_RECONCILE_UNSTABLE: retry
            /\ job' = [job EXCEPT ![w] = NoJob]
  /\ UNCHANGED <<copyVars, enriched, asset, gen, searchRows, document, graphRows,
                 edges, vectorRows, vectors>>

(* The result is recorded in a transaction after the one that confirmed it.   *)
SearchFinish(w) ==
  /\ job[w] # NoJob /\ job[w].topic = "search" /\ job[w].step = "finish"
  /\ searchRows' = searchRows \ {job[w].row}
  /\ job' = [job EXCEPT ![w] = NoJob]
  /\ UNCHANGED <<copyVars, enriched, asset, gen, document, graphRows, edges,
                 vectorRows, vectors>>

-----------------------------------------------------------------------------
(* GraphProcessor: a version that is not the target any more is superseded;   *)
(* otherwise its node and edges are merged, without a second look.            *)
GraphTake(w) ==
  /\ Runs(w, "graph")
  /\ \E row \in DOMAIN graphRows \ Held("graph") :
       /\ graphRows[row] = "pending"
       /\ IF copy.target \in {0, row[1]}
            THEN /\ job' = [job EXCEPT ![w] = [topic |-> "graph", row |-> row]]
                 /\ UNCHANGED graphRows
            ELSE /\ graphRows' = [graphRows EXCEPT ![row] = "done"]
                 /\ UNCHANGED job
  /\ UNCHANGED <<copyVars, enriched, asset, gen, searchRows, document, edges,
                 vectorRows, vectors>>

GraphMerge(w) ==
  /\ job[w] # NoJob /\ job[w].topic = "graph"
  /\ edges' = edges \cup {job[w].row[1]}
  /\ graphRows' = [graphRows EXCEPT ![job[w].row] = "done"]
  /\ job' = [job EXCEPT ![w] = NoJob]
  /\ UNCHANGED <<copyVars, enriched, asset, gen, searchRows, document,
                 vectorRows, vectors>>

-----------------------------------------------------------------------------
(* EmbeddingProcessor: the target is read before the provider is called and   *)
(* again, under the resource's row lock, when the vectors are stored.         *)
IsCurrent(v) == Current # NoDocument /\ Current.version = v

VectorTake(w) ==
  /\ Runs(w, "vector")
  /\ \E v \in Versions \ Held("vector") :
       /\ vectorRows[v] = "pending"
       /\ IF IsCurrent(v)
            THEN /\ job' = [job EXCEPT ![w] = [topic |-> "vector", row |-> v]]
                 /\ UNCHANGED vectorRows
            ELSE /\ vectorRows' = [vectorRows EXCEPT ![v] = "superseded"]
                 /\ UNCHANGED job
  /\ UNCHANGED <<copyVars, enriched, asset, gen, searchRows, document, graphRows,
                 edges, vectors>>

VectorResult(v) == IF IsCurrent(v) THEN "succeeded" ELSE "superseded"

VectorStore(w) ==
  /\ job[w] # NoJob /\ job[w].topic = "vector"
  /\ LET v == job[w].row
     IN  /\ vectors' = IF IsCurrent(v) THEN vectors \cup {v} ELSE vectors
         /\ \/ Calm /\ vectorRows' = [vectorRows EXCEPT ![v] = VectorResult(v)]
            \/ Fault /\ UNCHANGED vectorRows      \* stored, result not recorded
  /\ job' = [job EXCEPT ![w] = NoJob]
  /\ UNCHANGED <<copy, view, pending, did, metric, post, queued, enriched, asset, gen,
                 searchRows, document, graphRows, edges>>

(* EmbeddingIndexService.reconcile_tenant asks for the current versions again: *)
(* OutboxRepository.enqueue puts a superseded row back, no other.              *)
\* Mutant: reconciliation inserts what is missing and revives nothing.
Inserted(status) == IF status = "none" THEN "pending" ELSE status
Ensured(status) == IF status \in {"none", "superseded"} THEN "pending" ELSE status

Reconcile ==
  /\ Current # NoDocument
  /\ vectorRows' = [vectorRows EXCEPT ![Current.version] = Ensured(@)]
  /\ UNCHANGED <<copyVars, enriched, asset, gen, searchRows, document, graphRows,
                 edges, vectors, job>>

(* The worker's process dies or its lease lapses between two steps.            *)
Dies(w) ==
  /\ job[w] # NoJob /\ Fault
  /\ job' = [job EXCEPT ![w] = NoJob]
  /\ UNCHANGED <<copy, view, pending, did, metric, post, queued, enriched, asset, gen,
                 searchRows, document, graphRows, edges, vectorRows, vectors>>

-----------------------------------------------------------------------------
Lifecycle == CopyNext /\ UNCHANGED indexVars
Work(w) == \/ Enrich(w) \/ SearchTake(w) \/ SearchWrite(w) \/ SearchConfirm(w)
           \/ SearchFinish(w)
           \/ GraphTake(w) \/ GraphMerge(w) \/ VectorTake(w) \/ VectorStore(w)

Next == Lifecycle \/ Reconcile \/ \E w \in Workers : Work(w) \/ Dies(w)

Spec == Init /\ [][Next]_vars

-----------------------------------------------------------------------------
(* When no enrichment and no search row is outstanding, the keyword index      *)
(* holds exactly the document PostgreSQL calls current: no row was swallowed   *)
(* and no older write won, whatever order the rows ran in.                     *)
SearchSettled == Unenriched = {} /\ searchRows = {} => document = Current

(* When no enrichment is outstanding, the target of the copy is qualified, as  *)
(* published material exactly if the copy has been published -- also for a     *)
(* target that was left and returned to.                                       *)
TargetQualified ==
  Unenriched = {} /\ copy.target # 0 =>
    Current = [version |-> copy.target,
               kind |-> IF copy.published # 0 THEN "published" ELSE "adopted"]

(* The vectors of the current version are stored, or the next reconciliation   *)
(* leaves a pending row for them; and a row that succeeded did store them.     *)
VectorsReachable ==
  \A v \in Versions :
    /\ vectorRows[v] = "succeeded" => v \in vectors
    /\ IsCurrent(v) => v \in vectors \/ Ensured(vectorRows[v]) = "pending"

(* When no enrichment and no graph row is outstanding, the graph has the edges *)
(* of the current version.  The code breaks this: see GraphTake and Once.      *)
GraphSettled ==
  /\ Unenriched = {} /\ Current # NoDocument
  /\ \A row \in DOMAIN graphRows : graphRows[row] # "pending"
  => Current.version \in edges
=============================================================================
