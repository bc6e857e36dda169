--------------------------- MODULE KnowledgeFamilies ---------------------------
(* Classification across resources: KnowledgeRepository.load_snapshot,         *)
(* .persist_enrichment and .confirm_exact_version.  An exact version is        *)
(* qualified or rejected; a qualified one joins the family of its duplicates   *)
(* or founds one; a version without an edge is linked to a related one; and a  *)
(* teardown, which is knowledge only while its one source is, is classified    *)
(* again after its source was.                                                 *)
(*                                                                             *)
(* The lock of a resource is held from the snapshot to the commit, the lock of *)
(* the tenant's families inside it.  KnowledgeIndex has what follows for the   *)
(* versions of a generated copy; here the newest version of a resource counts. *)
EXTENDS Naturals, FiniteSets

CONSTANTS
  Materials,                \* resources
  Teardowns, Snapshots,     \* those that need a source, those that need a confirmation
  HolderOf, Shared,         \* owner_open_id of a material; the materials with team visibility
  Texts, Near,              \* normalized texts, and the pairs of them that are 0.9 similar
  Related,                  \* pairs of materials with a table, niche, tag or words in common
  NoAsset,
  Enrichers,                \* workers of knowledge_enrich
  MaxEdition, MaxFamily,    \* bounds: versions of a material, families founded,
  MaxOwed                   \* rows pending when one more is written by a user

Editions == UNION {{m} \X (1 .. MaxEdition[m]) : m \in Materials}
Families == 0 .. MaxFamily   \* 0: none

Verdicts == {"none", "pending", "qualified", "rejected"}
\* What a row was written for: the version itself, its confirmation, or what became of
\* another version; rows of one cause share a deduplication key.
Causes == Editions \X Verdicts

ASSUME FamiliesAssumption ==
  /\ Teardowns \subseteq Materials /\ Snapshots \subseteq Materials \ Teardowns
  /\ Shared \subseteq Materials /\ Near \subseteq Texts \X Texts /\ Related \subseteq Materials \X Materials
  /\ NoAsset \notin Editions /\ NoAsset \notin Editions \X Causes
  /\ MaxEdition \in [Materials -> Nat] /\ MaxFamily \in Nat

VARIABLES
  edition,    \* resources: newest version (0: none), active
  text,       \* resource_versions: normalized text of each version
  basis,      \* teardown_of edge of each version of a teardown
  confirmed,  \* versions with metadata.confirmation
  asset,      \* knowledge_asset_states
  founder,    \* knowledge_families: canonical version, NoAsset: not founded
  links,      \* the other resource_edges: pairs of versions
  owed,       \* pending knowledge_enrich rows: <<version, cause>>
  enricher    \* the workers

familyVars == <<edition, text, basis, confirmed, asset, founder, links, owed, enricher>>

NotAsset == [verdict |-> "none", family |-> 0, match |-> "none", variant |-> NoAsset]
NotEnriching == [at |-> "idle", row |-> NoAsset, live |-> FALSE, sources |-> 0]

FamiliesTypeOK ==
  /\ edition \in [Materials -> [newest : Nat, active : BOOLEAN]]
  /\ text \in [Editions -> Texts \cup {NoAsset}] /\ basis \in [Editions -> Editions \cup {NoAsset}]
  /\ confirmed \subseteq Editions
  /\ asset \in [Editions -> [verdict : Verdicts, family : Families,
                             match : {"none", "singleton", "exact", "near"},
                             variant : Editions \cup {NoAsset}]]
  /\ founder \in [1 .. MaxFamily -> Editions \cup {NoAsset}]
  /\ links \subseteq Editions \X Editions /\ owed \subseteq Editions \X Causes
  /\ enricher \in [Enrichers -> [at : {"idle", "loaded", "persisted"},
                                 row : (Editions \X Causes) \cup {NoAsset},
                                 live : BOOLEAN, sources : {0, 1}]]

FamiliesInit ==
  /\ edition = [m \in Materials |-> [newest |-> 0, active |-> FALSE]]
  /\ text = [i \in Editions |-> NoAsset] /\ basis = [i \in Editions |-> NoAsset]
  /\ confirmed = {} /\ asset = [i \in Editions |-> NotAsset]
  /\ founder = [f \in 1 .. MaxFamily |-> NoAsset] /\ links = {} /\ owed = {}
  /\ enricher = [w \in Enrichers |-> NotEnriching]

-----------------------------------------------------------------------------
Current0 == {i \in Editions : asset[i].verdict = "qualified" /\ i[2] = edition[i[1]].newest
                              /\ edition[i[1]].active}
\* teardown_source_count, of the one edge a teardown is saved with.
SourceCount(i) == IF basis[i] \in Current0 /\ basis[i][1] \notin Teardowns THEN 1 ELSE 0
\* current_knowledge_targets
CurrentTargets == {i \in Current0 : i[1] \in Teardowns => SourceCount(i) = 1}

MaterialFree(m) ==
  \A w \in Enrichers : enricher[w].at = "loaded" => enricher[w].row[1][1] # m
\* on conflict do update: a row that has ended is pending again, one at work stays.
AtWork == {enricher[w].row : w \in Enrichers} \ {NoAsset}
Requeued(rows) == owed \cup (rows \ AtWork)

\* upsert_resource, for a teardown with the edge to the version it was made from.
SaveMaterial(m, x, live, s) ==
  LET i == <<m, edition[m].newest + 1>>
  IN  /\ i \in Editions /\ MaterialFree(m) /\ Cardinality(owed) < MaxOwed
      /\ IF m \in Teardowns THEN s \in Editions /\ s[2] <= edition[s[1]].newest ELSE s = NoAsset
      /\ edition' = [edition EXCEPT ![m] = [newest |-> i[2], active |-> live]]
      /\ text' = [text EXCEPT ![i] = x] /\ basis' = [basis EXCEPT ![i] = s]
      /\ owed' = owed \cup {<<i, <<i, "none">>>>}
      /\ UNCHANGED <<confirmed, asset, founder, links, enricher>>

\* confirm_exact_version of a session snapshot.
Confirm(i) ==
  LET row == <<i, <<i, "pending">>>>
      again == i \in confirmed /\ asset[i].verdict \in {"pending", "qualified"}
  IN  /\ i[1] \in Snapshots /\ i[2] <= edition[i[1]].newest /\ MaterialFree(i[1])
      /\ Cardinality(owed) < MaxOwed
      /\ confirmed' = confirmed \cup {i}
      /\ asset' = IF again THEN asset ELSE [asset EXCEPT ![i].verdict = "pending"]
      /\ owed' = IF again /\ asset[i].verdict = "qualified" THEN owed ELSE Requeued({row})
      /\ UNCHANGED <<edition, text, basis, founder, links, enricher>>

-----------------------------------------------------------------------------
\* classification_scope and load_snapshot, of a leased row.
LoadSnapshot(w, row) ==
  LET i == row[1]
  IN  /\ enricher[w].at = "idle" /\ row \in owed /\ MaterialFree(i[1])
      /\ owed' = owed \ {row}
      /\ enricher' = [enricher EXCEPT ![w] = [at |-> "loaded", row |-> row,
                        live |-> edition[i[1]].active, sources |-> SourceCount(i)]]
      /\ UNCHANGED <<edition, text, basis, confirmed, asset, founder, links>>

\* classify_knowledge_asset
Qualifies(i, live, sources) ==
  /\ live
  /\ i[1] \in Teardowns => sources = 1
  /\ i[1] \in Snapshots => i \in confirmed

\* _resolve_family: the family it has, that of an exact or else a near duplicate its owner
\* may read, or a new one.
Reads(m, j) == j[1] \in Shared \/ HolderOf[j[1]] = HolderOf[m]
Candidates(i, similar) ==
  {j \in Editions \ {i} : /\ asset[j].verdict = "qualified" /\ asset[j].family # 0
                          /\ edition[j[1]].active /\ Reads(i[1], j)
                          /\ <<text[j], text[i]>> \in similar}
SameText == {<<x, x>> : x \in Texts}
Joining(i, match, similar) ==
  {[verdict |-> "qualified", family |-> asset[j].family, match |-> match,
    variant |-> founder[asset[j].family]] : j \in Candidates(i, similar)}
Founding(i) ==
  {[verdict |-> "qualified", family |-> f, match |-> "singleton", variant |-> NoAsset] :
     f \in {g \in 1 .. MaxFamily : founder[g] = NoAsset /\ (g = 1 \/ founder[g - 1] # NoAsset)}}
Resolved(i) ==
  IF asset[i].family # 0 THEN {[asset[i] EXCEPT !.verdict = "qualified"]}
  ELSE IF Candidates(i, SameText) # {} THEN Joining(i, "exact", SameText)
  ELSE IF Candidates(i, Near) # {} THEN Joining(i, "near", Near)
  ELSE Founding(i)
Outcomes(i, qualifies) ==
  IF qualifies THEN Resolved(i) ELSE {[NotAsset EXCEPT !.verdict = "rejected"]}

\* _ensure_family_edge; _ensure_no_island: a version with no edge of its own, and the
\* related one it finds, if that has none either.
FamilyEdge(i, a) == IF a.variant = NoAsset THEN {} ELSE {<<i, a.variant>>}
HasEdge(i, edges) == basis[i] # NoAsset \/ \E e \in edges : e[1] = i
Neighbours(i) ==
  {j \in CurrentTargets' : /\ j[1] # i[1] /\ <<i[1], j[1]>> \in Related
                           /\ Reads(i[1], j)}
Linked(i, edges) ==
  IF HasEdge(i, edges) \/ Neighbours(i) = {} THEN {edges}
  ELSE {edges \cup {<<i, j>>} \cup (IF HasEdge(j, edges) THEN {} ELSE {<<j, i>>}) : j \in Neighbours(i)}

\* _enqueue_teardown_dependents: every teardown of any version of the resource.
\* Mutant: only the teardowns of the version just classified.
DependentsOfVersion(i) == {t \in Editions : basis[t] = i}
Dependents(i) == {t \in Editions : basis[t] # NoAsset /\ basis[t][1] = i[1]}

\* persist_enrichment; its transaction commits and lets the lock go.
Persist(w) ==
  LET e == enricher[w]
      i == e.row[1]
  IN  /\ e.at = "loaded"
      /\ \E a \in Outcomes(i, Qualifies(i, e.live, e.sources)) :
           /\ asset' = [asset EXCEPT ![i] = a]
           /\ founder' = IF a.match = "singleton" /\ founder[a.family] = NoAsset
                         THEN [founder EXCEPT ![a.family] = i] ELSE founder
           /\ UNCHANGED <<edition, text, basis, confirmed>>
           /\ links' \in Linked(i, links \cup FamilyEdge(i, a))
           /\ owed' = Requeued({<<t, <<i, a.verdict>>>> : t \in Dependents(i)})
      /\ enricher' = [enricher EXCEPT ![w].at = "persisted"]

\* The row is completed; or its lease lapses, before the commit or after it, and it runs again.
Settle(w) ==
  /\ enricher[w].at = "persisted" /\ enricher' = [enricher EXCEPT ![w] = NotEnriching]
  /\ UNCHANGED <<edition, text, basis, confirmed, asset, founder, links, owed>>
Lapse(w) ==
  /\ enricher[w].at # "idle" /\ enricher' = [enricher EXCEPT ![w] = NotEnriching]
  /\ owed' = owed \cup {enricher[w].row}
  /\ UNCHANGED <<edition, text, basis, confirmed, asset, founder, links>>

FamiliesNext ==
  \/ \E m \in Materials, x \in Texts, live \in BOOLEAN, s \in Editions \cup {NoAsset} :
       SaveMaterial(m, x, live, s)
  \/ \E i \in Editions : Confirm(i)
  \/ \E w \in Enrichers : Persist(w) \/ Settle(w) \/ Lapse(w) \/ \E row \in owed : LoadSnapshot(w, row)

FamiliesSpec == FamiliesInit /\ [][FamiliesNext]_familyVars

-----------------------------------------------------------------------------
(* A teardown is qualified exactly while its one source is current knowledge,  *)
(* as soon as nothing is owed for either: whatever the order in which the two  *)
(* are saved and classified, also when the source moved to a new version, or   *)
(* was classified between the teardown's snapshot and its commit.              *)
Quiet(m) == \A row \in owed \cup AtWork : row[1][1] # m
DependentsFollow ==
  \A t \in Teardowns :
    LET i == <<t, edition[t].newest>>
    IN  i \in Editions /\ Quiet(t) /\ Quiet(basis[i][1])
          => (asset[i].verdict = "qualified" <=> Qualifies(i, edition[t].active, SourceCount(i)))

=============================================================================
