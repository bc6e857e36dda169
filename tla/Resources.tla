------------------------------ MODULE Resources ------------------------------
(* ResourceRepository.upsert_resource: the one way a resource comes into      *)
(* being or changes.  Imports of one external identity meet at the mapping    *)
(* lock, writers of one resource at the classification lock; the live row, its *)
(* version, the type counts, the mapping and the outbox commit together.      *)
(*                                                                            *)
(* One action per statement whose outcome another transaction can change      *)
(* under READ COMMITTED; both locks last to the end of the transaction.       *)
EXTENDS Integers, FiniteSets

CONSTANTS
  Tenants,
  Rids, NoRid,          \* resource ids
  Idents, NoIdent,      \* external identities (system, type, id)
  Kinds, NoKind,        \* resource types
  Bodies,               \* everything else a resource holds
  Importers,            \* transactions
  MaxRevision           \* bound on versions

ASSUME ResourcesAssumption ==
  /\ MaxRevision \in Nat \ {0} /\ IsFiniteSet(Rids)
  /\ NoRid \notin Rids \cup Tenants /\ NoIdent \notin Idents /\ NoKind \notin Kinds

VARIABLES
  res,       \* resources, with the newest resource_versions.version; 0: no row
  counts,    \* resource_type_counts; 0: no row
  mapping,   \* resource_mappings
  queued,    \* resource_outbox: exact versions with a knowledge_enrich row
  importer   \* the transactions

resourceVars == <<res, counts, mapping, queued, importer>>

NoRow == [tenant |-> NoRid, kind |-> NoKind, body |-> NoRid, version |-> 0, born |-> NoIdent]
Resting == [at |-> "idle", tenant |-> NoRid, ident |-> NoIdent, rid |-> NoRid,
            kind |-> NoKind, body |-> NoRid, seen |-> NoKind]

ResourcesTypeOK ==
  /\ res \in [Rids -> [tenant : Tenants \cup {NoRid}, kind : Kinds \cup {NoKind},
                       body : Bodies \cup {NoRid}, version : 0 .. MaxRevision,
                       born : Idents \cup {NoIdent}]]
  /\ counts \in [Tenants -> [Kinds -> 0 .. Cardinality(Rids)]]
  /\ mapping \in [Tenants -> [Idents -> Rids \cup {NoRid}]]
  /\ queued \subseteq Rids \X (1 .. MaxRevision)
  /\ importer \in [Importers -> [at : {"idle", "asked", "resolved", "read"},
       tenant : Tenants \cup {NoRid}, ident : Idents \cup {NoIdent}, rid : Rids \cup {NoRid},
       kind : Kinds \cup {NoKind}, body : Bodies \cup {NoRid}, seen : Kinds \cup {NoKind}]]

ResourcesInit ==
  /\ res = [r \in Rids |-> NoRow]
  /\ counts = [t \in Tenants |-> [k \in Kinds |-> 0]]
  /\ mapping = [t \in Tenants |-> [i \in Idents |-> NoRid]]
  /\ queued = {}
  /\ importer = [w \in Importers |-> Resting]

Exists(r) == res[r].version # 0
\* What a step of a transaction leaves alone until it commits.
Uncommitted == UNCHANGED <<res, counts, mapping, queued>>

-----------------------------------------------------------------------------
\* pg_advisory_xact_lock of the identity; no identity, no lock.
\* Mutant: imports of one identity do not wait for each other.
MappingFreeAlways(w, t, i) == TRUE
MappingFree(w, t, i) ==
  i = NoIdent \/ ~\E v \in Importers \ {w} : importer[v].at # "idle"
                                  /\ importer[v].tenant = t /\ importer[v].ident = i
\* acquire_classification_lock of (tenant, resource).
\* Mutant: writers of one resource do not wait for each other.
ResourceFreeAlways(w) == TRUE
ResourceFree(w) ==
  ~\E v \in Importers \ {w} : importer[v].at = "read"
       /\ importer[v].rid = importer[w].rid /\ importer[v].tenant = importer[w].tenant

\* The call: an identity, or the id of a resource, or neither.
BeginImport(w, t, i, r, k, b) ==
  /\ importer[w].at = "idle" /\ MappingFree(w, t, i)
  /\ importer' = [importer EXCEPT ![w] = [at |-> "asked", tenant |-> t, ident |-> i, rid |-> r,
                                          kind |-> k, body |-> b, seen |-> NoKind]]
  /\ Uncommitted

\* The mapped resource before the one named; an id nobody else has for a new one.
ResolveIdentity(w) ==
  LET m      == importer[w]
      mapped == IF m.ident = NoIdent THEN NoRid ELSE mapping[m.tenant][m.ident]
  IN  /\ m.at = "asked"
      /\ \E r \in Rids :
           /\ \/ mapped # NoRid /\ r = mapped
              \/ mapped = NoRid /\ m.rid # NoRid /\ r = m.rid
              \/ /\ mapped = NoRid /\ m.rid = NoRid /\ ~Exists(r)
                 /\ \A v \in Importers : importer[v].rid # r
           /\ importer' = [importer EXCEPT ![w].at = "resolved", ![w].rid = r]
      /\ Uncommitted

Unchanged(row, m) == row.kind = m.kind /\ row.body = m.body
Leave(w) == importer' = [importer EXCEPT ![w] = Resting]
\* on conflict: the identity names the resource of the last writer.
MapTo(m) == mapping' = IF m.ident = NoIdent THEN mapping
                       ELSE [mapping EXCEPT ![m.tenant][m.ident] = m.rid]

\* Under the lock: the existing row of this tenant, or none.
ReadExisting(w) ==
  LET m == importer[w]
      row == res[m.rid]
  IN  /\ m.at = "resolved" /\ ResourceFree(w)
      /\ \/ /\ Exists(m.rid) /\ row.tenant # m.tenant          \* PermissionError
            /\ Leave(w) /\ Uncommitted
         \/ /\ Exists(m.rid) /\ row.tenant = m.tenant /\ Unchanged(row, m)
            /\ MapTo(m) /\ Leave(w) /\ UNCHANGED <<res, counts, queued>>
         \/ /\ Exists(m.rid) => row.tenant = m.tenant /\ ~Unchanged(row, m)
            /\ importer' = [importer EXCEPT ![w].at = "read", ![w].seen = row.kind]
            /\ Uncommitted

\* _adjust_resource_type_count: never below zero, no row at zero.
Adjust(n, delta) == IF n + delta < 0 THEN 0 ELSE n + delta
Recount(c, seen, kind) ==
  [k \in Kinds |-> IF seen = kind THEN c[k]
                   ELSE IF k = kind THEN Adjust(c[k], 1)
                   ELSE IF k = seen THEN Adjust(c[k], -1) ELSE c[k]]

\* Update or insert, counts, version, event, mapping, outbox; the commit.
CommitImport(w) ==
  LET m   == importer[w]
      old == res[m.rid]
      new == [tenant |-> m.tenant, kind |-> m.kind, body |-> m.body, version |-> old.version + 1,
              born |-> IF m.seen = NoKind THEN m.ident ELSE old.born]
  IN  /\ m.at = "read" /\ old.version < MaxRevision
      /\ m.seen = NoKind => ~Exists(m.rid)
      /\ res' = [res EXCEPT ![m.rid] = new]
      /\ counts' = [counts EXCEPT ![m.tenant] = Recount(@, m.seen, m.kind)]
      /\ queued' = queued \cup {<<m.rid, new.version>>}
      /\ MapTo(m) /\ Leave(w)
\* The statement fails: a duplicate key, a timeout, a lost connection.
AbortImport(w) ==
  /\ importer[w].at # "idle"
  /\ Leave(w) /\ Uncommitted

\* schema.sql at a start counts afresh; its indexes keep writers of resources out.
Migrate ==
  /\ counts' = [t \in Tenants |-> [k \in Kinds |->
                  Cardinality({r \in Rids : res[r].tenant = t /\ res[r].kind = k})]]
  /\ UNCHANGED <<res, mapping, queued, importer>>

ResourcesNext ==
  \/ Migrate
  \/ \E w \in Importers : ResolveIdentity(w) \/ ReadExisting(w) \/ CommitImport(w) \/ AbortImport(w)
  \/ \E w \in Importers, t \in Tenants, i \in Idents \cup {NoIdent}, r \in Rids \cup {NoRid},
        k \in Kinds, b \in Bodies : BeginImport(w, t, i, r, k, b)

ResourcesSpec == ResourcesInit /\ [][ResourcesNext]_resourceVars

-----------------------------------------------------------------------------
(* However imports and edits of a resource interleave, the counts the status   *)
(* page shows are the numbers of resources, for each tenant and type.          *)
CountsExact ==
  \A t \in Tenants, k \in Kinds :
    counts[t][k] = Cardinality({r \in Rids : res[r].tenant = t /\ res[r].kind = k})

(* Racing imports of one external identity make one resource, and the mapping  *)
(* leads to it: no import is left behind as a twin nobody updates again.       *)
OneResourcePerIdentity ==
  \A r \in Rids : res[r].born # NoIdent => mapping[res[r].tenant][res[r].born] = r
=============================================================================
