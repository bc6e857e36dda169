---------------------------- MODULE ResourceProofs ----------------------------
(* What is imported and what becomes knowledge: Resources and                *)
(* KnowledgeFamilies, for any tenants, resources, versions, identities,      *)
(* importers and workers.                                                    *)
EXTENDS Resources, KnowledgeFamilies, FiniteSetTheorems, TLAPS

(* Resources: however imports and edits interleave, the counts are the       *)
(* numbers of rows and one external identity makes one resource.             *)

Live(w) == importer[w].at # "idle"
RowsOf(t, k) == {r \in Rids : res[r].tenant = t /\ res[r].kind = k}

\* What a call brings; the resource it works on once it is known.
CallShape ==
  \A w \in Importers :
    /\ Live(w) => importer[w].tenant \in Tenants /\ importer[w].kind \in Kinds
                   /\ importer[w].body \in Bodies
    /\ importer[w].at \in {"resolved", "read"} => importer[w].rid \in Rids
RowShape ==
  \A r \in Rids : IF Exists(r) THEN res[r].tenant \in Tenants /\ res[r].kind \in Kinds
                  ELSE res[r] = NoRow

\* The two locks are exclusive.
OneImportPerIdentity ==
  \A v, w \in Importers :
    /\ Live(v) /\ Live(w) /\ importer[v].ident # NoIdent
    /\ importer[v].ident = importer[w].ident /\ importer[v].tenant = importer[w].tenant
    => v = w
OneWriterPerResource ==
  \A v, w \in Importers :
    /\ importer[v].at = "read" /\ importer[w].at = "read"
    /\ importer[v].rid = importer[w].rid /\ importer[v].tenant = importer[w].tenant
    => v = w

\* What was read under the locks is still so at the commit.
SeenIsCurrent ==
  \A w \in Importers : importer[w].at = "read" /\ importer[w].seen # NoKind =>
    /\ Exists(importer[w].rid)
    /\ res[importer[w].rid].tenant = importer[w].tenant
    /\ res[importer[w].rid].kind = importer[w].seen
    /\ ~Unchanged(res[importer[w].rid], importer[w])
MappedToIt ==
  \A w \in Importers : importer[w].at \in {"resolved", "read"} /\ importer[w].ident # NoIdent =>
    mapping[importer[w].tenant][importer[w].ident] \in {NoRid, importer[w].rid}

ResourcesInv ==
  /\ ResourcesTypeOK /\ CallShape /\ RowShape /\ OneImportPerIdentity /\ OneWriterPerResource
  /\ SeenIsCurrent /\ MappedToIt /\ CountsExact /\ OneResourcePerIdentity

-----------------------------------------------------------------------------
ImportRecord ==
  [at : {"idle", "asked", "resolved", "read"},
   tenant : Tenants \cup {NoRid}, ident : Idents \cup {NoIdent}, rid : Rids \cup {NoRid},
   kind : Kinds \cup {NoKind}, body : Bodies \cup {NoRid}, seen : Kinds \cup {NoKind}]
\* A step of one transaction: its record becomes c, the others' stay.
Turns(w, c) ==
  /\ importer' \in [Importers -> ImportRecord]
  /\ importer'[w] = c
  /\ \A v \in Importers \ {w} : importer'[v] = importer[v]

LEMMA ImporterTyped ==
  ASSUME ResourcesTypeOK, NEW w \in Importers
  PROVE  /\ importer[w] \in ImportRecord
         /\ importer \in [Importers -> ImportRecord]
         /\ importer[w].ident \in Idents \cup {NoIdent}
         /\ importer[w].rid \in Rids \cup {NoRid}
         /\ importer[w].seen \in Kinds \cup {NoKind}
         /\ importer[w].at \in {"idle", "asked", "resolved", "read"}
  BY DEF ResourcesTypeOK, ImportRecord

LEMMA RowTyped ==
  ASSUME ResourcesTypeOK, NEW r \in Rids
  PROVE  /\ res[r].tenant \in Tenants \cup {NoRid} /\ res[r].kind \in Kinds \cup {NoKind}
         /\ res[r].body \in Bodies \cup {NoRid} /\ res[r].version \in 0 .. MaxRevision
         /\ res[r].born \in Idents \cup {NoIdent}
  BY DEF ResourcesTypeOK

LEMMA TurnsTo ==
  ASSUME ResourcesTypeOK, NEW w \in Importers, NEW c \in ImportRecord,
         importer' = [importer EXCEPT ![w] = c]
  PROVE  Turns(w, c)
  BY ImporterTyped DEF Turns

LEMMA Leaving ==
  ASSUME ResourcesTypeOK, NEW w \in Importers, Leave(w)
  PROVE  /\ Turns(w, Resting) /\ importer'[w].at = "idle"
  <1>1. Resting \in ImportRecord /\ Resting.at = "idle"
    BY DEF Resting, ImportRecord
  <1>2. Turns(w, Resting)
    BY <1>1, TurnsTo DEF Leave
  <1> QED
    BY <1>1, <1>2 DEF Turns

\* A set of rows of a finite set of rows is counted.
LEMMA RowsCounted ==
  ASSUME ResourcesAssumption, NEW S \in SUBSET Rids
  PROVE  IsFiniteSet(S) /\ Cardinality(S) \in 0 .. Cardinality(Rids)
  <1>1. IsFiniteSet(Rids) /\ Cardinality(Rids) \in Nat
    BY FS_CardinalityType DEF ResourcesAssumption
  <1>2. IsFiniteSet(S) /\ Cardinality(S) <= Cardinality(Rids)
    BY <1>1, FS_Subset
  <1>3. Cardinality(S) \in Nat
    BY <1>2, FS_CardinalityType
  <1> QED
    BY <1>1, <1>2, <1>3

LEMMA InitResources ==
  ASSUME ResourcesAssumption
  PROVE  ResourcesInit => ResourcesInv
  <1> SUFFICES ASSUME ResourcesInit PROVE ResourcesInv
    OBVIOUS
  <1> USE DEF ResourcesInit
  <1>0. MaxRevision \in Nat /\ NoKind \notin Kinds /\ NoRid \notin Tenants
        /\ IsFiniteSet(Rids) /\ Cardinality(Rids) \in Nat
    BY FS_CardinalityType DEF ResourcesAssumption
  <1>1. ResourcesTypeOK
    <2>1. NoRow \in [tenant : Tenants \cup {NoRid}, kind : Kinds \cup {NoKind},
                     body : Bodies \cup {NoRid}, version : 0 .. MaxRevision,
                     born : Idents \cup {NoIdent}]
      BY <1>0 DEF NoRow
    <2>2. Resting \in ImportRecord
      BY DEF Resting, ImportRecord
    <2>3. 0 \in 0 .. Cardinality(Rids)
      BY <1>0
    <2> QED
      BY <2>1, <2>2, <2>3 DEF ResourcesTypeOK, ImportRecord
  <1>2. \A r \in Rids : res[r] = NoRow /\ res[r].version = 0 /\ res[r].tenant = NoRid
                        /\ res[r].born = NoIdent
    BY DEF NoRow
  <1>3. \A w \in Importers : importer[w].at = "idle"
    BY DEF Resting
  <1>4. CountsExact
    <2> SUFFICES ASSUME NEW t \in Tenants, NEW k \in Kinds
                 PROVE  counts[t][k] = Cardinality({r \in Rids : res[r].tenant = t /\ res[r].kind = k})
      BY DEF CountsExact
    <2>1. {r \in Rids : res[r].tenant = t /\ res[r].kind = k} = {}
      BY <1>0, <1>2
    <2> QED
      BY <2>1, FS_EmptySet
  <1>5. CallShape /\ RowShape /\ OneImportPerIdentity /\ OneWriterPerResource
        /\ SeenIsCurrent /\ MappedToIt
    BY <1>2, <1>3
    DEF CallShape, RowShape, OneImportPerIdentity, OneWriterPerResource, SeenIsCurrent,
        MappedToIt, Live, Exists
  <1>6. OneResourcePerIdentity
    BY <1>2 DEF OneResourcePerIdentity
  <1> QED
    BY <1>1, <1>4, <1>5, <1>6 DEF ResourcesInv

-----------------------------------------------------------------------------
\* A step that writes no table: what is said of the rows alone still holds.
LEMMA TablesKept ==
  ASSUME ResourcesInv, Uncommitted, NEW w \in Importers, NEW c \in ImportRecord, Turns(w, c)
  PROVE  ResourcesTypeOK' /\ RowShape' /\ CountsExact' /\ OneResourcePerIdentity'
  <1>1. ResourcesTypeOK'
    BY DEF ResourcesInv, ResourcesTypeOK, Uncommitted, Turns, ImportRecord
  <1> QED
    BY <1>1 DEF ResourcesInv, Uncommitted, RowShape, CountsExact, OneResourcePerIdentity, Exists

LEMMA BeginKeeps ==
  ASSUME ResourcesInv, NEW w \in Importers, NEW t \in Tenants, NEW i \in Idents \cup {NoIdent},
         NEW r \in Rids \cup {NoRid}, NEW k \in Kinds, NEW b \in Bodies, BeginImport(w, t, i, r, k, b)
  PROVE  ResourcesInv'
  <1> DEFINE c == [at |-> "asked", tenant |-> t, ident |-> i, rid |-> r,
                   kind |-> k, body |-> b, seen |-> NoKind]
  <1>1. c \in ImportRecord
    BY DEF ImportRecord
  <1>2. ResourcesTypeOK /\ Uncommitted /\ MappingFree(w, t, i) /\ importer' = [importer EXCEPT ![w] = c]
    BY DEF ResourcesInv, BeginImport
  <1>3. c.at = "asked" /\ c.tenant = t /\ c.ident = i /\ c.rid = r /\ c.kind = k /\ c.body = b
    OBVIOUS
  <1> HIDE DEF c
  <1>4. Turns(w, c)
    BY <1>1, <1>2, TurnsTo
  <1>5. \A v \in Importers \ {w} : importer'[v] = importer[v]
    BY <1>4 DEF Turns
  <1>6. importer'[w].at = "asked" /\ importer'[w].tenant = t /\ importer'[w].ident = i
        /\ importer'[w].kind = k /\ importer'[w].body = b
    BY <1>3, <1>4 DEF Turns
  <1>7. CallShape'
    BY <1>5, <1>6 DEF CallShape, Live, ResourcesInv
  <1>8. OneImportPerIdentity'
    <2>1. i = NoIdent \/ \A v \in Importers \ {w} :
            ~(Live(v) /\ importer[v].tenant = t /\ importer[v].ident = i)
      BY <1>2 DEF MappingFree, Live
    <2> QED
      BY <1>5, <1>6, <2>1 DEF OneImportPerIdentity, Live, ResourcesInv
  <1>9. OneWriterPerResource' /\ SeenIsCurrent' /\ MappedToIt'
    BY <1>2, <1>5, <1>6
    DEF OneWriterPerResource, SeenIsCurrent, MappedToIt, ResourcesInv, Uncommitted, Exists, Unchanged
  <1> QED
    BY <1>1, <1>2, <1>4, <1>7, <1>8, <1>9, TablesKept DEF ResourcesInv

LEMMA ResolveKeeps ==
  ASSUME ResourcesInv, NEW w \in Importers, ResolveIdentity(w)
  PROVE  ResourcesInv'
  <1> DEFINE m == importer[w]
             mapped == IF m.ident = NoIdent THEN NoRid ELSE mapping[m.tenant][m.ident]
  <1>1. ResourcesTypeOK /\ Uncommitted /\ m.at = "asked"
    BY DEF ResourcesInv, ResolveIdentity
  <1>2. PICK r \in Rids :
          /\ mapped \in {NoRid, r}
          /\ importer' = [importer EXCEPT ![w].at = "resolved", ![w].rid = r]
    BY DEF ResolveIdentity
  <1> DEFINE c == [m EXCEPT !.at = "resolved", !.rid = r]
  <1>3. c \in ImportRecord /\ importer' = [importer EXCEPT ![w] = c]
    BY <1>1, <1>2, ImporterTyped DEF ImportRecord
  <1>4. c.at = "resolved" /\ c.tenant = m.tenant /\ c.ident = m.ident /\ c.rid = r
        /\ c.kind = m.kind /\ c.body = m.body
    BY <1>1, ImporterTyped DEF ImportRecord
  <1> HIDE DEF c
  <1>5. Turns(w, c)
    BY <1>1, <1>3, TurnsTo
  <1>6. \A v \in Importers \ {w} : importer'[v] = importer[v]
    BY <1>5 DEF Turns
  <1>7. /\ importer'[w].at = "resolved" /\ importer'[w].tenant = importer[w].tenant
        /\ importer'[w].ident = importer[w].ident /\ importer'[w].rid = r
        /\ importer'[w].kind = importer[w].kind /\ importer'[w].body = importer[w].body
    BY <1>4, <1>5 DEF Turns
  <1>8. CallShape'
    BY <1>1, <1>6, <1>7 DEF CallShape, Live, ResourcesInv
  <1>9. OneImportPerIdentity' /\ OneWriterPerResource'
    BY <1>1, <1>6, <1>7 DEF OneImportPerIdentity, OneWriterPerResource, Live, ResourcesInv
  <1>10. SeenIsCurrent'
    BY <1>1, <1>6, <1>7 DEF SeenIsCurrent, ResourcesInv, Uncommitted, Exists, Unchanged
  <1>11. MappedToIt'
    <2>1. importer[w].ident # NoIdent => mapping[importer[w].tenant][importer[w].ident] \in {NoRid, r}
      BY <1>2
    <2> QED
      BY <1>1, <1>6, <1>7, <2>1 DEF MappedToIt, ResourcesInv, Uncommitted
  <1> QED
    BY <1>1, <1>3, <1>5, <1>8, <1>9, <1>10, <1>11, TablesKept DEF ResourcesInv

\* A transaction that ends gives its locks back; what the others know is unchanged.
LEMMA LocksKept ==
  ASSUME ResourcesInv, NEW w \in Importers, Leave(w)
  PROVE  CallShape' /\ OneImportPerIdentity' /\ OneWriterPerResource'
  <1>1. importer'[w].at = "idle" /\ \A v \in Importers \ {w} : importer'[v] = importer[v]
    BY Leaving DEF ResourcesInv, Turns
  <1>2. CallShape'
    BY <1>1 DEF CallShape, Live, ResourcesInv
  <1>3. OneImportPerIdentity' /\ OneWriterPerResource'
    BY <1>1 DEF OneImportPerIdentity, OneWriterPerResource, Live, ResourcesInv
  <1> QED
    BY <1>2, <1>3

LEMMA LeavingKeeps ==
  ASSUME ResourcesInv, NEW w \in Importers, Leave(w), Uncommitted
  PROVE  ResourcesInv'
  <1>1. Turns(w, Resting) /\ importer'[w].at = "idle"
    BY Leaving DEF ResourcesInv
  <1>2. \A v \in Importers \ {w} : importer'[v] = importer[v]
    BY <1>1 DEF Turns
  <1>3. Resting \in ImportRecord
    BY DEF Resting, ImportRecord
  <1>4. SeenIsCurrent' /\ MappedToIt'
    BY <1>1, <1>2 DEF SeenIsCurrent, MappedToIt, ResourcesInv, Uncommitted, Exists, Unchanged
  <1> QED
    BY <1>1, <1>3, <1>4, LocksKept, TablesKept DEF ResourcesInv

\* The holder of the identity lock points the identity at its own resource: an
\* identity that led somewhere leads there still.
LEMMA MappingWritten ==
  ASSUME ResourcesAssumption, ResourcesInv, NEW w \in Importers, importer[w].at \in {"resolved", "read"},
         MapTo(importer[w]), Leave(w)
  PROVE  /\ mapping' \in [Tenants -> [Idents -> Rids \cup {NoRid}]]
         /\ MappedToIt'
         /\ \A t \in Tenants, i \in Idents, r \in Rids : mapping[t][i] = r => mapping'[t][i] = r
         /\ importer[w].ident # NoIdent =>
              mapping'[importer[w].tenant][importer[w].ident] = importer[w].rid
  <1> DEFINE t0 == importer[w].tenant
             i0 == importer[w].ident
             r0 == importer[w].rid
  <1>1. /\ ResourcesTypeOK /\ t0 \in Tenants /\ i0 \in Idents \cup {NoIdent} /\ r0 \in Rids
        /\ mapping \in [Tenants -> [Idents -> Rids \cup {NoRid}]] /\ Live(w)
    BY ImporterTyped DEF ResourcesInv, CallShape, Live, ResourcesTypeOK
  <1>2. NoRid \notin Rids
    BY DEF ResourcesAssumption
  <1>3. i0 # NoIdent => mapping[t0][i0] \in {NoRid, r0}
    BY DEF ResourcesInv, MappedToIt
  <1>4. importer'[w].at = "idle" /\ \A v \in Importers \ {w} : importer'[v] = importer[v]
    BY <1>1, Leaving DEF Turns
  <1>5. \A v \in Importers \ {w} : Live(v) /\ importer[v].tenant = t0 => importer[v].ident # i0 \/ i0 = NoIdent
    BY <1>1 DEF ResourcesInv, OneImportPerIdentity
  <1>6. CASE i0 = NoIdent
    <2>1. mapping' = mapping
      BY <1>6 DEF MapTo
    <2>2. MappedToIt'
      BY <1>4, <2>1 DEF MappedToIt, ResourcesInv
    <2> QED
      BY <1>1, <1>6, <2>1, <2>2
  <1>7. CASE i0 # NoIdent
    <2>1. mapping' = [mapping EXCEPT ![t0][i0] = r0] /\ i0 \in Idents
      BY <1>1, <1>7 DEF MapTo
    <2>2. /\ mapping' \in [Tenants -> [Idents -> Rids \cup {NoRid}]]
          /\ mapping'[t0][i0] = r0
          /\ \A t \in Tenants, i \in Idents : t # t0 \/ i # i0 => mapping'[t][i] = mapping[t][i]
      BY <1>1, <2>1
    <2>3. MappedToIt'
      <3> SUFFICES ASSUME NEW v \in Importers, importer'[v].at \in {"resolved", "read"},
                          importer'[v].ident # NoIdent
                   PROVE  mapping'[importer'[v].tenant][importer'[v].ident] \in {NoRid, importer'[v].rid}
        BY DEF MappedToIt
      <3>1. v # w /\ importer'[v] = importer[v] /\ Live(v) /\ importer[v].ident # NoIdent
        BY <1>4 DEF Live
      <3>2. importer[v].tenant \in Tenants /\ importer[v].ident \in Idents
        BY <1>1, <3>1, ImporterTyped DEF ResourcesInv, CallShape
      <3>3. importer[v].tenant # t0 \/ importer[v].ident # i0
        BY <1>5, <1>7, <3>1
      <3>4. mapping[importer[v].tenant][importer[v].ident] \in {NoRid, importer[v].rid}
        BY <3>1 DEF ResourcesInv, MappedToIt
      <3> QED
        BY <2>2, <3>1, <3>2, <3>3, <3>4
    <2>4. \A t \in Tenants, i \in Idents, r \in Rids : mapping[t][i] = r => mapping'[t][i] = r
      BY <1>2, <1>3, <1>7, <2>2
    <2> QED
      BY <2>2, <2>3, <2>4
  <1> QED
    BY <1>6, <1>7

LEMMA ReadKeeps ==
  ASSUME ResourcesAssumption, ResourcesInv, NEW w \in Importers, ReadExisting(w)
  PROVE  ResourcesInv'
  <1> DEFINE m == importer[w]
             row == res[m.rid]
  <1>1. /\ ResourcesTypeOK /\ m.at = "resolved" /\ ResourceFree(w) /\ m.rid \in Rids
        /\ m.tenant \in Tenants
    BY DEF ResourcesInv, ReadExisting, CallShape, Live
  <1>2. CASE Leave(w) /\ Uncommitted
    BY <1>2, LeavingKeeps
  <1>3. CASE MapTo(m) /\ Leave(w) /\ UNCHANGED <<res, counts, queued>>
    <2>1. /\ mapping' \in [Tenants -> [Idents -> Rids \cup {NoRid}]] /\ MappedToIt'
          /\ \A t \in Tenants, i \in Idents, r \in Rids : mapping[t][i] = r => mapping'[t][i] = r
      BY <1>1, <1>3, MappingWritten
    <2>2. /\ importer'[w].at = "idle" /\ \A v \in Importers \ {w} : importer'[v] = importer[v]
          /\ importer' \in [Importers -> ImportRecord]
      BY <1>1, <1>3, Leaving DEF Turns
    <2>3. ResourcesTypeOK'
      BY <1>1, <1>3, <2>1, <2>2 DEF ResourcesTypeOK, ImportRecord
    <2>4. SeenIsCurrent' /\ RowShape' /\ CountsExact'
      BY <1>3, <2>2 DEF SeenIsCurrent, RowShape, CountsExact, ResourcesInv, Exists, Unchanged
    <2>5. OneResourcePerIdentity'
      <3> SUFFICES ASSUME NEW r \in Rids, res[r].born # NoIdent
                   PROVE  mapping'[res[r].tenant][res[r].born] = r
        BY <1>3 DEF OneResourcePerIdentity
      <3>1. res[r].tenant \in Tenants /\ res[r].born \in Idents
        BY <1>1, RowTyped DEF ResourcesInv, RowShape, NoRow
      <3>2. mapping[res[r].tenant][res[r].born] = r
        BY DEF ResourcesInv, OneResourcePerIdentity
      <3> QED
        BY <2>1, <3>1, <3>2
    <2> QED
      BY <1>3, <2>1, <2>3, <2>4, <2>5, LocksKept DEF ResourcesInv
  <1>4. CASE /\ Exists(m.rid) => row.tenant = m.tenant /\ ~Unchanged(row, m)
             /\ importer' = [importer EXCEPT ![w].at = "read", ![w].seen = row.kind]
             /\ Uncommitted
    <2> DEFINE c == [m EXCEPT !.at = "read", !.seen = row.kind]
    <2>1. row.kind \in Kinds \cup {NoKind}
      BY <1>1, RowTyped
    <2>2. c \in ImportRecord /\ importer' = [importer EXCEPT ![w] = c]
      BY <1>1, <1>4, <2>1, ImporterTyped DEF ImportRecord
    <2>3. c.at = "read" /\ c.tenant = m.tenant /\ c.ident = m.ident /\ c.rid = m.rid
          /\ c.kind = m.kind /\ c.body = m.body /\ c.seen = row.kind
      BY <1>1, ImporterTyped DEF ImportRecord
    <2> HIDE DEF c
    <2>4. Turns(w, c)
      BY <1>1, <2>2, TurnsTo
    <2>5. /\ \A v \in Importers \ {w} : importer'[v] = importer[v]
          /\ res' = res /\ mapping' = mapping
      BY <1>4, <2>4 DEF Turns, Uncommitted
    <2>6. /\ importer'[w].at = "read" /\ importer'[w].tenant = importer[w].tenant
          /\ importer'[w].ident = importer[w].ident /\ importer'[w].rid = importer[w].rid
          /\ importer'[w].kind = importer[w].kind /\ importer'[w].body = importer[w].body
          /\ importer'[w].seen = row.kind
      BY <2>3, <2>4 DEF Turns
    <2>7. CallShape' /\ OneImportPerIdentity' /\ MappedToIt'
      <3>1. CallShape'
        BY <1>1, <2>5, <2>6 DEF CallShape, Live, ResourcesInv
      <3>2. OneImportPerIdentity'
        BY <1>1, <2>5, <2>6 DEF OneImportPerIdentity, Live, ResourcesInv
      <3>3. MappedToIt'
        BY <1>1, <2>5, <2>6 DEF MappedToIt, ResourcesInv
      <3> QED
        BY <3>1, <3>2, <3>3
    <2>8. OneWriterPerResource'
      <3>1. \A v \in Importers \ {w} : ~(importer[v].at = "read" /\ importer[v].rid = importer[w].rid
                                         /\ importer[v].tenant = importer[w].tenant)
        BY <1>1 DEF ResourceFree
      <3> QED
        BY <2>5, <2>6, <3>1 DEF OneWriterPerResource, ResourcesInv
    <2>9. SeenIsCurrent'
      <3>1. row.kind # NoKind => Exists(m.rid) /\ row.tenant = m.tenant /\ ~Unchanged(row, m)
        BY <1>1, <1>4 DEF ResourcesInv, RowShape, NoRow
      <3> QED
        BY <2>5, <2>6, <3>1 DEF SeenIsCurrent, ResourcesInv, Exists, Unchanged
    <2> QED
      BY <1>4, <2>2, <2>4, <2>7, <2>8, <2>9, TablesKept DEF ResourcesInv
  <1> QED
    BY <1>2, <1>3, <1>4 DEF ReadExisting

\* A commit moves the resource into the rows of its new type and out of those of
\* its old one; the counts follow.
LEMMA Recounted ==
  ASSUME ResourcesAssumption, ResourcesInv, NEW w \in Importers, CommitImport(w)
  PROVE  CountsExact' /\ counts' \in [Tenants -> [Kinds -> 0 .. Cardinality(Rids)]]
  <1> DEFINE m == importer[w]
             t0 == importer[w].tenant
             r0 == importer[w].rid
             k0 == importer[w].kind
             s0 == importer[w].seen
  <1>1. /\ ResourcesTypeOK /\ m.at = "read" /\ r0 \in Rids /\ t0 \in Tenants /\ k0 \in Kinds
        /\ s0 \in Kinds \cup {NoKind} /\ NoKind \notin Kinds /\ NoRid \notin Tenants
    BY ImporterTyped DEF ResourcesInv, CommitImport, CallShape, Live, ResourcesAssumption
  <1>2. /\ s0 = NoKind => res[r0].tenant = NoRid /\ res[r0].kind = NoKind
        /\ s0 # NoKind => res[r0].tenant = t0 /\ res[r0].kind = s0
    BY <1>1 DEF ResourcesInv, CommitImport, SeenIsCurrent, RowShape, NoRow
  <1>3. /\ res'[r0].tenant = t0 /\ res'[r0].kind = k0
        /\ \A r \in Rids \ {r0} : res'[r] = res[r]
    BY <1>1 DEF CommitImport, ResourcesTypeOK
  <1>4. \A t \in Tenants, k \in Kinds :
          /\ counts[t][k] = Cardinality(RowsOf(t, k)) /\ counts[t][k] \in Nat
          /\ IsFiniteSet(RowsOf(t, k))
    <2> SUFFICES ASSUME NEW t \in Tenants, NEW k \in Kinds
                 PROVE  /\ counts[t][k] = Cardinality(RowsOf(t, k)) /\ counts[t][k] \in Nat
                        /\ IsFiniteSet(RowsOf(t, k))
      OBVIOUS
    <2>1. RowsOf(t, k) \in SUBSET Rids
      BY DEF RowsOf
    <2>2. IsFiniteSet(RowsOf(t, k)) /\ Cardinality(RowsOf(t, k)) \in Nat
      BY <2>1, RowsCounted
    <2> QED
      BY <2>2 DEF ResourcesInv, CountsExact, RowsOf
  <1>5. counts' = [counts EXCEPT ![t0] = Recount(counts[t0], s0, k0)]
    BY DEF CommitImport
  <1>6. \A t \in Tenants, k \in Kinds : counts'[t][k] = Cardinality(RowsOf(t, k)')
    <2> SUFFICES ASSUME NEW t \in Tenants, NEW k \in Kinds
                 PROVE  counts'[t][k] = Cardinality(RowsOf(t, k)')
      OBVIOUS
    <2>1. /\ counts[t][k] = Cardinality(RowsOf(t, k)) /\ counts[t][k] \in Nat
          /\ IsFiniteSet(RowsOf(t, k))
      BY <1>4
    <2>2. counts \in [Tenants -> [Kinds -> 0 .. Cardinality(Rids)]]
      BY <1>1 DEF ResourcesTypeOK
    <2>3. CASE t # t0
      <3>1. RowsOf(t, k)' = RowsOf(t, k)
        BY <1>1, <1>2, <1>3, <2>3 DEF RowsOf
      <3>2. counts'[t] = counts[t]
        BY <1>5, <2>2, <2>3
      <3> QED
        BY <2>1, <3>1, <3>2
    <2>4. CASE t = t0
      <3>1. counts'[t] = Recount(counts[t], s0, k0)
        BY <1>5, <2>2, <2>4
      <3>2. CASE s0 = k0 \/ (k # k0 /\ k # s0)
        <4>1. counts'[t][k] = counts[t][k]
          BY <3>1, <3>2 DEF Recount
        <4>2. RowsOf(t, k)' = RowsOf(t, k)
          BY <1>1, <1>2, <1>3, <2>4, <3>2 DEF RowsOf
        <4> QED
          BY <2>1, <4>1, <4>2
      <3>3. CASE s0 # k0 /\ k = k0
        <4>1. counts'[t][k] = Adjust(counts[t][k], 1)
          BY <3>1, <3>3 DEF Recount
        <4>2. counts'[t][k] = counts[t][k] + 1
          BY <2>1, <4>1 DEF Adjust
        <4>3. RowsOf(t, k)' = RowsOf(t, k) \cup {r0} /\ r0 \notin RowsOf(t, k)
          BY <1>1, <1>2, <1>3, <2>4, <3>3 DEF RowsOf
        <4>4. Cardinality(RowsOf(t, k) \cup {r0}) = Cardinality(RowsOf(t, k)) + 1
          BY <2>1, <4>3, FS_AddElement
        <4> QED
          BY <2>1, <4>2, <4>3, <4>4
      <3>4. CASE s0 # k0 /\ k = s0
        <4>1. RowsOf(t, k)' = RowsOf(t, k) \ {r0} /\ r0 \in RowsOf(t, k)
          BY <1>1, <1>2, <1>3, <2>4, <3>4 DEF RowsOf
        <4>2. Cardinality(RowsOf(t, k) \ {r0}) = Cardinality(RowsOf(t, k)) - 1
          BY <2>1, <4>1, FS_RemoveElement
        <4>3. Cardinality(RowsOf(t, k)) # 0
          BY <2>1, <4>1, FS_EmptySet
        <4>4. counts'[t][k] = Adjust(counts[t][k], -1)
          BY <3>1, <3>4 DEF Recount
        <4>5. counts'[t][k] = counts[t][k] - 1
          BY <2>1, <4>3, <4>4 DEF Adjust
        <4> QED
          BY <2>1, <4>1, <4>2, <4>5
      <3> QED
        BY <3>2, <3>3, <3>4
    <2> QED
      BY <2>3, <2>4
  <1>7. CountsExact'
    BY <1>6 DEF CountsExact, RowsOf
  <1>8. \A t \in Tenants, k \in Kinds : counts'[t][k] \in 0 .. Cardinality(Rids)
    <2> SUFFICES ASSUME NEW t \in Tenants, NEW k \in Kinds
                 PROVE  counts'[t][k] \in 0 .. Cardinality(Rids)
      OBVIOUS
    <2>1. RowsOf(t, k)' \in SUBSET Rids
      BY DEF RowsOf
    <2> QED
      BY <1>6, <2>1, RowsCounted
  <1>9. \A t \in Tenants : /\ DOMAIN counts'[t] = Kinds
                           /\ counts'[t] = [k \in Kinds |-> counts'[t][k]]
    <2>1. counts \in [Tenants -> [Kinds -> 0 .. Cardinality(Rids)]]
      BY <1>1 DEF ResourcesTypeOK
    <2>2. \A t \in Tenants : counts'[t] = IF t = t0 THEN Recount(counts[t], s0, k0) ELSE counts[t]
      BY <1>5, <2>1
    <2> QED
      BY <2>1, <2>2 DEF Recount
  <1>10. counts' = [t \in Tenants |-> counts'[t]]
    <2>1. counts \in [Tenants -> [Kinds -> 0 .. Cardinality(Rids)]]
      BY <1>1 DEF ResourcesTypeOK
    <2> QED
      BY <1>5, <2>1
  <1>11. \A t \in Tenants : counts'[t] \in [Kinds -> 0 .. Cardinality(Rids)]
    BY <1>8, <1>9
  <1>12. counts' \in [Tenants -> [Kinds -> 0 .. Cardinality(Rids)]]
    BY <1>10, <1>11
  <1> QED
    BY <1>7, <1>12

LEMMA CommitKeeps ==
  ASSUME ResourcesAssumption, ResourcesInv, NEW w \in Importers, CommitImport(w)
  PROVE  ResourcesInv'
  <1> DEFINE m == importer[w]
             t0 == importer[w].tenant
             i0 == importer[w].ident
             r0 == importer[w].rid
             k0 == importer[w].kind
             s0 == importer[w].seen
             new == [tenant |-> t0, kind |-> k0, body |-> m.body, version |-> res[r0].version + 1,
                     born |-> IF s0 = NoKind THEN i0 ELSE res[r0].born]
  <1>1. /\ ResourcesTypeOK /\ m.at = "read" /\ r0 \in Rids /\ t0 \in Tenants /\ k0 \in Kinds
        /\ m.body \in Bodies /\ i0 \in Idents \cup {NoIdent} /\ MapTo(m) /\ Leave(w)
        /\ res[r0].version < MaxRevision /\ MaxRevision \in Nat
    BY ImporterTyped DEF ResourcesInv, CommitImport, CallShape, Live, ResourcesAssumption
  <1>2. NoRid \notin Tenants /\ NoRid \notin Rids /\ NoIdent \notin Idents /\ NoKind \notin Kinds
    BY DEF ResourcesAssumption
  <1>3. /\ mapping' \in [Tenants -> [Idents -> Rids \cup {NoRid}]] /\ MappedToIt'
        /\ \A t \in Tenants, i \in Idents, r \in Rids : mapping[t][i] = r => mapping'[t][i] = r
        /\ i0 # NoIdent => mapping'[t0][i0] = r0
    BY <1>1, MappingWritten
  <1>4. /\ importer'[w].at = "idle" /\ \A v \in Importers \ {w} : importer'[v] = importer[v]
        /\ importer' \in [Importers -> ImportRecord]
    BY <1>1, Leaving DEF Turns
  <1>5. res[r0].version \in 0 .. MaxRevision /\ res[r0].born \in Idents \cup {NoIdent}
    BY <1>1, RowTyped
  <1>6. /\ new \in [tenant : Tenants \cup {NoRid}, kind : Kinds \cup {NoKind},
                    body : Bodies \cup {NoRid}, version : 0 .. MaxRevision,
                    born : Idents \cup {NoIdent}]
        /\ new.version # 0
    BY <1>1, <1>5
  <1>7. new.tenant = t0 /\ new.kind = k0 /\ new.born = IF s0 = NoKind THEN i0 ELSE res[r0].born
    OBVIOUS
  <1>8. res' = [res EXCEPT ![r0] = new] /\ queued' = queued \cup {<<r0, new.version>>}
    BY DEF CommitImport
  <1> HIDE DEF new
  <1>9. res'[r0] = new /\ \A r \in Rids \ {r0} : res'[r] = res[r]
    BY <1>1, <1>8 DEF ResourcesTypeOK
  <1>10. counts' \in [Tenants -> [Kinds -> 0 .. Cardinality(Rids)]] /\ CountsExact'
    BY Recounted
  <1>11. ResourcesTypeOK'
    <2>1. queued' \subseteq Rids \X (1 .. MaxRevision)
      <3>1. new.version \in 1 .. MaxRevision
        BY <1>1, <1>6
      <3> QED
        BY <1>1, <1>8, <3>1 DEF ResourcesTypeOK
    <2> QED
      BY <1>1, <1>3, <1>4, <1>6, <1>8, <1>10, <2>1 DEF ResourcesTypeOK, ImportRecord
  <1>12. RowShape'
    BY <1>1, <1>6, <1>7, <1>9 DEF RowShape, Exists, ResourcesInv
  <1>13. SeenIsCurrent'
    <2> SUFFICES ASSUME NEW v \in Importers, importer'[v].at = "read", importer'[v].seen # NoKind
                 PROVE  /\ res'[importer'[v].rid].version # 0
                        /\ res'[importer'[v].rid].tenant = importer'[v].tenant
                        /\ res'[importer'[v].rid].kind = importer'[v].seen
                        /\ ~Unchanged(res'[importer'[v].rid], importer'[v])
      BY DEF SeenIsCurrent, Exists
    <2>1. v # w /\ importer'[v] = importer[v]
      BY <1>4
    <2>2. /\ importer[v].rid \in Rids /\ Exists(importer[v].rid)
          /\ res[importer[v].rid].tenant = importer[v].tenant
          /\ res[importer[v].rid].kind = importer[v].seen
          /\ ~Unchanged(res[importer[v].rid], importer[v])
      BY <2>1 DEF ResourcesInv, SeenIsCurrent, CallShape
    <2>3. importer[v].rid # r0
      <3> SUFFICES ASSUME importer[v].rid = r0 PROVE FALSE
        OBVIOUS
      <3>1. s0 = NoKind => ~Exists(r0)
        BY DEF CommitImport
      <3>2. s0 # NoKind => res[r0].tenant = t0
        BY <1>1 DEF ResourcesInv, SeenIsCurrent
      <3>3. importer[v].tenant # t0
        BY <1>1, <2>1 DEF ResourcesInv, OneWriterPerResource
      <3> QED
        BY <2>2, <3>1, <3>2, <3>3
    <2> QED
      BY <1>9, <2>1, <2>2, <2>3 DEF Exists
  <1>14. OneResourcePerIdentity'
    <2> SUFFICES ASSUME NEW r \in Rids, res'[r].born # NoIdent
                 PROVE  mapping'[res'[r].tenant][res'[r].born] = r
      BY DEF OneResourcePerIdentity
    <2>1. CASE r = r0 /\ s0 = NoKind
      BY <1>3, <1>7, <1>9, <2>1
    <2>2. CASE r # r0 \/ s0 # NoKind
      <3>1. r = r0 => res[r0].tenant = t0
        BY <1>1, <2>2 DEF ResourcesInv, SeenIsCurrent
      <3>2. res'[r].born = res[r].born /\ res'[r].tenant = res[r].tenant
        BY <1>7, <1>9, <2>2, <3>1
      <3>3. res[r].tenant \in Tenants /\ res[r].born \in Idents
        BY <1>1, <3>2, RowTyped DEF ResourcesInv, RowShape, NoRow
      <3>4. mapping[res[r].tenant][res[r].born] = r
        BY <3>2 DEF ResourcesInv, OneResourcePerIdentity
      <3> QED
        BY <1>3, <3>2, <3>3, <3>4
    <2> QED
      BY <2>1, <2>2
  <1> QED
    BY <1>1, <1>3, <1>10, <1>11, <1>12, <1>13, <1>14, LocksKept DEF ResourcesInv

LEMMA MigrateKeeps ==
  ASSUME ResourcesAssumption, ResourcesInv, Migrate
  PROVE  ResourcesInv'
  <1>1. /\ counts' = [t \in Tenants |-> [k \in Kinds |->
                        Cardinality({r \in Rids : res[r].tenant = t /\ res[r].kind = k})]]
        /\ UNCHANGED <<res, mapping, queued, importer>>
    BY DEF Migrate
  <1>2. \A t \in Tenants, k \in Kinds :
          Cardinality({r \in Rids : res[r].tenant = t /\ res[r].kind = k}) \in 0 .. Cardinality(Rids)
    BY RowsCounted
  <1>3. counts' \in [Tenants -> [Kinds -> 0 .. Cardinality(Rids)]]
    BY <1>1, <1>2
  <1>4. ResourcesTypeOK'
    BY <1>1, <1>3 DEF ResourcesInv, ResourcesTypeOK
  <1>5. CountsExact'
    BY <1>1 DEF CountsExact
  <1>6. CallShape' /\ RowShape' /\ OneImportPerIdentity' /\ OneWriterPerResource'
    BY <1>1 DEF ResourcesInv, CallShape, RowShape, OneImportPerIdentity, OneWriterPerResource,
                Live, Exists
  <1>7. SeenIsCurrent' /\ MappedToIt' /\ OneResourcePerIdentity'
    BY <1>1 DEF ResourcesInv, SeenIsCurrent, MappedToIt, OneResourcePerIdentity, Exists, Unchanged
  <1> QED
    BY <1>4, <1>5, <1>6, <1>7 DEF ResourcesInv

LEMMA ResourcesStepKeeps ==
  ASSUME ResourcesAssumption, ResourcesInv, [ResourcesNext]_resourceVars
  PROVE  ResourcesInv'
  <1>1. CASE UNCHANGED resourceVars
    <2>1. res' = res /\ counts' = counts /\ mapping' = mapping /\ queued' = queued
          /\ importer' = importer
      BY <1>1 DEF resourceVars
    <2>2. ResourcesTypeOK' /\ CallShape' /\ RowShape' /\ OneImportPerIdentity' /\ OneWriterPerResource'
      BY <2>1 DEF ResourcesInv, ResourcesTypeOK, CallShape, RowShape, OneImportPerIdentity,
                  OneWriterPerResource, Live, Exists
    <2>3. SeenIsCurrent' /\ MappedToIt' /\ CountsExact' /\ OneResourcePerIdentity'
      BY <2>1 DEF ResourcesInv, SeenIsCurrent, MappedToIt, CountsExact, OneResourcePerIdentity, Exists,
                  Unchanged
    <2> QED
      BY <2>2, <2>3 DEF ResourcesInv
  <1>2. CASE Migrate
    BY <1>2, MigrateKeeps
  <1>3. ASSUME NEW w \in Importers, AbortImport(w) PROVE ResourcesInv'
    BY <1>3, LeavingKeeps DEF AbortImport
  <1>4. ASSUME NEW w \in Importers, ResolveIdentity(w) \/ ReadExisting(w) \/ CommitImport(w)
        PROVE  ResourcesInv'
    BY <1>4, ResolveKeeps, ReadKeeps, CommitKeeps
  <1>5. ASSUME NEW w \in Importers, NEW t \in Tenants, NEW i \in Idents \cup {NoIdent},
               NEW r \in Rids \cup {NoRid}, NEW k \in Kinds, NEW b \in Bodies,
               BeginImport(w, t, i, r, k, b)
        PROVE  ResourcesInv'
    BY <1>5, BeginKeeps
  <1> QED
    BY <1>1, <1>2, <1>3, <1>4, <1>5 DEF ResourcesNext

LEMMA ResourcesInvariant ==
  ASSUME ResourcesAssumption
  PROVE  ResourcesSpec => []ResourcesInv
  BY InitResources, ResourcesStepKeeps, PTL DEF ResourcesSpec

-----------------------------------------------------------------------------
(* The tables and the transactions keep their types: a count stays between    *)
(* none and all of the resources, and no identity leads out of them.          *)
THEOREM ResourcesTyped == ResourcesSpec => []ResourcesTypeOK
  <1>1. ResourcesSpec => []ResourcesInv
    BY ResourcesAssumption, ResourcesInvariant
  <1>2. ResourcesInv => ResourcesTypeOK
    BY DEF ResourcesInv
  <1> QED
    BY <1>1, <1>2, PTL

(* However imports, edits, failed transactions and migrations interleave, the *)
(* counts resource_type_counts shows are the numbers of rows of each tenant   *)
(* and type.                                                                  *)
THEOREM CountsAreExact == ResourcesSpec => []CountsExact
  <1>1. ResourcesSpec => []ResourcesInv
    BY ResourcesAssumption, ResourcesInvariant
  <1>2. ResourcesInv => CountsExact
    BY DEF ResourcesInv
  <1> QED
    BY <1>1, <1>2, PTL

(* Racing imports of one external identity make one resource: a row born of   *)
(* an identity stays the one resource_mappings leads to.                      *)
THEOREM IdentityMakesOneResource == ResourcesSpec => []OneResourcePerIdentity
  <1>1. ResourcesSpec => []ResourcesInv
    BY ResourcesAssumption, ResourcesInvariant
  <1>2. ResourcesInv => OneResourcePerIdentity
    BY DEF ResourcesInv
  <1> QED
    BY <1>1, <1>2, PTL

-----------------------------------------------------------------------------
\* What the importers are promised, of the same tables.
Store == INSTANCE ResourceStore

LEMMA Tallied ==
  ASSUME NEW rows, NEW c \in [Tenants -> [Kinds -> 0 .. Cardinality(Rids)]],
         \A t \in Tenants, k \in Kinds :
           c[t][k] = Cardinality({r \in Rids : rows[r].tenant = t /\ rows[r].kind = k})
  PROVE  c = Store!Tally(rows)
  <1>1. \A S : Store!Cardinality(S) = Cardinality(S)
    BY DEF Store!Cardinality, Cardinality
  <1>2. \A t \in Tenants :
          c[t] = [k \in Kinds |-> Cardinality({r \in Rids : rows[r].tenant = t /\ rows[r].kind = k})]
    OBVIOUS
  <1>3. c = [t \in Tenants |-> [k \in Kinds |->
               Cardinality({r \in Rids : rows[r].tenant = t /\ rows[r].kind = k})]]
    BY <1>2
  <1> QED
    BY <1>1, <1>3 DEF Store!Tally

LEMMA StoreTallied ==
  /\ ResourcesInv => counts = Store!Tally(res)
  /\ ResourcesInv' => counts' = Store!Tally(res')
  <1>1. ASSUME ResourcesInv PROVE counts = Store!Tally(res)
    <2>1. counts \in [Tenants -> [Kinds -> 0 .. Cardinality(Rids)]]
      BY <1>1 DEF ResourcesInv, ResourcesTypeOK
    <2>2. \A t \in Tenants, k \in Kinds :
            counts[t][k] = Cardinality({r \in Rids : res[r].tenant = t /\ res[r].kind = k})
      BY <1>1 DEF ResourcesInv, CountsExact
    <2> QED
      BY <2>1, <2>2, Tallied
  <1>2. ASSUME ResourcesInv' PROVE counts' = Store!Tally(res')
    <2>1. counts' \in [Tenants -> [Kinds -> 0 .. Cardinality(Rids)]]
      BY <1>2 DEF ResourcesInv, ResourcesTypeOK
    <2>2. \A t \in Tenants, k \in Kinds :
            counts'[t][k] = Cardinality({r \in Rids : res'[r].tenant = t /\ res'[r].kind = k})
      BY <1>2 DEF ResourcesInv, CountsExact
    <2> QED
      BY <2>1, <2>2, Tallied
  <1> QED
    BY <1>1, <1>2

LEMMA StoreMapped ==
  ASSUME ResourcesInv, NEW w \in Importers, importer[w].at \in {"resolved", "read"}, MapTo(importer[w])
  PROVE  Store!Under(importer[w].tenant, importer[w].ident, importer[w].rid)
  BY DEF ResourcesInv, MappedToIt, MapTo, Store!Under

LEMMA StoreAbsent == ASSUME ResourcesInv, NEW r \in Rids PROVE Exists(r) <=> res[r] # Store!Absent
  BY DEF ResourcesInv, RowShape, Exists, NoRow, Store!Absent

LEMMA ImportWritten ==
  ASSUME ResourcesAssumption, ResourcesInv, ResourcesInv', NEW w \in Importers, CommitImport(w)
  PROVE  Store!Next
  <1> DEFINE m == importer[w]
  <1>1. /\ m.at = "read" /\ m.tenant \in Tenants /\ m.ident \in Idents \cup {NoIdent}
        /\ m.rid \in Rids /\ m.kind \in Kinds /\ m.body \in Bodies
    BY ImporterTyped DEF ResourcesInv, CommitImport, CallShape, Live
  <1>2. m.seen = NoKind <=> res[m.rid] = Store!Absent
    BY <1>1, StoreAbsent DEF ResourcesInv, SeenIsCurrent, CommitImport
  <1>3. res[m.rid] # Store!Absent =>
          res[m.rid].tenant = m.tenant /\ ~Store!Says(res[m.rid], m.kind, m.body)
    BY <1>1, <1>2 DEF ResourcesInv, SeenIsCurrent, Unchanged, Store!Says
  <1>4. counts' = Store!Tally(res')
    BY StoreTallied
  <1>5. Store!Under(m.tenant, m.ident, m.rid)
    BY <1>1, StoreMapped DEF CommitImport
  <1>6. Store!Write(m.tenant, m.ident, m.rid, m.kind, m.body)
    BY <1>2, <1>3, <1>4, <1>5 DEF CommitImport, Store!Write
  <1> QED
    BY <1>1, <1>6 DEF Store!Next

LEMMA ImportFound ==
  ASSUME ResourcesInv, NEW w \in Importers, ReadExisting(w)
  PROVE  [Store!Next]_Store!vars
  <1> DEFINE m == importer[w]
  <1>1. /\ m.at = "resolved" /\ m.tenant \in Tenants /\ m.ident \in Idents \cup {NoIdent}
        /\ m.rid \in Rids /\ m.kind \in Kinds /\ m.body \in Bodies
    BY ImporterTyped DEF ResourcesInv, ReadExisting, CallShape, Live
  <1>2. CASE Uncommitted
    BY <1>2 DEF Uncommitted, Store!vars
  <1>3. CASE /\ Exists(m.rid) /\ res[m.rid].tenant = m.tenant /\ Unchanged(res[m.rid], m)
             /\ MapTo(m) /\ UNCHANGED <<res, counts, queued>>
    <2>1. Store!Find(m.tenant, m.ident, m.rid, m.kind, m.body)
      BY <1>1, <1>3, StoreAbsent, StoreMapped DEF Unchanged, Store!Find, Store!Says
    <2> QED
      BY <1>1, <2>1 DEF Store!Next
  <1> QED
    BY <1>2, <1>3 DEF ReadExisting

\* Imports are atomic: whatever transactions do between the statements of an upsert, and
\* wherever it fails, the tables are those of upserts made one at a time, each at its commit.
THEOREM ImportsAreAtomic == ResourcesSpec => Store!Spec
  <1>1. ResourcesInit => Store!Init
    <2> SUFFICES ASSUME ResourcesInit PROVE Store!Init
      OBVIOUS
    <2>1. counts = Store!Tally(res)
      BY ResourcesAssumption, InitResources, StoreTallied
    <2> QED
      BY <2>1 DEF ResourcesInit, NoRow, Store!Init, Store!Absent
  <1>2. ResourcesInv /\ ResourcesInv' /\ [ResourcesNext]_resourceVars => [Store!Next]_Store!vars
    <2> SUFFICES ASSUME ResourcesInv, ResourcesInv', [ResourcesNext]_resourceVars
                 PROVE  [Store!Next]_Store!vars
      OBVIOUS
    <2>1. CASE Migrate
      <3>1. UNCHANGED <<res, mapping, queued>>
        BY <2>1 DEF Migrate
      <3>2. counts' = counts
        <4>1. counts = Store!Tally(res) /\ counts' = Store!Tally(res')
          BY StoreTallied
        <4> QED
          BY <3>1, <4>1
      <3> QED
        BY <3>1, <3>2 DEF Store!vars
    <2>2. ASSUME NEW w \in Importers, CommitImport(w) PROVE Store!Next
      BY <2>2, ResourcesAssumption, ImportWritten
    <2>3. ASSUME NEW w \in Importers, ReadExisting(w) PROVE [Store!Next]_Store!vars
      BY <2>3, ImportFound
    <2>4. \/ UNCHANGED <<res, counts, mapping, queued>> \/ Migrate
          \/ \E w \in Importers : CommitImport(w) \/ ReadExisting(w)
      BY DEF ResourcesNext, ResolveIdentity, AbortImport, BeginImport, Uncommitted, resourceVars
    <2> QED
      BY <2>1, <2>2, <2>3, <2>4 DEF Store!vars
  <1>3. ResourcesSpec => []ResourcesInv
    BY ResourcesAssumption, ResourcesInvariant
  <1> QED
    BY <1>1, <1>2, <1>3, PTL DEF ResourcesSpec, Store!Spec

-------------------------------------------------------------------------------
(* KnowledgeFamilies: whatever the order in which teardowns and their        *)
(* sources are saved, confirmed and classified, a teardown follows its       *)
(* source.                                                                   *)

Rows == owed \cup AtWork
Enriching(w, i) == enricher[w].at = "loaded" /\ enricher[w].row[1] = i
FamOpen(i) == \E row \in owed : row[1] = i
Outstanding(i) == FamOpen(i) \/ \E w \in Enrichers : Enriching(w, i)
Newest(m) == <<m, edition[m].newest>>

\* Rows, sources and verdicts are of versions there are; a worker knows whether the
\* resource is active.
Known(i) == i[2] <= edition[i[1]].newest
AllKnown ==
  /\ \A row \in Rows : Known(row[1]) /\ Known(row[2][1])
  /\ \A i \in Editions : basis[i] # NoAsset \/ asset[i].verdict = "qualified" => Known(i)
LiveAsLoaded ==
  \A w \in Enrichers : enricher[w].at = "loaded" =>
    enricher[w].live = edition[enricher[w].row[1][1]].active

\* What is no teardown is qualified for good while it is the newest version, and the rows it
\* wrote as qualified are younger than that.
SourceStands ==
  \A j \in Editions : /\ j[1] \notin Teardowns /\ j = Newest(j[1]) /\ asset[j].verdict = "qualified"
    => edition[j[1]].active /\ (j[1] \in Snapshots => j \in confirmed)
ToldByQualified ==
  \A row \in Rows : LET j == row[2][1] IN
    j[1] \notin Teardowns /\ j = Newest(j[1]) /\ row[2][2] = "qualified"
      => asset[j].verdict = "qualified"

\* The source has a newer version whose classification is outstanding and of which no
\* dependent was told.
Untold(j) ==
  Outstanding(j) /\ \A row \in Rows : row[2][1] = j => row[2][2] \notin {"qualified", "rejected"}
SourceOwes(i) ==
  /\ basis[i] \in Editions /\ basis[i][1] \notin Teardowns
  /\ Untold(Newest(basis[i][1]))

\* A teardown agrees with its source, or is about to be made to by a worker that knows it.
Agrees(i) ==
  asset[i].verdict = "qualified" <=> edition[i[1]].active /\ SourceCount(i) = 1
UpToDate(i) ==
  \A w \in Enrichers : Enriching(w, i) => enricher[w].sources = SourceCount(i)
Settling(i) == UpToDate(i) /\ (Agrees(i) \/ \E w \in Enrichers : Enriching(w, i))
Follows(i) == FamOpen(i) \/ SourceOwes(i) \/ Settling(i)
AllFollow == \A i \in Editions : i[1] \in Teardowns /\ i = Newest(i[1]) => Follows(i)

WorkerShape ==
  \A w \in Enrichers : IF enricher[w].at = "idle" THEN enricher[w].row = NoAsset
                       ELSE enricher[w].row \in Editions \X Causes
FamiliesInv ==
  /\ FamiliesTypeOK /\ WorkerShape /\ AllKnown /\ LiveAsLoaded
  /\ SourceStands /\ ToldByQualified /\ AllFollow
-----------------------------------------------------------------------------
\* Versions, rows and states of knowledge
LEMMA EditionPair ==
  ASSUME NEW i \in Editions
  PROVE  i[1] \in Materials /\ i[2] \in 1 .. MaxEdition[i[1]] /\ i = <<i[1], i[2]>>
  BY DEF Editions

LEMMA PairEdition ==
  ASSUME NEW m \in Materials, NEW n \in 1 .. MaxEdition[m]
  PROVE  <<m, n>> \in Editions
  BY DEF Editions

Asset == [verdict : Verdicts, family : Families,
          match : {"none", "singleton", "exact", "near"}, variant : Editions \cup {NoAsset}]

LEMMA RowsTyped ==
  ASSUME FamiliesTypeOK, WorkerShape
  PROVE  AtWork \subseteq Editions \X Causes /\ Rows \subseteq Editions \X Causes
  <1>1. ASSUME NEW w \in Enrichers PROVE enricher[w].row \in (Editions \X Causes) \cup {NoAsset}
    BY DEF WorkerShape
  <1> QED
    BY <1>1 DEF AtWork, Rows, FamiliesTypeOK

LEMMA RowParts ==
  ASSUME NEW row \in Editions \X Causes
  PROVE  /\ row[1] \in Editions /\ row[2] \in Causes /\ row = <<row[1], row[2]>>
         /\ row[2][1] \in Editions /\ row[2][2] \in Verdicts /\ row[2] = <<row[2][1], row[2][2]>>
  BY DEF Causes

\* Classification qualifies exactly what it finds to qualify.
LEMMA OutcomeOf ==
  ASSUME FamiliesAssumption, FamiliesTypeOK, NEW i \in Editions, NEW q \in BOOLEAN,
         NEW a \in Outcomes(i, q)
  PROVE  a \in Asset /\ a.verdict = IF q THEN "qualified" ELSE "rejected"
  <1>1. asset[i] \in Asset /\ \A j \in Editions : asset[j] \in Asset
    BY DEF FamiliesTypeOK, Asset
  <1>2. CASE ~ q
    <2>1. a = [NotAsset EXCEPT !.verdict = "rejected"]
      BY <1>2 DEF Outcomes
    <2> QED
      BY <2>1, <1>2 DEF NotAsset, Asset, Verdicts, Families, FamiliesAssumption
  <1>3. CASE q
    <2>1. a \in Resolved(i)
      BY <1>3 DEF Outcomes
    <2>2. CASE a = [asset[i] EXCEPT !.verdict = "qualified"]
      BY <2>2, <1>1, <1>3 DEF Asset, Verdicts
    <2>3. ASSUME NEW match \in {"exact", "near"}, NEW similar, a \in Joining(i, match, similar)
          PROVE  a \in Asset /\ a.verdict = "qualified"
      <3>1. PICK j \in Candidates(i, similar) :
              a = [verdict |-> "qualified", family |-> asset[j].family, match |-> match,
                   variant |-> founder[asset[j].family]]
        BY <2>3, Zenon DEF Joining
      <3>2. j \in Editions /\ asset[j].family # 0 /\ asset[j].family \in Families
        BY <1>1, <3>1 DEF Candidates, Asset
      <3>3. asset[j].family \in 1 .. MaxFamily
        BY <3>2 DEF Families, FamiliesAssumption
      <3>4. founder[asset[j].family] \in Editions \cup {NoAsset}
        BY <3>3 DEF FamiliesTypeOK
      <3> QED
        BY <3>1, <3>2, <3>4 DEF Asset, Verdicts
    <2>4. CASE a \in Founding(i)
      <3>1. PICK f \in 1 .. MaxFamily :
              a = [verdict |-> "qualified", family |-> f, match |-> "singleton",
                   variant |-> NoAsset]
        BY <2>4 DEF Founding
      <3>2. f \in Families
        BY DEF Families, FamiliesAssumption
      <3> QED
        BY <1>3, <3>1, <3>2 DEF Asset, Verdicts
    <2>5. \/ a = [asset[i] EXCEPT !.verdict = "qualified"]
          \/ a \in Joining(i, "exact", SameText) \/ a \in Joining(i, "near", Near)
          \/ a \in Founding(i)
      BY <2>1 DEF Resolved
    <2> QED
      BY <2>2, <2>3, <2>4, <2>5, <1>3
  <1> QED
    BY <1>2, <1>3
-----------------------------------------------------------------------------
\* What the steps do
LEMMA PersistDoes ==
  ASSUME FamiliesAssumption, FamiliesTypeOK, WorkerShape, NEW w \in Enrichers, Persist(w)
  PROVE  /\ enricher[w].at = "loaded" /\ enricher[w].row \in Editions \X Causes
         /\ \E a \in Asset :
              LET i == enricher[w].row[1] IN
              /\ a.verdict = IF Qualifies(i, enricher[w].live, enricher[w].sources)
                             THEN "qualified" ELSE "rejected"
              /\ asset' = [asset EXCEPT ![i] = a]
              /\ owed' = Requeued({<<t, <<i, a.verdict>>>> : t \in Dependents(i)})
         /\ UNCHANGED <<edition, text, basis, confirmed>>
         /\ enricher' = [enricher EXCEPT ![w].at = "persisted"]
         /\ founder' \in [1 .. MaxFamily -> Editions \cup {NoAsset}]
         /\ links' \subseteq Editions \X Editions
  <1> DEFINE i == enricher[w].row[1]
             q == Qualifies(i, enricher[w].live, enricher[w].sources)
  <1>1. /\ enricher[w].at = "loaded" /\ enricher' = [enricher EXCEPT ![w].at = "persisted"]
        /\ \E a \in Outcomes(i, q) :
           /\ asset' = [asset EXCEPT ![i] = a]
           /\ founder' = IF a.match = "singleton" /\ founder[a.family] = NoAsset
                         THEN [founder EXCEPT ![a.family] = i] ELSE founder
           /\ UNCHANGED <<edition, text, basis, confirmed>>
           /\ links' \in Linked(i, links \cup FamilyEdge(i, a))
           /\ owed' = Requeued({<<t, <<i, a.verdict>>>> : t \in Dependents(i)})
    BY Zenon DEF Persist
  <1>2. enricher[w].row \in Editions \X Causes /\ i \in Editions
    BY <1>1 DEF WorkerShape
  <1>3. q \in BOOLEAN
    <2>1. enricher[w].live \in BOOLEAN
      BY DEF FamiliesTypeOK
    <2> QED
      BY <2>1 DEF Qualifies
  <1> HIDE DEF q, i
  <1>4. PICK a \in Outcomes(i, q) :
           /\ asset' = [asset EXCEPT ![i] = a]
           /\ founder' = IF a.match = "singleton" /\ founder[a.family] = NoAsset
                         THEN [founder EXCEPT ![a.family] = i] ELSE founder
           /\ UNCHANGED <<edition, text, basis, confirmed>>
           /\ links' \in Linked(i, links \cup FamilyEdge(i, a))
           /\ owed' = Requeued({<<t, <<i, a.verdict>>>> : t \in Dependents(i)})
    BY <1>1
  <1>5. a \in Asset /\ a.verdict = IF q THEN "qualified" ELSE "rejected"
    BY <1>2, <1>3, <1>4, OutcomeOf
  <1>6. founder' \in [1 .. MaxFamily -> Editions \cup {NoAsset}]
    BY <1>4, <1>2 DEF FamiliesTypeOK
  <1>7. links' \subseteq Editions \X Editions
    <2>1. FamilyEdge(i, a) \subseteq Editions \X Editions
      BY <1>2, <1>5 DEF FamilyEdge, Asset
    <2>2. links \cup FamilyEdge(i, a) \subseteq Editions \X Editions
      BY <2>1 DEF FamiliesTypeOK
    <2>3. Neighbours(i) \subseteq Editions
      BY DEF Neighbours, CurrentTargets, Current0
    <2> DEFINE edges == links \cup FamilyEdge(i, a)
    <2> HIDE DEF edges
    <2>4. links' = edges \/ \E j \in Neighbours(i) :
             links' = edges \cup {<<i, j>>} \cup (IF HasEdge(j, edges) THEN {} ELSE {<<j, i>>})
      BY <1>4 DEF Linked, edges
    <2> QED
      BY <2>2, <2>3, <2>4, <1>2 DEF edges
  <1> QED
    BY <1>1, <1>2, <1>4, <1>5, <1>6, <1>7 DEF i, q

LEMMA FamiliesTyped ==
  ASSUME FamiliesAssumption, FamiliesTypeOK, WorkerShape, [FamiliesNext]_familyVars
  PROVE  FamiliesTypeOK' /\ WorkerShape'
  <1>a. AtWork \subseteq Editions \X Causes
    BY RowsTyped
  <1>b. ASSUME NEW rows, rows \subseteq Editions \X Causes
        PROVE  Requeued(rows) \subseteq Editions \X Causes
    BY <1>b DEF Requeued, FamiliesTypeOK
  <1>1. ASSUME NEW m \in Materials, NEW x \in Texts, NEW live \in BOOLEAN,
               NEW s \in Editions \cup {NoAsset}, SaveMaterial(m, x, live, s)
        PROVE  FamiliesTypeOK' /\ WorkerShape'
    <2> DEFINE i == <<m, edition[m].newest + 1>>
    <2>1. /\ i \in Editions
          /\ edition' = [edition EXCEPT ![m] = [newest |-> edition[m].newest + 1, active |-> live]]
          /\ text' = [text EXCEPT ![i] = x] /\ basis' = [basis EXCEPT ![i] = s]
          /\ owed' = owed \cup {<<i, <<i, "none">>>>}
          /\ confirmed' = confirmed /\ asset' = asset /\ founder' = founder /\ links' = links
          /\ enricher' = enricher
      BY <1>1 DEF SaveMaterial
    <2>2. edition' \in [Materials -> [newest : Nat, active : BOOLEAN]]
      BY <2>1 DEF FamiliesTypeOK
    <2>3. <<i, <<i, "none">>>> \in Editions \X Causes
      BY <2>1 DEF Causes, Verdicts
    <2> HIDE DEF i
    <2>4. owed' \subseteq Editions \X Causes
      BY <2>1, <2>3 DEF FamiliesTypeOK
    <2> QED
      BY <2>1, <2>2, <2>4 DEF FamiliesTypeOK, WorkerShape
  <1>2. ASSUME NEW i \in Editions, Confirm(i) PROVE FamiliesTypeOK' /\ WorkerShape'
    <2>1. /\ confirmed' = confirmed \cup {i}
          /\ asset' = asset \/ asset' = [asset EXCEPT ![i].verdict = "pending"]
          /\ owed' = owed \/ owed' = Requeued({<<i, <<i, "pending">>>>})
          /\ edition' = edition /\ text' = text /\ basis' = basis /\ founder' = founder
          /\ links' = links /\ enricher' = enricher
      BY <1>2 DEF Confirm
    <2>2. <<i, <<i, "pending">>>> \in Editions \X Causes
      BY DEF Causes, Verdicts
    <2>3. owed' \subseteq Editions \X Causes
      BY <2>1, <2>2, <1>b DEF FamiliesTypeOK
    <2>4. asset[i] \in Asset /\ asset \in [Editions -> Asset]
      BY DEF FamiliesTypeOK, Asset
    <2>5. asset' \in [Editions -> Asset]
      BY <2>1, <2>4 DEF Asset, Verdicts
    <2> QED
      BY <2>1, <2>3, <2>5 DEF FamiliesTypeOK, WorkerShape, Asset
  <1>3. ASSUME NEW w \in Enrichers, Persist(w) PROVE FamiliesTypeOK' /\ WorkerShape'
    <2> DEFINE i == enricher[w].row[1]
    <2>1. PICK a \in Asset :
            /\ asset' = [asset EXCEPT ![i] = a]
            /\ owed' = Requeued({<<t, <<i, a.verdict>>>> : t \in Dependents(i)})
      BY <1>3, PersistDoes
    <2>2. /\ edition' = edition /\ text' = text /\ basis' = basis /\ confirmed' = confirmed
          /\ enricher' = [enricher EXCEPT ![w].at = "persisted"]
          /\ founder' \in [1 .. MaxFamily -> Editions \cup {NoAsset}]
          /\ links' \subseteq Editions \X Editions
          /\ enricher[w].row \in Editions \X Causes
      BY <1>3, PersistDoes
    <2>3. asset' \in [Editions -> Asset]
      BY <2>1 DEF FamiliesTypeOK, Asset
    <2>4. i \in Editions
      BY <2>2
    <2> HIDE DEF i
    <2>5. {<<t, <<i, a.verdict>>>> : t \in Dependents(i)} \subseteq Editions \X Causes
      BY <2>4 DEF Dependents, Causes, Asset
    <2>6. owed' \subseteq Editions \X Causes
      BY <2>1, <2>5, <1>b
    <2>7. /\ enricher' \in [Enrichers -> [at : {"idle", "loaded", "persisted"},
                                 row : (Editions \X Causes) \cup {NoAsset},
                                 live : BOOLEAN, sources : {0, 1}]]
          /\ WorkerShape'
      <3>1. \A v \in Enrichers : /\ v # w => enricher'[v] = enricher[v]
                                 /\ enricher'[w].at = "persisted"
                                 /\ enricher'[w].row = enricher[w].row
        BY <2>2 DEF FamiliesTypeOK
      <3>2. WorkerShape'
        BY <2>2, <3>1 DEF WorkerShape
      <3>3. enricher[w] \in [at : {"idle", "loaded", "persisted"},
                             row : (Editions \X Causes) \cup {NoAsset},
                             live : BOOLEAN, sources : {0, 1}]
        BY DEF FamiliesTypeOK
      <3>4. [enricher[w] EXCEPT !.at = "persisted"]
              \in [at : {"idle", "loaded", "persisted"},
                   row : (Editions \X Causes) \cup {NoAsset},
                   live : BOOLEAN, sources : {0, 1}]
        BY <3>3
      <3> QED
        BY <2>2, <3>2, <3>4 DEF FamiliesTypeOK
    <2> QED
      BY <2>2, <2>3, <2>6, <2>7 DEF FamiliesTypeOK, Asset
  <1>4. ASSUME NEW w \in Enrichers, Settle(w) PROVE FamiliesTypeOK' /\ WorkerShape'
    BY <1>4 DEF Settle, FamiliesTypeOK, WorkerShape, NotEnriching
  <1>5. ASSUME NEW w \in Enrichers, Lapse(w) PROVE FamiliesTypeOK' /\ WorkerShape'
    <2>1. /\ enricher[w].row \in Editions \X Causes
          /\ enricher' = [enricher EXCEPT ![w] = NotEnriching]
          /\ owed' = owed \cup {enricher[w].row}
          /\ edition' = edition /\ text' = text /\ basis' = basis /\ confirmed' = confirmed
          /\ asset' = asset /\ founder' = founder /\ links' = links
      BY <1>5 DEF Lapse, WorkerShape
    <2> QED
      BY <2>1 DEF FamiliesTypeOK, WorkerShape, NotEnriching
  <1>6. ASSUME NEW w \in Enrichers, NEW row \in owed, LoadSnapshot(w, row)
        PROVE  FamiliesTypeOK' /\ WorkerShape'
    <2>1. /\ enricher' = [enricher EXCEPT ![w] = [at |-> "loaded", row |-> row,
                        live |-> edition[row[1][1]].active, sources |-> SourceCount(row[1])]]
          /\ owed' = owed \ {row}
          /\ edition' = edition /\ text' = text /\ basis' = basis /\ confirmed' = confirmed
          /\ asset' = asset /\ founder' = founder /\ links' = links
      BY <1>6 DEF LoadSnapshot
    <2>2. row \in Editions \X Causes
      BY DEF FamiliesTypeOK
    <2>3. row[1][1] \in Materials
      BY <2>2, EditionPair
    <2>4. edition[row[1][1]].active \in BOOLEAN /\ SourceCount(row[1]) \in {0, 1}
      BY <2>3 DEF FamiliesTypeOK, SourceCount
    <2> QED
      BY <2>1, <2>2, <2>4 DEF FamiliesTypeOK, WorkerShape
  <1>7. CASE UNCHANGED familyVars
    BY <1>7 DEF familyVars, FamiliesTypeOK, WorkerShape
  <1> QED
    BY <1>1, <1>2, <1>3, <1>4, <1>5, <1>6, <1>7 DEF FamiliesNext
-----------------------------------------------------------------------------
\* What a step leaves as it is
LEMMA CountStays ==
  ASSUME NEW i, basis'[i] = basis[i],
         basis[i] \in Editions /\ basis[i][1] \notin Teardowns =>
           /\ (asset'[basis[i]].verdict = "qualified") = (asset[basis[i]].verdict = "qualified")
           /\ edition'[basis[i][1]] = edition[basis[i][1]]
  PROVE  SourceCount(i)' = SourceCount(i)
  BY DEF SourceCount, Current0

\* A step that neither moves a version nor classifies one, and writes no row.
LEMMA SameFacts ==
  ASSUME UNCHANGED <<edition, basis, confirmed, asset>>, Rows' \subseteq Rows,
         AllKnown, SourceStands, ToldByQualified
  PROVE  AllKnown' /\ SourceStands' /\ ToldByQualified'
  <1>1. edition' = edition /\ basis' = basis /\ confirmed' = confirmed /\ asset' = asset
    OBVIOUS
  <1>2. \A i : Known(i)' <=> Known(i)
    BY <1>1 DEF Known
  <1>3. \A m : Newest(m)' = Newest(m)
    BY <1>1 DEF Newest
  <1>4. AllKnown'
    BY <1>1, <1>2 DEF AllKnown
  <1>5. SourceStands'
    BY <1>1, <1>3 DEF SourceStands
  <1>6. ToldByQualified'
    BY <1>1, <1>3 DEF ToldByQualified
  <1> QED
    BY <1>4, <1>5, <1>6

\* What is outstanding stays so, and no dependent is told.
LEMMA OwesStays ==
  ASSUME NEW i \in Editions, SourceOwes(i),
         basis'[i] = basis[i],
         edition'[basis[i][1]] = edition[basis[i][1]],
         \A j : j = Newest(basis[i][1]) /\ Outstanding(j) => Outstanding(j)',
         \A row \in Rows' : row \in Rows \/ row[2][1] # Newest(basis[i][1])
                                         \/ row[2][2] \notin {"qualified", "rejected"}
  PROVE  SourceOwes(i)'
  <1>1. PICK j : j = Newest(basis[i][1])
    OBVIOUS
  <1>2. /\ basis[i] \in Editions /\ basis[i][1] \notin Teardowns /\ Outstanding(j)
        /\ \A row \in Rows : row[2][1] = j => row[2][2] \notin {"qualified", "rejected"}
    BY <1>1 DEF SourceOwes, Untold
  <1>3. Newest(basis[i][1])' = j /\ Outstanding(j)'
    BY <1>1, <1>2 DEF Newest
  <1>4. Untold(j)'
    BY <1>1, <1>2, <1>3 DEF Untold
  <1>5. Untold(Newest(basis[i][1]))'
    BY <1>3, <1>4 DEF Untold, Outstanding, FamOpen, Enriching
  <1> QED
    BY <1>2, <1>5 DEF SourceOwes

\* A teardown whose source stands, whose rows and verdict stay and at which the same workers are.
LEMMA SettlingStays ==
  ASSUME NEW i \in Editions, Settling(i), SourceCount(i)' = SourceCount(i),
         (asset'[i].verdict = "qualified") = (asset[i].verdict = "qualified"),
         edition'[i[1]] = edition[i[1]],
         \A v \in Enrichers : /\ Enriching(v, i)' <=> Enriching(v, i)
                              /\ Enriching(v, i) => enricher'[v] = enricher[v]
  PROVE  Settling(i)'
  <1>1. Agrees(i)' = Agrees(i)
    BY DEF Agrees
  <1>2. UpToDate(i)'
    BY DEF Settling, UpToDate
  <1> QED
    BY <1>1, <1>2 DEF Settling

LEMMA OpenStays ==
  ASSUME NEW i, owed \subseteq owed', FamOpen(i) PROVE FamOpen(i)'
  BY DEF FamOpen

LEMMA OutstandingStays ==
  ASSUME NEW j, owed \subseteq owed', Outstanding(j),
         \A v \in Enrichers : Enriching(v, j) => Enriching(v, j)'
  PROVE  Outstanding(j)'
  BY DEF Outstanding, FamOpen
-----------------------------------------------------------------------------
\* The steps of a worker but for the commit
LEMMA SettleKeeps ==
  ASSUME FamiliesAssumption, FamiliesInv, NEW w \in Enrichers, Settle(w)
  PROVE  AllKnown' /\ LiveAsLoaded' /\ SourceStands' /\ ToldByQualified' /\ AllFollow'
  <1>1. /\ enricher[w].at = "persisted" /\ enricher' = [enricher EXCEPT ![w] = NotEnriching]
        /\ edition' = edition /\ basis' = basis /\ confirmed' = confirmed /\ asset' = asset
        /\ owed' = owed
    BY DEF Settle
  <1>2. \A v \in Enrichers : enricher'[v] = IF v = w THEN NotEnriching ELSE enricher[v]
    BY <1>1 DEF FamiliesInv, FamiliesTypeOK
  <1>3. Rows' \subseteq Rows
    BY <1>1, <1>2 DEF Rows, AtWork, NotEnriching
  <1>4. AllKnown' /\ SourceStands' /\ ToldByQualified'
    BY <1>1, <1>3, SameFacts DEF FamiliesInv
  <1>5. \A v \in Enrichers : enricher'[v].at = "loaded" => v # w /\ enricher'[v] = enricher[v]
    BY <1>2 DEF NotEnriching
  <1>6. LiveAsLoaded'
    BY <1>1, <1>5 DEF FamiliesInv, LiveAsLoaded
  <1>7. \A v \in Enrichers : \A j : /\ Enriching(v, j)' <=> Enriching(v, j)
                                    /\ Enriching(v, j) => enricher'[v] = enricher[v]
    BY <1>1, <1>2, <1>5 DEF Enriching
  <1>8. ASSUME NEW i \in Editions, i[1] \in Teardowns, i = Newest(i[1])' PROVE Follows(i)'
    <2>1. Follows(i)
      BY <1>1, <1>8 DEF FamiliesInv, AllFollow, Newest
    <2>2. SourceCount(i)' = SourceCount(i)
      BY <1>1, CountStays
    <2>3. CASE FamOpen(i)
      BY <2>3, <1>1 DEF FamOpen, Follows
    <2>4. CASE SourceOwes(i)
      <3>1. \A j : Outstanding(j) => Outstanding(j)'
        BY <1>1, <1>7, OutstandingStays
      <3>2. SourceOwes(i)'
        BY <2>4, <1>1, <1>3, <3>1, OwesStays
      <3> QED
        BY <3>2 DEF Follows
    <2>5. CASE Settling(i)
      <3>1. Settling(i)'
        BY <2>5, <2>2, <1>1, <1>7, SettlingStays
      <3> QED
        BY <3>1 DEF Follows
    <2> QED
      BY <2>1, <2>3, <2>4, <2>5 DEF Follows
  <1> QED
    BY <1>4, <1>6, <1>8 DEF AllFollow

LEMMA LapseKeeps ==
  ASSUME FamiliesAssumption, FamiliesInv, NEW w \in Enrichers, Lapse(w)
  PROVE  AllKnown' /\ LiveAsLoaded' /\ SourceStands' /\ ToldByQualified' /\ AllFollow'
  <1>1. /\ enricher[w].at # "idle" /\ enricher' = [enricher EXCEPT ![w] = NotEnriching]
        /\ edition' = edition /\ basis' = basis /\ confirmed' = confirmed /\ asset' = asset
        /\ owed' = owed \cup {enricher[w].row}
    BY DEF Lapse
  <1>2. \A v \in Enrichers : enricher'[v] = IF v = w THEN NotEnriching ELSE enricher[v]
    BY <1>1 DEF FamiliesInv, FamiliesTypeOK
  <1>a. enricher[w].row \in AtWork
    BY <1>1 DEF FamiliesInv, WorkerShape, AtWork, FamiliesAssumption
  <1>3. Rows' \subseteq Rows
    BY <1>1, <1>2, <1>a DEF Rows, AtWork, NotEnriching
  <1>4. AllKnown' /\ SourceStands' /\ ToldByQualified'
    BY <1>1, <1>3, SameFacts DEF FamiliesInv
  <1>5. \A v \in Enrichers : enricher'[v].at = "loaded" => v # w /\ enricher'[v] = enricher[v]
    BY <1>2 DEF NotEnriching
  <1>6. LiveAsLoaded'
    BY <1>1, <1>5 DEF FamiliesInv, LiveAsLoaded
  <1>7. \A v \in Enrichers \ {w} : \A j : /\ Enriching(v, j)' <=> Enriching(v, j)
                                          /\ enricher'[v] = enricher[v]
    BY <1>1, <1>2 DEF Enriching
  <1>8. ASSUME NEW i \in Editions, i[1] \in Teardowns, i = Newest(i[1])' PROVE Follows(i)'
    <2>1. Follows(i)
      BY <1>1, <1>8 DEF FamiliesInv, AllFollow, Newest
    <2>2. SourceCount(i)' = SourceCount(i)
      BY <1>1, CountStays
    <2>3. CASE FamOpen(i) \/ Enriching(w, i)
      BY <2>3, <1>1 DEF FamOpen, Follows, Enriching
    <2>4. CASE SourceOwes(i)
      <3>1. \A j : Outstanding(j) => Outstanding(j)'
        BY <1>1, <1>7 DEF Outstanding, FamOpen, Enriching
      <3>2. SourceOwes(i)'
        BY <2>4, <1>1, <1>3, <3>1, OwesStays
      <3> QED
        BY <3>2 DEF Follows
    <2>5. CASE Settling(i) /\ ~ Enriching(w, i)
      <3>1. ~ Enriching(w, i)'
        BY <1>5 DEF Enriching
      <3>2. Settling(i)'
        BY <2>5, <3>1, <2>2, <1>1, <1>7, SettlingStays
      <3> QED
        BY <3>2 DEF Follows
    <2> QED
      BY <2>1, <2>3, <2>4, <2>5 DEF Follows
  <1> QED
    BY <1>4, <1>6, <1>8 DEF AllFollow

LEMMA LoadKeeps ==
  ASSUME FamiliesAssumption, FamiliesInv, NEW w \in Enrichers, NEW row \in owed,
         LoadSnapshot(w, row)
  PROVE  AllKnown' /\ LiveAsLoaded' /\ SourceStands' /\ ToldByQualified' /\ AllFollow'
  <1> DEFINE e == [at |-> "loaded", row |-> row, live |-> edition[row[1][1]].active,
                   sources |-> SourceCount(row[1])]
  <1>1. /\ enricher[w].at = "idle" /\ MaterialFree(row[1][1])
        /\ enricher' = [enricher EXCEPT ![w] = e]
        /\ edition' = edition /\ basis' = basis /\ confirmed' = confirmed /\ asset' = asset
        /\ owed' = owed \ {row}
    BY DEF LoadSnapshot
  <1>2. \A v \in Enrichers : enricher'[v] = IF v = w THEN e ELSE enricher[v]
    BY <1>1 DEF FamiliesInv, FamiliesTypeOK
  <1>e. e.at = "loaded" /\ e.row = row /\ e.live = edition[row[1][1]].active
        /\ e.sources = SourceCount(row[1])
    OBVIOUS
  <1> HIDE DEF e
  <1>3. Rows' \subseteq Rows
    BY <1>1, <1>2, <1>e DEF Rows, AtWork
  <1>4. AllKnown' /\ SourceStands' /\ ToldByQualified'
    BY <1>1, <1>3, SameFacts DEF FamiliesInv
  <1>6. LiveAsLoaded'
    BY <1>1, <1>2, <1>e DEF FamiliesInv, LiveAsLoaded
  <1>7. /\ \A v \in Enrichers \ {w} : \A j : /\ Enriching(v, j)' <=> Enriching(v, j)
                                             /\ enricher'[v] = enricher[v]
        /\ \A j : ~ Enriching(w, j) /\ (Enriching(w, j)' <=> row[1] = j)
    BY <1>1, <1>2, <1>e DEF Enriching
  <1>8. ASSUME NEW i \in Editions, i[1] \in Teardowns, i = Newest(i[1])' PROVE Follows(i)'
    <2>1. Follows(i)
      BY <1>1, <1>8 DEF FamiliesInv, AllFollow, Newest
    <2>2. SourceCount(i)' = SourceCount(i)
      BY <1>1, CountStays
    <2>3. CASE row[1] = i
      <3>1. \A v \in Enrichers \ {w} : ~ Enriching(v, i)
        BY <1>1, <2>3 DEF MaterialFree, Enriching
      <3>2. UpToDate(i)'
        BY <3>1, <1>7, <1>2, <1>e, <2>2, <2>3 DEF UpToDate
      <3> QED
        BY <3>2, <1>7, <2>3 DEF Settling, Follows
    <2>4. CASE row[1] # i /\ FamOpen(i)
      BY <2>4, <1>1 DEF FamOpen, Follows
    <2>5. CASE SourceOwes(i)
      <3>1. \A j : Outstanding(j) => Outstanding(j)'
        BY <1>1, <1>7 DEF Outstanding, FamOpen
      <3>2. SourceOwes(i)'
        BY <2>5, <1>1, <1>3, <3>1, OwesStays
      <3> QED
        BY <3>2 DEF Follows
    <2>6. CASE row[1] # i /\ Settling(i)
      <3>1. Settling(i)'
        BY <2>6, <2>2, <1>1, <1>7, SettlingStays
      <3> QED
        BY <3>1 DEF Follows
    <2> QED
      BY <2>1, <2>3, <2>4, <2>5, <2>6 DEF Follows
  <1> QED
    BY <1>4, <1>6, <1>8 DEF AllFollow
-----------------------------------------------------------------------------
\* A version becomes the newest, or is confirmed
LEMMA SaveKeeps ==
  ASSUME FamiliesAssumption, FamiliesInv,
         NEW m \in Materials, NEW x \in Texts, NEW live \in BOOLEAN,
         NEW s \in Editions \cup {NoAsset}, SaveMaterial(m, x, live, s)
  PROVE  AllKnown' /\ LiveAsLoaded' /\ SourceStands' /\ ToldByQualified' /\ AllFollow'
  <1>k. PICK k : k = <<m, edition[m].newest + 1>>
    OBVIOUS
  <1> DEFINE row == <<k, <<k, "none">>>>
  <1>1. /\ k \in Editions /\ MaterialFree(m)
        /\ edition' = [edition EXCEPT ![m] = [newest |-> edition[m].newest + 1, active |-> live]]
        /\ basis' = [basis EXCEPT ![k] = s]
        /\ owed' = owed \cup {row}
        /\ confirmed' = confirmed /\ asset' = asset /\ enricher' = enricher
    BY <1>k DEF SaveMaterial
  <1>2. /\ edition'[m].newest = edition[m].newest + 1 /\ edition[m].newest \in Nat
        /\ \A n \in Materials \ {m} : edition'[n] = edition[n]
    BY <1>1 DEF FamiliesInv, FamiliesTypeOK
  <1>3. k[1] = m /\ k[2] = edition[m].newest + 1 /\ ~ Known(k) /\ Known(k)' /\ k = Newest(m)'
    BY <1>k, <1>2 DEF Known, Newest
  <1>4. row[1] = k /\ row[2][1] = k /\ row[2][2] = "none"
    OBVIOUS
  <1> HIDE DEF row
  <1>5. Rows' = Rows \cup {row} /\ Rows \subseteq Editions \X Causes
    BY <1>1, RowsTyped DEF Rows, AtWork, FamiliesInv
  <1>6. \A i \in Editions : Known(i) => Known(i)' /\ i # k
    <2> SUFFICES ASSUME NEW i \in Editions, Known(i) PROVE Known(i)' /\ i # k
      OBVIOUS
    <2>1. i[1] \in Materials /\ i[2] \in Nat
      BY EditionPair DEF FamiliesAssumption
    <2> QED
      BY <2>1, <1>2, <1>3 DEF Known
  <1>7. \A r \in Rows : /\ r[1] \in Editions /\ r[2][1] \in Editions
                        /\ Known(r[1]) /\ Known(r[2][1])
    BY <1>5, RowParts DEF FamiliesInv, AllKnown
  <1>8. AllKnown'
    <2>1. \A r \in Rows' : Known(r[1])' /\ Known(r[2][1])'
      BY <1>3, <1>4, <1>5, <1>6, <1>7
    <2>2. \A i \in Editions : basis'[i] # NoAsset \/ asset'[i].verdict = "qualified" => Known(i)'
      <3>1. \A i \in Editions \ {k} : basis'[i] = basis[i]
        BY <1>1 DEF FamiliesInv, FamiliesTypeOK
      <3> QED
        BY <3>1, <1>1, <1>3, <1>6 DEF FamiliesInv, AllKnown
    <2> QED
      BY <2>1, <2>2 DEF AllKnown
  <1>9. LiveAsLoaded'
    <2> SUFFICES ASSUME NEW w \in Enrichers, enricher[w].at = "loaded"
                 PROVE  enricher[w].live = edition'[enricher[w].row[1][1]].active
      BY <1>1 DEF LiveAsLoaded
    <2>1. enricher[w].row[1][1] # m
      BY <1>1 DEF MaterialFree
    <2>2. enricher[w].row[1][1] \in Materials
      BY RowParts, EditionPair DEF FamiliesInv, WorkerShape
    <2> QED
      BY <2>1, <2>2, <1>2 DEF FamiliesInv, LiveAsLoaded
  <1>10. \A n \in Materials \ {m} : Newest(n)' = Newest(n)
    BY <1>2 DEF Newest
  <1>11. SourceStands'
    <2> SUFFICES ASSUME NEW j \in Editions, j[1] \notin Teardowns, j = Newest(j[1])',
                        asset[j].verdict = "qualified"
                 PROVE  edition'[j[1]].active /\ (j[1] \in Snapshots => j \in confirmed)
      BY <1>1 DEF SourceStands
    <2>1. Known(j) /\ j[1] \in Materials
      BY EditionPair DEF FamiliesInv, AllKnown
    <2>2. j # k
      BY <2>1, <1>3
    <2>3. j[1] # m
      BY <2>2, <1>3
    <2> QED
      BY <2>1, <2>3, <1>2, <1>10 DEF FamiliesInv, SourceStands
  <1>12. ToldByQualified'
    <2> SUFFICES ASSUME NEW r \in Rows', r[2][1][1] \notin Teardowns,
                        r[2][1] = Newest(r[2][1][1])', r[2][2] = "qualified"
                 PROVE  asset[r[2][1]].verdict = "qualified"
      BY <1>1 DEF ToldByQualified
    <2>1. r \in Rows
      BY <1>4, <1>5
    <2>2. r[2][1] \in Editions /\ r[2][1] # k
      BY <2>1, <1>6, <1>7
    <2>3. r[2][1][1] \in Materials \ {m}
      BY <2>2, <1>3, EditionPair
    <2> QED
      BY <2>1, <2>3, <1>10 DEF FamiliesInv, ToldByQualified
  <1>13. ASSUME NEW i \in Editions, i[1] \in Teardowns, i = Newest(i[1])' PROVE Follows(i)'
    <2>1. CASE i[1] = m
      <3>1. FamOpen(k)'
        BY <1>1, <1>4 DEF FamOpen
      <3> QED
        BY <3>1, <2>1, <1>3, <1>13 DEF Follows
    <2>2. CASE i[1] # m
      <3>1. /\ i[1] \in Materials \ {m} /\ i # k /\ edition'[i[1]] = edition[i[1]]
            /\ i = Newest(i[1])
        BY <2>2, <1>2, <1>3, <1>10, <1>13, EditionPair
      <3>2. Follows(i) /\ basis'[i] = basis[i]
        BY <1>1, <1>13, <3>1 DEF FamiliesInv, AllFollow, FamiliesTypeOK
      <3>3. CASE basis[i] \in Editions /\ basis[i][1] \notin Teardowns /\ basis[i][1] = m
        <4>1. Outstanding(k)'
          BY <1>1, <1>4 DEF Outstanding, FamOpen
        <4>2. \A r \in Rows' : r[2][1] = k => r[2][2] \notin {"qualified", "rejected"}
          BY <1>4, <1>5, <1>6, <1>7
        <4>3. Untold(k)'
          BY <4>1, <4>2 DEF Untold
        <4>4. Newest(basis[i][1])' = k
          BY <3>2, <3>3, <1>3 DEF Newest
        <4>5. Untold(Newest(basis[i][1]))'
          BY <4>3, <4>4 DEF Untold, Outstanding, FamOpen, Enriching
        <4> QED
          BY <3>2, <3>3, <4>5 DEF SourceOwes, Follows
      <3>4. CASE ~ (basis[i] \in Editions /\ basis[i][1] \notin Teardowns /\ basis[i][1] = m)
        <4>1. basis[i] \in Editions /\ basis[i][1] \notin Teardowns =>
                edition'[basis[i][1]] = edition[basis[i][1]]
          BY <3>4, <1>2, EditionPair
        <4>2. SourceCount(i)' = SourceCount(i)
          BY <4>1, <3>2, <1>1, CountStays
        <4>3. CASE FamOpen(i)
          BY <4>3, <1>1, OpenStays DEF Follows
        <4>4. CASE SourceOwes(i)
          <5>1. edition'[basis[i][1]] = edition[basis[i][1]]
            BY <4>1, <4>4 DEF SourceOwes
          <5>2. \A j : Outstanding(j) => Outstanding(j)'
            BY <1>1 DEF Outstanding, FamOpen, Enriching
          <5>3. SourceOwes(i)'
            BY <4>4, <5>1, <5>2, <3>2, <1>4, <1>5, OwesStays
          <5> QED
            BY <5>3 DEF Follows
        <4>5. CASE Settling(i)
          <5>1. \A v \in Enrichers : Enriching(v, i)' <=> Enriching(v, i)
            BY <1>1 DEF Enriching
          <5>2. Settling(i)'
            BY <4>2, <4>5, <5>1, <3>1, <1>1, SettlingStays
          <5> QED
            BY <5>2 DEF Follows
        <4> QED
          BY <3>2, <4>3, <4>4, <4>5 DEF Follows
      <3> QED
        BY <3>3, <3>4
    <2> QED
      BY <2>1, <2>2
  <1> QED
    BY <1>8, <1>9, <1>11, <1>12, <1>13 DEF AllFollow

LEMMA ConfirmKeeps ==
  ASSUME FamiliesAssumption, FamiliesInv, NEW k \in Editions, Confirm(k)
  PROVE  AllKnown' /\ LiveAsLoaded' /\ SourceStands' /\ ToldByQualified' /\ AllFollow'
  <1> DEFINE row == <<k, <<k, "pending">>>>
             again == k \in confirmed /\ asset[k].verdict \in {"pending", "qualified"}
  <1>1. /\ k[1] \in Snapshots /\ Known(k)
        /\ confirmed' = confirmed \cup {k}
        /\ asset' = IF again THEN asset ELSE [asset EXCEPT ![k].verdict = "pending"]
        /\ owed' = owed \/ owed' = Requeued({row})
        /\ edition' = edition /\ basis' = basis /\ enricher' = enricher
    BY DEF Confirm, Known
  <1>2. row[1] = k /\ row[2][1] = k /\ row[2][2] = "pending"
    OBVIOUS
  <1> HIDE DEF row
  <1>3. Rows' \subseteq Rows \cup {row} /\ owed \subseteq owed'
    BY <1>1 DEF Rows, AtWork, Requeued
  <1>4. \A i : Known(i)' = Known(i) /\ \A n : Newest(n)' = Newest(n)
    BY <1>1 DEF Known, Newest
  <1>5. k[1] \notin Teardowns
    BY <1>1 DEF FamiliesAssumption
  <1>6. \A i \in Editions : /\ asset'[i].verdict = "qualified" => asset[i].verdict = "qualified"
                            /\ i # k => asset'[i] = asset[i]
    <2>1. asset[k] \in Asset /\ DOMAIN asset = Editions
      BY DEF FamiliesInv, FamiliesTypeOK, Asset
    <2> QED
      BY <2>1, <1>1 DEF Asset
  <1>7. k = Newest(k[1]) /\ asset[k].verdict = "qualified" => asset' = asset
    BY <1>1, <1>5 DEF FamiliesInv, SourceStands
  <1>8. AllKnown'
    BY <1>1, <1>2, <1>3, <1>4, <1>6 DEF FamiliesInv, AllKnown
  <1>9. LiveAsLoaded'
    BY <1>1 DEF FamiliesInv, LiveAsLoaded
  <1>10. SourceStands'
    BY <1>1, <1>4, <1>6 DEF FamiliesInv, SourceStands
  <1>11. ToldByQualified'
    <2> SUFFICES ASSUME NEW r \in Rows', r[2][1][1] \notin Teardowns,
                        r[2][1] = Newest(r[2][1][1]), r[2][2] = "qualified"
                 PROVE  asset'[r[2][1]].verdict = "qualified"
      BY <1>4 DEF ToldByQualified
    <2>1. r \in Rows
      BY <1>2, <1>3
    <2>2. asset[r[2][1]].verdict = "qualified"
      BY <2>1 DEF FamiliesInv, ToldByQualified
    <2>3. r[2][1] \in Editions
      BY <2>1, RowsTyped, RowParts DEF FamiliesInv
    <2> QED
      BY <2>2, <2>3, <1>6, <1>7
  <1>12. ASSUME NEW i \in Editions, i[1] \in Teardowns, i = Newest(i[1])' PROVE Follows(i)'
    <2>1. Follows(i) /\ i # k
      BY <1>4, <1>5, <1>12 DEF FamiliesInv, AllFollow
    <2>2. SourceCount(i)' = SourceCount(i)
      <3>1. CASE basis[i] # k
        BY <3>1, <1>1, <1>6, CountStays
      <3>2. CASE basis[i] = k /\ k = Newest(k[1]) /\ asset[k].verdict = "qualified"
        BY <3>2, <1>1, <1>7, CountStays
      <3>3. CASE basis[i] = k /\ asset[k].verdict # "qualified"
        BY <3>3, <1>1, <1>6, CountStays
      <3>4. CASE basis[i] = k /\ k # Newest(k[1])
        <4>1. k = <<k[1], k[2]>>
          BY EditionPair
        <4>2. k[2] # edition[k[1]].newest
          BY <4>1, <3>4 DEF Newest
        <4> QED
          BY <4>2, <3>4, <1>1 DEF SourceCount, Current0
      <3> QED
        BY <3>1, <3>2, <3>3, <3>4
    <2>3. CASE FamOpen(i)
      BY <2>3, <1>3, OpenStays DEF Follows
    <2>4. CASE SourceOwes(i)
      <3>1. \A j : Outstanding(j) => Outstanding(j)'
        BY <1>1, <1>3 DEF Outstanding, FamOpen, Enriching
      <3>2. SourceOwes(i)'
        BY <2>4, <3>1, <1>1, <1>2, <1>3, OwesStays
      <3> QED
        BY <3>2 DEF Follows
    <2>5. CASE Settling(i)
      <3>1. \A v \in Enrichers : Enriching(v, i)' <=> Enriching(v, i)
        BY <1>1 DEF Enriching
      <3>2. Settling(i)'
        BY <2>1, <2>2, <2>5, <3>1, <1>1, <1>6, SettlingStays
      <3> QED
        BY <3>2 DEF Follows
    <2> QED
      BY <2>1, <2>3, <2>4, <2>5 DEF Follows
  <1> QED
    BY <1>8, <1>9, <1>10, <1>11, <1>12 DEF AllFollow
-----------------------------------------------------------------------------
\* A version is classified
LEMMA PersistKeeps ==
  ASSUME FamiliesAssumption, FamiliesInv, NEW w \in Enrichers, Persist(w)
  PROVE  AllKnown' /\ LiveAsLoaded' /\ SourceStands' /\ ToldByQualified' /\ AllFollow'
  <1>0. /\ enricher[w].at = "loaded" /\ enricher[w].row \in Editions \X Causes
        /\ edition' = edition /\ basis' = basis /\ confirmed' = confirmed
        /\ enricher' = [enricher EXCEPT ![w].at = "persisted"]
    BY PersistDoes DEF FamiliesInv
  <1>k. PICK k : k = enricher[w].row[1]
    OBVIOUS
  <1> DEFINE i0 == enricher[w].row[1]
  <1>a. PICK a \in Asset :
          /\ a.verdict = IF Qualifies(i0, enricher[w].live, enricher[w].sources)
                         THEN "qualified" ELSE "rejected"
          /\ asset' = [asset EXCEPT ![i0] = a]
          /\ owed' = Requeued({<<t, <<i0, a.verdict>>>> : t \in Dependents(i0)})
    BY PersistDoes DEF FamiliesInv
  <1>1. /\ a.verdict = IF Qualifies(k, enricher[w].live, enricher[w].sources)
                        THEN "qualified" ELSE "rejected"
        /\ asset' = [asset EXCEPT ![k] = a]
        /\ owed' = Requeued({<<t, <<k, a.verdict>>>> : t \in Dependents(k)})
    BY <1>k, <1>a
  <1>2. k \in Editions /\ Known(k) /\ enricher[w].row \in AtWork
    <2>1. enricher[w].row \in AtWork
      BY <1>0 DEF AtWork, FamiliesAssumption
    <2> QED
      BY <2>1, <1>0, <1>k DEF FamiliesInv, AllKnown, Rows
  <1>3. /\ \A v \in Enrichers \ {w} : enricher'[v] = enricher[v]
        /\ enricher'[w].at = "persisted" /\ enricher'[w].row = enricher[w].row
    BY <1>0 DEF FamiliesInv, FamiliesTypeOK
  <1>4. AtWork' = AtWork
    BY <1>3 DEF AtWork
  <1>5. /\ owed \subseteq owed'
        /\ \A r \in Rows' : r \in Rows \/ \E t \in Dependents(k) : r = <<t, <<k, a.verdict>>>>
        /\ \A t \in Dependents(k) : <<t, <<k, a.verdict>>>> \in AtWork
                                    \/ <<t, <<k, a.verdict>>>> \in owed'
    BY <1>1, <1>4 DEF Rows, Requeued
  <1>6. \A r \in Rows' : r \in Rows \/ (/\ r[1] \in Dependents(k) /\ r[2][1] = k
                                        /\ r[2][2] = a.verdict)
    BY <1>5
  <1>7. asset'[k] = a /\ \A i \in Editions \ {k} : asset'[i] = asset[i]
    BY <1>1, <1>2 DEF FamiliesInv, FamiliesTypeOK
  <1>8. (\A i : Known(i)' = Known(i)) /\ (\A n : Newest(n)' = Newest(n))
    BY <1>0 DEF Known, Newest
  <1>9. enricher[w].live = edition[k[1]].active
    BY <1>0, <1>k DEF FamiliesInv, LiveAsLoaded
  <1>10. k[1] \notin Teardowns =>
           (a.verdict = "qualified" <=> edition[k[1]].active /\ (k[1] \in Snapshots => k \in confirmed))
    BY <1>1, <1>9 DEF Qualifies
  \* What was qualified as the newest version is so again.
  <1>11. k[1] \notin Teardowns /\ k = Newest(k[1]) /\ asset[k].verdict = "qualified"
           => a.verdict = "qualified"
    BY <1>2, <1>10 DEF FamiliesInv, SourceStands
  <1>12. AllKnown'
    <2>1. \A t \in Dependents(k) : Known(t)
      BY DEF Dependents, FamiliesInv, AllKnown
    <2>2. \A r \in Rows' : Known(r[1])' /\ Known(r[2][1])'
      BY <2>1, <1>2, <1>6, <1>8 DEF FamiliesInv, AllKnown
    <2>3. \A i \in Editions : basis'[i] # NoAsset \/ asset'[i].verdict = "qualified" => Known(i)'
      BY <1>0, <1>2, <1>7, <1>8 DEF FamiliesInv, AllKnown
    <2> QED
      BY <2>2, <2>3 DEF AllKnown
  <1>13. LiveAsLoaded'
    BY <1>0, <1>3 DEF FamiliesInv, LiveAsLoaded
  <1>14. SourceStands'
    BY <1>0, <1>7, <1>8, <1>10 DEF FamiliesInv, SourceStands
  <1>15. ToldByQualified'
    <2> SUFFICES ASSUME NEW r \in Rows', r[2][1][1] \notin Teardowns,
                        r[2][1] = Newest(r[2][1][1]), r[2][2] = "qualified"
                 PROVE  asset'[r[2][1]].verdict = "qualified"
      BY <1>8 DEF ToldByQualified
    <2>1. CASE r \in Rows
      <3>1. asset[r[2][1]].verdict = "qualified"
        BY <2>1 DEF FamiliesInv, ToldByQualified
      <3>2. r[2][1] \in Editions
        BY <2>1, RowsTyped, RowParts DEF FamiliesInv
      <3> QED
        BY <3>1, <3>2, <1>7, <1>11
    <2>2. CASE r[2][1] = k /\ r[2][2] = a.verdict
      BY <2>2, <1>7
    <2> QED
      BY <2>1, <2>2, <1>6
  <1>16. /\ \A v \in Enrichers \ {w} : \A j : /\ Enriching(v, j)' <=> Enriching(v, j)
                                              /\ enricher'[v] = enricher[v]
         /\ \A j : ~ Enriching(w, j)' /\ (Enriching(w, j) <=> k = j)
    BY <1>0, <1>3, <1>k DEF Enriching
  <1>17. ASSUME NEW j, j # k, Outstanding(j) PROVE Outstanding(j)'
    BY <1>17, <1>5, <1>16, OutstandingStays
  <1>18. ASSUME NEW i \in Editions, i[1] \in Teardowns, i = Newest(i[1])' PROVE Follows(i)'
    <2>1. Follows(i) /\ i[1] \notin Snapshots
      BY <1>8, <1>18 DEF FamiliesInv, AllFollow, FamiliesAssumption
    <2>2. CASE FamOpen(i)
      BY <2>2, <1>5, OpenStays DEF Follows
    <2>3. CASE SourceOwes(i) /\ k = Newest(basis[i][1])
      <3>1. basis[i] \in Editions /\ k[1] = basis[i][1] /\ basis[i] # NoAsset
        BY <2>3 DEF SourceOwes, Newest, FamiliesAssumption
      <3>2. i \in Dependents(k)
        BY <3>1 DEF Dependents
      <3>3. a.verdict \in {"qualified", "rejected"}
        BY <1>1
      <3>4. <<i, <<k, a.verdict>>>> \notin AtWork
        BY <2>3, <3>3 DEF SourceOwes, Untold, Rows
      <3>5. <<i, <<k, a.verdict>>>> \in owed'
        BY <3>2, <3>4, <1>5
      <3>6. FamOpen(i)'
        BY <3>5 DEF FamOpen
      <3> QED
        BY <3>6 DEF Follows
    <2>4. CASE SourceOwes(i) /\ k # Newest(basis[i][1])
      <3>1. \A r \in Rows' : r \in Rows \/ r[2][1] # Newest(basis[i][1])
        BY <2>4, <1>6
      <3>2. SourceOwes(i)'
        BY <2>4, <3>1, <1>0, <1>17, OwesStays
      <3> QED
        BY <3>2 DEF Follows
    <2>5. CASE Settling(i) /\ k = i
      <3>1. SourceCount(i)' = SourceCount(i)
        BY <2>5, <1>0, <1>7, <1>18, CountStays
      <3>2. Enriching(w, i)
        BY <2>5, <1>16
      <3>3. enricher[w].sources = SourceCount(i)
        BY <2>5, <3>2 DEF Settling, UpToDate
      <3>4. a.verdict = "qualified" <=> edition[i[1]].active /\ SourceCount(i) = 1
        BY <1>1, <1>9, <1>18, <2>1, <2>5, <3>3 DEF Qualifies
      <3>5. Agrees(i)'
        BY <3>1, <3>4, <1>0, <1>7, <2>5 DEF Agrees
      <3>6. UpToDate(i)'
        BY <2>5, <3>1, <1>16 DEF Settling, UpToDate
      <3> QED
        BY <3>5, <3>6 DEF Settling, Follows
    <2>6. CASE Settling(i) /\ k # i /\ SourceCount(i)' = SourceCount(i)
      <3>1. \A v \in Enrichers : /\ Enriching(v, i)' <=> Enriching(v, i)
                                 /\ Enriching(v, i) => enricher'[v] = enricher[v]
        BY <2>6, <1>16
      <3>2. Settling(i)'
        BY <2>6, <3>1, <1>0, <1>7, SettlingStays
      <3> QED
        BY <3>2 DEF Follows
    <2>7. CASE SourceCount(i)' # SourceCount(i)
      <3>1. basis[i] = k /\ k[1] \notin Teardowns
        BY <2>7, <1>0, <1>7, CountStays
      <3>2. k[2] = edition[k[1]].newest
        BY <2>7, <3>1, <1>0 DEF SourceCount, Current0
      <3>3. k = Newest(k[1])
        BY <3>2, <1>2, EditionPair DEF Newest
      <3>4. ~ (a.verdict = "qualified" <=> asset[k].verdict = "qualified")
        BY <2>7, <3>1, <1>0, <1>7, CountStays
      <3>5. a.verdict = "qualified" /\ asset[k].verdict # "qualified"
        BY <3>1, <3>3, <3>4, <1>11
      <3>6. i \in Dependents(k)
        BY <3>1, <1>2 DEF Dependents, FamiliesAssumption
      <3>7. <<i, <<k, a.verdict>>>> \notin AtWork
        BY <3>1, <3>3, <3>5 DEF FamiliesInv, ToldByQualified, Rows
      <3>8. <<i, <<k, a.verdict>>>> \in owed'
        BY <3>6, <3>7, <1>5
      <3>9. FamOpen(i)'
        BY <3>8 DEF FamOpen
      <3> QED
        BY <3>9 DEF Follows
    <2> QED
      BY <2>1, <2>2, <2>3, <2>4, <2>5, <2>6, <2>7 DEF Follows
  <1> QED
    BY <1>12, <1>13, <1>14, <1>15, <1>18 DEF AllFollow
-----------------------------------------------------------------------------
LEMMA FamiliesBegin == ASSUME FamiliesAssumption, FamiliesInit PROVE FamiliesInv
  <1>1. owed = {} /\ AtWork = {} /\ \A w \in Enrichers : enricher[w] = NotEnriching
    BY DEF FamiliesInit, AtWork, NotEnriching
  <1>2. FamiliesTypeOK
    <2>1. asset \in [Editions -> Asset]
      BY DEF FamiliesInit, NotAsset, Asset, Verdicts, Families, FamiliesAssumption
    <2> QED
      BY <2>1 DEF FamiliesInit, FamiliesTypeOK, NotEnriching, Asset
  <1>3. WorkerShape /\ LiveAsLoaded
    BY <1>1 DEF WorkerShape, LiveAsLoaded, NotEnriching
  <1>4. \A i \in Editions : asset[i].verdict # "qualified" /\ basis[i] = NoAsset
    BY DEF FamiliesInit, NotAsset
  <1>5. AllKnown /\ SourceStands /\ ToldByQualified
    BY <1>1, <1>4 DEF AllKnown, SourceStands, ToldByQualified, Rows
  <1>6. AllFollow
    <2> SUFFICES ASSUME NEW i \in Editions, i = Newest(i[1]) PROVE FALSE
      BY DEF AllFollow
    <2>1. i[1] \in Materials /\ i[2] \in 1 .. MaxEdition[i[1]] /\ MaxEdition[i[1]] \in Nat
      BY EditionPair DEF FamiliesAssumption
    <2>2. i[2] = edition[i[1]].newest
      BY DEF Newest
    <2>3. edition[i[1]].newest = 0
      BY <2>1 DEF FamiliesInit
    <2> QED
      BY <2>1, <2>2, <2>3
  <1> QED
    BY <1>2, <1>3, <1>5, <1>6 DEF FamiliesInv

LEMMA FamiliesStep ==
  ASSUME FamiliesAssumption, FamiliesInv, [FamiliesNext]_familyVars PROVE FamiliesInv'
  <1>1. FamiliesTypeOK' /\ WorkerShape'
    BY FamiliesTyped DEF FamiliesInv
  <1>2. CASE FamiliesNext
    BY <1>1, <1>2, SaveKeeps, ConfirmKeeps, PersistKeeps, SettleKeeps, LapseKeeps, LoadKeeps
       DEF FamiliesNext, FamiliesInv
  <1>3. CASE UNCHANGED familyVars
    <2>1. /\ edition' = edition /\ basis' = basis /\ confirmed' = confirmed /\ asset' = asset
          /\ owed' = owed /\ enricher' = enricher
      BY <1>3 DEF familyVars
    <2>2. Rows' = Rows
      BY <2>1 DEF Rows, AtWork
    <2>3. AllKnown' /\ SourceStands' /\ ToldByQualified'
      BY <2>1, <2>2, SameFacts DEF FamiliesInv
    <2>4. LiveAsLoaded'
      BY <2>1 DEF FamiliesInv, LiveAsLoaded
    <2>5. ASSUME NEW i \in Editions, i[1] \in Teardowns, i = Newest(i[1])' PROVE Follows(i)'
      <3>1. Follows(i)
        BY <2>1, <2>5 DEF FamiliesInv, AllFollow, Newest
      <3>2. \A v \in Enrichers : \A j : Enriching(v, j)' <=> Enriching(v, j)
        BY <2>1 DEF Enriching
      <3>3. \A j : Outstanding(j) => Outstanding(j)'
        BY <2>1, <3>2, OutstandingStays
      <3>4. SourceCount(i)' = SourceCount(i)
        BY <2>1, CountStays
      <3>5. FamOpen(i) => FamOpen(i)'
        BY <2>1, OpenStays
      <3>6. SourceOwes(i) => SourceOwes(i)'
        BY <2>1, <2>2, <3>3, OwesStays
      <3>7. Settling(i) => Settling(i)'
        BY <2>1, <3>2, <3>4, SettlingStays
      <3> QED
        BY <3>1, <3>5, <3>6, <3>7 DEF Follows
    <2> QED
      BY <1>1, <2>3, <2>4, <2>5 DEF FamiliesInv, AllFollow
  <1> QED
    BY <1>2, <1>3

LEMMA FollowEnds == ASSUME FamiliesAssumption, FamiliesInv PROVE DependentsFollow
  <1> SUFFICES ASSUME NEW t \in Teardowns, Newest(t) \in Editions, Quiet(t),
                      Quiet(basis[Newest(t)][1])
               PROVE  asset[Newest(t)].verdict = "qualified"
                        <=> Qualifies(Newest(t), edition[t].active, SourceCount(Newest(t)))
    BY DEF DependentsFollow, Newest
  <1>i. PICK i : i = Newest(t)
    OBVIOUS
  <1>1. i \in Editions /\ i[1] = t /\ i = Newest(i[1]) /\ Follows(i)
    BY <1>i DEF Newest, FamiliesInv, AllFollow
  <1>2. \A j : Outstanding(j) => \E row \in owed \cup AtWork : row[1] = j
    BY DEF Outstanding, FamOpen, Enriching, AtWork, FamiliesInv, WorkerShape, FamiliesAssumption
  <1>3. ~ Outstanding(i)
    BY <1>1, <1>2 DEF Quiet
  <1>4. ~ SourceOwes(i)
    <2> SUFFICES ASSUME SourceOwes(i) PROVE FALSE
      OBVIOUS
    <2>1. Outstanding(Newest(basis[i][1])) /\ Newest(basis[i][1])[1] = basis[i][1]
      BY DEF SourceOwes, Untold, Newest
    <2> QED
      BY <2>1, <1>2, <1>i DEF Quiet
  <1>5. Agrees(i)
    BY <1>1, <1>3, <1>4 DEF Follows, Settling, Outstanding
  <1>6. t \notin Snapshots
    BY DEF FamiliesAssumption
  <1> QED
    BY <1>i, <1>1, <1>5, <1>6 DEF Agrees, Qualifies

\* However its source and itself are saved, confirmed, classified and classified again, a
\* teardown is qualified exactly while its one source is current knowledge, as soon as no row
\* of either is outstanding (KnowledgeRepository.persist_enrichment with
\* _enqueue_teardown_dependents).
THEOREM TeardownsFollow == FamiliesSpec => []DependentsFollow
  <1>1. FamiliesInit => FamiliesInv
    BY FamiliesAssumption, FamiliesBegin
  <1>2. FamiliesInv /\ [FamiliesNext]_familyVars => FamiliesInv'
    BY FamiliesAssumption, FamiliesStep
  <1>3. FamiliesInv => DependentsFollow
    BY FamiliesAssumption, FollowEnds
  <1> QED
    BY <1>1, <1>2, <1>3, PTL DEF FamiliesSpec
-----------------------------------------------------------------------------
\* The knowledge_enrich rows as WorkLedger sees them: a row at work is owed until its worker
\* completes it.
EnrichmentLedger ==
  INSTANCE WorkLedger WITH Items <- Editions \X Causes, owed <- Rows, claimed <- AtWork,
                           givenUp <- {}

LEMMA RowsInLedger == ASSUME FamiliesInv PROVE Rows \subseteq Editions \X Causes
  BY DEF FamiliesInv, FamiliesTypeOK, WorkerShape, Rows, AtWork

\* Rows that come are requests, whatever they are for.
LEMMA RowsRequested ==
  ASSUME FamiliesInv', Rows \subseteq Rows', AtWork' = AtWork
  PROVE  EnrichmentLedger!Next
  <1>1. PICK S : S = Rows' \ Rows
    OBVIOUS
  <1>2. S \in SUBSET (Editions \X Causes)
    <2>1. Rows' \subseteq Editions \X Causes
      BY DEF FamiliesInv, FamiliesTypeOK, WorkerShape, Rows, AtWork
    <2> QED
      BY <1>1, <2>1
  <1>3. AtWork \subseteq Rows
    BY DEF Rows
  <1>4. EnrichmentLedger!Request(S)
    BY <1>1, <1>3 DEF EnrichmentLedger!Request
  <1> QED
    BY <1>2, <1>4 DEF EnrichmentLedger!Next

LEMMA RowsServed == ASSUME Rows' = Rows PROVE EnrichmentLedger!Next
  <1>1. AtWork' \subseteq Rows'
    BY DEF Rows
  <1> QED
    BY <1>1 DEF EnrichmentLedger!Next, EnrichmentLedger!Serve

LEMMA HeldRow ==
  ASSUME FamiliesInv, NEW w \in Enrichers, enricher[w].at # "idle"
  PROVE  enricher[w].row \in AtWork
  BY FamiliesAssumption DEF FamiliesInv, WorkerShape, FamiliesAssumption, AtWork

\* A worker that lets its row go takes back no other.
LEMMA RowLetGo ==
  ASSUME FamiliesInv, NEW w \in Enrichers, enricher' = [enricher EXCEPT ![w] = NotEnriching]
  PROVE  /\ AtWork' \subseteq AtWork
         /\ \A row \in AtWork : row # enricher[w].row => row \in AtWork'
  <1>1. /\ enricher'[w] = NotEnriching /\ NotEnriching.row = NoAsset
        /\ \A v \in Enrichers \ {w} : enricher'[v] = enricher[v]
    BY DEF FamiliesInv, FamiliesTypeOK, NotEnriching
  <1> QED
    BY <1>1 DEF AtWork

LEMMA RowSettled ==
  ASSUME FamiliesAssumption, FamiliesInv, NEW w \in Enrichers, Settle(w)
  PROVE  EnrichmentLedger!Next
  <1>1. PICK r : r = enricher[w].row
    OBVIOUS
  <1>2. r \in AtWork /\ r \in Rows /\ r \in Editions \X Causes
    BY <1>1, HeldRow, RowsInLedger DEF Settle, Rows
  <1>3. /\ owed' = owed /\ AtWork' \subseteq AtWork
        /\ \A row \in AtWork : row # r => row \in AtWork'
    BY <1>1, RowLetGo DEF Settle
  <1>4. CASE r \in Rows'
    <2>1. Rows' = Rows
      BY <1>3, <1>4 DEF Rows
    <2> QED
      BY <2>1, RowsServed
  <1>5. CASE r \notin Rows'
    <2>1. Rows' = Rows \ {r}
      BY <1>3, <1>5 DEF Rows
    <2>2. EnrichmentLedger!Discharge(r)
      BY <1>2, <1>3, <2>1 DEF EnrichmentLedger!Discharge
    <2> QED
      BY <1>2, <2>2 DEF EnrichmentLedger!Next
  <1> QED
    BY <1>4, <1>5

LEMMA RowLapsed ==
  ASSUME FamiliesAssumption, FamiliesInv, NEW w \in Enrichers, Lapse(w)
  PROVE  Rows' = Rows
  <1>1. PICK r : r = enricher[w].row
    OBVIOUS
  <1>2. r \in AtWork /\ owed' = owed \cup {r}
    BY <1>1, HeldRow DEF Lapse
  <1>3. AtWork' \subseteq AtWork /\ \A row \in AtWork : row # r => row \in AtWork'
    BY <1>1, RowLetGo DEF Lapse
  <1> QED
    BY <1>2, <1>3 DEF Rows

LEMMA RowLoaded ==
  ASSUME FamiliesAssumption, FamiliesInv, NEW w \in Enrichers, NEW row \in Editions \X Causes,
         LoadSnapshot(w, row)
  PROVE  Rows' = Rows
  <1>1. /\ row \in owed /\ owed' = owed \ {row} /\ enricher[w].at = "idle"
        /\ enricher'[w].row = row /\ \A v \in Enrichers \ {w} : enricher'[v] = enricher[v]
    BY DEF LoadSnapshot, FamiliesInv, FamiliesTypeOK
  <1>2. enricher[w].row = NoAsset /\ row # NoAsset
    BY <1>1 DEF FamiliesInv, WorkerShape, FamiliesAssumption
  <1>3. AtWork' = AtWork \cup {row}
    BY <1>1, <1>2 DEF AtWork
  <1> QED
    BY <1>1, <1>3 DEF Rows

LEMMA RowsWritten ==
  ASSUME FamiliesInv,
         \/ \E m \in Materials, x \in Texts, live \in BOOLEAN, s \in Editions \cup {NoAsset} :
              SaveMaterial(m, x, live, s)
         \/ \E i \in Editions : Confirm(i)
         \/ \E w \in Enrichers : Persist(w)
  PROVE  Rows \subseteq Rows' /\ AtWork' = AtWork
  <1>1. ASSUME NEW w \in Enrichers, Persist(w) PROVE owed \subseteq owed' /\ AtWork' = AtWork
    <2>1. enricher' = [enricher EXCEPT ![w].at = "persisted"] /\ owed \subseteq owed'
      BY <1>1 DEF Persist, Requeued
    <2>2. \A v \in Enrichers : enricher'[v].row = enricher[v].row
      BY <2>1 DEF FamiliesInv, FamiliesTypeOK
    <2> QED
      BY <2>1, <2>2 DEF AtWork
  <1>2. ASSUME NEW m, NEW x, NEW live, NEW s, SaveMaterial(m, x, live, s)
        PROVE  owed \subseteq owed' /\ AtWork' = AtWork
    BY <1>2 DEF SaveMaterial, AtWork
  <1>3. ASSUME NEW i, Confirm(i) PROVE owed \subseteq owed' /\ AtWork' = AtWork
    BY <1>3 DEF Confirm, Requeued, AtWork
  <1>4. owed \subseteq owed' /\ AtWork' = AtWork
    BY <1>1, <1>2, <1>3
  <1> QED
    BY <1>4 DEF Rows

\* What classification takes of the outbox keeps the ledger's promises: whatever lapses
\* before a commit or after it, no row is forgotten, and none ends without a worker.
THEOREM EnrichmentKeepsLedger == FamiliesSpec => EnrichmentLedger!Spec
  <1>1. FamiliesInit => EnrichmentLedger!Init
    BY DEF FamiliesInit, NotEnriching, EnrichmentLedger!Init, Rows, AtWork
  <1>2. FamiliesInv /\ FamiliesInv' /\ [FamiliesNext]_familyVars
          => [EnrichmentLedger!Next]_EnrichmentLedger!vars
    <2> SUFFICES ASSUME FamiliesInv, FamiliesInv', [FamiliesNext]_familyVars
                 PROVE  EnrichmentLedger!Next
      OBVIOUS
    <2>1. ASSUME NEW w \in Enrichers, Settle(w) PROVE EnrichmentLedger!Next
      BY <2>1, FamiliesAssumption, RowSettled
    <2>2. ASSUME NEW w \in Enrichers, Lapse(w) PROVE EnrichmentLedger!Next
      BY <2>2, FamiliesAssumption, RowLapsed, RowsServed
    <2>3. ASSUME NEW w \in Enrichers, NEW row \in owed, LoadSnapshot(w, row)
          PROVE  EnrichmentLedger!Next
      <3>1. row \in Editions \X Causes
        BY DEF FamiliesInv, FamiliesTypeOK
      <3> QED
        BY <2>3, <3>1, FamiliesAssumption, RowLoaded, RowsServed
    <2>4. CASE UNCHANGED familyVars
      <3>1. Rows' = Rows
        BY <2>4 DEF familyVars, Rows, AtWork
      <3> QED
        BY <3>1, RowsServed
    <2> QED
      BY <2>1, <2>2, <2>3, <2>4, RowsWritten, RowsRequested DEF FamiliesNext
  <1>3. FamiliesInit => FamiliesInv
    BY FamiliesAssumption, FamiliesBegin
  <1>4. FamiliesInv /\ [FamiliesNext]_familyVars => FamiliesInv'
    BY FamiliesAssumption, FamiliesStep
  <1> QED
    BY <1>1, <1>2, <1>3, <1>4, PTL DEF FamiliesSpec, EnrichmentLedger!Spec
===============================================================================
