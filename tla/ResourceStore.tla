---------------------------- MODULE ResourceStore ----------------------------
(* What ResourceRepository promises those who import into it: an upsert takes *)
(* effect at one instant.  Whatever else is going on, the row it finds is the *)
(* row it replaces, a version is written only for a change, the identity it   *)
(* came under leads to its resource and to no other ever after, and the       *)
(* counts are right at once.                                                  *)
EXTENDS Integers, FiniteSets

CONSTANTS Tenants, Rids, NoRid, Idents, NoIdent, Kinds, NoKind, Bodies

VARIABLES
  res,       \* the resources; version 0: none
  counts,    \* how many of each type a tenant has
  mapping,   \* the resource an external identity leads to
  queued     \* the versions to be enriched

vars == <<res, counts, mapping, queued>>

Absent == [tenant |-> NoRid, kind |-> NoKind, body |-> NoRid, version |-> 0, born |-> NoIdent]
Tally(rows) == [t \in Tenants |-> [k \in Kinds |->
                  Cardinality({r \in Rids : rows[r].tenant = t /\ rows[r].kind = k})]]

Init ==
  /\ res = [r \in Rids |-> Absent]
  /\ counts = Tally(res)
  /\ mapping = [t \in Tenants |-> [i \in Idents |-> NoRid]]
  /\ queued = {}

Says(row, k, b) == row.kind = k /\ row.body = b
\* Under an identity, if there is one, that led nowhere or here.
Under(t, i, r) ==
  \/ i = NoIdent /\ UNCHANGED mapping
  \/ /\ i # NoIdent /\ mapping[t][i] \in {NoRid, r}
     /\ mapping' = [mapping EXCEPT ![t][i] = r]

Write(t, i, r, k, b) ==
  LET born == IF res[r] = Absent THEN i ELSE res[r].born
      new  == [tenant |-> t, kind |-> k, body |-> b, version |-> res[r].version + 1, born |-> born]
  IN  /\ res[r] # Absent => res[r].tenant = t /\ ~Says(res[r], k, b)
      /\ res' = [res EXCEPT ![r] = new]
      /\ counts' = Tally(res')
      /\ queued' = queued \cup {<<r, new.version>>}
      /\ Under(t, i, r)

\* What is there already is written no second time.
Find(t, i, r, k, b) ==
  /\ res[r] # Absent /\ res[r].tenant = t /\ Says(res[r], k, b)
  /\ Under(t, i, r)
  /\ UNCHANGED <<res, counts, queued>>

Next ==
  \E t \in Tenants, i \in Idents \cup {NoIdent}, r \in Rids, k \in Kinds, b \in Bodies :
    Write(t, i, r, k, b) \/ Find(t, i, r, k, b)

Spec == Init /\ [][Next]_vars
=============================================================================
