------------------------------ MODULE MCContent ------------------------------
(* What sessions do to one database at the same time, part by part: users'    *)
(* tokens, model calls, imported resources, retrieval and what is measured of *)
(* it, creation turns, families of knowledge and the writing profile.  A      *)
(* behaviour is of one part; the others stay as they began.                   *)
EXTENDS UatStore, ModelRouter, Resources, RetrievalMetrics, RetrievalOutcomes, Retrieval,
        CreationTurn, KnowledgeFamilies, WritingProfile, TLC

CONSTANTS w1, w2, u1, u2, r1, r2, e1, e2, t1, t2, c1, c2, i1, i2, q1, q2, m1, m2, v1, v2, g1, n1

VARIABLE part

\* The second search shows what the first one shows, and more.
Overlapping == r1 :> {e1} @@ r2 :> {e1, e2}
FirstTurn   == c1 :> t1
\* A draft of the one user and a teardown of it by the other.
Owned    == i1 :> u1 @@ i2 :> u2
TornDown == i1 :> {} @@ i2 :> {<<i1, 1>>}
EachOwn  == [i \in Items |-> i]
Asked    == c1 :> q1 @@ c2 :> q2
AskedBy  == c1 :> u1 @@ c2 :> u2
\* A snapshot with two versions, a teardown of it, of one user.
OneHolder == [m \in Materials |-> u1]
Editing   == m1 :> 2 @@ m2 :> 1
Akin      == {<<m1, m2>>, <<m2, m1>>}
NotNear   == {}
\* One feedback, on the version that was chosen over the other.
OnFirst  == [g \in Opinions |-> v1]
OverTwo  == v1 :> {v2} @@ v2 :> {}
Adopting == {<<"adopted">>}

Symmetry == Permutations({w1, w2})

Parts == {"uat", "router", "resources", "metrics", "outcomes", "retrieval", "creation",
          "families", "profile"}

ContentInit ==
  /\ part \in Parts
  /\ part # "uat" => backend = "pg"
  /\ part # "profile" => niche = [a \in Accounts |-> n1]
  /\ UatInit /\ RouterInit /\ ResourcesInit /\ MetricsInit /\ OutcomesInit /\ RetrievalInit
  /\ CreationInit /\ FamiliesInit /\ ProfileInit

Still(p, v) == IF part = p THEN TRUE ELSE UNCHANGED v
ContentNext ==
  /\ UNCHANGED part
  /\ Still("uat", uatVars) /\ Still("router", routerVars) /\ Still("resources", resourceVars)
  /\ Still("metrics", metricVars) /\ Still("outcomes", outcomeVars)
  /\ Still("retrieval", retrievalVars) /\ Still("creation", creationVars)
  /\ Still("families", familyVars) /\ Still("profile", profileVars)
  /\ \/ part = "uat" /\ UatNext
     \/ part = "router" /\ RouterNext
     \/ part = "resources" /\ ResourcesNext
     \/ part = "metrics" /\ MetricsNext
     \/ part = "outcomes" /\ OutcomesNext
     \/ part = "retrieval" /\ RetrievalNext
     \/ part = "creation" /\ CreationNext
     \/ part = "families" /\ FamiliesNext
     \/ part = "profile" /\ ProfileNext

ContentVars == <<part, uatVars, routerVars, resourceVars, metricVars, outcomeVars,
                 retrievalVars, creationVars, familyVars, profileVars>>
ContentSpec == ContentInit /\ [][ContentNext]_ContentVars
=============================================================================
