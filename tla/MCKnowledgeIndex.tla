--------------------------- MODULE MCKnowledgeIndex ---------------------------
(* Instances of KnowledgeIndex.  A behaviour takes one of the scopes: two tabs  *)
(* with a lossy network and no worker, writing only or also publishing, or one *)
(* tab and the workers serving one of the engines.                             *)
EXTENDS KnowledgeIndex, TLC

Tabs(posters, lost) ==
  [clients |-> Clients, posters |-> posters, ops |-> Ops, lost |-> lost, candidates |-> 1,
   latest |-> 3, states |-> 5, workers |-> {}, faults |-> 0, engines |-> {}]
Pipeline(c, posters, workers, faults, engine) ==
  [clients |-> {c}, posters |-> posters, ops |-> {"adopt", "schedule"}, lost |-> 0,
   candidates |-> 2, latest |-> 2, states |-> 4, workers |-> workers, faults |-> faults,
   engines |-> {engine}]

Writers    == {Tabs({}, 2)}
Publishers == {Tabs(Clients, 1)}
Search     == {Pipeline(c, {c}, Workers, 1, "search") : c \in Clients}
Vectors    == {Pipeline(c, {}, Workers, 1, "vector") : c \in Clients}
Graph      == {Pipeline(c, {}, {w}, 0, "graph") : c \in Clients, w \in Workers}
AllScopes  == Writers \cup Publishers \cup Search \cup Vectors \cup Graph

Symmetry == Permutations(Clients) \cup Permutations(Workers) \cup Permutations(Drafts)
=============================================================================
