------------------------------ MODULE Retrieval ------------------------------
(* What an agent gets to see.  RetrievalService.retrieve: two indexes outside  *)
(* Postgres propose exact versions, current_knowledge_rows decides which are    *)
(* knowledge the actor reads, the graph proposes neighbours of those and they   *)
(* pass the same gate, ranking keeps one of a family.  KnowledgeGrounding keeps *)
(* the package for a minute per run and gives up waiting after its timeout.     *)
(* Shares, grants, pointers and qualifications change at every step of this.    *)
EXTENDS Naturals, FiniteSets

CONSTANTS
  Items,                 \* resources
  DraftItems,                \* those of type generated_copy: a pointer chooses the version
  Actors, OwnerOf,       \* OwnerOf[i]
  TeardownOf,            \* teardown_of edges of an item: exact targets; {} unless a teardown
  FamilyOf,              \* duplicate_family_id of an item
  Groundings,                 \* groundings, of a main agent and its subagents
  RunOf, ActorOf,        \* of a call; RunOf[c] = NoRunId: no identity, no cache
  NoRunId,
  PackageLimit,          \* evidence in a package
  MaxItemVersion, MaxShifts   \* bounds: versions, changes around the calls

Identities == Items \X (1 .. MaxItemVersion)
TeardownItems  == {i \in Items : TeardownOf[i] # {}}

ASSUME RetrievalAssumption ==
  /\ DraftItems \subseteq Items /\ OwnerOf \in [Items -> Actors] /\ ActorOf \in [Groundings -> Actors]
  /\ TeardownOf \in [Items -> SUBSET Identities]
  /\ PackageLimit \in Nat \ {0} /\ MaxItemVersion \in Nat \ {0} /\ MaxShifts \in Nat
  /\ \A c, d \in Groundings : RunOf[c] # NoRunId /\ RunOf[c] = RunOf[d] => ActorOf[c] = ActorOf[d]

VARIABLES
  newest,      \* max(resource_versions.version)
  pointer,     \* generated_copy_states.knowledge_target_version of drafts, 0: none
  qualified,   \* knowledge_asset_states: exact versions with eligibility qualified
  team, acl,   \* visibility team; (item, actor) with a row of resource_permissions
  shifts,      \* bound: changes so far
  thread,      \* retrieval in its thread: at, hits, rows
  turn,        \* what the waiting agent has: status, evidence
  cached,      \* GroundingCache: evidence of a key, or None
  wasOpen      \* history: what a run's actor could have been shown since the run began

gateVars == <<newest, pointer, qualified, team, acl>>
retrievalVars == <<gateVars, shifts, thread, turn, cached, wasOpen>>

None == {<<NoRunId, 0>>}
\* Mutant: packages of different runs share an entry.
CacheKeyByQuery(c) == NoRunId
CacheKey(c) == RunOf[c]
Keys == {CacheKey(c) : c \in Groundings}

\* Where a retrieval is, what is proposed and what has passed a gate; what its agent has.
Retrievals ==
  [at : {"idle", "begun", "recalled", "gated", "expanded", "ranking", "done"},
   hits : SUBSET Identities, rows : SUBSET Identities]
Answers == [status : {"none", "waiting", "ready", "error"}, evidence : SUBSET Identities]

RetrievalTypeOK ==
  /\ newest \in [Items -> 1 .. MaxItemVersion] /\ pointer \in [Items -> 0 .. MaxItemVersion]
  /\ qualified \subseteq Identities /\ team \subseteq Items /\ acl \subseteq Items \X Actors
  /\ shifts \in 0 .. MaxShifts
  /\ thread \in [Groundings -> Retrievals] /\ turn \in [Groundings -> Answers]
  /\ cached \in [Keys -> (SUBSET Identities) \cup {None}]
  /\ wasOpen \in [Groundings -> SUBSET Identities]

-----------------------------------------------------------------------------
(* The gate *)
Readable(a, i) == OwnerOf[i] = a \/ i \in team \/ <<i, a>> \in acl
\* base_current_knowledge_targets, current_knowledge_targets
BaseCurrent ==
  {p \in qualified : p[2] = IF p[1] \in DraftItems THEN pointer[p[1]] ELSE newest[p[1]]}
Current ==
  {p \in BaseCurrent : p[1] \in TeardownItems =>
     Cardinality({t \in TeardownOf[p[1]] : t \in BaseCurrent /\ t[1] \notin TeardownItems}) = 1}
Gate(a) == {p \in Current : Readable(a, p[1])}
\* What an index or the graph may name: anything that was ever written.
Written == {p \in Identities : p[2] <= newest[p[1]]}

RetrievalInit ==
  /\ newest = [i \in Items |-> 1] /\ pointer = [i \in Items |-> IF i \in DraftItems THEN 1 ELSE 0]
  /\ qualified = {<<i, 1>> : i \in Items}
  /\ team = Items /\ acl = {} /\ shifts = 0
  /\ thread = [c \in Groundings |-> [at |-> "idle", hits |-> {}, rows |-> {}]]
  /\ turn = [c \in Groundings |-> [status |-> "none", evidence |-> {}]]
  /\ cached = [k \in Keys |-> None]
  /\ wasOpen = [c \in Groundings |-> {}]

\* The history grows with every step of the run, of any of its calls.
SameRun(c, d) == c = d \/ (RunOf[c] # NoRunId /\ RunOf[d] = RunOf[c])
Begun(c) == \E d \in Groundings : SameRun(c, d) /\ turn'[d].status # "none"
Observe == wasOpen' = [c \in Groundings |-> IF Begun(c) THEN wasOpen[c] \cup Gate(ActorOf[c])' ELSE {}]

-----------------------------------------------------------------------------
(* Changes around the calls *)
Shift == shifts < MaxShifts /\ shifts' = shifts + 1 /\ UNCHANGED <<thread, turn, cached>> /\ Observe
NewVersion(i) ==
  /\ newest[i] < MaxItemVersion /\ newest' = [newest EXCEPT ![i] = @ + 1]
  /\ UNCHANGED <<pointer, qualified, team, acl>> /\ Shift
PointTo(i, v) ==
  /\ i \in DraftItems /\ v <= newest[i] /\ v # pointer[i] /\ pointer' = [pointer EXCEPT ![i] = v]
  /\ UNCHANGED <<newest, qualified, team, acl>> /\ Shift
Classify(p) ==
  /\ p \in Written
  /\ qualified' = IF p \in qualified THEN qualified \ {p} ELSE qualified \cup {p}
  /\ UNCHANGED <<newest, pointer, team, acl>> /\ Shift
SetVisibility(i) ==
  /\ team' = IF i \in team THEN team \ {i} ELSE team \cup {i}
  /\ UNCHANGED <<newest, pointer, qualified, acl>> /\ Shift
\* grant_permission, revoke_permission
Regrant(i, a) ==
  /\ acl' = IF <<i, a>> \in acl THEN acl \ {<<i, a>>} ELSE acl \cup {<<i, a>>}
  /\ UNCHANGED <<newest, pointer, qualified, team>> /\ Shift

-----------------------------------------------------------------------------
(* One grounding *)
Goto(c, at, hits, rows) == thread' = [thread EXCEPT ![c] = [at |-> at, hits |-> hits, rows |-> rows]]
\* The agent gets the answer unless it has stopped waiting.
AnswerGrounding(c, status, evidence) ==
  turn' = IF turn[c].status = "waiting"
          THEN [turn EXCEPT ![c] = [status |-> status, evidence |-> evidence]] ELSE turn
Here == UNCHANGED <<gateVars, shifts>> /\ Observe

\* before_agent: the cache first; a call that ended may be made again in its run.
Ground(c) ==
  LET hit == RunOf[c] # NoRunId /\ cached[CacheKey(c)] # None
  IN  /\ thread[c].at \in {"idle", "done"}
      /\ IF hit THEN /\ turn' = [turn EXCEPT ![c] = [status |-> "ready", evidence |-> cached[CacheKey(c)]]]
                     /\ Goto(c, "done", {}, {})
         ELSE /\ turn' = [turn EXCEPT ![c] = [status |-> "waiting", evidence |-> {}]]
              /\ Goto(c, "begun", {}, {})
      /\ UNCHANGED cached /\ Here
\* Semantic recall joins the gate, keyword recall only the tenant; either may be down.
SemanticFinds(a) == SUBSET Gate(a)
KeywordFinds == SUBSET Written
Recall(c) ==
  /\ thread[c].at = "begun"
  /\ \E S \in SemanticFinds(ActorOf[c]), K \in KeywordFinds : Goto(c, "recalled", S \cup K, {})
  /\ UNCHANGED <<turn, cached>> /\ Here
GatePrimary(c) ==
  /\ thread[c].at = "recalled"
  /\ Goto(c, "gated", {}, thread[c].hits \cap Gate(ActorOf[c]))
  /\ UNCHANGED <<turn, cached>> /\ Here
\* Neighbours of allowed seeds; a graph that is down only degrades the answer.
GraphFinds(seeds) == IF seeds = {} THEN {{}} ELSE SUBSET (Written \ seeds)
Expand(c) ==
  /\ thread[c].at = "gated"
  /\ \E N \in GraphFinds(thread[c].rows) : Goto(c, "expanded", N, thread[c].rows)
  /\ UNCHANGED <<turn, cached>> /\ Here
NeighboursAllowed(c) == thread[c].hits \cap Gate(ActorOf[c])
GateGraph(c) ==
  /\ thread[c].at = "expanded"
  /\ Goto(c, "ranking", {}, thread[c].rows \cup NeighboursAllowed(c))
  /\ UNCHANGED <<turn, cached>> /\ Here
\* One of a family, up to the limit: which ones is a matter of scores.
OnePerFamily(P) == \A p, q \in P : FamilyOf[p[1]] = FamilyOf[q[1]] => p = q
Packages(rows) ==
  {P \in SUBSET rows : /\ Cardinality(P) <= PackageLimit /\ OnePerFamily(P)
                       /\ (P = {} => rows = {})}
\* The package is kept for the run.
Rank(c) ==
  /\ thread[c].at = "ranking"
  /\ \E P \in Packages(thread[c].rows) :
       /\ AnswerGrounding(c, "ready", P)
       /\ cached' = IF RunOf[c] # NoRunId THEN [cached EXCEPT ![CacheKey(c)] = P] ELSE cached
  /\ Goto(c, "done", {}, {}) /\ Here
\* RetrievalSecurityGateError: a gate or the performance query failed, nothing is shown.
FailGate(c) ==
  /\ thread[c].at \in {"recalled", "expanded", "ranking"}
  /\ AnswerGrounding(c, "error", {}) /\ Goto(c, "done", {}, {})
  /\ UNCHANGED cached /\ Here
\* The agent goes on without; the thread does not stop.
GiveUp(c) ==
  /\ turn[c].status = "waiting"
  /\ turn' = [turn EXCEPT ![c] = [status |-> "error", evidence |-> {}]]
  /\ UNCHANGED <<thread, cached>> /\ Here
\* The time to live ends, or newer entries push it out.
Expire(k) ==
  /\ cached[k] # None /\ cached' = [cached EXCEPT ![k] = None]
  /\ UNCHANGED <<thread, turn>> /\ Here

RetrievalNext ==
  \/ \E i \in Items : NewVersion(i) \/ SetVisibility(i) \/ \E v \in 1 .. MaxItemVersion : PointTo(i, v)
  \/ \E p \in Identities : Classify(p)
  \/ \E i \in Items, a \in Actors : Regrant(i, a)
  \/ \E c \in Groundings : Ground(c) \/ Recall(c) \/ GatePrimary(c) \/ Expand(c) \/ GateGraph(c)
                      \/ Rank(c) \/ FailGate(c) \/ GiveUp(c)
  \/ \E k \in Keys : Expire(k)

RetrievalSpec == RetrievalInit /\ [][RetrievalNext]_retrievalVars

-----------------------------------------------------------------------------
(* What the model is given was knowledge, and open to the actor it works for,  *)
(* at some moment of the run: whatever an index, the graph or another run's    *)
(* cached package names, and whatever is revoked, replaced or disqualified     *)
(* while the request is under way.                                             *)
ShownWasOpen == \A c \in Groundings : turn[c].evidence \subseteq wasOpen[c]
=============================================================================
