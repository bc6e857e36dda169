--------------------------- MODULE GeneratedCopy ---------------------------
(* The lifecycle of one generated copy: immutable versions, the pointers    *)
(* GeneratedCopyRepository moves over them, the browser tabs that ask for   *)
(* the moves under an optimistic token and repeat a call whose answer got   *)
(* lost, and the performance metric that carries the publication stage.     *)
(*                                                                          *)
(* A call to the repository is one transaction under the copy's             *)
(* classification lock, hence one step.  The stage endpoint reads the       *)
(* metric before it opens its transaction, hence two.                       *)
EXTENDS Naturals, FiniteSets

CONSTANTS
  Clients,      \* browser tabs, and tools acting for the owner
  Requests,     \* finalization request ids
  Drafts,       \* contents a tab may finalize instead of the selected version
  NoRequest, NoDraft, NoCall, NoPost,
  MaxVersion,   \* bound: versions
  MaxState,     \* bound: state versions
  Scopes        \* bounds: what a behaviour may meet, see Scope of KnowledgeIndex

ASSUME GCBounds == MaxVersion \in Nat /\ MaxState \in Nat
ASSUME GCNone   == NoRequest \notin Requests /\ NoDraft \notin Drafts

VARIABLES
  copy,      \* the row of generated_copy_states, with the latest version
  view,      \* what each tab last read
  pending,   \* the call a tab has no answer to
  did,       \* history: that call has already changed the copy
  metric,    \* the performance_metric of the copy
  post,      \* a stage change that has read the metric
  queued,    \* every knowledge_enrich row ever written: <<version, state version>>
  scope      \* the tabs, lost messages and workers this behaviour may still use

copyVars == <<copy, view, pending, did, metric, post, queued, scope>>

Versions == 1 .. MaxVersion
Pointer  == 0 .. MaxVersion          \* 0: the column is null
Statuses == {"candidate", "selected", "adopted", "finalized", "published", "measured"}
Frozen   == {"finalized", "published", "measured"}

CopyState ==
  [status : Statuses, selected : Pointer, adopted : Pointer, finalized : Pointer,
   published : Pointer, target : Pointer, latest : Versions, sv : 1 .. MaxState,
   req : Requests \cup {NoRequest}, draft : Drafts \cup {NoDraft}, base : Pointer]

Ops == {"select", "revise", "adopt", "schedule"}
Call == [op : Ops, v : Pointer, n : 0 .. 2,
         latest : Versions, token : 1 .. MaxState,
         draft : Drafts \cup {NoDraft}, req : Requests \cup {NoRequest}]

Stages == {"none", "scheduled", "published", "measured"}
Metric == [stage : Stages, version : Pointer, data : BOOLEAN]
Post   == [to : {"published", "measured"}, seen : Metric]

ASSUME GCCalls == NoCall \notin Call /\ NoPost \notin Post

CopyTypeOK ==
  /\ copy \in CopyState
  /\ view \in [Clients -> CopyState]
  /\ pending \in [Clients -> Call \cup {NoCall}]
  /\ did \in [Clients -> BOOLEAN]
  /\ metric \in Metric
  /\ post \in [Clients -> Post \cup {NoPost}]
  /\ queued \subseteq Versions \X (0 .. MaxState)

-----------------------------------------------------------------------------
(* save_generated_copy_resource: the candidates of a turn, one transaction.   *)
Saved == [status |-> "candidate", selected |-> 1, adopted |-> 0, finalized |-> 0,
          published |-> 0, target |-> 0, latest |-> scope.candidates, sv |-> 1,
          req |-> NoRequest, draft |-> NoDraft, base |-> 0]

CopyInit ==
  /\ scope \in Scopes
  /\ copy = Saved
  /\ view = [c \in Clients |-> Saved]
  /\ pending = [c \in Clients |-> NoCall]
  /\ did = [c \in Clients |-> FALSE]
  /\ metric = [stage |-> "none", version |-> 0, data |-> FALSE]
  /\ post = [c \in Clients |-> NoPost]
  /\ queued = {}

(* The calls a tab that has read s can make. *)
Ask(s, op, v, n, draft, req) ==
  [op |-> op, v |-> v, n |-> n, latest |-> s.latest, token |-> s.sv,
   draft |-> draft, req |-> req]
Calls(s) ==
  {Ask(s, op, v, 0, NoDraft, NoRequest) : op \in {"select", "adopt"}, v \in 1 .. s.latest}
    \cup {Ask(s, "revise", 0, n, NoDraft, NoRequest) : n \in {1, 2}}
    \cup {Ask(s, "schedule", s.selected, 0, NoDraft, NoRequest)}
    \cup {Ask(s, "schedule", s.selected, 0, d, r) : d \in Drafts, r \in Requests}

(* A finalization under the request id of the one already recorded. *)
SameRequest(s, k) == k.draft # NoDraft /\ s.req = k.req

(* The call asks for what the locked row already records: answered without a *)
(* change, whatever its token.                                               *)
Replays(s, k) ==
  \/ k.op = "adopt" /\ s.status = "adopted" /\ s.adopted = k.v
  \/ /\ k.op = "schedule" /\ s.finalized # 0
     /\ IF SameRequest(s, k)
          THEN s.draft = k.draft /\ s.base = k.v
          ELSE s.status \in Frozen /\ k.draft = NoDraft /\ s.finalized = k.v

(* The call may change the row: its token is current and the copy not final. *)
\* Mutant: adopting looks at the token only.
AcceptsFinal(s, k) ==
  /\ ~Replays(s, k) /\ k.token = s.sv
  /\ (s.status \in Frozen => k.op = "adopt")
  /\ (k.op \in {"select", "adopt"} => k.v \in 1 .. s.latest)
  /\ (k.op \in {"revise", "schedule"} => k.latest = s.latest)
  /\ (k.op = "schedule" => k.v = s.selected)
\* Mutant: any token the row has had is good enough.
AcceptsOld(s, k) ==
  /\ ~Replays(s, k) /\ k.token <= s.sv /\ s.status \notin Frozen
  /\ (k.op \in {"select", "adopt"} => k.v \in 1 .. s.latest)
  /\ (k.op \in {"revise", "schedule"} => k.latest = s.latest)
  /\ (k.op = "schedule" => k.v = s.selected)
Accepts(s, k) ==
  /\ ~Replays(s, k)
  /\ k.token = s.sv
  /\ s.status \notin Frozen
  /\ (k.op \in {"select", "adopt"} => k.v \in 1 .. s.latest)
  /\ (k.op \in {"revise", "schedule"} => k.latest = s.latest)
  /\ (k.op = "schedule" => k.v = s.selected)

\* Mutant: selecting moves the pointer and leaves the state version.
SelectedSilently(s, k) == [s EXCEPT !.selected = k.v, !.status = "selected"]
Selected(s, k) == [s EXCEPT !.selected = k.v, !.status = "selected", !.sv = @ + 1]
Revised(s, k) ==
  [s EXCEPT !.latest = @ + 1, !.selected = s.latest + 1, !.status = "selected", !.sv = @ + 1]
\* A turn on an existing copy appends its candidates one by one, in one transaction, and
\* selects the first of several back.
Regenerated(s, k) ==
  [s EXCEPT !.latest = @ + k.n, !.selected = s.latest + 1, !.status = "selected",
            !.sv = @ + k.n + 1]
Adopted(s, k) ==
  [s EXCEPT !.selected = k.v, !.adopted = k.v, !.target = k.v,
            !.status = "adopted", !.sv = @ + 1]
FinalVersion(s, k) == IF k.draft = NoDraft THEN k.v ELSE s.latest + 1
Finalized(s, k) ==
  LET f == FinalVersion(s, k)
  IN  [s EXCEPT !.latest = IF f > @ THEN f ELSE @,
                !.selected = f, !.adopted = f, !.finalized = f, !.target = f,
                !.req = k.req, !.draft = k.draft,
                !.base = IF k.draft = NoDraft THEN 0 ELSE k.v,
                !.status = "finalized", !.sv = @ + 1]
Effect(s, k) ==
  CASE k.op = "select"   -> Selected(s, k)
    [] k.op = "revise"   -> IF k.n = 1 THEN Revised(s, k) ELSE Regenerated(s, k)
    [] k.op = "adopt"    -> Adopted(s, k)
    [] k.op = "schedule" -> Finalized(s, k)

(* _event_and_index: the knowledge_enrich row of a transition.  Its key has  *)
(* the event in it, so that a target reached again is indexed again.         *)
\* Mutant: the row is deduplicated by the version alone.
EnrichKeyOfVersion(s, v) == <<v, 0>>
EnrichKey(s, v) == <<v, s.sv>>
Indexes(s, v) == queued' = queued \cup {EnrichKey(s, v)}

(* _persist_schedule writes the metric in the transaction of the finalization. *)
OnCalendar(m, v) ==
  [m EXCEPT !.version = v,
            !.stage = IF @ \in {"published", "measured"} THEN @ ELSE "scheduled"]

(* The transaction of a call that reached the server. *)
Execute(k) ==
  /\ copy' = IF Accepts(copy, k) THEN Effect(copy, k) ELSE copy
  /\ IF Accepts(copy, k) /\ k.op \in {"adopt", "schedule"}
       THEN Indexes(copy', copy'.target) ELSE UNCHANGED queued
  /\ metric' = IF k.op = "schedule" /\ (Accepts(copy, k) \/ Replays(copy, k))
                 THEN OnCalendar(metric, copy'.finalized) ELSE metric

WithinBounds(k) ==
  Accepts(copy, k) => Effect(copy, k).latest <= scope.latest /\ Effect(copy, k).sv <= scope.states

-----------------------------------------------------------------------------
(* The answer arrives: the tab shows the state it read back. *)
Answered(c, k) ==
  /\ Execute(k)
  /\ view' = [view EXCEPT ![c] = copy']
  /\ pending' = [pending EXCEPT ![c] = NoCall]
  /\ did' = [did EXCEPT ![c] = FALSE]
  /\ UNCHANGED <<post, scope>>

(* The call commits and its answer is lost. *)
AnswerLost(c, k) ==
  /\ scope.lost > 0
  /\ Execute(k)
  /\ pending' = [pending EXCEPT ![c] = k]
  /\ did' = [did EXCEPT ![c] = @ \/ Accepts(copy, k)]
  /\ scope' = [scope EXCEPT !.lost = @ - 1]
  /\ UNCHANGED <<view, post>>

(* The request never reaches the server. *)
RequestLost(c, k) ==
  /\ scope.lost > 0
  /\ pending' = [pending EXCEPT ![c] = k]
  /\ scope' = [scope EXCEPT !.lost = @ - 1]
  /\ UNCHANGED <<copy, view, did, metric, post, queued>>

Asks(c) ==
  /\ c \in scope.clients /\ pending[c] = NoCall
  /\ \E k \in Calls(view[c]) :
       /\ k.op \in scope.ops /\ WithinBounds(k)
       /\ Answered(c, k) \/ AnswerLost(c, k) \/ RequestLost(c, k)

(* The same call again: same target, token, draft and request id. *)
Retries(c) ==
  /\ pending[c] # NoCall
  /\ WithinBounds(pending[c])
  /\ Answered(c, pending[c]) \/ AnswerLost(c, pending[c])

(* The tab reloads the lifecycle and forgets the call. *)
Refreshes(c) ==
  /\ c \in scope.clients
  /\ view' = [view EXCEPT ![c] = copy]
  /\ pending' = [pending EXCEPT ![c] = NoCall]
  /\ did' = [did EXCEPT ![c] = FALSE]
  /\ UNCHANGED <<copy, metric, post, queued, scope>>

(* mark_published and mark_measured: no token, answered when already there.  *)
\* Mutant: the stage is recorded and the lifecycle is not told.
NotPublished == UNCHANGED <<copy, queued>>
MarkPublished ==
  IF copy.status \in {"published", "measured"}
    THEN UNCHANGED <<copy, queued>>
    ELSE /\ copy.finalized # 0 /\ copy.sv < scope.states
         /\ copy' = [copy EXCEPT !.published = copy.finalized, !.status = "published",
                                 !.sv = @ + 1]
         /\ Indexes(copy', copy.finalized)
MarkMeasured ==
  IF copy.status = "measured"
    THEN UNCHANGED <<copy, queued>>
    ELSE /\ copy.published # 0 /\ copy.sv < scope.states
         /\ copy' = [copy EXCEPT !.status = "measured", !.sv = @ + 1]
         /\ Indexes(copy', copy.published)

(* _persist_pipeline_stage reads the metric and checks the transition ...     *)
StageRead(c) ==
  /\ c \in scope.posters /\ post[c] = NoPost
  /\ metric.stage \in {"scheduled", "published"}
  /\ post' = [post EXCEPT ![c] =
       [to |-> IF metric.stage = "scheduled" THEN "published" ELSE "measured",
        seen |-> metric]]
  /\ UNCHANGED <<copy, view, pending, did, metric, queued, scope>>

(* ... and only then opens the transaction that writes what it read back.     *)
StageCommit(c) ==
  /\ post[c] # NoPost
  /\ metric' = [post[c].seen EXCEPT !.stage = post[c].to]
  /\ IF post[c].to = "published" THEN MarkPublished ELSE UNCHANGED <<copy, queued>>
  /\ post' = [post EXCEPT ![c] = NoPost]
  /\ UNCHANGED <<view, pending, did, scope>>

(* _persist_backfill: the measurements of the exact published version.        *)
Backfill(c) ==
  /\ c \in scope.posters
  /\ copy.published # 0
  /\ metric' = [stage |-> "measured", version |-> copy.published, data |-> TRUE]
  /\ MarkMeasured
  /\ UNCHANGED <<view, pending, did, post, scope>>

CopyNext ==
  \E c \in Clients : \/ Asks(c) \/ Retries(c) \/ Refreshes(c)
                     \/ StageRead(c) \/ StageCommit(c) \/ Backfill(c)

-----------------------------------------------------------------------------
(* A state version names one state: a tab whose token is current has seen     *)
(* the row as it is.  This is what lets the compare-and-set stand for a       *)
(* comparison of everything the tab decided on.                               *)
TokenNamesState == \A c \in Clients : view[c].sv = copy.sv => view[c] = copy

(* A call that has changed the copy can never be accepted again, however      *)
(* often the tab repeats it: a retry appends no second final draft.           *)
NeverTwice == \A c \in Clients : did[c] => ~Accepts(copy, pending[c])

(* The promise beside both idempotency checks: repeating a committed          *)
(* finalization is answered with success ever after, and a committed          *)
(* adoption as long as nothing else moved the copy -- never a false conflict. *)
ReplayAnswered ==
  \A c \in Clients :
    /\ did[c]
    /\ \/ pending[c].op = "schedule"
       \/ pending[c].op = "adopt" /\ copy.sv = pending[c].token + 1
    => Replays(copy, pending[c])

(* A retry is harmless: it changes nothing twice, and is told so.              *)
RetrySafe == NeverTwice /\ ReplayAnswered

(* Once finalized, no later call moves a pointer or appends a version.        *)
FinalFrozen ==
  [][copy.finalized # 0 =>
       /\ copy'.finalized = copy.finalized /\ copy'.selected = copy.selected
       /\ copy'.adopted = copy.adopted /\ copy'.target = copy.target
       /\ copy'.latest = copy.latest
       /\ copy.published # 0 => copy'.published = copy.published]_copyVars

(* The metric is about the version that was finalized, and shows it as        *)
(* published only if the lifecycle has published exactly that version.        *)
MetricNamesFinal ==
  metric.stage # "none" =>
    /\ metric.version = copy.finalized
    /\ metric.stage \in {"published", "measured"} => copy.published = copy.finalized

(* The stage machine is one-way.  The code breaks this.                       *)
Rank(stage) == CASE stage = "none" -> 0 [] stage = "scheduled" -> 1
                 [] stage = "published" -> 2 [] stage = "measured" -> 3
StageForward == [][Rank(metric.stage) <= Rank(metric'.stage)]_copyVars
=============================================================================
