--------------------------- MODULE KnowledgeProofs ---------------------------
(* GeneratedCopy and KnowledgeIndex for any tabs, workers, versions and lost   *)
(* messages: what a token, a retry and a finalization promise, and that the    *)
(* target is classified and the keyword index and the vectors follow it.       *)
EXTENDS KnowledgeIndex, TLAPS

\* The pointers of a row: final exactly from the finalization on, published only what was
\* finalized, and the target is the final version then.
Shape(s) ==
  /\ s.selected # 0
  /\ s.finalized # 0 <=> s.status \in Frozen
  /\ s.finalized # 0 => s.target = s.finalized
  /\ s.published # 0 <=> s.status \in {"published", "measured"}
  /\ s.published # 0 => s.published = s.finalized

ViewsBehind == \A c \in Clients : view[c].sv <= copy.sv

\* What a tab may be repeating.
CallShape ==
  \A c \in Clients : /\ pending[c] # NoCall /\ pending[c].op = "revise" => pending[c].n \in {1, 2}
                     /\ did[c] => pending[c] # NoCall /\ pending[c].token < copy.sv

\* A metric with a stage, and a stage change under way, are of a finalized copy.
MetricShape == metric.stage # "none" => copy.finalized # 0
PostShape ==
  \A c \in Clients : post[c] # NoPost =>
    /\ copy.finalized # 0 /\ post[c].seen.version = copy.finalized
    /\ post[c].to = "measured" => copy.published # 0

RowsKeyed == \A key \in queued : key[2] <= copy.sv

CopyInv ==
  /\ CopyTypeOK /\ scope \in Scope /\ Shape(copy)
  /\ ViewsBehind /\ TokenNamesState
  /\ CallShape /\ ReplayAnswered
  /\ MetricShape /\ PostShape /\ MetricNamesFinal
  /\ RowsKeyed
-----------------------------------------------------------------------------
LEMMA SavedTyped ==
  ASSUME scope \in Scope
  PROVE  /\ Saved \in CopyState /\ Shape(Saved)
         /\ Saved.sv = 1 /\ Saved.finalized = 0 /\ Saved.target = 0 /\ Saved.published = 0
  <1>1. scope.candidates \in Versions /\ scope.states \in 1 .. MaxState
    BY DEF Scope
  <1>2. 1 \in Versions /\ 0 \in Pointer /\ 1 \in Pointer /\ 1 \in 1 .. MaxState
    BY <1>1, GCBounds DEF Versions, Pointer
  <1> QED
    BY <1>1, <1>2 DEF Saved, CopyState, Statuses, Shape, Frozen

LEMMA CopyInitial == CopyInit => CopyInv
  <1> SUFFICES ASSUME CopyInit PROVE CopyInv
    OBVIOUS
  <1>1. scope \in Scope
    BY KIScopes DEF CopyInit
  <1>2. metric \in Metric /\ metric.stage = "none"
    BY GCBounds DEF CopyInit, Metric, Stages, Pointer
  <1>3. CopyTypeOK
    BY <1>1, <1>2, SavedTyped DEF CopyInit, CopyTypeOK
  <1>4. Shape(copy) /\ ViewsBehind /\ TokenNamesState
    BY <1>1, SavedTyped DEF CopyInit, ViewsBehind, TokenNamesState
  <1>5. CallShape /\ ReplayAnswered /\ MetricShape /\ PostShape /\ MetricNamesFinal /\ RowsKeyed
    BY <1>2 DEF CopyInit, CallShape, ReplayAnswered, MetricShape, PostShape, MetricNamesFinal, RowsKeyed
  <1> QED
    BY <1>1, <1>3, <1>4, <1>5 DEF CopyInv

\* A call accepted.
Made(k) == k.op = "revise" => k.n \in {1, 2}

LEMMA EffectOf ==
  ASSUME NEW s \in CopyState, Shape(s), scope \in Scope, NEW k \in Call, Made(k), Accepts(s, k),
         NEW e, e = Effect(s, k), e.latest <= scope.latest, e.sv <= scope.states
  PROVE  /\ e \in CopyState /\ Shape(e) /\ e.sv > s.sv /\ s.finalized = 0 /\ e.published = 0
         /\ k.op \in {"select", "revise"} => e.target = s.target /\ e.finalized = 0
         /\ k.op = "adopt" => /\ e.target = k.v /\ e.finalized = 0 /\ e.sv = s.sv + 1
                              /\ Replays(e, k)
         /\ k.op = "schedule" => e.finalized # 0 /\ Replays(e, k)
  <1>1. /\ s.selected \in Nat /\ s.latest \in Versions /\ s.sv \in Nat /\ s.finalized = 0
        /\ s.published = 0 /\ s.status \notin Frozen
    BY GCBounds DEF CopyState, Shape, Accepts, Pointer, Frozen
  <1>2. /\ scope.latest <= MaxVersion /\ scope.states <= MaxState
        /\ scope.latest \in Nat /\ scope.states \in Nat
    BY GCBounds DEF Scope, Versions
  <1>3. CASE k.op = "select"
    <2>1. e = Selected(s, k) /\ k.v \in Versions
      BY <1>1, <1>3, GCBounds DEF Effect, Accepts, Versions
    <2>2. /\ e.sv = s.sv + 1 /\ e.selected = k.v /\ e.status = "selected"
          /\ e.target = s.target /\ e.finalized = 0 /\ e.published = 0
      BY <1>1, <2>1 DEF Selected, CopyState
    <2>a. e.sv \in 1 .. MaxState /\ k.v \in Pointer
      BY <1>1, <1>2, <2>1, <2>2, GCBounds DEF Versions, Pointer
    <2>3. e \in CopyState
      BY <2>1, <2>2, <2>a DEF Selected, CopyState, Statuses
    <2> QED
      BY <1>1, <1>3, <2>1, <2>2, <2>3, GCBounds DEF Shape, Frozen, Versions
  <1>4. CASE k.op = "revise"
    <2>1. k.n \in {1, 2} /\ e = IF k.n = 1 THEN Revised(s, k) ELSE Regenerated(s, k)
      BY <1>4 DEF Effect, Made
    <2>2. /\ e.sv \in {s.sv + 1, s.sv + 3} /\ e.latest = s.latest + k.n
          /\ e.selected = s.latest + 1
          /\ e.status = "selected" /\ e.target = s.target /\ e.finalized = 0 /\ e.published = 0
      BY <1>1, <2>1 DEF Revised, Regenerated, CopyState
    <2>3. /\ s.latest + 1 \in Pointer /\ s.latest + k.n \in Versions
          /\ e.sv \in 1 .. MaxState
      BY <1>1, <1>2, <2>1, <2>2, GCBounds DEF Versions, Pointer
    <2>4. e \in CopyState
      BY <1>1, <2>1, <2>2, <2>3 DEF Revised, Regenerated, CopyState, Statuses
    <2> QED
      BY <1>1, <1>4, <2>2, <2>4, GCBounds DEF Shape, Frozen, Versions
  <1>5. CASE k.op = "adopt"
    <2>1. e = Adopted(s, k) /\ k.v \in Versions
      BY <1>1, <1>5, GCBounds DEF Effect, Accepts, Versions
    <2>2. /\ e.sv = s.sv + 1 /\ e.selected = k.v /\ e.adopted = k.v /\ e.target = k.v
          /\ e.status = "adopted" /\ e.finalized = 0 /\ e.published = 0
      BY <1>1, <2>1 DEF Adopted, CopyState
    <2>a. e.sv \in 1 .. MaxState /\ k.v \in Pointer
      BY <1>1, <1>2, <2>1, <2>2, GCBounds DEF Versions, Pointer
    <2>3. e \in CopyState
      BY <2>1, <2>2, <2>a DEF Adopted, CopyState, Statuses
    <2> QED
      BY <1>1, <1>5, <2>1, <2>2, <2>3, GCBounds DEF Shape, Frozen, Versions, Replays
  <1>6. CASE k.op = "schedule"
    <2> DEFINE f == FinalVersion(s, k)
    <2>1. e = Finalized(s, k) /\ k.v = s.selected
      BY <1>6 DEF Effect, Accepts
    <2>2. f \in Nat \ {0}
      BY <1>1, <2>1, GCBounds DEF FinalVersion, Shape, Versions
    <2>3. /\ e.sv = s.sv + 1 /\ e.selected = f /\ e.adopted = f /\ e.finalized = f
          /\ e.target = f /\ e.status = "finalized" /\ e.published = 0
          /\ e.req = k.req /\ e.draft = k.draft
          /\ e.base = (IF k.draft = NoDraft THEN 0 ELSE k.v)
          /\ e.latest = IF f > s.latest THEN f ELSE s.latest
      BY <1>1, <2>1 DEF Finalized, CopyState
    <2>4. e.sv \in 1 .. MaxState /\ f \in Pointer /\ e.latest \in Versions /\ e.base \in Pointer
      BY <1>1, <1>2, <2>1, <2>2, <2>3, GCBounds DEF Versions, Pointer, CopyState
    <2>5. e \in CopyState
      BY <1>1, <2>1, <2>3, <2>4 DEF Finalized, CopyState, Statuses, Call
    <2>6. Shape(e)
      BY <2>2, <2>3 DEF Shape, Frozen
    <2>7. Replays(e, k)
      BY <1>6, <2>2, <2>3 DEF Replays, SameRequest, FinalVersion, Frozen
    <2> QED
      BY <1>1, <1>6, <2>2, <2>3, <2>5, <2>6, <2>7
  <1> QED
    BY <1>3, <1>4, <1>5, <1>6 DEF Call, Ops
-----------------------------------------------------------------------------
\* What any transaction does to the row: a new state has a new state version, a final one
\* keeps its pointers, and a target or a publication comes with a row of its own.
Forward ==
  /\ copy' \in CopyState /\ Shape(copy')
  /\ copy' = copy \/ copy'.sv > copy.sv
  /\ copy.finalized # 0 =>
       /\ copy'.finalized = copy.finalized /\ copy'.selected = copy.selected
       /\ copy'.adopted = copy.adopted /\ copy'.target = copy.target /\ copy'.latest = copy.latest
       /\ copy'.req = copy.req /\ copy'.draft = copy.draft /\ copy'.base = copy.base
       /\ copy.published # 0 => copy'.published = copy.published
  /\ queued \subseteq queued' /\ queued' \subseteq Versions \X (0 .. MaxState) /\ RowsKeyed'
  /\ \/ copy'.target = copy.target /\ (copy'.published # 0 <=> copy.published # 0)
     \/ \E key \in queued' \ queued : key[1] = copy'.target

LEMMA StateTyped ==
  ASSUME NEW s \in CopyState
  PROVE  s.sv \in Nat /\ s.sv \in 1 .. MaxState /\ s.target \in Pointer /\ s.finalized \in Pointer
         /\ s.published \in Pointer /\ s.status \in Statuses
  BY GCBounds DEF CopyState

LEMMA Standing ==
  ASSUME CopyInv, UNCHANGED <<copy, queued>>
  PROVE  Forward
  BY DEF CopyInv, CopyTypeOK, Forward, RowsKeyed

\* A row for the new state is a new row.
LEMMA Indexed ==
  ASSUME CopyInv, copy' \in CopyState, copy'.sv > copy.sv, NEW v \in Versions, Indexes(copy', v)
  PROVE  /\ queued \subseteq queued' /\ queued' \subseteq Versions \X (0 .. MaxState) /\ RowsKeyed'
         /\ \E key \in queued' \ queued : key[1] = v
  <1>1. copy'.sv \in Nat /\ copy.sv \in Nat /\ copy'.sv \in 0 .. MaxState
    BY StateTyped, GCBounds DEF CopyInv, CopyTypeOK
  <1>2. queued' = queued \cup {<<v, copy'.sv>>}
    BY DEF Indexes, EnrichKey
  <1>3. \A key \in queued : key[2] \in Nat /\ key[2] <= copy.sv
    BY GCBounds DEF CopyInv, CopyTypeOK, RowsKeyed
  <1>4. RowsKeyed' /\ <<v, copy'.sv>> \notin queued
    BY <1>1, <1>2, <1>3 DEF RowsKeyed
  <1> QED
    BY <1>1, <1>2, <1>4 DEF CopyInv, CopyTypeOK

\* What the tabs, the metric and a stage change hold survives any such transaction.
LEMMA ForwardKeeps ==
  ASSUME CopyInv, Forward
  PROVE  /\ \A c \in Clients : view[c].sv <= copy'.sv /\ (view[c].sv = copy'.sv => view[c] = copy')
         /\ \A c \in Clients : did[c] => pending[c].token < copy'.sv
         /\ \A c \in Clients :
              /\ did[c]
              /\ \/ pending[c].op = "schedule"
                 \/ pending[c].op = "adopt" /\ copy'.sv = pending[c].token + 1
              => Replays(copy', pending[c])
         /\ \A c \in Clients : post[c] # NoPost =>
              /\ copy'.finalized # 0 /\ post[c].seen.version = copy'.finalized
              /\ post[c].to = "measured" => copy'.published # 0
         /\ metric.stage # "none" =>
              /\ copy'.finalized # 0 /\ metric.version = copy'.finalized
              /\ metric.stage \in {"published", "measured"} => copy'.published = copy'.finalized
  <1>1. copy.sv \in Nat /\ copy'.sv \in Nat /\ copy.sv <= copy'.sv
    BY StateTyped DEF CopyInv, CopyTypeOK, Forward
  <1>2. \A c \in Clients : view[c].sv \in Nat
    BY StateTyped DEF CopyInv, CopyTypeOK
  <1>3. \A c \in Clients : did[c] => pending[c] \in Call /\ pending[c].token \in Nat
                                     /\ pending[c].token < copy.sv
    BY GCBounds DEF CopyInv, CopyTypeOK, CallShape, Call
  <1>4. \A c \in Clients : view[c].sv <= copy'.sv /\ (view[c].sv = copy'.sv => view[c] = copy')
    BY <1>1, <1>2 DEF CopyInv, ViewsBehind, TokenNamesState, Forward
  <1>5. \A c \in Clients : did[c] => pending[c].token < copy'.sv
    BY <1>1, <1>3
  <1>6. ASSUME NEW c \in Clients, did[c], pending[c].op = "adopt", copy'.sv = pending[c].token + 1
        PROVE  Replays(copy', pending[c])
    <2>1. copy.sv = copy'.sv
      BY <1>1, <1>3, <1>6
    <2>2. copy' = copy
      BY <1>1, <2>1 DEF Forward
    <2> QED
      BY <1>6, <2>2 DEF CopyInv, ReplayAnswered
  <1>7. ASSUME NEW c \in Clients, did[c], pending[c].op = "schedule"
        PROVE  Replays(copy', pending[c])
    <2>1. Replays(copy, pending[c])
      BY <1>7 DEF CopyInv, ReplayAnswered
    <2>2. copy.finalized # 0 /\ copy.status \in Frozen
      BY <1>7, <2>1 DEF Replays, CopyInv, Shape
    <2>3. copy'.finalized # 0 /\ copy'.status \in Frozen
      BY <2>2 DEF Forward, Shape
    <2> QED
      BY <1>7, <2>1, <2>2, <2>3 DEF Replays, SameRequest, Forward
  <1>8. \A c \in Clients : post[c] # NoPost =>
          /\ copy'.finalized # 0 /\ post[c].seen.version = copy'.finalized
          /\ post[c].to = "measured" => copy'.published # 0
    BY DEF CopyInv, PostShape, Forward
  <1>9. metric.stage # "none" =>
          /\ copy'.finalized # 0 /\ metric.version = copy'.finalized
          /\ metric.stage \in {"published", "measured"} => copy'.published = copy'.finalized
    BY DEF CopyInv, MetricShape, MetricNamesFinal, Forward, Shape
  <1> QED
    BY <1>4, <1>5, <1>6, <1>7, <1>8, <1>9

\* The transaction of a call.
LEMMA Executed ==
  ASSUME CopyInv, NEW k \in Call, Made(k), WithinBounds(k), Execute(k)
  PROVE  /\ Forward
         /\ Accepts(copy, k) => k.token < copy'.sv
         /\ Accepts(copy, k) /\ (k.op = "schedule" \/ (k.op = "adopt" /\ copy'.sv = k.token + 1))
              => Replays(copy', k)
         /\ metric' \in Metric /\ MetricShape' /\ MetricNamesFinal'
  <1>1. CASE ~Accepts(copy, k)
    <2>1. UNCHANGED <<copy, queued>>
      BY <1>1 DEF Execute
    <2>2. Forward
      BY <2>1, Standing
    <2>3. CASE ~(k.op = "schedule" /\ Replays(copy, k))
      BY <1>1, <2>1, <2>2, <2>3 DEF Execute, CopyInv, CopyTypeOK, MetricShape, MetricNamesFinal
    <2>4. CASE k.op = "schedule" /\ Replays(copy, k)
      <3>1. copy.finalized # 0 /\ copy.finalized \in Pointer
        BY <2>4, StateTyped DEF Replays, CopyInv, CopyTypeOK
      <3>2. metric' = OnCalendar(metric, copy.finalized)
        BY <2>1, <2>4 DEF Execute
      <3>3. /\ metric' \in Metric /\ metric'.version = copy.finalized
            /\ metric'.stage \in {"published", "measured"} => metric'.stage = metric.stage
        BY <3>1, <3>2 DEF OnCalendar, Metric, Stages, CopyInv, CopyTypeOK
      <3> QED
        BY <1>1, <2>1, <2>2, <3>1, <3>3 DEF CopyInv, MetricShape, MetricNamesFinal
    <2> QED
      BY <2>3, <2>4
  <1>2. CASE Accepts(copy, k)
    <2>1. copy' = Effect(copy, k) /\ copy'.latest <= scope.latest /\ copy'.sv <= scope.states
      BY <1>2 DEF Execute, WithinBounds
    <2>2. copy \in CopyState /\ Shape(copy) /\ scope \in Scope /\ k.token = copy.sv /\ copy.sv \in Nat
      BY <1>2, StateTyped DEF CopyInv, CopyTypeOK, Accepts
    <2>3. /\ copy' \in CopyState /\ Shape(copy') /\ copy'.sv > copy.sv
          /\ copy.finalized = 0 /\ copy'.published = 0
          /\ k.op \in {"select", "revise"} => copy'.target = copy.target /\ copy'.finalized = 0
          /\ k.op = "adopt" => copy'.target = k.v /\ copy'.finalized = 0 /\ Replays(copy', k)
          /\ k.op = "schedule" => copy'.finalized # 0 /\ Replays(copy', k)
      BY <1>2, <2>1, <2>2, EffectOf
    <2>4. copy.published = 0 /\ metric.stage = "none"
      BY <2>2, <2>3 DEF Shape, CopyInv, MetricShape
    <2>5. CASE k.op \in {"select", "revise"}
      <3>1. UNCHANGED <<queued, metric>>
        BY <2>5 DEF Execute
      <3>2. RowsKeyed'
        BY <2>2, <2>3, <3>1, StateTyped, GCBounds DEF CopyInv, CopyTypeOK, RowsKeyed
      <3>3. Forward
        BY <2>3, <2>4, <2>5, <3>1, <3>2 DEF Forward, CopyInv, CopyTypeOK
      <3> QED
        BY <2>2, <2>3, <2>4, <2>5, <3>1, <3>3 DEF CopyInv, CopyTypeOK, MetricShape, MetricNamesFinal
    <2>6. CASE k.op \in {"adopt", "schedule"}
      <3>1. Indexes(copy', copy'.target)
        BY <1>2, <2>6 DEF Execute
      <3>2. copy'.target \in Versions
        <4>1. copy'.target \in Pointer /\ copy'.target # 0
          <5>1. CASE k.op = "adopt"
            BY <1>2, <2>2, <2>3, <5>1, StateTyped, GCBounds DEF Accepts, CopyState, Versions
          <5>2. CASE k.op = "schedule"
            BY <2>3, <5>2, StateTyped DEF Shape
          <5> QED
            BY <2>6, <5>1, <5>2
        <4> QED
          BY <4>1, GCBounds DEF Pointer, Versions
      <3>3. Forward
        BY <2>3, <3>1, <3>2, Indexed DEF Forward
      <3>4. CASE k.op = "adopt"
        <4>1. UNCHANGED metric
          BY <3>4 DEF Execute
        <4> QED
          BY <2>2, <2>3, <2>4, <3>3, <3>4, <4>1 DEF CopyInv, CopyTypeOK, MetricShape, MetricNamesFinal
      <3>5. CASE k.op = "schedule"
        <4>1. metric' = OnCalendar(metric, copy'.finalized) /\ copy'.finalized \in Pointer
          BY <1>2, <2>3, <3>5, StateTyped DEF Execute
        <4>2. metric' \in Metric /\ metric'.version = copy'.finalized /\ metric'.stage = "scheduled"
          BY <2>4, <4>1 DEF OnCalendar, Metric, Stages, CopyInv, CopyTypeOK
        <4> QED
          BY <2>2, <2>3, <3>3, <3>5, <4>2 DEF MetricShape, MetricNamesFinal
      <3> QED
        BY <2>6, <3>4, <3>5
    <2> QED
      BY <2>5, <2>6 DEF Call, Ops
  <1> QED
    BY <1>1, <1>2

LEMMA CallsMade ==
  ASSUME NEW s \in CopyState, NEW k \in Calls(s)
  PROVE  k \in Call /\ Made(k)
  <1>1. /\ s.latest \in Versions /\ s.selected \in Pointer /\ s.sv \in 1 .. MaxState
        /\ 0 \in Pointer /\ \A v \in 1 .. s.latest : v \in Pointer
    BY GCBounds DEF CopyState, Versions, Pointer
  <1>2. CASE \E op \in {"select", "adopt"}, v \in 1 .. s.latest : k = Ask(s, op, v, 0, NoDraft, NoRequest)
    BY <1>1, <1>2 DEF Ask, Call, Ops, Made
  <1>3. CASE \E n \in {1, 2} : k = Ask(s, "revise", 0, n, NoDraft, NoRequest)
    BY <1>1, <1>3 DEF Ask, Call, Ops, Made
  <1>4. CASE k = Ask(s, "schedule", s.selected, 0, NoDraft, NoRequest)
    BY <1>1, <1>4 DEF Ask, Call, Ops, Made
  <1>5. CASE \E d \in Drafts, r \in Requests : k = Ask(s, "schedule", s.selected, 0, d, r)
    BY <1>1, <1>5 DEF Ask, Call, Ops, Made
  <1> QED
    BY <1>2, <1>3, <1>4, <1>5 DEF Calls

LEMMA LosesOne ==
  ASSUME scope \in Scope, scope.lost > 0, scope' = [scope EXCEPT !.lost = @ - 1]
  PROVE  scope' \in Scope
  <1>1. scope.lost - 1 \in Nat
    BY DEF Scope
  <1> QED
    BY <1>1 DEF Scope

\* A tab's step with call k: its answer, or its commit with the answer lost.
LEMMA AnsweredStep ==
  ASSUME CopyInv, NEW c \in Clients, NEW k \in Call, Made(k), WithinBounds(k), Answered(c, k)
  PROVE  CopyInv' /\ Forward
  <1>1. Forward /\ metric' \in Metric /\ MetricShape' /\ MetricNamesFinal'
    BY Executed DEF Answered
  <1>2. /\ view' = [view EXCEPT ![c] = copy'] /\ pending' = [pending EXCEPT ![c] = NoCall]
        /\ did' = [did EXCEPT ![c] = FALSE] /\ UNCHANGED <<post, scope>>
    BY DEF Answered
  <1>3. /\ view'[c] = copy' /\ \A d \in Clients \ {c} : view'[d] = view[d]
        /\ pending'[c] = NoCall /\ \A d \in Clients \ {c} : pending'[d] = pending[d]
        /\ ~did'[c] /\ \A d \in Clients \ {c} : did'[d] = did[d]
        /\ view' \in [Clients -> CopyState] /\ pending' \in [Clients -> Call \cup {NoCall}]
        /\ did' \in [Clients -> BOOLEAN]
    BY <1>1, <1>2 DEF CopyInv, CopyTypeOK, Forward
  <1>4. CopyTypeOK' /\ scope' \in Scope /\ Shape(copy')
    BY <1>1, <1>2, <1>3 DEF CopyInv, CopyTypeOK, Forward
  <1>5. ViewsBehind' /\ TokenNamesState'
    BY <1>1, <1>3, <1>4, ForwardKeeps, StateTyped DEF ViewsBehind, TokenNamesState, Forward
  <1>6. CallShape' /\ ReplayAnswered'
    BY <1>1, <1>3, ForwardKeeps DEF CopyInv, CallShape, ReplayAnswered
  <1>7. PostShape'
    BY <1>1, <1>2, ForwardKeeps DEF PostShape
  <1> QED
    BY <1>1, <1>4, <1>5, <1>6, <1>7 DEF CopyInv, Forward

\* The calls whose success a repetition must still be told.
Lasting(k, sv) == k.op = "schedule" \/ (k.op = "adopt" /\ sv = k.token + 1)

LEMMA AnswerLostStep ==
  ASSUME CopyInv, NEW c \in Clients, NEW k \in Call, Made(k), WithinBounds(k), AnswerLost(c, k),
         did[c] => pending[c] = k
  PROVE  CopyInv' /\ Forward
  <1>1. /\ Forward /\ metric' \in Metric /\ MetricShape' /\ MetricNamesFinal'
        /\ Accepts(copy, k) => k.token < copy'.sv
        /\ Accepts(copy, k) /\ (k.op = "schedule" \/ (k.op = "adopt" /\ copy'.sv = k.token + 1))
             => Replays(copy', k)
    BY Executed DEF AnswerLost
  <1>2. /\ pending' = [pending EXCEPT ![c] = k] /\ scope' = [scope EXCEPT !.lost = @ - 1]
        /\ did' = [did EXCEPT ![c] = did[c] \/ Accepts(copy, k)] /\ UNCHANGED <<view, post>>
    BY DEF AnswerLost, CopyInv, CopyTypeOK
  <1>3. scope' \in Scope
    BY <1>2, LosesOne DEF AnswerLost, CopyInv
  <1> DEFINE now == did[c] \/ Accepts(copy, k)
  <1>a. did' = [did EXCEPT ![c] = now] /\ now \in BOOLEAN /\ (now <=> did[c] \/ Accepts(copy, k))
    BY <1>2
  <1> HIDE DEF now
  <1>4. /\ pending'[c] = k /\ \A d \in Clients \ {c} : pending'[d] = pending[d]
        /\ did'[c] = now /\ \A d \in Clients \ {c} : did'[d] = did[d]
        /\ pending' \in [Clients -> Call \cup {NoCall}] /\ did' \in [Clients -> BOOLEAN]
    BY <1>2, <1>a DEF CopyInv, CopyTypeOK
  <1>5. CopyTypeOK' /\ Shape(copy')
    BY <1>1, <1>2, <1>4 DEF CopyInv, CopyTypeOK, Forward
  <1>6. ViewsBehind' /\ TokenNamesState'
    BY <1>1, <1>2, ForwardKeeps DEF ViewsBehind, TokenNamesState
  <1>7. CallShape'
    <2>a. \A d \in Clients : did[d] => pending[d].token < copy'.sv
      BY <1>1, ForwardKeeps
    <2>1. k # NoCall /\ (now => k.token < copy'.sv)
      <3>1. did[c] => k.token < copy'.sv
        BY <2>a
      <3> QED
        BY <1>1, <1>a, <3>1, GCCalls
    <2>2. \A d \in Clients \ {c} : did[d] => pending[d] # NoCall /\ pending[d].token < copy'.sv
      BY <2>a DEF CopyInv, CallShape
    <2>3. \A d \in Clients \ {c} : pending[d] # NoCall /\ pending[d].op = "revise" => pending[d].n \in {1, 2}
      BY DEF CopyInv, CallShape
    <2> QED
      BY <1>4, <2>1, <2>2, <2>3 DEF CallShape, Made
  <1>8. ReplayAnswered'
    <2>1. \A d \in Clients : did[d] /\ Lasting(pending[d], copy'.sv) => Replays(copy', pending[d])
      BY <1>1, ForwardKeeps DEF Lasting
    <2>2. now /\ Lasting(k, copy'.sv) => Replays(copy', k)
      BY <1>1, <1>a, <2>1 DEF Lasting
    <2>3. did'[c] /\ Lasting(pending'[c], copy'.sv) => Replays(copy', pending'[c])
      BY <1>4, <2>2
    <2>4. \A d \in Clients \ {c} :
            did'[d] /\ Lasting(pending'[d], copy'.sv) => Replays(copy', pending'[d])
      BY <1>4, <2>1
    <2>5. \A d \in Clients :
            did'[d] /\ Lasting(pending'[d], copy'.sv) => Replays(copy', pending'[d])
      BY <2>3, <2>4
    <2> SUFFICES ASSUME NEW d \in Clients, did'[d],
                        (pending'[d].op = "schedule") \/ (pending'[d].op = "adopt" /\ copy'.sv = pending'[d].token + 1)
                 PROVE  Replays(copy', pending'[d])
      BY DEF ReplayAnswered, Replays, SameRequest
    <2>6. Lasting(pending'[d], copy'.sv)
      BY DEF Lasting
    <2> QED
      BY <2>5, <2>6
  <1>9. PostShape'
    BY <1>1, <1>2, ForwardKeeps DEF PostShape
  <1> QED
    BY <1>1, <1>3, <1>5, <1>6, <1>7, <1>8, <1>9 DEF CopyInv, Forward

LEMMA RequestLostStep ==
  ASSUME CopyInv, NEW c \in Clients, NEW k \in Call, Made(k), ~did[c], RequestLost(c, k)
  PROVE  CopyInv' /\ Forward
  <1>1. /\ pending' = [pending EXCEPT ![c] = k] /\ scope' = [scope EXCEPT !.lost = @ - 1]
        /\ UNCHANGED <<copy, view, did, metric, post, queued>>
    BY DEF RequestLost
  <1>2. scope' \in Scope
    BY <1>1, LosesOne DEF RequestLost, CopyInv
  <1>3. /\ pending'[c] = k /\ \A d \in Clients \ {c} : pending'[d] = pending[d]
        /\ pending' \in [Clients -> Call \cup {NoCall}]
    BY <1>1 DEF CopyInv, CopyTypeOK
  <1>4. CopyTypeOK' /\ CallShape' /\ ReplayAnswered'
    BY <1>1, <1>3 DEF CopyInv, CopyTypeOK, CallShape, ReplayAnswered, Made
  <1>5. ViewsBehind' /\ TokenNamesState' /\ MetricShape' /\ PostShape' /\ MetricNamesFinal' /\ RowsKeyed'
        /\ Shape(copy')
    BY <1>1 DEF CopyInv, ViewsBehind, TokenNamesState, MetricShape, PostShape, MetricNamesFinal, RowsKeyed
  <1> QED
    BY <1>1, <1>2, <1>4, <1>5, Standing DEF CopyInv

LEMMA RefreshStep == ASSUME CopyInv, NEW c \in Clients, Refreshes(c) PROVE CopyInv' /\ Forward
  <1>1. /\ view' = [view EXCEPT ![c] = copy] /\ pending' = [pending EXCEPT ![c] = NoCall]
        /\ did' = [did EXCEPT ![c] = FALSE] /\ UNCHANGED <<copy, metric, post, queued, scope>>
    BY DEF Refreshes
  <1>2. /\ view'[c] = copy /\ \A d \in Clients \ {c} : view'[d] = view[d]
        /\ pending'[c] = NoCall /\ \A d \in Clients \ {c} : pending'[d] = pending[d]
        /\ ~did'[c] /\ \A d \in Clients \ {c} : did'[d] = did[d]
    BY <1>1 DEF CopyInv, CopyTypeOK
  <1>3. CopyTypeOK' /\ copy.sv \in Nat
    BY <1>1, StateTyped DEF CopyInv, CopyTypeOK
  <1>4. ViewsBehind' /\ TokenNamesState' /\ CallShape' /\ ReplayAnswered'
    BY <1>1, <1>2, <1>3 DEF CopyInv, ViewsBehind, TokenNamesState, CallShape, ReplayAnswered
  <1>5. MetricShape' /\ PostShape' /\ MetricNamesFinal' /\ RowsKeyed' /\ Shape(copy') /\ scope' \in Scope
    BY <1>1 DEF CopyInv, MetricShape, PostShape, MetricNamesFinal, RowsKeyed
  <1> QED
    BY <1>1, <1>3, <1>4, <1>5, Standing DEF CopyInv
-----------------------------------------------------------------------------
\* Publication and measurement.
LEMMA Published ==
  ASSUME CopyInv, MarkPublished
  PROVE  Forward /\ copy'.published # 0 /\ copy'.finalized # 0
  <1>1. CASE copy.status \in {"published", "measured"}
    BY <1>1, Standing, StateTyped DEF MarkPublished, CopyInv, Shape, Frozen
  <1>2. CASE copy.status \notin {"published", "measured"}
    <2>1. /\ copy.finalized # 0 /\ copy.sv < scope.states
          /\ copy' = [copy EXCEPT !.published = copy.finalized, !.status = "published", !.sv = @ + 1]
          /\ Indexes(copy', copy.finalized)
      BY <1>2 DEF MarkPublished
    <2>2. /\ copy \in CopyState /\ copy.finalized \in Versions /\ copy.sv + 1 \in 1 .. MaxState
          /\ copy.sv \in Nat /\ copy.published = 0 /\ copy.target = copy.finalized
      BY <1>2, <2>1, StateTyped, GCBounds DEF CopyInv, CopyTypeOK, Scope, Shape, Versions, Pointer
    <2>3. /\ copy' \in CopyState /\ copy'.sv = copy.sv + 1 /\ copy'.status = "published"
          /\ copy'.published = copy.finalized /\ copy'.finalized = copy.finalized
          /\ copy'.selected = copy.selected /\ copy'.adopted = copy.adopted
          /\ copy'.target = copy.target /\ copy'.latest = copy.latest
          /\ copy'.req = copy.req /\ copy'.draft = copy.draft /\ copy'.base = copy.base
      BY <2>1, <2>2, StateTyped DEF CopyState, Statuses
    <2>4. Shape(copy')
      BY <2>1, <2>2, <2>3 DEF CopyInv, Shape, Frozen
    <2> QED
      BY <2>1, <2>2, <2>3, <2>4, Indexed DEF Forward
  <1> QED
    BY <1>1, <1>2

LEMMA Measured ==
  ASSUME CopyInv, copy.published # 0, MarkMeasured
  PROVE  Forward /\ copy'.published = copy.published /\ copy'.finalized = copy.published
  <1>0. copy.published = copy.finalized /\ copy.target = copy.finalized
        /\ copy.status \in {"published", "measured"}
    BY DEF CopyInv, Shape
  <1>1. CASE copy.status = "measured"
    BY <1>0, <1>1, Standing DEF MarkMeasured
  <1>2. CASE copy.status # "measured"
    <2>1. /\ copy.sv < scope.states /\ copy' = [copy EXCEPT !.status = "measured", !.sv = @ + 1]
          /\ Indexes(copy', copy.published)
      BY <1>2 DEF MarkMeasured
    <2>2. /\ copy \in CopyState /\ copy.published \in Versions /\ copy.sv + 1 \in 1 .. MaxState
          /\ copy.sv \in Nat
      BY <2>1, StateTyped, GCBounds DEF CopyInv, CopyTypeOK, Scope, Versions, Pointer
    <2>3. /\ copy' \in CopyState /\ copy'.sv = copy.sv + 1 /\ copy'.status = "measured"
          /\ copy'.published = copy.published /\ copy'.finalized = copy.finalized
          /\ copy'.selected = copy.selected /\ copy'.adopted = copy.adopted
          /\ copy'.target = copy.target /\ copy'.latest = copy.latest
          /\ copy'.req = copy.req /\ copy'.draft = copy.draft /\ copy'.base = copy.base
      BY <2>1, <2>2, StateTyped DEF CopyState, Statuses
    <2>4. Shape(copy')
      BY <1>0, <2>3 DEF CopyInv, Shape, Frozen
    <2> QED
      BY <1>0, <2>1, <2>2, <2>3, <2>4, Indexed DEF Forward
  <1> QED
    BY <1>1, <1>2

LEMMA PostTyped ==
  ASSUME CopyInv, NEW c \in Clients, post[c] # NoPost
  PROVE  /\ post[c] \in Post /\ post[c].to \in {"published", "measured"} /\ post[c].seen \in Metric
  BY DEF CopyInv, CopyTypeOK, Post

LEMMA StageReadStep == ASSUME CopyInv, NEW c \in Clients, StageRead(c) PROVE CopyInv' /\ Forward
  <1> DEFINE p == [to |-> IF metric.stage = "scheduled" THEN "published" ELSE "measured",
                   seen |-> metric]
  <1>1. /\ p \in Post /\ p.seen = metric
        /\ p.to = "measured" => metric.stage = "published"
    BY DEF StageRead, CopyInv, CopyTypeOK, Post
  <1>2. post' = [post EXCEPT ![c] = p] /\ UNCHANGED <<copy, view, pending, did, metric, queued, scope>>
    BY DEF StageRead
  <1> HIDE DEF p
  <1>3. CopyTypeOK' /\ post'[c] = p /\ \A d \in Clients \ {c} : post'[d] = post[d]
    BY <1>1, <1>2 DEF CopyInv, CopyTypeOK
  <1>4. metric.stage \in {"scheduled", "published"}
    BY DEF StageRead
  <1>5. PostShape'
    BY <1>1, <1>2, <1>3, <1>4 DEF CopyInv, PostShape, MetricShape, MetricNamesFinal
  <1>6. /\ ViewsBehind' /\ TokenNamesState' /\ CallShape' /\ ReplayAnswered' /\ MetricShape'
        /\ MetricNamesFinal' /\ RowsKeyed' /\ Shape(copy') /\ scope' \in Scope
    BY <1>2 DEF CopyInv, ViewsBehind, TokenNamesState, CallShape, ReplayAnswered, MetricShape,
                MetricNamesFinal, RowsKeyed
  <1> QED
    BY <1>2, <1>3, <1>5, <1>6, Standing DEF CopyInv

\* A transaction that moves the row and the metric, and ends a stage change or none.
LEMMA PosterStep ==
  ASSUME CopyInv, Forward, metric' \in Metric, MetricShape', MetricNamesFinal',
         post' \in [Clients -> Post \cup {NoPost}],
         \A d \in Clients : post'[d] = post[d] \/ post'[d] = NoPost,
         UNCHANGED <<view, pending, did, scope>>
  PROVE  CopyInv'
  <1>1. CopyTypeOK' /\ scope' \in Scope
    BY DEF CopyInv, CopyTypeOK, Forward
  <1>2. ViewsBehind' /\ TokenNamesState' /\ ReplayAnswered' /\ CallShape'
    BY ForwardKeeps DEF CopyInv, ViewsBehind, TokenNamesState, ReplayAnswered, CallShape
  <1>3. PostShape'
    BY ForwardKeeps DEF PostShape
  <1> QED
    BY <1>1, <1>2, <1>3 DEF CopyInv, Forward

LEMMA StageCommitStep == ASSUME CopyInv, NEW c \in Clients, StageCommit(c) PROVE CopyInv' /\ Forward
  <1>1. /\ post[c] # NoPost /\ metric' = [post[c].seen EXCEPT !.stage = post[c].to]
        /\ post' = [post EXCEPT ![c] = NoPost] /\ UNCHANGED <<view, pending, did, scope>>
    BY DEF StageCommit
  <1>2. post[c].to \in {"published", "measured"} /\ post[c].seen \in Metric
    BY <1>1, PostTyped
  <1>3. metric' \in Metric /\ metric'.stage = post[c].to /\ metric'.version = post[c].seen.version
    BY <1>1, <1>2 DEF Metric, Stages
  <1>4. Forward /\ copy'.published # 0
    BY <1>1, <1>2, Published, Standing DEF StageCommit, CopyInv, PostShape
  <1>5. post[c].seen.version = copy'.finalized /\ copy'.finalized # 0 /\ copy'.published = copy'.finalized
    BY <1>1, <1>4, ForwardKeeps DEF Forward, Shape
  <1>6. MetricShape' /\ MetricNamesFinal'
    BY <1>3, <1>5 DEF MetricShape, MetricNamesFinal
  <1>7. /\ post' \in [Clients -> Post \cup {NoPost}]
        /\ \A d \in Clients : post'[d] = post[d] \/ post'[d] = NoPost
    BY <1>1 DEF CopyInv, CopyTypeOK
  <1> QED
    BY <1>1, <1>3, <1>4, <1>6, <1>7, PosterStep

LEMMA BackfillStep == ASSUME CopyInv, NEW c \in Clients, Backfill(c) PROVE CopyInv' /\ Forward
  <1>1. /\ copy.published # 0 /\ MarkMeasured
        /\ metric' = [stage |-> "measured", version |-> copy.published, data |-> TRUE]
        /\ UNCHANGED <<view, pending, did, post, scope>>
    BY DEF Backfill
  <1>2. Forward /\ copy'.published = copy.published /\ copy'.finalized = copy.published
    BY <1>1, Measured
  <1>3. copy.published \in Pointer
    BY StateTyped DEF CopyInv, CopyTypeOK
  <1>4. /\ metric' \in Metric /\ metric'.stage = "measured" /\ metric'.version = copy.published
    BY <1>1, <1>3 DEF Metric, Stages
  <1>5. MetricShape' /\ MetricNamesFinal'
    BY <1>1, <1>2, <1>4 DEF MetricShape, MetricNamesFinal
  <1> QED
    BY <1>1, <1>2, <1>4, <1>5, PosterStep DEF CopyInv, CopyTypeOK

LEMMA LifecycleStep == ASSUME CopyInv, CopyNext PROVE CopyInv' /\ Forward
  <1>1. ASSUME NEW c \in Clients, Asks(c) PROVE CopyInv' /\ Forward
    <2>1. PICK k \in Calls(view[c]) :
            WithinBounds(k) /\ (Answered(c, k) \/ AnswerLost(c, k) \/ RequestLost(c, k))
      BY <1>1 DEF Asks
    <2>2. k \in Call /\ Made(k)
      BY CallsMade DEF CopyInv, CopyTypeOK
    <2>3. ~did[c]
      BY <1>1 DEF Asks, CopyInv, CallShape
    <2> QED
      BY <2>1, <2>2, <2>3, AnsweredStep, AnswerLostStep, RequestLostStep
  <1>2. ASSUME NEW c \in Clients, Retries(c) PROVE CopyInv' /\ Forward
    <2>1. pending[c] \in Call /\ Made(pending[c]) /\ WithinBounds(pending[c])
      BY <1>2 DEF Retries, CopyInv, CopyTypeOK, CallShape, Made
    <2> QED
      BY <1>2, <2>1, AnsweredStep, AnswerLostStep DEF Retries
  <1> QED
    BY <1>1, <1>2, RefreshStep, StageReadStep, StageCommitStep, BackfillStep DEF CopyNext
-----------------------------------------------------------------------------
\* The index side.  The target is classified as the copy stands, or a row that will do so is
\* outstanding.
QualifiedOrOwed ==
  copy.target # 0 =>
    \/ \E key \in Unenriched : key[1] = copy.target
    \/ asset[copy.target] = IF copy.published # 0 THEN "published" ELSE "adopted"

SearchJob(w) == job[w] # NoJob /\ job[w].topic = "search"

\* A search row is worked on by one worker at most, and stays until that worker finishes;
\* the next classification of a version has a key no row has had.
JobRows ==
  \A w \in Workers : SearchJob(w) =>
    /\ job[w].row \in searchRows
    /\ \A x \in Workers \ {w} : SearchJob(x) => job[x].row # job[w].row
Generations == \A row \in searchRows : row[2] <= gen[row[1]]

\* The row will write the document again, or has written it and will look whether it is
\* still the current one.
Owed(row) ==
  \A w \in Workers : SearchJob(w) /\ job[w].row = row =>
    \/ job[w].step = "write"
    \/ job[w].step = "confirm" /\ job[w].desired = document
SearchOwed == document = Current \/ Unenriched # {} \/ \E row \in searchRows : Owed(row)

VectorsStored == \A v \in Versions : vectorRows[v] = "succeeded" => v \in vectors

KnowledgeInv ==
  /\ CopyInv /\ TypeOK
  /\ QualifiedOrOwed /\ VectorsStored
  /\ JobRows /\ Generations /\ SearchOwed
-----------------------------------------------------------------------------
LEMMA CurrentTyped ==
  ASSUME copy \in CopyState, NEW a \in [Versions -> Kinds \cup {"none", "rejected"}]
  PROVE  CurrentIn(a) \in Document
  <1>1. copy.target # 0 => copy.target \in Versions
    BY StateTyped, GCBounds DEF Pointer, Versions
  <1> QED
    BY <1>1 DEF CurrentIn, Document

LEMMA KnowledgeInitial == Init => KnowledgeInv
  <1> SUFFICES ASSUME Init PROVE KnowledgeInv
    OBVIOUS
  <1>1. CopyInv /\ copy.target = 0
    BY CopyInitial, SavedTyped DEF Init, CopyInit, CopyInv
  <1>2. TypeOK
    BY <1>1 DEF Init, CopyInv, TypeOK, Document, Kinds
  <1>3. document = Current
    BY <1>1 DEF Init, Current, CurrentIn
  <1>4. JobRows /\ Generations /\ VectorsStored
    BY DEF Init, JobRows, SearchJob, Generations, VectorsStored
  <1> QED
    BY <1>1, <1>2, <1>3, <1>4 DEF KnowledgeInv, QualifiedOrOwed, SearchOwed

\* A step of a worker leaves the lifecycle alone.
Quiet == scope' \in Scope /\ UNCHANGED <<copy, view, pending, did, metric, post, queued>>

LEMMA QuietKeeps == ASSUME CopyInv, Quiet PROVE CopyInv' /\ CopyTypeOK'
  BY DEF Quiet, CopyInv, CopyTypeOK, Shape, ViewsBehind, TokenNamesState, CallShape, ReplayAnswered,
         MetricShape, PostShape, MetricNamesFinal, RowsKeyed, Replays, SameRequest

LEMMA FaultTyped == ASSUME scope \in Scope, Fault PROVE scope' \in Scope
  BY DEF Fault, Scope
\* A lifecycle transaction that changes the target or publishes it writes a row.
LEMMA LifecycleKeeps ==
  ASSUME KnowledgeInv, Lifecycle
  PROVE  KnowledgeInv' /\ Forward
  <1>1. CopyInv' /\ Forward /\ UNCHANGED indexVars
    BY LifecycleStep DEF Lifecycle, KnowledgeInv
  <1>2. TypeOK'
    BY <1>1 DEF KnowledgeInv, CopyInv, TypeOK, indexVars, Forward
  <1>3. Unenriched \subseteq Unenriched'
    BY <1>1 DEF Unenriched, Forward, indexVars
  <1>4. CASE \E key \in queued' \ queued : key[1] = copy'.target
    <2>1. \E key \in Unenriched' : key[1] = copy'.target
      BY <1>1, <1>4 DEF Unenriched, indexVars, KnowledgeInv, TypeOK
    <2>2. QualifiedOrOwed' /\ SearchOwed'
      BY <2>1 DEF QualifiedOrOwed, SearchOwed
    <2> QED
      BY <1>1, <1>2, <2>2
         DEF KnowledgeInv, indexVars, VectorsStored, JobRows, SearchJob, Generations
  <1>5. CASE copy'.target = copy.target /\ (copy'.published # 0 <=> copy.published # 0)
    <2>1. Current' = Current
      BY <1>1, <1>5 DEF Current, CurrentIn, indexVars
    <2>2. QualifiedOrOwed'
      BY <1>1, <1>3, <1>5 DEF QualifiedOrOwed, KnowledgeInv, indexVars
    <2>3. SearchOwed'
      BY <1>1, <1>3, <2>1 DEF SearchOwed, Owed, SearchJob, KnowledgeInv, indexVars
    <2> QED
      BY <1>1, <1>2, <2>2, <2>3
         DEF KnowledgeInv, indexVars, VectorsStored, JobRows, SearchJob, Generations
  <1> QED
    BY <1>1, <1>4, <1>5 DEF Forward

\* Classifying a version gives it the classification the copy calls for, and a search row
\* that no worker holds.
LEMMA EnrichKeeps ==
  ASSUME KnowledgeInv, NEW w \in Workers, Enrich(w)
  PROVE  KnowledgeInv' /\ Quiet
  <1>1. PICK key \in Unenriched :
          /\ Classify(key[1])
          /\ \/ Calm /\ enriched' = enriched \cup {key}
             \/ Fault /\ UNCHANGED enriched
    BY DEF Enrich
  <1>2. UNCHANGED <<copy, view, pending, did, metric, post, queued, document, edges, vectors, job>>
    BY DEF Enrich
  <1>3. Quiet /\ CopyInv' /\ CopyTypeOK'
    BY <1>1, <1>2, FaultTyped, QuietKeeps DEF Quiet, Calm, KnowledgeInv, CopyInv
  <1> DEFINE v == key[1]
  <1>4. v \in Versions /\ key \in queued
    BY <1>1 DEF Unenriched, KnowledgeInv, CopyInv, CopyTypeOK
  <1>5. enriched' \subseteq queued /\ Unenriched \ {key} \subseteq Unenriched'
    BY <1>1, <1>2, <1>4 DEF Unenriched, KnowledgeInv, TypeOK
  <1>6. /\ asset' = [asset EXCEPT ![v] = Decision(v)] /\ gen' = [gen EXCEPT ![v] = @ + 1]
        /\ searchRows' = searchRows \cup {<<v, gen[v] + 1>>}
        /\ graphRows' = [graphRows EXCEPT ![<<v, "knowledge">>] = Once(@)]
        /\ \/ vectorRows' = [vectorRows EXCEPT ![v] = Once(@)]
           \/ vectorRows' = vectorRows
    BY <1>1 DEF Classify, SearchKey
  <1> HIDE DEF v
  <1>7. Decision(v) \in Kinds \cup {"rejected"}
    BY DEF Decision, Kinds
  <1>8. TypeOK'
    <2>1. /\ asset' \in [Versions -> Kinds \cup {"none", "rejected"}]
          /\ gen' \in [Versions -> Nat] /\ searchRows' \subseteq Versions \X Nat
      BY <1>4, <1>6, <1>7 DEF KnowledgeInv, TypeOK
    <2>2. graphRows' \in [Versions \X Origins -> {"none", "pending", "done"}]
      BY <1>4, <1>6 DEF KnowledgeInv, TypeOK, Once
    <2>3. vectorRows' \in [Versions -> {"none", "pending", "superseded", "succeeded"}]
      BY <1>4, <1>6 DEF KnowledgeInv, TypeOK, Once
    <2> QED
      BY <1>2, <1>3, <1>5, <2>1, <2>2, <2>3 DEF Quiet, KnowledgeInv, TypeOK
  <1>9. QualifiedOrOwed'
    <2> SUFFICES ASSUME copy.target # 0
                 PROVE  \/ \E k \in Unenriched' : k[1] = copy.target
                        \/ asset'[copy.target] = IF copy.published # 0 THEN "published" ELSE "adopted"
      BY <1>2 DEF QualifiedOrOwed
    <2>1. CASE v = copy.target
      <3>1. asset'[v] = Decision(v)
        BY <1>4, <1>6 DEF KnowledgeInv, TypeOK
      <3>2. Decision(v) = IF copy.published # 0 THEN "published" ELSE "adopted"
        BY <2>1 DEF Decision, KnowledgeInv, CopyInv, Shape
      <3> QED
        BY <2>1, <3>1, <3>2
    <2>2. CASE v # copy.target
      <3>1. copy.target \in Versions
        BY StateTyped, GCBounds DEF KnowledgeInv, CopyInv, CopyTypeOK, Pointer, Versions
      <3>2. asset'[copy.target] = asset[copy.target]
        BY <1>6, <2>2, <3>1 DEF KnowledgeInv, TypeOK
      <3>3. \A k \in Unenriched : k[1] = copy.target => k \in Unenriched'
        BY <1>5, <2>2 DEF v
      <3> QED
        BY <3>2, <3>3 DEF KnowledgeInv, QualifiedOrOwed
    <2> QED
      BY <2>1, <2>2
  <1>a. VectorsStored'
    BY <1>2, <1>4, <1>6 DEF KnowledgeInv, TypeOK, VectorsStored, Once
  <1>b. Generations' /\ <<v, gen[v] + 1>> \notin searchRows
    <2>1. gen[v] \in Nat /\ gen'[v] = gen[v] + 1 /\ \A u \in Versions \ {v} : gen'[u] = gen[u]
      BY <1>4, <1>6 DEF KnowledgeInv, TypeOK
    <2>2. \A row \in searchRows : row[1] \in Versions /\ row[2] \in Nat /\ row[2] <= gen[row[1]]
      BY DEF KnowledgeInv, TypeOK, Generations
    <2>3. \A row \in searchRows : row[2] <= gen'[row[1]]
      BY <2>1, <2>2
    <2> QED
      BY <1>4, <1>6, <2>1, <2>2, <2>3 DEF Generations
  <1>c. JobRows'
    BY <1>2, <1>6 DEF KnowledgeInv, JobRows, SearchJob
  <1>d. SearchOwed'
    <2>1. \A x \in Workers : SearchJob(x) => job[x].row # <<v, gen[v] + 1>>
      BY <1>b DEF KnowledgeInv, JobRows
    <2>2. <<v, gen[v] + 1>> \in searchRows'
      BY <1>6
    <2> DEFINE new == <<v, gen[v] + 1>>
    <2> HIDE DEF new
    <2>3. \A x \in Workers : SearchJob(x)' => job'[x].row # new
      BY <1>2, <2>1 DEF new, SearchJob
    <2>4. new \in searchRows'
      BY <2>2 DEF new
    <2> QED
      BY <1>2, <2>3, <2>4 DEF SearchOwed, Owed, SearchJob
  <1> QED
    BY <1>3, <1>8, <1>9, <1>a, <1>b, <1>c, <1>d DEF KnowledgeInv
\* What does not touch the classification, the search rows, the search jobs or the document
\* leaves the search side as it was; the graph and the vectors are such steps.
LEMMA AsideKeeps ==
  ASSUME KnowledgeInv, Quiet, TypeOK', VectorsStored',
         UNCHANGED <<enriched, asset, gen, searchRows, document>>,
         \A w \in Workers : SearchJob(w)' => SearchJob(w) /\ job'[w] = job[w]
  PROVE  KnowledgeInv'
  <1>1. CopyInv'
    BY QuietKeeps DEF KnowledgeInv
  <1>2. Unenriched' = Unenriched /\ Current' = Current
    BY DEF Quiet, Unenriched, Current, CurrentIn
  <1>3. QualifiedOrOwed' /\ Generations'
    BY <1>2 DEF Quiet, KnowledgeInv, QualifiedOrOwed, Generations
  <1>4. JobRows'
    BY DEF KnowledgeInv, JobRows, SearchJob
  <1>5. SearchOwed'
    BY <1>2 DEF KnowledgeInv, SearchOwed, Owed, SearchJob
  <1> QED
    BY <1>1, <1>3, <1>4, <1>5 DEF KnowledgeInv

\* The three steps of a search job that only move the job.
LEMMA TakeKeeps == ASSUME KnowledgeInv, NEW w \in Workers, SearchTake(w) PROVE KnowledgeInv' /\ Quiet
  <1>1. PICK row \in searchRows \ Held("search") :
          job' = [job EXCEPT ![w] = [topic |-> "search", row |-> row, desired |-> Current,
                                     pass |-> 1, step |-> "write"]]
    BY DEF SearchTake
  <1>2. /\ UNCHANGED <<copyVars, enriched, asset, gen, searchRows, document, graphRows,
                       edges, vectorRows, vectors>>
        /\ job[w] = NoJob
    BY DEF SearchTake, Runs
  <1> DEFINE j == [topic |-> "search", row |-> row, desired |-> Current, pass |-> 1, step |-> "write"]
  <1>3. Quiet /\ CopyInv' /\ CopyTypeOK'
    BY <1>2, QuietKeeps DEF Quiet, copyVars, KnowledgeInv, CopyInv
  <1>4. Current \in Document /\ row \in Versions \X Nat /\ row \in searchRows
    BY <1>1, CurrentTyped DEF Current, KnowledgeInv, CopyInv, CopyTypeOK, TypeOK
  <1>5. j \in Job
    BY <1>4, KIPasses DEF Job
  <1>6. /\ j.topic = "search" /\ j.row = row /\ j.step = "write"
        /\ \A x \in Workers : SearchJob(x) => job[x].row # row
    BY <1>1 DEF Held, SearchJob
  <1> HIDE DEF j
  <1>7. job'[w] = j /\ (\A x \in Workers \ {w} : job'[x] = job[x]) /\ job' \in [Workers -> Job \cup {NoJob}]
    BY <1>1, <1>5 DEF j, KnowledgeInv, TypeOK
  <1>8. TypeOK'
    BY <1>2, <1>3, <1>7 DEF KnowledgeInv, TypeOK, copyVars
  <1>9. Unenriched' = Unenriched /\ Current' = Current
    BY <1>2 DEF Unenriched, Current, CurrentIn, copyVars
  <1>a. QualifiedOrOwed' /\ Generations' /\ VectorsStored'
    BY <1>2, <1>9 DEF KnowledgeInv, QualifiedOrOwed, Generations, VectorsStored, copyVars
  <1>b. JobRows'
    BY <1>2, <1>4, <1>6, <1>7 DEF KnowledgeInv, JobRows, SearchJob
  <1>c. SearchOwed'
    BY <1>2, <1>6, <1>7, <1>9 DEF KnowledgeInv, SearchOwed, Owed, SearchJob
  <1> QED
    BY <1>3, <1>8, <1>a, <1>b, <1>c DEF KnowledgeInv

\* The row of the job that writes is owed a second look at what it wrote.
LEMMA WriteKeeps == ASSUME KnowledgeInv, NEW w \in Workers, SearchWrite(w) PROVE KnowledgeInv' /\ Quiet
  <1>1. /\ SearchJob(w) /\ job[w].step = "write" /\ document' = job[w].desired
        /\ job' = [job EXCEPT ![w].step = "confirm"]
        /\ UNCHANGED <<copyVars, enriched, asset, gen, searchRows, graphRows, edges, vectorRows, vectors>>
    BY DEF SearchWrite, SearchJob
  <1> DEFINE j == [job[w] EXCEPT !.step = "confirm"]
  <1>2. job[w] \in Job /\ job[w].topic = "search"
    BY <1>1 DEF KnowledgeInv, TypeOK, SearchJob
  <1>3. /\ j \in Job /\ j.topic = "search" /\ j.row = job[w].row /\ j.step = "confirm"
        /\ j.desired = job[w].desired /\ job[w].desired \in Document
    BY <1>2 DEF Job
  <1>4. Quiet /\ CopyInv' /\ CopyTypeOK'
    BY <1>1, QuietKeeps DEF Quiet, copyVars, KnowledgeInv, CopyInv
  <1> HIDE DEF j
  <1>5. job'[w] = j /\ (\A x \in Workers \ {w} : job'[x] = job[x]) /\ job' \in [Workers -> Job \cup {NoJob}]
    BY <1>1, <1>3 DEF j, KnowledgeInv, TypeOK
  <1>6. TypeOK'
    BY <1>1, <1>3, <1>4, <1>5 DEF KnowledgeInv, TypeOK, copyVars
  <1>7. QualifiedOrOwed' /\ Generations' /\ VectorsStored'
    BY <1>1 DEF KnowledgeInv, QualifiedOrOwed, Generations, VectorsStored, copyVars, Unenriched
  <1>8. JobRows'
    BY <1>1, <1>3, <1>5 DEF KnowledgeInv, JobRows, SearchJob
  <1>9. job[w].row \in searchRows' /\ \A x \in Workers \ {w} : SearchJob(x) => job[x].row # job[w].row
    BY <1>1 DEF KnowledgeInv, JobRows
  <1>a. \A x \in Workers : SearchJob(x)' /\ job'[x].row = job[w].row
                          => job'[x].step = "confirm" /\ job'[x].desired = document'
    BY <1>1, <1>3, <1>5, <1>9 DEF SearchJob
  <1>b. SearchOwed'
    BY <1>9, <1>a DEF SearchOwed, Owed, SearchJob
  <1> QED
    BY <1>4, <1>6, <1>7, <1>8, <1>b DEF KnowledgeInv

\* A row whose job found the document outdated writes again or waits for a worker; one whose
\* job found it current has settled it.
LEMMA ConfirmKeeps == ASSUME KnowledgeInv, NEW w \in Workers, SearchConfirm(w) PROVE KnowledgeInv' /\ Quiet
  <1>1. /\ SearchJob(w) /\ job[w].step = "confirm"
        /\ UNCHANGED <<copyVars, enriched, asset, gen, searchRows, document, graphRows, edges,
                       vectorRows, vectors>>
    BY DEF SearchConfirm, SearchJob
  <1>2. job[w] \in Job /\ job[w].topic = "search"
    BY <1>1 DEF KnowledgeInv, TypeOK, SearchJob
  <1>3. Quiet /\ CopyInv' /\ CopyTypeOK'
    BY <1>1, QuietKeeps DEF Quiet, copyVars, KnowledgeInv, CopyInv
  <1>4. Current \in Document
    BY CurrentTyped DEF Current, KnowledgeInv, CopyInv, CopyTypeOK, TypeOK
  <1>5. \E j \in Job \cup {NoJob} :
          /\ job' = [job EXCEPT ![w] = j]
          /\ \/ j = NoJob
             \/ j.topic = "search" /\ j.row = job[w].row /\ j.step = "write"
             \/ /\ j.topic = "search" /\ j.row = job[w].row /\ j.step = "finish"
                /\ job[w].desired = Current
    <2>1. CASE Stable(job[w].desired) /\ job' = [job EXCEPT ![w].step = "finish"]
      <3>1. /\ [job[w] EXCEPT !.step = "finish"] \in Job
            /\ [job[w] EXCEPT !.step = "finish"].topic = "search"
            /\ [job[w] EXCEPT !.step = "finish"].row = job[w].row
            /\ [job[w] EXCEPT !.step = "finish"].step = "finish"
        BY <1>2 DEF Job
      <3> QED
        BY <2>1, <3>1 DEF Stable
    <2>2. CASE /\ MorePasses(job[w])
               /\ job' = [job EXCEPT ![w] = [job[w] EXCEPT !.desired = Current, !.pass = @ + 1,
                                                          !.step = "write"]]
      <3> DEFINE n == [job[w] EXCEPT !.desired = Current, !.pass = @ + 1, !.step = "write"]
      <3>1. job[w].pass + 1 \in 1 .. MaxPasses
        BY <1>2, <2>2, KIPasses DEF Job, MorePasses
      <3>2. n \in Job /\ n.topic = "search" /\ n.row = job[w].row /\ n.step = "write"
        BY <1>2, <1>4, <3>1 DEF Job
      <3> QED
        BY <2>2, <3>2
    <2>3. CASE job' = [job EXCEPT ![w] = NoJob]
      BY <2>3
    <2> QED
      BY <2>1, <2>2, <2>3 DEF SearchConfirm
  <1>6. PICK j \in Job \cup {NoJob} :
          /\ job' = [job EXCEPT ![w] = j]
          /\ \/ j = NoJob
             \/ j.topic = "search" /\ j.row = job[w].row /\ j.step = "write"
             \/ /\ j.topic = "search" /\ j.row = job[w].row /\ j.step = "finish"
                /\ job[w].desired = Current
    BY <1>5
  <1>7. job'[w] = j /\ (\A x \in Workers \ {w} : job'[x] = job[x]) /\ job' \in [Workers -> Job \cup {NoJob}]
    BY <1>6 DEF KnowledgeInv, TypeOK
  <1>8. TypeOK'
    BY <1>1, <1>3, <1>7 DEF KnowledgeInv, TypeOK, copyVars
  <1>9. Unenriched' = Unenriched /\ Current' = Current
    BY <1>1 DEF Unenriched, Current, CurrentIn, copyVars
  <1>a. QualifiedOrOwed' /\ Generations' /\ VectorsStored'
    BY <1>1, <1>9 DEF KnowledgeInv, QualifiedOrOwed, Generations, VectorsStored, copyVars
  <1>b. JobRows'
    BY <1>1, <1>6, <1>7 DEF KnowledgeInv, JobRows, SearchJob
  <1>c. SearchOwed'
    <2>1. CASE document = Current \/ Unenriched # {}
      BY <1>1, <1>9, <2>1 DEF SearchOwed
    <2>2. CASE document # Current /\ Unenriched = {}
      <3>1. PICK row \in searchRows : Owed(row)
        BY <2>2 DEF KnowledgeInv, SearchOwed
      <3>2. \A x \in Workers : SearchJob(x)' /\ job'[x].row = row
                              => \/ job'[x].step = "write"
                                 \/ job'[x].step = "confirm" /\ job'[x].desired = document
        BY <1>1, <1>6, <1>7, <2>2, <3>1 DEF Owed, SearchJob
      <3> QED
        BY <1>1, <3>2 DEF SearchOwed, Owed, SearchJob
    <2> QED
      BY <2>1, <2>2
  <1> QED
    BY <1>3, <1>8, <1>a, <1>b, <1>c DEF KnowledgeInv

\* The row that ends is not one that is owed a write.
LEMMA FinishKeeps == ASSUME KnowledgeInv, NEW w \in Workers, SearchFinish(w) PROVE KnowledgeInv' /\ Quiet
  <1>1. /\ SearchJob(w) /\ job[w].step = "finish"
        /\ searchRows' = searchRows \ {job[w].row} /\ job' = [job EXCEPT ![w] = NoJob]
        /\ UNCHANGED <<copyVars, enriched, asset, gen, document, graphRows, edges, vectorRows, vectors>>
    BY DEF SearchFinish, SearchJob
  <1>2. Quiet /\ CopyInv' /\ CopyTypeOK'
    BY <1>1, QuietKeeps DEF Quiet, copyVars, KnowledgeInv, CopyInv
  <1>3. job'[w] = NoJob /\ (\A x \in Workers \ {w} : job'[x] = job[x]) /\ job' \in [Workers -> Job \cup {NoJob}]
    BY <1>1 DEF KnowledgeInv, TypeOK
  <1>4. TypeOK'
    BY <1>1, <1>2, <1>3 DEF KnowledgeInv, TypeOK, copyVars
  <1>5. Unenriched' = Unenriched /\ Current' = Current
    BY <1>1 DEF Unenriched, Current, CurrentIn, copyVars
  <1>6. QualifiedOrOwed' /\ Generations' /\ VectorsStored'
    BY <1>1, <1>5 DEF KnowledgeInv, QualifiedOrOwed, Generations, VectorsStored, copyVars
  <1>7. JobRows'
    BY <1>1, <1>3 DEF KnowledgeInv, JobRows, SearchJob
  <1>8. ~Owed(job[w].row)
    BY <1>1 DEF Owed
  <1>9. \A row \in searchRows : Owed(row) => row \in searchRows' /\ Owed(row)'
    BY <1>1, <1>3, <1>8 DEF Owed, SearchJob
  <1>a. SearchOwed'
    BY <1>1, <1>5, <1>9 DEF KnowledgeInv, SearchOwed
  <1> QED
    BY <1>2, <1>4, <1>6, <1>7, <1>a DEF KnowledgeInv
LEMMA GraphKeeps ==
  ASSUME KnowledgeInv, NEW w \in Workers, GraphTake(w) \/ GraphMerge(w)
  PROVE  KnowledgeInv' /\ Quiet
  <1>1. Quiet /\ UNCHANGED <<enriched, asset, gen, searchRows, document, vectorRows, vectors>>
    BY DEF GraphTake, GraphMerge, Quiet, copyVars, KnowledgeInv, CopyInv
  <1>2. CopyTypeOK'
    BY <1>1, QuietKeeps DEF KnowledgeInv
  <1>3. /\ graphRows' \in [Versions \X Origins -> {"none", "pending", "done"}]
        /\ edges' \subseteq Versions /\ job' \in [Workers -> Job \cup {NoJob}]
        /\ \A x \in Workers : SearchJob(x)' => SearchJob(x) /\ job'[x] = job[x]
    <2>1. CASE GraphTake(w)
      <3>1. PICK row \in Versions \X Origins :
              \/ /\ job' = [job EXCEPT ![w] = [topic |-> "graph", row |-> row]] /\ UNCHANGED graphRows
              \/ graphRows' = [graphRows EXCEPT ![row] = "done"] /\ UNCHANGED job
        BY <2>1 DEF GraphTake, KnowledgeInv, TypeOK
      <3>2. [topic |-> "graph", row |-> row] \in Job
        BY DEF Job
      <3> QED
        BY <2>1, <3>1, <3>2 DEF GraphTake, KnowledgeInv, TypeOK, SearchJob
    <2>2. CASE GraphMerge(w)
      <3>1. job[w] \in Job /\ job[w].topic = "graph"
        BY <2>2 DEF GraphMerge, KnowledgeInv, TypeOK
      <3>2. job[w].row \in Versions \X Origins
        BY <3>1 DEF Job
      <3> QED
        BY <2>2, <3>1, <3>2 DEF GraphMerge, KnowledgeInv, TypeOK, SearchJob
    <2> QED
      BY <2>1, <2>2
  <1>4. TypeOK' /\ VectorsStored'
    BY <1>1, <1>2, <1>3 DEF Quiet, KnowledgeInv, TypeOK, VectorsStored
  <1> QED
    BY <1>1, <1>3, <1>4, AsideKeeps

\* A vector row succeeds in the transaction that stored the vectors.
LEMMA VectorKeeps ==
  ASSUME KnowledgeInv, NEW w \in Workers, VectorTake(w) \/ VectorStore(w)
  PROVE  KnowledgeInv' /\ Quiet
  <1>1. Quiet /\ UNCHANGED <<enriched, asset, gen, searchRows, document, graphRows, edges>>
    BY FaultTyped DEF VectorTake, VectorStore, Quiet, copyVars, Calm, KnowledgeInv, CopyInv
  <1>2. CopyTypeOK'
    BY <1>1, QuietKeeps DEF KnowledgeInv
  <1>3. /\ vectorRows' \in [Versions -> {"none", "pending", "superseded", "succeeded"}]
        /\ vectors' \subseteq Versions /\ job' \in [Workers -> Job \cup {NoJob}]
        /\ VectorsStored'
        /\ \A x \in Workers : SearchJob(x)' => SearchJob(x) /\ job'[x] = job[x]
    <2>1. CASE VectorTake(w)
      <3>1. PICK v \in Versions :
              \/ /\ job' = [job EXCEPT ![w] = [topic |-> "vector", row |-> v]] /\ UNCHANGED vectorRows
              \/ vectorRows' = [vectorRows EXCEPT ![v] = "superseded"] /\ UNCHANGED job
        BY <2>1 DEF VectorTake
      <3>2. [topic |-> "vector", row |-> v] \in Job
        BY DEF Job
      <3> QED
        BY <2>1, <3>1, <3>2 DEF VectorTake, KnowledgeInv, TypeOK, SearchJob, VectorsStored
    <2>2. CASE VectorStore(w)
      <3>1. job[w] \in Job /\ job[w].topic = "vector" /\ job' = [job EXCEPT ![w] = NoJob]
        BY <2>2 DEF VectorStore, KnowledgeInv, TypeOK
      <3>2. job[w].row \in Versions
        BY <3>1 DEF Job
      <3>3. /\ vectors' = IF IsCurrent(job[w].row) THEN vectors \cup {job[w].row} ELSE vectors
            /\ \/ vectorRows' = [vectorRows EXCEPT ![job[w].row] = VectorResult(job[w].row)]
               \/ vectorRows' = vectorRows
        BY <2>2 DEF VectorStore
      <3>4. job' \in [Workers -> Job \cup {NoJob}]
            /\ \A x \in Workers : SearchJob(x)' => SearchJob(x) /\ job'[x] = job[x]
        BY <3>1 DEF KnowledgeInv, TypeOK, SearchJob
      <3> DEFINE v == job[w].row
      <3>5. v \in Versions /\ VectorResult(v) \in {"succeeded", "superseded"}
            /\ (VectorResult(v) = "succeeded" => v \in vectors')
            /\ vectors \subseteq vectors' /\ vectors' \subseteq vectors \cup {v}
        BY <3>2, <3>3 DEF VectorResult
      <3>6. vectorRows' = [vectorRows EXCEPT ![v] = VectorResult(v)] \/ vectorRows' = vectorRows
        BY <3>3
      <3> HIDE DEF v
      <3> QED
        BY <3>4, <3>5, <3>6 DEF KnowledgeInv, TypeOK, VectorsStored
    <2> QED
      BY <2>1, <2>2
  <1>4. TypeOK'
    BY <1>1, <1>2, <1>3 DEF Quiet, KnowledgeInv, TypeOK
  <1> QED
    BY <1>1, <1>3, <1>4, AsideKeeps

LEMMA ReconcileKeeps == ASSUME KnowledgeInv, Reconcile PROVE KnowledgeInv' /\ Quiet
  <1>1. /\ Quiet /\ UNCHANGED <<enriched, asset, gen, searchRows, document, graphRows, edges, vectors, job>>
        /\ vectorRows' = [vectorRows EXCEPT ![Current.version] = Ensured(@)]
    BY DEF Reconcile, Quiet, copyVars, KnowledgeInv, CopyInv
  <1>2. CopyTypeOK'
    BY <1>1, QuietKeeps DEF KnowledgeInv
  <1>3. /\ vectorRows' \in [Versions -> {"none", "pending", "superseded", "succeeded"}]
        /\ VectorsStored'
    BY <1>1 DEF Ensured, KnowledgeInv, TypeOK, VectorsStored
  <1>4. TypeOK'
    BY <1>1, <1>2, <1>3 DEF Quiet, KnowledgeInv, TypeOK
  <1> QED
    BY <1>1, <1>3, <1>4, AsideKeeps DEF SearchJob

LEMMA DiesKeeps == ASSUME KnowledgeInv, NEW w \in Workers, Dies(w) PROVE KnowledgeInv' /\ Quiet
  <1>1. /\ Quiet /\ UNCHANGED <<enriched, asset, gen, searchRows, document, graphRows, edges,
                               vectorRows, vectors>>
        /\ job' = [job EXCEPT ![w] = NoJob]
    BY FaultTyped DEF Dies, Quiet, KnowledgeInv, CopyInv
  <1>2. CopyTypeOK'
    BY <1>1, QuietKeeps DEF KnowledgeInv
  <1>3. /\ job' \in [Workers -> Job \cup {NoJob}]
        /\ \A x \in Workers : SearchJob(x)' => SearchJob(x) /\ job'[x] = job[x]
    BY <1>1 DEF KnowledgeInv, TypeOK, SearchJob
  <1>4. TypeOK' /\ VectorsStored'
    BY <1>1, <1>2, <1>3 DEF Quiet, KnowledgeInv, TypeOK, VectorsStored
  <1> QED
    BY <1>1, <1>3, <1>4, AsideKeeps
-----------------------------------------------------------------------------
LEMMA KnowledgeStep == KnowledgeInv /\ [Next]_vars => KnowledgeInv' /\ (Forward \/ UNCHANGED copy)
  <1> SUFFICES ASSUME KnowledgeInv, [Next]_vars PROVE KnowledgeInv' /\ (Forward \/ UNCHANGED copy)
    OBVIOUS
  <1>1. CASE Lifecycle
    BY <1>1, LifecycleKeeps
  <1>2. CASE Reconcile
    BY <1>2, ReconcileKeeps DEF Quiet
  <1>3. ASSUME NEW w \in Workers, Work(w) \/ Dies(w) PROVE KnowledgeInv' /\ Quiet
    BY <1>3, EnrichKeeps, TakeKeeps, WriteKeeps, ConfirmKeeps, FinishKeeps, GraphKeeps, VectorKeeps,
       DiesKeeps DEF Work
  <1>4. CASE UNCHANGED vars
    <2>1. Quiet
      BY <1>4 DEF vars, copyVars, Quiet, KnowledgeInv, CopyInv
    <2>2. UNCHANGED indexVars
      BY <1>4 DEF vars
    <2>3. TypeOK' /\ VectorsStored'
      BY <2>1, <2>2, QuietKeeps DEF Quiet, KnowledgeInv, TypeOK, VectorsStored, indexVars
    <2> QED
      BY <2>1, <2>2, <2>3, AsideKeeps DEF indexVars, SearchJob, Quiet
  <1> QED
    BY <1>1, <1>2, <1>3, <1>4 DEF Next, Quiet

LEMMA KnowledgeInvariant == Spec => []KnowledgeInv
  <1>1. KnowledgeInv /\ [Next]_vars => KnowledgeInv'
    BY KnowledgeStep
  <1> QED
    BY KnowledgeInitial, <1>1, PTL DEF Spec

\* Every state of a copy, its tabs and its index rows, jobs and documents is of its type,
\* whatever tabs, workers, versions and lost messages there are.
THEOREM KnowledgeTypeCorrect == Spec => []TypeOK
  <1>1. KnowledgeInv => TypeOK
    BY DEF KnowledgeInv
  <1> QED
    BY KnowledgeInvariant, <1>1, PTL

\* The optimistic token of the lifecycle stands for the whole row: a tab whose token the
\* server accepts has seen the row as it is.
THEOREM TokenIsState == Spec => []TokenNamesState
  <1>1. KnowledgeInv => TokenNamesState
    BY DEF KnowledgeInv, CopyInv
  <1> QED
    BY KnowledgeInvariant, <1>1, PTL

\* However often a tab repeats a call whose answer was lost, the call takes effect once, and
\* the repetition of a finalization is told of its success ever after.
THEOREM RetriesAreSafe == Spec => []RetrySafe
  <1>1. ASSUME KnowledgeInv PROVE RetrySafe
    <2>1. ReplayAnswered
      BY <1>1 DEF KnowledgeInv, CopyInv
    <2>2. NeverTwice
      <3> SUFFICES ASSUME NEW c \in Clients, did[c] PROVE pending[c].token # copy.sv
        BY DEF NeverTwice, Accepts
      <3>1. pending[c] \in Call /\ pending[c].token < copy.sv
        BY <1>1 DEF KnowledgeInv, CopyInv, CopyTypeOK, CallShape
      <3>2. pending[c].token \in Nat /\ copy.sv \in Nat
        BY <1>1, <3>1, StateTyped, GCBounds DEF Call, KnowledgeInv, CopyInv, CopyTypeOK
      <3> QED
        BY <3>1, <3>2
    <2> QED
      BY <2>1, <2>2 DEF RetrySafe
  <1> QED
    BY KnowledgeInvariant, <1>1, PTL

\* Nothing moves a pointer of a finalized copy or appends a version to it, and a publication
\* is never taken back.
THEOREM FinalStaysFinal == Spec => FinalFrozen
  <1> DEFINE Final == copy.finalized # 0 =>
               /\ copy'.finalized = copy.finalized /\ copy'.selected = copy.selected
               /\ copy'.adopted = copy.adopted /\ copy'.target = copy.target
               /\ copy'.latest = copy.latest
               /\ copy.published # 0 => copy'.published = copy.published
  <1>1. KnowledgeInv /\ [Next]_vars => [Final]_copyVars
    BY KnowledgeStep DEF Forward
  <1> QED
    BY KnowledgeInvariant, <1>1, PTL DEF Spec, FinalFrozen

\* The performance metric is of the version that was finalized, and shows it published only
\* when the lifecycle has published exactly that version.
THEOREM MetricIsOfFinal == Spec => []MetricNamesFinal
  <1>1. KnowledgeInv => MetricNamesFinal
    BY DEF KnowledgeInv, CopyInv
  <1> QED
    BY KnowledgeInvariant, <1>1, PTL

\* With no enrichment outstanding the target is classified as the copy stands, also a target
\* that was left and returned to.
THEOREM TargetIsQualified == Spec => []TargetQualified
  <1>1. ASSUME KnowledgeInv PROVE TargetQualified
    BY <1>1 DEF KnowledgeInv, QualifiedOrOwed, TargetQualified, Current, CurrentIn, Kinds
  <1> QED
    BY KnowledgeInvariant, <1>1, PTL

\* A vector row that succeeded stored its vectors, and the vectors the current version lacks
\* have a pending row after the next reconciliation.
THEOREM VectorsAreReachable == Spec => []VectorsReachable
  <1>1. ASSUME KnowledgeInv PROVE VectorsReachable
    BY <1>1 DEF KnowledgeInv, VectorsStored, VectorsReachable, TypeOK, Ensured
  <1> QED
    BY KnowledgeInvariant, <1>1, PTL

\* When the enrichment and search rows have run out, in whatever order the workers took,
\* lost and retook them, the keyword index holds the document PostgreSQL calls current.
THEOREM SearchSettles == Spec => []SearchSettled
  <1>1. KnowledgeInv => SearchSettled
    BY DEF KnowledgeInv, SearchOwed, SearchSettled
  <1> QED
    BY KnowledgeInvariant, <1>1, PTL
-----------------------------------------------------------------------------
\* The search rows as WorkLedger sees them: a row is owed until its result is recorded, and
\* claimed while a worker holds it.
SearchLedger ==
  INSTANCE WorkLedger WITH Items <- Versions \X Nat, owed <- searchRows,
                           claimed <- Held("search"), givenUp <- {}

LEMMA SearchRowsServed ==
  ASSUME KnowledgeInv', searchRows' = searchRows
  PROVE  SearchLedger!Next
  <1>1. Held("search")' \subseteq searchRows'
    BY DEF KnowledgeInv, JobRows, SearchJob, Held
  <1> QED
    BY <1>1 DEF SearchLedger!Next, SearchLedger!Serve

LEMMA SearchRowRequested ==
  ASSUME KnowledgeInv, NEW w \in Workers, Enrich(w)
  PROVE  SearchLedger!Next
  <1>1. PICK key \in Unenriched : Classify(key[1])
    BY DEF Enrich
  <1>2. PICK v \in Versions : v = key[1]
    BY <1>1 DEF Unenriched, KnowledgeInv, CopyInv, CopyTypeOK
  <1>3. PICK new \in Versions \X Nat : new = <<v, gen[v] + 1>>
    <2>1. gen[v] + 1 \in Nat
      BY <1>2 DEF KnowledgeInv, TypeOK
    <2> QED
      BY <2>1
  <1>4. searchRows' = searchRows \cup {new}
    BY <1>1, <1>2, <1>3 DEF Classify, SearchKey
  <1>5. new \notin searchRows
    <2>1. gen[v] \in Nat /\ \A row \in searchRows : row[2] <= gen[row[1]]
      BY DEF KnowledgeInv, TypeOK, Generations
    <2> QED
      BY <1>3, <2>1
  <1>6. Held("search")' = Held("search")
    BY DEF Enrich, Held
  <1>7. new \notin Held("search")
    BY <1>5 DEF KnowledgeInv, JobRows, SearchJob, Held
  <1>8. SearchLedger!Request({new})
    BY <1>4, <1>6, <1>7 DEF SearchLedger!Request
  <1> QED
    BY <1>8 DEF SearchLedger!Next

LEMMA SearchRowDischarged ==
  ASSUME KnowledgeInv, NEW w \in Workers, SearchFinish(w)
  PROVE  SearchLedger!Next
  <1>1. SearchJob(w) /\ searchRows' = searchRows \ {job[w].row} /\ job' = [job EXCEPT ![w] = NoJob]
    BY DEF SearchFinish, SearchJob
  <1>2. PICK row \in searchRows : row = job[w].row
    BY <1>1 DEF KnowledgeInv, JobRows
  <1>3. row \in Held("search") /\ row \in Versions \X Nat
    BY <1>1, <1>2 DEF SearchJob, Held, KnowledgeInv, TypeOK
  <1>4. Held("search")' \subseteq Held("search")
    BY <1>1 DEF Held, KnowledgeInv, TypeOK
  <1>5. SearchLedger!Discharge(row)
    BY <1>1, <1>2, <1>3, <1>4 DEF SearchLedger!Discharge
  <1> QED
    BY <1>3, <1>5 DEF SearchLedger!Next

\* What the index side takes of the outbox keeps the ledger's promises: no search row is
\* forgotten, and none is answered by a worker that held it before it was written.
THEOREM SearchRowsKeepLedger == Spec => SearchLedger!Spec
  <1>1. Init => SearchLedger!Init
    BY DEF Init, SearchLedger!Init, Held
  <1>2. KnowledgeInv /\ KnowledgeInv' /\ [Next]_vars => [SearchLedger!Next]_SearchLedger!vars
    <2> SUFFICES ASSUME KnowledgeInv, KnowledgeInv', [Next]_vars
                 PROVE  SearchLedger!Next \/ UNCHANGED SearchLedger!vars
      OBVIOUS
    <2>1. ASSUME NEW w \in Workers, Enrich(w) PROVE SearchLedger!Next
      BY <2>1, SearchRowRequested
    <2>2. ASSUME NEW w \in Workers, SearchFinish(w) PROVE SearchLedger!Next
      BY <2>2, SearchRowDischarged
    <2>3. \/ searchRows' = searchRows
          \/ \E w \in Workers : Enrich(w) \/ SearchFinish(w)
      BY DEF Next, Lifecycle, Reconcile, Work, Dies, SearchTake, SearchWrite, SearchConfirm,
             GraphTake, GraphMerge, VectorTake, VectorStore, indexVars, vars
    <2> QED
      BY <2>1, <2>2, <2>3, SearchRowsServed
  <1>3. KnowledgeInv /\ [Next]_vars => KnowledgeInv'
    BY KnowledgeStep
  <1> QED
    BY <1>1, <1>2, <1>3, KnowledgeInitial, PTL DEF Spec, SearchLedger!Spec
=============================================================================
