----------------------------- MODULE SearchProofs -----------------------------
(* What a model is shown and what is measured of it: Retrieval,              *)
(* RetrievalMetrics and RetrievalOutcomes, for any items, actors, runs,      *)
(* evidence, copies and limits.                                              *)
EXTENDS Retrieval, RetrievalMetrics, RetrievalOutcomes, FiniteSetTheorems, TLAPS

(* Retrieval: whatever a model is shown was knowledge, and open to the actor *)
(* it works for, since its run began.                                        *)

\* A run has begun once one of its calls has; the calls of a run share one history, and
\* there is none before.
HasBegun(c) == \E d \in Groundings : SameRun(c, d) /\ turn[d].status # "none"
ThreadBegun == \A c \in Groundings : thread[c].at # "idle" => turn[c].status # "none"
NoEarlyHistory == \A c \in Groundings : wasOpen[c] # {} => HasBegun(c)
SharedHistory == \A c, d \in Groundings : SameRun(c, d) => wasOpen[c] = wasOpen[d]

\* What passed a gate, and what is kept for a run, was open.
RowsWereOpen == \A c \in Groundings : thread[c].rows \subseteq wasOpen[c]
KeptWasOpen ==
  \A c \in Groundings : RunOf[c] # NoRunId /\ cached[CacheKey(c)] # None =>
    cached[CacheKey(c)] \subseteq wasOpen[c]

RetrievalInv ==
  /\ RetrievalTypeOK /\ ThreadBegun /\ NoEarlyHistory /\ SharedHistory
  /\ RowsWereOpen /\ KeptWasOpen /\ ShownWasOpen
-----------------------------------------------------------------------------
LEMMA GateKept == ASSUME UNCHANGED gateVars PROVE \A a : Gate(a)' = Gate(a)
  <1> USE DEF gateVars
  <1>1. BaseCurrent' = BaseCurrent
    BY DEF BaseCurrent
  <1>2. Current' = Current
    BY <1>1 DEF Current
  <1>3. \A a, i : Readable(a, i)' = Readable(a, i)
    BY DEF Readable
  <1> QED
    BY <1>2, <1>3 DEF Gate

LEMMA KeyInKeys == \A c \in Groundings : CacheKey(c) \in Keys
  BY DEF Keys

\* What a move of one retrieval and an answer to one agent come to.
LEMMA GotoMoves ==
  ASSUME RetrievalTypeOK, NEW c \in Groundings, NEW m \in Retrievals,
         thread' = [thread EXCEPT ![c] = m]
  PROVE  /\ thread' \in [Groundings -> Retrievals]
         /\ thread'[c] = m
         /\ \A d \in Groundings \ {c} : thread'[d] = thread[d]
  BY DEF RetrievalTypeOK

LEMMA Fields ==
  ASSUME RetrievalTypeOK, NEW c \in Groundings
  PROVE  /\ thread[c].hits \subseteq Identities /\ thread[c].rows \subseteq Identities
         /\ turn[c].evidence \subseteq Identities
         /\ RunOf[c] # NoRunId /\ cached[CacheKey(c)] # None => cached[CacheKey(c)] \subseteq Identities
  BY KeyInKeys DEF RetrievalTypeOK, Retrievals, Answers

LEMMA AnswerReaches ==
  ASSUME RetrievalTypeOK, NEW c \in Groundings, NEW a \in Answers,
         turn' = [turn EXCEPT ![c] = a]
  PROVE  /\ turn' \in [Groundings -> Answers]
         /\ turn'[c] = a
         /\ \A d \in Groundings \ {c} : turn'[d] = turn[d]
  BY DEF RetrievalTypeOK

LEMMA AnAnswer ==
  ASSUME NEW status \in {"waiting", "ready", "error"}, NEW E \in SUBSET Identities
  PROVE  /\ [status |-> status, evidence |-> E] \in Answers
         /\ [status |-> status, evidence |-> E].status = status
         /\ [status |-> status, evidence |-> E].evidence = E
  BY DEF Answers

\* One step of a call c, whichever: its retrieval takes rows that pass the gate, its agent
\* is shown rows or what is kept for the run, and only rows are kept.
Kept(c) == IF RunOf[c] # NoRunId /\ cached[CacheKey(c)] # None THEN cached[CacheKey(c)] ELSE {}
MoveOf(c) ==
  \E m \in Retrievals :
    /\ thread' = [thread EXCEPT ![c] = m]
    /\ m.rows \subseteq thread[c].rows \cup Gate(ActorOf[c])
    /\ m.at = "idle" => m = thread[c]
AnswerOf(c) ==
  \E a \in Answers :
    /\ turn' = [turn EXCEPT ![c] = a]
    /\ a.evidence \subseteq turn[c].evidence \cup thread[c].rows \cup Kept(c)
    /\ a.status # "none" \/ (a = turn[c] /\ thread[c].at # "idle")
KeepsFor(c) ==
  /\ cached' \in [Keys -> (SUBSET Identities) \cup {None}]
  /\ \A k \in Keys : \/ cached'[k] = cached[k]
                     \/ RunOf[c] # NoRunId /\ k = CacheKey(c) /\ cached'[k] \subseteq thread[c].rows
CallMoves(c) == MoveOf(c) /\ AnswerOf(c) /\ KeepsFor(c) /\ Here

LEMMA SameTurn == ASSUME RetrievalTypeOK, NEW c \in Groundings, thread[c].at # "idle", UNCHANGED turn
                  PROVE  AnswerOf(c)
  <1>1. turn[c] \in Answers /\ turn' = [turn EXCEPT ![c] = turn[c]]
    BY DEF RetrievalTypeOK
  <1> QED
    BY <1>1 DEF AnswerOf

LEMMA SameCache == ASSUME RetrievalTypeOK, NEW c, UNCHANGED cached PROVE KeepsFor(c)
  BY DEF KeepsFor, RetrievalTypeOK

\* AnswerGrounding, of the end of a retrieval.
LEMMA Answered ==
  ASSUME RetrievalTypeOK, NEW c \in Groundings, thread[c].at # "idle",
         NEW status \in {"ready", "error"}, NEW E \in SUBSET thread[c].rows,
         AnswerGrounding(c, status, E)
  PROVE  AnswerOf(c)
  <1>1. CASE turn[c].status = "waiting"
    <2> DEFINE a == [status |-> status, evidence |-> E]
    <2>1. a \in Answers /\ a.status = status /\ a.evidence = E
      BY Fields, AnAnswer
    <2>2. turn' = [turn EXCEPT ![c] = a]
      BY <1>1 DEF AnswerGrounding
    <2>3. a.status # "none" /\ a.evidence \subseteq thread[c].rows
      BY <2>1
    <2> HIDE DEF a
    <2> QED
      BY <2>1, <2>2, <2>3 DEF AnswerOf
  <1>2. CASE turn[c].status # "waiting"
    BY <1>2, SameTurn DEF AnswerGrounding
  <1> QED
    BY <1>1, <1>2

LEMMA APlace ==
  ASSUME NEW at \in {"begun", "recalled", "gated", "expanded", "ranking", "done"},
         NEW hits \in SUBSET Identities, NEW rows \in SUBSET Identities
  PROVE  /\ [at |-> at, hits |-> hits, rows |-> rows] \in Retrievals
         /\ [at |-> at, hits |-> hits, rows |-> rows].at = at
         /\ [at |-> at, hits |-> hits, rows |-> rows].rows = rows
  BY DEF Retrievals

LEMMA MovedEmpty ==
  ASSUME NEW c \in Groundings, NEW at \in {"begun", "done"}, Goto(c, at, {}, {})
  PROVE  MoveOf(c)
  <1> DEFINE m == [at |-> at, hits |-> {}, rows |-> {}]
  <1>1. m \in Retrievals /\ m.at # "idle" /\ m.rows = {}
    BY APlace
  <1>2. thread' = [thread EXCEPT ![c] = m]
    BY DEF Goto
  <1> HIDE DEF m
  <1> QED
    BY <1>1, <1>2 DEF MoveOf

LEMMA GateTyped == RetrievalTypeOK => Written \subseteq Identities /\ \A a : Gate(a) \subseteq Identities
  BY DEF Gate, Current, BaseCurrent, Written, RetrievalTypeOK

LEMMA GroundMoves == ASSUME RetrievalTypeOK, NEW c \in Groundings, Ground(c) PROVE CallMoves(c)
  <1>1. MoveOf(c)
    <2>1. Goto(c, "done", {}, {}) \/ Goto(c, "begun", {}, {})
      BY DEF Ground
    <2>2. CASE Goto(c, "done", {}, {})
      BY <2>2, MovedEmpty
    <2>3. CASE Goto(c, "begun", {}, {})
      BY <2>3, MovedEmpty
    <2> QED
      BY <2>1, <2>2, <2>3
  <1>2. PICK status \in {"waiting", "ready"}, E \in {{}, Kept(c)} :
          turn' = [turn EXCEPT ![c] = [status |-> status, evidence |-> E]]
    BY DEF Ground, Kept
  <1> DEFINE a == [status |-> status, evidence |-> E]
  <1>3. E \in SUBSET Identities
    BY Fields DEF Kept
  <1>4. a \in Answers /\ a.status # "none" /\ a.evidence \subseteq Kept(c)
    BY <1>3, AnAnswer
  <1>5. turn' = [turn EXCEPT ![c] = a]
    BY <1>2
  <1>6. AnswerOf(c)
    <2> HIDE DEF a
    <2> QED
      BY <1>4, <1>5 DEF AnswerOf
  <1> QED
    BY <1>1, <1>6, SameCache DEF Ground, CallMoves

LEMMA GateMoves ==
  ASSUME RetrievalTypeOK, NEW c \in Groundings, Recall(c) \/ GatePrimary(c) \/ Expand(c) \/ GateGraph(c)
  PROVE  CallMoves(c)
  <1> DEFINE G == Gate(ActorOf[c])
  <1>0. Written \subseteq Identities /\ G \subseteq Identities
        /\ thread[c].hits \subseteq Identities /\ thread[c].rows \subseteq Identities
    BY GateTyped, Fields
  <1>1. ASSUME Recall(c) PROVE MoveOf(c)
    <2>1. PICK hits \in SUBSET Identities : Goto(c, "recalled", hits, {})
      BY <1>0, <1>1 DEF Recall, SemanticFinds, KeywordFinds
    <2> DEFINE m == [at |-> "recalled", hits |-> hits, rows |-> {}]
    <2>2. m \in Retrievals /\ m.at # "idle" /\ m.rows = {}
      BY <1>0, APlace
    <2>3. thread' = [thread EXCEPT ![c] = m]
      BY <2>1 DEF Goto
    <2>4. m.rows \subseteq thread[c].rows \cup G
      BY <2>2
    <2> HIDE DEF m
    <2> QED
      BY <2>2, <2>3, <2>4 DEF MoveOf
  <1>2. ASSUME GatePrimary(c) PROVE MoveOf(c)
    <2> DEFINE m == [at |-> "gated", hits |-> {}, rows |-> thread[c].hits \cap G]
    <2>2. m \in Retrievals /\ m.at # "idle" /\ m.rows = thread[c].hits \cap G
      BY <1>0, APlace
    <2>3. thread' = [thread EXCEPT ![c] = m]
      BY <1>2 DEF GatePrimary, Goto
    <2>4. m.rows \subseteq thread[c].rows \cup G
      BY <2>2
    <2> HIDE DEF m
    <2> QED
      BY <2>2, <2>3, <2>4 DEF MoveOf
  <1>3. ASSUME Expand(c) PROVE MoveOf(c)
    <2>1. PICK hits \in SUBSET Identities : Goto(c, "expanded", hits, thread[c].rows)
      BY <1>0, <1>3 DEF Expand, GraphFinds
    <2> DEFINE m == [at |-> "expanded", hits |-> hits, rows |-> thread[c].rows]
    <2>2. m \in Retrievals /\ m.at # "idle" /\ m.rows = thread[c].rows
      BY <1>0, APlace
    <2>3. thread' = [thread EXCEPT ![c] = m]
      BY <2>1 DEF Goto
    <2>4. m.rows \subseteq thread[c].rows \cup G
      BY <2>2
    <2> HIDE DEF m
    <2> QED
      BY <2>2, <2>3, <2>4 DEF MoveOf
  <1>4. ASSUME GateGraph(c) PROVE MoveOf(c)
    <2> DEFINE m == [at |-> "ranking", hits |-> {}, rows |-> thread[c].rows \cup (thread[c].hits \cap G)]
    <2>2. m \in Retrievals /\ m.at # "idle" /\ m.rows = thread[c].rows \cup (thread[c].hits \cap G)
      BY <1>0, APlace
    <2>3. thread' = [thread EXCEPT ![c] = m]
      BY <1>4 DEF GateGraph, NeighboursAllowed, Goto
    <2>4. m.rows \subseteq thread[c].rows \cup G
      BY <2>2
    <2> HIDE DEF m
    <2> QED
      BY <2>2, <2>3, <2>4 DEF MoveOf
  <1>5. MoveOf(c)
    BY <1>1, <1>2, <1>3, <1>4
  <1>6. thread[c].at # "idle" /\ UNCHANGED turn /\ UNCHANGED cached /\ Here
    BY DEF Recall, GatePrimary, Expand, GateGraph
  <1> QED
    BY <1>5, <1>6, SameTurn, SameCache DEF CallMoves

LEMMA EndMoves ==
  ASSUME RetrievalTypeOK, NEW c \in Groundings, Rank(c) \/ FailGate(c) PROVE CallMoves(c)
  <1>0. thread[c].at # "idle" /\ Goto(c, "done", {}, {}) /\ Here
    BY DEF Rank, FailGate
  <1>1. MoveOf(c)
    BY <1>0, MovedEmpty
  <1>2. CASE Rank(c)
    <2>1. PICK P \in SUBSET thread[c].rows :
            /\ AnswerGrounding(c, "ready", P)
            /\ cached' = IF RunOf[c] # NoRunId THEN [cached EXCEPT ![CacheKey(c)] = P] ELSE cached
      BY <1>2 DEF Rank, Packages
    <2>2. AnswerOf(c)
      BY <1>0, <2>1, Answered
    <2>3. KeepsFor(c)
      <3>1. P \in SUBSET Identities
        BY Fields
      <3> QED
        BY <2>1, <3>1, KeyInKeys DEF KeepsFor, RetrievalTypeOK
    <2> QED
      BY <1>0, <1>1, <2>2, <2>3 DEF CallMoves
  <1>3. CASE FailGate(c)
    <2>1. AnswerGrounding(c, "error", {}) /\ UNCHANGED cached
      BY <1>3 DEF FailGate
    <2>2. AnswerOf(c)
      BY <1>0, <2>1, Answered
    <2> QED
      BY <1>0, <1>1, <2>1, <2>2, SameCache DEF CallMoves
  <1> QED
    BY <1>2, <1>3

LEMMA GiveUpMoves == ASSUME RetrievalTypeOK, NEW c \in Groundings, GiveUp(c) PROVE CallMoves(c)
  <1> DEFINE a == [status |-> "error", evidence |-> {}]
  <1>1. a \in Answers /\ a.status # "none" /\ a.evidence = {}
    BY AnAnswer
  <1>2. turn' = [turn EXCEPT ![c] = a]
    BY DEF GiveUp
  <1> HIDE DEF a
  <1>3. AnswerOf(c)
    BY <1>1, <1>2 DEF AnswerOf
  <1>4. MoveOf(c)
    <2>1. thread[c] \in Retrievals /\ thread' = [thread EXCEPT ![c] = thread[c]]
      BY DEF GiveUp, RetrievalTypeOK
    <2> QED
      BY <2>1 DEF MoveOf
  <1> QED
    BY <1>3, <1>4, SameCache DEF GiveUp, CallMoves

LEMMA RetrievalInitial == RetrievalInit => RetrievalInv
  <1> SUFFICES ASSUME RetrievalInit PROVE RetrievalInv
    OBVIOUS
  <1>1. RetrievalTypeOK
    <2>0. thread \in [Groundings -> Retrievals] /\ turn \in [Groundings -> Answers]
      BY DEF RetrievalInit, Retrievals, Answers
    <2>1. qualified \subseteq Identities
      BY RetrievalAssumption DEF RetrievalInit, Identities
    <2>2. newest \in [Items -> 1 .. MaxItemVersion] /\ pointer \in [Items -> 0 .. MaxItemVersion]
      BY RetrievalAssumption DEF RetrievalInit
    <2>3. cached \in [Keys -> (SUBSET Identities) \cup {None}] /\ wasOpen \in [Groundings -> SUBSET Identities]
      BY DEF RetrievalInit
    <2> QED
      BY <2>0, <2>1, <2>2, <2>3, RetrievalAssumption DEF RetrievalInit, RetrievalTypeOK
  <1>2. ThreadBegun /\ NoEarlyHistory /\ SharedHistory /\ RowsWereOpen /\ ShownWasOpen
    BY DEF RetrievalInit, ThreadBegun, NoEarlyHistory, SharedHistory, RowsWereOpen, ShownWasOpen
  <1>3. KeptWasOpen
    BY KeyInKeys DEF RetrievalInit, KeptWasOpen
  <1> QED
    BY <1>1, <1>2, <1>3 DEF RetrievalInv
-----------------------------------------------------------------------------
\* Every step extends the histories of the runs that have begun.
LEMMA HistoryStep ==
  ASSUME RetrievalInv, Observe,
         \A d \in Groundings : turn[d].status # "none" => turn'[d].status # "none"
  PROVE  /\ \A c \in Groundings : wasOpen[c] \subseteq wasOpen'[c]
         /\ \A c \in Groundings : Begun(c) => Gate(ActorOf[c])' \subseteq wasOpen'[c]
         /\ NoEarlyHistory' /\ SharedHistory'
  <1>1. \A c \in Groundings : HasBegun(c) => Begun(c)
    BY DEF HasBegun, Begun
  <1>2. \A c \in Groundings :
          wasOpen'[c] = IF Begun(c) THEN wasOpen[c] \cup Gate(ActorOf[c])' ELSE {}
    BY DEF Observe
  <1>3. \A c, d \in Groundings : SameRun(c, d) => (Begun(c) <=> Begun(d)) /\ ActorOf[c] = ActorOf[d]
    BY RetrievalAssumption DEF SameRun, Begun
  <1>4. \A c \in Groundings : wasOpen[c] \subseteq wasOpen'[c]
    BY <1>1, <1>2 DEF RetrievalInv, NoEarlyHistory
  <1>5. NoEarlyHistory'
    BY <1>2 DEF NoEarlyHistory, HasBegun, Begun, SameRun
  <1>6. SharedHistory'
    <2> SUFFICES ASSUME NEW c \in Groundings, NEW d \in Groundings, SameRun(c, d)
                 PROVE  wasOpen'[c] = wasOpen'[d]
      BY DEF SharedHistory, SameRun
    <2>1. Gate(ActorOf[c])' = Gate(ActorOf[d])'
      BY <1>3 DEF Gate, Readable
    <2>2. wasOpen[c] = wasOpen[d]
      BY DEF RetrievalInv, SharedHistory
    <2>3. CASE Begun(c)
      BY <2>1, <2>2, <2>3, <1>2, <1>3
    <2>4. CASE ~Begun(c)
      BY <2>4, <1>2, <1>3
    <2> QED
      BY <2>3, <2>4
  <1> QED
    BY <1>2, <1>4, <1>5, <1>6

\* A change around the calls leaves what they hold.
LEMMA ShiftStep == RetrievalInv /\ Shift =>
  ThreadBegun' /\ NoEarlyHistory' /\ SharedHistory' /\ RowsWereOpen' /\ KeptWasOpen' /\ ShownWasOpen'
  <1> SUFFICES ASSUME RetrievalInv, Shift
               PROVE ThreadBegun' /\ NoEarlyHistory' /\ SharedHistory' /\ RowsWereOpen'
                     /\ KeptWasOpen' /\ ShownWasOpen'
    OBVIOUS
  <1>1. /\ \A c \in Groundings : wasOpen[c] \subseteq wasOpen'[c]
        /\ NoEarlyHistory' /\ SharedHistory'
    BY HistoryStep DEF Shift
  <1> QED
    BY <1>1 DEF Shift, RetrievalInv, ThreadBegun, RowsWereOpen, KeptWasOpen, ShownWasOpen

\* A step of one call.
LEMMA CallStep ==
  ASSUME RetrievalInv, RetrievalTypeOK', NEW c \in Groundings, CallMoves(c)
  PROVE  RetrievalInv'
  <1>0. RetrievalTypeOK
    BY DEF RetrievalInv
  <1>1. PICK m \in Retrievals :
          /\ thread' = [thread EXCEPT ![c] = m]
          /\ m.rows \subseteq thread[c].rows \cup Gate(ActorOf[c])
          /\ m.at = "idle" => m = thread[c]
    BY DEF CallMoves, MoveOf
  <1>2. PICK a \in Answers :
          /\ turn' = [turn EXCEPT ![c] = a]
          /\ a.evidence \subseteq turn[c].evidence \cup thread[c].rows \cup Kept(c)
          /\ a.status # "none" \/ (a = turn[c] /\ thread[c].at # "idle")
    BY DEF CallMoves, AnswerOf
  <1>3. a.status # "none"
    BY <1>2 DEF RetrievalInv, ThreadBegun
  <1>4. /\ thread'[c] = m /\ turn'[c] = a
        /\ \A d \in Groundings \ {c} : thread'[d] = thread[d] /\ turn'[d] = turn[d]
    BY <1>0, <1>1, <1>2, GotoMoves, AnswerReaches
  <1>5. \A d \in Groundings : turn[d].status # "none" => turn'[d].status # "none"
    BY <1>3, <1>4
  <1>6. Observe /\ UNCHANGED gateVars
    BY DEF CallMoves, Here
  <1>7. /\ \A d \in Groundings : wasOpen[d] \subseteq wasOpen'[d]
        /\ NoEarlyHistory' /\ SharedHistory'
    BY <1>5, <1>6, HistoryStep
  <1>8. Gate(ActorOf[c]) \subseteq wasOpen'[c]
    <2>1. Begun(c)
      BY <1>3, <1>4 DEF Begun, SameRun
    <2>2. Gate(ActorOf[c])' \subseteq wasOpen'[c]
      BY <1>5, <1>6, <2>1, HistoryStep
    <2>3. ActorOf' = ActorOf /\ Gate(ActorOf[c])' = Gate(ActorOf[c])
      BY <1>6, GateKept
    <2> QED
      BY <2>2, <2>3
  <1>9. ThreadBegun'
    BY <1>3, <1>4 DEF RetrievalInv, ThreadBegun
  <1>10. thread[c].rows \subseteq wasOpen[c] /\ turn[c].evidence \subseteq wasOpen[c] /\ Kept(c) \subseteq wasOpen[c]
    BY DEF RetrievalInv, RowsWereOpen, ShownWasOpen, KeptWasOpen, Kept
  <1>11. RowsWereOpen'
    BY <1>1, <1>4, <1>7, <1>8, <1>10 DEF RetrievalInv, RowsWereOpen
  <1>12. ShownWasOpen'
    BY <1>2, <1>4, <1>7, <1>10 DEF RetrievalInv, ShownWasOpen
  <1>13. KeptWasOpen'
    <2> SUFFICES ASSUME NEW d \in Groundings, RunOf[d] # NoRunId, cached'[CacheKey(d)] # None
                 PROVE  cached'[CacheKey(d)] \subseteq wasOpen'[d]
      BY DEF KeptWasOpen, CacheKey
    <2>0. CacheKey(d) \in Keys
      BY KeyInKeys
    <2>1. CASE cached'[CacheKey(d)] = cached[CacheKey(d)]
      BY <2>1, <1>7 DEF RetrievalInv, KeptWasOpen
    <2>2. CASE RunOf[c] # NoRunId /\ CacheKey(d) = CacheKey(c) /\ cached'[CacheKey(d)] \subseteq thread[c].rows
      <3>1. SameRun(c, d)
        BY <2>2 DEF SameRun, CacheKey
      <3>2. wasOpen[c] = wasOpen[d]
        BY <3>1 DEF RetrievalInv, SharedHistory
      <3> QED
        BY <2>2, <3>2, <1>7, <1>10
    <2> QED
      BY <2>0, <2>1, <2>2 DEF CallMoves, KeepsFor
  <1> QED
    BY <1>7, <1>9, <1>11, <1>12, <1>13 DEF RetrievalInv
-----------------------------------------------------------------------------
LEMMA RetrievalTypeStep == RetrievalTypeOK /\ [RetrievalNext]_retrievalVars => RetrievalTypeOK'
  <1> SUFFICES ASSUME RetrievalTypeOK, [RetrievalNext]_retrievalVars PROVE RetrievalTypeOK'
    OBVIOUS
  <1> DEFINE CallsTyped ==
        /\ thread \in [Groundings -> Retrievals] /\ turn \in [Groundings -> Answers]
        /\ cached \in [Keys -> (SUBSET Identities) \cup {None}]
  <1> DEFINE WorldTyped ==
        /\ newest \in [Items -> 1 .. MaxItemVersion] /\ pointer \in [Items -> 0 .. MaxItemVersion]
        /\ qualified \subseteq Identities /\ team \subseteq Items /\ acl \subseteq Items \X Actors
        /\ shifts \in 0 .. MaxShifts
  <1>1. ASSUME Observe, WorldTyped', CallsTyped' PROVE RetrievalTypeOK'
    <2>1. \A c \in Groundings : Gate(ActorOf[c])' \subseteq Identities
      BY <1>1 DEF Gate, Current, BaseCurrent
    <2>2. wasOpen' \in [Groundings -> SUBSET Identities]
      BY <1>1, <2>1 DEF Observe, RetrievalTypeOK
    <2> QED
      BY <1>1, <2>2 DEF RetrievalTypeOK
  <1>2. ASSUME Shift, newest' \in [Items -> 1 .. MaxItemVersion], pointer' \in [Items -> 0 .. MaxItemVersion],
               qualified' \subseteq Identities, team' \subseteq Items, acl' \subseteq Items \X Actors
        PROVE  RetrievalTypeOK'
    BY <1>1, <1>2, RetrievalAssumption DEF Shift, RetrievalTypeOK
  <1>3. ASSUME Here, CallsTyped' PROVE RetrievalTypeOK'
    BY <1>1, <1>3 DEF Here, gateVars, RetrievalTypeOK
  <1>4. ASSUME NEW i \in Items, NewVersion(i) \/ SetVisibility(i) PROVE RetrievalTypeOK'
    BY <1>2, <1>4, RetrievalAssumption DEF NewVersion, SetVisibility, RetrievalTypeOK
  <1>5. ASSUME NEW i \in Items, NEW v \in 1 .. MaxItemVersion, PointTo(i, v) PROVE RetrievalTypeOK'
    BY <1>2, <1>5 DEF PointTo, RetrievalTypeOK
  <1>6. ASSUME NEW p \in Identities, Classify(p) PROVE RetrievalTypeOK'
    BY <1>2, <1>6 DEF Classify, RetrievalTypeOK
  <1>7. ASSUME NEW i \in Items, NEW a \in Actors, Regrant(i, a) PROVE RetrievalTypeOK'
    BY <1>2, <1>7 DEF Regrant, RetrievalTypeOK
  <1>8. ASSUME NEW c \in Groundings, CallMoves(c) PROVE RetrievalTypeOK'
    <2>1. thread' \in [Groundings -> Retrievals]
      BY <1>8, GotoMoves DEF CallMoves, MoveOf
    <2>2. turn' \in [Groundings -> Answers]
      BY <1>8, AnswerReaches DEF CallMoves, AnswerOf
    <2> QED
      BY <1>3, <1>8, <2>1, <2>2 DEF CallMoves, KeepsFor
  <1>9. ASSUME NEW c \in Groundings,
               Ground(c) \/ Recall(c) \/ GatePrimary(c) \/ Expand(c) \/ GateGraph(c)
               \/ Rank(c) \/ FailGate(c) \/ GiveUp(c)
        PROVE  RetrievalTypeOK'
    BY <1>8, <1>9, GroundMoves, GateMoves, EndMoves, GiveUpMoves
  <1>14. ASSUME NEW k \in Keys, Expire(k) PROVE RetrievalTypeOK'
    BY <1>3, <1>14 DEF Expire, RetrievalTypeOK
  <1>15. CASE UNCHANGED retrievalVars
    BY <1>15 DEF retrievalVars, gateVars, RetrievalTypeOK
  <1> QED
    BY <1>4, <1>5, <1>6, <1>7, <1>9, <1>14, <1>15 DEF RetrievalNext

LEMMA RetrievalStep == RetrievalInv /\ [RetrievalNext]_retrievalVars => RetrievalInv'
  <1> SUFFICES ASSUME RetrievalInv, [RetrievalNext]_retrievalVars PROVE RetrievalInv'
    OBVIOUS
  <1>0. RetrievalTypeOK /\ RetrievalTypeOK'
    BY RetrievalTypeStep DEF RetrievalInv
  <1>1. CASE Shift
    BY <1>0, <1>1, ShiftStep DEF RetrievalInv
  <1>2. ASSUME NEW c \in Groundings,
               Ground(c) \/ Recall(c) \/ GatePrimary(c) \/ Expand(c) \/ GateGraph(c)
               \/ Rank(c) \/ FailGate(c) \/ GiveUp(c)
        PROVE  RetrievalInv'
    BY <1>0, <1>2, CallStep, GroundMoves, GateMoves, EndMoves, GiveUpMoves
  <1>7. ASSUME NEW k \in Keys, Expire(k) PROVE RetrievalInv'
    <2>1. /\ \A c \in Groundings : wasOpen[c] \subseteq wasOpen'[c]
          /\ NoEarlyHistory' /\ SharedHistory'
      BY <1>7, HistoryStep DEF Expire, Here
    <2>2. \A d \in Groundings : cached'[CacheKey(d)] \in {cached[CacheKey(d)], None}
      BY <1>0, <1>7, KeyInKeys DEF Expire, RetrievalTypeOK
    <2>3. KeptWasOpen'
      BY <2>1, <2>2 DEF RetrievalInv, KeptWasOpen, CacheKey
    <2> QED
      BY <1>0, <1>7, <2>1, <2>3 DEF Expire, RetrievalInv, ThreadBegun, RowsWereOpen, ShownWasOpen
  <1>8. CASE UNCHANGED retrievalVars
    BY <1>0, <1>8 DEF retrievalVars, RetrievalInv, ThreadBegun, NoEarlyHistory, SharedHistory, HasBegun,
                      RowsWereOpen, KeptWasOpen, ShownWasOpen, SameRun, CacheKey
  <1> QED
    BY <1>1, <1>2, <1>7, <1>8
       DEF RetrievalNext, NewVersion, SetVisibility, PointTo, Classify, Regrant
-----------------------------------------------------------------------------
\* Every reachable state is well formed.
THEOREM RetrievalTypeCorrect == RetrievalSpec => []RetrievalTypeOK
  <1>1. RetrievalInv => RetrievalTypeOK
    BY DEF RetrievalInv
  <1> QED
    BY <1>1, RetrievalInitial, RetrievalStep, PTL DEF RetrievalSpec

\* A model is shown only what was knowledge and open to its actor since its run began,
\* whatever the indexes, the graph and the cache hold and however shares change.
THEOREM ShowsOnlyOpen == RetrievalSpec => []ShownWasOpen
  <1>1. RetrievalInv => ShownWasOpen
    BY DEF RetrievalInv
  <1> QED
    BY <1>1, RetrievalInitial, RetrievalStep, PTL DEF RetrievalSpec

-------------------------------------------------------------------------------
(* RetrievalMetrics: the identities kept are those some stored run shows,    *)
(* since the first of them, however recorders and cleaners interleave.       *)

\* A writer at work inserted a row nobody else sees; a cleaner's runs are stored.
Recording ==
  \A w \in Writers : writer[w].at # "idle" =>
    /\ writer[w].run \in Runs /\ writer[w].time # 0 /\ row[writer[w].run].time = 0
    /\ \A v \in Writers \ {w} : writer[v].at # "idle" => writer[v].run # writer[w].run
Cleaning ==
  \A c \in Cleaners :
    /\ cleaner[c].at = "idle" => cleaner[c] = NoCleaner
    /\ cleaner[c].at \in {"chosen", "read"} => cleaner[c].keys = {}
    /\ \A r \in cleaner[c].runs : row[r].time # 0
\* The row locks are exclusive: on runs between cleaners, on identities between all.
LocksExclusive ==
  \A c \in Cleaners :
    /\ \A d \in Cleaners \ {c} : cleaner[c].runs \cap cleaner[d].runs = {}
                                 /\ cleaner[c].keys \cap cleaner[d].keys = {}
    /\ \A w \in Writers : writer[w].at = "mapped" => writer[w].keys \cap cleaner[c].keys = {}

\* Under the locks what a cleaner has read stays so until it commits.
PairsOf(S) == {p \in S \X Evidence : exposed[p[1]][p[2]] # 0}
Unnamed(keys, gone) == {e \in keys : \A r \in Runs \ gone : exposed[r][e] = 0}
GoneKeys(m) == {p[2] : p \in {q \in m.pairs : q[1] \in m.gone}}
Stands(m) ==
  /\ m.at \in {"read", "locked", "deleted"} => m.pairs = PairsOf(m.runs)
  /\ m.at = "deleted" => m.gone = Eligible(m) /\ m.orphans = Unnamed(GoneKeys(m), m.gone)
ReadingStands == \A c \in Cleaners : Stands(cleaner[c])

MetricsInv ==
  MetricsTypeOK /\ Recording /\ Cleaning /\ LocksExclusive /\ ReadingStands /\ MeasurementsExact
-----------------------------------------------------------------------------
WriterRecord ==
  [at : {"idle", "inserted", "mapped"}, run : Runs \cup {NoRun}, time : Times, keys : SUBSET Evidence]
CleanerRecord ==
  [at : {"idle", "chosen", "read", "locked", "deleted"}, runs : SUBSET Runs,
   pairs : SUBSET (Runs \X Evidence), keys : SUBSET Evidence,
   gone : SUBSET Runs, orphans : SUBSET Evidence]

LEMMA MetricsParts ==
  ASSUME MetricsTypeOK
  PROVE  /\ row \in [Runs -> [time : Times, count : 0 .. Cardinality(Evidence)]]
         /\ exposed \in [Runs -> [Evidence -> Times]]
         /\ writer \in [Writers -> WriterRecord] /\ cleaner \in [Cleaners -> CleanerRecord]
         /\ earliest \in [Runs -> Times]
         /\ \A w \in Writers : /\ writer[w] \in WriterRecord /\ writer[w].keys \subseteq Evidence
                               /\ writer[w].time \in Times
         /\ \A c \in Cleaners :
              /\ cleaner[c] \in CleanerRecord /\ cleaner[c].runs \subseteq Runs
              /\ cleaner[c].keys \subseteq Evidence /\ cleaner[c].pairs \subseteq Runs \X Evidence
              /\ cleaner[c].gone \subseteq Runs /\ cleaner[c].orphans \subseteq Evidence
  BY DEF MetricsTypeOK, WriterRecord, CleanerRecord

LEMMA EvidenceCounted ==
  ASSUME MetricsAssumption, NEW S \in SUBSET Evidence
  PROVE  Cardinality(S) \in 0 .. Cardinality(Evidence)
  <1>1. IsFiniteSet(Evidence) /\ Cardinality(Evidence) \in Nat
    BY FS_CardinalityType DEF MetricsAssumption
  <1>2. IsFiniteSet(S) /\ Cardinality(S) <= Cardinality(Evidence)
    BY <1>1, FS_Subset
  <1> QED
    BY <1>1, <1>2, FS_CardinalityType

LEMMA IdentityNamed ==
  identity = UNION {Shown(r) : r \in Runs}
    <=> \A e : e \in identity <=> \E r \in Runs : e \in Shown(r)
  OBVIOUS

LEMMA MetricsInitial ==
  ASSUME MetricsAssumption
  PROVE  MetricsInit => MetricsInv
  <1> SUFFICES ASSUME MetricsInit PROVE MetricsInv
    OBVIOUS
  <1> USE DEF MetricsInit
  <1>0. 0 \in Times /\ 0 \in 0 .. Cardinality(Evidence)
    <2>1. Cardinality(Evidence) \in Nat
      BY FS_CardinalityType DEF MetricsAssumption
    <2> QED
      BY <2>1 DEF MetricsAssumption, Times
  <1>1. NoWriter \in WriterRecord /\ NoWriter.at = "idle"
    BY <1>0 DEF NoWriter, WriterRecord
  <1>2. NoCleaner \in CleanerRecord /\ NoCleaner.at = "idle" /\ NoCleaner.runs = {}
        /\ NoCleaner.keys = {}
    BY DEF NoCleaner, CleanerRecord
  <1>3. MetricsTypeOK
    BY <1>0, <1>1, <1>2 DEF MetricsTypeOK, WriterRecord, CleanerRecord
  <1>4. Recording /\ Cleaning /\ LocksExclusive /\ ReadingStands
    BY <1>1, <1>2 DEF Recording, Cleaning, LocksExclusive, ReadingStands, Stands
  <1>5. \A r \in Runs : Shown(r) = {} /\ row[r].count = 0 /\ row[r].time = 0 /\ earliest[r] = 0
    BY DEF Shown
  <1>6. IdentitiesExact
    <2>1. identity = UNION {Shown(r) : r \in Runs}
      BY <1>5
    <2> QED
      BY <1>5, <2>1, FS_EmptySet DEF IdentitiesExact
  <1>7. EarliestKept
    BY <1>5 DEF EarliestKept
  <1> QED
    BY <1>3, <1>4, <1>6, <1>7 DEF MetricsInv, MeasurementsExact

-----------------------------------------------------------------------------
\* The tables are as they were: so is what is measured.
LEMMA TablesMeasure ==
  ASSUME MetricsInv, UNCHANGED <<row, exposed, identity, earliest>>
  PROVE  MeasurementsExact'
  <1>1. \A r : Shown(r)' = Shown(r)
    BY DEF Shown
  <1>2. IdentitiesExact'
    BY <1>1 DEF MetricsInv, MeasurementsExact, IdentitiesExact
  <1>3. EarliestKept'
    BY <1>1 DEF MetricsInv, MeasurementsExact, EarliestKept
  <1> QED
    BY <1>2, <1>3 DEF MeasurementsExact

\* A step of one writer within its transaction.
LEMMA WriterKeeps ==
  ASSUME MetricsInv, NEW w \in Writers, NEW m \in WriterRecord,
         writer' = [writer EXCEPT ![w] = m],
         UNCHANGED <<row, exposed, identity, shareable, cleaner, earliest>>,
         m.at # "idle" =>
           /\ m.run \in Runs /\ m.time # 0 /\ row[m.run].time = 0
           /\ \A v \in Writers \ {w} : writer[v].at # "idle" => writer[v].run # m.run,
         m.at = "mapped" => \A c \in Cleaners : m.keys \cap cleaner[c].keys = {}
  PROVE  MetricsInv'
  <1>0. MetricsTypeOK
    BY DEF MetricsInv
  <1>1. /\ writer' \in [Writers -> WriterRecord] /\ writer'[w] = m
        /\ \A v \in Writers \ {w} : writer'[v] = writer[v]
    BY <1>0, MetricsParts
  <1>2. MetricsTypeOK'
    BY <1>0, <1>1 DEF MetricsTypeOK, WriterRecord
  <1>3. Recording'
    BY <1>1 DEF MetricsInv, Recording
  <1>4. Cleaning'
    BY DEF MetricsInv, Cleaning
  <1>5. LocksExclusive'
    BY <1>1 DEF MetricsInv, LocksExclusive
  <1>6. ReadingStands'
    <2>1. \A S : PairsOf(S)' = PairsOf(S)
      BY DEF PairsOf
    <2>2. \A S, T : Unnamed(S, T)' = Unnamed(S, T)
      BY DEF Unnamed
    <2> QED
      BY <2>1, <2>2 DEF MetricsInv, ReadingStands, Stands, Eligible, GoneKeys
  <1> QED
    BY <1>2, <1>3, <1>4, <1>5, <1>6, TablesMeasure DEF MetricsInv

\* A step of one cleaner within its transaction.
LEMMA CleanerKeeps ==
  ASSUME MetricsInv, NEW c \in Cleaners, NEW m \in CleanerRecord,
         cleaner' = [cleaner EXCEPT ![c] = m],
         UNCHANGED <<row, exposed, identity, shareable, writer, earliest>>,
         m.at # "idle",
         m.at \in {"chosen", "read"} => m.keys = {},
         \A r \in m.runs : row[r].time # 0,
         \A d \in Cleaners \ {c} : m.runs \cap cleaner[d].runs = {} /\ m.keys \cap cleaner[d].keys = {},
         \A w \in Writers : writer[w].at = "mapped" => writer[w].keys \cap m.keys = {},
         Stands(m)
  PROVE  MetricsInv'
  <1>0. MetricsTypeOK
    BY DEF MetricsInv
  <1>1. /\ cleaner' \in [Cleaners -> CleanerRecord] /\ cleaner'[c] = m
        /\ \A d \in Cleaners \ {c} : cleaner'[d] = cleaner[d]
    BY <1>0, MetricsParts
  <1>2. MetricsTypeOK'
    BY <1>0, <1>1 DEF MetricsTypeOK, CleanerRecord
  <1>3. Recording'
    BY DEF MetricsInv, Recording
  <1>4. Cleaning'
    BY <1>1 DEF MetricsInv, Cleaning
  <1>5. LocksExclusive'
    <2> SUFFICES ASSUME NEW a \in Cleaners
                 PROVE  /\ \A d \in Cleaners \ {a} : cleaner'[a].runs \cap cleaner'[d].runs = {}
                                                     /\ cleaner'[a].keys \cap cleaner'[d].keys = {}
                        /\ \A w \in Writers : writer[w].at = "mapped" =>
                             writer[w].keys \cap cleaner'[a].keys = {}
      BY DEF LocksExclusive
    <2>1. CASE a = c
      BY <1>1, <2>1
    <2>2. CASE a # c
      BY <1>1, <2>2 DEF MetricsInv, LocksExclusive
    <2> QED
      BY <2>1, <2>2
  <1>6. ReadingStands'
    <2>1. \A S : PairsOf(S)' = PairsOf(S)
      BY DEF PairsOf
    <2>2. \A S, T : Unnamed(S, T)' = Unnamed(S, T)
      BY DEF Unnamed
    <2>3. \A d \in Cleaners : Stands(cleaner'[d])
      BY <1>1 DEF MetricsInv, ReadingStands
    <2> QED
      BY <2>1, <2>2, <2>3 DEF ReadingStands, Stands, Eligible, GoneKeys
  <1> QED
    BY <1>2, <1>3, <1>4, <1>5, <1>6, TablesMeasure DEF MetricsInv

\* What a cleaner has read stands while nobody exposes or hides anything on its runs,
\* nor anything it has locked.
LEMMA StandsOn ==
  ASSUME MetricsInv, NEW c \in Cleaners, cleaner'[c] = cleaner[c],
         \A r \in cleaner[c].runs, e \in Evidence : exposed'[r][e] = 0 <=> exposed[r][e] = 0,
         \A r \in Runs, e \in cleaner[c].keys : exposed'[r][e] = 0 <=> exposed[r][e] = 0
  PROVE  Stands(cleaner[c])'
  <1> DEFINE m == cleaner[c]
  <1>1. Stands(m) /\ m.runs \subseteq Runs /\ m.keys \subseteq Evidence
    BY MetricsParts DEF MetricsInv, ReadingStands
  <1>2. PairsOf(m.runs)' = PairsOf(m.runs)
    BY DEF PairsOf
  <1>3. m.at = "deleted" => GoneKeys(m) \subseteq m.keys
    BY <1>1 DEF Stands, GoneKeys, Eligible
  <1>4. m.at = "deleted" => Unnamed(GoneKeys(m), m.gone)' = Unnamed(GoneKeys(m), m.gone)
    BY <1>3 DEF Unnamed, GoneKeys
  <1> QED
    BY <1>1, <1>2, <1>4 DEF Stands, Eligible, GoneKeys

-----------------------------------------------------------------------------
LEMMA WriterActionsKeep ==
  ASSUME MetricsAssumption, MetricsInv, NEW w \in Writers,
         \/ MapEvidence(w) \/ AbortRun(w)
         \/ /\ \E r \in Runs, t \in 1 .. MaxTime : InsertRun(w, r, t)
            /\ UNCHANGED <<row, exposed, earliest>> /\ writer' # writer
  PROVE  MetricsInv'
  <1>0. MetricsTypeOK /\ shareable \subseteq Evidence
    BY DEF MetricsInv, MetricsTypeOK
  <1>1. CASE MapEvidence(w)
    <2> DEFINE m == [writer[w] EXCEPT !.at = "mapped", !.keys = ShownBy[writer[w].run] \cap shareable]
    <2>1. writer[w] \in WriterRecord /\ writer[w].at = "inserted"
      BY <1>0, <1>1, MetricsParts DEF MapEvidence
    <2>2. m \in WriterRecord /\ writer' = [writer EXCEPT ![w] = m]
      BY <1>0, <1>1, <2>1, MetricsParts DEF MapEvidence, WriterRecord
    <2>3. /\ m.at = "mapped" /\ m.run = writer[w].run /\ m.time = writer[w].time
          /\ m.keys = ShownBy[writer[w].run] \cap shareable
      BY <2>1 DEF WriterRecord
    <2>4. \A c \in Cleaners : m.keys \cap cleaner[c].keys = {}
      BY <1>1, <2>3 DEF MapEvidence, KeyLocked
    <2>5. /\ m.run \in Runs /\ m.time # 0 /\ row[m.run].time = 0
          /\ \A v \in Writers \ {w} : writer[v].at # "idle" => writer[v].run # m.run
      BY <2>1, <2>3 DEF MetricsInv, Recording
    <2>6. UNCHANGED <<row, exposed, identity, cleaner, earliest, shareable>>
      BY <1>1 DEF MapEvidence
    <2> HIDE DEF m
    <2> QED
      BY <1>0, <2>2, <2>4, <2>5, <2>6, WriterKeeps
  <1>2. CASE AbortRun(w)
    <2>1. NoWriter \in WriterRecord /\ NoWriter.at = "idle"
      BY DEF NoWriter, WriterRecord, Times, MetricsAssumption
    <2> QED
      BY <1>2, <2>1, WriterKeeps DEF AbortRun
  <1>3. ASSUME NEW r \in Runs, NEW t \in 1 .. MaxTime, InsertRun(w, r, t),
               UNCHANGED <<row, exposed, earliest>>, writer' # writer
        PROVE  MetricsInv'
    <2> DEFINE m == [at |-> "inserted", run |-> r, time |-> t, keys |-> {}]
    <2>1. ~Replay(r, t)
      BY <1>3 DEF Replay
    <2>2. /\ row[r].time = 0 /\ ~RunLocked(r) /\ writer' = [writer EXCEPT ![w] = m]
          /\ UNCHANGED <<identity, shareable, cleaner>>
      BY <1>3, <2>1 DEF InsertRun
    <2>3. m \in WriterRecord
      BY DEF WriterRecord, Times, MetricsAssumption
    <2>4. m.at = "inserted" /\ m.run = r /\ m.time # 0
      BY DEF MetricsAssumption
    <2>5. \A v \in Writers \ {w} : writer[v].at # "idle" => writer[v].run # r
      BY <2>2 DEF RunLocked
    <2> HIDE DEF m
    <2> QED
      BY <1>3, <2>2, <2>3, <2>4, <2>5, WriterKeeps
  <1> QED
    BY <1>1, <1>2, <1>3

LEMMA CleanerActionsKeep ==
  ASSUME MetricsAssumption, MetricsInv, NEW c \in Cleaners,
         \/ ReadExposures(c) \/ LockIdentities(c) \/ DeleteRuns(c)
         \/ \E t \in 1 .. MaxTime + 1 : ChooseRuns(c, t)
  PROVE  MetricsInv'
  <1> DEFINE n == cleaner[c]
  <1>0. /\ MetricsTypeOK /\ n \in CleanerRecord /\ n.runs \subseteq Runs /\ n.keys \subseteq Evidence
        /\ n.pairs \subseteq Runs \X Evidence /\ n.gone \subseteq Runs
    BY MetricsParts DEF MetricsInv
  <1>01. /\ \A d \in Cleaners \ {c} : n.runs \cap cleaner[d].runs = {} /\ n.keys \cap cleaner[d].keys = {}
         /\ \A w \in Writers : writer[w].at = "mapped" => writer[w].keys \cap n.keys = {}
         /\ \A r \in n.runs : row[r].time # 0
         /\ Stands(n) /\ (n.at = "idle" => n = NoCleaner)
         /\ n.at \in {"chosen", "read"} => n.keys = {}
    BY DEF MetricsInv, LocksExclusive, Cleaning, ReadingStands
  <1>1. ASSUME NEW t \in 1 .. MaxTime + 1, ChooseRuns(c, t)
        PROVE  MetricsInv'
    <2> DEFINE old == {r \in Runs : row[r].time # 0 /\ row[r].time < t /\ ~RunLocked(r)}
               m == [n EXCEPT !.at = "chosen", !.runs = old]
    <2>1. m \in CleanerRecord /\ cleaner' = [cleaner EXCEPT ![c] = m]
          /\ UNCHANGED <<row, exposed, identity, shareable, writer, earliest>>
      BY <1>0, <1>1, MetricsParts DEF ChooseRuns, CleanerRecord
    <2>2. m.at = "chosen" /\ m.runs = old /\ m.keys = n.keys
      BY <1>0 DEF CleanerRecord
    <2>3. n.keys = {}
      BY <1>01, <1>1 DEF ChooseRuns, NoCleaner
    <2>4. \A d \in Cleaners \ {c} : old \cap cleaner[d].runs = {}
      BY DEF RunLocked
    <2>5. Stands(m)
      BY <2>2 DEF Stands
    <2>6. \A r \in old : row[r].time # 0
      OBVIOUS
    <2> HIDE DEF m, old
    <2> QED
      BY <2>1, <2>2, <2>3, <2>4, <2>5, <2>6, CleanerKeeps
  <1>2. CASE ReadExposures(c)
    <2> DEFINE m == [n EXCEPT !.at = "read", !.pairs = PairsOf(n.runs)]
    <2>1. PairsOf(n.runs) \subseteq Runs \X Evidence
      BY <1>0 DEF PairsOf
    <2>2. m \in CleanerRecord /\ cleaner' = [cleaner EXCEPT ![c] = m]
          /\ UNCHANGED <<row, exposed, identity, shareable, writer, earliest>>
      BY <1>0, <1>2, <2>1, MetricsParts DEF ReadExposures, CleanerRecord, PairsOf
    <2>3. m.at = "read" /\ m.runs = n.runs /\ m.keys = n.keys /\ m.pairs = PairsOf(n.runs)
      BY <1>0 DEF CleanerRecord
    <2>4. n.keys = {} /\ Stands(m)
      BY <1>01, <1>2, <2>3 DEF ReadExposures, Stands
    <2> HIDE DEF m
    <2> QED
      BY <1>01, <2>2, <2>3, <2>4, CleanerKeeps
  <1>3. CASE LockIdentities(c)
    <2> DEFINE k == {e \in {p[2] : p \in n.pairs} : e \in identity /\ ~KeyLocked(e)}
               m == [n EXCEPT !.at = "locked", !.keys = k]
    <2>1. k \subseteq Evidence
      BY <1>0
    <2>2. m \in CleanerRecord /\ cleaner' = [cleaner EXCEPT ![c] = m]
          /\ UNCHANGED <<row, exposed, identity, shareable, writer, earliest>>
      BY <1>0, <1>3, <2>1, MetricsParts DEF LockIdentities, CleanerRecord
    <2>3. m.at = "locked" /\ m.runs = n.runs /\ m.keys = k /\ m.pairs = n.pairs
      BY <1>0 DEF CleanerRecord
    <2>4. /\ \A d \in Cleaners \ {c} : k \cap cleaner[d].keys = {}
          /\ \A w \in Writers : writer[w].at = "mapped" => writer[w].keys \cap k = {}
      BY DEF KeyLocked
    <2>5. Stands(m)
      BY <1>01, <1>3, <2>3 DEF LockIdentities, Stands
    <2> HIDE DEF m, k
    <2> QED
      BY <1>01, <2>2, <2>3, <2>4, <2>5, CleanerKeeps
  <1>4. CASE DeleteRuns(c)
    <2> DEFINE gone == Eligible(n)
               keys == {p[2] : p \in {q \in n.pairs : q[1] \in gone}}
               m == [n EXCEPT !.at = "deleted", !.gone = gone, !.orphans = Unnamed(keys, gone)]
    <2>1. gone \subseteq Runs /\ Unnamed(keys, gone) \subseteq Evidence
      BY <1>0 DEF Eligible, Unnamed
    <2>2. m \in CleanerRecord /\ cleaner' = [cleaner EXCEPT ![c] = m]
          /\ UNCHANGED <<row, exposed, identity, shareable, writer, earliest>>
      BY <1>0, <1>4, <2>1, MetricsParts DEF DeleteRuns, CleanerRecord, Unnamed
    <2>3. /\ m.at = "deleted" /\ m.runs = n.runs /\ m.keys = n.keys /\ m.pairs = n.pairs
          /\ m.gone = gone /\ m.orphans = Unnamed(keys, gone)
      BY <1>0 DEF CleanerRecord
    <2>4. n.pairs = PairsOf(n.runs)
      BY <1>01, <1>4 DEF DeleteRuns, Stands
    <2>5. Stands(m)
      BY <2>3, <2>4 DEF Stands, Eligible, GoneKeys
    <2> HIDE DEF m, keys, gone
    <2> QED
      BY <1>01, <2>2, <2>3, <2>5, CleanerKeeps
  <1> QED
    BY <1>1, <1>2, <1>3, <1>4

LEMMA ReplayKeeps ==
  ASSUME MetricsAssumption, MetricsInv, NEW r \in Runs, NEW t \in 1 .. MaxTime, Replay(r, t)
  PROVE  MetricsInv'
  <1>0. /\ MetricsTypeOK /\ MaxTime \in Nat /\ row[r].time # 0 /\ t \in Times /\ t # 0
        /\ row[r] \in [time : Times, count : 0 .. Cardinality(Evidence)] /\ row[r].time \in Times
        /\ earliest[r] \in Times /\ \A e \in Evidence : exposed[r][e] \in Times
    BY MetricsParts DEF MetricsInv, MetricsAssumption, Replay, Times
  <1>1. \A a, b \in Times : Earlier(a, b) \in Times /\ (a # 0 /\ b # 0 => Earlier(a, b) # 0)
    BY DEF Earlier, Times, MetricsAssumption
  <1>2. /\ row' \in [Runs -> [time : Times, count : 0 .. Cardinality(Evidence)]]
        /\ row'[r].time = Earlier(row[r].time, t) /\ row'[r].count = row[r].count
        /\ \A s \in Runs \ {r} : row'[s] = row[s]
    BY <1>0, <1>1, MetricsParts DEF Replay
  <1>3. /\ exposed' \in [Runs -> [Evidence -> Times]]
        /\ \A e \in Evidence : exposed'[r][e] = IF exposed[r][e] = 0 THEN 0 ELSE Earlier(exposed[r][e], t)
        /\ \A s \in Runs \ {r} : exposed'[s] = exposed[s]
    <2>1. [e \in Evidence |-> IF exposed[r][e] = 0 THEN 0 ELSE Earlier(exposed[r][e], t)]
            \in [Evidence -> Times]
      BY <1>0, <1>1
    <2> QED
      BY <1>0, <2>1, MetricsParts DEF Replay
  <1>4. /\ earliest' \in [Runs -> Times] /\ earliest'[r] = Earlier(earliest[r], t)
        /\ \A s \in Runs \ {r} : earliest'[s] = earliest[s]
    BY <1>0, MetricsParts DEF Replay, Earlier
  <1>5. UNCHANGED <<identity, shareable, writer, cleaner>>
    BY DEF Replay
  <1>6. \A s \in Runs, e \in Evidence : exposed'[s][e] = 0 <=> exposed[s][e] = 0
    BY <1>0, <1>1, <1>3
  <1>7. \A s \in Runs : Shown(s)' = Shown(s) /\ row'[s].count = row[s].count
                        /\ (row'[s].time = 0 <=> row[s].time = 0)
    BY <1>0, <1>1, <1>2, <1>6 DEF Shown
  <1>8. MetricsTypeOK'
    BY <1>0, <1>2, <1>3, <1>4, <1>5 DEF MetricsTypeOK
  <1>9. Recording' /\ Cleaning' /\ LocksExclusive'
    <2>1. Recording'
      BY <1>5, <1>7 DEF MetricsInv, Recording
    <2>2. Cleaning'
      BY <1>0, <1>5, <1>7, MetricsParts DEF MetricsInv, Cleaning
    <2>3. LocksExclusive'
      BY <1>5 DEF MetricsInv, LocksExclusive
    <2> QED
      BY <2>1, <2>2, <2>3
  <1>10. ReadingStands'
    <2> SUFFICES ASSUME NEW c \in Cleaners PROVE Stands(cleaner[c])'
      BY DEF ReadingStands
    <2>1. cleaner[c].runs \subseteq Runs /\ cleaner[c].keys \subseteq Evidence /\ cleaner'[c] = cleaner[c]
      BY <1>0, <1>5, MetricsParts
    <2> QED
      BY <1>6, <2>1, StandsOn
  <1>11. IdentitiesExact'
    BY <1>5, <1>7 DEF MetricsInv, MeasurementsExact, IdentitiesExact
  <1>12. EarliestKept'
    <2> SUFFICES ASSUME NEW s \in Runs
                 PROVE  row'[s].time = earliest'[s] /\ \A e \in Shown(s)' : exposed'[s][e] = row'[s].time
      BY DEF EarliestKept
    <2>1. row[s].time = earliest[s] /\ \A e \in Shown(s) : exposed[s][e] = row[s].time
      BY DEF MetricsInv, MeasurementsExact, EarliestKept
    <2> QED
      BY <1>2, <1>3, <1>4, <1>7, <2>1 DEF Shown
  <1> QED
    BY <1>8, <1>9, <1>10, <1>11, <1>12 DEF MetricsInv, MeasurementsExact

LEMMA CommitRunKeeps ==
  ASSUME MetricsAssumption, MetricsInv, NEW w \in Writers, CommitRun(w)
  PROVE  MetricsInv'
  <1>00. PICK r, k, t : r = writer[w].run /\ k = writer[w].keys /\ t = writer[w].time
    OBVIOUS
  <1>0. /\ MetricsTypeOK /\ MaxTime \in Nat /\ r \in Runs /\ k \subseteq Evidence /\ t \in Times /\ t # 0
        /\ writer[w].at = "mapped" /\ row[r].time = 0
        /\ \A v \in Writers \ {w} : writer[v].at # "idle" => writer[v].run # r
    BY <1>00, MetricsParts DEF MetricsInv, MetricsAssumption, CommitRun, Recording
  <1>1. /\ row' \in [Runs -> [time : Times, count : 0 .. Cardinality(Evidence)]]
        /\ row'[r].time = t /\ row'[r].count = Cardinality(k)
        /\ \A s \in Runs \ {r} : row'[s] = row[s]
    <2>1. [time |-> t, count |-> Cardinality(k)] \in [time : Times, count : 0 .. Cardinality(Evidence)]
      BY <1>0, EvidenceCounted
    <2> QED
      BY <1>00, <1>0, <2>1, MetricsParts DEF CommitRun
  <1>2. /\ exposed' \in [Runs -> [Evidence -> Times]]
        /\ \A e \in Evidence : exposed'[r][e] = IF e \in k THEN t ELSE 0
        /\ \A s \in Runs \ {r} : exposed'[s] = exposed[s]
    <2>1. [e \in Evidence |-> IF e \in k THEN t ELSE 0] \in [Evidence -> Times]
      BY <1>0 DEF Times
    <2> QED
      BY <1>00, <1>0, <2>1, MetricsParts DEF CommitRun
  <1>3. /\ earliest' \in [Runs -> Times] /\ earliest'[r] = t
        /\ \A s \in Runs \ {r} : earliest'[s] = earliest[s]
    BY <1>00, <1>0, MetricsParts DEF CommitRun
  <1>4. /\ writer' \in [Writers -> WriterRecord] /\ writer'[w].at = "idle"
        /\ \A v \in Writers \ {w} : writer'[v] = writer[v]
    <2>1. NoWriter \in WriterRecord /\ NoWriter.at = "idle"
      BY <1>0 DEF NoWriter, WriterRecord, Times
    <2> QED
      BY <1>00, <1>0, <2>1, MetricsParts DEF CommitRun
  <1>5. identity' = identity \cup k /\ UNCHANGED <<shareable, cleaner>>
    BY <1>00 DEF CommitRun
  <1>6. Shown(r) = {} /\ Shown(r)' = k /\ \A s \in Runs \ {r} : Shown(s)' = Shown(s)
    BY <1>0, <1>2 DEF Shown, MetricsInv, MeasurementsExact, IdentitiesExact
  <1>7. MetricsTypeOK'
    BY <1>0, <1>1, <1>2, <1>3, <1>4, <1>5 DEF MetricsTypeOK, WriterRecord
  <1>8. Recording'
    <2> SUFFICES ASSUME NEW v \in Writers, writer'[v].at # "idle"
                 PROVE  /\ writer'[v].run \in Runs /\ writer'[v].time # 0 /\ row'[writer'[v].run].time = 0
                        /\ \A u \in Writers \ {v} : writer'[u].at # "idle" => writer'[u].run # writer'[v].run
      BY DEF Recording
    <2>1. v # w /\ writer'[v] = writer[v]
      BY <1>4
    <2>2. writer[v].run \in Runs \ {r} /\ writer[v].time # 0 /\ row[writer[v].run].time = 0
      BY <1>0, <2>1 DEF MetricsInv, Recording
    <2>3. \A u \in Writers \ {v} : writer[u].at # "idle" => writer[u].run # writer[v].run
      BY <2>1 DEF MetricsInv, Recording
    <2> QED
      BY <1>1, <1>4, <2>1, <2>2, <2>3
  <1>9. Cleaning'
    <2>1. \A s \in Runs : row[s].time # 0 => row'[s] = row[s]
      BY <1>0, <1>1
    <2> QED
      BY <1>0, <1>5, <2>1, MetricsParts DEF MetricsInv, Cleaning
  <1>10. LocksExclusive'
    BY <1>4, <1>5 DEF MetricsInv, LocksExclusive
  <1>11. ReadingStands'
    <2> SUFFICES ASSUME NEW c \in Cleaners PROVE Stands(cleaner[c])'
      BY DEF ReadingStands
    <2>1. cleaner[c].runs \subseteq Runs /\ cleaner[c].keys \subseteq Evidence /\ cleaner'[c] = cleaner[c]
      BY <1>0, <1>5, MetricsParts
    <2>2. r \notin cleaner[c].runs
      BY <1>0 DEF MetricsInv, Cleaning
    <2>3. k \cap cleaner[c].keys = {}
      BY <1>00, <1>0 DEF MetricsInv, LocksExclusive
    <2>4. \A s \in cleaner[c].runs, e \in Evidence : exposed'[s][e] = 0 <=> exposed[s][e] = 0
      BY <1>2, <2>1, <2>2
    <2>5. \A e \in Evidence : exposed[r][e] = 0
      BY <1>6 DEF Shown
    <2>6. \A s \in Runs, e \in cleaner[c].keys : exposed'[s][e] = 0 <=> exposed[s][e] = 0
      BY <1>2, <2>1, <2>3, <2>5
    <2> QED
      BY <2>1, <2>4, <2>6, StandsOn
  <1>12. IdentitiesExact'
    <2>1. identity = UNION {Shown(s) : s \in Runs}
      BY DEF MetricsInv, MeasurementsExact, IdentitiesExact
    <2>2. identity' = UNION {Shown(s)' : s \in Runs}
      BY <1>0, <1>5, <1>6, <2>1
    <2>3. \A s \in Runs : row'[s].count = Cardinality(Shown(s)') /\ (row'[s].time = 0 => Shown(s)' = {})
      BY <1>0, <1>1, <1>6 DEF MetricsInv, MeasurementsExact, IdentitiesExact
    <2> QED
      BY <2>2, <2>3 DEF IdentitiesExact
  <1>13. EarliestKept'
    <2> SUFFICES ASSUME NEW s \in Runs
                 PROVE  row'[s].time = earliest'[s] /\ \A e \in Shown(s)' : exposed'[s][e] = row'[s].time
      BY DEF EarliestKept
    <2>1. row[s].time = earliest[s] /\ \A e \in Shown(s) : exposed[s][e] = row[s].time
      BY DEF MetricsInv, MeasurementsExact, EarliestKept
    <2> QED
      BY <1>0, <1>1, <1>2, <1>3, <1>6, <2>1
  <1> QED
    BY <1>7, <1>8, <1>9, <1>10, <1>11, <1>12, <1>13 DEF MetricsInv, MeasurementsExact

LEMMA CommitDeleteKeeps ==
  ASSUME MetricsAssumption, MetricsInv, NEW c \in Cleaners, CommitDelete(c)
  PROVE  MetricsInv'
  <1> DEFINE n == cleaner[c]
             gone == cleaner[c].gone
  <1>0. /\ MetricsTypeOK /\ n.at = "deleted" /\ gone \subseteq Runs /\ n.runs \subseteq Runs
        /\ n.pairs \subseteq Runs \X Evidence /\ 0 \in Times /\ 0 \in 0 .. Cardinality(Evidence)
    <2>1. Cardinality(Evidence) \in Nat
      BY FS_CardinalityType DEF MetricsAssumption
    <2> QED
      BY <2>1, MetricsParts DEF MetricsInv, MetricsAssumption, CommitDelete, Times
  <1>1. /\ n.pairs = PairsOf(n.runs) /\ gone = Eligible(n) /\ n.orphans = Unnamed(GoneKeys(n), gone)
    BY <1>0 DEF MetricsInv, ReadingStands, Stands
  <1>2. /\ gone \subseteq n.runs
        /\ \A r \in gone, e \in Evidence : exposed[r][e] # 0 => e \in n.keys /\ e \in GoneKeys(n)
    <2>1. gone \subseteq n.runs
      BY <1>1 DEF Eligible
    <2>2. ASSUME NEW r \in gone, NEW e \in Evidence, exposed[r][e] # 0
          PROVE  e \in n.keys /\ e \in GoneKeys(n)
      <3>1. <<r, e>> \in n.pairs
        BY <1>1, <2>1, <2>2 DEF PairsOf
      <3>2. <<r, e>>[2] \in n.keys
        BY <1>1, <2>2, <3>1 DEF Eligible
      <3>3. <<r, e>> \in {q \in n.pairs : q[1] \in gone}
        BY <2>2, <3>1
      <3>4. <<r, e>>[2] \in GoneKeys(n)
        BY <3>3 DEF GoneKeys
      <3> QED
        BY <3>2, <3>4
    <2> QED
      BY <2>1, <2>2
  <1>3. /\ row' \in [Runs -> [time : Times, count : 0 .. Cardinality(Evidence)]]
        /\ \A r \in Runs : row'[r] = IF r \in gone THEN [time |-> 0, count |-> 0] ELSE row[r]
    <2>1. [time |-> 0, count |-> 0] \in [time : Times, count : 0 .. Cardinality(Evidence)]
      BY <1>0
    <2> QED
      BY <1>0, <2>1, MetricsParts DEF CommitDelete
  <1>4. /\ exposed' \in [Runs -> [Evidence -> Times]]
        /\ \A r \in Runs, e \in Evidence : exposed'[r][e] = IF r \in gone THEN 0 ELSE exposed[r][e]
    <2>1. exposed' = [r \in Runs |-> IF r \in gone THEN [e \in Evidence |-> 0] ELSE exposed[r]]
      BY DEF CommitDelete
    <2>2. [e \in Evidence |-> 0] \in [Evidence -> Times]
      BY <1>0
    <2> QED
      BY <1>0, <2>1, <2>2, MetricsParts
  <1>5. /\ earliest' \in [Runs -> Times]
        /\ \A r \in Runs : earliest'[r] = IF r \in gone THEN 0 ELSE earliest[r]
    BY <1>0, MetricsParts DEF CommitDelete
  <1>6. /\ cleaner' \in [Cleaners -> CleanerRecord] /\ cleaner'[c] = NoCleaner
        /\ \A d \in Cleaners \ {c} : cleaner'[d] = cleaner[d]
        /\ NoCleaner.at = "idle" /\ NoCleaner.runs = {} /\ NoCleaner.keys = {}
    <2>1. NoCleaner \in CleanerRecord /\ NoCleaner.at = "idle" /\ NoCleaner.runs = {} /\ NoCleaner.keys = {}
      BY DEF NoCleaner, CleanerRecord
    <2> QED
      BY <1>0, <2>1, MetricsParts DEF CommitDelete
  <1>7. identity' = identity \ n.orphans /\ UNCHANGED <<shareable, writer>>
    BY DEF CommitDelete
  <1>8. MetricsTypeOK'
    BY <1>0, <1>3, <1>4, <1>5, <1>6, <1>7 DEF MetricsTypeOK, CleanerRecord
  <1>9. Recording'
    BY <1>3, <1>7 DEF MetricsInv, Recording
  <1>10. Cleaning'
    <2> SUFFICES ASSUME NEW d \in Cleaners
                 PROVE  /\ cleaner'[d].at = "idle" => cleaner'[d] = NoCleaner
                        /\ cleaner'[d].at \in {"chosen", "read"} => cleaner'[d].keys = {}
                        /\ \A r \in cleaner'[d].runs : row'[r].time # 0
      BY DEF Cleaning
    <2>1. CASE d = c
      BY <1>6, <2>1
    <2>2. CASE d # c
      <3>1. cleaner[d].runs \cap gone = {} /\ cleaner[d].runs \subseteq Runs /\ cleaner'[d] = cleaner[d]
        BY <1>0, <1>2, <1>6, <2>2, MetricsParts DEF MetricsInv, LocksExclusive
      <3> QED
        BY <1>3, <3>1 DEF MetricsInv, Cleaning
    <2> QED
      BY <2>1, <2>2
  <1>11. LocksExclusive'
    <2> SUFFICES ASSUME NEW a \in Cleaners
                 PROVE  /\ \A d \in Cleaners \ {a} : cleaner'[a].runs \cap cleaner'[d].runs = {}
                                                     /\ cleaner'[a].keys \cap cleaner'[d].keys = {}
                        /\ \A w \in Writers : writer[w].at = "mapped" =>
                             writer[w].keys \cap cleaner'[a].keys = {}
      BY <1>7 DEF LocksExclusive
    <2>1. CASE a = c
      BY <1>6, <2>1
    <2>2. CASE a # c
      BY <1>6, <2>2 DEF MetricsInv, LocksExclusive
    <2> QED
      BY <2>1, <2>2
  <1>12. ReadingStands'
    <2> SUFFICES ASSUME NEW d \in Cleaners PROVE Stands(cleaner[d])'
      BY DEF ReadingStands
    <2>1. CASE d = c
      BY <1>6, <2>1 DEF Stands
    <2>2. CASE d # c
      <3>1. /\ cleaner[d].runs \subseteq Runs /\ cleaner[d].keys \subseteq Evidence
            /\ cleaner'[d] = cleaner[d] /\ cleaner[d].runs \cap gone = {}
            /\ cleaner[d].keys \cap n.keys = {}
        BY <1>0, <1>2, <1>6, <2>2, MetricsParts DEF MetricsInv, LocksExclusive
      <3>2. \A r \in cleaner[d].runs, e \in Evidence : exposed'[r][e] = 0 <=> exposed[r][e] = 0
        BY <1>4, <3>1
      <3>3. \A r \in Runs, e \in cleaner[d].keys : exposed'[r][e] = 0 <=> exposed[r][e] = 0
        BY <1>2, <1>4, <3>1
      <3> QED
        BY <3>1, <3>2, <3>3, StandsOn
    <2> QED
      BY <2>1, <2>2
  <1>13. \A r \in Runs : Shown(r)' = IF r \in gone THEN {} ELSE Shown(r)
    BY <1>4 DEF Shown
  <1>14. IdentitiesExact'
    <2>1. \A e : e \in identity <=> \E r \in Runs : e \in Shown(r)
      BY IdentityNamed DEF MetricsInv, MeasurementsExact, IdentitiesExact
    <2>2. ASSUME NEW e, e \in identity'
          PROVE  \E r \in Runs : e \in Shown(r)'
      <3>1. e \in identity /\ e \notin n.orphans
        BY <1>7, <2>2
      <3>2. PICK r \in Runs : e \in Shown(r)
        BY <2>1, <3>1
      <3>3. CASE r \in gone
        <4>1. e \in GoneKeys(n)
          BY <1>2, <3>2, <3>3 DEF Shown
        <4>2. PICK s \in Runs \ gone : exposed[s][e] # 0
          BY <1>1, <3>1, <4>1 DEF Unnamed
        <4> QED
          BY <1>13, <3>2, <4>2 DEF Shown
      <3> QED
        BY <1>13, <3>2, <3>3
    <2>3. ASSUME NEW e, NEW r \in Runs, e \in Shown(r)'
          PROVE  e \in identity'
      <3>1. r \notin gone /\ e \in Shown(r)
        BY <1>13, <2>3
      <3>2. e \in identity /\ e \notin n.orphans
        BY <1>1, <2>1, <3>1 DEF Shown, Unnamed
      <3> QED
        BY <1>7, <3>2
    <2>4. identity' = UNION {Shown(r)' : r \in Runs}
      BY <2>2, <2>3
    <2>5. \A r \in Runs : row'[r].count = Cardinality(Shown(r)') /\ (row'[r].time = 0 => Shown(r)' = {})
      <3> SUFFICES ASSUME NEW r \in Runs
                   PROVE  row'[r].count = Cardinality(Shown(r)') /\ (row'[r].time = 0 => Shown(r)' = {})
        OBVIOUS
      <3>1. CASE r \in gone
        <4>1. Shown(r)' = {} /\ row'[r].count = 0
          BY <1>3, <1>13, <3>1
        <4> QED
          BY <4>1, FS_EmptySet
      <3>2. CASE r \notin gone
        <4>1. Shown(r)' = Shown(r) /\ row'[r] = row[r]
          BY <1>3, <1>13, <3>2
        <4> QED
          BY <4>1 DEF MetricsInv, MeasurementsExact, IdentitiesExact
      <3> QED
        BY <3>1, <3>2
    <2> QED
      BY <2>4, <2>5 DEF IdentitiesExact
  <1>15. EarliestKept'
    <2> SUFFICES ASSUME NEW r \in Runs
                 PROVE  row'[r].time = earliest'[r] /\ \A e \in Shown(r)' : exposed'[r][e] = row'[r].time
      BY DEF EarliestKept
    <2>1. row[r].time = earliest[r] /\ \A e \in Shown(r) : exposed[r][e] = row[r].time
      BY DEF MetricsInv, MeasurementsExact, EarliestKept
    <2> QED
      BY <1>3, <1>4, <1>5, <1>13, <2>1 DEF Shown
  <1> QED
    BY <1>8, <1>9, <1>10, <1>11, <1>12, <1>14, <1>15 DEF MetricsInv, MeasurementsExact

LEMMA SharesKeep ==
  ASSUME MetricsInv, UNCHANGED <<row, exposed, identity, writer, cleaner, earliest>>,
         shareable' \subseteq Evidence
  PROVE  MetricsInv'
  <1>1. MetricsTypeOK'
    BY DEF MetricsInv, MetricsTypeOK
  <1>2. Recording' /\ Cleaning' /\ LocksExclusive'
    BY DEF MetricsInv, Recording, Cleaning, LocksExclusive
  <1>3. \A S : PairsOf(S)' = PairsOf(S)
    BY DEF PairsOf
  <1>4. \A S, T : Unnamed(S, T)' = Unnamed(S, T)
    BY DEF Unnamed
  <1>5. ReadingStands'
    BY <1>3, <1>4 DEF MetricsInv, ReadingStands, Stands, Eligible, GoneKeys
  <1> QED
    BY <1>1, <1>2, <1>5, TablesMeasure DEF MetricsInv

LEMMA MetricsStepKeeps ==
  ASSUME MetricsAssumption, MetricsInv, [MetricsNext]_metricVars
  PROVE  MetricsInv'
  <1>0. shareable \subseteq Evidence
    BY DEF MetricsInv, MetricsTypeOK
  <1>1. CASE UNCHANGED metricVars
    BY <1>0, <1>1, SharesKeep DEF metricVars
  <1>2. ASSUME NEW S \in SUBSET Evidence, Share(S) PROVE MetricsInv'
    BY <1>2, SharesKeep DEF Share
  <1>3. ASSUME NEW w \in Writers, MapEvidence(w) \/ AbortRun(w) PROVE MetricsInv'
    BY <1>3, WriterActionsKeep
  <1>4. ASSUME NEW w \in Writers, CommitRun(w) PROVE MetricsInv'
    BY <1>4, CommitRunKeeps
  <1>5. ASSUME NEW w \in Writers, NEW r \in Runs, NEW t \in 1 .. MaxTime, InsertRun(w, r, t)
        PROVE  MetricsInv'
    <2>1. CASE Replay(r, t)
      BY <2>1, ReplayKeeps
    <2>2. CASE ~Replay(r, t)
      <3>1. UNCHANGED <<row, exposed, identity, shareable, cleaner, earliest>>
        BY <1>5, <2>2 DEF InsertRun
      <3>2. CASE writer' = writer
        BY <1>0, <3>1, <3>2, SharesKeep
      <3>3. CASE writer' # writer
        BY <1>5, <3>1, <3>3, WriterActionsKeep
      <3> QED
        BY <3>2, <3>3
    <2> QED
      BY <2>1, <2>2
  <1>6. ASSUME NEW c \in Cleaners, ReadExposures(c) \/ LockIdentities(c) \/ DeleteRuns(c)
        PROVE  MetricsInv'
    BY <1>6, CleanerActionsKeep
  <1>7. ASSUME NEW c \in Cleaners, CommitDelete(c) PROVE MetricsInv'
    BY <1>7, CommitDeleteKeeps
  <1>8. ASSUME NEW c \in Cleaners, NEW t \in 1 .. MaxTime + 1, ChooseRuns(c, t) PROVE MetricsInv'
    BY <1>8, CleanerActionsKeep
  <1> QED
    BY <1>1, <1>2, <1>3, <1>4, <1>5, <1>6, <1>7, <1>8 DEF MetricsNext

LEMMA MetricsInvariant ==
  ASSUME MetricsAssumption
  PROVE  MetricsSpec => []MetricsInv
  BY MetricsInitial, MetricsStepKeeps, PTL DEF MetricsSpec

(* The rows, the exposures and the transactions keep their types.             *)
THEOREM MetricsTyped == MetricsSpec => []MetricsTypeOK
  <1>1. MetricsSpec => []MetricsInv
    BY MetricsAssumption, MetricsInvariant
  <1>2. MetricsInv => MetricsTypeOK
    BY DEF MetricsInv
  <1> QED
    BY <1>1, <1>2, PTL

(* Whatever records, replays and retention passes run at once, the evidence   *)
(* identities are those the stored exposures name, each run counts its own,   *)
(* and a call is dated by its earliest observation.                           *)
THEOREM MetricsAreExact == MetricsSpec => []MeasurementsExact
  <1>1. MetricsSpec => []MetricsInv
    BY MetricsAssumption, MetricsInvariant
  <1>2. MetricsInv => MeasurementsExact
    BY DEF MetricsInv
  <1> QED
    BY <1>1, <1>2, PTL

-------------------------------------------------------------------------------
(* RetrievalOutcomes: a reported figure stands, but for a transaction dated  *)
(* within a window already counted as closed.                                *)

\* Days are natural numbers, so a set of them that is not empty has a first one.
LEMMA LeastExists ==
  ASSUME NEW S \in SUBSET Nat, S # {}
  PROVE  Min(S) \in S /\ \A y \in S : Min(S) <= y
  <1> DEFINE Less == {ss \in Nat \X Nat : ss[1] < ss[2]}
  <1>1. IsWellFoundedOn(Less, Nat)
    BY NatLessThanWellFounded DEF OpToRel
  <1> HIDE DEF Less
  <1>2. PICK x \in S : \A y \in S : ~(<<y, x>> \in Less)
    BY <1>1, WFMin
  <1>3. \A y \in S : x <= y
    <2> SUFFICES ASSUME NEW y \in S PROVE x <= y
      OBVIOUS
    <2>1. x \in Nat /\ y \in Nat /\ ~(<<y, x>> \in Less)
      BY <1>2
    <2> QED
      BY <2>1 DEF Less
  <1>4. \E z \in S : \A y \in S : z <= y
    BY <1>3
  <1>5. Min(S) = CHOOSE z \in S : \A y \in S : z <= y
    BY DEF Min
  <1> QED
    BY <1>4, <1>5

\* The sets the report counts, and how it shows a count of too few.
Counted(window) == {c \in Copies : Mature(c, window)}
Succeeded(types, window) == {c \in Copies : Within(c, types, window)}
Figure(n, S) == IF n >= MinSample THEN {Cardinality(S)} ELSE {}
Summary(cohort, explicit, committed, adopted, used, published) ==
  [attributed |-> Cardinality(cohort),
   censored   |-> <<Cardinality(cohort) - Cardinality(explicit),
                    Cardinality(cohort) - Cardinality(committed)>>,
   adopted    |-> Figure(Cardinality(explicit), adopted),
   committed  |-> Figure(Cardinality(committed), used),
   published  |-> Figure(Cardinality(committed), published),
   suppressed |-> Cardinality(explicit) < MinSample \/ Cardinality(committed) < MinSample]

LEMMA ReportCounts ==
  Report = Summary(InCohort, Counted(ExplicitWindow), Counted(CommittedWindow),
                   Succeeded({"adopted"}, ExplicitWindow), Succeeded(EventTypes, CommittedWindow),
                   Succeeded({"published"}, CommittedWindow))
  BY DEF Report, Summary, Figure, Counted, Succeeded, ExplicitlyAdopted, CommittedUse, Published

LEMMA ReportCountsThen ==
  Report' = Summary(InCohort', Counted(ExplicitWindow)', Counted(CommittedWindow)',
                   Succeeded({"adopted"}, ExplicitWindow)', Succeeded(EventTypes, CommittedWindow)',
                   Succeeded({"published"}, CommittedWindow)')
  BY DEF Report, Summary, Figure, Counted, Succeeded, ExplicitlyAdopted, CommittedUse, Published

-----------------------------------------------------------------------------
EventsPast == \A o \in events \cup open : o.at <= day
OutcomesInv == OutcomesTypeOK /\ EventsPast

\* A first outcome within the window is an outcome within the window.
FirstDecides ==
  \A c \in Copies, types \in SUBSET EventTypes, window \in Nat :
    Within(c, types, window) <=>
      Mature(c, window) /\ \E y \in OutcomesOf(c, types) : y <= CohortAt(c) + window

LEMMA AttributedTyped ==
  ASSUME OutcomesAssumption, OutcomesTypeOK, NEW c \in Copies
  PROVE  \A x \in Attributed(c) : x.at \in Nat
  <1> SUFFICES ASSUME NEW x \in Attributed(c) PROVE x.at \in Nat
    OBVIOUS
  <1>1. PICK p \in cites \X exposures : x = [version |-> p[1].version, at |-> p[2].at]
    BY DEF Attributed
  <1>2. x.at = p[2].at /\ p[2] \in exposures
    BY <1>1
  <1>3. p[2].at \in 0 .. MaxDay
    BY <1>2 DEF OutcomesTypeOK, Days, Sight
  <1> QED
    BY <1>2, <1>3

LEMMA CohortTyped ==
  ASSUME OutcomesAssumption, OutcomesTypeOK, NEW c \in InCohort
  PROVE  CohortAt(c) \in Nat
  <1>1. c \in Copies /\ {x.at : x \in Attributed(c)} \in SUBSET Nat
        /\ {x.at : x \in Attributed(c)} # {}
    BY AttributedTyped DEF InCohort
  <1> QED
    BY <1>1, LeastExists DEF CohortAt

LEMMA OutcomesTyped ==
  ASSUME OutcomesAssumption, OutcomesTypeOK, NEW c, NEW types
  PROVE  OutcomesOf(c, types) \in SUBSET Nat
  <1>1. \A o \in events : o.at \in Nat
    BY DEF OutcomesTypeOK, Days, LifecycleEvent
  <1> QED
    BY <1>1 DEF OutcomesOf

LEMMA FirstDecidesLemma ==
  OutcomesAssumption /\ OutcomesTypeOK => FirstDecides
  <1> SUFFICES ASSUME OutcomesAssumption, OutcomesTypeOK, NEW c \in Copies,
                      NEW types \in SUBSET EventTypes, NEW window \in Nat, Mature(c, window)
               PROVE  OutcomesOf(c, types) # {} /\ Min(OutcomesOf(c, types)) <= CohortAt(c) + window
                        <=> \E y \in OutcomesOf(c, types) : y <= CohortAt(c) + window
    BY DEF FirstDecides, Within
  <1>1. CohortAt(c) + window \in Nat
    BY CohortTyped DEF Mature
  <1>2. OutcomesOf(c, types) \in SUBSET Nat
    BY OutcomesTyped
  <1> DEFINE O == OutcomesOf(c, types)
             b == CohortAt(c) + window
  <1>3. b \in Nat /\ O \in SUBSET Nat
    BY <1>1, <1>2
  <1> HIDE DEF O, b
  <1>4. O # {} => Min(O) \in O /\ \A y \in O : Min(O) <= y
    BY <1>3, LeastExists
  <1>5. O # {} /\ Min(O) <= b <=> \E y \in O : y <= b
    <2>1. ASSUME NEW y \in O, y <= b PROVE O # {} /\ Min(O) <= b
      <3>1. Min(O) \in Nat /\ y \in Nat /\ Min(O) <= y
        BY <1>3, <1>4, <2>1
      <3> QED
        BY <1>3, <2>1, <3>1
    <2> QED
      BY <1>4, <2>1
  <1> QED
    BY <1>5 DEF O, b

\* Time does not go back, and neither do events.
Onward == day \in Nat /\ day' \in Nat /\ day <= day' /\ events \subseteq events'

LEMMA TimePasses ==
  ASSUME OutcomesAssumption, OutcomesInv, OutcomesNext
  PROVE  OutcomesInv' /\ Onward
  <1>0. /\ day \in Days /\ unwritten \subseteq Sight /\ exposures \subseteq Sight
        /\ readable \subseteq Cited /\ copyAt \in [Copies -> 0 .. MaxCopyVersion]
        /\ cites \subseteq [copy : Copies, version : 1 .. MaxCopyVersion, key : Cited]
        /\ events \subseteq LifecycleEvent /\ open \subseteq LifecycleEvent
        /\ \A o \in events \cup open : o.at <= day /\ o.at \in Nat
        /\ MaxDay \in Nat /\ MaxCopyVersion \in Nat /\ day \in Nat
    BY DEF OutcomesInv, OutcomesTypeOK, EventsPast, OutcomesAssumption, Days, LifecycleEvent
  <1>1. CASE NextDay
    <2>1. day' \in Days /\ day' \in Nat /\ day <= day'
          /\ UNCHANGED <<unwritten, exposures, readable, copyAt, cites, open, events>>
      BY <1>0, <1>1 DEF NextDay, Days
    <2>2. \A o \in events \cup open : o.at <= day'
      BY <1>0, <2>1
    <2> QED
      BY <1>0, <2>1, <2>2 DEF OutcomesInv, OutcomesTypeOK, EventsPast, Onward
  <1>2. ASSUME NEW t \in Turns, NEW e \in Cited, ShowEvidence(t, e)
        PROVE  OutcomesInv' /\ Onward
    <2>1. [turn |-> t, key |-> e, at |-> day] \in Sight
      BY <1>0 DEF Sight
    <2> QED
      BY <1>0, <1>2, <2>1 DEF ShowEvidence, OutcomesInv, OutcomesTypeOK, EventsPast, Onward
  <1>3. ASSUME NEW x \in unwritten, Record(x) \/ Drop(x)
        PROVE  OutcomesInv' /\ Onward
    BY <1>0, <1>3 DEF Record, Drop, OutcomesInv, OutcomesTypeOK, EventsPast, Onward
  <1>4. ASSUME NEW c \in Copies, NEW S \in SUBSET Cited, CopySaved(c, S)
        PROVE  OutcomesInv' /\ Onward
    <2>1. copyAt[c] + 1 \in 1 .. MaxCopyVersion
      BY <1>0, <1>4 DEF CopySaved
    <2>2. copyAt' \in [Copies -> 0 .. MaxCopyVersion]
      BY <1>0, <1>4, <2>1 DEF CopySaved
    <2>3. cites' \subseteq [copy : Copies, version : 1 .. MaxCopyVersion, key : Cited]
      BY <1>0, <1>4, <2>1 DEF CopySaved
    <2> QED
      BY <1>0, <1>4, <2>2, <2>3 DEF CopySaved, OutcomesInv, OutcomesTypeOK, EventsPast, Onward
  <1>5. ASSUME NEW c \in Copies, NEW k \in EventTypes, NEW v \in 1 .. MaxCopyVersion, BeginLifecycle(c, k, v)
        PROVE  OutcomesInv' /\ Onward
    <2> DEFINE o == [copy |-> c, type |-> k, version |-> v, at |-> day]
    <2>1. o \in LifecycleEvent /\ o.at = day
      BY <1>0 DEF LifecycleEvent
    <2>2. open' = open \cup {o} /\ UNCHANGED <<day, unwritten, exposures, readable, copyAt, cites, events>>
      BY <1>5 DEF BeginLifecycle
    <2> HIDE DEF o
    <2> QED
      BY <1>0, <2>1, <2>2 DEF OutcomesInv, OutcomesTypeOK, EventsPast, Onward
  <1>6. ASSUME NEW o \in open, Happen(o) \/ Abandon(o)
        PROVE  OutcomesInv' /\ Onward
    BY <1>0, <1>6 DEF Happen, Abandon, OutcomesInv, OutcomesTypeOK, EventsPast, Onward
  <1>7. ASSUME NEW S \in SUBSET Cited, ChangeReaders(S)
        PROVE  OutcomesInv' /\ Onward
    BY <1>0, <1>7 DEF ChangeReaders, OutcomesInv, OutcomesTypeOK, EventsPast, Onward
  <1> QED
    BY <1>1, <1>2, <1>3, <1>4, <1>5, <1>6, <1>7 DEF OutcomesNext

\* While the attribution stands, copies keep their cohorts, those that count go on
\* counting, and what is new to their outcomes was committed now.
AttributionStands == \A c \in Copies : Attributed(c)' = Attributed(c)

LEMMA CohortsStand ==
  ASSUME AttributionStands
  PROVE  InCohort' = InCohort /\ \A c \in Copies : CohortAt(c)' = CohortAt(c)
  <1>1. InCohort' = InCohort
    BY DEF AttributionStands, InCohort
  <1>2. \A c \in Copies : CohortAt(c)' = CohortAt(c)
    BY DEF AttributionStands, CohortAt
  <1> QED
    BY <1>1, <1>2

LEMMA StillCounted ==
  ASSUME OutcomesAssumption, OutcomesInv, Onward, AttributionStands, NEW window \in Nat
  PROVE  Counted(window) \subseteq Counted(window)' /\ Counted(window)' \subseteq InCohort
  <1>1. InCohort' = InCohort /\ \A c \in Copies : CohortAt(c)' = CohortAt(c)
    BY CohortsStand
  <1>2. \A c \in InCohort : CohortAt(c) \in Nat
    BY CohortTyped DEF OutcomesInv
  <1>3. \A c \in Copies : Mature(c, window) => Mature(c, window)'
    <2> SUFFICES ASSUME NEW c \in Copies, Mature(c, window) PROVE Mature(c, window)'
      OBVIOUS
    <2>1. c \in InCohort /\ CohortAt(c) \in Nat /\ CohortAt(c) + window <= day
      BY <1>2 DEF Mature
    <2>2. CohortAt(c) + window <= day'
      BY <2>1 DEF Onward
    <2>3. c \in InCohort' /\ CohortAt(c)' + window <= day'
      BY <1>1, <2>1, <2>2
    <2> QED
      BY <2>3 DEF Mature
  <1>4. \A c \in Copies : Mature(c, window)' => c \in InCohort
    BY <1>1 DEF Mature
  <1> QED
    BY <1>3, <1>4 DEF Counted

LEMMA OutcomesGrow ==
  ASSUME OutcomesAssumption, OutcomesInv, Onward, AttributionStands,
         NEW c \in Copies, NEW types
  PROVE  /\ OutcomesOf(c, types) \subseteq OutcomesOf(c, types)'
         /\ \A y \in OutcomesOf(c, types)' \ OutcomesOf(c, types) :
              \E o \in events' \ events : y = o.at /\ o.copy = c
  <1> DEFINE Of(o) == o.copy = c /\ o.type \in types /\ \E x \in Attributed(c) : x.version = o.version
  <1>1. CohortAt(c)' = CohortAt(c) /\ Attributed(c)' = Attributed(c)
    BY CohortsStand DEF AttributionStands
  <1>2. /\ \A o \in events : o.at \in Nat /\ o.at <= day
        /\ day \in Nat /\ day' \in Nat /\ day <= day' /\ events \subseteq events'
    BY DEF OutcomesInv, OutcomesTypeOK, EventsPast, Onward, Days, LifecycleEvent
  <1>3. \A y : y \in OutcomesOf(c, types) <=>
          \E o \in events : y = o.at /\ Of(o) /\ o.at >= CohortAt(c) /\ o.at <= day
    BY DEF OutcomesOf
  <1>4. \A y : y \in OutcomesOf(c, types)' <=>
          \E o \in events' : y = o.at /\ Of(o) /\ o.at >= CohortAt(c) /\ o.at <= day'
    <2>1. OutcomesOf(c, types)' =
            {o.at : o \in {q \in events' : /\ q.copy = c /\ q.type \in types
                             /\ q.at >= CohortAt(c)' /\ q.at <= day'
                             /\ \E x \in Attributed(c)' : x.version = q.version}}
      BY DEF OutcomesOf
    <2> QED
      BY <1>1, <2>1
  <1> HIDE DEF Of
  <1>5. OutcomesOf(c, types) \subseteq OutcomesOf(c, types)'
    <2> SUFFICES ASSUME NEW y \in OutcomesOf(c, types) PROVE y \in OutcomesOf(c, types)'
      OBVIOUS
    <2>1. PICK o \in events : y = o.at /\ Of(o) /\ o.at >= CohortAt(c) /\ o.at <= day
      BY <1>3
    <2>2. o \in events' /\ o.at <= day'
      BY <1>2, <2>1
    <2> QED
      BY <1>4, <2>1, <2>2
  <1>6. ASSUME NEW y, y \in OutcomesOf(c, types)', y \notin OutcomesOf(c, types)
        PROVE  \E o \in events' \ events : y = o.at /\ o.copy = c
    <2>1. PICK o \in events' : y = o.at /\ Of(o) /\ o.at >= CohortAt(c) /\ o.at <= day'
      BY <1>4, <1>6
    <2>2. o \notin events
      BY <1>2, <1>3, <1>6, <2>1
    <2> QED
      BY <2>1, <2>2 DEF Of
  <1> QED
    BY <1>5, <1>6

LEMMA VerdictsFinal ==
  ASSUME OutcomesAssumption, OutcomesInv, OutcomesInv', Onward, AttributionStands,
         \A o \in events' \ events : ~Late(o),
         NEW c \in Copies, NEW types \in SUBSET EventTypes,
         NEW window \in {ExplicitWindow, CommittedWindow}, Mature(c, window)
  PROVE  Within(c, types, window)' <=> Within(c, types, window)
  <1>0. window \in Nat
    BY DEF OutcomesAssumption
  <1>1. FirstDecides /\ FirstDecides'
    <2>1. FirstDecides
      BY FirstDecidesLemma DEF OutcomesInv
    <2>2. (OutcomesAssumption /\ OutcomesTypeOK => FirstDecides)'
      BY FirstDecidesLemma, PTL
    <2> QED
      BY <2>1, <2>2 DEF OutcomesInv, OutcomesAssumption
  <1>2. /\ Within(c, types, window) <=> \E y \in OutcomesOf(c, types) : y <= CohortAt(c) + window
        /\ Within(c, types, window)' <=>
             Mature(c, window)' /\ \E y \in OutcomesOf(c, types)' : y <= CohortAt(c)' + window
    BY <1>0, <1>1 DEF FirstDecides
  <1>3. Mature(c, window)' /\ CohortAt(c)' = CohortAt(c)
    BY <1>0, StillCounted, CohortsStand DEF Counted
  <1>4. c \in InCohort /\ CohortAt(c) + window \in Nat /\ CohortAt(c) + window <= day
    BY <1>0, CohortTyped DEF Mature, OutcomesInv
  <1>5. /\ OutcomesOf(c, types) \subseteq OutcomesOf(c, types)'
        /\ \A y \in OutcomesOf(c, types)' \ OutcomesOf(c, types) :
             \E o \in events' \ events : y = o.at /\ o.copy = c
    BY OutcomesGrow
  <1>6. \A y \in OutcomesOf(c, types)' : y <= CohortAt(c) + window => y \in OutcomesOf(c, types)
    <2> SUFFICES ASSUME NEW y \in OutcomesOf(c, types)', y <= CohortAt(c) + window,
                        y \notin OutcomesOf(c, types)
                 PROVE  FALSE
      OBVIOUS
    <2>1. PICK o \in events' \ events : y = o.at /\ o.copy = c
      BY <1>5
    <2>2. Late(o)
      BY <1>4, <2>1 DEF Late
    <2> QED
      BY <2>1, <2>2
  <1> QED
    BY <1>2, <1>3, <1>5, <1>6

LEMMA FiguresStandStep ==
  ASSUME OutcomesAssumption, OutcomesInv, OutcomesInv', Onward
  PROVE  FiguresStand
  <1> SUFFICES ASSUME AttributionStands, Report.censored' = Report.censored,
                      \A o \in events' \ events : ~Late(o)
               PROVE  Report' = Report
    BY DEF FiguresStand, AttributionStands
  <1>0. ExplicitWindow \in Nat /\ CommittedWindow \in Nat /\ IsFiniteSet(Copies)
    BY DEF OutcomesAssumption
  <1>1. InCohort' = InCohort /\ InCohort \subseteq Copies /\ IsFiniteSet(InCohort)
        /\ Cardinality(InCohort) \in Nat
    <2>1. InCohort \subseteq Copies
      BY DEF InCohort
    <2>2. IsFiniteSet(InCohort)
      BY <1>0, <2>1, FS_Subset
    <2> QED
      BY <2>1, <2>2, CohortsStand, FS_CardinalityType
  <1>2. \A window \in {ExplicitWindow, CommittedWindow} :
          /\ Counted(window) \subseteq Counted(window)'
          /\ IsFiniteSet(Counted(window)') /\ Cardinality(Counted(window)') \in Nat
          /\ Cardinality(Counted(window)) \in Nat
    <2> SUFFICES ASSUME NEW window \in {ExplicitWindow, CommittedWindow}
                 PROVE  /\ Counted(window) \subseteq Counted(window)'
                        /\ IsFiniteSet(Counted(window)') /\ Cardinality(Counted(window)') \in Nat
                        /\ Cardinality(Counted(window)) \in Nat
      OBVIOUS
    <2>1. Counted(window) \subseteq Counted(window)' /\ Counted(window)' \subseteq InCohort
      BY <1>0, StillCounted
    <2>2. IsFiniteSet(Counted(window)')
      BY <1>1, <2>1, FS_Subset
    <2>3. IsFiniteSet(Counted(window))
      BY <2>1, <2>2, FS_Subset
    <2> QED
      BY <2>1, <2>2, <2>3, FS_CardinalityType
  <1>3. /\ Report.censored = <<Cardinality(InCohort) - Cardinality(Counted(ExplicitWindow)),
                               Cardinality(InCohort) - Cardinality(Counted(CommittedWindow))>>
        /\ Report.censored' = <<Cardinality(InCohort') - Cardinality(Counted(ExplicitWindow)'),
                                Cardinality(InCohort') - Cardinality(Counted(CommittedWindow)')>>
    BY ReportCounts, ReportCountsThen DEF Summary
  <1>4. /\ Cardinality(Counted(ExplicitWindow)') = Cardinality(Counted(ExplicitWindow))
        /\ Cardinality(Counted(CommittedWindow)') = Cardinality(Counted(CommittedWindow))
    BY <1>1, <1>2, <1>3
  <1>5. /\ Counted(ExplicitWindow)' = Counted(ExplicitWindow)
        /\ Counted(CommittedWindow)' = Counted(CommittedWindow)
    BY <1>2, <1>4, FS_Subset
  <1>6. ASSUME NEW window \in {ExplicitWindow, CommittedWindow}, NEW types \in SUBSET EventTypes,
               Counted(window)' = Counted(window)
        PROVE  Succeeded(types, window)' = Succeeded(types, window)
    <2>1. \A c \in Copies : Mature(c, window)' <=> Mature(c, window)
      BY <1>6 DEF Counted
    <2>2. \A c \in Copies : Within(c, types, window)' <=> Within(c, types, window)
      <3> SUFFICES ASSUME NEW c \in Copies
                   PROVE  Within(c, types, window)' <=> Within(c, types, window)
        OBVIOUS
      <3>1. CASE Mature(c, window)
        BY <3>1, VerdictsFinal
      <3>2. CASE ~Mature(c, window)
        BY <2>1, <3>2 DEF Within
      <3> QED
        BY <3>1, <3>2
    <2> QED
      BY <2>2 DEF Succeeded
  <1>7. /\ Succeeded({"adopted"}, ExplicitWindow)' = Succeeded({"adopted"}, ExplicitWindow)
        /\ Succeeded(EventTypes, CommittedWindow)' = Succeeded(EventTypes, CommittedWindow)
        /\ Succeeded({"published"}, CommittedWindow)' = Succeeded({"published"}, CommittedWindow)
    BY <1>0, <1>5, <1>6 DEF EventTypes
  <1> QED
    BY <1>1, <1>5, <1>7, ReportCounts, ReportCountsThen

LEMMA OutcomesInitial ==
  ASSUME OutcomesAssumption
  PROVE  OutcomesInit => OutcomesInv
  BY DEF OutcomesInit, OutcomesInv, OutcomesTypeOK, EventsPast, Days, OutcomesAssumption

LEMMA OutcomesStep ==
  ASSUME OutcomesAssumption, OutcomesInv, [OutcomesNext]_outcomeVars
  PROVE  OutcomesInv' /\ (UNCHANGED outcomeVars \/ FiguresStand)
  <1>1. CASE OutcomesNext
    BY <1>1, TimePasses, FiguresStandStep
  <1>2. CASE UNCHANGED outcomeVars
    BY <1>2 DEF outcomeVars, OutcomesInv, OutcomesTypeOK, EventsPast
  <1> QED
    BY <1>1, <1>2

(* What the report is made from keeps its types, and no event is later than   *)
(* the clock.                                                                 *)
THEOREM OutcomesTypeCorrect == OutcomesSpec => []OutcomesTypeOK
  <1>1. OutcomesInv => OutcomesTypeOK
    BY DEF OutcomesInv
  <1> QED
    BY <1>1, OutcomesAssumption, OutcomesInitial, OutcomesStep, PTL DEF OutcomesSpec

(* Once the window of a copy has closed its verdict is final, but for a        *)
(* transaction that is dated within the window and commits after it: the       *)
(* figures of the report move only by one of those, when another window closes *)
(* or when the attribution itself changes.                                     *)
THEOREM FiguresAreFinal == OutcomesSpec => FiguresFinal
  <1>1. OutcomesInv /\ [OutcomesNext]_outcomeVars
          => OutcomesInv' /\ [UNCHANGED outcomeVars \/ FiguresStand]_outcomeVars
    BY OutcomesAssumption, OutcomesStep
  <1> QED
    BY <1>1, OutcomesAssumption, OutcomesInitial, PTL DEF OutcomesSpec, FiguresFinal
===============================================================================
