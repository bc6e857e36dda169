-------------------------- MODULE RetrievalOutcomes --------------------------
(* What became of the copies that retrieval fed: RetrievalMetricsRepository   *)
(* .aggregate.  A copy belongs to the cohort of the earliest exposure of its  *)
(* origin turn that it cites by exact version; it counts once its observation *)
(* window has closed, and as adopted if the adoption came inside the window.  *)
EXTENDS Naturals, FiniteSets, FiniteSetsExt

CONSTANTS
  Copies,           \* generated copies of the actor
  Turns,            \* creation turns
  OriginTurn,       \* OriginTurn[c]: the turn a copy was first saved in
  Cited,            \* exact (resource, version) identities retrieval can show
  ExplicitWindow, CommittedWindow,
  MinSample,        \* below it a figure is suppressed
  MaxDay, MaxCopyVersion, MaxSeen, MaxEvents   \* bounds

ASSUME OutcomesAssumption ==
  /\ OriginTurn \in [Copies -> Turns]
  /\ {ExplicitWindow, CommittedWindow, MinSample, MaxDay, MaxCopyVersion,
      MaxSeen, MaxEvents} \subseteq Nat
  /\ ExplicitWindow <= CommittedWindow /\ IsFiniteSet(Copies)

VARIABLES
  day,         \* the one clock of the service and the database, and as_of of a report made now
  unwritten,   \* measurements of runs, dated when they were observed, not yet written
  exposures,   \* knowledge_retrieval_exposures: turn, evidence, created_at
  readable,    \* evidence whose resource the actor reads now
  copyAt,      \* the version of each copy, 0: not saved yet
  cites,       \* derived_from / imitated_from edges: copy, its version, evidence
  open,        \* lifecycle transactions begun and not ended: the event each will commit
  events       \* resource_events of the copies: copy, type, version, created_at

outcomeVars == <<day, unwritten, exposures, readable, copyAt, cites, open, events>>

EventTypes == {"adopted", "finalized_for_schedule", "published"}
Days == 0 .. MaxDay
Sight == [turn : Turns, key : Cited, at : Days]
LifecycleEvent == [copy : Copies, type : EventTypes, version : 1 .. MaxCopyVersion, at : Days]

OutcomesTypeOK ==
  /\ day \in Days
  /\ unwritten \subseteq Sight /\ exposures \subseteq Sight
  /\ readable \subseteq Cited
  /\ copyAt \in [Copies -> 0 .. MaxCopyVersion]
  /\ cites \subseteq [copy : Copies, version : 1 .. MaxCopyVersion, key : Cited]
  /\ open \subseteq LifecycleEvent /\ events \subseteq LifecycleEvent

OutcomesInit ==
  /\ day = 0 /\ unwritten = {} /\ exposures = {} /\ readable = Cited
  /\ copyAt = [c \in Copies |-> 0] /\ cites = {} /\ open = {} /\ events = {}

-----------------------------------------------------------------------------
NextDay ==
  /\ day < MaxDay /\ day' = day + 1
  /\ UNCHANGED <<unwritten, exposures, readable, copyAt, cites, open, events>>

\* A run shows evidence in a turn.  It is dated now, and written when the queue comes to it
\* -- or never, if the queue is full, the write fails or the process ends.
ShowEvidence(t, e) ==
  /\ Cardinality(unwritten \cup exposures) < MaxSeen
  /\ unwritten' = unwritten \cup {[turn |-> t, key |-> e, at |-> day]}
  /\ UNCHANGED <<day, exposures, readable, copyAt, cites, open, events>>
Record(x) ==
  /\ x \in unwritten /\ unwritten' = unwritten \ {x}
  /\ exposures' = exposures \cup {x}
  /\ UNCHANGED <<day, readable, copyAt, cites, open, events>>
Drop(x) ==
  /\ x \in unwritten /\ unwritten' = unwritten \ {x}
  /\ UNCHANGED <<day, exposures, readable, copyAt, cites, open, events>>

\* The copy is saved, or revised, with its exact provenance.
CopySaved(c, S) ==
  /\ copyAt[c] < MaxCopyVersion
  /\ copyAt' = [copyAt EXCEPT ![c] = @ + 1]
  /\ cites' = cites \cup {[copy |-> c, version |-> copyAt[c] + 1, key |-> e] : e \in S}
  /\ UNCHANGED <<day, unwritten, exposures, readable, open, events>>

\* A lifecycle transaction begins: created_at is its now().  It waits for the lock of the
\* copy, finds the version the user named, and the event is seen at its commit.
BeginLifecycle(c, k, v) ==
  /\ Cardinality(open \cup events) < MaxEvents
  /\ open' = open \cup {[copy |-> c, type |-> k, version |-> v, at |-> day]}
  /\ UNCHANGED <<day, unwritten, exposures, readable, copyAt, cites, events>>
Happen(o) ==
  /\ o \in open /\ o.version <= copyAt[o.copy]
  /\ open' = open \ {o} /\ events' = events \cup {o}
  /\ UNCHANGED <<day, unwritten, exposures, readable, copyAt, cites>>
Abandon(o) ==
  /\ o \in open /\ open' = open \ {o}
  /\ UNCHANGED <<day, unwritten, exposures, readable, copyAt, cites, events>>

ChangeReaders(S) ==
  /\ S # readable /\ readable' = S
  /\ UNCHANGED <<day, unwritten, exposures, copyAt, cites, open, events>>

OutcomesNext ==
  \/ NextDay
  \/ \E t \in Turns, e \in Cited : ShowEvidence(t, e)
  \/ \E x \in unwritten : Record(x) \/ Drop(x)
  \/ \E c \in Copies, S \in SUBSET Cited : CopySaved(c, S)
  \/ \E c \in Copies, k \in EventTypes, v \in 1 .. MaxCopyVersion : BeginLifecycle(c, k, v)
  \/ \E o \in open : Happen(o) \/ Abandon(o)
  \/ \E S \in SUBSET Cited : ChangeReaders(S)

OutcomesSpec == OutcomesInit /\ [][OutcomesNext]_outcomeVars

-----------------------------------------------------------------------------
(* The report *)
\* attributed_evidence: what a copy cites of what its origin turn was shown.
Attributed(c) ==
  {[version |-> p[1].version, at |-> p[2].at] :
     p \in {q \in cites \X exposures :
        /\ q[1].copy = c /\ q[2].turn = OriginTurn[c]
        /\ q[1].key = q[2].key /\ q[1].key \in readable}}
InCohort == {c \in Copies : Attributed(c) # {}}
CohortAt(c) == Min({x.at : x \in Attributed(c)})

\* The outcomes of a copy: on a version with exact provenance, since the cohort began.
OutcomesOf(c, types) ==
  {o.at : o \in {o \in events : /\ o.copy = c /\ o.type \in types
                               /\ o.at >= CohortAt(c) /\ o.at <= day
                               /\ \E x \in Attributed(c) : x.version = o.version}}
\* Mutant: a copy is counted from the day it enters its cohort.
MatureAtOnce(c, window) == c \in InCohort
Mature(c, window) == c \in InCohort /\ CohortAt(c) + window <= day
Within(c, types, window) ==
  /\ Mature(c, window)
  /\ OutcomesOf(c, types) # {} /\ Min(OutcomesOf(c, types)) <= CohortAt(c) + window

ExplicitlyAdopted(c) == Within(c, {"adopted"}, ExplicitWindow)
CommittedUse(c)      == Within(c, EventTypes, CommittedWindow)
Published(c)         == Within(c, {"published"}, CommittedWindow)

Report ==
  LET explicit  == Cardinality({c \in Copies : Mature(c, ExplicitWindow)})
      committed == Cardinality({c \in Copies : Mature(c, CommittedWindow)})
      Shows(sample, P(_)) == IF sample >= MinSample THEN {Cardinality({c \in Copies : P(c)})} ELSE {}
  IN  [attributed |-> Cardinality(InCohort),
       censored   |-> <<Cardinality(InCohort) - explicit, Cardinality(InCohort) - committed>>,
       adopted    |-> Shows(explicit, ExplicitlyAdopted),
       committed  |-> Shows(committed, CommittedUse),
       published  |-> Shows(committed, Published),
       suppressed |-> explicit < MinSample \/ committed < MinSample]

\* A transaction dated within a window of its copy that reports already count as closed.
Late(o) ==
  /\ o.copy \in InCohort
  /\ \E window \in {ExplicitWindow, CommittedWindow} :
       CohortAt(o.copy) + window <= day /\ o.at <= CohortAt(o.copy) + window

(* The figures move only when a window closes, the attribution changes or a     *)
(* transaction commits that is dated within a window counted as closed.  Short  *)
(* of that the verdict on a copy that counts is final: no outcome begun later   *)
(* and no later report changes a rate, and no rate counts a copy whose window   *)
(* is open.                                                                     *)
FiguresStand ==
  /\ \A c \in Copies : Attributed(c)' = Attributed(c)
  /\ Report.censored' = Report.censored
  /\ \A o \in events' \ events : ~Late(o)
  => Report' = Report
FiguresFinal == [][UNCHANGED outcomeVars \/ FiguresStand]_outcomeVars
=============================================================================
