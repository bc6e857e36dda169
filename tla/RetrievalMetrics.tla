-------------------------- MODULE RetrievalMetrics --------------------------
(* The record of what retrieval showed: RetrievalMetricsRepository.record and *)
(* .delete_expired, run by the writers of the dispatcher and by the retention *)
(* script over the same three tables.  A run has exposures, an exposure names *)
(* an evidence identity, an identity lives as long as an exposure names it.   *)
(*                                                                            *)
(* One action per statement under READ COMMITTED.  A statement waits for the  *)
(* row locks of another transaction, SKIP LOCKED passes them over; what a     *)
(* transaction has written shows when it commits.                             *)
EXTENDS Naturals, FiniteSets

CONSTANTS
  Runs,          \* tool calls; the row is keyed by tenant, actor and tool call
  Evidence,      \* exact (resource, version) identities
  ShownBy,       \* ShownBy[r]: what the result of the call showed
  NoRun,
  Writers,       \* transactions that record
  Cleaners,      \* transactions that delete what has expired
  MaxTime        \* bound: observation times

ASSUME MetricsAssumption ==
  /\ MaxTime \in Nat /\ ShownBy \in [Runs -> SUBSET Evidence]
  /\ IsFiniteSet(Evidence) /\ NoRun \notin Runs

VARIABLES
  row,        \* knowledge_retrieval_runs: created_at (0: no row) and evidence_count
  exposed,    \* knowledge_retrieval_exposures: created_at per run and evidence, 0: none
  identity,   \* knowledge_retrieval_evidence_keys
  shareable,  \* evidence that is a current target its actor may read
  writer, cleaner,
  earliest    \* history: the earliest observation of the run now stored

metricVars == <<row, exposed, identity, shareable, writer, cleaner, earliest>>

Times == 0 .. MaxTime
NoWriter  == [at |-> "idle", run |-> NoRun, time |-> 0, keys |-> {}]
NoCleaner == [at |-> "idle", runs |-> {}, pairs |-> {}, keys |-> {}, gone |-> {}, orphans |-> {}]

MetricsTypeOK ==
  /\ row \in [Runs -> [time : Times, count : 0 .. Cardinality(Evidence)]]
  /\ exposed \in [Runs -> [Evidence -> Times]]
  /\ identity \subseteq Evidence /\ shareable \subseteq Evidence
  /\ writer \in [Writers -> [at : {"idle", "inserted", "mapped"}, run : Runs \cup {NoRun}, time : Times,
                             keys : SUBSET Evidence]]
  /\ cleaner \in [Cleaners -> [at : {"idle", "chosen", "read", "locked", "deleted"}, runs : SUBSET Runs,
                               pairs : SUBSET (Runs \X Evidence), keys : SUBSET Evidence,
                               gone : SUBSET Runs, orphans : SUBSET Evidence]]
  /\ earliest \in [Runs -> Times]

MetricsInit ==
  /\ row = [r \in Runs |-> [time |-> 0, count |-> 0]]
  /\ exposed = [r \in Runs |-> [e \in Evidence |-> 0]]
  /\ identity = {}
  /\ shareable = Evidence
  /\ writer = [w \in Writers |-> NoWriter]
  /\ cleaner = [c \in Cleaners |-> NoCleaner]
  /\ earliest = [r \in Runs |-> 0]

-----------------------------------------------------------------------------
\* Row locks: a run inserted and not committed, or chosen by a cleaner; an identity
\* upserted by a writer or taken by a cleaner.
RunLocked(r) ==
  \/ \E w \in Writers : writer[w].at # "idle" /\ writer[w].run = r
  \/ \E c \in Cleaners : r \in cleaner[c].runs
KeyLocked(e) ==
  \/ \E w \in Writers : writer[w].at = "mapped" /\ e \in writer[w].keys
  \/ \E c \in Cleaners : e \in cleaner[c].keys

\* The same call observed again: the earlier observation stands, on the run and on its
\* exposures; a replay with another payload raises and leaves no trace.
Earlier(a, b) == IF a < b THEN a ELSE b
Replay(r, t) ==
  /\ row[r].time # 0
  /\ row' = [row EXCEPT ![r].time = Earlier(@, t)]
  /\ exposed' = [exposed EXCEPT ![r] = [e \in Evidence |->
                   IF @[e] = 0 THEN 0 ELSE Earlier(@[e], t)]]
  /\ earliest' = [earliest EXCEPT ![r] = IF @ < t THEN @ ELSE t]
  /\ UNCHANGED <<identity, shareable, writer, cleaner>>

\* insert into runs ... on conflict: a new row, or the replay of a stored one.
InsertRun(w, r, t) ==
  /\ writer[w].at = "idle" /\ ~RunLocked(r)
  /\ \/ Replay(r, t)
     \/ /\ row[r].time = 0
        /\ writer' = [writer EXCEPT ![w] = [at |-> "inserted", run |-> r, time |-> t, keys |-> {}]]
        /\ UNCHANGED <<row, exposed, identity, shareable, cleaner, earliest>>

\* The identities, upserted in key order and locked: only current targets the actor reads.
MapEvidence(w) ==
  LET keys == ShownBy[writer[w].run] \cap shareable
  IN  /\ writer[w].at = "inserted"
      /\ \A e \in keys : ~KeyLocked(e)
      /\ writer' = [writer EXCEPT ![w].at = "mapped", ![w].keys = keys]
      /\ UNCHANGED <<row, exposed, identity, shareable, cleaner, earliest>>

\* The exposures, the count of those stored, the commit.
CommitRun(w) ==
  LET r == writer[w].run
      k == writer[w].keys
  IN  /\ writer[w].at = "mapped"
      /\ row' = [row EXCEPT ![r] = [time |-> writer[w].time, count |-> Cardinality(k)]]
      /\ exposed' = [exposed EXCEPT ![r] = [e \in Evidence |->
                       IF e \in k THEN writer[w].time ELSE 0]]
      /\ identity' = identity \cup k
      /\ earliest' = [earliest EXCEPT ![r] = writer[w].time]
      /\ writer' = [writer EXCEPT ![w] = NoWriter]
      /\ UNCHANGED <<shareable, cleaner>>
\* A timeout of the statement or of a lock: nothing was written.
AbortRun(w) ==
  /\ writer[w].at # "idle"
  /\ writer' = [writer EXCEPT ![w] = NoWriter]
  /\ UNCHANGED <<row, exposed, identity, shareable, cleaner, earliest>>

-----------------------------------------------------------------------------
(* delete_expired *)
\* for update skip locked, a batch of what is older than the bound.
ChooseRuns(c, t) ==
  LET old == {r \in Runs : row[r].time # 0 /\ row[r].time < t /\ ~RunLocked(r)}
  IN  /\ cleaner[c].at = "idle" /\ old # {}
      /\ cleaner' = [cleaner EXCEPT ![c].at = "chosen", ![c].runs = old]
      /\ UNCHANGED <<row, exposed, identity, shareable, writer, earliest>>

ReadExposures(c) ==
  /\ cleaner[c].at = "chosen"
  /\ cleaner' = [cleaner EXCEPT ![c].at = "read",
       ![c].pairs = {p \in cleaner[c].runs \X Evidence : exposed[p[1]][p[2]] # 0}]
  /\ UNCHANGED <<row, exposed, identity, shareable, writer, earliest>>

\* for update of identity skip locked
LockIdentities(c) ==
  /\ cleaner[c].at = "read"
  /\ cleaner' = [cleaner EXCEPT ![c].at = "locked",
       ![c].keys = {e \in {p[2] : p \in cleaner[c].pairs} : e \in identity /\ ~KeyLocked(e)}]
  /\ UNCHANGED <<row, exposed, identity, shareable, writer, earliest>>

\* A run that shows evidence another transaction holds stays for a later batch.
\* Mutant: every chosen run is deleted, whoever holds its evidence.
EligibleAll(c) == c.runs
Eligible(c) == {r \in c.runs : \A p \in c.pairs : p[1] = r => p[2] \in c.keys}

\* The runs with their exposures, then the identities no exposure names, as far as this
\* transaction sees.
DeleteRuns(c) ==
  LET gone == Eligible(cleaner[c])
      keys == {p[2] : p \in {q \in cleaner[c].pairs : q[1] \in gone}}
  IN  /\ cleaner[c].at = "locked"
      /\ cleaner' = [cleaner EXCEPT ![c].at = "deleted", ![c].gone = gone,
           ![c].orphans = {e \in keys : \A r \in Runs \ gone : exposed[r][e] = 0}]
      /\ UNCHANGED <<row, exposed, identity, shareable, writer, earliest>>
CommitDelete(c) ==
  LET gone == cleaner[c].gone
  IN  /\ cleaner[c].at = "deleted"
      /\ row' = [r \in Runs |-> IF r \in gone THEN [time |-> 0, count |-> 0] ELSE row[r]]
      /\ exposed' = [r \in Runs |-> IF r \in gone THEN [e \in Evidence |-> 0] ELSE exposed[r]]
      /\ identity' = identity \ cleaner[c].orphans
      /\ earliest' = [r \in Runs |-> IF r \in gone THEN 0 ELSE earliest[r]]
      /\ cleaner' = [cleaner EXCEPT ![c] = NoCleaner]
      /\ UNCHANGED <<shareable, writer>>

\* Resources change hands and versions under all this.
Share(S) ==
  /\ S # shareable
  /\ shareable' = S
  /\ UNCHANGED <<row, exposed, identity, writer, cleaner, earliest>>

MetricsNext ==
  \/ \E w \in Writers : MapEvidence(w) \/ CommitRun(w) \/ AbortRun(w)
                        \/ \E r \in Runs, t \in 1 .. MaxTime : InsertRun(w, r, t)
  \/ \E c \in Cleaners : ReadExposures(c) \/ LockIdentities(c) \/ DeleteRuns(c) \/ CommitDelete(c)
                         \/ \E t \in 1 .. MaxTime + 1 : ChooseRuns(c, t)
  \/ \E S \in SUBSET Evidence : Share(S)

MetricsSpec == MetricsInit /\ [][MetricsNext]_metricVars

-----------------------------------------------------------------------------
(* The identities are those of the stored exposures, no more and no fewer, and *)
(* each run counts its own: recording, replaying and two retention passes at   *)
(* once leave no identity nobody names and none missing from a report.         *)
Shown(r) == {e \in Evidence : exposed[r][e] # 0}
IdentitiesExact ==
  /\ identity = UNION {Shown(r) : r \in Runs}
  /\ \A r \in Runs : row[r].count = Cardinality(Shown(r)) /\ (row[r].time = 0 => Shown(r) = {})

(* A tool call observed several times, in any order, is dated by its earliest *)
(* observation, and so is everything it showed.                               *)
EarliestKept ==
  \A r \in Runs : row[r].time = earliest[r] /\ \A e \in Shown(r) : exposed[r][e] = row[r].time

(* What the metrics are reported from is exact. *)
MeasurementsExact == IdentitiesExact /\ EarliestKept
=============================================================================
