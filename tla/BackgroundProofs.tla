--------------------------- MODULE BackgroundProofs ---------------------------
(* What runs beside the requests: SourceSync for any sources, schedulers and *)
(* bounds, and ServiceProcess for any measurements, permits, writers and     *)
(* lifespans.                                                                *)
EXTENDS SourceSync, ServiceProcess, FiniteSetTheorems, TLAPS

(* SourceSync: however syncs fail, time out, crash or lose their lease, no   *)
(* row behind a cursor is missing, and a success has imported everything its *)
(* reads brought.                                                            *)

WorkStages == {"read", "renew", "import", "finish", "record"}
Begun  == [stage : {"lease"}, token : LeaseTokens]
Bound  == [stage : {"start"}, token : LeaseTokens, source : Sources]
Syncs  == [stage : WorkStages, token : LeaseTokens, source : Sources, run : 1 .. MaxRuns,
           from : 0 .. MaxRow, cursor : 0 .. MaxRow, rest : SUBSET Rows,
           errors : BOOLEAN, some : BOOLEAN]
Jobs   == {SyncIdle} \cup Begun \cup Bound \cup Syncs
ByHand == [stage : {"import", "record", "finish"}, run : 1 .. MaxRuns, rest : SUBSET Feishu,
           errors : BOOLEAN, some : BOOLEAN]
RunRows == [source : Sources \cup {CHOOSE s \in Sources : TRUE}, status : RunStatus,
            stale : BOOLEAN, promise : SUBSET (Sources \X Rows)]

SyncTyped ==
  /\ tableRows \in [Sources -> 0 .. MaxRow] /\ imported \in [Sources -> SUBSET Rows]
  /\ owner \in [Sources -> LeaseTokens \cup {NoLeaseToken}]
  /\ lease \in [Sources -> {"none", "live", "expired"}] /\ cursor \in [Sources -> 0 .. MaxRow]
  /\ \A s \in Sources : lease[s] = "none" <=> owner[s] = NoLeaseToken
  /\ runs \in [1 .. MaxRuns -> RunRows] /\ job \in [Schedulers -> Jobs]
  /\ manual \in {SyncIdle} \cup ByHand

\* A token names one cycle, and a run one sync, which has not succeeded yet.
TokensDistinct ==
  \A v, w \in Schedulers : v # w /\ job[v] # SyncIdle /\ job[w] # SyncIdle =>
    job[v].token # job[w].token
RunsDistinct ==
  /\ \A v, w \in Schedulers : v # w /\ Working(v) /\ Working(w) => job[v].run # job[w].run
  /\ manual # SyncIdle => \A w \in Schedulers : Working(w) => job[w].run # manual.run
  /\ \A w \in Schedulers : Working(w) => runs[job[w].run].status # "succeeded"
  /\ manual.stage \in {"import", "record"} => runs[manual.run].status # "succeeded"

\* What a sync of a table has behind its cursor is imported; while it owns the source the
\* saved cursor is the one it began from; its page is what follows the cursor.
Paged(j) ==
  /\ j.from <= j.cursor /\ 1 .. j.cursor \subseteq imported[j.source]
  /\ owner[j.source] = j.token => cursor[j.source] = j.from
  /\ j.stage \in {"renew", "import"} =>
       /\ j.rest # {} /\ \A r \in j.rest : j.cursor < r
       /\ \A r \in j.rest, q \in Rows : j.cursor < q /\ q < r => q \in j.rest

\* Without errors, the rows a run answers for are imported or still ahead of the sync.
Ahead(j, p) ==
  \/ j.stage = "read" /\ j.source \in Tables
  \/ j.stage \in {"renew", "import"} /\ (j.source \in Tables \/ p[2] \in j.rest)
Answers(j) ==
  runs[j.run].status = "running" => \A p \in runs[j.run].promise :
    /\ p[1] = j.source /\ p[2] <= tableRows[j.source]
    /\ ~ j.errors => p \in Imported \/ Ahead(j, p)

JobOK(j) ==
  /\ j.stage = "lease" => \A s \in Sources : owner[s] # j.token
  /\ j.stage \notin {"idle", "lease"} => \A s \in Sources : owner[s] = j.token => s = j.source
  /\ j.stage \in WorkStages => (j.source \in Tables => Paged(j)) /\ Answers(j)
JobsOK == \A w \in Schedulers : JobOK(job[w])

ManualOK ==
  manual # SyncIdle /\ runs[manual.run].status = "running" /\ ~ manual.errors =>
      runs[manual.run].promise \subseteq Imported

SyncInv ==
  /\ SyncTyped /\ TokensDistinct /\ RunsDistinct /\ JobsOK /\ ManualOK
  /\ NothingSkipped /\ SucceededImported
-----------------------------------------------------------------------------
\* What a step does to the world behind the syncs: rows and imports only grow, runs only
\* end, and never by success.
Grows ==
  /\ tableRows' \in [Sources -> 0 .. MaxRow] /\ imported' \in [Sources -> SUBSET Rows]
  /\ \A s \in Sources : tableRows[s] <= tableRows'[s] /\ imported[s] \subseteq imported'[s]
RunsKept ==
  /\ runs' \in [1 .. MaxRuns -> RunRows]
  /\ \A i \in 1 .. MaxRuns : runs'[i].status \in {"running", "succeeded"} =>
       runs'[i].status = runs[i].status /\ runs'[i].promise = runs[i].promise

\* A step of others leaves a sync what it owns and the run it answers for.
Spares(j) ==
  /\ \A s \in Sources : owner'[s] # j.token \/ (owner'[s] = owner[s] /\ cursor'[s] = cursor[s])
  /\ j.stage \in WorkStages /\ runs'[j.run].status = "running" =>
       runs[j.run].status = "running" /\ runs'[j.run].promise = runs[j.run].promise
  /\ j.stage \in WorkStages /\ runs'[j.run].status = "succeeded" => runs[j.run].status = "succeeded"

LEMMA JobKinds ==
  ASSUME NEW j \in Jobs
  PROVE  /\ j.stage \in {"idle", "lease", "start"} \cup WorkStages
         /\ j.stage = "idle" <=> j = SyncIdle
         /\ j.stage = "lease" <=> j \in Begun
         /\ j.stage = "start" <=> j \in Bound
         /\ j.stage \in WorkStages <=> j \in Syncs
         /\ j # SyncIdle => j.token \in LeaseTokens
         /\ j.stage \in WorkStages \cup {"start"} => j.source \in Sources
  <1>1. CASE j = SyncIdle
    BY <1>1 DEF SyncIdle, WorkStages, Begun, Bound, Syncs
  <1>2. CASE j \in Begun
    BY <1>2 DEF SyncIdle, WorkStages, Begun, Bound, Syncs
  <1>3. CASE j \in Bound
    BY <1>3 DEF SyncIdle, WorkStages, Begun, Bound, Syncs
  <1>4. CASE j \in Syncs
    BY <1>4 DEF SyncIdle, WorkStages, Begun, Bound, Syncs
  <1> QED
    BY <1>1, <1>2, <1>3, <1>4 DEF Jobs

LEMMA ImportedGrows == Grows => Imported \subseteq Imported'
  BY DEF Grows, Imported

LEMMA PagedStays ==
  ASSUME NEW j \in Syncs, Paged(j), Grows, Spares(j)
  PROVE  Paged(j)'
  <1>1. j.source \in Sources
    BY DEF Syncs
  <1>2. imported[j.source] \subseteq imported'[j.source]
    BY <1>1 DEF Grows
  <1>3. owner'[j.source] = j.token => cursor'[j.source] = j.from
    BY <1>1 DEF Spares, Paged
  <1> QED
    BY <1>2, <1>3 DEF Paged

LEMMA AnswersStay ==
  ASSUME SyncTyped, NEW j \in Syncs, Answers(j), Grows, Spares(j)
  PROVE  Answers(j)'
  <1>1. j.source \in Sources /\ j.stage \in WorkStages
    BY DEF Syncs
  <1>2. SUFFICES ASSUME runs'[j.run].status = "running", NEW p \in runs'[j.run].promise
                 PROVE  /\ p[1] = j.source /\ p[2] <= tableRows'[j.source]
                        /\ ~ j.errors => p \in Imported' \/ Ahead(j, p)
    BY DEF Answers, Ahead
  <1>3. runs[j.run].status = "running" /\ p \in runs[j.run].promise
    BY <1>1, <1>2 DEF Spares
  <1>4. p[2] \in Nat
    <2>1. j.run \in 1 .. MaxRuns
      BY DEF Syncs
    <2>2. runs[j.run].promise \subseteq Sources \X Rows
      BY <2>1 DEF SyncTyped, RunRows
    <2> QED
      BY <1>3, <2>2 DEF Rows
  <1>5. tableRows[j.source] \in Nat /\ tableRows'[j.source] \in Nat /\ tableRows[j.source] <= tableRows'[j.source]
    BY <1>1, SourceConstants DEF SyncTyped, Grows
  <1>6. /\ p[1] = j.source /\ p[2] <= tableRows[j.source]
        /\ ~ j.errors => p \in Imported \/ Ahead(j, p)
    BY <1>3 DEF Answers
  <1> QED
    BY <1>4, <1>5, <1>6, ImportedGrows

LEMMA JobStays ==
  ASSUME SyncTyped, NEW j \in Jobs, JobOK(j), Grows, j # SyncIdle => Spares(j)
  PROVE  JobOK(j)'
  <1>1. CASE j = SyncIdle
    BY <1>1 DEF JobOK, SyncIdle, WorkStages
  <1>2. CASE j # SyncIdle
    <2>1. \A s \in Sources : owner'[s] # j.token \/ owner'[s] = owner[s]
      BY <1>2 DEF Spares
    <2>2. j.stage \in WorkStages => (j.source \in Tables => Paged(j)') /\ Answers(j)'
      BY <1>2, JobKinds, PagedStays, AnswersStay DEF JobOK
    <2> QED
      BY <2>1, <2>2 DEF JobOK
  <1> QED
    BY <1>1, <1>2

LEMMA JobsStay ==
  ASSUME SyncTyped, JobsOK, Grows, job' = job,
         \A w \in Schedulers : job[w] # SyncIdle => Spares(job[w])
  PROVE  JobsOK'
  <1> SUFFICES ASSUME NEW w \in Schedulers PROVE JobOK(job[w])'
    BY DEF JobsOK
  <1> DEFINE j == job[w]
  <1>1. PICK k : k = job[w]
    OBVIOUS
  <1>2. k \in Jobs /\ JobOK(k) /\ (k # SyncIdle => Spares(k))
    BY <1>1 DEF SyncTyped, JobsOK
  <1>3. JobOK(k)'
    BY <1>2, JobStays
  <1> QED
    BY <1>1, <1>3

\* One scheduler moves to j and spares the others.
LEMMA OneCycleMoves ==
  ASSUME SyncInv, NEW w \in Schedulers, NEW j \in Jobs, job' = [job EXCEPT ![w] = j],
         Grows, JobOK(j)', manual' = manual,
         \A v \in Schedulers \ {w} : job[v] # SyncIdle =>
           Spares(job[v]) /\ (j # SyncIdle => job[v].token # j.token),
         j.stage \in WorkStages =>
           /\ \A v \in Schedulers \ {w} : Working(v) => job[v].run # j.run
           /\ manual # SyncIdle => manual.run # j.run
           /\ runs'[j.run].status # "succeeded",
         manual # SyncIdle /\ runs'[manual.run].status = "succeeded" =>
           runs[manual.run].status = "succeeded"
  PROVE  job' \in [Schedulers -> Jobs] /\ TokensDistinct' /\ RunsDistinct' /\ JobsOK'
  <1>1. job \in [Schedulers -> Jobs]
    BY DEF SyncInv, SyncTyped
  <1>2. job' \in [Schedulers -> Jobs] /\ job'[w] = j /\ \A v \in Schedulers \ {w} : job'[v] = job[v]
    BY <1>1
  <1>3. TokensDistinct'
    BY <1>2 DEF SyncInv, TokensDistinct
  <1>4. RunsDistinct'
    <2>1. Working(w)' => j.stage \in WorkStages
      BY <1>2 DEF Working, WorkStages
    <2>2. \A v \in Schedulers \ {w} : Working(v)' => Working(v)
      BY <1>2 DEF Working
    <2>3. \A v \in Schedulers \ {w} : Working(v) =>
            job[v] # SyncIdle /\ job[v].stage \in WorkStages /\ runs[job[v].run].status # "succeeded"
      BY DEF SyncInv, RunsDistinct, Working, WorkStages, SyncIdle
    <2>4. \A v \in Schedulers : Working(v)' => runs'[job'[v].run].status # "succeeded"
      BY <1>2, <2>1, <2>2, <2>3 DEF Spares
    <2>5. manual.stage \in {"import", "record"} => manual # SyncIdle
      BY DEF SyncIdle
    <2> QED
      BY <1>2, <2>1, <2>2, <2>4, <2>5 DEF SyncInv, RunsDistinct
  <1>5. JobsOK'
    <2> SUFFICES ASSUME NEW v \in Schedulers PROVE JobOK(job[v])'
      BY DEF JobsOK
    <2>1. PICK k : k = job'[v]
      OBVIOUS
    <2>2. CASE v = w
      BY <1>2, <2>2
    <2>3. CASE v # w
      <3>1. k \in Jobs /\ JobOK(k) /\ (k # SyncIdle => Spares(k)) /\ SyncTyped
        BY <1>1, <1>2, <2>1, <2>3 DEF SyncInv, JobsOK
      <3>2. JobOK(k)'
        BY <3>1, JobStays
      <3> QED
        BY <2>1, <3>2
    <2> QED
      BY <2>2, <2>3
  <1> QED
    BY <1>2, <1>3, <1>4, <1>5

\* A cycle goes on under its token and with its run.
LEMMA OneGoesOn ==
  ASSUME SyncInv, NEW w \in Schedulers, NEW j \in Jobs, job' = [job EXCEPT ![w] = j],
         job[w] # SyncIdle, j # SyncIdle => j.token = job[w].token,
         j.stage \in WorkStages => Working(w) /\ j.run = job[w].run,
         Grows, RunsKept, JobOK(j)', manual' = manual,
         \A v \in Schedulers \ {w} : job[v] # SyncIdle => Spares(job[v])
  PROVE  job' \in [Schedulers -> Jobs] /\ TokensDistinct' /\ RunsDistinct' /\ JobsOK'
  <1>1. \A v \in Schedulers \ {w} : job[v] # SyncIdle => (j # SyncIdle => job[v].token # j.token)
    BY DEF SyncInv, TokensDistinct
  <1>2. j.stage \in WorkStages =>
          /\ \A v \in Schedulers \ {w} : Working(v) => job[v].run # j.run
          /\ manual # SyncIdle => manual.run # j.run
          /\ runs[j.run].status # "succeeded"
    BY DEF SyncInv, RunsDistinct
  <1>3. j.stage \in WorkStages => j.run \in 1 .. MaxRuns
    BY JobKinds DEF Syncs
  <1>4. manual # SyncIdle => manual.run \in 1 .. MaxRuns
    BY DEF SyncInv, SyncTyped, ByHand
  <1> QED
    BY <1>1, <1>2, <1>3, <1>4, OneCycleMoves DEF RunsKept

LEMMA ManualStays ==
  ASSUME SyncTyped, ManualOK, Grows, manual' = manual, runs' \in [1 .. MaxRuns -> RunRows],
         manual # SyncIdle /\ runs'[manual.run].status = "running" =>
           runs[manual.run].status = "running" /\ runs'[manual.run].promise = runs[manual.run].promise
  PROVE  ManualOK'
  <1>1. SUFFICES ASSUME manual # SyncIdle, runs'[manual.run].status = "running", ~ manual.errors
                 PROVE  runs'[manual.run].promise \subseteq Imported'
    BY DEF ManualOK
  <1>2. runs[manual.run].promise \subseteq Imported
    BY <1>1 DEF ManualOK
  <1> QED
    BY <1>1, <1>2, ImportedGrows

LEMMA SucceededStays ==
  ASSUME SyncTyped, SucceededImported, Grows, runs' \in [1 .. MaxRuns -> RunRows],
         \A i \in 1 .. MaxRuns : runs'[i].status = "succeeded" =>
           (runs[i].status = "succeeded" /\ runs'[i].promise = runs[i].promise)
           \/ runs'[i].promise \subseteq Imported'
  PROVE  SucceededImported'
  <1> SUFFICES ASSUME NEW i \in 1 .. MaxRuns, runs'[i].status = "succeeded"
               PROVE  runs'[i].promise \subseteq Imported'
    BY DEF SucceededImported, SyncTyped
  <1>1. i \in DOMAIN runs
    BY DEF SyncTyped
  <1> QED
    BY <1>1, ImportedGrows DEF SucceededImported

LEMMA NothingSkippedStays ==
  ASSUME NothingSkipped, Grows, \A s \in Tables : cursor'[s] = cursor[s]
  PROVE  NothingSkipped'
  BY DEF NothingSkipped, Grows, Sources

\* What a step that only ends runs keeps.
LEMMA QuietWorld ==
  ASSUME SyncInv, Grows, RunsKept, manual' = manual
  PROVE  ManualOK' /\ SucceededImported'
  <1>1. manual # SyncIdle => manual.run \in 1 .. MaxRuns
    BY DEF SyncInv, SyncTyped, ByHand
  <1>2. ManualOK'
    BY <1>1, ManualStays DEF SyncInv, RunsKept
  <1>3. SucceededImported'
    BY SucceededStays DEF SyncInv, RunsKept
  <1> QED
    BY <1>2, <1>3

LEMMA SpareWhenKept ==
  ASSUME SyncTyped, RunsKept, NEW j \in Jobs,
         \A s \in Sources : owner'[s] # j.token \/ (owner'[s] = owner[s] /\ cursor'[s] = cursor[s])
  PROVE  Spares(j)
  <1>1. j.stage \in WorkStages => j.run \in 1 .. MaxRuns
    BY JobKinds DEF Syncs
  <1> QED
    BY <1>1 DEF Spares, RunsKept

LEMMA RunsSame == SyncTyped /\ runs' = runs => RunsKept
  BY DEF SyncTyped, RunsKept
LEMMA RunFails ==
  ASSUME SyncTyped, NEW i, NEW st \in RunStatus \ {"running", "succeeded"}, runs' = FinishedRun(i, st)
  PROVE  RunsKept
  <1>1. CASE runs[i].status = "running" /\ i \in 1 .. MaxRuns
    <2>1. runs' = [runs EXCEPT ![i] = [[runs[i] EXCEPT !.status = st] EXCEPT !.stale = FALSE]]
      BY <1>1 DEF FinishedRun, SyncTyped, RunRows
    <2> DEFINE r == [[runs[i] EXCEPT !.status = st] EXCEPT !.stale = FALSE]
    <2>2. runs[i] \in RunRows
      BY <1>1 DEF SyncTyped
    <2>3. r \in RunRows /\ r.status = st
      BY <2>2 DEF RunRows
    <2>4. runs' = [runs EXCEPT ![i] = r]
      BY <2>1
    <2> HIDE DEF r
    <2>5. runs' \in [1 .. MaxRuns -> RunRows]
      BY <2>3, <2>4 DEF SyncTyped
    <2>6. runs'[i].status = st /\ \A k \in 1 .. MaxRuns : k # i => runs'[k] = runs[k]
      BY <1>1, <2>3, <2>4 DEF SyncTyped
    <2> QED
      BY <2>5, <2>6 DEF RunsKept
  <1>2. CASE runs[i].status # "running"
    BY <1>2, RunsSame DEF FinishedRun
  <1>3. CASE runs[i].status = "running" /\ i \notin 1 .. MaxRuns
    <2>1. runs' = runs
      BY <1>3 DEF FinishedRun, SyncTyped
    <2> QED
      BY <2>1, RunsSame
  <1> QED
    BY <1>1, <1>2, <1>3
LEMMA StillWorld ==
  SyncTyped /\ tableRows' = tableRows /\ imported' = imported => Grows
  BY SourceConstants DEF SyncTyped, Grows
-----------------------------------------------------------------------------
\* Rows are natural numbers up to a bound: a set of them that is not empty has a lowest
\* and a highest.
LEMMA LowestExists ==
  ASSUME NEW S \in SUBSET Nat, S # {}
  PROVE  \E x \in S : \A y \in S : x <= y
  <1> DEFINE Less == {ss \in Nat \X Nat : ss[1] < ss[2]}
  <1>1. IsWellFoundedOn(Less, Nat)
    BY NatLessThanWellFounded DEF OpToRel
  <1> HIDE DEF Less
  <1>2. PICK x \in S : \A y \in S : ~(<<y, x>> \in Less)
    BY <1>1, WFMin
  <1>3. \A y \in S : x <= y
    <2> SUFFICES ASSUME NEW y \in S PROVE x <= y
      OBVIOUS
    <2>1. x \in Nat /\ y \in Nat /\ ~(<<y, x>> \in Less)
      BY <1>2
    <2> QED
      BY <2>1 DEF Less
  <1> QED
    BY <1>3

LEMMA HighestExists ==
  ASSUME NEW S \in SUBSET Rows, S # {}
  PROVE  Max(S) \in S /\ \A y \in S : y <= Max(S)
  <1>1. S \subseteq Nat /\ MaxRow \in Nat /\ \A y \in S : y <= MaxRow
    BY SourceConstants DEF Rows
  <1> DEFINE B == {n \in Nat : \A y \in S : y <= n}
  <1>2. B \in SUBSET Nat /\ B # {}
    BY <1>1
  <1>3. PICK m \in B : \A n \in B : m <= n
    BY <1>2, LowestExists
  <1>4. m \in Nat /\ \A y \in S : y <= m
    BY <1>3
  <1>5. m \in S
    <2> SUFFICES ASSUME m \notin S PROVE FALSE
      OBVIOUS
    <2>1. PICK y \in S : TRUE
      OBVIOUS
    <2>2. m # 0
      BY <1>1, <1>4, <2>1 DEF Rows
    <2>3. m - 1 \in Nat /\ \A z \in S : z <= m - 1
      BY <1>1, <1>4, <2>2
    <2>4. m - 1 \in B
      BY <2>3
    <2> QED
      BY <1>3, <1>4, <2>4
  <1>6. \E x \in S : \A y \in S : x >= y
    BY <1>1, <1>4, <1>5
  <1>7. Max(S) \in S /\ \A y \in S : Max(S) >= y
    BY <1>6 DEF Max
  <1> QED
    BY <1>1, <1>7

\* A page is not empty, and has every row below a row of it.
LEMMA PageOfRest ==
  ASSUME NEW R \in SUBSET Rows, R # {}
  PROVE  /\ Chunk(R) # {} /\ Chunk(R) \subseteq R
         /\ \A r \in Chunk(R), q \in R : q < r => q \in Chunk(R)
  <1>1. IsFiniteSet(Rows) /\ R \subseteq Nat
    BY FS_Interval, SourceConstants DEF Rows
  <1>2. IsFiniteSet(R)
    BY <1>1, FS_Subset
  <1>3. Chunk(R) # {}
    <2>1. PICK x \in R : \A y \in R : x <= y
      BY <1>1, LowestExists
    <2>2. \A q \in R : ~ (q < x)
      <3> SUFFICES ASSUME NEW q \in R, q < x PROVE FALSE
        OBVIOUS
      <3>1. q \in Nat /\ x \in Nat /\ x <= q
        BY <1>1, <2>1
      <3> QED
        BY <3>1
    <2>3. Cardinality({q \in R : q < x}) < PageSize
      <3>1. {q \in R : q < x} = {}
        BY <2>2
      <3> QED
        BY <3>1, FS_EmptySet, SourceConstants
    <2> QED
      BY <2>3 DEF Chunk
  <1>4. ASSUME NEW r \in Chunk(R), NEW q \in R, q < r
        PROVE  q \in Chunk(R)
    <2> DEFINE Below(n) == {k \in R : k < n}
    <2>1. r \in R /\ Cardinality(Below(r)) < PageSize
      BY DEF Chunk
    <2>2. Below(q) \subseteq Below(r)
      <3> SUFFICES ASSUME NEW k \in R, k < q PROVE k < r
        OBVIOUS
      <3>1. k \in Nat /\ q \in Nat /\ r \in Nat
        BY <1>1, <2>1
      <3> QED
        BY <3>1, <1>4
    <2>3. IsFiniteSet(Below(r))
      BY <1>2, FS_Subset
    <2> HIDE DEF Below
    <2>4. Cardinality(Below(q)) <= Cardinality(Below(r)) /\ IsFiniteSet(Below(q))
      BY <2>2, <2>3, FS_Subset
    <2>5. Cardinality(Below(q)) \in Nat /\ Cardinality(Below(r)) \in Nat
      BY <2>3, <2>4, FS_CardinalityType
    <2>6. Cardinality(Below(q)) < PageSize
      BY <2>1, <2>4, <2>5, SourceConstants
    <2> QED
      BY <2>6 DEF Below, Chunk
  <1> QED
    BY <1>3, <1>4 DEF Chunk
-----------------------------------------------------------------------------
LEMMA SyncInitial == SyncInit => SyncInv
  <1> SUFFICES ASSUME SyncInit PROVE SyncInv
    OBVIOUS
  <1> DEFINE none == [source |-> CHOOSE s \in Sources : TRUE, status |-> "failed", stale |-> FALSE, promise |-> {}]
  <1>1. none \in RunRows
    BY DEF RunRows, RunStatus
  <1>2. runs = [i \in 1 .. MaxRuns |-> none]
    BY DEF SyncInit
  <1>3. \A i \in 1 .. MaxRuns : runs[i] = none
    BY <1>2
  <1>4. runs \in [1 .. MaxRuns -> RunRows]
    BY <1>1, <1>2
  <1>5. none.status = "failed"
    OBVIOUS
  <1> HIDE DEF none
  <1>6. job \in [Schedulers -> Jobs] /\ \A w \in Schedulers : job[w] = SyncIdle
    BY DEF SyncInit, Jobs
  <1>7. manual = SyncIdle /\ SyncIdle.stage = "idle"
    BY DEF SyncInit, SyncIdle
  <1>8. SyncTyped
    <2>1. imported \in [Sources -> SUBSET Rows] /\ cursor \in [Sources -> 0 .. MaxRow] /\ tableRows \in [Sources -> 0 .. MaxRow]
      BY SourceConstants DEF SyncInit
    <2>2. \A s \in Sources : owner[s] = NoLeaseToken /\ lease[s] = "none"
      BY DEF SyncInit
    <2>3. owner \in [Sources -> LeaseTokens \cup {NoLeaseToken}] /\ lease \in [Sources -> {"none", "live", "expired"}]
      BY DEF SyncInit
    <2> QED
      BY <1>4, <1>6, <1>7, <2>1, <2>2, <2>3 DEF SyncTyped
  <1>9. JobsOK /\ TokensDistinct /\ RunsDistinct /\ ManualOK
    <2>1. TokensDistinct /\ ManualOK
      BY <1>6, <1>7 DEF TokensDistinct, ManualOK
    <2>2. RunsDistinct
      BY <1>6, <1>7 DEF RunsDistinct, Working
    <2>3. JobsOK
      BY <1>6, <1>7 DEF JobsOK, JobOK, WorkStages
    <2> QED
      BY <2>1, <2>2, <2>3
  <1>10. NothingSkipped
    BY DEF SyncInit, NothingSkipped, Sources
  <1>11. SucceededImported
    BY <1>2, <1>3, <1>5 DEF SucceededImported
  <1> QED
    BY <1>8, <1>9, <1>10, <1>11 DEF SyncInv

\* Steps of the world and of the clock.
LEMMA WorldStep ==
  ASSUME SyncInv, Grows, RunsKept, manual' = manual, job' = job, owner' = owner, cursor' = cursor,
         lease' \in [Sources -> {"none", "live", "expired"}],
         \A s \in Sources : lease'[s] = "none" <=> lease[s] = "none"
  PROVE  SyncInv'
  <1>1. SyncTyped'
    BY DEF SyncInv, SyncTyped, Grows, RunsKept
  <1>2. \A w \in Schedulers : job[w] # SyncIdle => Spares(job[w])
    BY SpareWhenKept DEF SyncInv, SyncTyped
  <1>3. JobsOK'
    BY <1>2, JobsStay DEF SyncInv
  <1>4. TokensDistinct' /\ RunsDistinct'
    <2>1. \A w \in Schedulers : Working(w) => job[w].run \in 1 .. MaxRuns
      BY JobKinds DEF SyncInv, SyncTyped, Working, WorkStages, Syncs
    <2>2. manual.stage \in {"import", "record"} => manual.run \in 1 .. MaxRuns
      BY DEF SyncInv, SyncTyped, ByHand, SyncIdle
    <2> QED
      BY <2>1, <2>2 DEF SyncInv, TokensDistinct, RunsDistinct, Working, RunsKept
  <1>5. NothingSkipped'
    BY NothingSkippedStays DEF SyncInv
  <1> QED
    BY <1>1, <1>3, <1>4, <1>5, QuietWorld DEF SyncInv

LEMMA AddRowStep == ASSUME SyncInv, NEW s \in Sources, AddRow(s) PROVE SyncInv'
  <1>1. tableRows[s] \in 0 .. MaxRow /\ tableRows \in [Sources -> 0 .. MaxRow]
    BY DEF SyncInv, SyncTyped
  <1>2. tableRows[s] + 1 \in 0 .. MaxRow
    BY <1>1, SourceConstants DEF AddRow
  <1>3. Grows
    BY <1>1, <1>2, SourceConstants DEF AddRow, Grows, SyncInv, SyncTyped
  <1>4. RunsKept
    BY RunsSame DEF AddRow, SyncInv
  <1> QED
    BY <1>3, <1>4, WorldStep DEF AddRow, columns, SyncInv, SyncTyped

LEMMA DueStep == ASSUME SyncInv, NEW s \in Sources, SourceBecomesDue(s) PROVE SyncInv'
  <1>1. Grows /\ RunsKept
    BY RunsSame, StillWorld DEF SourceBecomesDue, SyncInv
  <1> QED
    BY <1>1, WorldStep DEF SourceBecomesDue, SyncInv, SyncTyped

LEMMA LapseStep == ASSUME SyncInv, NEW s \in Sources, Lapse(s) PROVE SyncInv'
  <1>1. Grows /\ RunsKept
    BY RunsSame, StillWorld DEF Lapse, SyncInv
  <1>2. lease \in [Sources -> {"none", "live", "expired"}] /\ lease[s] = "live"
    BY DEF Lapse, SyncInv, SyncTyped
  <1>3. lease' = [lease EXCEPT ![s] = "expired"]
    BY DEF Lapse
  <1>4. lease' \in [Sources -> {"none", "live", "expired"}] /\ \A x \in Sources : lease'[x] = "none" <=> lease[x] = "none"
    BY <1>2, <1>3
  <1> QED
    BY <1>1, <1>4, WorldStep DEF Lapse

LEMMA AgeStep == ASSUME SyncInv, NEW i \in 1 .. MaxRuns, RunAges(i) PROVE SyncInv'
  <1>1. runs \in [1 .. MaxRuns -> RunRows] /\ runs' = [runs EXCEPT ![i].stale = TRUE]
    BY DEF RunAges, SyncInv, SyncTyped
  <1> DEFINE r == [runs[i] EXCEPT !.stale = TRUE]
  <1>2. runs[i] \in RunRows
    BY <1>1
  <1>3. r \in RunRows /\ r.status = runs[i].status /\ r.promise = runs[i].promise
    BY <1>2 DEF RunRows
  <1>4. runs' = [runs EXCEPT ![i] = r]
    BY <1>1
  <1> HIDE DEF r
  <1>5. RunsKept
    BY <1>1, <1>3, <1>4 DEF RunsKept
  <1>6. Grows
    BY StillWorld DEF RunAges, SyncInv
  <1> QED
    BY <1>5, <1>6, WorldStep DEF RunAges, columns, SyncInv, SyncTyped
-----------------------------------------------------------------------------
\* Steps of one scheduler that leave the columns of the sources alone.
LEMMA GoesOnStep ==
  ASSUME SyncInv, NEW w \in Schedulers, NEW j \in Jobs, job' = [job EXCEPT ![w] = j],
         job[w] # SyncIdle, j # SyncIdle => j.token = job[w].token,
         j.stage \in WorkStages => Working(w) /\ j.run = job[w].run,
         Grows, RunsKept, manual' = manual, owner' = owner, lease' = lease, cursor' = cursor,
         JobOK(j)'
  PROVE  SyncInv'
  <1>1. \A v \in Schedulers : job[v] # SyncIdle => Spares(job[v])
    BY SpareWhenKept DEF SyncInv, SyncTyped
  <1>2. job' \in [Schedulers -> Jobs] /\ TokensDistinct' /\ RunsDistinct' /\ JobsOK'
    BY <1>1, OneGoesOn
  <1>3. SyncTyped'
    BY <1>2 DEF SyncInv, SyncTyped, Grows, RunsKept
  <1>4. NothingSkipped'
    BY NothingSkippedStays DEF SyncInv
  <1> QED
    BY <1>2, <1>3, <1>4, QuietWorld DEF SyncInv

LEMMA GoesOnSame ==
  ASSUME SyncInv, NEW w \in Schedulers, NEW j \in Jobs, job' = [job EXCEPT ![w] = j],
         job[w] # SyncIdle, j # SyncIdle => j.token = job[w].token,
         j.stage \in WorkStages => Working(w) /\ j.run = job[w].run,
         Grows, RunsKept, manual' = manual, owner' = owner, lease' = lease, cursor' = cursor,
         JobOK(j)
  PROVE  SyncInv'
  <1>1. j # SyncIdle => Spares(j)
    BY SpareWhenKept DEF SyncInv
  <1>2. JobOK(j)'
    BY <1>1, JobStays DEF SyncInv
  <1> QED
    BY <1>2, GoesOnStep

LEMMA IdleOK == SyncIdle \in Jobs /\ SyncIdle.stage = "idle" /\ JobOK(SyncIdle)
  BY DEF SyncIdle, Jobs, JobOK, WorkStages

LEMMA StopsStep ==
  ASSUME SyncInv, NEW w \in Schedulers, job' = [job EXCEPT ![w] = SyncIdle], job[w] # SyncIdle,
         RunsKept, tableRows' = tableRows, imported' = imported, manual' = manual,
         owner' = owner, lease' = lease, cursor' = cursor
  PROVE  SyncInv'
  <1>1. Grows
    BY StillWorld DEF SyncInv
  <1> QED
    BY <1>1, IdleOK, GoesOnSame DEF WorkStages

\* A scheduler at work, and what is known of it.
LEMMA AtWork ==
  ASSUME SyncInv, NEW w \in Schedulers, job[w].stage \in WorkStages
  PROVE  /\ job[w] \in Syncs /\ job[w] # SyncIdle /\ JobOK(job[w]) /\ Working(w)
         /\ job[w].run \in 1 .. MaxRuns /\ job[w].source \in Sources
  <1>1. job[w] \in Jobs /\ JobOK(job[w])
    BY DEF SyncInv, SyncTyped, JobsOK
  <1>2. job[w] \in Syncs
    BY <1>1, JobKinds
  <1>3. job[w] # SyncIdle
    BY DEF SyncIdle, WorkStages
  <1> QED
    BY <1>1, <1>2, <1>3 DEF Syncs, Working, WorkStages

LEMMA TimeoutStep == ASSUME SyncInv, NEW w \in Schedulers, Timeout(w) PROVE SyncInv'
  <1>1. job[w].stage \in WorkStages
    BY DEF Timeout, WorkStages
  <1>2. job[w] # SyncIdle /\ RunsKept
    BY <1>1, AtWork, RunFails DEF Timeout, SyncInv, RunStatus
  <1> QED
    BY <1>2, StopsStep DEF Timeout, columns

LEMMA CrashStep == ASSUME SyncInv, NEW w \in Schedulers, Crash(w) PROVE SyncInv'
  <1>1. RunsKept
    BY RunsSame DEF Crash, SyncInv
  <1> QED
    BY <1>1, StopsStep DEF Crash, columns

\* A failed sync keeps the cursor it began from.
LEMMA FailedOK ==
  ASSUME SyncInv, NEW j \in Syncs, JobOK(j)
  PROVE  /\ FailedResult(j) \in Syncs /\ FailedResult(j).token = j.token
         /\ FailedResult(j).run = j.run /\ JobOK(FailedResult(j))
  <1> DEFINE f == FailedResult(j)
  <1>1. f \in Syncs /\ f.token = j.token /\ f.run = j.run /\ f.source = j.source
        /\ f.stage = "finish" /\ f.errors = TRUE /\ f.from = j.from /\ f.cursor = j.from
    BY DEF FailedResult, Syncs, WorkStages
  <1>2. j.stage \in WorkStages /\ j.from \in Nat /\ j.cursor \in Nat
    BY SourceConstants DEF Syncs
  <1> HIDE DEF f
  <1>3. j.source \in Tables => Paged(f)
    <2> SUFFICES ASSUME j.source \in Tables PROVE Paged(f)
      OBVIOUS
    <2>1. Paged(j)
      BY <1>2 DEF JobOK
    <2>2. 1 .. j.from \subseteq 1 .. j.cursor
      BY <1>2, <2>1 DEF Paged
    <2> QED
      BY <1>1, <1>2, <2>1, <2>2 DEF Paged
  <1>4. Answers(f)
    BY <1>1, <1>2 DEF JobOK, Answers
  <1>5. \A s \in Sources : owner[s] = f.token => s = f.source
    BY <1>1, <1>2 DEF JobOK, WorkStages
  <1>6. JobOK(f)
    BY <1>1, <1>3, <1>4, <1>5 DEF JobOK
  <1> QED
    BY <1>1, <1>6 DEF f

LEMMA RenewStep == ASSUME SyncInv, NEW w \in Schedulers, Renew(w) PROVE SyncInv'
  <1> DEFINE j == job[w]
  <1>1. j.stage = "renew" /\ j.stage \in WorkStages
    BY DEF Renew, WorkStages
  <1>2. j \in Syncs /\ j # SyncIdle /\ JobOK(j) /\ Working(w)
    BY <1>1, AtWork
  <1>3. Grows /\ manual' = manual /\ owner' = owner /\ lease' = lease /\ cursor' = cursor
        /\ tableRows' = tableRows /\ imported' = imported
    BY StillWorld DEF Renew, columns, SyncInv
  <1>4. CASE owner[j.source] = j.token /\ lease[j.source] = "live"
    <2> DEFINE n == [j EXCEPT !.stage = IF j.rest = {} THEN "finish" ELSE "import"]
    <2>1. job' = [job EXCEPT ![w] = n] /\ runs' = runs
      BY <1>4 DEF Renew
    <2>2. n \in Syncs /\ n.token = j.token /\ n.run = j.run /\ n.source = j.source
          /\ n.from = j.from /\ n.cursor = j.cursor /\ n.rest = j.rest /\ n.errors = j.errors
          /\ n.stage = IF j.rest = {} THEN "finish" ELSE "import"
      BY <1>2 DEF Syncs, WorkStages
    <2> HIDE DEF n
    <2>3. j.source \in Tables => Paged(j) /\ j.rest # {}
      BY <1>1, <1>2 DEF JobOK, Paged
    <2>4. j.source \in Tables => Paged(n)
      BY <2>2, <2>3, <1>1 DEF Paged
    <2>5. Answers(j)
      BY <1>1, <1>2 DEF JobOK
    <2>6. Answers(n)
      <3> SUFFICES ASSUME runs[j.run].status = "running", NEW p \in runs[j.run].promise
                   PROVE  /\ p[1] = n.source /\ p[2] <= tableRows[n.source]
                          /\ ~ n.errors => p \in Imported \/ Ahead(n, p)
        BY <2>2 DEF Answers
      <3>1. p[1] = j.source /\ p[2] <= tableRows[j.source] /\ (~ j.errors => p \in Imported \/ Ahead(j, p))
        BY <2>5 DEF Answers
      <3>2. Ahead(j, p) => Ahead(n, p)
        BY <1>1, <2>2, <2>3 DEF Ahead
      <3> QED
        BY <2>2, <3>1, <3>2
    <2>7. \A s \in Sources : owner[s] = n.token => s = n.source
      BY <1>1, <1>2, <2>2 DEF JobOK
    <2>8. JobOK(n) /\ n \in Jobs /\ n.stage \in WorkStages
      BY <2>2, <2>4, <2>6, <2>7 DEF JobOK, Jobs, WorkStages
    <2>9. RunsKept
      BY <2>1, RunsSame DEF SyncInv
    <2> QED
      BY <1>2, <1>3, <2>1, <2>2, <2>8, <2>9, GoesOnSame
  <1>5. CASE ~ (owner[j.source] = j.token /\ lease[j.source] = "live") /\ j.source \in Tables
    <2>1. job' = [job EXCEPT ![w] = FailedResult(j)] /\ runs' = runs
      BY <1>5 DEF Renew
    <2>2. FailedResult(j) \in Jobs /\ FailedResult(j).token = j.token /\ FailedResult(j).run = j.run
          /\ JobOK(FailedResult(j))
      BY <1>2, FailedOK DEF Jobs
    <2>3. RunsKept
      BY <2>1, RunsSame DEF SyncInv
    <2> QED
      BY <1>2, <1>3, <2>1, <2>2, <2>3, GoesOnSame
  <1>6. CASE ~ (owner[j.source] = j.token /\ lease[j.source] = "live") /\ j.source \notin Tables
    <2>1. job' = [job EXCEPT ![w] = SyncIdle] /\ runs' = FinishedRun(j.run, "failed")
      BY <1>6 DEF Renew
    <2>2. RunsKept
      BY <2>1, RunFails DEF SyncInv, RunStatus
    <2> QED
      BY <1>2, <1>3, <2>1, <2>2, StopsStep
  <1> QED
    BY <1>4, <1>5, <1>6

LEMMA ReadTableStep == ASSUME SyncInv, NEW w \in Schedulers, ReadTable(w) PROVE SyncInv'
  <1> DEFINE j == job[w]
             found == {r \in 1 .. tableRows[j.source] : r > j.cursor}
  <1>1. j.stage = "read" /\ j.stage \in WorkStages /\ j.source \in Tables
    BY DEF ReadTable, WorkStages
  <1>2. j \in Syncs /\ j # SyncIdle /\ JobOK(j) /\ Working(w)
    BY <1>1, AtWork
  <1>3. Grows /\ RunsKept /\ manual' = manual /\ owner' = owner /\ lease' = lease /\ cursor' = cursor
    BY StillWorld, RunsSame DEF ReadTable, columns, SyncInv
  <1>4. j.source \in Sources /\ tableRows[j.source] \in 0 .. MaxRow /\ j.cursor \in 0 .. MaxRow
    BY <1>2 DEF Syncs, SyncInv, SyncTyped
  <1>5. found \subseteq Rows /\ 1 .. tableRows[j.source] \subseteq Rows
    BY <1>4, SourceConstants DEF Rows
  <1>6. Answers(j) /\ (j.source \in Tables => Paged(j))
        /\ \A s \in Sources : owner[s] = j.token => s = j.source
    BY <1>1, <1>2 DEF JobOK
  <1>7. \A p \in runs[j.run].promise : p \in Sources \X Rows
    BY <1>2 DEF Syncs, SyncInv, SyncTyped, RunRows
  <1>8. CASE job' = [job EXCEPT ![w] = FailedResult(j)]
    <2>1. FailedResult(j) \in Jobs /\ FailedResult(j).token = j.token /\ FailedResult(j).run = j.run
          /\ JobOK(FailedResult(j))
      BY <1>2, FailedOK DEF Jobs
    <2> QED
      BY <1>2, <1>3, <1>8, <2>1, GoesOnSame
  <1>9. CASE j.source \in Tables /\ found = {} /\ job' = [job EXCEPT ![w] = [j EXCEPT !.stage = "finish"]]
    <2> DEFINE n == [j EXCEPT !.stage = "finish"]
    <2>1. n \in Syncs /\ n.token = j.token /\ n.run = j.run /\ n.source = j.source
          /\ n.from = j.from /\ n.cursor = j.cursor /\ n.errors = j.errors /\ n.stage = "finish"
      BY <1>2 DEF Syncs, WorkStages
    <2> HIDE DEF n
    <2>2. Paged(n)
      BY <1>6, <1>9, <2>1 DEF Paged
    <2>3. \A r \in Rows : r <= tableRows[j.source] => r \in imported[j.source]
      <3> SUFFICES ASSUME NEW r \in Rows, r <= tableRows[j.source] PROVE r \in imported[j.source]
        OBVIOUS
      <3>1. r \in 1 .. tableRows[j.source] /\ r \notin found
        BY <1>4, <1>9, SourceConstants DEF Rows
      <3>2. r \in 1 .. j.cursor
        BY <1>4, <3>1, SourceConstants
      <3> QED
        BY <1>6, <1>9, <3>2 DEF Paged
    <2>4. Answers(n)
      <3> SUFFICES ASSUME runs[j.run].status = "running", NEW p \in runs[j.run].promise
                   PROVE  p[1] = j.source /\ p[2] <= tableRows[j.source] /\ p \in Imported
        BY <2>1 DEF Answers
      <3>1. p[1] = j.source /\ p[2] <= tableRows[j.source]
        BY <1>6 DEF Answers
      <3> QED
        BY <1>7, <2>3, <3>1 DEF Imported
    <2>5. JobOK(n) /\ n \in Jobs
      BY <1>6, <2>1, <2>2, <2>4 DEF JobOK, Jobs
    <2> QED
      BY <1>2, <1>3, <1>9, <2>1, <2>5, GoesOnSame DEF n
  <1>10. CASE j.source \in Tables /\ found # {}
              /\ job' = [job EXCEPT ![w] = [j EXCEPT !.stage = "renew", !.rest = Chunk(found)]]
    <2> DEFINE c == Chunk(found)
               n == [j EXCEPT !.stage = "renew", !.rest = c]
    <2>1. c # {} /\ c \subseteq found /\ \A r \in c, q \in found : q < r => q \in c
      BY <1>5, <1>10, PageOfRest
    <2>2. c \in SUBSET Rows
      BY <1>5, <2>1
    <2>3. job' = [job EXCEPT ![w] = n]
      BY <1>10
    <2> HIDE DEF c
    <2>4. n \in Syncs /\ n.token = j.token /\ n.run = j.run /\ n.source = j.source
          /\ n.from = j.from /\ n.cursor = j.cursor /\ n.errors = j.errors /\ n.stage = "renew" /\ n.rest = c
      BY <1>2, <2>2 DEF Syncs, WorkStages
    <2> HIDE DEF n
    <2>5. \A r \in c, q \in Rows : j.cursor < q /\ q < r => q \in c
      <3> SUFFICES ASSUME NEW r \in c, NEW q \in Rows, j.cursor < q, q < r PROVE q \in c
        OBVIOUS
      <3>1. r \in found /\ r \in 1 .. tableRows[j.source]
        BY <2>1
      <3>2. q \in 1 .. tableRows[j.source] /\ q > j.cursor
        BY <1>4, <3>1, SourceConstants DEF Rows
      <3>3. q \in found
        BY <3>2
      <3> QED
        BY <2>1, <3>3
    <2>6. \A r \in c : j.cursor < r
      BY <1>4, <2>1, SourceConstants
    <2>7. Paged(n)
      BY <1>6, <1>10, <2>1, <2>4, <2>5, <2>6 DEF Paged
    <2>8. Answers(n)
      BY <1>6, <1>10, <2>4 DEF Answers, Ahead
    <2>9. JobOK(n) /\ n \in Jobs
      BY <1>6, <2>4, <2>7, <2>8 DEF JobOK, Jobs
    <2> QED
      BY <1>2, <1>3, <2>3, <2>4, <2>9, GoesOnSame
  <1> QED
    BY <1>1, <1>8, <1>9, <1>10 DEF ReadTable

\* What a read of Feishu brings is there to be read.
LEMMA ReadsAreRows ==
  ASSUME SyncTyped, NEW s \in Feishu, NEW got \in FeishuReads(s) \cup {Nothing(TRUE)}
  PROVE  /\ got.rows \in SUBSET Rows /\ got.errors \in BOOLEAN
         /\ \A r \in got.rows : r <= tableRows[s]
  <1>1. s \in Sources /\ tableRows[s] \in 0 .. MaxRow
    BY DEF Sources, SyncTyped
  <1>2. 1 .. tableRows[s] \subseteq Rows /\ \A r \in 1 .. tableRows[s] : r <= tableRows[s]
    BY <1>1, SourceConstants DEF Rows
  <1>3. \A unread : LooksAt(s, unread) \subseteq 1 .. tableRows[s]
    BY DEF LooksAt
  <1>4. CASE got \in {Nothing(TRUE), Nothing(FALSE)}
    <2>1. got.rows = {} /\ (got.errors = TRUE \/ got.errors = FALSE)
      BY <1>4 DEF Nothing
    <2> QED
      BY <2>1
  <1>5. CASE got \notin {Nothing(TRUE), Nothing(FALSE)}
    <2>1. PICK unread \in SUBSET (1 .. tableRows[s]) :
            got = [rows |-> LooksAt(s, unread) \ unread, errors |-> LooksAt(s, unread) \cap unread # {}]
      BY <1>5 DEF FeishuReads
    <2> QED
      BY <1>2, <1>3, <2>1
  <1> QED
    BY <1>4, <1>5

\* The read joins the promise of its run alone.
LEMMA ReadIsPromised ==
  ASSUME SyncInv, NEW i \in 1 .. MaxRuns, NEW s \in Sources, NEW rows \in SUBSET Rows,
         runs' = Brought(i, s, rows), runs[i].status # "succeeded", Grows
  PROVE  /\ runs' \in [1 .. MaxRuns -> RunRows] /\ SucceededImported'
         /\ runs'[i].status = runs[i].status /\ runs'[i].promise = runs[i].promise \cup ({s} \X rows)
         /\ \A k \in 1 .. MaxRuns : k # i => runs'[k] = runs[k]
         /\ \A k \in 1 .. MaxRuns : runs'[k].status = "succeeded" => runs[k].status = "succeeded"
  <1> DEFINE r == [runs[i] EXCEPT !.promise = @ \cup ({s} \X rows)]
  <1>1. runs \in [1 .. MaxRuns -> RunRows] /\ runs[i] \in RunRows
    BY DEF SyncInv, SyncTyped
  <1>2. {s} \X rows \in SUBSET (Sources \X Rows)
    OBVIOUS
  <1>3. r \in RunRows /\ r.status = runs[i].status /\ r.promise = runs[i].promise \cup ({s} \X rows)
    BY <1>1, <1>2 DEF RunRows
  <1>4. runs' = [runs EXCEPT ![i] = r]
    BY <1>1 DEF Brought
  <1> HIDE DEF r
  <1>5. runs' \in [1 .. MaxRuns -> RunRows] /\ runs'[i] = r /\ \A k \in 1 .. MaxRuns : k # i => runs'[k] = runs[k]
    BY <1>1, <1>3, <1>4
  <1>6. SucceededImported'
    BY <1>3, <1>5, SucceededStays DEF SyncInv
  <1> QED
    BY <1>3, <1>5, <1>6

LEMMA ReadFeishuStep == ASSUME SyncInv, NEW w \in Schedulers, ReadFeishu(w) PROVE SyncInv'
  <1> DEFINE j == job[w]
  <1>1. j.stage = "read" /\ j.stage \in WorkStages /\ j.source \in Feishu /\ j.source \notin Tables
    BY SourceConstants DEF ReadFeishu, WorkStages
  <1>2. j \in Syncs /\ j # SyncIdle /\ JobOK(j) /\ Working(w) /\ j.run \in 1 .. MaxRuns /\ j.source \in Sources
    BY <1>1, AtWork
  <1>3. Grows /\ manual' = manual /\ owner' = owner /\ lease' = lease /\ cursor' = cursor
        /\ tableRows' = tableRows /\ imported' = imported
    BY StillWorld DEF ReadFeishu, columns, SyncInv
  <1>4. CASE job' = [job EXCEPT ![w] = FailedResult(j)] /\ runs' = runs
    <2>1. FailedResult(j) \in Jobs /\ FailedResult(j).token = j.token /\ FailedResult(j).run = j.run
          /\ JobOK(FailedResult(j))
      BY <1>2, FailedOK DEF Jobs
    <2>2. RunsKept
      BY <1>4, RunsSame DEF SyncInv
    <2> QED
      BY <1>2, <1>3, <1>4, <2>1, <2>2, GoesOnSame
  <1>5. ASSUME NEW got \in FeishuReads(j.source), runs' = Brought(j.run, j.source, got.rows),
               job' = [job EXCEPT ![w] = [j EXCEPT !.stage = "renew", !.rest = got.rows,
                                                   !.errors = @ \/ got.errors]]
        PROVE  SyncInv'
    <2>0. PICK n : n = [j EXCEPT !.stage = "renew", !.rest = got.rows, !.errors = @ \/ got.errors]
      OBVIOUS
    <2>1. got.rows \in SUBSET Rows /\ got.errors \in BOOLEAN /\ \A r \in got.rows : r <= tableRows[j.source]
      BY <1>1, ReadsAreRows DEF SyncInv
    <2>2. n \in Syncs /\ n.stage = "renew" /\ n.token = j.token /\ n.source = j.source /\ n.run = j.run
          /\ n.rest = got.rows /\ n.errors = (j.errors \/ got.errors)
      BY <1>2, <2>0, <2>1 DEF Syncs, WorkStages
    <2>3. job' = [job EXCEPT ![w] = n]
      BY <1>5, <2>0
    <2>4. runs[j.run].status # "succeeded" /\ \A v \in Schedulers \ {w} : Working(v) => job[v].run # j.run
      BY <1>2 DEF SyncInv, RunsDistinct
    <2>5. manual # SyncIdle => manual.run \in 1 .. MaxRuns /\ manual.run # j.run
      BY <1>2 DEF SyncInv, SyncTyped, ByHand, RunsDistinct
    <2>6. /\ runs' \in [1 .. MaxRuns -> RunRows] /\ SucceededImported'
          /\ runs'[j.run].status = runs[j.run].status
          /\ runs'[j.run].promise = runs[j.run].promise \cup ({j.source} \X got.rows)
          /\ \A k \in 1 .. MaxRuns : k # j.run => runs'[k] = runs[k]
      BY <1>2, <1>3, <1>5, <2>1, <2>4, ReadIsPromised
    <2>7. Answers(n)'
      <3> SUFFICES ASSUME runs'[j.run].status = "running", NEW p \in runs'[j.run].promise
                   PROVE  /\ p[1] = j.source /\ p[2] <= tableRows[j.source]
                          /\ ~ n.errors => p \in Imported' \/ Ahead(n, p)
        BY <1>3, <2>2 DEF Answers, Ahead
      <3>1. CASE p \in runs[j.run].promise
        <4>1. p[1] = j.source /\ p[2] <= tableRows[j.source] /\ (~ j.errors => p \in Imported \/ Ahead(j, p))
          BY <1>1, <1>2, <2>6, <3>1 DEF JobOK, Answers
        <4>2. ~ Ahead(j, p)
          BY <1>1 DEF Ahead
        <4> QED
          BY <1>3, <2>2, <4>1, <4>2, ImportedGrows
      <3>2. CASE p \in {j.source} \X got.rows
        BY <2>1, <2>2, <3>2 DEF Ahead
      <3> QED
        BY <2>6, <3>1, <3>2
    <2>8. \A s \in Sources : owner[s] = j.token => s = j.source
      BY <1>1, <1>2 DEF JobOK
    <2>9. JobOK(n)' /\ n \in Jobs
      BY <1>1, <1>3, <2>2, <2>7, <2>8 DEF JobOK, Jobs
    <2>10. \A v \in Schedulers \ {w} : job[v] # SyncIdle => Spares(job[v]) /\ job[v].token # n.token
      <3> SUFFICES ASSUME NEW v \in Schedulers \ {w}, job[v] # SyncIdle
                   PROVE  Spares(job[v]) /\ job[v].token # n.token
        OBVIOUS
      <3>1. job[v] \in Jobs /\ (job[v].stage \in WorkStages => Working(v) /\ job[v].run \in 1 .. MaxRuns)
        BY JobKinds DEF SyncInv, SyncTyped, Working, WorkStages, Syncs
      <3>2. job[v].stage \in WorkStages => runs'[job[v].run] = runs[job[v].run]
        BY <2>4, <2>6, <3>1
      <3> QED
        BY <1>2, <1>3, <2>2, <3>2 DEF Spares, SyncInv, TokensDistinct
    <2>11. job' \in [Schedulers -> Jobs] /\ TokensDistinct' /\ RunsDistinct' /\ JobsOK'
      <3>1. runs'[n.run].status # "succeeded"
        BY <2>2, <2>4, <2>6
      <3>2. manual # SyncIdle => runs'[manual.run] = runs[manual.run]
        BY <2>5, <2>6
      <3>3. \A v \in Schedulers \ {w} : Working(v) => job[v].run # n.run
        BY <2>2, <2>4
      <3>4. manual # SyncIdle => manual.run # n.run
        BY <2>2, <2>5
      <3>5. n \in Jobs /\ JobOK(n)' /\ Grows /\ manual' = manual
        BY <1>3, <2>9
      <3> HIDE DEF j
      <3> QED
        BY <2>3, <2>10, <3>1, <3>2, <3>3, <3>4, <3>5, OneCycleMoves
    <2>12. SyncTyped'
      BY <1>3, <2>6, <2>11 DEF SyncInv, SyncTyped, Grows
    <2>13. ManualOK'
      BY <1>3, <2>5, <2>6, ManualStays DEF SyncInv
    <2>14. NothingSkipped'
      BY <1>3, NothingSkippedStays DEF SyncInv
    <2> QED
      BY <2>6, <2>11, <2>12, <2>13, <2>14 DEF SyncInv
  <1> QED
    BY <1>4, <1>5 DEF ReadFeishu

LEMMA ImportStep == ASSUME SyncInv, NEW w \in Schedulers, Import(w) PROVE SyncInv'
  <1> DEFINE j == job[w]
             c == Chunk(j.rest)
  <1>1. j.stage = "import" /\ j.stage \in WorkStages
    BY DEF Import, WorkStages
  <1>2. j \in Syncs /\ j # SyncIdle /\ JobOK(j) /\ Working(w)
    BY <1>1, AtWork
  <1>3. j.source \in Sources /\ j.rest \in SUBSET Rows /\ j.cursor \in 0 .. MaxRow /\ j.from \in 0 .. MaxRow
    BY <1>2 DEF Syncs
  <1>4. PICK done \in SUBSET c :
          /\ imported' = [imported EXCEPT ![j.source] = @ \cup done]
          /\ job' = [job EXCEPT ![w] =
               IF j.source \in Tables
                 THEN IF done = c THEN [j EXCEPT !.stage = "read", !.cursor = Max(c), !.rest = {}, !.some = TRUE]
                      ELSE FailedResult(j)
                 ELSE [j EXCEPT !.stage = IF j.rest \ c = {} THEN "finish" ELSE "renew", !.rest = j.rest \ c,
                                !.errors = @ \/ done # c, !.some = @ \/ done # {}]]
    BY DEF Import
  <1>5. c \subseteq j.rest /\ c \in SUBSET Rows
    BY <1>3 DEF Chunk
  <1> HIDE DEF c
  <1>6. imported \in [Sources -> SUBSET Rows] /\ tableRows \in [Sources -> 0 .. MaxRow]
    BY DEF SyncInv, SyncTyped
  <1>7. /\ imported' \in [Sources -> SUBSET Rows] /\ imported'[j.source] = imported[j.source] \cup done
        /\ \A s \in Sources : imported[s] \subseteq imported'[s]
    BY <1>3, <1>4, <1>5, <1>6
  <1>8. tableRows' = tableRows /\ manual' = manual /\ owner' = owner /\ lease' = lease /\ cursor' = cursor
        /\ runs' = runs
    BY DEF Import, columns
  <1>9. Grows
    BY <1>6, <1>7, <1>8, SourceConstants DEF Grows
  <1>10. RunsKept
    BY <1>8, RunsSame DEF SyncInv
  <1>11. Answers(j) /\ (j.source \in Tables => Paged(j))
         /\ \A s \in Sources : owner[s] = j.token => s = j.source
    BY <1>1, <1>2 DEF JobOK
  <1>12. \A p \in runs[j.run].promise : p \in Sources \X Rows
    BY <1>2 DEF Syncs, SyncInv, SyncTyped, RunRows
  <1>13. CASE j.source \in Tables /\ done = c
    <2>0. PICK n : n = [j EXCEPT !.stage = "read", !.cursor = Max(c), !.rest = {}, !.some = TRUE]
      OBVIOUS
    <2>1. j.rest # {} /\ (\A r \in j.rest : j.cursor < r)
          /\ \A r \in j.rest, q \in Rows : j.cursor < q /\ q < r => q \in j.rest
      BY <1>1, <1>11, <1>13 DEF Paged
    <2>2. c # {} /\ \A r \in c, q \in j.rest : q < r => q \in c
      BY <1>3, <2>1, PageOfRest DEF c
    <2>3. Max(c) \in c /\ Max(c) \in Rows
      BY <1>5, <2>2, HighestExists
    <2>4. job' = [job EXCEPT ![w] = n]
      BY <1>4, <1>13, <2>0
    <2>5. Max(c) \in 0 .. MaxRow /\ j.cursor < Max(c) /\ j.from <= j.cursor
      BY <1>5, <1>11, <1>13, <2>1, <2>3, SourceConstants DEF Rows, Paged
    <2>6. n \in Syncs /\ n.token = j.token /\ n.run = j.run /\ n.source = j.source /\ n.from = j.from
          /\ n.cursor = Max(c) /\ n.errors = j.errors /\ n.stage = "read"
      BY <1>2, <2>0, <2>5 DEF Syncs, WorkStages
    <2>7. 1 .. Max(c) \subseteq imported'[j.source]
      <3> SUFFICES ASSUME NEW q \in 1 .. Max(c) PROVE q \in imported'[j.source]
        OBVIOUS
      <3>1. CASE q <= j.cursor
        <4>1. q \in 1 .. j.cursor
          BY <1>3, <2>5, <3>1, SourceConstants
        <4> QED
          BY <1>7, <1>11, <1>13, <4>1 DEF Paged
      <3>2. CASE ~ (q <= j.cursor)
        <4>1. q \in Rows /\ j.cursor < q
          BY <1>3, <2>5, <3>2, SourceConstants DEF Rows
        <4>2. CASE q = Max(c)
          BY <1>7, <1>13, <2>3, <4>2
        <4>3. CASE q # Max(c)
          <5>1. q < Max(c)
            BY <2>5, <4>3, SourceConstants
          <5>2. q \in j.rest
            BY <1>5, <2>1, <2>3, <4>1, <5>1
          <5>3. q \in c
            BY <2>2, <2>3, <5>1, <5>2
          <5> QED
            BY <1>7, <1>13, <5>3
        <4> QED
          BY <4>2, <4>3
      <3> QED
        BY <3>1, <3>2
    <2>8. j.from <= Max(c)
      BY <1>3, <2>5, SourceConstants
    <2>9. Paged(n)'
      BY <1>8, <1>11, <1>13, <2>6, <2>7, <2>8 DEF Paged
    <2>10. Answers(n)'
      BY <1>8, <1>11, <1>13, <2>6 DEF Answers, Ahead
    <2>11. JobOK(n)' /\ n \in Jobs
      BY <1>8, <1>11, <2>6, <2>9, <2>10 DEF JobOK, Jobs
    <2> QED
      BY <1>2, <1>8, <1>9, <1>10, <2>4, <2>6, <2>11, GoesOnStep
  <1>14. CASE j.source \in Tables /\ done # c
    <2>1. job' = [job EXCEPT ![w] = FailedResult(j)]
      BY <1>4, <1>14
    <2>2. FailedResult(j) \in Jobs /\ FailedResult(j).token = j.token /\ FailedResult(j).run = j.run
          /\ JobOK(FailedResult(j))
      BY <1>2, FailedOK DEF Jobs
    <2> QED
      BY <1>2, <1>8, <1>9, <1>10, <2>1, <2>2, GoesOnSame
  <1>15. CASE j.source \notin Tables
    <2>0. PICK n : n = [j EXCEPT !.stage = IF j.rest \ c = {} THEN "finish" ELSE "renew", !.rest = j.rest \ c,
                                !.errors = @ \/ done # c, !.some = @ \/ done # {}]
      OBVIOUS
    <2>1. job' = [job EXCEPT ![w] = n]
      BY <1>4, <1>15, <2>0
    <2>2. n \in Syncs /\ n.token = j.token /\ n.run = j.run /\ n.source = j.source
          /\ n.stage = (IF j.rest \ c = {} THEN "finish" ELSE "renew") /\ n.rest = j.rest \ c
          /\ n.errors = (j.errors \/ done # c)
      BY <1>2, <1>3, <2>0 DEF Syncs, WorkStages
    <2>3. Answers(n)'
      <3> SUFFICES ASSUME runs[j.run].status = "running", NEW p \in runs[j.run].promise
                   PROVE  /\ p[1] = j.source /\ p[2] <= tableRows[j.source]
                          /\ ~ n.errors => p \in Imported' \/ Ahead(n, p)
        BY <1>8, <2>2 DEF Answers, Ahead
      <3>1. p[1] = j.source /\ p[2] <= tableRows[j.source] /\ (~ j.errors => p \in Imported \/ Ahead(j, p))
        BY <1>11 DEF Answers
      <3>2. ASSUME ~ n.errors PROVE p \in Imported' \/ Ahead(n, p)
        <4>1. ~ j.errors /\ done = c
          BY <2>2, <3>2
        <4>2. p \in Imported \/ p[2] \in j.rest
          BY <1>1, <1>15, <3>1, <4>1 DEF Ahead
        <4>3. CASE p \in Imported
          BY <1>9, <4>3, ImportedGrows
        <4>4. CASE p[2] \in c
          BY <1>7, <1>12, <3>1, <4>1, <4>4 DEF Imported
        <4>5. CASE p[2] \in j.rest \ c
          BY <2>2, <4>5 DEF Ahead
        <4> QED
          BY <4>2, <4>3, <4>4, <4>5
      <3> QED
        BY <3>1, <3>2
    <2>4. n.stage \notin {"idle", "lease"}
      BY <2>2
    <2>5. JobOK(n)' /\ n \in Jobs
      BY <1>8, <1>11, <1>15, <2>2, <2>3, <2>4 DEF JobOK, Jobs
    <2> QED
      BY <1>2, <1>8, <1>9, <1>10, <2>1, <2>2, <2>5, GoesOnStep
  <1> QED
    BY <1>13, <1>14, <1>15
-----------------------------------------------------------------------------
\* Steps that take or give up a source.
LEMMA BeginStep == ASSUME SyncInv, NEW w \in Schedulers, BeginSync(w) PROVE SyncInv'
  <1>1. PICK k \in LeaseTokens :
          /\ \A s \in Sources : owner[s] # k
          /\ \A v \in Schedulers : job[v] # SyncIdle => job[v].token # k
          /\ RecoverStale(w, k)
    BY DEF BeginSync
  <1> DEFINE n == [stage |-> "lease", token |-> k]
             freed == {s \in Sources : lease[s] # "live" /\ \E i \in DOMAIN runs :
                         runs[i].source = s /\ runs[i].status = "running" /\ runs[i].stale}
  <1>2. /\ owner' = [s \in Sources |-> IF s \in freed THEN NoLeaseToken ELSE owner[s]]
        /\ lease' = [s \in Sources |-> IF s \in freed THEN "none" ELSE lease[s]]
        /\ job' = [job EXCEPT ![w] = n] /\ job[w] = SyncIdle
        /\ tableRows' = tableRows /\ imported' = imported /\ cursor' = cursor /\ manual' = manual
    BY <1>1 DEF RecoverStale
  <1> HIDE DEF freed
  <1>3. Grows
    BY <1>2, StillWorld DEF SyncInv
  <1>4. RunsKept
    <2>1. runs \in [1 .. MaxRuns -> RunRows]
      BY DEF SyncInv, SyncTyped
    <2> DEFINE stopped(i) == [[runs[i] EXCEPT !.status = "stopped"] EXCEPT !.stale = FALSE]
    <2>2. runs' = [i \in 1 .. MaxRuns |->
                     IF runs[i].status = "running" /\ runs[i].stale THEN stopped(i) ELSE runs[i]]
      BY <1>1, <2>1 DEF RecoverStale, RunRows
    <2>3. \A i \in 1 .. MaxRuns : stopped(i) \in RunRows /\ stopped(i).status = "stopped"
      <3> SUFFICES ASSUME NEW i \in 1 .. MaxRuns PROVE stopped(i) \in RunRows /\ stopped(i).status = "stopped"
        OBVIOUS
      <3>1. runs[i] \in RunRows
        BY <2>1
      <3> QED
        BY <3>1 DEF RunRows, RunStatus
    <2> HIDE DEF stopped
    <2>4. runs' \in [1 .. MaxRuns -> RunRows]
      BY <2>1, <2>2, <2>3
    <2>5. \A i \in 1 .. MaxRuns : runs'[i] = runs[i] \/ runs'[i].status = "stopped"
      BY <2>2, <2>3
    <2> QED
      BY <2>4, <2>5 DEF RunsKept
  <1>5. /\ owner' \in [Sources -> LeaseTokens \cup {NoLeaseToken}]
        /\ lease' \in [Sources -> {"none", "live", "expired"}]
        /\ \A s \in Sources : owner'[s] = owner[s] \/ owner'[s] = NoLeaseToken
        /\ \A s \in Sources : lease'[s] = "none" <=> owner'[s] = NoLeaseToken
    <2>1. /\ owner \in [Sources -> LeaseTokens \cup {NoLeaseToken}]
          /\ lease \in [Sources -> {"none", "live", "expired"}]
          /\ \A s \in Sources : lease[s] = "none" <=> owner[s] = NoLeaseToken
      BY DEF SyncInv, SyncTyped
    <2> QED
      BY <1>2, <2>1
  <1>6. \A v \in Schedulers : job[v] # SyncIdle => job[v] \in Jobs /\ job[v].token \in LeaseTokens
    BY JobKinds DEF SyncInv, SyncTyped
  <1>7. \A v \in Schedulers : job[v] # SyncIdle => Spares(job[v])
    <2> SUFFICES ASSUME NEW v \in Schedulers, job[v] # SyncIdle PROVE Spares(job[v])
      OBVIOUS
    <2>1. \A s \in Sources : owner'[s] # job[v].token \/ (owner'[s] = owner[s] /\ cursor'[s] = cursor[s])
      BY <1>2, <1>5, <1>6, SourceConstants
    <2> QED
      BY <1>4, <1>6, <2>1, SpareWhenKept DEF SyncInv
  <1>8. n \in Jobs /\ n.stage = "lease" /\ n.token = k
    BY DEF Jobs, Begun
  <1>9. \A s \in Sources : owner'[s] # k
    BY <1>1, <1>5, SourceConstants
  <1> HIDE DEF n
  <1>10. JobOK(n)'
    BY <1>8, <1>9 DEF JobOK, WorkStages
  <1>11. job' \in [Schedulers -> Jobs] /\ TokensDistinct' /\ RunsDistinct' /\ JobsOK'
    <2>1. manual # SyncIdle => manual.run \in 1 .. MaxRuns
      BY DEF SyncInv, SyncTyped, ByHand
    <2> QED
      BY <1>1, <1>2, <1>3, <1>4, <1>7, <1>8, <1>10, <2>1, OneCycleMoves DEF WorkStages, RunsKept
  <1>12. SyncTyped'
    BY <1>2, <1>3, <1>4, <1>5, <1>11 DEF SyncInv, SyncTyped, Grows, RunsKept
  <1>13. NothingSkipped'
    BY <1>2, <1>3, NothingSkippedStays DEF SyncInv
  <1> QED
    BY <1>2, <1>3, <1>4, <1>11, <1>12, <1>13, QuietWorld DEF SyncInv

LEMMA LeaseStep == ASSUME SyncInv, NEW w \in Schedulers, LeaseDue(w) PROVE SyncInv'
  <1>0. PICK k : k = job[w].token
    OBVIOUS
  <1>1. job[w] \in Jobs /\ job[w].stage = "lease" /\ JobOK(job[w])
    BY DEF LeaseDue, SyncInv, SyncTyped, JobsOK
  <1>2. job[w] # SyncIdle /\ k \in LeaseTokens /\ \A s \in Sources : owner[s] # k
    BY <1>0, <1>1, JobKinds DEF JobOK, SyncIdle
  <1>3. tableRows' = tableRows /\ imported' = imported /\ cursor' = cursor /\ manual' = manual /\ runs' = runs
    BY DEF LeaseDue
  <1>4. Grows /\ RunsKept
    BY <1>3, StillWorld, RunsSame DEF SyncInv
  <1>5. CASE job' = [job EXCEPT ![w] = SyncIdle] /\ owner' = owner /\ lease' = lease
    BY <1>2, <1>3, <1>4, <1>5, StopsStep
  <1>6. ASSUME NEW s \in Sources,
               owner' = [owner EXCEPT ![s] = k], lease' = [lease EXCEPT ![s] = "live"],
               job' = [job EXCEPT ![w] = [stage |-> "start", token |-> k, source |-> s]]
        PROVE  SyncInv'
    <2> DEFINE n == [stage |-> "start", token |-> k, source |-> s]
    <2>1. /\ owner \in [Sources -> LeaseTokens \cup {NoLeaseToken}]
          /\ lease \in [Sources -> {"none", "live", "expired"}]
          /\ \A x \in Sources : lease[x] = "none" <=> owner[x] = NoLeaseToken
      BY DEF SyncInv, SyncTyped
    <2>2. owner'[s] = k /\ \A x \in Sources : x # s => owner'[x] = owner[x]
      BY <1>6, <2>1
    <2>3. /\ owner' \in [Sources -> LeaseTokens \cup {NoLeaseToken}]
          /\ lease' \in [Sources -> {"none", "live", "expired"}]
          /\ \A x \in Sources : lease'[x] = "none" <=> owner'[x] = NoLeaseToken
      BY <1>2, <1>6, <2>1, <2>2, SourceConstants
    <2>4. \A v \in Schedulers \ {w} : job[v] # SyncIdle => Spares(job[v])
      <3> SUFFICES ASSUME NEW v \in Schedulers \ {w}, job[v] # SyncIdle PROVE Spares(job[v])
        OBVIOUS
      <3>1. job[v].token # k /\ job[v] \in Jobs
        BY <1>0, <1>2 DEF SyncInv, TokensDistinct, SyncTyped
      <3>2. \A x \in Sources : owner'[x] # job[v].token \/ (owner'[x] = owner[x] /\ cursor'[x] = cursor[x])
        BY <1>3, <2>2, <3>1
      <3> QED
        BY <1>4, <3>1, <3>2, SpareWhenKept DEF SyncInv
    <2>5. n \in Jobs /\ n.stage = "start" /\ n.token = k /\ n.source = s
      BY <1>2 DEF Jobs, Bound
    <2>6. job' = [job EXCEPT ![w] = n]
      BY <1>6
    <2> HIDE DEF n
    <2>7. JobOK(n)'
      BY <1>2, <2>2, <2>5 DEF JobOK, WorkStages
    <2>8. job' \in [Schedulers -> Jobs] /\ TokensDistinct' /\ RunsDistinct' /\ JobsOK'
      BY <1>0, <1>2, <1>3, <1>4, <2>4, <2>5, <2>6, <2>7, OneGoesOn DEF WorkStages
    <2>9. SyncTyped'
      BY <1>3, <1>4, <2>3, <2>8 DEF SyncInv, SyncTyped, Grows, RunsKept
    <2>10. NothingSkipped'
      BY <1>3, <1>4, NothingSkippedStays DEF SyncInv
    <2> QED
      BY <1>3, <1>4, <2>8, <2>9, <2>10, QuietWorld DEF SyncInv
  <1> QED
    BY <1>0, <1>5, <1>6 DEF LeaseDue

\* A run that is free is taken for a source or for all of Feishu.
LEMMA RunTaken ==
  ASSUME SyncInv, NEW i \in 1 .. MaxRuns, NEW s \in Sources, NEW ss \in SUBSET Sources, NewRun(i, s, ss)
  PROVE  /\ runs' \in [1 .. MaxRuns -> RunRows]
         /\ runs'[i].status = "running" /\ runs'[i].promise = Promise(ss)
         /\ \A k \in 1 .. MaxRuns : k # i => runs'[k] = runs[k]
         /\ \A w \in Schedulers : Working(w) => job[w].run # i
         /\ manual # SyncIdle => manual.run # i
  <1> DEFINE r == [source |-> s, status |-> "running", stale |-> FALSE, promise |-> Promise(ss)]
  <1>1. Promise(ss) \in SUBSET (Sources \X Rows)
    BY DEF Promise
  <1>2. r \in RunRows /\ r.status = "running" /\ r.promise = Promise(ss)
    BY <1>1 DEF RunRows, RunStatus
  <1>3. runs \in [1 .. MaxRuns -> RunRows] /\ runs' = [runs EXCEPT ![i] = r]
    BY DEF SyncInv, SyncTyped, NewRun
  <1> HIDE DEF r
  <1>4. runs' \in [1 .. MaxRuns -> RunRows] /\ runs'[i] = r /\ \A k \in 1 .. MaxRuns : k # i => runs'[k] = runs[k]
    BY <1>2, <1>3
  <1> QED
    BY <1>2, <1>4 DEF NewRun, FreeRun

\* A run is taken: what succeeded before is as it was, and every sync under way keeps its run.
LEMMA TakingSpares ==
  ASSUME SyncInv, NEW i \in 1 .. MaxRuns, NEW s \in Sources, NEW ss \in SUBSET Sources, NewRun(i, s, ss),
         Grows, owner' = owner, cursor' = cursor
  PROVE  /\ \A w \in Schedulers : job[w] # SyncIdle => Spares(job[w])
         /\ SucceededImported'
  <1>1. ASSUME NEW w \in Schedulers, job[w] # SyncIdle PROVE Spares(job[w])
    <2>1. job[w] \in Jobs /\ (job[w].stage \in WorkStages => Working(w) /\ job[w].run \in 1 .. MaxRuns)
      BY JobKinds DEF SyncInv, SyncTyped, Working, WorkStages, Syncs
    <2>2. job[w].stage \in WorkStages => runs'[job[w].run] = runs[job[w].run]
      BY <2>1, RunTaken
    <2> QED
      BY <2>2 DEF Spares
  <1>2. SucceededImported'
    BY RunTaken, SucceededStays DEF SyncInv
  <1> QED
    BY <1>1, <1>2

LEMMA StartRunStep == ASSUME SyncInv, NEW w \in Schedulers, StartRun(w) PROVE SyncInv'
  <1>1. job[w] \in Jobs /\ job[w].stage = "start" /\ JobOK(job[w])
    BY DEF StartRun, SyncInv, SyncTyped, JobsOK
  <1>2. PICK k, s : k = job[w].token /\ s = job[w].source
    OBVIOUS
  <1>3. job[w] # SyncIdle /\ k \in LeaseTokens /\ s \in Sources
        /\ \A x \in Sources : owner[x] = k => x = s
    BY <1>1, <1>2, JobKinds DEF JobOK, SyncIdle
  <1>4. PICK i \in 1 .. MaxRuns :
          /\ NewRun(i, s, {s})
          /\ job' = [job EXCEPT ![w] = [stage |-> "read", token |-> k, source |-> s,
                  run |-> i, from |-> cursor[s], cursor |-> cursor[s],
                  rest |-> {}, errors |-> FALSE, some |-> FALSE]]
    BY <1>2 DEF StartRun
  <1>5. PICK n : n = [stage |-> "read", token |-> k, source |-> s, run |-> i, from |-> cursor[s],
                      cursor |-> cursor[s], rest |-> {}, errors |-> FALSE, some |-> FALSE]
    OBVIOUS
  <1>6. tableRows' = tableRows /\ imported' = imported /\ manual' = manual
        /\ owner' = owner /\ lease' = lease /\ cursor' = cursor
    BY DEF StartRun, columns
  <1>7. Grows
    BY <1>6, StillWorld DEF SyncInv
  <1>8. cursor[s] \in 0 .. MaxRow /\ cursor[s] \in Nat /\ tableRows[s] \in 0 .. MaxRow
    BY <1>3, SourceConstants DEF SyncInv, SyncTyped
  <1>9. n \in Syncs /\ n.stage = "read" /\ n.token = k /\ n.source = s /\ n.run = i
        /\ n.from = cursor[s] /\ n.cursor = cursor[s]
    BY <1>3, <1>5, <1>8 DEF Syncs, WorkStages
  <1>10. {s} \in SUBSET Sources
    BY <1>3
  <1>11. /\ runs' \in [1 .. MaxRuns -> RunRows] /\ runs'[i].promise = Promise({s})
         /\ runs'[i].status = "running"
         /\ \A x \in 1 .. MaxRuns : x # i => runs'[x] = runs[x]
         /\ \A v \in Schedulers : Working(v) => job[v].run # i
         /\ manual # SyncIdle => manual.run # i
    BY <1>3, <1>4, <1>10, RunTaken
  <1>12. /\ \A v \in Schedulers : job[v] # SyncIdle => Spares(job[v])
         /\ SucceededImported'
    BY <1>3, <1>4, <1>6, <1>7, <1>10, TakingSpares
  <1>13. s \in Tables => Paged(n)'
    <2>1. s \in Tables => 1 .. cursor[s] \subseteq imported[s]
      BY DEF SyncInv, NothingSkipped
    <2> QED
      BY <1>6, <1>8, <1>9, <2>1 DEF Paged
  <1>14. Answers(n)'
    <2>1. \A p \in Promise({s}) : p[1] = s /\ p[2] <= tableRows[s] /\ s \in Tables
      BY DEF Promise
    <2> QED
      BY <1>6, <1>9, <1>11, <2>1 DEF Answers, Ahead
  <1>15. JobOK(n)' /\ n \in Jobs
    BY <1>3, <1>6, <1>9, <1>13, <1>14 DEF JobOK, Jobs
  <1>16. \A v \in Schedulers \ {w} : job[v] # SyncIdle => job[v].token # k
    BY <1>2, <1>3 DEF SyncInv, TokensDistinct
  <1>17. job' = [job EXCEPT ![w] = n]
    BY <1>4, <1>5
  <1>18. job' \in [Schedulers -> Jobs] /\ TokensDistinct' /\ RunsDistinct' /\ JobsOK'
    <2>1. manual # SyncIdle => manual.run \in 1 .. MaxRuns
      BY DEF SyncInv, SyncTyped, ByHand
    <2> QED
      BY <1>6, <1>7, <1>9, <1>11, <1>12, <1>15, <1>16, <1>17, <2>1, OneCycleMoves
  <1>19. SyncTyped'
    BY <1>6, <1>7, <1>11, <1>18 DEF SyncInv, SyncTyped, Grows
  <1>20. manual # SyncIdle => manual.run \in 1 .. MaxRuns
    BY DEF SyncInv, SyncTyped, ByHand
  <1>21. ManualOK'
    BY <1>6, <1>7, <1>11, <1>20, ManualStays DEF SyncInv
  <1>22. NothingSkipped'
    BY <1>6, <1>7, NothingSkippedStays DEF SyncInv
  <1> QED
    BY <1>12, <1>18, <1>19, <1>21, <1>22 DEF SyncInv

LEMMA FinishStep == ASSUME SyncInv, NEW w \in Schedulers, FinishSource(w) PROVE SyncInv'
  <1> DEFINE j == job[w]
  <1>1. j.stage = "finish" /\ j.stage \in WorkStages
    BY DEF FinishSource, WorkStages
  <1>2. j \in Syncs /\ j # SyncIdle /\ JobOK(j) /\ Working(w)
    BY <1>1, AtWork
  <1>3. tableRows' = tableRows /\ imported' = imported /\ manual' = manual
    BY DEF FinishSource
  <1>4. Grows
    BY <1>3, StillWorld DEF SyncInv
  <1>5. CASE ~ (owner[j.source] = j.token /\ lease[j.source] = "live")
    <2>1. job' = [job EXCEPT ![w] = SyncIdle] /\ runs' = FinishedRun(j.run, "failed")
          /\ owner' = owner /\ lease' = lease /\ cursor' = cursor
      BY <1>5 DEF FinishSource, columns
    <2>2. RunsKept
      BY <2>1, RunFails DEF SyncInv, RunStatus
    <2> QED
      BY <1>2, <1>3, <2>1, <2>2, StopsStep
  <1>6. CASE owner[j.source] = j.token /\ lease[j.source] = "live"
    <2>0. PICK n : n = [j EXCEPT !.stage = "record"]
      OBVIOUS
    <2>1. PICK s : s = j.source
      OBVIOUS
    <2>2. /\ cursor' = [cursor EXCEPT ![s] = j.cursor] /\ owner' = [owner EXCEPT ![s] = NoLeaseToken]
          /\ lease' = [lease EXCEPT ![s] = "none"] /\ runs' = runs /\ job' = [job EXCEPT ![w] = n]
      BY <1>6, <2>0, <2>1 DEF FinishSource
    <2>3. RunsKept
      BY <2>2, RunsSame DEF SyncInv
    <2>4. n \in Syncs /\ n.stage = "record" /\ n.token = j.token /\ n.source = s /\ n.run = j.run
          /\ n.from = j.from /\ n.cursor = j.cursor /\ n.errors = j.errors
      BY <1>2, <2>0, <2>1 DEF Syncs, WorkStages
    <2>5. s \in Sources /\ j.cursor \in 0 .. MaxRow /\ j.token \in LeaseTokens
      BY <1>2, <2>1 DEF Syncs
    <2>6. /\ owner \in [Sources -> LeaseTokens \cup {NoLeaseToken}] /\ cursor \in [Sources -> 0 .. MaxRow]
          /\ lease \in [Sources -> {"none", "live", "expired"}]
          /\ \A x \in Sources : lease[x] = "none" <=> owner[x] = NoLeaseToken
      BY DEF SyncInv, SyncTyped
    <2>7. /\ owner'[s] = NoLeaseToken /\ cursor'[s] = j.cursor
          /\ \A x \in Sources : x # s => owner'[x] = owner[x] /\ cursor'[x] = cursor[x]
      BY <2>2, <2>5, <2>6
    <2>8. /\ owner' \in [Sources -> LeaseTokens \cup {NoLeaseToken}] /\ cursor' \in [Sources -> 0 .. MaxRow]
          /\ lease' \in [Sources -> {"none", "live", "expired"}]
          /\ \A x \in Sources : lease'[x] = "none" <=> owner'[x] = NoLeaseToken
      BY <2>2, <2>5, <2>6
    <2>9. \A v \in Schedulers : job[v] # SyncIdle => Spares(job[v])
      <3> SUFFICES ASSUME NEW v \in Schedulers, job[v] # SyncIdle PROVE Spares(job[v])
        OBVIOUS
      <3>1. job[v] \in Jobs /\ job[v].token \in LeaseTokens
        BY JobKinds DEF SyncInv, SyncTyped
      <3>2. \A x \in Sources : owner'[x] # job[v].token \/ (owner'[x] = owner[x] /\ cursor'[x] = cursor[x])
        BY <2>7, <3>1, SourceConstants
      <3> QED
        BY <2>3, <3>1, <3>2, SpareWhenKept DEF SyncInv
    <2>10. Answers(j) /\ (s \in Tables => Paged(j)) /\ \A x \in Sources : owner[x] = j.token => x = s
      BY <1>1, <1>2, <2>1 DEF JobOK
    <2>11. s \in Tables => Paged(n)'
      BY <1>3, <2>1, <2>4, <2>5, <2>7, <2>10, SourceConstants DEF Paged
    <2>12. Answers(n)'
      <3>1. Imported' = Imported
        BY <1>3 DEF Imported
      <3> QED
        BY <1>1, <1>3, <2>1, <2>2, <2>4, <2>10, <3>1 DEF Answers, Ahead
    <2>13. \A x \in Sources : owner'[x] = n.token => x = s
      BY <2>4, <2>5, <2>7, <2>10, SourceConstants
    <2>14. JobOK(n)' /\ n \in Jobs /\ n.stage \in WorkStages
      BY <2>4, <2>11, <2>12, <2>13 DEF JobOK, Jobs, WorkStages
    <2>15. job' \in [Schedulers -> Jobs] /\ TokensDistinct' /\ RunsDistinct' /\ JobsOK'
      BY <1>2, <1>3, <1>4, <2>2, <2>3, <2>4, <2>9, <2>14, OneGoesOn
    <2>16. SyncTyped'
      BY <1>3, <1>4, <2>3, <2>8, <2>15 DEF SyncInv, SyncTyped, Grows, RunsKept
    <2>17. NothingSkipped'
      <3> SUFFICES ASSUME NEW x \in Tables PROVE 1 .. cursor'[x] \subseteq imported'[x]
        BY DEF NothingSkipped
      <3>1. x \in Sources
        BY DEF Sources
      <3>2. CASE x = s
        BY <1>3, <2>1, <2>7, <2>10, <3>2 DEF Paged
      <3>3. CASE x # s
        BY <1>3, <2>7, <3>1, <3>3 DEF SyncInv, NothingSkipped
      <3> QED
        BY <3>2, <3>3
    <2> QED
      BY <1>3, <1>4, <2>3, <2>15, <2>16, <2>17, QuietWorld DEF SyncInv
  <1> QED
    BY <1>5, <1>6

\* What finishing a run does, whatever the verdict.
LEMMA RunEnds ==
  ASSUME SyncTyped, NEW i \in 1 .. MaxRuns, NEW st \in RunStatus \ {"running"}, runs' = FinishedRun(i, st)
  PROVE  /\ runs' \in [1 .. MaxRuns -> RunRows]
         /\ runs'[i].status # "running" /\ runs'[i].promise = runs[i].promise
         /\ runs'[i].status = "succeeded" =>
              runs[i].status = "succeeded" \/ (runs[i].status = "running" /\ st = "succeeded")
         /\ \A k \in 1 .. MaxRuns : k # i => runs'[k] = runs[k]
  <1>1. runs \in [1 .. MaxRuns -> RunRows]
    BY DEF SyncTyped
  <1>2. CASE runs[i].status # "running"
    BY <1>1, <1>2 DEF FinishedRun
  <1>3. CASE runs[i].status = "running"
    <2> DEFINE r == [[runs[i] EXCEPT !.status = st] EXCEPT !.stale = FALSE]
    <2>1. runs[i] \in RunRows
      BY <1>1
    <2>2. r \in RunRows /\ r.status = st /\ r.promise = runs[i].promise
      BY <2>1 DEF RunRows
    <2>3. runs' = [runs EXCEPT ![i] = r]
      BY <1>1, <1>3 DEF FinishedRun, RunRows
    <2> HIDE DEF r
    <2>4. runs' \in [1 .. MaxRuns -> RunRows] /\ runs'[i] = r /\ \A k \in 1 .. MaxRuns : k # i => runs'[k] = runs[k]
      BY <1>1, <2>2, <2>3
    <2> QED
      BY <1>3, <2>2, <2>4
  <1> QED
    BY <1>2, <1>3

LEMMA ResultKind ==
  ASSUME NEW e \in BOOLEAN, NEW some \in BOOLEAN
  PROVE  Result(e, some) \in RunStatus \ {"running"} /\ (Result(e, some) = "succeeded" <=> ~ e)
  BY DEF Result, RunStatus

LEMMA RecordStep == ASSUME SyncInv, NEW w \in Schedulers, RecordRun(w) PROVE SyncInv'
  <1> DEFINE j == job[w]
  <1>1. j.stage = "record" /\ j.stage \in WorkStages
    BY DEF RecordRun, WorkStages
  <1>2. j \in Syncs /\ j # SyncIdle /\ JobOK(j) /\ Working(w) /\ j.run \in 1 .. MaxRuns
    BY <1>1, AtWork
  <1>3. tableRows' = tableRows /\ imported' = imported /\ manual' = manual
        /\ owner' = owner /\ lease' = lease /\ cursor' = cursor
        /\ job' = [job EXCEPT ![w] = SyncIdle] /\ runs' = FinishedRun(j.run, Result(j.errors, j.some))
    BY DEF RecordRun, columns
  <1>4. Grows /\ SyncTyped
    BY <1>3, StillWorld DEF SyncInv
  <1>5. j.errors \in BOOLEAN /\ j.some \in BOOLEAN
    BY <1>2 DEF Syncs
  <1>6. PICK i, st : i = j.run /\ st = Result(j.errors, j.some)
    OBVIOUS
  <1>7. i \in 1 .. MaxRuns /\ st \in RunStatus \ {"running"} /\ (st = "succeeded" <=> ~ j.errors)
        /\ runs' = FinishedRun(i, st)
    BY <1>2, <1>3, <1>5, <1>6, ResultKind
  <1>8. /\ runs' \in [1 .. MaxRuns -> RunRows]
        /\ runs'[i].status # "running" /\ runs'[i].promise = runs[i].promise
        /\ runs'[i].status = "succeeded" =>
             runs[i].status = "succeeded" \/ (runs[i].status = "running" /\ st = "succeeded")
        /\ \A k \in 1 .. MaxRuns : k # i => runs'[k] = runs[k]
    BY <1>4, <1>7, RunEnds
  <1>9. ~ j.errors /\ runs[i].status = "running" => runs[i].promise \subseteq Imported'
    <2>1. Answers(j)
      BY <1>1, <1>2 DEF JobOK
    <2> QED
      BY <1>1, <1>4, <1>6, <2>1, ImportedGrows DEF Answers, Ahead
  <1>10. SucceededImported'
    BY <1>4, <1>7, <1>8, <1>9, SucceededStays DEF SyncInv
  <1>11. manual # SyncIdle => manual.run \in 1 .. MaxRuns /\ manual.run # i
    BY <1>2, <1>6 DEF SyncInv, SyncTyped, ByHand, RunsDistinct
  <1>12. ManualOK'
    BY <1>3, <1>4, <1>8, <1>11, ManualStays DEF SyncInv
  <1>13. \A v \in Schedulers \ {w} : job[v] # SyncIdle => Spares(job[v])
    <2> SUFFICES ASSUME NEW v \in Schedulers \ {w}, job[v] # SyncIdle PROVE Spares(job[v])
      OBVIOUS
    <2>1. job[v] \in Jobs /\ (job[v].stage \in WorkStages => Working(v) /\ job[v].run \in 1 .. MaxRuns)
      BY JobKinds DEF SyncInv, SyncTyped, Working, WorkStages, Syncs
    <2>2. job[v].stage \in WorkStages => runs'[job[v].run] = runs[job[v].run]
      BY <1>2, <1>6, <1>8, <2>1 DEF SyncInv, RunsDistinct
    <2> QED
      BY <1>3, <2>2 DEF Spares
  <1>14. SyncIdle \in Jobs /\ SyncIdle.stage = "idle" /\ JobOK(SyncIdle)'
    BY DEF SyncIdle, Jobs, JobOK, WorkStages
  <1>15. job' \in [Schedulers -> Jobs] /\ TokensDistinct' /\ RunsDistinct' /\ JobsOK'
    BY <1>3, <1>4, <1>8, <1>11, <1>13, <1>14, OneCycleMoves DEF WorkStages
  <1>16. SyncTyped'
    BY <1>3, <1>4, <1>8, <1>15 DEF SyncTyped, Grows
  <1>17. NothingSkipped'
    BY <1>3, <1>4, NothingSkippedStays DEF SyncInv
  <1> QED
    BY <1>10, <1>12, <1>15, <1>16, <1>17 DEF SyncInv
-----------------------------------------------------------------------------
\* Steps of the manual sync.
LEMMA ManualMoves ==
  ASSUME SyncInv, manual' \in {SyncIdle} \cup ByHand, job' = job, Grows,
         runs' \in [1 .. MaxRuns -> RunRows],
         \A w \in Schedulers : job[w] # SyncIdle => Spares(job[w]),
         manual' # SyncIdle => \A w \in Schedulers : Working(w) => job[w].run # manual'.run,
         manual'.stage \in {"import", "record"} => runs'[manual'.run].status # "succeeded",
         ManualOK', SucceededImported', owner' = owner, lease' = lease,
         cursor' \in [Sources -> 0 .. MaxRow], \A s \in Tables : cursor'[s] = cursor[s]
  PROVE  SyncInv'
  <1>1. SyncTyped'
    BY DEF SyncInv, SyncTyped, Grows
  <1>2. JobsOK'
    BY JobsStay DEF SyncInv
  <1>3. TokensDistinct' /\ RunsDistinct'
    <2>1. \A w \in Schedulers : Working(w) =>
            job[w] # SyncIdle /\ job[w].stage \in WorkStages /\ runs[job[w].run].status # "succeeded"
      BY DEF SyncInv, RunsDistinct, Working, WorkStages, SyncIdle
    <2>2. \A w \in Schedulers : Working(w) => runs'[job[w].run].status # "succeeded"
      BY <2>1 DEF Spares
    <2> QED
      BY <2>2 DEF SyncInv, TokensDistinct, RunsDistinct, Working
  <1>4. NothingSkipped'
    BY NothingSkippedStays DEF SyncInv
  <1> QED
    BY <1>1, <1>2, <1>3, <1>4 DEF SyncInv

LEMMA ManualAtWork ==
  ASSUME SyncInv, manual # SyncIdle
  PROVE  /\ manual \in ByHand /\ manual.run \in 1 .. MaxRuns
         /\ \A w \in Schedulers : Working(w) => job[w].run # manual.run
         /\ manual.stage \in {"import", "record"} => runs[manual.run].status # "succeeded"
  BY DEF SyncInv, SyncTyped, ByHand, RunsDistinct

LEMMA ManualStartStep == ASSUME SyncInv, ManualStart PROVE SyncInv'
  <1>1. PICK i \in 1 .. MaxRuns :
          /\ NewRun(i, Base, Feishu)
          /\ manual' = [stage |-> "import", run |-> i, rest |-> Feishu, errors |-> FALSE, some |-> FALSE]
    BY DEF ManualStart
  <1>2. tableRows' = tableRows /\ imported' = imported /\ owner' = owner /\ lease' = lease
        /\ cursor' = cursor /\ job' = job
    BY DEF ManualStart, columns
  <1>3. Base \in Sources /\ Feishu \in SUBSET Sources
    BY SourceConstants DEF ManualStart, Sources
  <1>4. Grows
    BY <1>2, StillWorld DEF SyncInv
  <1>5. /\ runs' \in [1 .. MaxRuns -> RunRows] /\ runs'[i].promise = Promise(Feishu)
        /\ runs'[i].status = "running"
        /\ \A v \in Schedulers : Working(v) => job[v].run # i
    BY <1>1, <1>3, RunTaken
  <1>6. (\A w \in Schedulers : job[w] # SyncIdle => Spares(job[w])) /\ SucceededImported'
    BY <1>1, <1>2, <1>3, <1>4, TakingSpares
  <1>7. /\ manual' \in ByHand /\ manual'.run = i /\ manual'.rest = Feishu /\ manual'.stage = "import"
    BY <1>1 DEF ByHand
  <1>8. Promise(Feishu) = {}
    BY SourceConstants DEF Promise
  <1>9. ManualOK'
    BY <1>2, <1>5, <1>7, <1>8 DEF ManualOK
  <1>10. cursor' \in [Sources -> 0 .. MaxRow]
    BY <1>2 DEF SyncInv, SyncTyped
  <1> QED
    BY <1>2, <1>4, <1>5, <1>6, <1>7, <1>9, <1>10, ManualMoves

LEMMA ManualImportStep == ASSUME SyncInv, ManualImport PROVE SyncInv'
  <1>1. manual.stage = "import" /\ manual # SyncIdle
    BY DEF ManualImport, SyncIdle
  <1>2. manual \in ByHand /\ manual.run \in 1 .. MaxRuns /\ runs[manual.run].status # "succeeded"
        /\ \A w \in Schedulers : Working(w) => job[w].run # manual.run
    BY <1>1, ManualAtWork
  <1>3. PICK s \in manual.rest : \E got \in FeishuReads(s) \cup {Nothing(TRUE)} : \E done \in SUBSET got.rows :
          /\ s = Base \/ Base \notin manual.rest
          /\ IF got = WholeRead(s) /\ done = got.rows THEN UNCHANGED syncFaults ELSE Fault
          /\ imported' = [imported EXCEPT ![s] = @ \cup done]
          /\ runs' = Brought(manual.run, s, got.rows)
          /\ manual' = [manual EXCEPT !.stage = IF manual.rest = {s} THEN "record" ELSE "import",
                          !.rest = @ \ {s}, !.errors = @ \/ got.errors \/ done # got.rows, !.some = @ \/ done # {}]
    BY Zenon DEF ManualImport
  <1>4. PICK got \in FeishuReads(s) \cup {Nothing(TRUE)} : \E done \in SUBSET got.rows :
          /\ imported' = [imported EXCEPT ![s] = @ \cup done]
          /\ runs' = Brought(manual.run, s, got.rows)
          /\ manual' = [manual EXCEPT !.stage = IF manual.rest = {s} THEN "record" ELSE "import",
                          !.rest = @ \ {s}, !.errors = @ \/ got.errors \/ done # got.rows, !.some = @ \/ done # {}]
    BY <1>3, Zenon
  <1>5. PICK done \in SUBSET got.rows :
          /\ imported' = [imported EXCEPT ![s] = @ \cup done]
          /\ runs' = Brought(manual.run, s, got.rows)
          /\ manual' = [manual EXCEPT !.stage = IF manual.rest = {s} THEN "record" ELSE "import",
                          !.rest = @ \ {s}, !.errors = @ \/ got.errors \/ done # got.rows, !.some = @ \/ done # {}]
    BY <1>4, Zenon
  <1>6. s \in Feishu /\ s \in Sources
    BY <1>2 DEF ByHand, Sources
  <1>7. got.rows \in SUBSET Rows /\ got.errors \in BOOLEAN
    BY <1>6, ReadsAreRows DEF SyncInv
  <1>8. tableRows' = tableRows /\ owner' = owner /\ lease' = lease /\ cursor' = cursor /\ job' = job
    BY DEF ManualImport, columns
  <1>9. imported \in [Sources -> SUBSET Rows] /\ tableRows \in [Sources -> 0 .. MaxRow]
        /\ cursor' \in [Sources -> 0 .. MaxRow]
    BY <1>8 DEF SyncInv, SyncTyped
  <1>10. imported' \in [Sources -> SUBSET Rows] /\ imported'[s] = imported[s] \cup done
         /\ \A x \in Sources : imported[x] \subseteq imported'[x]
    BY <1>5, <1>6, <1>7, <1>9
  <1>11. Grows
    BY <1>8, <1>9, <1>10, SourceConstants DEF Grows
  <1>12. /\ runs' \in [1 .. MaxRuns -> RunRows] /\ SucceededImported'
         /\ runs'[manual.run].status = runs[manual.run].status
         /\ runs'[manual.run].promise = runs[manual.run].promise \cup ({s} \X got.rows)
         /\ \A k \in 1 .. MaxRuns : k # manual.run => runs'[k] = runs[k]
    BY <1>2, <1>5, <1>6, <1>7, <1>11, ReadIsPromised
  <1>13. \A w \in Schedulers : job[w] # SyncIdle => Spares(job[w])
    <2> SUFFICES ASSUME NEW v \in Schedulers, job[v] # SyncIdle PROVE Spares(job[v])
      OBVIOUS
    <2>1. job[v] \in Jobs /\ (job[v].stage \in WorkStages => Working(v) /\ job[v].run \in 1 .. MaxRuns)
      BY JobKinds DEF SyncInv, SyncTyped, Working, WorkStages, Syncs
    <2>2. job[v].stage \in WorkStages => runs'[job[v].run] = runs[job[v].run]
      BY <1>2, <1>12, <2>1
    <2> QED
      BY <1>8, <2>2 DEF Spares
  <1>14. /\ manual' \in ByHand /\ manual'.run = manual.run
         /\ manual'.errors = (manual.errors \/ got.errors \/ done # got.rows)
    BY <1>1, <1>2, <1>5, <1>7 DEF ByHand
  <1>15. ManualOK'
    <2> SUFFICES ASSUME runs[manual.run].status = "running", ~ manual'.errors
                 PROVE  runs'[manual.run].promise \subseteq Imported'
      BY <1>12, <1>14 DEF ManualOK
    <2>1. ~ manual.errors /\ done = got.rows
      BY <1>14
    <2>2. runs[manual.run].promise \subseteq Imported
      BY <1>1, <2>1 DEF SyncInv, ManualOK
    <2>3. {s} \X got.rows \subseteq Imported'
      BY <1>6, <1>7, <1>10, <2>1 DEF Imported
    <2> QED
      BY <1>11, <1>12, <2>2, <2>3, ImportedGrows
  <1> QED
    BY <1>2, <1>8, <1>9, <1>11, <1>12, <1>13, <1>14, <1>15, ManualMoves

LEMMA ManualRecordStep == ASSUME SyncInv, ManualRecord PROVE SyncInv'
  <1>1. manual.stage = "record" /\ manual # SyncIdle
    BY DEF ManualRecord, SyncIdle
  <1>2. manual \in ByHand /\ manual.run \in 1 .. MaxRuns
        /\ \A w \in Schedulers : Working(w) => job[w].run # manual.run
    BY <1>1, ManualAtWork
  <1>3. tableRows' = tableRows /\ imported' = imported /\ owner' = owner /\ lease' = lease
        /\ cursor' = cursor /\ job' = job /\ manual' = [manual EXCEPT !.stage = "finish"]
        /\ runs' = FinishedRun(manual.run, Result(manual.errors, manual.some))
    BY DEF ManualRecord, columns
  <1>4. Grows /\ SyncTyped /\ cursor' \in [Sources -> 0 .. MaxRow]
    BY <1>3, StillWorld DEF SyncInv, SyncTyped
  <1>5. manual.errors \in BOOLEAN /\ manual.some \in BOOLEAN
    BY <1>2 DEF ByHand
  <1>6. PICK i, st : i = manual.run /\ st = Result(manual.errors, manual.some)
    OBVIOUS
  <1>7. i \in 1 .. MaxRuns /\ st \in RunStatus \ {"running"} /\ (st = "succeeded" <=> ~ manual.errors)
        /\ runs' = FinishedRun(i, st)
    BY <1>2, <1>3, <1>5, <1>6, ResultKind
  <1>8. /\ runs' \in [1 .. MaxRuns -> RunRows]
        /\ runs'[i].status # "running" /\ runs'[i].promise = runs[i].promise
        /\ runs'[i].status = "succeeded" =>
             runs[i].status = "succeeded" \/ (runs[i].status = "running" /\ st = "succeeded")
        /\ \A k \in 1 .. MaxRuns : k # i => runs'[k] = runs[k]
    BY <1>4, <1>7, RunEnds
  <1>9. ~ manual.errors /\ runs[i].status = "running" => runs[i].promise \subseteq Imported'
    BY <1>1, <1>4, <1>5, <1>6, ImportedGrows DEF SyncInv, ManualOK
  <1>10. SucceededImported'
    BY <1>4, <1>7, <1>8, <1>9, SucceededStays DEF SyncInv
  <1>11. \A w \in Schedulers : job[w] # SyncIdle => Spares(job[w])
    <2> SUFFICES ASSUME NEW v \in Schedulers, job[v] # SyncIdle PROVE Spares(job[v])
      OBVIOUS
    <2>1. job[v] \in Jobs /\ (job[v].stage \in WorkStages => Working(v) /\ job[v].run \in 1 .. MaxRuns)
      BY JobKinds DEF SyncInv, SyncTyped, Working, WorkStages, Syncs
    <2>2. job[v].stage \in WorkStages => runs'[job[v].run] = runs[job[v].run]
      BY <1>2, <1>6, <1>8, <2>1
    <2> QED
      BY <1>3, <2>2 DEF Spares
  <1>12. manual' \in ByHand /\ manual'.run = i /\ manual'.stage = "finish"
    BY <1>2, <1>3, <1>6 DEF ByHand
  <1>13. ManualOK'
    BY <1>8, <1>12 DEF ManualOK
  <1> QED
    BY <1>2, <1>3, <1>4, <1>6, <1>8, <1>10, <1>11, <1>12, <1>13, ManualMoves

LEMMA ManualFinishStep == ASSUME SyncInv, ManualFinish PROVE SyncInv'
  <1> DEFINE free == {s \in Feishu : owner[s] = NoLeaseToken}
  <1>1. tableRows' = tableRows /\ imported' = imported /\ owner' = owner /\ lease' = lease
        /\ runs' = runs /\ job' = job /\ manual' = SyncIdle
        /\ cursor' = [s \in Sources |-> IF s \in free THEN 0 ELSE cursor[s]]
    BY DEF ManualFinish
  <1>2. Grows /\ RunsKept
    BY <1>1, StillWorld, RunsSame DEF SyncInv
  <1>3. cursor' \in [Sources -> 0 .. MaxRow]
    BY <1>1, SourceConstants DEF SyncInv, SyncTyped
  <1>4. \A s \in Tables : s \in Sources /\ s \notin free
    BY SourceConstants DEF Sources
  <1>5. \A s \in Tables : cursor'[s] = cursor[s]
    BY <1>1, <1>4
  <1>6. \A w \in Schedulers : job[w] # SyncIdle => Spares(job[w])
    <2> SUFFICES ASSUME NEW v \in Schedulers, job[v] # SyncIdle PROVE Spares(job[v])
      OBVIOUS
    <2>1. job[v] \in Jobs /\ job[v].token \in LeaseTokens
      BY JobKinds DEF SyncInv, SyncTyped
    <2>2. \A x \in Sources : owner'[x] # job[v].token \/ (owner'[x] = owner[x] /\ cursor'[x] = cursor[x])
      BY <1>1, <2>1, SourceConstants
    <2> QED
      BY <1>2, <2>1, <2>2, SpareWhenKept DEF SyncInv
  <1>7. ManualOK'
    BY <1>1 DEF ManualOK
  <1>8. SucceededImported'
    BY <1>2, SucceededStays DEF SyncInv, RunsKept
  <1> QED
    BY <1>1, <1>2, <1>3, <1>5, <1>6, <1>7, <1>8, ManualMoves DEF RunsKept, SyncIdle

LEMMA ManualCrashStep == ASSUME SyncInv, ManualCrash PROVE SyncInv'
  <1>1. tableRows' = tableRows /\ imported' = imported /\ owner' = owner /\ lease' = lease
        /\ runs' = runs /\ job' = job /\ manual' = SyncIdle /\ cursor' = cursor
    BY DEF ManualCrash, columns
  <1>2. Grows /\ RunsKept /\ cursor' \in [Sources -> 0 .. MaxRow]
    BY <1>1, StillWorld, RunsSame DEF SyncInv, SyncTyped
  <1>3. \A w \in Schedulers : job[w] # SyncIdle => Spares(job[w])
    BY <1>1, <1>2, SpareWhenKept DEF SyncInv, SyncTyped
  <1>4. ManualOK'
    BY <1>1 DEF ManualOK
  <1>5. SucceededImported'
    BY <1>2, SucceededStays DEF SyncInv, RunsKept
  <1> QED
    BY <1>1, <1>2, <1>3, <1>4, <1>5, ManualMoves DEF RunsKept, SyncIdle
-----------------------------------------------------------------------------
LEMMA SyncPreserved == SyncInv /\ [SyncNext]_syncVars => SyncInv'
  <1> SUFFICES ASSUME SyncInv, [SyncNext]_syncVars PROVE SyncInv'
    OBVIOUS
  <1>1. ASSUME NEW w \in Schedulers, Cycle(w) \/ Timeout(w) \/ Crash(w) PROVE SyncInv'
    BY <1>1, BeginStep, LeaseStep, StartRunStep, ReadTableStep, ReadFeishuStep, RenewStep, ImportStep, FinishStep, RecordStep,
       TimeoutStep, CrashStep DEF Cycle
  <1>2. ASSUME ManualStart \/ ManualSync \/ ManualCrash PROVE SyncInv'
    BY <1>2, ManualStartStep, ManualImportStep, ManualRecordStep, ManualFinishStep, ManualCrashStep
       DEF ManualSync
  <1>3. ASSUME NEW s \in Sources, AddRow(s) \/ SourceBecomesDue(s) \/ Lapse(s) PROVE SyncInv'
    BY <1>3, AddRowStep, DueStep, LapseStep
  <1>4. ASSUME NEW i \in 1 .. MaxRuns, RunAges(i) PROVE SyncInv'
    BY <1>4, AgeStep
  <1>5. ASSUME UNCHANGED syncVars PROVE SyncInv'
    <2>1. Grows /\ RunsKept /\ lease' = lease
      BY <1>5, StillWorld, RunsSame DEF syncVars, SyncInv
    <2> QED
      BY <1>5, <2>1, WorldStep DEF syncVars, SyncInv, SyncTyped
  <1> QED
    BY <1>1, <1>2, <1>3, <1>4, <1>5 DEF SyncNext

LEMMA SyncInvariant == SyncSpec => []SyncInv
  BY SyncInitial, SyncPreserved, PTL DEF SyncSpec

(* Every row behind the saved cursor of a table source is imported, whatever   *)
(* pages, imports, leases and processes fail, for any number of rows, page     *)
(* sizes and schedulers: finish_source saves a cursor only behind imported     *)
(* pages.                                                                      *)
THEOREM SkipsNothing == SyncSpec => []NothingSkipped
  <1>1. SyncInv => NothingSkipped
    BY DEF SyncInv
  <1> QED
    BY <1>1, SyncInvariant, PTL

(* A run recorded as succeeded imported every row its table had when it began, *)
(* or everything its reads of Feishu brought, in the scheduled and in the      *)
(* manual sync, also when its run row was recovered meanwhile.  What a listing *)
(* that failed unnoticed would have brought is not part of that.               *)
THEOREM SuccessIsImported == SyncSpec => []SucceededImported
  <1>1. SyncInv => SucceededImported
    BY DEF SyncInv
  <1> QED
    BY <1>1, SyncInvariant, PTL

(* The cursor of a table never moves back: finish_source of a sync that lost   *)
(* its lease changes nothing, and the one that holds it began from the cursor  *)
(* that is saved.                                                              *)
THEOREM CursorNeverBack == SyncSpec => CursorAdvances
  <1> DEFINE Ahead2 == \A s \in Tables : cursor'[s] >= cursor[s]
  <1>1. SyncInv /\ [SyncNext]_syncVars => [Ahead2]_syncVars
    <2> SUFFICES ASSUME SyncInv, [SyncNext]_syncVars, NEW s \in Tables PROVE cursor'[s] >= cursor[s]
      OBVIOUS
    <2>1. s \in Sources /\ cursor \in [Sources -> 0 .. MaxRow] /\ cursor[s] \in Nat
      BY SourceConstants DEF Sources, SyncInv, SyncTyped
    <2>2. ASSUME cursor'[s] = cursor[s] PROVE cursor'[s] >= cursor[s]
      BY <2>1, <2>2
    <2>3. ASSUME NEW w \in Schedulers, FinishSource(w) PROVE cursor'[s] >= cursor[s]
      <3>1. CASE cursor' = cursor
        BY <2>2, <3>1
      <3>2. CASE cursor' # cursor
        <4>1. /\ job[w].stage = "finish" /\ owner[job[w].source] = job[w].token
              /\ cursor' = [cursor EXCEPT ![job[w].source] = job[w].cursor]
          BY <2>3, <3>2 DEF FinishSource, columns
        <4>2. job[w] \in Syncs /\ JobOK(job[w])
          BY <4>1, AtWork DEF WorkStages
        <4>3. CASE s # job[w].source
          BY <2>1, <2>2, <4>1, <4>3
        <4>4. CASE s = job[w].source
          <5>1. Paged(job[w])
            BY <4>1, <4>2, <4>4 DEF JobOK, WorkStages
          <5>2. job[w].cursor \in Nat /\ job[w].from <= job[w].cursor /\ cursor[s] = job[w].from
            BY <4>1, <4>2, <4>4, <5>1, SourceConstants DEF Paged, Syncs
          <5>3. cursor'[s] = job[w].cursor
            BY <2>1, <4>1, <4>4
          <5> QED
            BY <2>1, <5>2, <5>3
        <4> QED
          BY <4>3, <4>4
      <3> QED
        BY <3>1, <3>2
    <2>4. ASSUME ManualFinish PROVE cursor'[s] >= cursor[s]
      <3>1. s \notin Feishu
        BY SourceConstants
      <3>2. cursor'[s] = cursor[s]
        BY <2>1, <2>4, <3>1 DEF ManualFinish
      <3> QED
        BY <2>2, <3>2
    <2>5. ASSUME NEW w \in Schedulers, BeginSync(w) PROVE cursor' = cursor
      BY <2>5 DEF BeginSync, RecoverStale
    <2>6. ASSUME NEW w \in Schedulers, LeaseDue(w) \/ StartRun(w) \/ ReadTable(w) \/ ReadFeishu(w) \/ Renew(w) \/ Import(w)
                   \/ RecordRun(w) \/ Timeout(w) \/ Crash(w)
          PROVE  cursor' = cursor
      BY <2>6 DEF LeaseDue, StartRun, ReadTable, ReadFeishu, Renew, Import, RecordRun, Timeout, Crash, columns
    <2>7. ASSUME ManualStart \/ ManualImport \/ ManualRecord \/ ManualCrash PROVE cursor' = cursor
      BY <2>7 DEF ManualStart, ManualImport, ManualRecord, ManualCrash, columns
    <2>8. ASSUME NEW x \in Sources, AddRow(x) \/ SourceBecomesDue(x) \/ Lapse(x) PROVE cursor' = cursor
      BY <2>8 DEF AddRow, SourceBecomesDue, Lapse, columns
    <2>9. ASSUME NEW i \in 1 .. MaxRuns, RunAges(i) PROVE cursor' = cursor
      BY <2>9 DEF RunAges, columns
    <2>10. CASE UNCHANGED syncVars
      BY <2>2, <2>10 DEF syncVars
    <2> QED
      BY <2>2, <2>3, <2>4, <2>5, <2>6, <2>7, <2>8, <2>9, <2>10 DEF SyncNext, Cycle, ManualSync
  <1> QED
    BY <1>1, SyncInvariant, PTL DEF SyncSpec, CursorAdvances

(* A live lease ends by lapsing or by its holder finishing the source: neither *)
(* recover_stale_runs nor a manual sync, nor a scheduler that lost it, takes   *)
(* it away.                                                                    *)
THEOREM LeaseIsRespected == SyncSpec => LiveLeaseRespected
  <1> DEFINE Holder(s) ==
        \E w \in Schedulers : job[w].stage = "finish" /\ job[w].source = s /\ job[w].token = owner[s]
             Respected == \A s \in Sources : lease[s] = "live" /\ lease'[s] = "none" => Holder(s)
  <1>1. SyncInv /\ [SyncNext]_syncVars => [Respected]_syncVars
    <2> SUFFICES ASSUME SyncInv, [SyncNext]_syncVars, NEW s \in Sources,
                        lease[s] = "live", lease'[s] = "none"
                 PROVE  Holder(s)
      OBVIOUS
    <2>1. lease \in [Sources -> {"none", "live", "expired"}] /\ lease' # lease
      BY DEF SyncInv, SyncTyped
    <2>2. ASSUME NEW w \in Schedulers, FinishSource(w) PROVE Holder(s)
      <3>1. /\ job[w].stage = "finish" /\ owner[job[w].source] = job[w].token
            /\ lease' = [lease EXCEPT ![job[w].source] = "none"]
        BY <2>1, <2>2 DEF FinishSource, columns
      <3>2. job[w].source = s
        BY <2>1, <3>1
      <3> QED
        BY <3>1, <3>2
    <2>3. ASSUME NEW w \in Schedulers, BeginSync(w) PROVE FALSE
      BY <2>3 DEF BeginSync, RecoverStale
    <2>4. ASSUME NEW w \in Schedulers, LeaseDue(w) PROVE FALSE
      <3>1. PICK x \in Sources : lease' = [lease EXCEPT ![x] = "live"]
        BY <2>1, <2>4 DEF LeaseDue
      <3> QED
        BY <2>1, <3>1
    <2>5. ASSUME NEW w \in Schedulers, StartRun(w) \/ ReadTable(w) \/ ReadFeishu(w) \/ Renew(w) \/ Import(w)
                   \/ RecordRun(w) \/ Timeout(w) \/ Crash(w)
          PROVE  FALSE
      BY <2>1, <2>5 DEF StartRun, ReadTable, ReadFeishu, Renew, Import, RecordRun, Timeout, Crash, columns
    <2>6. ASSUME ManualStart \/ ManualSync \/ ManualCrash PROVE FALSE
      BY <2>1, <2>6 DEF ManualSync, ManualStart, ManualImport, ManualRecord, ManualFinish, ManualCrash, columns
    <2>7. ASSUME NEW x \in Sources, AddRow(x) \/ SourceBecomesDue(x) PROVE FALSE
      BY <2>1, <2>7 DEF AddRow, SourceBecomesDue, columns
    <2>8. ASSUME NEW x \in Sources, Lapse(x) PROVE FALSE
      <3>1. lease' = [lease EXCEPT ![x] = "expired"]
        BY <2>8 DEF Lapse
      <3> QED
        BY <2>1, <3>1
    <2>9. ASSUME NEW i \in 1 .. MaxRuns, RunAges(i) PROVE FALSE
      BY <2>1, <2>9 DEF RunAges, columns
    <2>10. CASE UNCHANGED syncVars
      BY <2>1, <2>10 DEF syncVars
    <2> QED
      BY <2>2, <2>3, <2>4, <2>5, <2>6, <2>7, <2>8, <2>9, <2>10 DEF SyncNext, Cycle
  <1> QED
    BY <1>1, SyncInvariant, PTL DEF SyncSpec, LiveLeaseRespected

-------------------------------------------------------------------------------
(* ServiceProcess: a shutdown is clean, and no notification is slept on.     *)

LifeStates == [at : Lives, starts : 0 .. MaxStarts]
SupStates ==
  [accepting : BOOLEAN, wake : BOOLEAN, listening : BOOLEAN, stop : BOOLEAN,
   task : {"none", "loop", "cycle", "waiting"},
   thread : {"idle", "running", "took", "ended"}, conn : {"none", "open", "closed"}]
MetricStates == [current : 0 .. MaxStarts, last : 0 .. MaxStarts, closed : BOOLEAN]
PoolStates == [permits : Nat, open : BOOLEAN]
Transits == [at : PayloadStates, gen : 0 .. MaxStarts, attached : BOOLEAN]

ServiceTyped ==
  /\ life \in LifeStates /\ sup \in SupStates /\ backlog \in BOOLEAN /\ told \in BOOLEAN
  /\ metrics \in MetricStates /\ pool \in [Generations -> PoolStates]
  /\ payload \in [Payloads -> Transits]

\* The coroutine exists between a start and the end of its grace period; its connection is
\* open, and its thread is at work only within a cycle.
SupShape ==
  /\ life.at \in {"down", "dispatching"} => sup.task = "none" /\ sup.thread = "idle"
  /\ life.at = "joining" => sup.task = "none"
  /\ sup.task # "none" => sup.conn = "open"
  /\ sup.task \in {"loop", "waiting"} => sup.thread = "idle"
  /\ ConnectionOutlivesCycle
\* A notification not acted on has the event set, or a cycle ahead that clears it.
ToldShape == told => sup.wake \/ sup.thread = "running" \/ sup.task \in {"loop", "none"}

\* Dispatchers are made one after the other, at most one for a start.
DispatcherShape ==
  /\ metrics.closed => metrics.current = 0
  /\ metrics.current = 0 => metrics.last <= life.starts /\ (metrics.closed \/ life.starts = 0)
  /\ metrics.current # 0 => /\ metrics.current = metrics.last
                            /\ metrics.last <= life.starts \/ (metrics.last = 1 /\ life.starts = 0)
  /\ life.at \in {"dispatching", "supervised", "up"} => metrics.current # 0 /\ life.starts > 0

\* A measurement on its way has a dispatcher, and one that waits a dispatcher that is open.
PayloadShape ==
  \A p \in Payloads : payload[p].at \notin {"new", "dropped"} => payload[p].gen \in Generations
PendingOpen ==
  \A p \in Payloads : payload[p].at = "pending" => pool[payload[p].gen].open

ServiceInv ==
  /\ ServiceTyped /\ SupShape /\ ToldShape /\ DispatcherShape /\ PayloadShape /\ PendingOpen
  /\ PermitsExact /\ NothingWrittenAfter
-----------------------------------------------------------------------------
(* Holding a permit *)
HeldBy(r, g) ==
  /\ r.gen = g
  /\ r.at \in {"acquired", "pending", "running"} \/ (r.at \in {"done", "cancelled"} /\ ~r.attached)

LEMMA HoldingHeld == \A g : Holding(g) = {p \in Payloads : HeldBy(payload[p], g)}
  BY DEF Holding, HeldBy

LEMMA HoldingHeldNext == \A g : Holding(g)' = {p \in Payloads : HeldBy(payload'[p], g)}
  BY DEF Holding, HeldBy

LEMMA HoldingFinite == \A g : IsFiniteSet(Holding(g)) /\ Cardinality(Holding(g)) \in Nat
  <1>1. \A g : Holding(g) \in SUBSET Payloads
    BY DEF Holding
  <1> QED
    BY <1>1, ServiceAssumption, FS_Subset, FS_CardinalityType

\* One measurement moves: its dispatcher gains, loses or keeps a holder.
LEMMA OneMoves ==
  ASSUME NEW p \in Payloads, \A q \in Payloads \ {p} : payload'[q] = payload[q], NEW g
  PROVE  /\ (HeldBy(payload'[p], g) <=> HeldBy(payload[p], g)) => Holding(g)' = Holding(g)
         /\ HeldBy(payload'[p], g) /\ ~HeldBy(payload[p], g) =>
              Cardinality(Holding(g)') = Cardinality(Holding(g)) + 1
         /\ ~HeldBy(payload'[p], g) /\ HeldBy(payload[p], g) =>
              Cardinality(Holding(g)') = Cardinality(Holding(g)) - 1
  <1>1. ASSUME HeldBy(payload'[p], g) <=> HeldBy(payload[p], g) PROVE Holding(g)' = Holding(g)
    BY <1>1, HoldingHeld, HoldingHeldNext
  <1>2. ASSUME HeldBy(payload'[p], g), ~HeldBy(payload[p], g)
        PROVE  Cardinality(Holding(g)') = Cardinality(Holding(g)) + 1
    <2>1. Holding(g)' = Holding(g) \cup {p} /\ p \notin Holding(g)
      BY <1>2, HoldingHeld, HoldingHeldNext
    <2> QED
      BY <2>1, HoldingFinite, FS_AddElement
  <1>3. ASSUME ~HeldBy(payload'[p], g), HeldBy(payload[p], g)
        PROVE  Cardinality(Holding(g)') = Cardinality(Holding(g)) - 1
    <2>1. Holding(g)' = Holding(g) \ {p} /\ p \in Holding(g)
      BY <1>3, HoldingHeld, HoldingHeldNext
    <2> QED
      BY <2>1, HoldingFinite, FS_RemoveElement
  <1> QED
    BY <1>1, <1>2, <1>3

\* A move in one dispatcher, with the permit it takes or gives back.
Moves(p, at, gen, attached) ==
  /\ payload' \in [Payloads -> Transits]
  /\ payload'[p].at = at /\ payload'[p].gen = gen /\ payload'[p].attached = attached
  /\ \A q \in Payloads \ {p} : payload'[q] = payload[q]
PermitsBecome(g, n) ==
  /\ pool' \in [Generations -> PoolStates]
  /\ pool'[g].permits = n /\ pool'[g].open = pool[g].open
  /\ \A h \in Generations \ {g} : pool'[h] = pool[h]

LEMMA Moved ==
  ASSUME ServiceTyped, NEW p \in Payloads, NEW r \in Transits, payload' = [payload EXCEPT ![p] = r]
  PROVE  Moves(p, r.at, r.gen, r.attached)
  BY DEF ServiceTyped, Moves

LEMMA MovedTo ==
  ASSUME ServiceTyped, NEW p \in Payloads, NEW at \in PayloadStates,
         payload' = [payload EXCEPT ![p].at = at]
  PROVE  Moves(p, at, payload[p].gen, payload[p].attached)
  <1> DEFINE r == [payload[p] EXCEPT !.at = at]
  <1>1. r \in Transits /\ r.at = at /\ r.gen = payload[p].gen /\ r.attached = payload[p].attached
    BY DEF ServiceTyped, Transits
  <1>2. payload' = [payload EXCEPT ![p] = r]
    OBVIOUS
  <1> HIDE DEF r
  <1> QED
    BY <1>1, <1>2, Moved

LEMMA PermitsChanged ==
  ASSUME ServiceTyped, NEW g \in Generations, NEW n \in Nat, pool' = [pool EXCEPT ![g].permits = n]
  PROVE  PermitsBecome(g, n)
  <1> DEFINE r == [pool[g] EXCEPT !.permits = n]
  <1>1. r \in PoolStates /\ r.permits = n /\ r.open = pool[g].open
    BY DEF ServiceTyped, PoolStates
  <1>2. pool' = [pool EXCEPT ![g] = r]
    OBVIOUS
  <1> HIDE DEF r
  <1> QED
    BY <1>1, <1>2 DEF ServiceTyped, PermitsBecome

LEMMA PermitsSame == ServiceTyped /\ UNCHANGED pool => \A g \in Generations : PermitsBecome(g, pool[g].permits)
  BY DEF ServiceTyped, PermitsBecome

\* One step of a measurement.
LEMMA PayloadStep ==
  ASSUME ServiceInv, NEW p \in Payloads, NEW at \in PayloadStates, NEW g \in Generations,
         NEW attached \in BOOLEAN, NEW n \in Nat, Moves(p, at, g, attached), PermitsBecome(g, n),
         UNCHANGED <<life, sup, backlog, told>>,
         metrics' \in MetricStates, DispatcherShape',
         payload[p].at # "new" => payload[p].gen = g,
         at = "pending" => pool[g].open,
         at = "running" => payload[p].at \in {"pending", "running"},
         LET was == HeldBy(payload[p], g)
             is  == HeldBy(payload'[p], g)
         IN  \/ (was <=> is) /\ n = pool[g].permits
             \/ ~was /\ is /\ n = pool[g].permits - 1
             \/ was /\ ~is /\ n = pool[g].permits + 1
  PROVE  ServiceInv'
  <1>1. ServiceTyped'
    BY DEF ServiceInv, ServiceTyped, Moves, PermitsBecome
  <1>2. SupShape' /\ ToldShape'
    BY DEF ServiceInv, SupShape, ToldShape, ConnectionOutlivesCycle
  <1>3. PayloadShape'
    BY DEF ServiceInv, PayloadShape, Moves
  <1>4. \A h \in Generations : pool'[h].open = pool[h].open
    BY DEF PermitsBecome
  <1>5. PendingOpen'
    BY <1>4 DEF ServiceInv, PendingOpen, PayloadShape, Moves
  <1>6. PermitsExact'
    <2> SUFFICES ASSUME NEW h \in Generations
                 PROVE  pool'[h].permits + Cardinality(Holding(h)') = MaxInFlight
      BY DEF PermitsExact
    <2>1. pool[h].permits + Cardinality(Holding(h)) = MaxInFlight /\ pool[h].permits \in Nat
          /\ Cardinality(Holding(h)) \in Nat
      BY HoldingFinite DEF ServiceInv, ServiceTyped, PermitsExact, PoolStates
    <2>2. CASE h = g
      BY <2>1, <2>2, OneMoves, ServiceAssumption DEF Moves, PermitsBecome
    <2>3. CASE h # g
      <3>1. ~HeldBy(payload[p], h) /\ ~HeldBy(payload'[p], h)
        BY <2>3 DEF HeldBy, Moves
      <3>2. Holding(h)' = Holding(h)
        BY <3>1, OneMoves DEF Moves
      <3> QED
        BY <2>1, <2>3, <3>2 DEF PermitsBecome
    <2> QED
      BY <2>2, <2>3
  <1>7. NothingWrittenAfter'
    <2>1. \A h \in Generations : ~pool[h].open => Writing(h)' \subseteq Writing(h)
      BY DEF Writing, Moves, ServiceInv, PendingOpen
    <2> QED
      BY <1>4, <2>1 DEF ServiceInv, NothingWrittenAfter
  <1> QED
    BY <1>1, <1>2, <1>3, <1>5, <1>6, <1>7 DEF ServiceInv

\* A measurement that is dropped on the spot.
LEMMA DropStep ==
  ASSUME ServiceInv, NEW p \in Payloads, payload[p].at = "new",
         payload' = [payload EXCEPT ![p].at = "dropped"],
         UNCHANGED <<life, sup, backlog, told, metrics, pool>>
  PROVE  ServiceInv'
  <1>0. ServiceTyped
    BY DEF ServiceInv
  <1>1. Moves(p, "dropped", payload[p].gen, payload[p].attached)
    BY <1>0, MovedTo DEF PayloadStates
  <1>2. ServiceTyped' /\ SupShape' /\ ToldShape' /\ DispatcherShape'
    BY <1>1 DEF ServiceInv, ServiceTyped, SupShape, ToldShape, DispatcherShape,
                ConnectionOutlivesCycle, Moves
  <1>3. PayloadShape' /\ PendingOpen'
    BY <1>1 DEF ServiceInv, PayloadShape, PendingOpen, Moves
  <1>4. \A g : Holding(g)' = Holding(g)
    <2>1. \A g : ~HeldBy(payload[p], g) /\ ~HeldBy(payload'[p], g)
      BY <1>1 DEF HeldBy, Moves
    <2> QED
      BY <1>1, <2>1, OneMoves DEF Moves
  <1>5. PermitsExact'
    BY <1>4 DEF ServiceInv, PermitsExact
  <1>6. \A g : Writing(g)' = Writing(g)
    BY <1>1 DEF Writing, Moves
  <1> QED
    BY <1>2, <1>3, <1>5, <1>6 DEF ServiceInv, NothingWrittenAfter

LEMMA PayloadTyped ==
  ASSUME ServiceInv, NEW p \in Payloads
  PROVE  /\ payload[p] \in Transits /\ payload[p].gen \in 0 .. MaxStarts
         /\ payload[p].attached \in BOOLEAN /\ payload[p].at \in PayloadStates
         /\ payload[p].at \notin {"new", "dropped"} => payload[p].gen \in Generations
         /\ \A g \in Generations : pool[g].permits \in Nat
  BY DEF ServiceInv, ServiceTyped, PayloadShape, Transits, PoolStates

LEMMA CreateTyped ==
  ASSUME metrics \in MetricStates, metrics.last + 1 \in 0 .. MaxStarts
  PROVE  /\ Create \in MetricStates /\ Create.closed = metrics.closed
         /\ Create.current = metrics.last + 1 /\ Create.last = metrics.last + 1
  <1> DEFINE n == metrics.last + 1
             c == [metrics EXCEPT !.current = n, !.last = n]
  <1>1. Create = c
    BY DEF Create
  <1>2. n \in 0 .. MaxStarts
    OBVIOUS
  <1> HIDE DEF n
  <1>3. c \in MetricStates /\ c.closed = metrics.closed /\ c.current = n /\ c.last = n
    BY <1>2 DEF MetricStates
  <1> QED
    BY <1>1, <1>3 DEF n

LEMMA MetricSteps ==
  ASSUME ServiceInv, NEW p \in Payloads,
         Select(p) \/ Acquire(p) \/ SubmitWrite(p) \/ Attach(p) \/ Write(p) \/ Written(p)
  PROVE  ServiceInv'
  <1> DEFINE g == payload[p].gen
             attached == payload[p].attached
  <1>0. /\ ServiceTyped /\ payload[p] \in Transits /\ attached \in BOOLEAN
        /\ payload[p].at \notin {"new", "dropped"} => g \in Generations
        /\ \A h \in Generations : pool[h].permits \in Nat
    BY PayloadTyped DEF ServiceInv
  <1>1. CASE Select(p)
    <2>1. CASE metrics.closed
      BY <1>1, <2>1, DropStep DEF Select
    <2>2. CASE ~metrics.closed
      <3> DEFINE made == metrics'.current
      <3>0. metrics \in MetricStates /\ life.starts \in Nat /\ metrics.last \in Nat
            /\ metrics.current \in 0 .. MaxStarts
        BY DEF ServiceInv, ServiceTyped, MetricStates, LifeStates
      <3>1. metrics' = (IF metrics.current = 0 THEN Create ELSE metrics) /\ payload[p].at = "new"
            /\ UNCHANGED <<life, sup, backlog, told, pool>>
        BY <1>1, <2>2 DEF Select
      <3>2. metrics' \in MetricStates /\ DispatcherShape' /\ made \in Generations
        <4>1. CASE metrics.current # 0
          BY <3>0, <3>1, <4>1 DEF ServiceInv, DispatcherShape, Generations
        <4>2. CASE metrics.current = 0
          <5>1. life.starts = 0 /\ metrics.last = 0
            BY <2>2, <3>0, <4>2 DEF ServiceInv, DispatcherShape
          <5>2. metrics' = Create
            BY <3>1, <4>2
          <5>3. metrics' \in MetricStates /\ metrics'.current = 1 /\ metrics'.last = 1 /\ ~metrics'.closed
            <6>1. metrics.last + 1 = 1 /\ 1 \in 0 .. MaxStarts
              BY <5>1, ServiceAssumption
            <6> QED
              BY <2>2, <3>0, <5>2, <6>1, CreateTyped
          <5> QED
            BY <3>1, <5>1, <5>3, ServiceAssumption DEF ServiceInv, DispatcherShape, Generations
        <4> QED
          BY <4>1, <4>2
      <3>3. Moves(p, "selected", made, attached)
        <4> DEFINE r == [payload[p] EXCEPT !.at = "selected", !.gen = made]
        <4>1. made \in 0 .. MaxStarts
          BY <3>2 DEF Generations
        <4> HIDE DEF made
        <4>2. r \in Transits /\ r.at = "selected" /\ r.gen = made /\ r.attached = attached
          BY <1>0, <4>1 DEF Transits, PayloadStates
        <4>3. payload' = [payload EXCEPT ![p] = r]
          BY <1>0, <1>1, <2>2 DEF Select, made, ServiceTyped
        <4> HIDE DEF r
        <4> QED
          BY <1>0, <4>2, <4>3, Moved
      <3>4. PermitsBecome(made, pool[made].permits)
        BY <1>0, <3>1, <3>2, PermitsSame
      <3>5. ~HeldBy(payload[p], made) /\ ~HeldBy(payload'[p], made)
        BY <3>1, <3>3 DEF HeldBy, Moves
      <3> HIDE DEF made, attached
      <3> QED
        BY <1>0, <3>1, <3>2, <3>3, <3>4, <3>5, PayloadStep DEF PayloadStates
    <2> QED
      BY <2>1, <2>2
  <1>a. ASSUME Acquire(p) \/ SubmitWrite(p) \/ Attach(p) \/ Write(p) \/ Written(p)
        PROVE  /\ UNCHANGED <<life, sup, backlog, told, metrics>> /\ g \in Generations
               /\ metrics' \in MetricStates /\ DispatcherShape' /\ payload[p].at # "new"
    <2>1. UNCHANGED <<life, sup, backlog, told, metrics>> /\ payload[p].at \notin {"new", "dropped"}
      BY <1>a DEF Acquire, SubmitWrite, Attach, Write, Written
    <2> QED
      BY <1>0, <2>1 DEF ServiceInv, ServiceTyped, DispatcherShape
  <1>2. CASE Acquire(p)
    <2>1. payload[p].at = "selected" /\ ~HeldBy(payload[p], g)
      BY <1>2 DEF Acquire, HeldBy
    <2>2. CASE pool[g].permits > 0
      <3>1. Moves(p, "acquired", g, attached)
        BY <1>0, <1>2, <2>2, MovedTo DEF Acquire, PayloadStates
      <3>2. pool[g].permits - 1 \in Nat
        BY <1>0, <1>a, <1>2, <2>2
      <3>3. PermitsBecome(g, pool[g].permits - 1)
        BY <1>0, <1>a, <1>2, <2>2, <3>2, PermitsChanged DEF Acquire
      <3>4. HeldBy(payload'[p], g)
        BY <3>1 DEF HeldBy, Moves
      <3> HIDE DEF g, attached
      <3> QED
        BY <1>0, <1>a, <1>2, <2>1, <3>1, <3>2, <3>3, <3>4, PayloadStep DEF g, PayloadStates
    <2>3. CASE ~(pool[g].permits > 0)
      <3>1. Moves(p, "dropped", g, attached)
        BY <1>0, <1>2, <2>3, MovedTo DEF Acquire, PayloadStates
      <3>2. PermitsBecome(g, pool[g].permits)
        BY <1>0, <1>a, <1>2, <2>3, PermitsSame DEF Acquire
      <3>3. ~HeldBy(payload'[p], g)
        BY <3>1 DEF HeldBy, Moves
      <3> HIDE DEF g, attached
      <3> QED
        BY <1>0, <1>a, <1>2, <2>1, <3>1, <3>2, <3>3, PayloadStep DEF g, PayloadStates
    <2> QED
      BY <2>2, <2>3
  <1>3. CASE SubmitWrite(p)
    <2>1. payload[p].at = "acquired" /\ HeldBy(payload[p], g)
      BY <1>3 DEF SubmitWrite, HeldBy
    <2>2. CASE pool[g].open
      <3>1. Moves(p, "pending", g, attached)
        BY <1>0, <1>3, <2>2, MovedTo DEF SubmitWrite, PayloadStates
      <3>2. PermitsBecome(g, pool[g].permits)
        BY <1>0, <1>a, <1>3, <2>2, PermitsSame DEF SubmitWrite
      <3>3. HeldBy(payload'[p], g)
        BY <3>1 DEF HeldBy, Moves
      <3> HIDE DEF g, attached
      <3> QED
        BY <1>0, <1>a, <1>3, <2>1, <2>2, <3>1, <3>2, <3>3, PayloadStep DEF g, PayloadStates
    <2>3. CASE ~pool[g].open
      <3>1. Moves(p, "dropped", g, attached)
        BY <1>0, <1>3, <2>3, MovedTo DEF SubmitWrite, PayloadStates
      <3>2. pool[g].permits + 1 \in Nat
        BY <1>0, <1>a, <1>3
      <3>3. PermitsBecome(g, pool[g].permits + 1)
        BY <1>0, <1>a, <1>3, <2>3, <3>2, PermitsChanged DEF SubmitWrite
      <3>4. ~HeldBy(payload'[p], g)
        BY <3>1 DEF HeldBy, Moves
      <3> HIDE DEF g, attached
      <3> QED
        BY <1>0, <1>a, <1>3, <2>1, <3>1, <3>2, <3>3, <3>4, PayloadStep DEF g, PayloadStates
    <2> QED
      BY <2>2, <2>3
  <1>4. CASE Attach(p)
    <2>0. /\ payload[p].at \in {"pending", "running", "done", "cancelled"} /\ ~attached
          /\ HeldBy(payload[p], g)
      BY <1>4 DEF Attach, HeldBy
    <2>1. Moves(p, payload[p].at, g, TRUE)
      <3> DEFINE r == [payload[p] EXCEPT !.attached = TRUE]
      <3>1. r \in Transits /\ r.at = payload[p].at /\ r.gen = g /\ r.attached = TRUE
        BY <1>0 DEF Transits
      <3>2. payload' = [payload EXCEPT ![p] = r]
        BY <1>4 DEF Attach
      <3> HIDE DEF r
      <3> QED
        BY <1>0, <3>1, <3>2, Moved
    <2>2. CASE payload[p].at \in {"done", "cancelled"}
      <3>1. pool[g].permits + 1 \in Nat
        BY <1>0, <1>a, <1>4
      <3>2. PermitsBecome(g, pool[g].permits + 1)
        BY <1>0, <1>a, <1>4, <2>2, <3>1, PermitsChanged DEF Attach
      <3>3. ~HeldBy(payload'[p], g)
        BY <2>1, <2>2 DEF HeldBy, Moves
      <3> HIDE DEF g, attached
      <3> QED
        BY <1>0, <1>a, <1>4, <2>0, <2>1, <2>2, <3>1, <3>2, <3>3, PayloadStep DEF g, PayloadStates
    <2>3. CASE payload[p].at \in {"pending", "running"}
      <3>1. PermitsBecome(g, pool[g].permits)
        BY <1>0, <1>a, <1>4, <2>3, PermitsSame DEF Attach
      <3>2. HeldBy(payload'[p], g)
        BY <2>1, <2>3 DEF HeldBy, Moves
      <3>3. payload[p].at = "pending" => pool[g].open
        BY DEF ServiceInv, PendingOpen
      <3> HIDE DEF g, attached
      <3> QED
        BY <1>0, <1>a, <1>4, <2>0, <2>1, <2>3, <3>1, <3>2, <3>3, PayloadStep DEF g, PayloadStates
    <2> QED
      BY <2>0, <2>2, <2>3
  <1>5. CASE Write(p)
    <2>1. Moves(p, "running", g, attached) /\ payload[p].at = "pending"
      BY <1>0, <1>5, MovedTo DEF Write, PayloadStates
    <2>2. PermitsBecome(g, pool[g].permits)
      BY <1>0, <1>a, <1>5, PermitsSame DEF Write
    <2>3. HeldBy(payload[p], g) /\ HeldBy(payload'[p], g)
      BY <2>1 DEF HeldBy, Moves
    <2> HIDE DEF g, attached
    <2> QED
      BY <1>0, <1>a, <1>5, <2>1, <2>2, <2>3, PayloadStep DEF g, PayloadStates
  <1>6. CASE Written(p)
    <2>1. Moves(p, "done", g, attached) /\ payload[p].at = "running"
      BY <1>0, <1>6, MovedTo DEF Written, PayloadStates
    <2>2. HeldBy(payload[p], g) /\ (HeldBy(payload'[p], g) <=> ~attached)
      BY <2>1 DEF HeldBy, Moves
    <2>3. CASE attached
      <3>1. pool[g].permits + 1 \in Nat
        BY <1>0, <1>a, <1>6
      <3>2. PermitsBecome(g, pool[g].permits + 1)
        BY <1>0, <1>a, <1>6, <2>3, <3>1, PermitsChanged DEF Written
      <3> HIDE DEF g, attached
      <3> QED
        BY <1>0, <1>a, <1>6, <2>1, <2>2, <2>3, <3>1, <3>2, PayloadStep DEF g, PayloadStates
    <2>4. CASE ~attached
      <3>1. PermitsBecome(g, pool[g].permits)
        BY <1>0, <1>a, <1>6, <2>4, PermitsSame DEF Written
      <3> HIDE DEF g, attached
      <3> QED
        BY <1>0, <1>a, <1>6, <2>1, <2>2, <2>4, <3>1, PayloadStep DEF g, PayloadStates
    <2> QED
      BY <2>3, <2>4
  <1> QED
    BY <1>1, <1>2, <1>3, <1>4, <1>5, <1>6

\* Steps of the lifespan, the supervisor and its thread: the measurements stay.
LEMMA SupervisorStep ==
  ASSUME ServiceInv, life' \in LifeStates, sup' \in SupStates, backlog' \in BOOLEAN, told' \in BOOLEAN,
         UNCHANGED <<metrics, pool, payload>>, SupShape', ToldShape', DispatcherShape', NothingWrittenAfter'
  PROVE  ServiceInv'
  <1>1. ServiceTyped' /\ PayloadShape' /\ PendingOpen'
    BY DEF ServiceInv, ServiceTyped, PayloadShape, PendingOpen
  <1>2. PermitsExact'
    BY DEF ServiceInv, PermitsExact, Holding
  <1> QED
    BY <1>1, <1>2 DEF ServiceInv

LEMMA LifeSteps ==
  ASSUME ServiceInv, StartSupervisor \/ Serve \/ RequestStop \/ Grace \/ Join PROVE ServiceInv'
  <1>0. life \in LifeStates /\ sup \in SupStates /\ SupShape /\ ToldShape /\ DispatcherShape
        /\ NothingWrittenAfter /\ UNCHANGED <<backlog, told, metrics, pool, payload>>
        /\ backlog \in BOOLEAN /\ told \in BOOLEAN
    BY DEF ServiceInv, ServiceTyped, StartSupervisor, Serve, RequestStop, Grace, Join
  <1>1. life' \in LifeStates /\ life'.starts = life.starts
        /\ (life'.at \in {"dispatching", "supervised", "up"} => life.at \in {"dispatching", "supervised"})
    BY <1>0 DEF LifeStates, Lives, StartSupervisor, Serve, RequestStop, Grace, Join
  <1>2. DispatcherShape'
    BY <1>0, <1>1 DEF DispatcherShape
  <1>3. NothingWrittenAfter'
    <2>1. CASE RequestStop
      BY <1>0, <2>1 DEF RequestStop, NothingWrittenAfter, Writing
    <2>2. CASE Grace \/ Join
      BY <1>0, <2>2 DEF Grace, Join, NothingWrittenAfter, Writing
    <2>3. CASE StartSupervisor \/ Serve
      <3>1. life'.at \in {"supervised", "up"}
        BY <1>0, <2>3 DEF StartSupervisor, Serve, LifeStates
      <3> QED
        BY <3>1 DEF NothingWrittenAfter
    <2> QED
      BY <2>1, <2>2, <2>3
  <1>4. CASE StartSupervisor
    <2>1. /\ sup' \in SupStates /\ sup'.task = "loop" /\ sup'.thread = "idle" /\ sup'.conn = "open"
          /\ life'.at = "supervised"
      BY <1>0, <1>4 DEF StartSupervisor, SupStates, LifeStates
    <2>2. SupShape' /\ ToldShape'
      BY <2>1 DEF SupShape, ToldShape, ConnectionOutlivesCycle
    <2> QED
      BY <1>0, <1>1, <1>2, <1>3, <2>1, <2>2, SupervisorStep
  <1>5. CASE Serve
    <2>1. life.at = "supervised" /\ life'.at = "up" /\ UNCHANGED sup
      BY <1>0, <1>5 DEF Serve, LifeStates
    <2>2. SupShape' /\ ToldShape'
      BY <1>0, <2>1 DEF SupShape, ToldShape, ConnectionOutlivesCycle
    <2> QED
      BY <1>0, <1>1, <1>2, <1>3, <2>1, <2>2, SupervisorStep
  <1>6. CASE RequestStop
    <2>1. /\ life'.at = "grace" /\ sup' \in SupStates /\ sup'.wake
          /\ sup'.task = sup.task /\ sup'.thread = sup.thread /\ sup'.conn = sup.conn
      BY <1>0, <1>6 DEF RequestStop, SupStates, LifeStates
    <2>2. SupShape' /\ ToldShape'
      BY <1>0, <2>1 DEF SupShape, ToldShape, ConnectionOutlivesCycle
    <2> QED
      BY <1>0, <1>1, <1>2, <1>3, <2>1, <2>2, SupervisorStep
  <1>7. CASE Grace
    <2>1. /\ life'.at = "joining" /\ sup' \in SupStates /\ sup'.task = "none"
          /\ sup'.thread = sup.thread /\ sup'.conn = sup.conn
      BY <1>0, <1>7 DEF Grace, SupStates, LifeStates
    <2>2. SupShape' /\ ToldShape'
      BY <1>0, <2>1 DEF SupShape, ToldShape, ConnectionOutlivesCycle
    <2> QED
      BY <1>0, <1>1, <1>2, <1>3, <2>1, <2>2, SupervisorStep
  <1>8. CASE Join
    <2>1. /\ life.at = "joining" /\ life'.at = "down" /\ sup' \in SupStates /\ sup'.task = sup.task
          /\ sup'.thread = "idle"
      BY <1>0, <1>8 DEF Join, SupStates, LifeStates
    <2>2. SupShape' /\ ToldShape'
      BY <1>0, <2>1 DEF SupShape, ToldShape, ConnectionOutlivesCycle
    <2> QED
      BY <1>0, <1>1, <1>2, <1>3, <2>1, <2>2, SupervisorStep
  <1> QED
    BY <1>4, <1>5, <1>6, <1>7, <1>8

LEMMA LoopSteps ==
  ASSUME ServiceInv, RunLoop \/ TakeWork \/ EndWork \/ Resume \/ WakeUp \/ Listen \/ MarkWork
  PROVE  ServiceInv'
  <1>0. life \in LifeStates /\ sup \in SupStates /\ SupShape /\ ToldShape
        /\ UNCHANGED <<life, metrics, pool, payload>> /\ backlog \in BOOLEAN /\ told \in BOOLEAN
    BY DEF ServiceInv, ServiceTyped, RunLoop, TakeWork, EndWork, Resume, WakeUp, Listen, MarkWork
  <1>1. DispatcherShape' /\ NothingWrittenAfter'
    BY <1>0 DEF ServiceInv, DispatcherShape, NothingWrittenAfter, Writing
  <1>2. backlog' \in BOOLEAN /\ told' \in BOOLEAN
    BY <1>0 DEF RunLoop, TakeWork, EndWork, Resume, WakeUp, Listen, MarkWork, SupStates
  <1>3. CASE RunLoop
    <2>1. /\ sup.task = "loop" /\ sup' \in SupStates /\ sup'.conn = sup.conn /\ UNCHANGED told
          /\ \/ sup'.task = "cycle" /\ sup'.thread = "running"
             \/ sup'.task = "none" /\ sup'.thread = sup.thread
      BY <1>0, <1>3 DEF RunLoop, SupStates
    <2>2. SupShape' /\ ToldShape'
      BY <1>0, <2>1 DEF SupShape, ToldShape, ConnectionOutlivesCycle
    <2> QED
      BY <1>0, <1>1, <1>2, <2>1, <2>2, SupervisorStep
  <1>4. CASE TakeWork
    <2>1. /\ sup.thread = "running" /\ sup' \in SupStates /\ sup'.thread = "took" /\ told' = FALSE
          /\ sup'.task = sup.task /\ sup'.conn = sup.conn
      BY <1>0, <1>4 DEF TakeWork, SupStates
    <2>2. SupShape' /\ ToldShape'
      BY <1>0, <2>1 DEF SupShape, ToldShape, ConnectionOutlivesCycle
    <2> QED
      BY <1>0, <1>1, <1>2, <2>1, <2>2, SupervisorStep
  <1>5. CASE EndWork
    <2>1. /\ sup.thread \in {"running", "took"} /\ sup' \in SupStates /\ sup'.thread = "ended"
          /\ (told' => told /\ sup.thread = "took")
          /\ sup'.task = sup.task /\ sup'.conn = sup.conn /\ sup'.wake = sup.wake
      BY <1>0, <1>5 DEF EndWork, SupStates
    <2>2. SupShape' /\ ToldShape'
      BY <1>0, <2>1 DEF SupShape, ToldShape, ConnectionOutlivesCycle
    <2> QED
      BY <1>0, <1>1, <1>2, <2>1, <2>2, SupervisorStep
  <1>6. CASE Resume \/ WakeUp
    <2>1. /\ sup' \in SupStates /\ sup'.thread \in {"idle", sup.thread} /\ UNCHANGED told
          /\ sup'.conn = sup.conn /\ sup'.wake = sup.wake
          /\ \/ sup.task = "cycle" /\ sup.thread = "ended" /\ sup'.task = "waiting" /\ sup'.thread = "idle"
             \/ sup.task = "waiting" /\ sup'.task = "loop"
      BY <1>0, <1>6 DEF Resume, WakeUp, SupStates
    <2>2. SupShape' /\ ToldShape'
      BY <1>0, <2>1 DEF SupShape, ToldShape, ConnectionOutlivesCycle
    <2> QED
      BY <1>0, <1>1, <1>2, <2>1, <2>2, SupervisorStep
  <1>7. CASE Listen \/ MarkWork
    <2>1. /\ sup' \in SupStates /\ sup'.thread = sup.thread /\ sup'.task = sup.task
          /\ sup'.conn = sup.conn /\ (sup.wake => sup'.wake) /\ (told' => told \/ sup'.wake)
      <3>1. CASE Listen
        BY <1>0, <3>1 DEF Listen, SupStates
      <3>2. CASE MarkWork /\ sup.listening
        <4>1. sup' = [sup EXCEPT !.wake = TRUE]
          BY <3>2 DEF MarkWork
        <4> QED
          BY <1>0, <4>1 DEF SupStates
      <3>3. CASE MarkWork /\ ~sup.listening
        BY <1>0, <3>3 DEF MarkWork, SupStates
      <3> QED
        BY <1>7, <3>1, <3>2, <3>3
    <2>2. SupShape' /\ ToldShape'
      BY <1>0, <2>1 DEF SupShape, ToldShape, ConnectionOutlivesCycle
    <2> QED
      BY <1>0, <1>1, <1>2, <2>1, <2>2, SupervisorStep
  <1> QED
    BY <1>3, <1>4, <1>5, <1>6, <1>7

LEMMA StartStep == ASSUME ServiceInv, StartDispatcher PROVE ServiceInv'
  <1>0. /\ life \in LifeStates /\ metrics \in MetricStates /\ life.starts \in Nat
        /\ metrics.last \in Nat /\ metrics.current \in 0 .. MaxStarts
        /\ life.at = "down" /\ life.starts < MaxStarts /\ DispatcherShape /\ SupShape /\ ToldShape
        /\ UNCHANGED <<sup, backlog, told, pool, payload>>
    BY DEF ServiceInv, ServiceTyped, LifeStates, MetricStates, StartDispatcher
  <1>1. life' \in LifeStates /\ life'.at = "dispatching" /\ life'.starts = life.starts + 1
    BY <1>0, ServiceAssumption DEF StartDispatcher, LifeStates, Lives
  <1>2. /\ metrics' \in MetricStates /\ ~metrics'.closed
        /\ IF metrics.current = 0
           THEN metrics'.current = metrics.last + 1 /\ metrics'.last = metrics.last + 1
           ELSE metrics'.current = metrics.current /\ metrics'.last = metrics.last
    <2>1. CASE metrics.current = 0
      <3> DEFINE c == Create
      <3>1. metrics.last + 1 \in 0 .. MaxStarts
        BY <1>0, <2>1, ServiceAssumption DEF DispatcherShape
      <3>2. c \in MetricStates /\ c.current = metrics.last + 1 /\ c.last = metrics.last + 1
        BY <1>0, <3>1, CreateTyped
      <3>3. metrics' = [c EXCEPT !.closed = FALSE]
        BY <2>1 DEF StartDispatcher
      <3> HIDE DEF c
      <3> QED
        BY <2>1, <3>2, <3>3 DEF MetricStates
    <2>2. CASE metrics.current # 0
      <3>1. metrics' = [metrics EXCEPT !.closed = FALSE]
        BY <2>2 DEF StartDispatcher
      <3> QED
        BY <1>0, <2>2, <3>1 DEF MetricStates
    <2> QED
      BY <2>1, <2>2
  <1>3. DispatcherShape'
    BY <1>0, <1>1, <1>2 DEF DispatcherShape
  <1>4. SupShape' /\ ToldShape'
    BY <1>0, <1>1 DEF SupShape, ToldShape, ConnectionOutlivesCycle
  <1>5. ServiceTyped' /\ PayloadShape' /\ PendingOpen'
    BY <1>0, <1>1, <1>2 DEF ServiceInv, ServiceTyped, PayloadShape, PendingOpen
  <1>6. PermitsExact' /\ NothingWrittenAfter'
    BY <1>0, <1>1 DEF ServiceInv, PermitsExact, Holding, NothingWrittenAfter
  <1> QED
    BY <1>3, <1>4, <1>5, <1>6 DEF ServiceInv

\* What the shutdown cancels gives its permit back if its callback is attached.
LEMMA BeginShutdownStep == ASSUME ServiceInv, BeginShutdown PROVE ServiceInv'
  <1> DEFINE g == metrics.current
             c == Cancelled(g)
             back == {p \in c : payload[p].attached}
  <1>0. /\ ServiceTyped /\ life \in LifeStates /\ metrics \in MetricStates
        /\ life.at \in {"dispatching", "supervised", "up"} /\ life.starts \in Nat
        /\ DispatcherShape /\ SupShape /\ ToldShape /\ UNCHANGED <<sup, backlog, told>>
        /\ life' = [life EXCEPT !.at = "draining"]
        /\ metrics' = [metrics EXCEPT !.current = 0, !.closed = TRUE]
        /\ pool' = [pool EXCEPT ![g].open = FALSE, ![g].permits = @ + Cardinality(back)]
        /\ payload' = [p \in Payloads |-> IF p \in c THEN [payload[p] EXCEPT !.at = "cancelled"] ELSE payload[p]]
    BY DEF ServiceInv, ServiceTyped, BeginShutdown, LifeStates
  <1>1. life' \in LifeStates /\ life'.at = "draining" /\ life'.starts = life.starts
    BY <1>0 DEF LifeStates, Lives
  <1>2. metrics' \in MetricStates /\ metrics'.current = 0 /\ metrics'.closed /\ metrics'.last = metrics.last
    <2>1. metrics' = [metrics EXCEPT !.current = 0, !.closed = TRUE] /\ 0 \in 0 .. MaxStarts
      BY <1>0, ServiceAssumption
    <2>2. metrics'.current = 0 /\ metrics'.closed = TRUE /\ metrics'.last = metrics.last
      BY <1>0, <2>1 DEF MetricStates
    <2> QED
      BY <1>0, <2>1, <2>2 DEF MetricStates
  <1>3. g \in Generations
    BY <1>0 DEF DispatcherShape, MetricStates, Generations
  <1>4. DispatcherShape'
    BY <1>0, <1>1, <1>2 DEF DispatcherShape, MetricStates
  <1>5. SupShape' /\ ToldShape'
    BY <1>0, <1>1 DEF SupShape, ToldShape, ConnectionOutlivesCycle
  <1>6. c \subseteq Payloads /\ \A p \in c : payload[p].at = "pending" /\ payload[p].gen = g
    BY DEF Cancelled
  <1>7. /\ payload' \in [Payloads -> Transits]
        /\ \A p \in c : /\ payload'[p].at = "cancelled" /\ payload'[p].gen = g
                        /\ payload'[p].attached = payload[p].attached
        /\ \A p \in Payloads \ c : payload'[p] = payload[p]
    <2>1. \A p \in c : LET r == [payload[p] EXCEPT !.at = "cancelled"]
                       IN  /\ r \in Transits /\ r.at = "cancelled" /\ r.gen = g
                           /\ r.attached = payload[p].attached
      BY <1>0, <1>6 DEF ServiceTyped, Transits, PayloadStates
    <2> HIDE DEF c, g
    <2> QED
      BY <1>0, <1>6, <2>1 DEF ServiceTyped
  <1>8. back \subseteq Payloads /\ Cardinality(back) \in Nat
    <2>1. back \in SUBSET Payloads
      BY <1>6
    <2> QED
      BY <2>1, ServiceAssumption, FS_Subset, FS_CardinalityType
  <1>9. /\ pool' \in [Generations -> PoolStates] /\ pool'[g].open = FALSE
        /\ pool'[g].permits = pool[g].permits + Cardinality(back)
        /\ \A h \in Generations \ {g} : pool'[h] = pool[h]
    <2> DEFINE n == pool[g].permits + Cardinality(back)
               r == [pool[g] EXCEPT !.open = FALSE, !.permits = n]
    <2> HIDE DEF back
    <2>1. pool[g] \in PoolStates /\ pool[g].permits \in Nat
      BY <1>0, <1>3 DEF ServiceTyped, PoolStates
    <2>a. n \in Nat
      BY <1>8, <2>1
    <2>3. pool' = [pool EXCEPT ![g] = r]
      BY <1>0, <1>3 DEF ServiceTyped
    <2> HIDE DEF n
    <2>2. r \in PoolStates /\ r.open = FALSE /\ r.permits = n
      BY <2>a, <2>1 DEF PoolStates
    <2> HIDE DEF r, g
    <2> QED
      BY <1>0, <1>3, <2>2, <2>3 DEF ServiceTyped, n
  <1> HIDE DEF g, c
  <1>10. ServiceTyped' /\ PayloadShape'
    BY <1>0, <1>1, <1>2, <1>3, <1>7, <1>9 DEF ServiceInv, ServiceTyped, PayloadShape
  <1>11. PendingOpen'
    <2> SUFFICES ASSUME NEW p \in Payloads, payload'[p].at = "pending"
                 PROVE  pool'[payload'[p].gen].open
      BY DEF PendingOpen
    <2>1. p \notin c /\ payload'[p] = payload[p]
      BY <1>7
    <2>2. payload[p].gen # g
      BY <2>1 DEF c, Cancelled
    <2>3. payload[p].gen \in Generations /\ pool[payload[p].gen].open
      BY <2>1 DEF ServiceInv, PayloadShape, PendingOpen
    <2> QED
      BY <1>9, <2>1, <2>2, <2>3
  <1>12. PermitsExact'
    <2> SUFFICES ASSUME NEW h \in Generations
                 PROVE  pool'[h].permits + Cardinality(Holding(h)') = MaxInFlight
      BY DEF PermitsExact
    <2>1. pool[h].permits + Cardinality(Holding(h)) = MaxInFlight /\ pool[h].permits \in Nat
          /\ Cardinality(Holding(h)) \in Nat /\ IsFiniteSet(Holding(h))
      BY HoldingFinite DEF ServiceInv, ServiceTyped, PermitsExact, PoolStates
    <2>2. CASE h = g
      <3>1. Holding(h)' = Holding(h) \ back /\ back \subseteq Holding(h)
        <4>1. \A p \in c : HeldBy(payload[p], h) /\ (HeldBy(payload'[p], h) <=> ~payload[p].attached)
          BY <1>6, <1>7, <2>2 DEF HeldBy
        <4>2. \A p \in Payloads \ c : HeldBy(payload'[p], h) <=> HeldBy(payload[p], h)
          BY <1>7
        <4>3. \A p \in Payloads : HeldBy(payload'[p], h) <=> HeldBy(payload[p], h) /\ p \notin back
          BY <1>6, <4>1, <4>2
        <4>4. back \subseteq Payloads /\ \A p \in back : HeldBy(payload[p], h)
          BY <1>6, <4>1
        <4> HIDE DEF back
        <4> QED
          BY <4>3, <4>4, HoldingHeld, HoldingHeldNext
      <3>3. Cardinality(Holding(h)') = Cardinality(Holding(h)) - Cardinality(back)
        <4>1. Holding(h) \cap back = back
          BY <3>1
        <4> HIDE DEF back
        <4> QED
          BY <2>1, <3>1, <4>1, FS_Difference
      <3>4. pool'[h].permits = pool[h].permits + Cardinality(back)
        BY <1>9, <2>2
      <3> HIDE DEF back
      <3> QED
        BY <1>8, <2>1, <3>3, <3>4, ServiceAssumption
    <2>3. CASE h # g
      <3>1. \A p \in Payloads : HeldBy(payload'[p], h) <=> HeldBy(payload[p], h)
        BY <1>6, <1>7, <2>3 DEF HeldBy
      <3>2. Holding(h)' = Holding(h)
        BY <3>1, HoldingHeld, HoldingHeldNext
      <3> QED
        BY <1>9, <2>1, <2>3, <3>2
    <2> QED
      BY <2>2, <2>3
  <1>13. NothingWrittenAfter'
    BY <1>1 DEF NothingWrittenAfter
  <1> QED
    BY <1>4, <1>5, <1>10, <1>11, <1>12, <1>13 DEF ServiceInv
-----------------------------------------------------------------------------
LEMMA ServiceInitial == ServiceInit => ServiceInv
  <1> SUFFICES ASSUME ServiceInit PROVE ServiceInv
    OBVIOUS
  <1>1. life \in LifeStates /\ life.at = "down" /\ life.starts = 0
    BY ServiceAssumption DEF ServiceInit, LifeStates, Lives
  <1>2. sup \in SupStates /\ sup.task = "none" /\ sup.thread = "idle"
    BY DEF ServiceInit, SupStates
  <1>3. metrics \in MetricStates /\ metrics.current = 0 /\ metrics.last = 0 /\ ~metrics.closed
    BY ServiceAssumption DEF ServiceInit, MetricStates
  <1>4. pool \in [Generations -> PoolStates]
        /\ \A g \in Generations : pool[g].permits = MaxInFlight /\ pool[g].open
    BY ServiceAssumption DEF ServiceInit, PoolStates
  <1>5. payload \in [Payloads -> Transits] /\ \A p \in Payloads : payload[p].at = "new"
    BY ServiceAssumption DEF ServiceInit, Transits, PayloadStates
  <1>6. ServiceTyped
    BY <1>1, <1>2, <1>3, <1>4, <1>5 DEF ServiceInit, ServiceTyped
  <1>7. SupShape /\ ToldShape /\ DispatcherShape
    BY <1>1, <1>2, <1>3 DEF SupShape, ToldShape, ConnectionOutlivesCycle, DispatcherShape
  <1>8. PayloadShape /\ PendingOpen /\ NothingWrittenAfter
    BY <1>4, <1>5 DEF PayloadShape, PendingOpen, NothingWrittenAfter
  <1>9. PermitsExact
    <2>1. \A g : Holding(g) = {}
      BY <1>5 DEF Holding
    <2> QED
      BY <1>4, <2>1, FS_EmptySet, ServiceAssumption DEF PermitsExact
  <1> QED
    BY <1>6, <1>7, <1>8, <1>9 DEF ServiceInv

LEMMA ServiceStep == ServiceInv /\ [ServiceNext]_serviceVars => ServiceInv'
  <1> SUFFICES ASSUME ServiceInv, [ServiceNext]_serviceVars PROVE ServiceInv'
    OBVIOUS
  <1>1. CASE UNCHANGED serviceVars
    BY <1>1 DEF serviceVars, ServiceInv, ServiceTyped, SupShape, ToldShape, DispatcherShape,
                PayloadShape, PendingOpen, PermitsExact, Holding, NothingWrittenAfter, Writing,
                ConnectionOutlivesCycle
  <1> QED
    BY <1>1, MetricSteps, LifeSteps, LoopSteps, StartStep, BeginShutdownStep DEF ServiceNext

LEMMA InvTyped == ServiceInv => ServiceTypeOK
  <1> SUFFICES ASSUME ServiceInv PROVE ServiceTypeOK
    OBVIOUS
  <1>1. \A g \in Generations : pool[g] \in PoolStates /\ pool[g].permits \in 0 .. MaxInFlight
    BY HoldingFinite, ServiceAssumption DEF ServiceInv, ServiceTyped, PermitsExact, PoolStates
  <1>2. pool \in [Generations -> [permits : 0 .. MaxInFlight, open : BOOLEAN]]
    BY <1>1 DEF ServiceInv, ServiceTyped, PoolStates
  <1> QED
    BY <1>2 DEF ServiceInv, ServiceTyped, ServiceTypeOK, LifeStates, SupStates, MetricStates, Transits
-----------------------------------------------------------------------------
\* Every reachable state is well formed: permits never exceed their number or go below none.
THEOREM ServiceTypeCorrect == ServiceSpec => []ServiceTypeOK
  BY InvTyped, ServiceInitial, ServiceStep, PTL DEF ServiceSpec

\* No shutdown closes the connection under a cycle, loses a permit or leaves a writer behind.
THEOREM StopsClean == ServiceSpec => []ShutdownClean
  <1>1. ServiceInv => ShutdownClean
    BY DEF ServiceInv, SupShape, ShutdownClean
  <1> QED
    BY <1>1, ServiceInitial, ServiceStep, PTL DEF ServiceSpec

\* The loop never sleeps on a notification that came after the work was taken.
THEOREM NeverSleepsOnWork == ServiceSpec => []NoLostWakeUp
  <1>1. ServiceInv => NoLostWakeUp
    BY DEF ServiceInv, SupShape, ToldShape, NoLostWakeUp
  <1> QED
    BY <1>1, ServiceInitial, ServiceStep, PTL DEF ServiceSpec
===============================================================================
