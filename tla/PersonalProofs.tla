---------------------------- MODULE PersonalProofs ----------------------------
(* What is kept for one person: PreferenceSynthesis and UserSkill, for any   *)
(* workers, assets, contexts, owners, skills and bounds.                     *)
EXTENDS PreferenceSynthesis, UserSkill, FiniteSetTheorems, WellFoundedInduction, TLAPS

(* PreferenceSynthesis: no change of the facts up to the newest trigger is   *)
(* forgotten, and no synthesis overwrites a later one.                       *)

PartialPatterns == UNION {[S -> SUBSET Editions] : S \in SUBSET AllScopes}
Leased   == [stage : {"synthesize"}, revision : Nat, cancelled : BOOLEAN]
Reading  == [stage : {"read"}, revision : Nat, cancelled : BOOLEAN, scopes : SUBSET AllScopes,
             writes : PartialPatterns, seen : Nat]
Through  == [stage : {"check", "mark"}, revision : Nat]
Settling == [stage : {"settle"}, done : BOOLEAN]
Jobs     == {Idle} \cup Leased \cup Reading \cup Through \cup Settling
Rows == [status : {"absent", "ready", "processing", "succeeded"}, owner : Workers \cup {NoWorker},
         revision : Nat]

\* A copy is bound to a context as one of its drafts, not before it has a target.
Placed(p) == p[1] \in Copies => p[2] \in Drafts

FactsTyped ==
  /\ edition \in [Assets -> Nat] /\ round \in [Assets -> Nat] /\ visibility \in [Assets -> Visibilities]
  /\ granted \subseteq Assets
  /\ poor \subseteq Editions /\ qualified \subseteq Editions /\ unclassified \subseteq Editions
  /\ \A a \in Copies : edition[a] \in Drafts \cup {0}
  /\ \A p \in qualified \cup unclassified : Placed(p)
  /\ changes \in 0 .. MaxChanges /\ changes \in Nat /\ silent \in BOOLEAN /\ requested \in Nat

RestTyped ==
  /\ completed \in Nat /\ completed <= requested /\ row.revision <= requested
  /\ row \in Rows /\ (row.status = "processing" <=> row.owner # NoWorker)
  /\ lock \in Workers \cup {NoWorker} /\ job \in [Workers -> Jobs]
  /\ pattern \in [AllScopes -> SUBSET Editions] /\ fed \subseteq Assets
  /\ basis \in Nat /\ basis <= changes /\ faults \in Nat /\ faults \in 0 .. MaxFaults

Typed == FactsTyped /\ RestTyped

\* The advisory lock is held while a synthesis reads, and its patterns are no older than
\* the ones committed.
LockHeld == \A w \in Workers : job[w].stage = "read" <=> lock = w
SeenRecent ==
  \A w \in Workers : job[w].stage = "read" => basis <= job[w].seen /\ job[w].seen <= changes

\* A worker that may still settle the row as done has completed what is requested.
DoneCompleted ==
  \A w \in Workers : job[w].stage = "settle" /\ Owned(w) /\ job[w].done => completed = requested

\* The newest request has been synthesised: it is completed, or about to be.
Current(w) == job[w].revision = requested
Recorded ==
  completed = requested \/ \E w \in Workers : job[w].stage \in {"check", "mark"} /\ Current(w)

\* Once it has been and nothing changed silently, the patterns are right, and so is what anybody
\* is about to write over them; a synthesis of the newest request leaves out no context.
PatternsRight ==
  Recorded /\ ~ silent => \A s \in Contexts : pattern[s] = Supported(s)
WritesRight ==
  \A w \in Workers : job[w].stage = "read" /\ ~ silent /\ (Recorded \/ Current(w)) =>
    \A s \in DOMAIN job[w].writes : job[w].writes[s] = Supported(s)
ReadsAll ==
  \A w \in Workers : job[w].stage = "read" /\ ~ silent /\ Current(w) =>
    Contexts \subseteq job[w].scopes \cup DOMAIN job[w].writes
\* Nobody works for a revision that was never requested.
Requested ==
  \A w \in Workers : job[w].stage \in {"synthesize", "read", "check", "mark"} =>
    job[w].revision <= requested

PreferenceInv ==
  /\ Typed /\ LockHeld /\ SeenRecent /\ DoneCompleted /\ Requested /\ OutstandingQueued
  /\ PatternsRight /\ WritesRight /\ ReadsAll
-----------------------------------------------------------------------------
\* What a stage says of a job.
LEMMA JobTyped ==
  ASSUME NEW j \in Jobs
  PROVE  /\ j.stage \in {"idle", "synthesize", "read", "check", "mark", "settle"}
         /\ j.stage = "idle" <=> j = Idle
         /\ j.stage = "synthesize" => j \in Leased
         /\ j.stage = "read" => j \in Reading
         /\ j.stage \in {"check", "mark"} => j \in Through
         /\ j.stage = "settle" => j \in Settling
  BY DEF Jobs, Idle, Leased, Reading, Through, Settling

MovesTo(w, r) ==
  /\ job' \in [Workers -> Jobs] /\ job'[w] = r /\ \A v \in Workers \ {w} : job'[v] = job[v]

LEMMA Moves ==
  ASSUME Typed, NEW w \in Workers, NEW r \in Jobs, job' = [job EXCEPT ![w] = r]
  PROVE  MovesTo(w, r)
  BY DEF Typed, RestTyped, MovesTo

LEMMA SupportedEditions ==
  ASSUME FactsTyped, NEW s
  PROVE  Supported(s) \in SUBSET Editions
  <1>1. \A a \in Targets : Now(a) \in Editions
    BY DEF Targets, Now, Editions, FactsTyped
  <1> QED
    BY <1>1 DEF Supported, Evidence

LEMMA ContextScopes == FactsTyped => Contexts \subseteq AllScopes /\ Global \in Contexts
  <1> SUFFICES ASSUME FactsTyped, NEW a \in Targets PROVE Place(Now(a)) \in AllScopes
    BY DEF Contexts, AllScopes
  <1>1. Now(a) \in qualified /\ Now(a)[1] = a /\ Placed(Now(a)) /\ Now(a) \in Assets \X Nat
    BY DEF Targets, Now, FactsTyped, Editions
  <1>2. CASE a \in Copies
    <2>1. Now(a) \in Copies \X Drafts
      BY <1>1, <1>2 DEF Placed, Now
    <2> QED
      BY <1>1, <1>2, <2>1, PreferenceConstants DEF Place, AllScopes
  <1>3. CASE a \notin Copies
    BY <1>1, <1>3 DEF Place, AllScopes
  <1> QED
    BY <1>2, <1>3

\* What a step leaves alone that changes none of the facts.
FactsStay ==
  /\ FactsTyped' /\ Contexts' = Contexts /\ \A s : Supported(s)' = Supported(s)
  /\ silent' = silent /\ requested' = requested /\ changes' = changes

LEMMA FactsKept == ASSUME FactsTyped, UNCHANGED facts PROVE FactsStay
  <1>1. UNCHANGED <<edition, round, visibility, granted, poor, qualified, unclassified,
                    requested, changes, silent>>
    BY DEF facts, inputs
  <1>2. FactsTyped'
    BY <1>1 DEF FactsTyped
  <1>3. Targets' = Targets /\ \A a : Now(a)' = Now(a)
    BY <1>1 DEF Targets, Readable, Now
  <1>4. Contexts' = Contexts
    BY <1>3 DEF Contexts
  <1>5. \A s : Evidence(s)' = Evidence(s)
    BY <1>1, <1>3 DEF Evidence
  <1>6. \A s : Supported(s)' = Supported(s)
    BY <1>5 DEF Supported
  <1> QED
    BY <1>1, <1>2, <1>4, <1>6 DEF FactsStay

\* Patterns written over patterns.
LEMMA OverTyped ==
  ASSUME NEW f \in [AllScopes -> SUBSET Editions], NEW g \in PartialPatterns
  PROVE  /\ Over(f, g) \in [AllScopes -> SUBSET Editions] /\ DOMAIN g \subseteq AllScopes
         /\ \A s \in AllScopes : Over(f, g)[s] = IF s \in DOMAIN g THEN g[s] ELSE f[s]
  BY DEF Over, PartialPatterns

LEMMA OneMore ==
  ASSUME NEW f \in PartialPatterns, NEW s \in AllScopes, NEW A \in SUBSET Editions
  PROVE  /\ Over(f, Only(s, A)) \in PartialPatterns
         /\ DOMAIN Over(f, Only(s, A)) = DOMAIN f \cup {s}
         /\ Over(f, Only(s, A))[s] = A
         /\ \A t \in DOMAIN f \ {s} : Over(f, Only(s, A))[t] = f[t]
  <1> DEFINE h == Over(f, Only(s, A))
  <1>1. PICK S \in SUBSET AllScopes : f \in [S -> SUBSET Editions]
    BY DEF PartialPatterns
  <1>2. h = [t \in S \cup {s} |-> IF t \in {s} THEN A ELSE f[t]]
    BY <1>1 DEF Over, Only
  <1>3. h \in [S \cup {s} -> SUBSET Editions]
    BY <1>1, <1>2
  <1>4. h \in PartialPatterns
    BY <1>1, <1>3 DEF PartialPatterns
  <1> QED
    BY <1>1, <1>2, <1>4

LEMMA NothingTyped == NothingRead \in PartialPatterns /\ DOMAIN NothingRead = {}
  <1>1. NothingRead \in [{} -> SUBSET Editions]
    BY DEF NothingRead
  <1> QED
    BY <1>1 DEF PartialPatterns, NothingRead
-----------------------------------------------------------------------------
LEMMA PreferenceInitial == Init => PreferenceInv
  <1> SUFFICES ASSUME Init PROVE PreferenceInv
    OBVIOUS
  <1>1. /\ requested = 0 /\ completed = 0 /\ changes = 0 /\ basis = 0 /\ faults = 0
        /\ qualified = {} /\ poor = {} /\ lock = NoWorker /\ fed = {} /\ silent = FALSE
        /\ pattern = [s \in AllScopes |-> {}]
        /\ \A w \in Workers : job[w] = Idle /\ job[w].stage = "idle"
        /\ job \in [Workers -> Jobs]
    BY DEF Init, Idle, Jobs
  <1>2. row \in Rows /\ row.status = "absent" /\ row.owner = NoWorker /\ row.revision = 0
    BY DEF Init, Rows
  <1>3. FactsTyped
    <2>1. edition \in [Assets -> Nat] /\ round \in [Assets -> Nat] /\ visibility \in [Assets -> Visibilities]
          /\ granted \subseteq Assets
      BY DEF Init, Visibilities
    <2>2. \A a \in Copies : edition[a] = 0
      BY PreferenceConstants DEF Init
    <2>3. \A p \in unclassified : p \in Editions /\ p[1] \notin Copies
      BY DEF Init, Editions
    <2>4. changes \in 0 .. MaxChanges /\ changes \in Nat /\ requested \in Nat
      BY <1>1, PreferenceConstants
    <2>7. silent \in BOOLEAN
      BY Zenon DEF Init
    <2>5. \A p \in qualified \cup unclassified : Placed(p)
      BY <1>1, <2>3 DEF Placed
    <2>6. \A a \in Copies : edition[a] \in Drafts \cup {0}
      BY <2>2
    <2> QED
      BY <1>1, <2>1, <2>3, <2>4, <2>5, <2>6, <2>7 DEF FactsTyped
  <1>4. Typed
    BY <1>1, <1>2, <1>3, PreferenceConstants DEF Typed, RestTyped
  <1>5. \A s : Supported(s) = {}
    <2>1. Targets = {}
      BY <1>1 DEF Targets
    <2>2. \A s : Evidence(s) = {}
      BY <2>1 DEF Evidence
    <2> QED
      BY <2>2, FS_EmptySet, PreferenceConstants DEF Supported
  <1>6. PatternsRight
    BY <1>1, <1>3, <1>5, ContextScopes DEF PatternsRight
  <1>7. LockHeld /\ SeenRecent /\ DoneCompleted /\ Requested /\ WritesRight /\ ReadsAll
    BY <1>1, PreferenceConstants DEF LockHeld, SeenRecent, DoneCompleted, Requested, WritesRight, ReadsAll
  <1> QED
    BY <1>1, <1>4, <1>6, <1>7 DEF PreferenceInv, OutstandingQueued

\* The facts change, and the synthesis is requested anew.
LEMMA TriggerStep ==
  ASSUME PreferenceInv, Trigger, FactsTyped', changes <= changes',
         UNCHANGED <<fed, completed, pattern, lock, job, basis, faults>>
  PROVE  PreferenceInv'
  <1>1. /\ requested' = requested + 1 /\ requested \in Nat /\ completed <= requested
        /\ row' \in Rows /\ row'.status = "ready" /\ row'.owner = NoWorker
        /\ row'.revision = requested'
    BY DEF Trigger, PreferenceInv, Typed, FactsTyped, RestTyped, Rows
  <1>2. Typed'
    <2>1. changes \in Nat /\ changes' \in Nat
      BY DEF PreferenceInv, Typed, FactsTyped
    <2> QED
      BY <1>1, <2>1, PreferenceConstants DEF PreferenceInv, Typed, RestTyped
  <1>3. \A w \in Workers : job[w].stage \in {"read", "check", "mark"} => job[w].revision \in Nat
    BY JobTyped DEF PreferenceInv, Typed, RestTyped, Reading, Through
  <1>4. ~Recorded' /\ \A w \in Workers : job[w].stage = "read" => ~Current(w)'
    BY <1>1, <1>3 DEF PreferenceInv, Typed, RestTyped, Requested, Recorded, Current
  <1>5. LockHeld' /\ OutstandingQueued' /\ PatternsRight' /\ WritesRight' /\ ReadsAll'
    BY <1>1, <1>4 DEF PreferenceInv, LockHeld, OutstandingQueued, PatternsRight, WritesRight, ReadsAll
  <1>6. DoneCompleted'
    BY <1>1, PreferenceConstants DEF DoneCompleted, Owned
  <1>7. \A w \in Workers : job[w].stage = "read" => job[w].seen \in Nat
    BY JobTyped DEF PreferenceInv, Typed, RestTyped, Reading
  <1>8. \A w \in Workers : job[w].stage = "synthesize" => job[w].revision \in Nat
    BY JobTyped DEF PreferenceInv, Typed, RestTyped, Leased
  <1>9. SeenRecent' /\ Requested'
    BY <1>1, <1>3, <1>7, <1>8 DEF PreferenceInv, Typed, RestTyped, FactsTyped, SeenRecent, Requested
  <1> QED
    BY <1>2, <1>5, <1>6, <1>9 DEF PreferenceInv

\* A change nobody is told of leaves what a synthesis reads as it was, or is counted silent.
LEMMA QuietStep ==
  ASSUME PreferenceInv, Quietly, silent' \in BOOLEAN => FactsTyped', changes <= changes',
         UNCHANGED <<fed, completed, pattern, lock, job, basis, faults>>
  PROVE  PreferenceInv'
  <1>1. UNCHANGED <<requested, row, fed, completed, pattern, lock, job, basis, faults>>
    BY DEF Quietly
  <1>2. silent' \in BOOLEAN /\ (~ silent' => ~ silent /\ Inputs' = Inputs)
    BY DEF Quietly, PreferenceInv, Typed, FactsTyped
  <1>3. ~ silent' => Contexts' = Contexts /\ \A s \in AllScopes : Evidence(s)' = Evidence(s)
    <2> SUFFICES ASSUME ~ silent'
                 PROVE  Contexts' = Contexts /\ \A s \in AllScopes : Evidence(s)' = Evidence(s)
      OBVIOUS
    <2>1. Contexts' = Contexts /\ [s \in AllScopes |-> Evidence(s)]' = [s \in AllScopes |-> Evidence(s)]
      BY <1>2 DEF Inputs
    <2>2. \A s \in AllScopes : Evidence(s)' = [t \in AllScopes |-> Evidence(t)]'[s]
      OBVIOUS
    <2>3. \A s \in AllScopes : Evidence(s) = [t \in AllScopes |-> Evidence(t)][s]
      OBVIOUS
    <2> QED
      BY <2>1, <2>2, <2>3
  <1>4. ~ silent' => ~ silent /\ Contexts' = Contexts /\ \A s \in AllScopes : Supported(s)' = Supported(s)
    BY <1>2, <1>3 DEF Supported
  <1>5. Typed' /\ FactsTyped
    BY <1>1, <1>2 DEF PreferenceInv, Typed, FactsTyped, RestTyped
  <1>6. \A w \in Workers : job[w].stage = "read" =>
          job[w].seen \in Nat /\ DOMAIN job[w].writes \subseteq AllScopes
    BY JobTyped, OverTyped DEF PreferenceInv, Typed, RestTyped, Reading
  <1>7. LockHeld' /\ SeenRecent' /\ DoneCompleted' /\ Requested' /\ OutstandingQueued'
    BY <1>1, <1>5, <1>6
       DEF PreferenceInv, Typed, FactsTyped, LockHeld, SeenRecent, DoneCompleted, Requested,
           OutstandingQueued, Owned
  <1>8. PatternsRight'
    BY <1>1, <1>4, <1>5, ContextScopes DEF PreferenceInv, PatternsRight, Recorded, Current
  <1>9. WritesRight' /\ ReadsAll'
    BY <1>1, <1>4, <1>6 DEF PreferenceInv, WritesRight, ReadsAll, Recorded, Current
  <1> QED
    BY <1>5, <1>7, <1>8, <1>9 DEF PreferenceInv

\* One of the changes from outside is counted; what else it does is well formed.
LEMMA Counted ==
  ASSUME FactsTyped, Outside
  PROVE  changes' \in 0 .. MaxChanges /\ changes' \in Nat /\ changes <= changes'
         /\ UNCHANGED <<fed, completed, pattern, lock, job, basis, faults>>
  BY PreferenceConstants DEF FactsTyped, Outside

LEMMA AccessStep == ASSUME PreferenceInv, NEW a \in Assets, ChangeAccess(a) PROVE PreferenceInv'
  <1>1. FactsTyped /\ Trigger /\ Outside
    BY DEF PreferenceInv, Typed, ChangeAccess
  <1>2. UNCHANGED <<edition, round, visibility, poor, qualified, unclassified>> /\ granted' \subseteq Assets
        /\ silent' = FALSE /\ requested' \in Nat
    BY <1>1 DEF ChangeAccess, Trigger, FactsTyped
  <1>3. FactsTyped'
    BY <1>1, <1>2, Counted DEF FactsTyped, Placed
  <1> QED
    BY <1>1, <1>3, Counted, TriggerStep

LEMMA ReviseStep == ASSUME PreferenceInv, NEW a \in Assets, Revise(a) PROVE PreferenceInv'
  <1>1. FactsTyped /\ Quietly /\ Outside /\ a \notin Copies
    BY DEF PreferenceInv, Typed, Revise
  <1>2. UNCHANGED <<round, granted, poor, qualified, requested>>
        /\ edition' = [edition EXCEPT ![a] = @ + 1] /\ unclassified' = unclassified \cup {Now(a)'}
        /\ visibility' \in [Assets -> Visibilities]
    BY <1>1 DEF Revise, Quietly, FactsTyped
  <1>3. edition' \in [Assets -> Nat] /\ \A b \in Copies : edition'[b] = edition[b]
    BY <1>1, <1>2 DEF FactsTyped
  <1>4. Now(a)' \in Editions /\ Placed(Now(a)')
    BY <1>1, <1>3 DEF Now, Editions, Placed
  <1>5. silent' \in BOOLEAN => FactsTyped'
    BY <1>1, <1>2, <1>3, <1>4, Counted DEF FactsTyped, Placed
  <1> QED
    BY <1>1, <1>5, Counted, QuietStep

LEMMA RetargetStep == ASSUME PreferenceInv, NEW a \in Assets, Retarget(a) PROVE PreferenceInv'
  <1>1. FactsTyped /\ Quietly /\ Outside /\ a \in Copies
    BY DEF PreferenceInv, Typed, Retarget
  <1>2. PICK v \in Drafts : edition' = [edition EXCEPT ![a] = v]
    BY DEF Retarget
  <1>3. UNCHANGED <<visibility, granted, poor, qualified, requested>>
        /\ round' \in [Assets -> Nat] /\ unclassified' = unclassified \cup {Now(a)'}
    BY <1>1 DEF Retarget, Quietly, FactsTyped
  <1>4. edition' \in [Assets -> Nat] /\ edition'[a] = v /\ v \in Nat
        /\ \A b \in Copies : edition'[b] \in Drafts \cup {0}
    BY <1>1, <1>2, PreferenceConstants DEF FactsTyped
  <1>5. Now(a)' \in Editions /\ Placed(Now(a)')
    BY <1>4 DEF Now, Editions, Placed
  <1>6. silent' \in BOOLEAN => FactsTyped'
    BY <1>1, <1>3, <1>4, <1>5, Counted DEF FactsTyped, Placed
  <1> QED
    BY <1>1, <1>6, Counted, QuietStep

LEMMA RequeueStep == ASSUME PreferenceInv, NEW a \in Assets, Requeue(a) PROVE PreferenceInv'
  <1>1. FactsTyped /\ Quietly /\ Outside /\ a \notin Copies
    BY DEF PreferenceInv, Typed, Requeue
  <1>2. UNCHANGED <<edition, round, visibility, granted, poor, qualified, requested>>
        /\ unclassified' = unclassified \cup {Now(a)}
    BY <1>1 DEF Requeue, Quietly, inputs
  <1>3. Now(a) \in Editions /\ Placed(Now(a))
    BY <1>1 DEF Now, Editions, Placed, FactsTyped
  <1>4. silent' \in BOOLEAN => FactsTyped'
    BY <1>1, <1>2, <1>3, Counted DEF FactsTyped, Placed
  <1> QED
    BY <1>1, <1>4, Counted, QuietStep

LEMMA MeasureStep == ASSUME PreferenceInv, NEW a \in Assets, Measure(a) PROVE PreferenceInv'
  <1>1. FactsTyped /\ Quietly /\ Outside
    BY DEF PreferenceInv, Typed, Measure
  <1>2. UNCHANGED <<edition, round, visibility, granted, qualified, unclassified, requested>>
        /\ poor' \subseteq poor \cup {Now(a)}
    BY <1>1 DEF Measure, Quietly
  <1>3. Now(a) \in Editions
    BY <1>1 DEF Now, Editions, FactsTyped
  <1>4. silent' \in BOOLEAN => FactsTyped'
    BY <1>1, <1>2, <1>3, Counted DEF FactsTyped, Placed
  <1> QED
    BY <1>1, <1>4, Counted, QuietStep

LEMMA ClassifyStep == ASSUME PreferenceInv, NEW a \in Assets, Classify(a) PROVE PreferenceInv'
  <1>1. FactsTyped /\ (Trigger \/ Quietly)
        /\ UNCHANGED <<edition, round, visibility, granted, poor, changes, fed, completed, pattern, lock,
                       job, basis, faults>>
    BY DEF PreferenceInv, Typed, Classify
  <1>2. unclassified' \subseteq unclassified /\ qualified' \subseteq qualified \cup unclassified
    BY DEF Classify
  <1>3. silent' \in BOOLEAN /\ requested' \in Nat => FactsTyped'
    BY <1>1, <1>2 DEF FactsTyped, Placed
  <1>4. changes \in Nat /\ changes <= changes'
    BY <1>1 DEF FactsTyped
  <1>5. CASE Trigger
    <2>0. requested \in Nat
      BY <1>1 DEF FactsTyped
    <2>1. silent' \in BOOLEAN
      BY <1>5, Zenon DEF Trigger
    <2>2. requested' \in Nat
      BY <1>5, <2>0 DEF Trigger
    <2> QED
      BY <1>1, <1>3, <1>4, <1>5, <2>1, <2>2, TriggerStep
  <1>6. CASE Quietly
    <2>1. requested' \in Nat
      BY <1>1, <1>6 DEF Quietly, FactsTyped
    <2> QED
      BY <1>1, <1>3, <1>4, <1>6, <2>1, QuietStep
  <1> QED
    BY <1>1, <1>5, <1>6

\* The workers change no fact.
LEMMA WorkKeeps ==
  ASSUME PreferenceInv
  PROVE  /\ \A w \in Workers : Work(w) \/ Cancel(w) \/ Crash(w) => FactsStay
         /\ Lapse => FactsStay
  <1>1. \A w \in Workers : Work(w) => UNCHANGED facts
    BY DEF Work, Lease, Acquire, ReadScope, Commit, Check, Mark, Settle
  <1>2. \A w \in Workers : Cancel(w) \/ Crash(w) => UNCHANGED facts
    BY DEF Cancel, Crash
  <1>3. Lapse => UNCHANGED facts
    BY DEF Lapse
  <1> QED
    BY <1>1, <1>2, <1>3, FactsKept DEF PreferenceInv, Typed

\* A job moves without a read, a commit or a completion: to a place where it has done nothing.
LEMMA LeaseStep == ASSUME PreferenceInv, NEW w \in Workers, Lease(w) PROVE PreferenceInv'
  <1> DEFINE r == [stage |-> "synthesize", revision |-> row.revision, cancelled |-> FALSE]
  <1>1. r \in Jobs /\ r.stage = "synthesize" /\ r.revision = row.revision
    BY DEF PreferenceInv, Typed, RestTyped, Rows, Jobs, Leased
  <1>2. job' = [job EXCEPT ![w] = r]
    BY DEF Lease
  <1> HIDE DEF r
  <1>a. job[w] = Idle /\ Idle.stage = "idle" /\ w # NoWorker
    BY PreferenceConstants DEF Lease, Idle
  <1>3. MovesTo(w, r) /\ job[w].stage = "idle"
    BY <1>1, <1>2, <1>a, Moves DEF PreferenceInv
  <1>4. /\ row' \in Rows /\ row'.status = "processing" /\ row'.owner = w
        /\ row'.revision = row.revision
    BY DEF Lease, PreferenceInv, Typed, RestTyped, Rows
  <1>5. FactsStay /\ UNCHANGED <<fed, completed, pattern, lock, basis, faults>>
    BY WorkKeeps DEF Lease, Work
  <1>6. Typed'
    BY <1>3, <1>4, <1>5, <1>a DEF PreferenceInv, Typed, RestTyped, Rows, MovesTo, FactsStay
  <1>7. LockHeld' /\ SeenRecent'
    BY <1>1, <1>3, <1>5 DEF PreferenceInv, LockHeld, SeenRecent, MovesTo, FactsStay
  <1>8. DoneCompleted' /\ OutstandingQueued'
    BY <1>1, <1>3, <1>4 DEF DoneCompleted, Owned, MovesTo, FactsStay, OutstandingQueued
  <1>9. Requested'
    BY <1>1, <1>3, <1>5 DEF PreferenceInv, Typed, RestTyped, Requested, MovesTo, FactsStay
  <1>10. Recorded' => Recorded
    BY <1>1, <1>3, <1>5 DEF Recorded, Current, MovesTo, FactsStay
  <1>11. PatternsRight' /\ WritesRight' /\ ReadsAll'
    BY <1>1, <1>3, <1>5, <1>10
       DEF PreferenceInv, PatternsRight, WritesRight, ReadsAll, Current, MovesTo, FactsStay
  <1> QED
    BY <1>6, <1>7, <1>8, <1>9, <1>11 DEF PreferenceInv

LEMMA AcquireStep == ASSUME PreferenceInv, NEW w \in Workers, Acquire(w) PROVE PreferenceInv'
  <1> DEFINE r == [stage |-> "read", revision |-> job[w].revision, cancelled |-> job[w].cancelled,
                   scopes |-> Contexts, writes |-> NothingRead, seen |-> changes]
  <1>1. job[w] \in Leased /\ w # NoWorker /\ lock = NoWorker /\ job[w].stage = "synthesize"
    BY JobTyped, PreferenceConstants DEF PreferenceInv, Typed, RestTyped, Acquire
  <1>2. /\ r \in Jobs /\ r.stage = "read" /\ r.revision = job[w].revision /\ r.seen = changes
        /\ r.scopes = Contexts /\ r.writes = NothingRead
    <2>1. changes \in Nat /\ Contexts \in SUBSET AllScopes
      BY ContextScopes DEF PreferenceInv, Typed, FactsTyped
    <2>2. r \in Reading
      BY <1>1, <2>1, NothingTyped DEF Leased, Reading
    <2> QED
      BY <2>2 DEF Jobs
  <1>3. job' = [job EXCEPT ![w] = r]
    BY DEF Acquire
  <1> HIDE DEF r
  <1>4. MovesTo(w, r)
    BY <1>2, <1>3, Moves DEF PreferenceInv
  <1>5. lock' = w /\ FactsStay /\ UNCHANGED <<fed, completed, row, pattern, basis, faults>>
    BY WorkKeeps DEF Acquire, Work
  <1>6. Typed'
    BY <1>4, <1>5 DEF PreferenceInv, Typed, RestTyped, MovesTo, FactsStay
  <1>7. LockHeld'
    BY <1>1, <1>2, <1>4, <1>5, PreferenceConstants DEF PreferenceInv, LockHeld, MovesTo, FactsStay
  <1>8. SeenRecent'
    BY <1>1, <1>2, <1>4, <1>5 DEF PreferenceInv, Typed, FactsTyped, RestTyped, LockHeld, SeenRecent, MovesTo, FactsStay
  <1>9. DoneCompleted' /\ OutstandingQueued'
    BY <1>2, <1>4, <1>5 DEF PreferenceInv, DoneCompleted, Owned, MovesTo, OutstandingQueued, FactsStay
  <1>10. Requested'
    BY <1>1, <1>2, <1>4, <1>5 DEF PreferenceInv, Requested, MovesTo, FactsStay
  <1>11. Recorded' => Recorded
    BY <1>2, <1>4, <1>5 DEF Recorded, Current, MovesTo, FactsStay
  <1>12. PatternsRight' /\ WritesRight' /\ ReadsAll'
    BY <1>2, <1>4, <1>5, <1>11, NothingTyped
       DEF PreferenceInv, PatternsRight, WritesRight, ReadsAll, Current, MovesTo, FactsStay
  <1> QED
    BY <1>6, <1>7, <1>8, <1>9, <1>10, <1>12 DEF PreferenceInv

LEMMA ReadScopeStep == ASSUME PreferenceInv, NEW w \in Workers, ReadScope(w) PROVE PreferenceInv'
  <1>1. job[w] \in Reading /\ job[w].stage = "read"
    BY JobTyped DEF PreferenceInv, Typed, RestTyped, ReadScope
  <1>2. PICK s \in job[w].scopes :
          job' = [job EXCEPT ![w].scopes = @ \ {s},
                             ![w].writes = Over(@, Only(s, Supported(s)))]
    BY DEF ReadScope
  <1> DEFINE r == [job[w] EXCEPT !.scopes = @ \ {s},
                                 !.writes = Over(@, Only(s, Supported(s)))]
  <1>3. s \in AllScopes /\ job[w].writes \in PartialPatterns
    BY <1>1, <1>2 DEF Reading
  <1>4. Supported(s) \in SUBSET Editions
    BY SupportedEditions DEF PreferenceInv, Typed, RestTyped
  <1>5. Over(job[w].writes, Only(s, Supported(s))) \in PartialPatterns
    BY <1>3, <1>4, OneMore
  <1>6. /\ r \in Reading /\ r.stage = "read" /\ r.revision = job[w].revision /\ r.seen = job[w].seen
        /\ r.scopes = job[w].scopes \ {s}
        /\ r.writes = Over(job[w].writes, Only(s, Supported(s)))
    BY <1>1, <1>5 DEF Reading
  <1>7. job' = [job EXCEPT ![w] = r]
    BY <1>1, <1>2 DEF PreferenceInv, Typed, RestTyped
  <1> HIDE DEF r
  <1>8. MovesTo(w, r)
    BY <1>6, <1>7, Moves DEF PreferenceInv, Jobs
  <1>9. FactsStay /\ UNCHANGED <<fed, completed, row, pattern, lock, basis, faults>>
    BY WorkKeeps DEF ReadScope, Work
  <1>10. Typed'
    BY <1>8, <1>9 DEF PreferenceInv, Typed, RestTyped, MovesTo, FactsStay
  <1>11. LockHeld' /\ SeenRecent'
    BY <1>1, <1>6, <1>8, <1>9 DEF PreferenceInv, LockHeld, SeenRecent, MovesTo, FactsStay
  <1>12. DoneCompleted' /\ OutstandingQueued' /\ Requested'
    BY <1>1, <1>6, <1>8, <1>9
       DEF PreferenceInv, DoneCompleted, Owned, MovesTo, OutstandingQueued, Requested, FactsStay
  <1>13. Recorded' => Recorded
    BY <1>6, <1>8, <1>9 DEF Recorded, Current, MovesTo, FactsStay
  <1>b. PICK A \in SUBSET Editions : A = Supported(s)
    BY <1>4
  <1>14. /\ DOMAIN r.writes = DOMAIN job[w].writes \cup {s} /\ r.writes[s] = Supported(s)
         /\ \A t \in DOMAIN job[w].writes \ {s} : r.writes[t] = job[w].writes[t]
    <2>1. r.writes = Over(job[w].writes, Only(s, A))
      BY <1>6, <1>b
    <2>2. job[w].writes \in PartialPatterns /\ s \in AllScopes
      BY <1>3
    <2>3. \A f \in PartialPatterns : \A u \in AllScopes :
            /\ DOMAIN Over(f, Only(u, A)) = DOMAIN f \cup {u} /\ Over(f, Only(u, A))[u] = A
            /\ \A t \in DOMAIN f \ {u} : Over(f, Only(u, A))[t] = f[t]
      BY OneMore
    <2> QED
      BY <1>b, <2>1, <2>2, <2>3
  <1>15. PatternsRight' /\ ReadsAll'
    BY <1>1, <1>6, <1>8, <1>9, <1>13, <1>14
       DEF PreferenceInv, PatternsRight, ReadsAll, Current, MovesTo, FactsStay
  <1>16. WritesRight'
    BY <1>1, <1>6, <1>8, <1>9, <1>13, <1>14
       DEF PreferenceInv, WritesRight, Current, MovesTo, FactsStay
  <1> QED
    BY <1>10, <1>11, <1>12, <1>15, <1>16 DEF PreferenceInv

LEMMA CommitStep == ASSUME PreferenceInv, NEW w \in Workers, Commit(w) PROVE PreferenceInv'
  <1>1. /\ job[w] \in Reading /\ job[w].stage = "read" /\ job[w].scopes = {} /\ lock = w
        /\ w # NoWorker
    BY JobTyped, PreferenceConstants DEF PreferenceInv, Typed, RestTyped, Commit, LockHeld
  <1> DEFINE r == IF job[w].cancelled THEN Idle ELSE [stage |-> "check", revision |-> job[w].revision]
  <1>2. /\ r \in Jobs /\ r.stage \in {"idle", "check"}
        /\ r.stage = "check" => r.revision = job[w].revision
    BY <1>1 DEF Jobs, Through, Reading, Idle
  <1>3. job' = [job EXCEPT ![w] = r]
    BY DEF Commit
  <1> HIDE DEF r
  <1>4. MovesTo(w, r)
    BY <1>2, <1>3, Moves DEF PreferenceInv
  <1>5. /\ lock' = NoWorker /\ FactsStay /\ UNCHANGED <<completed, row, faults>>
        /\ fed' = fed \cup {p[1] : p \in UNION {job[w].writes[s] : s \in DOMAIN job[w].writes}}
        /\ basis' = job[w].seen /\ pattern' = Over(pattern, job[w].writes)
    BY <1>1, WorkKeeps DEF Commit, Work
  <1>6. /\ pattern' \in [AllScopes -> SUBSET Editions]
        /\ \A s \in AllScopes :
             pattern'[s] = IF s \in DOMAIN job[w].writes THEN job[w].writes[s] ELSE pattern[s]
    BY <1>1, <1>5, OverTyped DEF PreferenceInv, Typed, RestTyped, Reading
  <1>7. basis' \in Nat /\ basis' <= changes
    BY <1>1, <1>5 DEF PreferenceInv, SeenRecent, Reading
  <1>a. fed' \subseteq Assets
    <2>1. \A s \in DOMAIN job[w].writes : job[w].writes[s] \subseteq Editions
      BY <1>1 DEF Reading, PartialPatterns
    <2>2. \A p \in Editions : p[1] \in Assets
      BY DEF Editions
    <2> QED
      BY <1>5, <2>1, <2>2 DEF PreferenceInv, Typed, RestTyped
  <1>8. Typed'
    BY <1>4, <1>5, <1>6, <1>7, <1>a DEF PreferenceInv, Typed, RestTyped, MovesTo, FactsStay
  <1>9. \A v \in Workers : job'[v].stage # "read"
    BY <1>1, <1>2, <1>4 DEF PreferenceInv, LockHeld, MovesTo, FactsStay
  <1>10. LockHeld' /\ SeenRecent' /\ WritesRight' /\ ReadsAll'
    BY <1>5, <1>9, PreferenceConstants DEF LockHeld, SeenRecent, WritesRight, ReadsAll
  <1>11. DoneCompleted' /\ OutstandingQueued' /\ Requested'
    BY <1>1, <1>2, <1>4, <1>5
       DEF PreferenceInv, DoneCompleted, Owned, MovesTo, OutstandingQueued, Requested, FactsStay
  <1>12. Recorded' => Recorded \/ Current(w)
    BY <1>2, <1>4, <1>5 DEF Recorded, Current, MovesTo, FactsStay
  <1>13. PatternsRight'
    <2> SUFFICES ASSUME Recorded', ~ silent, NEW s \in Contexts
                 PROVE  pattern'[s] = Supported(s)
      BY <1>5 DEF PatternsRight, FactsStay
    <2>1. s \in AllScopes
      BY ContextScopes DEF PreferenceInv, Typed
    <2>2. CASE s \in DOMAIN job[w].writes
      BY <1>1, <1>6, <1>12, <2>1, <2>2 DEF PreferenceInv, WritesRight
    <2>3. CASE s \notin DOMAIN job[w].writes
      <3>1. ~Current(w)
        BY <1>1, <2>3 DEF PreferenceInv, ReadsAll
      <3> QED
        BY <1>6, <1>12, <2>1, <2>3, <3>1 DEF PreferenceInv, PatternsRight
    <2> QED
      BY <2>2, <2>3
  <1> QED
    BY <1>8, <1>10, <1>11, <1>13 DEF PreferenceInv

\* Everything but the job of w, and perhaps the row and the number of faults, is as it was.
Elsewhere == FactsStay /\ UNCHANGED <<fed, completed, pattern, basis>> /\ faults' \in 0 .. MaxFaults

\* A job that goes on without having read more, or ends: a lease may be gone afterwards, and
\* one that is neither done nor newly through says nothing new.
LEMMA PlainStep ==
  ASSUME PreferenceInv, NEW w \in Workers, NEW r \in Jobs, MovesTo(w, r), Elsewhere,
         row' \in Rows, row'.owner \in {row.owner, NoWorker},
         row'.revision = row.revision, row'.status = "processing" <=> row'.owner # NoWorker,
         row'.status = "succeeded" => row.status = "succeeded" \/ completed = requested,
         row'.status = "absent" => row.status = "absent",
         r.stage = "read" => /\ job[w].stage = "read"
                             /\ r.seen = job[w].seen /\ r.scopes = job[w].scopes
                             /\ r.writes = job[w].writes,
         lock' = IF r.stage # "read" /\ lock = w THEN NoWorker ELSE lock,
         r.stage \in {"synthesize", "read", "check", "mark"} =>
           /\ job[w].stage \in {"synthesize", "read", "check", "mark"}
           /\ r.revision = job[w].revision,
         r.stage \in {"check", "mark"} => job[w].stage \in {"check", "mark"},
         r.stage = "settle" => job[w].stage = "settle" /\ r.done = job[w].done
  PROVE  PreferenceInv'
  <1>1. w # NoWorker /\ faults' \in Nat /\ faults' \in 0 .. MaxFaults
    BY PreferenceConstants DEF Elsewhere
  <1>2. Typed'
    BY <1>1 DEF PreferenceInv, Typed, RestTyped, Elsewhere, MovesTo, FactsStay, Rows
  <1>3. LockHeld'
    BY <1>1, PreferenceConstants DEF PreferenceInv, LockHeld, MovesTo, FactsStay
  <1>4. SeenRecent' /\ Requested'
    BY DEF PreferenceInv, SeenRecent, Requested, MovesTo, Elsewhere, FactsStay
  <1>5. DoneCompleted'
    BY <1>1, PreferenceConstants DEF PreferenceInv, DoneCompleted, Owned, MovesTo, Elsewhere, FactsStay
  <1>6. OutstandingQueued'
    BY DEF PreferenceInv, Typed, RestTyped, Rows, OutstandingQueued, Elsewhere, FactsStay
  <1>7. Recorded' => Recorded
    BY DEF Recorded, Current, MovesTo, Elsewhere, FactsStay
  <1>8. PatternsRight' /\ WritesRight' /\ ReadsAll'
    BY <1>7
       DEF PreferenceInv, PatternsRight, WritesRight, ReadsAll, Current, MovesTo, FactsStay, Elsewhere
  <1> QED
    BY <1>2, <1>3, <1>4, <1>5, <1>6, <1>8 DEF PreferenceInv

LEMMA RowKept ==
  ASSUME PreferenceInv
  PROVE  row \in Rows /\ (row.status = "processing" <=> row.owner # NoWorker)
  BY DEF PreferenceInv, Typed, RestTyped

LEMMA CheckStep == ASSUME PreferenceInv, NEW w \in Workers, Check(w) PROVE PreferenceInv'
  <1> DEFINE r == IF Owned(w) THEN [job[w] EXCEPT !.stage = "mark"] ELSE Idle
  <1>1. job[w] \in Through /\ job[w].stage = "check"
    BY JobTyped DEF PreferenceInv, Typed, RestTyped, Check
  <1>2. /\ r \in Jobs /\ r.stage \in {"idle", "mark"}
        /\ r.stage = "mark" => r.revision = job[w].revision
    BY <1>1 DEF Through, Jobs, Idle
  <1>3. job' = [job EXCEPT ![w] = r]
    BY DEF Check
  <1> HIDE DEF r
  <1>4. MovesTo(w, r)
    BY <1>2, <1>3, Moves DEF PreferenceInv
  <1>5. Elsewhere /\ UNCHANGED <<row, lock>> /\ lock # w
    BY <1>1, WorkKeeps DEF Check, Work, Elsewhere, PreferenceInv, Typed, RestTyped, LockHeld
  <1> QED
    BY <1>1, <1>2, <1>4, <1>5, RowKept, PlainStep

LEMMA MarkStep == ASSUME PreferenceInv, NEW w \in Workers, Mark(w) PROVE PreferenceInv'
  <1> DEFINE r == [stage |-> "settle", done |-> requested = job[w].revision]
  <1>1. job[w] \in Through /\ job[w].stage = "mark"
    BY JobTyped DEF PreferenceInv, Typed, RestTyped, Mark
  <1>2. r \in Jobs /\ r.stage = "settle" /\ (r.done => Current(w))
    BY DEF Jobs, Settling, Current
  <1>3. job' = [job EXCEPT ![w] = r]
    BY DEF Mark
  <1> HIDE DEF r
  <1>4. MovesTo(w, r)
    BY <1>2, <1>3, Moves DEF PreferenceInv
  <1>5. /\ FactsStay /\ UNCHANGED <<fed, row, pattern, lock, basis, faults>>
        /\ completed' = IF Current(w) THEN requested ELSE completed
    BY WorkKeeps DEF Mark, Work, Current
  <1>6. /\ completed' \in Nat /\ completed' \in 0 .. requested
        /\ completed' = requested \/ (completed' = completed /\ ~Current(w))
    BY <1>5 DEF PreferenceInv, Typed, FactsTyped, RestTyped
  <1>7. Typed'
    BY <1>4, <1>5, <1>6 DEF PreferenceInv, Typed, RestTyped, MovesTo, FactsStay
  <1>8. LockHeld' /\ SeenRecent' /\ Requested'
    BY <1>1, <1>2, <1>4, <1>5
       DEF PreferenceInv, LockHeld, SeenRecent, Requested, MovesTo, FactsStay
  <1>9. DoneCompleted'
    BY <1>2, <1>4, <1>5, <1>6 DEF PreferenceInv, DoneCompleted, Owned, MovesTo, FactsStay
  <1>10. OutstandingQueued'
    BY <1>5, <1>6 DEF PreferenceInv, Typed, RestTyped, OutstandingQueued, FactsStay
  <1>11. Recorded' => Recorded
    BY <1>1, <1>2, <1>4, <1>5 DEF Recorded, Current, MovesTo, FactsStay
  <1>12. PatternsRight' /\ WritesRight' /\ ReadsAll'
    BY <1>1, <1>2, <1>4, <1>5, <1>11
       DEF PreferenceInv, PatternsRight, WritesRight, ReadsAll, Current, MovesTo, FactsStay
  <1> QED
    BY <1>7, <1>8, <1>9, <1>10, <1>12 DEF PreferenceInv

LEMMA SettleStep == ASSUME PreferenceInv, NEW w \in Workers, Settle(w) PROVE PreferenceInv'
  <1>1. job[w] \in Settling /\ job[w].stage = "settle" /\ w # NoWorker
    BY JobTyped, PreferenceConstants DEF PreferenceInv, Typed, RestTyped, Settle
  <1>2. Idle \in Jobs /\ Idle.stage = "idle"
    BY DEF Jobs, Idle
  <1>3. MovesTo(w, Idle)
    BY <1>2, Moves DEF PreferenceInv, Settle
  <1>4. Elsewhere /\ UNCHANGED lock /\ lock # w
    BY <1>1, WorkKeeps DEF Settle, Work, Elsewhere, PreferenceInv, Typed, RestTyped, LockHeld
  <1>5. CASE ~Owned(w)
    BY <1>1, <1>2, <1>3, <1>4, <1>5, RowKept, PlainStep DEF Settle
  <1>6. CASE Owned(w)
    <2>1. job[w].done => completed = requested
      BY <1>1, <1>6 DEF PreferenceInv, DoneCompleted
    <2>2. /\ row' \in Rows /\ row'.owner = NoWorker /\ row'.revision = row.revision
          /\ row'.status = IF job[w].done THEN "succeeded" ELSE "ready"
      BY <1>6, RowKept DEF Settle, Rows
    <2> QED
      BY <1>1, <1>2, <1>3, <1>4, <2>1, <2>2, PlainStep
  <1> QED
    BY <1>5, <1>6

LEMMA CancelStep == ASSUME PreferenceInv, NEW w \in Workers, Cancel(w) PROVE PreferenceInv'
  <1> DEFINE r == [job[w] EXCEPT !.cancelled = TRUE]
  <1>1. \/ job[w] \in Leased /\ job[w].stage = "synthesize"
        \/ job[w] \in Reading /\ job[w].stage = "read"
    BY JobTyped DEF PreferenceInv, Typed, RestTyped, Cancel
  <1>2. /\ r \in Jobs /\ r.stage = job[w].stage /\ r.revision = job[w].revision
        /\ r.stage = "read" => r.seen = job[w].seen /\ r.scopes = job[w].scopes /\ r.writes = job[w].writes
    BY <1>1 DEF Leased, Reading, Jobs
  <1>3. job' = [job EXCEPT ![w] = r]
    BY DEF Cancel
  <1> HIDE DEF r
  <1>4. MovesTo(w, r)
    BY <1>2, <1>3, Moves DEF PreferenceInv
  <1>5. faults' \in 0 .. MaxFaults
    BY PreferenceConstants DEF Cancel, Fault, PreferenceInv, Typed, RestTyped
  <1>6. Elsewhere /\ UNCHANGED <<row, lock>> /\ (r.stage # "read" => lock # w)
    BY <1>2, <1>5, WorkKeeps DEF Cancel, Elsewhere, PreferenceInv, LockHeld
  <1> QED
    BY <1>1, <1>2, <1>4, <1>6, RowKept, PlainStep

LEMMA CrashStep == ASSUME PreferenceInv, NEW w \in Workers, Crash(w) PROVE PreferenceInv'
  <1>1. Idle \in Jobs /\ Idle.stage = "idle"
    BY DEF Jobs, Idle
  <1>2. MovesTo(w, Idle)
    BY <1>1, Moves DEF PreferenceInv, Crash
  <1>3. faults' \in 0 .. MaxFaults
    BY PreferenceConstants DEF Crash, Fault, PreferenceInv, Typed, RestTyped
  <1>4. Elsewhere /\ UNCHANGED row /\ lock' = IF lock = w THEN NoWorker ELSE lock
    BY <1>3, WorkKeeps DEF Crash, Elsewhere
  <1> QED
    BY <1>1, <1>2, <1>4, RowKept, PlainStep

LEMMA LapseStep == ASSUME PreferenceInv, Lapse PROVE PreferenceInv'
  <1>1. /\ row' \in Rows /\ row'.owner = NoWorker /\ row'.revision = row.revision
        /\ row'.status = "ready"
    BY RowKept DEF Lapse, Rows
  <1>2. FactsStay /\ UNCHANGED <<fed, completed, pattern, lock, job, basis>>
    BY WorkKeeps DEF Lapse
  <1>3. faults' \in 0 .. MaxFaults /\ faults' \in Nat
    BY PreferenceConstants DEF Lapse, Fault, PreferenceInv, Typed, RestTyped
  <1>4. Typed'
    BY <1>1, <1>2, <1>3 DEF PreferenceInv, Typed, RestTyped, FactsStay, Rows
  <1>5. LockHeld' /\ SeenRecent' /\ Requested' /\ OutstandingQueued'
    BY <1>1, <1>2 DEF PreferenceInv, LockHeld, SeenRecent, Requested, OutstandingQueued, FactsStay
  <1>6. DoneCompleted'
    BY <1>1, PreferenceConstants DEF DoneCompleted, Owned
  <1>7. PatternsRight' /\ WritesRight' /\ ReadsAll'
    BY <1>2
       DEF PreferenceInv, PatternsRight, WritesRight, ReadsAll, Recorded, Current, FactsStay
  <1> QED
    BY <1>4, <1>5, <1>6, <1>7 DEF PreferenceInv

LEMMA PreferenceStep == PreferenceInv /\ [Next]_vars => PreferenceInv'
  <1> SUFFICES ASSUME PreferenceInv, [Next]_vars PROVE PreferenceInv'
    OBVIOUS
  <1>1. ASSUME NEW a \in Assets,
               ChangeAccess(a) \/ Revise(a) \/ Retarget(a) \/ Requeue(a) \/ Measure(a) \/ Classify(a)
        PROVE  PreferenceInv'
    BY <1>1, AccessStep, ReviseStep, RetargetStep, RequeueStep, MeasureStep, ClassifyStep
  <1>2. ASSUME NEW w \in Workers, Work(w) PROVE PreferenceInv'
    BY <1>2, LeaseStep, AcquireStep, ReadScopeStep, CommitStep, CheckStep, MarkStep, SettleStep DEF Work
  <1>3. CASE UNCHANGED vars
    <2>1. UNCHANGED facts /\ UNCHANGED <<fed, completed, row, pattern, lock, job, basis, faults>>
      BY <1>3 DEF vars
    <2>2. FactsStay
      BY <2>1, FactsKept DEF PreferenceInv, Typed
    <2>3. Typed'
      BY <2>1, <2>2 DEF PreferenceInv, Typed, RestTyped, FactsStay
    <2>4. LockHeld' /\ SeenRecent' /\ DoneCompleted' /\ Requested' /\ OutstandingQueued'
      BY <2>1, <2>2 DEF PreferenceInv, LockHeld, SeenRecent, DoneCompleted, Owned, Requested,
                        OutstandingQueued, FactsStay
    <2>5. PatternsRight' /\ WritesRight' /\ ReadsAll'
      BY <2>1, <2>2 DEF PreferenceInv, PatternsRight, WritesRight, ReadsAll, Recorded, Current, FactsStay
    <2> QED
      BY <2>3, <2>4, <2>5 DEF PreferenceInv
  <1> QED
    BY <1>1, <1>2, <1>3, CancelStep, CrashStep, LapseStep DEF Next
-----------------------------------------------------------------------------
\* Every reachable state is well formed: no revision is completed that was not requested,
\* and the row has an owner exactly while it is processed.
THEOREM PreferenceTypeCorrect == Spec => []TypeOK
  <1>1. PreferenceInv => TypeOK
    BY DEF PreferenceInv, Typed, FactsTyped, RestTyped, Rows, TypeOK
  <1> QED
    BY <1>1, PreferenceInitial, PreferenceStep, PTL DEF Spec

\* No change of the facts up to the newest trigger is forgotten: while a newer revision is
\* requested the row is queued, and once it is completed, and nothing has changed silently
\* since, the patterns are those the facts support, whichever workers overlap, lose their
\* lease, are cancelled or die.
THEOREM ForgetsNothing == Spec => []NoChangeForgotten
  <1>1. PreferenceInv => NoChangeForgotten
    BY DEF PreferenceInv, NoChangeForgotten, CompletedReflects, Answered, PatternsRight, Recorded
  <1> QED
    BY <1>1, PreferenceInitial, PreferenceStep, PTL DEF Spec

\* No transaction writes patterns from older facts than the one before it, not even one whose
\* worker lost its lease long ago.
THEOREM NeverFromOlder == Spec => NeverOlderEvidence
  <1>1. PreferenceInv /\ [Next]_vars => [basis' >= basis]_vars
    <2> SUFFICES ASSUME PreferenceInv, Next PROVE basis' >= basis
      OBVIOUS
    <2>1. basis \in Nat
      BY DEF PreferenceInv, Typed, RestTyped
    <2>2. ASSUME NEW w \in Workers, Commit(w) PROVE basis' >= basis
      <3>1. job[w] \in Reading /\ job[w].stage = "read"
        BY <2>2, JobTyped DEF PreferenceInv, Typed, RestTyped, Commit
      <3> QED
        BY <2>1, <2>2, <3>1 DEF Commit, PreferenceInv, SeenRecent, Reading
    <2>3. ASSUME NEW w \in Workers,
                 Lease(w) \/ Acquire(w) \/ ReadScope(w) \/ Check(w) \/ Mark(w) \/ Settle(w)
                   \/ Cancel(w) \/ Crash(w)
          PROVE  basis' = basis
      BY <2>3 DEF Lease, Acquire, ReadScope, Check, Mark, Settle, Cancel, Crash
    <2>4. ASSUME NEW a \in Assets,
                 ChangeAccess(a) \/ Revise(a) \/ Retarget(a) \/ Requeue(a) \/ Measure(a) \/ Classify(a)
          PROVE  basis' = basis
      BY <2>4 DEF ChangeAccess, Revise, Retarget, Requeue, Measure, Outside, Classify
    <2>5. Lapse => basis' = basis
      BY DEF Lapse
    <2> QED
      BY <2>1, <2>2, <2>3, <2>4, <2>5 DEF Next, Work
  <1> QED
    BY <1>1, PreferenceInitial, PreferenceStep, PTL DEF Spec, NeverOlderEvidence
-----------------------------------------------------------------------------
\* The actor's one row as WorkLedger sees it: triggers of a while are one request, answered
\* by a worker that took up the last of them.
Due == IF row.status \in {"ready", "processing"} THEN {"synthesis"} ELSE {}
Taken == IF row.status = "processing" THEN {"synthesis"} ELSE {}
SynthesisLedger ==
  INSTANCE WorkLedger WITH Items <- {"synthesis"}, owed <- Due, claimed <- Taken, givenUp <- {}

LEMMA Triggered == ASSUME Trigger PROVE SynthesisLedger!Next
  <1>1. Due' = {"synthesis"} /\ Taken' = {}
    BY DEF Trigger, Due, Taken
  <1>2. Due \subseteq {"synthesis"} /\ Taken \subseteq {"synthesis"}
    BY DEF Due, Taken
  <1>3. SynthesisLedger!Request({"synthesis"})
    BY <1>1, <1>2 DEF SynthesisLedger!Request
  <1> QED
    BY <1>3 DEF SynthesisLedger!Next

LEMMA StillDue == ASSUME Due' = Due PROVE SynthesisLedger!Next
  <1>1. Taken' \subseteq Due'
    BY DEF Due, Taken
  <1> QED
    BY <1>1 DEF SynthesisLedger!Next, SynthesisLedger!Serve

LEMMA SettledRow == ASSUME PreferenceInv, NEW w \in Workers, Settle(w) PROVE SynthesisLedger!Next
  <1>1. CASE Owned(w)
    <2>1. row.status = "processing" /\ row \in Rows /\ w # NoWorker
      BY <1>1, PreferenceConstants DEF PreferenceInv, Typed, RestTyped, Owned
    <2>2. row'.status = (IF job[w].done THEN "succeeded" ELSE "ready")
      BY <1>1, <2>1 DEF Settle, Rows
    <2>3. Due = {"synthesis"} /\ Taken = {"synthesis"}
      BY <2>1 DEF Due, Taken
    <2>4. CASE job[w].done
      <3>1. Due' = {} /\ Taken' = {}
        BY <2>2, <2>4 DEF Due, Taken
      <3>2. SynthesisLedger!Discharge("synthesis")
        BY <2>3, <3>1 DEF SynthesisLedger!Discharge
      <3> QED
        BY <3>2 DEF SynthesisLedger!Next
    <2>5. CASE ~ job[w].done
      <3>1. Due' = Due
        BY <2>2, <2>3, <2>5 DEF Due
      <3> QED
        BY <3>1, StillDue
    <2> QED
      BY <2>4, <2>5
  <1>2. CASE ~ Owned(w)
    <2>1. Due' = Due
      BY <1>2 DEF Settle, Due
    <2> QED
      BY <2>1, StillDue
  <1> QED
    BY <1>1, <1>2

\* The synthesis keeps the ledger's promises: a trigger is owed until a worker that leased
\* the row after it settles it as done, however leases lapse and workers stop.
THEOREM SynthesisKeepsLedger == Spec => SynthesisLedger!Spec
  <1>1. Init => SynthesisLedger!Init
    BY DEF Init, Due, Taken, SynthesisLedger!Init
  <1>2. PreferenceInv /\ [Next]_vars => [SynthesisLedger!Next]_SynthesisLedger!vars
    <2> SUFFICES ASSUME PreferenceInv, [Next]_vars PROVE SynthesisLedger!Next
      OBVIOUS
    <2>r. row \in Rows
      BY DEF PreferenceInv, Typed, RestTyped
    <2>1. ASSUME NEW w \in Workers, Lease(w) PROVE Due' = Due
      BY <2>r, <2>1 DEF Lease, Due, Rows
    <2>2. Lapse => Due' = Due
      BY <2>r DEF Lapse, Due, Rows
    <2>3. ASSUME NEW w \in Workers, Acquire(w) \/ ReadScope(w) \/ Commit(w) \/ Check(w) \/ Mark(w)
                   \/ Cancel(w) \/ Crash(w)
          PROVE  Due' = Due
      BY <2>3 DEF Acquire, ReadScope, Commit, Check, Mark, Cancel, Crash, Due
    <2>4. ASSUME NEW a \in Assets, Revise(a) \/ Retarget(a) \/ Requeue(a) \/ Measure(a) PROVE Due' = Due
      BY <2>4 DEF Revise, Retarget, Requeue, Measure, Quietly, Due
    <2>5. ASSUME NEW a \in Assets, ChangeAccess(a) PROVE SynthesisLedger!Next
      BY <2>5, Triggered DEF ChangeAccess
    <2>7. ASSUME NEW a \in Assets, Classify(a) PROVE SynthesisLedger!Next
      <3>1. Trigger \/ Quietly
        BY <2>7 DEF Classify
      <3>2. Quietly => Due' = Due
        BY DEF Quietly, Due
      <3> QED
        BY <3>1, <3>2, Triggered, StillDue
    <2>6. CASE UNCHANGED vars
      <3>1. Due' = Due
        BY <2>6 DEF vars, Due
      <3> QED
        BY <3>1, StillDue
    <2> QED
      BY <2>1, <2>2, <2>3, <2>4, <2>5, <2>6, <2>7, StillDue, SettledRow DEF Next, Work
  <1> QED
    BY <1>1, <1>2, PreferenceInitial, PreferenceStep, PTL DEF Spec, SynthesisLedger!Spec

-------------------------------------------------------------------------------
(* UserSkill: however skills change while a turn reads them, and whoever's   *)
(* turn the thread served before, a turn is offered its own user's           *)
(* catalogue, and none that is stale against the revision it names; and the  *)
(* audit trail explains every row.                                           *)

SkillRows == [status : {"absent", "draft", "published", "disabled", "archived"},
              published : Nat, latest : Nat]
SkillTyped ==
  /\ skill \in [Skills -> SkillRows] /\ revision \in [Owners -> Nat]
  /\ turn.stage \in {"idle", "revision", "names", "documents", "resolve", "run"}
  /\ turn.stage # "idle" => turn.actor \in Owners

\* Of a catalogue that names the present revision of its user every document is current.
Loaded(c) == c = Failed \/ (c.scope \in Owners /\ c.revision \in Nat)
UpToRevision(c) ==
  c.scope # NoOwner =>
    /\ c.revision <= revision[c.scope]
    /\ c.revision = revision[c.scope] => c.documents = Published(skill, c.scope)

\* Of the names read it is so too, and all that is published throughout is among them.
NamesOf(docs) == {d[1] : d \in docs}
ReadingShape ==
  turn.stage \in {"names", "documents"} =>
    turn.revision \in Nat /\ turn.revision <= revision[turn.actor]
NamesRight ==
  turn.stage = "documents" =>
    /\ NamesOf(alwaysPublished) \subseteq turn.names
    /\ turn.revision = revision[turn.actor]
         => turn.names = NamesOf(Published(skill, turn.actor))

HistoryBounds ==
  turn.stage # "idle" =>
    /\ alwaysPublished \subseteq Published(skill, turn.actor)
    /\ Published(skill, turn.actor) \subseteq everPublished

\* What the turn offers or is about to.
Offers(c) ==
  c.documents \subseteq everPublished /\ (c.revision # None => alwaysPublished \subseteq c.documents)
CatalogueRight ==
  turn.stage = "resolve" => Loaded(turn.catalogue) /\ UpToRevision(turn.catalogue) /\ Offers(turn.catalogue)
LoadedRight ==
  /\ Loaded(loaded) /\ UpToRevision(loaded) /\ (turn.stage = "run" => Offers(loaded))

OffersInv ==
  SkillTyped /\ ReadingShape /\ NamesRight /\ HistoryBounds /\ CatalogueRight /\ LoadedRight
-----------------------------------------------------------------------------
\* The rows of other owners, or the drafts of a row, do not count.
LEMMA PublishedStays ==
  ASSUME NEW o, SkillTyped, NEW s \in Skills, NEW new, skill' = [skill EXCEPT ![s] = new],
         \/ OwnerOf[s] # o
         \/ skill[s].status # "published" /\ new.status # "published"
         \/ new.status = skill[s].status /\ new.published = skill[s].published
  PROVE  Published(skill', o) = Published(skill, o)
  <1>1. skill'[s] = new /\ \A z \in Skills \ {s} : skill'[z] = skill[z]
    BY DEF SkillTyped
  <1>2. \A d \in Documents : d[1] \in Skills
    BY DEF Documents
  <1>3. \A d \in Documents :
          OwnerOf[d[1]] = o /\ skill'[d[1]].status = "published" /\ skill'[d[1]].published = d[2]
            <=> OwnerOf[d[1]] = o /\ skill[d[1]].status = "published" /\ skill[d[1]].published = d[2]
    BY <1>1, <1>2
  <1> QED
    BY <1>3 DEF Published

\* Every operation that changes what is published counts a revision.
LEMMA EditDoes ==
  ASSUME UserSkillConstants, SkillTyped, EditSkill
  PROVE  /\ skill' \in [Skills -> SkillRows] /\ revision' \in [Owners -> Nat]
         /\ \A o \in Owners :
              /\ revision[o] <= revision'[o]
              /\ revision'[o] = revision[o] => Published(skill', o) = Published(skill, o)
         /\ everPublished' = everPublished \cup Published(skill', turn.actor)
         /\ alwaysPublished' = alwaysPublished \cap Published(skill', turn.actor)
         /\ loaded' = loaded /\ turn' = turn
  <1> DEFINE Kept(s, new) ==
               \/ skill[s].status # "published" /\ new.status # "published"
               \/ new.status = skill[s].status /\ new.published = skill[s].published
  <1>1. \E s \in Skills, new \in SkillRows :
          /\ \E event, version : Write(s, new, event, version)
          /\ Bump(s) \/ (revision' = revision /\ Kept(s, new))
    <2>1. PICK s \in Skills :
            \/ Create(s)
            \/ \E v \in Versions : AppendVersion(s, v) \/ PublishVersion(s, v) \/ Rollback(s, v)
            \/ ChangeStatus(s, "disabled") \/ ChangeStatus(s, "archived")
      BY DEF EditSkill
    <2>t. skill[s] \in SkillRows
      BY DEF SkillTyped
    <2>v. Versions \subseteq Nat
      BY DEF Versions, UserSkillConstants
    <2>2. CASE Create(s)
      <3> DEFINE new == [status |-> "draft", published |-> 0, latest |-> 1]
      <3>1. Write(s, new, "created", 1) /\ revision' = revision /\ skill[s].status = "absent"
        BY <2>2 DEF Create
      <3>2. new \in SkillRows /\ new.status = "draft"
        BY DEF SkillRows
      <3> HIDE DEF new
      <3> QED
        BY <3>1, <3>2
    <2>3. ASSUME NEW v \in Versions, AppendVersion(s, v)
          PROVE  \E new \in SkillRows : /\ \E event, version : Write(s, new, event, version)
                                        /\ revision' = revision /\ Kept(s, new)
      <3> DEFINE new == [skill[s] EXCEPT !.latest = v + 1]
      <3>1. Write(s, new, "version_created", v + 1) /\ revision' = revision
        BY <2>3 DEF AppendVersion
      <3>2. new \in SkillRows /\ new.status = skill[s].status /\ new.published = skill[s].published
        BY <2>t, <2>v DEF SkillRows
      <3> HIDE DEF new
      <3> QED
        BY <3>1, <3>2
    <2>4. ASSUME NEW v \in Versions, PublishVersion(s, v)
          PROVE  \E new \in SkillRows : /\ \E event, version : Write(s, new, event, version)
                                        /\ Bump(s)
      <3> DEFINE new == [skill[s] EXCEPT !.status = "published", !.published = v]
      <3>1. (\E event : Write(s, new, event, v)) /\ Bump(s)
        BY <2>4 DEF PublishVersion
      <3>2. new \in SkillRows
        BY <2>t, <2>v DEF SkillRows
      <3> HIDE DEF new
      <3> QED
        BY <3>1, <3>2
    <2>5. ASSUME NEW v \in Versions, Rollback(s, v)
          PROVE  \E new \in SkillRows : /\ \E event, version : Write(s, new, event, version)
                                        /\ Bump(s)
      <3> DEFINE new == [skill[s] EXCEPT !.published = v]
      <3>1. Write(s, new, "rolled_back", v) /\ Bump(s)
        BY <2>5 DEF Rollback
      <3>2. new \in SkillRows
        BY <2>t, <2>v DEF SkillRows
      <3> HIDE DEF new
      <3> QED
        BY <3>1, <3>2
    <2>6. ASSUME NEW target \in {"disabled", "archived"}, ChangeStatus(s, target)
          PROVE  \E new \in SkillRows : /\ \E event, version : Write(s, new, event, version)
                                        /\ Bump(s)
      <3> DEFINE new == [skill[s] EXCEPT !.status = target]
      <3>1. (\E version : Write(s, new, target, version)) /\ Bump(s)
        BY <2>6 DEF ChangeStatus
      <3>2. new \in SkillRows
        BY <2>t DEF SkillRows
      <3> HIDE DEF new
      <3> QED
        BY <3>1, <3>2
    <2> HIDE DEF Kept
    <2> QED
      BY <2>1, <2>2, <2>3, <2>4, <2>5, <2>6
  <1>2. PICK s \in Skills, new \in SkillRows :
          /\ skill' = [skill EXCEPT ![s] = new]
          /\ everPublished' = everPublished \cup Published(skill', turn.actor)
          /\ alwaysPublished' = alwaysPublished \cap Published(skill', turn.actor)
          /\ loaded' = loaded /\ turn' = turn
          /\ Bump(s) \/ (revision' = revision /\ Kept(s, new))
    <2> HIDE DEF Kept
    <2> QED
      BY <1>1 DEF Write
  <1>3. skill' \in [Skills -> SkillRows]
    BY <1>2 DEF SkillTyped
  <1>4. CASE Bump(s)
    <2>1. OwnerOf[s] \in Owners
      BY DEF UserSkillConstants
    <2>2. /\ revision' \in [Owners -> Nat] /\ revision'[OwnerOf[s]] = revision[OwnerOf[s]] + 1
          /\ \A o \in Owners \ {OwnerOf[s]} : revision'[o] = revision[o]
          /\ \A o \in Owners : revision[o] \in Nat
      BY <1>4, <2>1 DEF Bump, SkillTyped
    <2>3. \A o \in Owners \ {OwnerOf[s]} : Published(skill', o) = Published(skill, o)
      BY <1>2, PublishedStays
    <2>4. \A o \in Owners : /\ revision[o] <= revision'[o]
                            /\ revision'[o] = revision[o] => o # OwnerOf[s]
      BY <2>1, <2>2
    <2> QED
      BY <1>2, <1>3, <2>2, <2>3, <2>4
  <1>5. CASE revision' = revision /\ Kept(s, new)
    <2>1. \A o \in Owners : Published(skill', o) = Published(skill, o)
      BY <1>2, <1>5, PublishedStays
    <2>2. \A o \in Owners : revision[o] <= revision'[o]
      BY <1>5 DEF SkillTyped
    <2> QED
      BY <1>2, <1>3, <1>5, <2>1, <2>2 DEF SkillTyped
  <1> QED
    BY <1>2, <1>4, <1>5

LEMMA EditKeeps ==
  ASSUME UserSkillConstants, OffersInv, EditSkill
  PROVE  OffersInv'
  <1>1. /\ skill' \in [Skills -> SkillRows] /\ revision' \in [Owners -> Nat]
        /\ \A o \in Owners :
             /\ revision[o] <= revision'[o]
             /\ revision'[o] = revision[o] => Published(skill', o) = Published(skill, o)
        /\ everPublished' = everPublished \cup Published(skill', turn.actor)
        /\ alwaysPublished' = alwaysPublished \cap Published(skill', turn.actor)
        /\ loaded' = loaded /\ turn' = turn
    BY EditDoes DEF OffersInv
  <1>2. revision \in [Owners -> Nat]
    BY DEF OffersInv, SkillTyped
  <1>3. SkillTyped'
    BY <1>1 DEF OffersInv, SkillTyped
  \* An older revision stays older.
  <1>4. ASSUME NEW n \in Nat, NEW o \in Owners, n <= revision[o]
        PROVE  n <= revision'[o] /\ (n = revision'[o] => n = revision[o] /\ revision'[o] = revision[o])
    BY <1>1, <1>2, <1>4
  <1>5. ASSUME NEW c, Loaded(c), UpToRevision(c) PROVE UpToRevision(c)'
    <2>1. c.scope # NoOwner => c.scope \in Owners /\ c.revision \in Nat
      BY <1>5 DEF Loaded, Failed
    <2> QED
      BY <2>1, <1>1, <1>4, <1>5 DEF UpToRevision
  <1>6. ASSUME NEW c, Offers(c) PROVE Offers(c)'
    BY <1>1, <1>6 DEF Offers
  <1>7. HistoryBounds'
    BY <1>1 DEF HistoryBounds, OffersInv
  <1>8. ReadingShape'
    BY <1>1, <1>4 DEF OffersInv, ReadingShape, SkillTyped
  <1>9. NamesRight'
    <2> SUFFICES ASSUME turn.stage = "documents"
                 PROVE  /\ NamesOf(alwaysPublished') \subseteq turn.names
                        /\ turn.revision = revision'[turn.actor]
                             => turn.names = NamesOf(Published(skill', turn.actor))
      BY <1>1 DEF NamesRight, NamesOf
    <2>1. turn.actor \in Owners /\ turn.revision \in Nat /\ turn.revision <= revision[turn.actor]
      BY DEF OffersInv, SkillTyped, ReadingShape
    <2>2. NamesOf(alwaysPublished') \subseteq NamesOf(alwaysPublished)
      BY <1>1 DEF NamesOf
    <2> QED
      BY <2>1, <2>2, <1>1, <1>4 DEF OffersInv, NamesRight
  <1>10. CatalogueRight'
    <2> SUFFICES ASSUME turn.stage = "resolve"
                 PROVE  Loaded(turn.catalogue)' /\ UpToRevision(turn.catalogue)' /\ Offers(turn.catalogue)'
      BY <1>1 DEF CatalogueRight
    <2>1. PICK c : c = turn.catalogue
      OBVIOUS
    <2>2. Loaded(c) /\ UpToRevision(c)' /\ Offers(c)' /\ turn'.catalogue = c
      BY <1>1, <1>5, <1>6, <2>1 DEF OffersInv, CatalogueRight
    <2> QED
      BY <2>2 DEF Loaded, UpToRevision, Offers
  <1>11. LoadedRight'
    <2>1. PICK c : c = loaded
      OBVIOUS
    <2>2. /\ Loaded(c) /\ UpToRevision(c)' /\ loaded' = c
          /\ turn.stage = "run" => Offers(c)'
      BY <1>1, <1>5, <1>6, <2>1 DEF OffersInv, LoadedRight
    <2> QED
      BY <2>2, <1>1 DEF Loaded, UpToRevision, Offers, LoadedRight
  <1> QED
    BY <1>3, <1>7, <1>8, <1>9, <1>10, <1>11 DEF OffersInv
-----------------------------------------------------------------------------
\* The steps of a turn leave the tables as they are.
LEMMA TablesStay ==
  ASSUME UNCHANGED database
  PROVE  /\ skill' = skill /\ revision' = revision
         /\ \A o : Published(skill', o) = Published(skill, o)
         /\ \A c : UpToRevision(c)' <=> UpToRevision(c)
  BY DEF database, UpToRevision

\* On to resolving, with a catalogue that is right.
LEMMA ResolvingKeeps ==
  ASSUME UserSkillConstants, OffersInv, turn.stage # "idle", NEW c, Resolving(c),
         UNCHANGED <<database, loaded, history>>, Loaded(c), UpToRevision(c), Offers(c)
  PROVE  OffersInv'
  <1>1. /\ turn'.stage = "resolve" /\ turn'.actor = turn.actor /\ turn'.catalogue = c
        /\ loaded' = loaded /\ everPublished' = everPublished /\ alwaysPublished' = alwaysPublished
    BY DEF Resolving, history
  <1>2. /\ skill' = skill /\ revision' = revision
        /\ \A o : Published(skill', o) = Published(skill, o)
        /\ \A d : UpToRevision(d)' <=> UpToRevision(d)
    BY TablesStay
  <1>3. SkillTyped'
    BY <1>1, <1>2 DEF OffersInv, SkillTyped
  <1>4. ReadingShape' /\ NamesRight'
    BY <1>1 DEF ReadingShape, NamesRight
  <1>5. HistoryBounds'
    BY <1>1, <1>2 DEF OffersInv, HistoryBounds
  <1>6. Loaded(c)' /\ UpToRevision(c)' /\ Offers(c)'
    BY <1>1, <1>2 DEF Loaded, Offers
  <1>7. CatalogueRight'
    BY <1>1, <1>6 DEF CatalogueRight, Loaded, UpToRevision, Offers
  <1>8. LoadedRight'
    <2>1. UpToRevision(loaded)'
      BY <1>1, <1>2 DEF OffersInv, LoadedRight, UpToRevision
    <2> QED
      BY <1>1, <2>1 DEF OffersInv, LoadedRight, Loaded
  <1> QED
    BY <1>3, <1>4, <1>5, <1>7, <1>8 DEF OffersInv

\* Before the names or the documents are read: all but the turn stays.
LEMMA ReadingKeeps ==
  ASSUME UserSkillConstants, OffersInv, turn.stage # "idle",
         turn'.stage \in {"names", "documents"}, turn'.actor = turn.actor,
         UNCHANGED <<database, loaded, history>>, ReadingShape', NamesRight'
  PROVE  OffersInv'
  <1>1. loaded' = loaded /\ everPublished' = everPublished /\ alwaysPublished' = alwaysPublished
    BY DEF history
  <1>2. /\ skill' = skill /\ revision' = revision
        /\ \A o : Published(skill', o) = Published(skill, o)
    BY TablesStay
  <1>3. SkillTyped' /\ HistoryBounds'
    BY <1>1, <1>2 DEF OffersInv, SkillTyped, HistoryBounds
  <1>4. UpToRevision(loaded)'
    BY <1>1, <1>2 DEF OffersInv, LoadedRight, UpToRevision
  <1>5. CatalogueRight' /\ LoadedRight'
    BY <1>1, <1>4 DEF OffersInv, LoadedRight, Loaded, CatalogueRight
  <1> QED
    BY <1>3, <1>5 DEF OffersInv

LEMMA ReadRevisionKeeps ==
  ASSUME UserSkillConstants, OffersInv, ReadRevision PROVE OffersInv'
  <1>1. turn.stage = "revision" /\ turn.actor \in Owners /\ UNCHANGED <<database, loaded, history>>
    BY DEF ReadRevision, OffersInv, SkillTyped
  <1>2. CASE loaded.revision = revision[turn.actor] /\ loaded.scope = turn.actor
    <2>1. Resolving(loaded)
      BY <1>2 DEF ReadRevision
    <2>2. Loaded(loaded) /\ UpToRevision(loaded) /\ loaded.documents = Published(skill, turn.actor)
      BY <1>1, <1>2 DEF OffersInv, LoadedRight, UpToRevision, UserSkillConstants
    <2>3. Offers(loaded)
      BY <1>1, <2>2 DEF OffersInv, HistoryBounds, Offers
    <2>4. PICK c : c = loaded
      OBVIOUS
    <2> QED
      BY <1>1, <2>1, <2>2, <2>3, <2>4, ResolvingKeeps
  <1>3. CASE ~ (loaded.revision = revision[turn.actor] /\ loaded.scope = turn.actor)
    <2>1. turn' = [stage |-> "names", actor |-> turn.actor, selected |-> turn.selected,
                   revision |-> revision[turn.actor]]
      BY <1>3 DEF ReadRevision
    <2>2. /\ turn'.stage = "names" /\ turn'.actor = turn.actor
          /\ turn'.revision = revision[turn.actor] /\ revision' = revision
      BY <1>1, <2>1, TablesStay
    <2>3. revision[turn.actor] \in Nat
      BY <1>1 DEF OffersInv, SkillTyped
    <2>4. ReadingShape' /\ NamesRight'
      BY <2>2, <2>3 DEF ReadingShape, NamesRight
    <2> QED
      BY <1>1, <2>2, <2>4, ReadingKeeps
  <1> QED
    BY <1>2, <1>3

LEMMA ReadNamesKeeps ==
  ASSUME UserSkillConstants, OffersInv, ReadNames PROVE OffersInv'
  <1>1. /\ turn.stage = "names" /\ turn.actor \in Owners
        /\ turn' = [stage |-> "documents", actor |-> turn.actor, selected |-> turn.selected,
                    revision |-> turn.revision,
                    names |-> {d[1] : d \in Published(skill, turn.actor)}]
        /\ UNCHANGED <<database, loaded, history>>
    BY DEF ReadNames, OffersInv, SkillTyped
  <1>2. /\ turn'.stage = "documents" /\ turn'.actor = turn.actor /\ turn'.revision = turn.revision
        /\ turn'.names = NamesOf(Published(skill, turn.actor))
    BY <1>1 DEF NamesOf
  <1>3. /\ revision' = revision /\ alwaysPublished' = alwaysPublished
        /\ Published(skill', turn.actor) = Published(skill, turn.actor)
    BY <1>1, TablesStay DEF history
  <1>4. ReadingShape'
    BY <1>1, <1>2, <1>3 DEF OffersInv, ReadingShape
  <1>5. alwaysPublished \subseteq Published(skill, turn.actor)
    BY <1>1 DEF OffersInv, HistoryBounds
  <1>6. NamesOf(alwaysPublished) \subseteq NamesOf(Published(skill, turn.actor))
    BY <1>5 DEF NamesOf
  <1>7. NamesRight'
    BY <1>2, <1>3, <1>6 DEF NamesRight, NamesOf
  <1> QED
    BY <1>1, <1>2, <1>4, <1>7, ReadingKeeps

LEMMA ReadDocumentsKeeps ==
  ASSUME UserSkillConstants, OffersInv, ReadDocuments PROVE OffersInv'
  <1> DEFINE P == Published(skill, turn.actor)
             docs == {d \in P : d[1] \in turn.names}
  <1>1. /\ turn.stage = "documents" /\ turn.actor \in Owners
        /\ UNCHANGED <<database, loaded, history>>
        /\ turn.revision \in Nat /\ turn.revision <= revision[turn.actor]
        /\ NamesOf(alwaysPublished) \subseteq turn.names
        /\ turn.revision = revision[turn.actor] => turn.names = NamesOf(P)
        /\ alwaysPublished \subseteq P /\ P \subseteq everPublished
    BY DEF ReadDocuments, OffersInv, SkillTyped, ReadingShape, NamesRight, HistoryBounds
  <1>2. PICK c : c = [revision |-> turn.revision, scope |-> turn.actor, documents |-> docs]
    OBVIOUS
  <1>3. Resolving(c)
    BY <1>2 DEF ReadDocuments
  <1>4. c.revision = turn.revision /\ c.scope = turn.actor /\ c.documents = docs
    BY <1>2
  <1>5. docs \subseteq everPublished /\ alwaysPublished \subseteq docs
    BY <1>1 DEF NamesOf
  <1>6. turn.names = NamesOf(P) => docs = P
    BY DEF NamesOf
  <1>7. Loaded(c) /\ UpToRevision(c) /\ Offers(c)
    BY <1>1, <1>4, <1>5, <1>6 DEF Loaded, UpToRevision, Offers
  <1> QED
    BY <1>1, <1>3, <1>7, ResolvingKeeps

LEMMA FailKeeps ==
  ASSUME UserSkillConstants, OffersInv, Fail PROVE OffersInv'
  <1>1. /\ turn.stage # "idle" /\ Resolving(Failed) /\ UNCHANGED <<database, loaded, history>>
    BY DEF Fail
  <1>2. Loaded(Failed) /\ UpToRevision(Failed) /\ Offers(Failed)
    BY DEF Loaded, UpToRevision, Offers, Failed
  <1> QED
    BY <1>1, <1>2, ResolvingKeeps

LEMMA ResolveKeeps ==
  ASSUME UserSkillConstants, OffersInv, Resolve PROVE OffersInv'
  <1>1. PICK c : c = turn.catalogue
    OBVIOUS
  <1>2. /\ turn.stage = "resolve" /\ loaded' = c /\ UNCHANGED <<database, history>>
        /\ turn' = [stage |-> "run", actor |-> turn.actor, selected |-> turn.selected]
    BY <1>1 DEF Resolve
  <1>3. turn'.stage = "run" /\ turn'.actor = turn.actor /\ turn.stage # "idle"
        /\ everPublished' = everPublished /\ alwaysPublished' = alwaysPublished
    BY <1>2 DEF history
  <1>4. /\ skill' = skill /\ revision' = revision
        /\ \A o : Published(skill', o) = Published(skill, o)
        /\ \A d : UpToRevision(d)' <=> UpToRevision(d)
    BY <1>2, TablesStay
  <1>5. Loaded(c) /\ UpToRevision(c) /\ Offers(c)
    BY <1>1, <1>2 DEF OffersInv, CatalogueRight
  <1>6. UpToRevision(c)' /\ Offers(c)'
    BY <1>3, <1>4, <1>5 DEF Offers
  <1>7. LoadedRight'
    BY <1>2, <1>5, <1>6 DEF LoadedRight, Loaded, UpToRevision, Offers
  <1>8. SkillTyped' /\ HistoryBounds'
    BY <1>3, <1>4 DEF OffersInv, SkillTyped, HistoryBounds
  <1>9. ReadingShape' /\ NamesRight' /\ CatalogueRight'
    BY <1>3 DEF ReadingShape, NamesRight, CatalogueRight
  <1> QED
    BY <1>7, <1>8, <1>9 DEF OffersInv

\* The turn ends, or the next begins: it has read nothing yet.
LEMMA TurnKeeps ==
  ASSUME UserSkillConstants, OffersInv,
         Refuse \/ End \/ \E o \in Owners, selected \in Selections : Begin(o, selected)
  PROVE  OffersInv'
  <1>1. loaded' = loaded /\ UNCHANGED database
    BY DEF Refuse, End, Begin
  <1>2. /\ skill' = skill /\ revision' = revision
        /\ \A o : Published(skill', o) = Published(skill, o)
    BY <1>1, TablesStay
  <1>3. \/ turn'.stage = "idle"
        \/ /\ turn'.stage = "revision" /\ turn'.actor \in Owners
           /\ everPublished' = Published(skill, turn'.actor)
           /\ alwaysPublished' = Published(skill, turn'.actor)
    BY DEF Refuse, End, Begin, NotChanging
  <1>4. SkillTyped' /\ HistoryBounds'
    BY <1>2, <1>3 DEF OffersInv, SkillTyped, HistoryBounds
  <1>5. ReadingShape' /\ NamesRight' /\ CatalogueRight'
    BY <1>3 DEF ReadingShape, NamesRight, CatalogueRight
  <1>6. UpToRevision(loaded)'
    BY <1>1, <1>2 DEF OffersInv, LoadedRight, UpToRevision
  <1>7. LoadedRight'
    BY <1>1, <1>3, <1>6 DEF OffersInv, LoadedRight, Loaded
  <1> QED
    BY <1>4, <1>5, <1>7 DEF OffersInv
-----------------------------------------------------------------------------
LEMMA OffersBegin == ASSUME UserSkillConstants, SkillInit PROVE OffersInv
  <1>1. SkillTyped
    BY DEF SkillInit, SkillTyped, SkillRows, NotChanging, NoSkill
  <1>2. turn.stage = "idle" /\ loaded = Failed
    BY DEF SkillInit, NotChanging
  <1>3. LoadedRight
    BY <1>2 DEF LoadedRight, Loaded, UpToRevision, Failed
  <1> QED
    BY <1>1, <1>2, <1>3
    DEF OffersInv, ReadingShape, NamesRight, HistoryBounds, CatalogueRight

LEMMA OffersStep ==
  ASSUME UserSkillConstants, OffersInv, [SkillNext]_skillVars PROVE OffersInv'
  <1>1. CASE SkillNext
    BY <1>1, EditKeeps, ReadRevisionKeeps, ReadNamesKeeps, ReadDocumentsKeeps, FailKeeps,
       ResolveKeeps, TurnKeeps DEF SkillNext, Serve
  <1>2. CASE UNCHANGED skillVars
    BY <1>2 DEF skillVars, database, history, OffersInv, SkillTyped, ReadingShape, NamesRight,
                HistoryBounds, CatalogueRight, LoadedRight, Loaded, UpToRevision, Offers
  <1> QED
    BY <1>1, <1>2

LEMMA OffersEnd == ASSUME UserSkillConstants, OffersInv PROVE OffersCurrent
  BY DEF OffersInv, LoadedRight, UpToRevision, Offers, OffersCurrent, CatalogCurrent, TurnCatalog

\* Whatever users edit between and during the reads of a turn, in a thread users share, a
\* catalogue that names its user's present revision holds exactly what is published, and the
\* model is offered only what its user had published during the turn, and (if loading
\* succeeded) all that was throughout (RevisionAwareSkillsMiddleware).
THEOREM OffersAreCurrent == SkillSpec => []OffersCurrent
  <1>1. SkillInit => OffersInv
    BY UserSkillConstants, OffersBegin
  <1>2. OffersInv /\ [SkillNext]_skillVars => OffersInv'
    BY UserSkillConstants, OffersStep
  <1>3. OffersInv => OffersCurrent
    BY UserSkillConstants, OffersEnd
  <1> QED
    BY <1>1, <1>2, <1>3, PTL DEF SkillSpec
-----------------------------------------------------------------------------
\* The trail of a skill: its row is what the events yield one by one, from no row, and the
\* catalogue revision is the number of those that count.
Events == {"created", "version_created", "enabled", "published", "rolled_back", "disabled", "archived"}
AuditEvent == [event : Events, version : Nat]
Replays(r, trail) ==
  r = [i \in 0..Len(trail) |-> IF i = 0 THEN NoSkill ELSE AfterEvent(r[i - 1], trail[i])]
Explained(s) == \E r : Replays(r, audit[s]) /\ r[Len(audit[s])] = skill[s]
AuditInv ==
  /\ SkillTyped /\ audit \in [Skills -> Seq(AuditEvent)]
  /\ \A s \in Skills : /\ Explained(s)
                       /\ skill[s].status = "absent" => skill[s] = NoSkill
  /\ \A o \in Owners : IsFiniteSet(Counting(o)) /\ revision[o] = Cardinality(Counting(o))
-----------------------------------------------------------------------------
\* There is one way to replay a trail.
LEMMA ReplaysOnce ==
  ASSUME NEW trail, Len(trail) \in Nat, NEW r, Replays(r, trail), NEW q, Replays(q, trail)
  PROVE  \A i \in 0..Len(trail) : r[i] = q[i]
  <1> DEFINE Less == {ss \in Nat \X Nat : ss[1] < ss[2]}
             Bad == {i \in 0..Len(trail) : r[i] # q[i]}
  <1>1. IsWellFoundedOn(Less, Nat)
    BY NatLessThanWellFounded DEF OpToRel
  <1>2. Bad \in SUBSET Nat
    OBVIOUS
  <1>r. \A i \in 0..Len(trail) :
          /\ r[i] = IF i = 0 THEN NoSkill ELSE AfterEvent(r[i - 1], trail[i])
          /\ q[i] = IF i = 0 THEN NoSkill ELSE AfterEvent(q[i - 1], trail[i])
    BY Zenon DEF Replays
  <1>3. SUFFICES ASSUME Bad # {} PROVE FALSE
    OBVIOUS
  <1>l. \A i, j \in Nat : j < i => <<j, i>> \in Less
    OBVIOUS
  <1> HIDE DEF Less
  <1>4. PICK i \in Bad : \A j \in Bad : ~(<<j, i>> \in Less)
    BY <1>1, <1>2, <1>3, WFMin
  <1>5. i \in 0..Len(trail) /\ r[i] # q[i] /\ i # 0
    BY <1>r, <1>4
  <1>6. i - 1 \in 0..Len(trail) /\ i - 1 < i /\ i \in Nat /\ i - 1 \in Nat
    BY <1>5
  <1>7. i - 1 \notin Bad
    BY <1>4, <1>6, <1>l
  <1>8. r[i - 1] = q[i - 1]
    BY <1>6, <1>7
  <1> QED
    BY <1>r, <1>5, <1>8

LEMMA ReplayIs ==
  ASSUME NEW trail, Len(trail) \in Nat, NEW r, Replays(r, trail)
  PROVE  Replay(trail) = r[Len(trail)]
  <1> DEFINE q == CHOOSE f : f = [i \in 0..Len(trail) |->
                    IF i = 0 THEN NoSkill ELSE AfterEvent(f[i - 1], trail[i])]
  <1>1. Replay(trail) = q[Len(trail)]
    BY Zenon DEF Replay
  <1>2. q = [i \in 0..Len(trail) |-> IF i = 0 THEN NoSkill ELSE AfterEvent(q[i - 1], trail[i])]
    <2>1. \E f : f = [i \in 0..Len(trail) |->
                    IF i = 0 THEN NoSkill ELSE AfterEvent(f[i - 1], trail[i])]
      BY Zenon DEF Replays
    <2> QED
      BY <2>1, Zenon
  <1> HIDE DEF q
  <1>3. Replays(q, trail)
    BY <1>2, Zenon DEF Replays
  <1>4. r[Len(trail)] = q[Len(trail)]
    BY <1>3, ReplaysOnce
  <1> QED
    BY <1>1, <1>4

LEMMA ReplayGoesOn ==
  ASSUME NEW trail \in Seq(AuditEvent), NEW e \in AuditEvent, NEW r, Replays(r, trail)
  PROVE  \E q : /\ Replays(q, Append(trail, e))
                /\ q[Len(Append(trail, e))] = AfterEvent(r[Len(trail)], e)
  <1> DEFINE n == Len(trail)
             t == Append(trail, e)
             q == [i \in 0..(n + 1) |-> IF i = n + 1 THEN AfterEvent(r[n], e) ELSE r[i]]
  <1>1. n \in Nat /\ Len(t) = n + 1 /\ t[n + 1] = e /\ \A i \in 1..n : t[i] = trail[i]
    OBVIOUS
  <1>2. \A i \in 0..n : r[i] = IF i = 0 THEN NoSkill ELSE AfterEvent(r[i - 1], trail[i])
    BY Zenon DEF Replays
  <1> HIDE DEF t, n
  <1>3. \A i \in 0..(n + 1) : q[i] = IF i = 0 THEN NoSkill ELSE AfterEvent(q[i - 1], t[i])
    <2> SUFFICES ASSUME NEW i \in 0..(n + 1)
                 PROVE  q[i] = IF i = 0 THEN NoSkill ELSE AfterEvent(q[i - 1], t[i])
      OBVIOUS
    <2>1. CASE i = 0
      BY <2>1, <1>1, <1>2
    <2>2. CASE i \in 1..n
      <3>1. /\ i - 1 \in 0..(n + 1) /\ i - 1 # n + 1 /\ i # n + 1 /\ i # 0
            /\ i \in 0..n /\ i \in 0..(n + 1)
        BY <2>2, <1>1
      <3>2. q[i] = r[i] /\ q[i - 1] = r[i - 1] /\ t[i] = trail[i]
        BY <3>1, <2>2, <1>1
      <3> HIDE DEF q
      <3> QED
        BY <3>1, <3>2, <1>2
    <2>3. CASE i = n + 1
      <3>1. i - 1 = n /\ n \in 0..(n + 1) /\ n # n + 1 /\ i # 0
        BY <2>3, <1>1
      <3>2. q[i] = AfterEvent(r[n], e) /\ q[n] = r[n]
        BY <2>3, <3>1
      <3> HIDE DEF q
      <3> QED
        BY <3>1, <3>2, <2>3, <1>1
    <2> QED
      BY <2>1, <2>2, <2>3, <1>1
  <1>4. q = [i \in 0..(n + 1) |-> IF i = 0 THEN NoSkill ELSE AfterEvent(q[i - 1], t[i])]
    BY <1>3
  <1>5. Replays(q, t)
    BY <1>1, <1>4, Zenon DEF Replays
  <1>6. q[n + 1] = AfterEvent(r[n], e)
    BY <1>1
  <1> HIDE DEF q
  <1> QED
    BY <1>1, <1>5, <1>6 DEF t, n
-----------------------------------------------------------------------------
\* An operation writes what its event says, and counts unless it drafts.
Recording(s, new, e) ==
  /\ skill' = [skill EXCEPT ![s] = new] /\ audit' = [audit EXCEPT ![s] = Append(@, e)]
  /\ new = AfterEvent(skill[s], e) /\ new.status # "absent"
  /\ IF e.event \in {"created", "version_created"} THEN UNCHANGED revision ELSE Bump(s)

LEMMA EditRecords ==
  ASSUME UserSkillConstants, AuditInv, EditSkill
  PROVE  \E s \in Skills, new \in SkillRows, e \in AuditEvent : Recording(s, new, e)
  <1>1. PICK s \in Skills :
          \/ Create(s)
          \/ \E v \in Versions : AppendVersion(s, v) \/ PublishVersion(s, v) \/ Rollback(s, v)
          \/ ChangeStatus(s, "disabled") \/ ChangeStatus(s, "archived")
    BY DEF EditSkill
  <1>2. skill[s] \in SkillRows /\ (skill[s].status = "absent" => skill[s] = NoSkill)
    BY DEF AuditInv, SkillTyped
  <1>v. Versions \subseteq Nat
    BY DEF Versions, UserSkillConstants
  <1>3. ASSUME NEW new \in SkillRows, NEW event \in Events, NEW version \in Nat,
               Write(s, new, event, version),
               new = AfterEvent(skill[s], [event |-> event, version |-> version]),
               new.status # "absent",
               IF event \in {"created", "version_created"} THEN UNCHANGED revision ELSE Bump(s)
        PROVE  \E n \in SkillRows, e \in AuditEvent : Recording(s, n, e)
    <2>1. PICK e : e = [event |-> event, version |-> version]
      OBVIOUS
    <2>2. e \in AuditEvent /\ e.event = event
      BY <2>1 DEF AuditEvent
    <2>3. Recording(s, new, e)
      BY <1>3, <2>1, <2>2 DEF Recording, Write
    <2> QED
      BY <2>2, <2>3
  <1>4. CASE Create(s)
    <2> DEFINE new == [status |-> "draft", published |-> 0, latest |-> 1]
    <2>1. Write(s, new, "created", 1) /\ UNCHANGED revision /\ skill[s] = NoSkill
      BY <1>2, <1>4 DEF Create
    <2>2. new \in SkillRows /\ new.status # "absent"
      BY DEF SkillRows
    <2>3. new = AfterEvent(NoSkill, [event |-> "created", version |-> 1])
      BY DEF AfterEvent, NoSkill
    <2> HIDE DEF new
    <2> QED
      BY <1>3, <2>1, <2>2, <2>3 DEF Events
  <1>5. ASSUME NEW v \in Versions, AppendVersion(s, v)
        PROVE  \E n \in SkillRows, e \in AuditEvent : Recording(s, n, e)
    <2> DEFINE new == [skill[s] EXCEPT !.latest = v + 1]
    <2>1. Write(s, new, "version_created", v + 1) /\ UNCHANGED revision /\ skill[s].status # "absent"
      BY <1>5 DEF AppendVersion
    <2>2. new \in SkillRows /\ new.status # "absent" /\ v + 1 \in Nat
      BY <1>2, <1>v, <2>1 DEF SkillRows
    <2>3. new = AfterEvent(skill[s], [event |-> "version_created", version |-> v + 1])
      BY DEF AfterEvent
    <2> HIDE DEF new
    <2> QED
      BY <1>3, <2>1, <2>2, <2>3 DEF Events
  <1>6. ASSUME NEW v \in Versions, PublishVersion(s, v)
        PROVE  \E n \in SkillRows, e \in AuditEvent : Recording(s, n, e)
    <2> DEFINE new == [skill[s] EXCEPT !.status = "published", !.published = v]
    <2>1. PICK event \in {"enabled", "published"} : Write(s, new, event, v) /\ Bump(s)
      BY <1>6 DEF PublishVersion
    <2>2. new \in SkillRows /\ new.status # "absent" /\ v \in Nat
      BY <1>2, <1>v DEF SkillRows
    <2>3. new = AfterEvent(skill[s], [event |-> event, version |-> v])
      BY DEF AfterEvent
    <2> HIDE DEF new
    <2> QED
      BY <1>3, <2>1, <2>2, <2>3 DEF Events
  <1>7. ASSUME NEW v \in Versions, Rollback(s, v)
        PROVE  \E n \in SkillRows, e \in AuditEvent : Recording(s, n, e)
    <2> DEFINE new == [skill[s] EXCEPT !.published = v]
    <2>1. /\ Write(s, new, "rolled_back", v) /\ Bump(s)
          /\ skill[s].status \in {"published", "disabled"}
      BY <1>7 DEF Rollback
    <2>2. new \in SkillRows /\ new.status # "absent" /\ v \in Nat
      BY <1>2, <1>v, <2>1 DEF SkillRows
    <2>3. new = AfterEvent(skill[s], [event |-> "rolled_back", version |-> v])
      BY DEF AfterEvent
    <2> HIDE DEF new
    <2> QED
      BY <1>3, <2>1, <2>2, <2>3 DEF Events
  <1>8. ASSUME NEW target \in {"disabled", "archived"}, ChangeStatus(s, target)
        PROVE  \E n \in SkillRows, e \in AuditEvent : Recording(s, n, e)
    <2> DEFINE new == [skill[s] EXCEPT !.status = target]
    <2>1. PICK version \in Nat : Write(s, new, target, version) /\ Bump(s)
      BY <1>2, <1>8 DEF ChangeStatus, SkillRows
    <2>2. new \in SkillRows /\ new.status # "absent"
      BY <1>2 DEF SkillRows
    <2>3. new = AfterEvent(skill[s], [event |-> target, version |-> version])
      BY DEF AfterEvent
    <2> HIDE DEF new
    <2> QED
      BY <1>3, <2>1, <2>2, <2>3 DEF Events
  <1> QED
    BY <1>1, <1>4, <1>5, <1>6, <1>7, <1>8

LEMMA AuditKeeps ==
  ASSUME UserSkillConstants, AuditInv, NEW s \in Skills, NEW new \in SkillRows,
         NEW e \in AuditEvent, Recording(s, new, e), SkillTyped'
  PROVE  AuditInv'
  <1>1. /\ skill'[s] = new /\ audit'[s] = Append(audit[s], e)
        /\ \A z \in Skills \ {s} : skill'[z] = skill[z] /\ audit'[z] = audit[z]
        /\ audit[s] \in Seq(AuditEvent) /\ audit' \in [Skills -> Seq(AuditEvent)]
    BY DEF Recording, AuditInv, SkillTyped
  <1>2. \A z \in Skills : Explained(z)'
    <2>1. Explained(s)'
      <3>1. PICK r : Replays(r, audit[s]) /\ r[Len(audit[s])] = skill[s]
        BY DEF AuditInv, Explained
      <3>2. PICK q : /\ Replays(q, Append(audit[s], e))
                     /\ q[Len(Append(audit[s], e))] = AfterEvent(skill[s], e)
        <4>1. \E q : /\ Replays(q, Append(audit[s], e))
                     /\ q[Len(Append(audit[s], e))] = AfterEvent(r[Len(audit[s])], e)
          BY <1>1, <3>1, ReplayGoesOn
        <4> QED
          BY <3>1, <4>1, Zenon
      <3>3. Replays(q, audit'[s]) /\ q[Len(audit'[s])] = skill'[s]
        BY <1>1, <3>2 DEF Recording
      <3> QED
        BY <3>3 DEF Explained
    <2>2. ASSUME NEW z \in Skills \ {s} PROVE Explained(z)'
      BY <1>1 DEF AuditInv, Explained
    <2> QED
      BY <2>1, <2>2
  <1>3. \A z \in Skills : skill'[z].status = "absent" => skill'[z] = NoSkill
    BY <1>1 DEF AuditInv, Recording
  <1>4. \A o \in Owners : IsFiniteSet(Counting(o)') /\ revision'[o] = Cardinality(Counting(o)')
    <2> DEFINE at == <<s, Len(audit[s]) + 1>>
    <2>1. /\ Len(audit[s]) \in Nat /\ DOMAIN audit[s] = 1..Len(audit[s])
          /\ DOMAIN audit'[s] = DOMAIN audit[s] \cup {Len(audit[s]) + 1}
          /\ Len(audit[s]) + 1 \notin DOMAIN audit[s]
          /\ audit'[s][Len(audit[s]) + 1] = e
          /\ \A i \in DOMAIN audit[s] : audit'[s][i] = audit[s][i]
      BY <1>1
    <2>2. Audited' = Audited \cup {at} /\ at \notin Audited
      <3>1. \A x : x \in Audited <=> \E z \in Skills : \E i \in DOMAIN audit[z] : x = <<z, i>>
        BY DEF Audited
      <3>2. \A x : x \in Audited' <=> \E z \in Skills : \E i \in DOMAIN audit'[z] : x = <<z, i>>
        BY DEF Audited
      <3>3. \A z \in Skills : DOMAIN audit[z] \subseteq DOMAIN audit'[z]
        BY <1>1, <2>1
      <3>4. \A x : x \in Audited' => x \in Audited \/ x = at
        BY <1>1, <2>1, <3>1, <3>2
      <3>5. at \in Audited' /\ at \notin Audited
        BY <2>1, <3>1, <3>2
      <3> QED
        BY <3>1, <3>2, <3>3, <3>4, <3>5
    <2>3. \A x \in Audited : audit'[x[1]][x[2]] = audit[x[1]][x[2]]
      <3>1. \A x \in Audited : \E z \in Skills : \E i \in DOMAIN audit[z] : x = <<z, i>>
        BY DEF Audited
      <3>2. \A z \in Skills : \A i \in DOMAIN audit[z] : audit'[z][i] = audit[z][i]
        BY <1>1, <2>1
      <3>3. SUFFICES ASSUME NEW x \in Audited PROVE audit'[x[1]][x[2]] = audit[x[1]][x[2]]
        OBVIOUS
      <3>4. PICK z \in Skills : \E i \in DOMAIN audit[z] : x = <<z, i>>
        BY <3>1
      <3>5. PICK i \in DOMAIN audit[z] : x = <<z, i>>
        BY <3>4
      <3> QED
        BY <3>2, <3>5
    <2>4. at[1] = s /\ audit'[at[1]][at[2]] = e
      BY <2>1
    <2>a. PICK k : k = at
      OBVIOUS
    <2>5. ASSUME NEW o \in Owners
          PROVE  Counting(o)' = IF OwnerOf[s] = o /\ e.event \notin {"created", "version_created"}
                                THEN Counting(o) \cup {k} ELSE Counting(o)
      <3> HIDE DEF at
      <3>1. /\ Audited' = Audited \cup {k} /\ k \notin Audited
            /\ k[1] = s /\ audit'[k[1]][k[2]] = e
        BY <2>2, <2>4, <2>a
      <3> QED
        BY <3>1, <2>3 DEF Counting
    <2>6. \A o \in Owners : k \notin Counting(o)
      BY <2>2, <2>a DEF Counting
    <2>7. revision \in [Owners -> Nat] /\ OwnerOf[s] \in Owners
      BY DEF AuditInv, SkillTyped, UserSkillConstants
    <2>8. SUFFICES ASSUME NEW o \in Owners
                   PROVE  IsFiniteSet(Counting(o)') /\ revision'[o] = Cardinality(Counting(o)')
      OBVIOUS
    <2>9. IsFiniteSet(Counting(o)) /\ revision[o] = Cardinality(Counting(o))
      BY DEF AuditInv
    <2>10. CASE OwnerOf[s] = o /\ e.event \notin {"created", "version_created"}
      <3>1. revision'[o] = revision[o] + 1
        BY <2>7, <2>10 DEF Recording, Bump
      <3>2. IsFiniteSet(Counting(o) \cup {k}) /\ Cardinality(Counting(o) \cup {k}) = Cardinality(Counting(o)) + 1
        BY <2>6, <2>9, FS_AddElement
      <3>3. Counting(o)' = Counting(o) \cup {k}
        BY <2>5, <2>10
      <3> QED
        BY <2>9, <3>1, <3>2, <3>3
    <2>11. CASE ~ (OwnerOf[s] = o /\ e.event \notin {"created", "version_created"})
      <3>1. revision'[o] = revision[o]
        BY <2>7, <2>11 DEF Recording, Bump
      <3>2. Counting(o)' = Counting(o)
        BY <2>5, <2>11
      <3> QED
        BY <2>9, <3>1, <3>2
    <2> QED
      BY <2>10, <2>11
  <1> QED
    BY <1>1, <1>2, <1>3, <1>4 DEF AuditInv

LEMMA AuditStep ==
  ASSUME UserSkillConstants, AuditInv, SkillTyped', [SkillNext]_skillVars
  PROVE  AuditInv'
  <1>1. CASE EditSkill
    <2>1. PICK s \in Skills, new \in SkillRows, e \in AuditEvent : Recording(s, new, e)
      BY <1>1, EditRecords
    <2> QED
      BY <2>1, AuditKeeps
  <1>2. CASE UNCHANGED database
    <2>1. skill' = skill /\ audit' = audit /\ revision' = revision
      BY <1>2 DEF database
    <2>2. \A s \in Skills : Explained(s) <=> Explained(s)'
      BY <2>1 DEF Explained
    <2>3. \A o \in Owners : Counting(o)' = Counting(o)
      <3>1. Audited' = Audited
        BY <2>1, Zenon DEF Audited
      <3> QED
        BY <2>1, <3>1 DEF Counting
    <2> QED
      BY <2>1, <2>2, <2>3 DEF AuditInv
  <1>3. EditSkill \/ UNCHANGED database
    BY DEF SkillNext, Serve, ReadRevision, ReadNames, ReadDocuments, Resolve, Refuse, End, Fail,
           Begin, skillVars
  <1> QED
    BY <1>1, <1>2, <1>3

LEMMA AuditBegin == ASSUME UserSkillConstants, SkillInit PROVE AuditInv
  <1>1. /\ SkillTyped
        /\ \A s \in Skills : audit[s] = <<>> /\ skill[s] = NoSkill
        /\ audit \in [Skills -> Seq(AuditEvent)] /\ \A o \in Owners : revision[o] = 0
    BY DEF SkillInit, SkillTyped, SkillRows, NotChanging, NoSkill
  <1>2. ASSUME NEW s \in Skills PROVE Explained(s)
    <2> DEFINE r == [i \in 0..0 |-> NoSkill]
    <2>1. r[0] = NoSkill /\ r = [i \in 0..0 |->
            IF i = 0 THEN NoSkill ELSE AfterEvent(r[i - 1], <<>>[i])]
      OBVIOUS
    <2>2. Len(<<>>) = 0
      OBVIOUS
    <2> HIDE DEF r
    <2>3. Replays(r, <<>>) /\ r[Len(<<>>)] = NoSkill
      BY <2>1, <2>2 DEF Replays
    <2> QED
      BY <1>1, <2>3 DEF Explained
  <1>3. \A o \in Owners : Counting(o) = {}
    BY <1>1 DEF Counting, Audited
  <1> QED
    BY <1>1, <1>2, <1>3, FS_EmptySet DEF AuditInv

LEMMA AuditEnds == ASSUME AuditInv PROVE AuditExplains
  <1>1. ASSUME NEW s \in Skills PROVE skill[s] = Replay(audit[s])
    <2>1. PICK r : Replays(r, audit[s]) /\ r[Len(audit[s])] = skill[s]
      BY DEF AuditInv, Explained
    <2>2. Len(audit[s]) \in Nat
      BY DEF AuditInv
    <2> QED
      BY <2>1, <2>2, ReplayIs
  <1> QED
    BY <1>1 DEF AuditInv, AuditExplains

\* Replayed in order, the append-only trail of a skill yields the row there is, and the
\* catalogue revision of an owner counts the events that are not drafts
\* (UserSkillRepository, whose operations write the row, the event and the revision together).
THEOREM TrailExplains == SkillSpec => []AuditExplains
  <1>1. SkillInit => OffersInv /\ AuditInv
    BY UserSkillConstants, OffersBegin, AuditBegin
  <1>2. OffersInv /\ AuditInv /\ [SkillNext]_skillVars => OffersInv' /\ AuditInv'
    <2>1. OffersInv /\ [SkillNext]_skillVars => OffersInv' /\ SkillTyped'
      BY UserSkillConstants, OffersStep DEF OffersInv
    <2> QED
      BY <2>1, UserSkillConstants, AuditStep
  <1>3. AuditInv => AuditExplains
    BY AuditEnds
  <1> QED
    BY <1>1, <1>2, <1>3, PTL DEF SkillSpec
===============================================================================
