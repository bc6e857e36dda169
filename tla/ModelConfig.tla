----------------------------- MODULE ModelConfig -----------------------------
(***************************************************************************)
(* The configuration centre and the model pool built from it: config_center *)
(* .py, internal_config_post, ModelRegistry and ModelHealthProbe, all in    *)
(* one process.  A POST runs on the event loop and leaves it at its two     *)
(* awaits, so the stretches between them are the actions; pools are built   *)
(* on threads.                                                              *)
(*                                                                          *)
(* A configuration maps the keys saved so far to values.  The keys are what *)
(* the code tells apart: the gateway (URL and key), the whitelist of models *)
(* and the settings no pool depends on.                                     *)
(***************************************************************************)
EXTENDS Naturals, Sequences

CONSTANTS
  Admins,       \* concurrent POST /internal/config requests
  Probe,        \* the thread of model_health.probe_once
  Scheduler,    \* the thread that calls runtime_embedding_snapshot
  Gateways, NoGateway,
  Models,
  Whitelists,   \* the LLM_QUALITY_MODELS values admins choose from
  Settings,     \* values of the other editable keys
  Starts,       \* the environments a deployment starts from
  Offers,       \* the changes admins post
  Serves,       \* Serves[g]: the models gateway g lists
  MaxSaves,     \* bound on saved versions
  MaxOutages,   \* bound on a gateway going down
  MaxRestarts   \* bound on process restarts

ASSUME ConfigConstants ==
  /\ Probe \notin Admins /\ Scheduler \notin Admins /\ Probe # Scheduler
  /\ NoGateway \notin Gateways
  /\ Whitelists \subseteq SUBSET Models /\ {} \in Whitelists
  /\ Serves \in [Gateways -> SUBSET Models]
  /\ MaxSaves \in Nat \ {0} /\ MaxOutages \in Nat /\ MaxRestarts \in Nat

VARIABLES
  history,   \* saved configurations, oldest first; the last one is current
  lastSet,   \* the value last saved for each key, and whether an administrator posted it
             \* (history variable)
  environ,   \* the editable keys in os.environ
  cache,     \* _DISCOVER_CACHE: what each probed gateway listed
  down,      \* gateways out of reach
  verified,  \* configurations a POST has built a pool from (history variable)
  registry,  \* version (index in history, 0 for none) and pool being served
  job,       \* each thread or request: stage and what it holds
  outages, restarts

vars == <<history, lastSet, environ, cache, down, verified, registry, job, outages, restarts>>

Threads  == Admins \cup {Probe, Scheduler}
Keys     == {"gateway", "models", "settings"}
PoolKeys == {"gateway", "models"}   \* _MODEL_POOL_KEYS
Full     == [gateway : Gateways \cup {NoGateway}, models : Whitelists, settings : Settings]
Configs  == {[k \in K |-> c[k]] : K \in SUBSET Keys, c \in Full}
Empty    == [k \in {} |-> k]

ASSUME ConfigOffers == Offers \subseteq Configs

\* The keys of u replace those of c, the others of c stay.
Onto(u, c) == [k \in DOMAIN u \cup DOMAIN c |-> IF k \in DOMAIN u THEN u[k] ELSE c[k]]

Current == IF history = <<>> THEN Empty ELSE history[Len(history)]

Gateway(c) == IF "gateway" \in DOMAIN c THEN c.gateway ELSE NoGateway
ModelsOf(c) == IF "models" \in DOMAIN c THEN c.models ELSE {}
Complete(c) == Gateway(c) # NoGateway /\ ModelsOf(c) # {}
PoolPart(c) == <<Gateway(c), ModelsOf(c)>>

\* build_pool_from_config with what the gateway listed.
Pool(c, listed) == IF Complete(c) THEN ModelsOf(c) \cap listed ELSE {}

\* What the configured gateway lists when it is up.
Served(c) == IF Gateway(c) = NoGateway THEN {} ELSE Serves[Gateway(c)]

Idle == [stage |-> "idle"]
Listed(g) == IF g \in down THEN {} ELSE Serves[g]

\* discover_models: probe now, or (unless forced) read the cache.
Discover(c, force, found) ==
  \/ Gateway(c) = NoGateway /\ found = {} /\ UNCHANGED cache
  \/ Gateway(c) # NoGateway /\ found = Listed(c.gateway) /\ cache' = [cache EXCEPT ![c.gateway] = {found}]
  \/ Gateway(c) # NoGateway /\ ~ force /\ cache[c.gateway] = {found} /\ UNCHANGED cache

\* os.environ once the configuration is projected into it.
Project(c) == Onto(c, environ)

\* What lifespan serves first: the pool of the last saved configuration, if it builds.
FirstPool(unreachable) ==
  LET c == Current
      p == IF Gateway(c) \in unreachable THEN {} ELSE Pool(c, Served(c))
  IN  [version |-> IF p = {} THEN 0 ELSE Len(history), pool |-> p]
-----------------------------------------------------------------------------
Init ==
  /\ environ \in Full \cap Starts
  /\ history \in {<<>>, <<environ>>}
  /\ history # <<>> => Pool(environ, Served(environ)) # {}
  /\ verified = {PoolPart(history[i]) : i \in DOMAIN history}
  /\ lastSet = [k \in DOMAIN Current |-> [value |-> Current[k], posted |-> TRUE]]
  /\ registry = FirstPool({})
  /\ cache = [g \in Gateways |-> {}]
  /\ down = {}
  /\ job = [t \in Threads |-> Idle]
  /\ outages = 0 /\ restarts = 0

\* ConfigCenter.save: merge onto what is current now, under the file lock.
SaveUpdates(u, posted) ==
  /\ Len(history) < MaxSaves
  /\ history' = Append(history, Onto(u, Current))
  /\ lastSet' = Onto([k \in DOMAIN u |-> [value |-> u[k], posted |-> posted]], lastSet)

\* Mutant: the document merged before the awaits is written back whole.
SaveMerged(u, merged) ==
  /\ Len(history) < MaxSaves
  /\ history' = Append(history, merged)
  /\ lastSet' = Onto([k \in DOMAIN u |-> [value |-> u[k], posted |-> TRUE]], lastSet)
  /\ environ' = Project(merged)

\* center.save and project_config_to_env, with no await between them.
SaveAndProject(u, merged) ==
  /\ SaveUpdates(u, TRUE)
  /\ environ' = Project(history'[Len(history')])

\* internal_config_post up to its first await, when there is a pool to verify.
Receive(a, u) ==
  /\ job[a] = Idle /\ Len(history) < MaxSaves
  /\ DOMAIN u \cap PoolKeys # {} /\ Complete(Onto(u, Current))
  /\ job' = [job EXCEPT ![a] = [stage |-> "verify", updates |-> u, merged |-> Onto(u, Current)]]
  /\ UNCHANGED <<history, lastSet, environ, cache, down, verified, registry, outages, restarts>>

\* The whole request otherwise: unrelated keys and half-finished gateways are only stored.
StoreOnly(a, u) ==
  /\ job[a] = Idle
  /\ DOMAIN u \cap PoolKeys = {} \/ ~ Complete(Onto(u, Current))
  /\ SaveAndProject(u, Onto(u, Current))
  /\ UNCHANGED <<cache, down, verified, registry, job, outages, restarts>>

\* The verification thread: a forced build of the merged configuration; an empty pool
\* answers 400 and saves nothing.
Verify(a) ==
  /\ job[a].stage = "verify"
  /\ \E found \in SUBSET Models :
       /\ Discover(job[a].merged, TRUE, found)
       /\ IF Pool(job[a].merged, found) = {}
            THEN job' = [job EXCEPT ![a] = Idle] /\ UNCHANGED verified
            ELSE /\ job' = [job EXCEPT ![a].stage = "save"]
                 /\ verified' = verified \cup {PoolPart(job[a].merged)}
  /\ UNCHANGED <<history, lastSet, environ, down, registry, outages, restarts>>

\* Back on the event loop: save, project, and go on to reload what was just saved.
Save(a) ==
  /\ job[a].stage = "save"
  /\ SaveAndProject(job[a].updates, job[a].merged)
  /\ job' = [job EXCEPT ![a] = [stage |-> "build", version |-> Len(history'), force |-> FALSE]]
  /\ UNCHANGED <<cache, down, verified, registry, outages, restarts>>

\* Mutant: the probe keeps refreshing the first version it ever saw.
ProbeReadsFirst ==
  /\ job[Probe] = Idle /\ history # <<>>
  /\ job' = [job EXCEPT ![Probe] = [stage |-> "build", version |-> 1, force |-> TRUE]]
  /\ UNCHANGED <<history, lastSet, environ, cache, down, verified, registry, outages, restarts>>

\* probe_once reads latest_config_snapshot, if anything was ever saved.
ProbeReads ==
  /\ job[Probe] = Idle /\ history # <<>>
  /\ job' = [job EXCEPT ![Probe] = [stage |-> "build", version |-> Len(history), force |-> TRUE]]
  /\ UNCHANGED <<history, lastSet, environ, cache, down, verified, registry, outages, restarts>>

\* reload_from_config builds the pool of its snapshot; with no model confirmed it records
\* the error and keeps the pool being served.
Build(t) ==
  /\ job[t].stage = "build"
  /\ \E found \in SUBSET Models :
       LET pool == Pool(history[job[t].version], found) IN
       /\ Discover(history[job[t].version], job[t].force, found)
       /\ job' = [job EXCEPT ![t] = IF pool = {} THEN Idle
                    ELSE [stage |-> "replace", version |-> job[t].version, pool |-> pool]]
  /\ UNCHANGED <<history, lastSet, environ, down, verified, registry, outages, restarts>>

\* Mutant: the pool is labelled with the newest version there is.
ReplaceAsLatest(t) ==
  /\ job[t].stage = "replace"
  /\ registry' = [version |-> Len(history), pool |-> job[t].pool]
  /\ job' = [job EXCEPT ![t] = Idle]
  /\ UNCHANGED <<history, lastSet, environ, cache, down, verified, outages, restarts>>

\* ModelRegistry.replace: whatever version it holds.
Replace(t) ==
  /\ job[t].stage = "replace"
  /\ registry' = [version |-> job[t].version, pool |-> job[t].pool]
  /\ job' = [job EXCEPT ![t] = Idle]
  /\ UNCHANGED <<history, lastSet, environ, cache, down, verified, outages, restarts>>

\* runtime_embedding_snapshot finds no history and takes the environment ...
BootstrapReads ==
  /\ job[Scheduler] = Idle /\ history = <<>>
  /\ job' = [job EXCEPT ![Scheduler] =
       [stage |-> "bootstrap",
        updates |-> [k \in {j \in Keys : environ[j] \notin {NoGateway, {}}} |-> environ[k]]]]
  /\ UNCHANGED <<history, lastSet, environ, cache, down, verified, registry, outages, restarts>>

\* ... and saves it.
BootstrapSaves ==
  /\ job[Scheduler].stage = "bootstrap"
  /\ SaveUpdates(job[Scheduler].updates, FALSE)
  /\ job' = [job EXCEPT ![Scheduler] = Idle]
  /\ UNCHANGED <<environ, cache, down, verified, registry, outages, restarts>>

\* A gateway stops or resumes answering.
Outage ==
  /\ outages < MaxOutages /\ outages' = outages + 1
  /\ \E g \in Gateways \ down : down' = down \cup {g}
  /\ UNCHANGED <<history, lastSet, environ, cache, verified, registry, job, restarts>>

Recovery ==
  /\ \E g \in down : down' = down \ {g}
  /\ UNCHANGED <<history, lastSet, environ, cache, verified, registry, job, outages, restarts>>

\* The process dies wherever it is, and starts again.
Restart ==
  /\ restarts < MaxRestarts /\ restarts' = restarts + 1
  /\ history # <<>>
  /\ environ' = Project(Current)
  /\ registry' = FirstPool(down)
  /\ cache' = [g \in Gateways |-> {}]
  /\ job' = [t \in Threads |-> Idle]
  /\ UNCHANGED <<history, lastSet, down, verified, outages>>

Request == \E a \in Admins, u \in Offers : Receive(a, u) \/ StoreOnly(a, u)

Next ==
  \/ Request
  \/ \E a \in Admins : Verify(a) \/ Save(a)
  \/ ProbeReads \/ BootstrapReads \/ BootstrapSaves
  \/ \E t \in Threads : Build(t) \/ Replace(t)
  \/ Outage \/ Recovery \/ Restart

Spec == Init /\ [][Next]_vars

\* The probe loop never ends, and threads and requests run on.
FairSpec ==
  /\ Spec
  /\ WF_vars(ProbeReads)
  /\ \A t \in Threads : WF_vars(Build(t)) /\ WF_vars(Replace(t))
  /\ \A a \in Admins : WF_vars(Verify(a)) /\ WF_vars(Save(a))
-----------------------------------------------------------------------------
Jobs ==
  {Idle}
  \cup [stage : {"verify", "save"}, updates : Configs, merged : Configs]
  \cup [stage : {"build"}, version : 1..MaxSaves, force : BOOLEAN]
  \cup [stage : {"replace"}, version : 1..MaxSaves, pool : SUBSET Models]
  \cup [stage : {"bootstrap"}, updates : Configs]

TypeOK ==
  /\ history \in Seq(Configs) /\ Len(history) <= MaxSaves
  /\ environ \in Full
  /\ cache \in [Gateways -> {{}} \cup {{S} : S \in SUBSET Models}]
  /\ down \subseteq Gateways /\ verified \subseteq (Gateways \cup {NoGateway}) \X Whitelists
  /\ registry \in [version : 0..Len(history), pool : SUBSET Models]
  /\ job \in [Threads -> Jobs]

\* No saved change is lost: every key holds the value it was last saved with, although
\* each request read the whole document before its awaits.
NoLostUpdate == Current = [k \in DOMAIN lastSet |-> lastSet[k].value]

\* os.environ holds the configuration centre's value of every key an administrator saved
\* last: the centre is the one authority for the tools that read the environment.
EnvFollowsCenter ==
  \A k \in DOMAIN Current : lastSet[k].posted => environ[k] = Current[k]

\* The registry serves only models of the version it names, and one it serves was listed
\* by that version's gateway.
ServesItsVersion ==
  registry.version # 0 =>
    LET c == history[registry.version]
    IN  registry.pool # {} /\ registry.pool \subseteq ModelsOf(c) \cap Served(c)

\* What is derived from the configuration, the environment and the pool, follows it.
FollowsCenter == EnvFollowsCenter /\ ServesItsVersion

\* When requests and outages end, the pool served is the current configuration's.
Converges ==
  (/\ <>[][~ Request]_vars
   /\ <>[](down = {} /\ Pool(Current, Served(Current)) # {}))
  => <>[](registry = [version |-> Len(history), pool |-> Pool(Current, Served(Current))])

\* internal_api.py:153: the configuration centre only ever stores a complete model
\* configuration that a non-empty pool was built from.
StoresVerified == \A i \in DOMAIN history : Complete(history[i]) => PoolPart(history[i]) \in verified
=============================================================================
