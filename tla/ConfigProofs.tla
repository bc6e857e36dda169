---------------------------- MODULE ConfigProofs ----------------------------
(* The configuration centre for any administrators, gateways, models and      *)
(* settings: no saved change is lost over the awaits of a request, and what   *)
(* the environment and the registry hold is of the centre's versions.         *)
EXTENDS ModelConfig, SequenceTheorems, TLAPS

\* What a thread holds of a version is of a version there is, and what it is about to
\* serve was listed by the gateway of that version.
ServedBy(pool, c) == pool # {} /\ pool \subseteq ModelsOf(c) \cap Served(c)
Held(j) ==
  /\ j.stage \in {"build", "replace"} => j.version \in 1 .. Len(history)
  /\ j.stage = "replace" => ServedBy(j.pool, history[j.version])
HeldVersions == \A t \in Threads : Held(job[t])
\* What a gateway is remembered to have listed, it does list.
CacheListed == \A g \in Gateways : \A S \in cache[g] : S \subseteq Serves[g]

CentreTyped == history \in Seq(Configs) /\ Len(history) <= MaxSaves /\ environ \in Full
ConfigInv ==
  /\ TypeOK /\ HeldVersions /\ CacheListed
  /\ NoLostUpdate /\ EnvFollowsCenter /\ ServesItsVersion
-----------------------------------------------------------------------------
\* Configurations
ValueOf(k) == IF k = "gateway" THEN Gateways \cup {NoGateway}
              ELSE IF k = "models" THEN Whitelists ELSE Settings

LEMMA ConfigShape ==
  ASSUME NEW c \in Configs
  PROVE  /\ DOMAIN c \subseteq Keys /\ c = [k \in DOMAIN c |-> c[k]]
         /\ \A k \in DOMAIN c : c[k] \in ValueOf(k)
  <1>1. PICK K \in SUBSET Keys, f \in Full : c = [k \in K |-> f[k]]
    BY DEF Configs
  <1>2. \A k \in Keys : f[k] \in ValueOf(k)
    BY DEF Full, Keys, ValueOf
  <1> QED
    BY <1>1, <1>2

LEMMA ConfigMade ==
  ASSUME ConfigConstants, NEW c, DOMAIN c \subseteq Keys, c = [k \in DOMAIN c |-> c[k]],
         \A k \in DOMAIN c : c[k] \in ValueOf(k),
         NEW e \in Full
  PROVE  c \in Configs
  <1> DEFINE f == [gateway |-> IF "gateway" \in DOMAIN c THEN c["gateway"] ELSE e.gateway,
                   models |-> IF "models" \in DOMAIN c THEN c["models"] ELSE e.models,
                   settings |-> IF "settings" \in DOMAIN c THEN c["settings"] ELSE e.settings]
  <1>1. f \in Full
    BY DEF Full, ValueOf
  <1>2. \A k \in DOMAIN c : f[k] = c[k]
    BY DEF Keys
  <1>3. c = [k \in DOMAIN c |-> f[k]]
    BY <1>2
  <1> HIDE DEF f
  <1> QED
    BY <1>1, <1>3 DEF Configs

LEMMA FullConfigs ==
  ASSUME NEW e \in Full
  PROVE  e \in Configs /\ DOMAIN e = Keys /\ \A k \in Keys : e[k] \in ValueOf(k)
  <1>1. DOMAIN e = Keys /\ e = [k \in Keys |-> e[k]]
    BY DEF Full, Keys
  <1>2. \A k \in Keys : e[k] \in ValueOf(k)
    BY DEF Full, Keys, ValueOf
  <1> QED
    BY <1>1, <1>2 DEF Configs

LEMMA OntoConfigs ==
  ASSUME ConfigConstants, NEW u \in Configs, NEW c \in Configs
  PROVE  /\ Onto(u, c) \in Configs
         /\ DOMAIN Onto(u, c) = DOMAIN u \cup DOMAIN c
         /\ \A k \in DOMAIN Onto(u, c) : Onto(u, c)[k] = IF k \in DOMAIN u THEN u[k] ELSE c[k]
  <1> DEFINE o == Onto(u, c)
  <1>1. /\ DOMAIN o = DOMAIN u \cup DOMAIN c /\ o = [k \in DOMAIN o |-> o[k]]
        /\ \A k \in DOMAIN o : o[k] = IF k \in DOMAIN u THEN u[k] ELSE c[k]
    BY DEF Onto
  <1>2. DOMAIN o \subseteq Keys /\ \A k \in DOMAIN o : o[k] \in ValueOf(k)
    BY <1>1, ConfigShape
  <1>3. PICK e \in Full : TRUE
    BY DEF Configs
  <1> HIDE DEF o
  <1>4. o \in Configs
    BY <1>1, <1>2, <1>3, ConfigMade
  <1> QED
    BY <1>1, <1>4 DEF o

LEMMA ProjectFull ==
  ASSUME NEW c \in Configs, NEW e \in Full
  PROVE  Onto(c, e) \in Full /\ \A k \in DOMAIN c : Onto(c, e)[k] = c[k]
  <1> DEFINE o == Onto(c, e)
  <1>1. /\ DOMAIN e = Keys /\ DOMAIN c \subseteq Keys
        /\ \A k \in Keys : e[k] \in ValueOf(k)
        /\ \A k \in DOMAIN c : c[k] \in ValueOf(k)
    BY ConfigShape, FullConfigs
  <1>2. /\ o = [k \in Keys |-> o[k]] /\ \A k \in Keys : o[k] \in ValueOf(k)
        /\ \A k \in DOMAIN c : o[k] = c[k]
    BY <1>1 DEF Onto
  <1> HIDE DEF o
  <1>3. o = [gateway |-> o["gateway"], models |-> o["models"], settings |-> o["settings"]]
    BY <1>2 DEF Keys
  <1>4. o["gateway"] \in Gateways \cup {NoGateway} /\ o["models"] \in Whitelists
        /\ o["settings"] \in Settings
    BY <1>2 DEF Keys, ValueOf
  <1>5. o \in Full
    BY <1>3, <1>4 DEF Full
  <1> QED
    BY <1>2, <1>5 DEF o

LEMMA ConfigValues ==
  ASSUME ConfigConstants, NEW c \in Configs
  PROVE  /\ Gateway(c) \in Gateways \cup {NoGateway}
         /\ ModelsOf(c) \in Whitelists /\ ModelsOf(c) \in SUBSET Models
         /\ PoolPart(c) \in (Gateways \cup {NoGateway}) \X Whitelists
         /\ Gateway(c) # NoGateway => c.gateway = Gateway(c) /\ Gateway(c) \in Gateways
  <1>1. /\ "gateway" \in DOMAIN c => c["gateway"] \in Gateways \cup {NoGateway}
        /\ "models" \in DOMAIN c => c["models"] \in Whitelists
    BY ConfigShape DEF ValueOf
  <1>2. Gateway(c) \in Gateways \cup {NoGateway} /\ ModelsOf(c) \in Whitelists
        /\ (Gateway(c) # NoGateway => c.gateway = Gateway(c) /\ Gateway(c) \in Gateways)
    BY <1>1 DEF Gateway, ModelsOf, ConfigConstants
  <1> QED
    BY <1>2 DEF PoolPart, ConfigConstants

LEMMA CurrentTyped ==
  ASSUME ConfigConstants, CentreTyped
  PROVE  /\ Current \in Configs /\ environ \in Full /\ environ \in Configs
         /\ Len(history) \in Nat /\ DOMAIN history = 1 .. Len(history)
         /\ \A i \in 1 .. Len(history) : history[i] \in Configs
         /\ history # <<>> => Len(history) # 0 /\ Current = history[Len(history)]
  <1>1. /\ history \in Seq(Configs) /\ environ \in Full
        /\ Len(history) \in Nat /\ DOMAIN history = 1 .. Len(history)
        /\ \A i \in 1 .. Len(history) : history[i] \in Configs
    BY DEF CentreTyped
  <1>2. Empty \in Configs
    <2>1. DOMAIN Empty = {} /\ Empty = [k \in DOMAIN Empty |-> Empty[k]]
      BY DEF Empty
    <2> QED
      BY <1>1, <2>1, ConfigMade
  <1>3. history # <<>> => Len(history) # 0
    BY <1>1
  <1> QED
    BY <1>1, <1>2, <1>3, FullConfigs DEF Current

\* A pool is of models of the whitelist that the gateway lists.
LEMMA PoolServed ==
  ASSUME ConfigConstants, NEW c \in Configs, NEW found \in SUBSET Models,
         Gateway(c) # NoGateway => found \subseteq Serves[Gateway(c)],
         Pool(c, found) # {}
  PROVE  ServedBy(Pool(c, found), c) /\ Pool(c, found) \in SUBSET Models /\ Complete(c)
  <1>1. ModelsOf(c) \in SUBSET Models
    BY ConfigValues
  <1> QED
    BY <1>1 DEF Pool, ServedBy, Served, Complete

LEMMA FirstPoolServed ==
  ASSUME ConfigConstants, CentreTyped, NEW U
  PROVE  /\ FirstPool(U).version \in 0 .. Len(history) /\ FirstPool(U).pool \in SUBSET Models
         /\ FirstPool(U) \in [version : 0 .. Len(history), pool : SUBSET Models]
         /\ FirstPool(U).version # 0 => ServedBy(FirstPool(U).pool, history[FirstPool(U).version])
  <1> DEFINE c == Current
             p == IF Gateway(c) \in U THEN {} ELSE Pool(c, Served(c))
  <1>1. c \in Configs /\ Len(history) \in Nat
        /\ (history # <<>> => Len(history) # 0 /\ c = history[Len(history)])
    BY CurrentTyped
  <1>2. FirstPool(U) = [version |-> IF p = {} THEN 0 ELSE Len(history), pool |-> p]
    BY DEF FirstPool
  <1> HIDE DEF c
  <1>3. Served(c) \in SUBSET Models /\ (Gateway(c) # NoGateway => Served(c) \subseteq Serves[Gateway(c)])
    BY <1>1, ConfigValues DEF Served, ConfigConstants
  <1>4. p # {} => ServedBy(p, c) /\ Complete(c)
    BY <1>1, <1>3, PoolServed
  <1>5. p \in SUBSET Models
    BY <1>1, ConfigValues DEF Pool
  <1>6. p # {} => history # <<>>
    BY <1>4 DEF c, Current, Empty, Complete, Gateway
  <1> HIDE DEF p
  <1> QED
    BY <1>1, <1>2, <1>4, <1>5, <1>6

LEMMA InitConfig ==
  ASSUME ConfigConstants
  PROVE  Init => ConfigInv
  <1> SUFFICES ASSUME Init PROVE ConfigInv
    OBVIOUS
  <1>0. /\ environ \in Full /\ history \in {<<>>, <<environ>>}
        /\ verified = {PoolPart(history[i]) : i \in DOMAIN history}
        /\ lastSet = [k \in DOMAIN Current |-> [value |-> Current[k], posted |-> TRUE]]
        /\ registry = FirstPool({}) /\ cache = [g \in Gateways |-> {}] /\ down = {}
        /\ job = [t \in Threads |-> Idle]
    BY DEF Init
  <1>1. CentreTyped
    <2>1. environ \in Configs
      BY <1>0, FullConfigs
    <2>2. <<environ>> \in Seq(Configs) /\ Len(<<environ>>) = 1 /\ <<>> \in Seq(Configs) /\ Len(<<>>) = 0
      BY <2>1
    <2>3. 1 <= MaxSaves /\ 0 <= MaxSaves
      BY DEF ConfigConstants
    <2>4. history \in Seq(Configs) /\ Len(history) <= MaxSaves
      BY <1>0, <2>2, <2>3
    <2> QED
      BY <1>0, <2>4 DEF CentreTyped
  <1>2. /\ Current \in Configs /\ DOMAIN history = 1 .. Len(history)
        /\ \A i \in 1 .. Len(history) : history[i] \in Configs
    BY <1>1, CurrentTyped
  <1>3. verified \subseteq (Gateways \cup {NoGateway}) \X Whitelists
    BY <1>0, <1>2, ConfigValues
  <1>4. registry \in [version : 0 .. Len(history), pool : SUBSET Models] /\ ServesItsVersion
    BY <1>0, <1>1, FirstPoolServed DEF ServesItsVersion, ServedBy
  <1>5. Idle \in Jobs /\ Idle.stage = "idle"
    BY DEF Jobs, Idle
  <1>6. TypeOK
    BY <1>0, <1>1, <1>3, <1>4, <1>5 DEF TypeOK, CentreTyped
  <1>7. HeldVersions /\ CacheListed
    BY <1>0, <1>5 DEF HeldVersions, Held, CacheListed
  <1>8. NoLostUpdate
    <2>1. Current = [k \in DOMAIN Current |-> Current[k]]
      BY <1>2, ConfigShape
    <2> QED
      BY <1>0, <2>1 DEF NoLostUpdate
  <1>9. EnvFollowsCenter
    BY <1>0 DEF EnvFollowsCenter, Current, Empty
  <1> QED
    BY <1>4, <1>6, <1>7, <1>8, <1>9 DEF ConfigInv

-----------------------------------------------------------------------------
\* The versions there were stay what they were.
Extends == Len(history) <= Len(history') /\ \A i \in 1 .. Len(history) : history'[i] = history[i]

LEMMA InvTyped ==
  ASSUME ConfigInv
  PROVE  CentreTyped /\ TypeOK /\ Len(history) \in Nat
  <1>1. CentreTyped /\ TypeOK
    BY DEF ConfigInv, TypeOK, CentreTyped
  <1>2. history \in Seq(Configs)
    BY <1>1 DEF CentreTyped
  <1> QED
    BY <1>1, <1>2, LenProperties

\* What is said of a version is still said of it when there are more.
LEMMA StillHeld ==
  ASSUME ConfigInv, Extends, CentreTyped', NEW j, Held(j)
  PROVE  Held(j)'
  <1>1. Len(history) \in Nat /\ Len(history') \in Nat
    BY InvTyped DEF CentreTyped
  <1> QED
    BY <1>1 DEF Held, Extends, ServedBy, ModelsOf, Served, Gateway

LEMMA StillServes ==
  ASSUME ConfigInv, Extends, CentreTyped', registry' = registry
  PROVE  ServesItsVersion' /\ registry' \in [version : 0 .. Len(history'), pool : SUBSET Models]
  <1>1. /\ Len(history) \in Nat /\ Len(history') \in Nat
        /\ registry \in [version : 0 .. Len(history), pool : SUBSET Models]
    BY InvTyped DEF CentreTyped, TypeOK
  <1>2. registry' \in [version : 0 .. Len(history'), pool : SUBSET Models]
    BY <1>1 DEF Extends
  <1>3. registry.version # 0 => registry.version \in 1 .. Len(history)
    BY <1>1
  <1> QED
    BY <1>2, <1>3 DEF ConfigInv, ServesItsVersion, Extends, ModelsOf, Served, Gateway

\* One thread goes on to j, which holds no more than it may.
LEMMA JobsGoOn ==
  ASSUME ConfigInv, Extends, CentreTyped', NEW t \in Threads, NEW j \in Jobs,
         job' = [job EXCEPT ![t] = j], Held(j)'
  PROVE  HeldVersions' /\ job' \in [Threads -> Jobs]
  <1>1. /\ job' \in [Threads -> Jobs] /\ job'[t] = j
        /\ \A u \in Threads \ {t} : job'[u] = job[u]
    BY DEF ConfigInv, TypeOK
  <1>2. \A u \in Threads \ {t} : Held(job[u])'
    <2> SUFFICES ASSUME NEW u \in Threads \ {t} PROVE Held(job[u])'
      OBVIOUS
    <2>1. job'[u] = job[u]
      BY <1>1
    <2>2. Held(job[u])
      BY DEF ConfigInv, HeldVersions
    <2>3. PICK x : x = job[u]
      OBVIOUS
    <2>4. Held(x)'
      BY <2>2, <2>3, StillHeld
    <2> QED
      BY <2>1, <2>3, <2>4 DEF Held
  <1>3. Held(job[t])'
    BY <1>1 DEF Held
  <1> QED
    BY <1>1, <1>2, <1>3 DEF HeldVersions

\* A save is a new version: the keys of u have their new values, the others theirs.
LEMMA SaveMakes ==
  ASSUME ConfigConstants, ConfigInv, NEW u \in Configs, NEW posted \in BOOLEAN,
         SaveUpdates(u, posted)
  PROVE  /\ history' \in Seq(Configs) /\ Len(history') = Len(history) + 1 /\ Len(history') <= MaxSaves
         /\ Extends
         /\ Current' = Onto(u, Current) /\ Current' = history'[Len(history')] /\ Current' \in Configs
         /\ NoLostUpdate'
         /\ DOMAIN Current' = DOMAIN u \cup DOMAIN Current
         /\ \A k \in DOMAIN Current' : lastSet'[k].posted = IF k \in DOMAIN u THEN posted
                                                            ELSE lastSet[k].posted
  <1>1. /\ CentreTyped /\ Current \in Configs /\ environ \in Full /\ history \in Seq(Configs)
        /\ Len(history) \in Nat
    BY InvTyped, CurrentTyped DEF CentreTyped
  <1> DEFINE o == Onto(u, Current)
  <1>2. /\ o \in Configs /\ DOMAIN o = DOMAIN u \cup DOMAIN Current
        /\ \A k \in DOMAIN o : o[k] = IF k \in DOMAIN u THEN u[k] ELSE Current[k]
    <2>1. PICK c : c = Current
      OBVIOUS
    <2>2. c \in Configs
      BY <1>1, <2>1
    <2>3. /\ Onto(u, c) \in Configs /\ DOMAIN Onto(u, c) = DOMAIN u \cup DOMAIN c
          /\ \A k \in DOMAIN Onto(u, c) : Onto(u, c)[k] = IF k \in DOMAIN u THEN u[k] ELSE c[k]
      BY <2>2, OntoConfigs
    <2> QED
      BY <2>1, <2>3
  <1>3. history' = Append(history, o) /\ Len(history) < MaxSaves
        /\ lastSet' = Onto([k \in DOMAIN u |-> [value |-> u[k], posted |-> posted]], lastSet)
    BY DEF SaveUpdates
  <1>4. o \in Configs /\ o = [k \in DOMAIN o |-> o[k]] /\ DOMAIN o = DOMAIN u \cup DOMAIN Current
        /\ \A k \in DOMAIN o : o[k] = IF k \in DOMAIN u THEN u[k] ELSE Current[k]
    BY <1>2, ConfigShape
  <1> HIDE DEF o
  <1>5. /\ history' \in Seq(Configs) /\ Len(history') = Len(history) + 1
        /\ history'[Len(history) + 1] = o
        /\ \A i \in 1 .. Len(history) : history'[i] = history[i]
    BY <1>1, <1>3, <1>4
  <1>6. Current' = o /\ Current' = history'[Len(history')]
    <2>1. history' # <<>> /\ history'[Len(history')] = o
      BY <1>1, <1>5
    <2> QED
      BY <2>1 DEF Current
  <1>7. DOMAIN lastSet = DOMAIN Current /\ \A k \in DOMAIN Current : Current[k] = lastSet[k].value
    BY DEF ConfigInv, NoLostUpdate
  <1>8. /\ DOMAIN lastSet' = DOMAIN o
        /\ \A k \in DOMAIN o : lastSet'[k] = IF k \in DOMAIN u THEN [value |-> u[k], posted |-> posted]
                                             ELSE lastSet[k]
    BY <1>3, <1>4, <1>7 DEF Onto
  <1>9. \A k \in DOMAIN o : lastSet'[k].value = o[k]
    <2> SUFFICES ASSUME NEW k \in DOMAIN o PROVE lastSet'[k].value = o[k]
      OBVIOUS
    <2>1. CASE k \in DOMAIN u
      <3>1. lastSet'[k] = [value |-> u[k], posted |-> posted] /\ o[k] = u[k]
        BY <1>4, <1>8, <2>1
      <3> QED
        BY <3>1
    <2>2. CASE k \notin DOMAIN u
      <3>1. k \in DOMAIN Current /\ lastSet'[k] = lastSet[k] /\ o[k] = Current[k]
        BY <1>4, <1>8, <2>2
      <3> QED
        BY <1>7, <3>1
    <2> QED
      BY <2>1, <2>2
  <1>10. o = [k \in DOMAIN lastSet' |-> lastSet'[k].value]
    BY <1>4, <1>8, <1>9
  <1>11. NoLostUpdate'
    BY <1>6, <1>10 DEF NoLostUpdate
  <1>12. Len(history') <= MaxSaves
    BY <1>1, <1>3, <1>5 DEF ConfigConstants
  <1>13. Extends
    BY <1>1, <1>5 DEF Extends
  <1>14. Current' = Onto(u, Current)
    BY <1>6 DEF o
  <1>15. \A k \in DOMAIN o : lastSet'[k].posted = IF k \in DOMAIN u THEN posted ELSE lastSet[k].posted
    BY <1>8
  <1> QED
    BY <1>4, <1>5, <1>6, <1>11, <1>12, <1>13, <1>14, <1>15

\* Posted changes reach the environment with the save; what the scheduler saves does not.
LEMMA PostedSave ==
  ASSUME ConfigConstants, ConfigInv, NEW u \in Configs, NEW m, SaveAndProject(u, m)
  PROVE  /\ CentreTyped' /\ Extends /\ NoLostUpdate' /\ EnvFollowsCenter'
         /\ Len(history') = Len(history) + 1
  <1>1. /\ history' \in Seq(Configs) /\ Len(history') <= MaxSaves /\ Extends /\ NoLostUpdate'
        /\ Current' = history'[Len(history')] /\ Current' \in Configs
        /\ Len(history') = Len(history) + 1
    BY SaveMakes DEF SaveAndProject
  <1>2. PICK c \in Configs : c = Current' /\ environ' = Onto(c, environ)
    BY <1>1 DEF SaveAndProject, Project
  <1>3. environ \in Full
    BY InvTyped DEF CentreTyped
  <1>4. environ' \in Full /\ \A k \in DOMAIN c : environ'[k] = c[k]
    BY <1>2, <1>3, ProjectFull
  <1>5. CentreTyped'
    BY <1>1, <1>4 DEF CentreTyped
  <1>6. EnvFollowsCenter'
    BY <1>2, <1>4 DEF EnvFollowsCenter
  <1> QED
    BY <1>1, <1>5, <1>6

LEMMA CentreKept ==
  ASSUME ConfigInv, UNCHANGED <<history, lastSet, environ>>
  PROVE  CentreTyped' /\ Extends /\ NoLostUpdate' /\ EnvFollowsCenter'
  <1>1. CentreTyped' /\ Current' = Current
    BY InvTyped DEF CentreTyped, Current
  <1>2. Extends
    BY InvTyped DEF Extends
  <1>3. NoLostUpdate' /\ EnvFollowsCenter'
    BY <1>1 DEF ConfigInv, NoLostUpdate, EnvFollowsCenter
  <1> QED
    BY <1>1, <1>2, <1>3

LEMMA JobShape ==
  ASSUME ConfigInv, NEW t \in Threads
  PROVE  /\ job[t].stage \in {"verify", "save"} => job[t].updates \in Configs /\ job[t].merged \in Configs
                               /\ job[t] \in [stage : {"verify", "save"}, updates : Configs, merged : Configs]
         /\ job[t].stage = "build" => job[t].version \in 1 .. MaxSaves
         /\ job[t].stage = "replace" => job[t].version \in 1 .. MaxSaves /\ job[t].pool \in SUBSET Models
         /\ job[t].stage = "bootstrap" => job[t].updates \in Configs
  <1>1. job[t] \in Jobs
    BY DEF ConfigInv, TypeOK
  <1> QED
    BY <1>1 DEF Jobs, Idle

LEMMA Discovered ==
  ASSUME ConfigConstants, ConfigInv, NEW c \in Configs, NEW force, NEW found \in SUBSET Models,
         Discover(c, force, found)
  PROVE  /\ cache' \in [Gateways -> {{}} \cup {{S} : S \in SUBSET Models}] /\ CacheListed'
         /\ Gateway(c) # NoGateway => found \subseteq Serves[Gateway(c)]
  <1>1. cache \in [Gateways -> {{}} \cup {{S} : S \in SUBSET Models}] /\ CacheListed
    BY DEF ConfigInv, TypeOK
  <1>2. Gateway(c) # NoGateway => c.gateway = Gateway(c) /\ Gateway(c) \in Gateways
    BY ConfigValues
  <1>3. CASE UNCHANGED cache
    <2>1. Gateway(c) # NoGateway => found = Listed(Gateway(c)) \/ found \in cache[Gateway(c)]
      BY <1>2, <1>3 DEF Discover
    <2>2. Gateway(c) # NoGateway => found \subseteq Serves[Gateway(c)]
      BY <1>1, <1>2, <2>1 DEF Listed, CacheListed
    <2> QED
      BY <1>1, <1>3, <2>2 DEF CacheListed
  <1>4. CASE cache' # cache
    <2>1. /\ Gateway(c) # NoGateway /\ found = Listed(Gateway(c))
          /\ cache' = [cache EXCEPT ![Gateway(c)] = {found}]
      BY <1>2, <1>4 DEF Discover
    <2>2. found \subseteq Serves[Gateway(c)]
      BY <1>2, <2>1 DEF Listed
    <2>3. /\ cache' \in [Gateways -> {{}} \cup {{S} : S \in SUBSET Models}]
          /\ cache'[Gateway(c)] = {found}
          /\ \A g \in Gateways \ {Gateway(c)} : cache'[g] = cache[g]
      BY <1>1, <1>2, <2>1
    <2>4. CacheListed'
      BY <1>1, <2>2, <2>3 DEF CacheListed
    <2> QED
      BY <2>2, <2>3, <2>4
  <1> QED
    BY <1>3, <1>4

-----------------------------------------------------------------------------
\* The conjuncts a step is left to show once the centre is in order.
LEMMA Assembled ==
  ASSUME ConfigInv, CentreTyped', NoLostUpdate', EnvFollowsCenter',
         HeldVersions', job' \in [Threads -> Jobs],
         CacheListed', cache' \in [Gateways -> {{}} \cup {{S} : S \in SUBSET Models}],
         ServesItsVersion', registry' \in [version : 0 .. Len(history'), pool : SUBSET Models],
         down' \subseteq Gateways, verified' \subseteq (Gateways \cup {NoGateway}) \X Whitelists
  PROVE  ConfigInv'
  BY DEF ConfigInv, TypeOK, CentreTyped

LEMMA CacheKept ==
  ASSUME ConfigInv, UNCHANGED cache
  PROVE  CacheListed' /\ cache' \in [Gateways -> {{}} \cup {{S} : S \in SUBSET Models}]
  BY DEF ConfigInv, TypeOK, CacheListed

LEMMA GatewaysTyped ==
  ASSUME ConfigInv
  PROVE  down \subseteq Gateways /\ verified \subseteq (Gateways \cup {NoGateway}) \X Whitelists
  BY DEF ConfigInv, TypeOK

\* A step of one thread that changes nothing but what the thread holds.
LEMMA JobOnly ==
  ASSUME ConfigInv, NEW t \in Threads, NEW j \in Jobs, Held(j), job' = [job EXCEPT ![t] = j],
         UNCHANGED <<history, lastSet, environ, cache, down, verified, registry>>
  PROVE  ConfigInv'
  <1>1. CentreTyped' /\ Extends /\ NoLostUpdate' /\ EnvFollowsCenter'
    BY CentreKept
  <1>2. HeldVersions' /\ job' \in [Threads -> Jobs]
    BY <1>1, StillHeld, JobsGoOn
  <1> QED
    BY <1>1, <1>2, StillServes, CacheKept, GatewaysTyped, Assembled

LEMMA ReceiveKeeps ==
  ASSUME ConfigConstants, ConfigOffers, ConfigInv, NEW a \in Admins, NEW u \in Offers, Receive(a, u)
  PROVE  ConfigInv'
  <1> DEFINE j == [stage |-> "verify", updates |-> u, merged |-> Onto(u, Current)]
  <1>1. u \in Configs /\ Current \in Configs
    BY InvTyped, CurrentTyped DEF ConfigOffers
  <1>2. Onto(u, Current) \in Configs
    BY <1>1, OntoConfigs
  <1>3. j \in Jobs /\ Held(j)
    BY <1>1, <1>2 DEF Jobs, Held
  <1>4. job' = [job EXCEPT ![a] = j] /\ a \in Threads
        /\ UNCHANGED <<history, lastSet, environ, cache, down, verified, registry>>
    BY DEF Receive, Threads
  <1> HIDE DEF j
  <1> QED
    BY <1>3, <1>4, JobOnly

LEMMA StoreOnlyKeeps ==
  ASSUME ConfigConstants, ConfigOffers, ConfigInv, NEW a \in Admins, NEW u \in Offers, StoreOnly(a, u)
  PROVE  ConfigInv'
  <1>1. u \in Configs
    BY DEF ConfigOffers
  <1>2. CentreTyped' /\ Extends /\ NoLostUpdate' /\ EnvFollowsCenter'
    BY <1>1, PostedSave DEF StoreOnly
  <1>3. UNCHANGED <<cache, down, verified, registry, job>>
    BY DEF StoreOnly
  <1>4. a \in Threads /\ job[a] \in Jobs /\ job' = [job EXCEPT ![a] = job[a]] /\ Held(job[a])
    BY <1>3 DEF ConfigInv, TypeOK, Threads, HeldVersions
  <1>5. HeldVersions' /\ job' \in [Threads -> Jobs]
    <2>1. PICK j : j = job[a]
      OBVIOUS
    <2>2. j \in Jobs /\ job' = [job EXCEPT ![a] = j] /\ Held(j)
      BY <1>4, <2>1
    <2>3. Held(j)'
      BY <1>2, <2>2, StillHeld
    <2> QED
      BY <1>2, <1>4, <2>2, <2>3, JobsGoOn
  <1> QED
    BY <1>2, <1>3, <1>5, StillServes, CacheKept, GatewaysTyped, Assembled

LEMMA VerifyKeeps ==
  ASSUME ConfigConstants, ConfigInv, NEW a \in Admins, Verify(a)
  PROVE  ConfigInv'
  <1>1. /\ a \in Threads /\ job[a].stage = "verify" /\ job[a].merged \in Configs
        /\ job[a] \in [stage : {"verify", "save"}, updates : Configs, merged : Configs]
    BY JobShape DEF Verify, Threads
  <1>2. PICK found \in SUBSET Models :
          /\ Discover(job[a].merged, TRUE, found)
          /\ IF Pool(job[a].merged, found) = {}
               THEN job' = [job EXCEPT ![a] = Idle] /\ UNCHANGED verified
               ELSE /\ job' = [job EXCEPT ![a].stage = "save"]
                    /\ verified' = verified \cup {PoolPart(job[a].merged)}
    BY DEF Verify
  <1>3. UNCHANGED <<history, lastSet, environ, down, registry>>
    BY DEF Verify
  <1>4. CentreTyped' /\ Extends /\ NoLostUpdate' /\ EnvFollowsCenter'
    BY <1>3, CentreKept
  <1>5. cache' \in [Gateways -> {{}} \cup {{S} : S \in SUBSET Models}] /\ CacheListed'
    BY <1>1, <1>2, Discovered
  <1>6. verified' \subseteq (Gateways \cup {NoGateway}) \X Whitelists
    BY <1>1, <1>2, ConfigValues, GatewaysTyped
  <1>7. PICK j \in Jobs : job' = [job EXCEPT ![a] = j] /\ j.stage \in {"idle", "save"}
    <2>1. Idle \in Jobs /\ Idle.stage = "idle"
      BY DEF Jobs, Idle
    <2>2. [job[a] EXCEPT !.stage = "save"] \in Jobs /\ [job[a] EXCEPT !.stage = "save"].stage = "save"
      BY <1>1 DEF Jobs
    <2>3. \/ job' = [job EXCEPT ![a] = Idle]
          \/ job' = [job EXCEPT ![a] = [job[a] EXCEPT !.stage = "save"]]
      BY <1>2
    <2> QED
      BY <2>1, <2>2, <2>3
  <1>8. Held(j)'
    BY <1>7 DEF Held
  <1>9. HeldVersions' /\ job' \in [Threads -> Jobs]
    BY <1>1, <1>4, <1>7, <1>8, JobsGoOn
  <1> QED
    BY <1>3, <1>4, <1>5, <1>6, <1>9, StillServes, GatewaysTyped, Assembled

LEMMA SaveKeeps ==
  ASSUME ConfigConstants, ConfigInv, NEW a \in Admins, Save(a)
  PROVE  ConfigInv'
  <1>1. a \in Threads /\ job[a].updates \in Configs
    BY JobShape DEF Save, Threads
  <1>2. CentreTyped' /\ Extends /\ NoLostUpdate' /\ EnvFollowsCenter' /\ Len(history') = Len(history) + 1
    BY <1>1, PostedSave DEF Save
  <1>3. PICK n : n = Len(history')
    OBVIOUS
  <1> DEFINE j == [stage |-> "build", version |-> n, force |-> FALSE]
  <1>4. Len(history) \in Nat /\ n \in 1 .. MaxSaves
    BY <1>2, <1>3, InvTyped DEF CentreTyped, ConfigConstants
  <1>5. j \in Jobs /\ j.stage = "build" /\ j.version = n
    BY <1>4 DEF Jobs
  <1>6. job' = [job EXCEPT ![a] = j] /\ UNCHANGED <<cache, down, verified, registry>>
    BY <1>3 DEF Save
  <1> HIDE DEF j
  <1>7. Held(j)'
    BY <1>3, <1>4, <1>5 DEF Held
  <1>8. HeldVersions' /\ job' \in [Threads -> Jobs]
    BY <1>1, <1>2, <1>5, <1>6, <1>7, JobsGoOn
  <1> QED
    BY <1>2, <1>6, <1>8, StillServes, CacheKept, GatewaysTyped, Assembled

LEMMA ProbeReadsKeeps ==
  ASSUME ConfigConstants, ConfigInv, ProbeReads
  PROVE  ConfigInv'
  <1> DEFINE j == [stage |-> "build", version |-> Len(history), force |-> TRUE]
  <1>1. Len(history) \in 1 .. Len(history) /\ Len(history) \in 1 .. MaxSaves
    BY InvTyped, CurrentTyped DEF ProbeReads, CentreTyped, ConfigConstants
  <1>2. j \in Jobs /\ Held(j)
    BY <1>1 DEF Jobs, Held
  <1>3. job' = [job EXCEPT ![Probe] = j] /\ Probe \in Threads
        /\ UNCHANGED <<history, lastSet, environ, cache, down, verified, registry>>
    BY DEF ProbeReads, Threads
  <1>4. PICK i : i = j
    OBVIOUS
  <1>5. i \in Jobs /\ Held(i) /\ job' = [job EXCEPT ![Probe] = i]
    BY <1>2, <1>3, <1>4
  <1> HIDE DEF j
  <1> QED
    BY <1>3, <1>5, JobOnly

LEMMA BuildKeeps ==
  ASSUME ConfigConstants, ConfigInv, NEW t \in Threads, Build(t)
  PROVE  ConfigInv'
  <1>1. PICK n : n = job[t].version
    OBVIOUS
  <1>2. PICK c : c = history[n]
    OBVIOUS
  <1>3. /\ n \in 1 .. Len(history) /\ c \in Configs /\ n \in 1 .. MaxSaves
        /\ Held(job[t])
    BY <1>1, <1>2, JobShape, InvTyped, CurrentTyped DEF Build, ConfigInv, HeldVersions, Held
  <1>4. PICK found \in SUBSET Models :
          /\ Discover(c, job[t].force, found)
          /\ job' = [job EXCEPT ![t] = IF Pool(c, found) = {} THEN Idle
                       ELSE [stage |-> "replace", version |-> n, pool |-> Pool(c, found)]]
    BY <1>1, <1>2 DEF Build
  <1>5. UNCHANGED <<history, lastSet, environ, down, verified, registry>>
    BY DEF Build
  <1>6. CentreTyped' /\ Extends /\ NoLostUpdate' /\ EnvFollowsCenter'
    BY <1>5, CentreKept
  <1>7. /\ cache' \in [Gateways -> {{}} \cup {{S} : S \in SUBSET Models}] /\ CacheListed'
        /\ Gateway(c) # NoGateway => found \subseteq Serves[Gateway(c)]
    BY <1>3, <1>4, Discovered
  <1>8. Pool(c, found) # {} => ServedBy(Pool(c, found), c) /\ Pool(c, found) \in SUBSET Models
    BY <1>3, <1>7, PoolServed
  <1>9. PICK j \in Jobs : job' = [job EXCEPT ![t] = j] /\ Held(j)
    <2>1. CASE Pool(c, found) = {}
      <3>1. Idle \in Jobs /\ Held(Idle)
        BY DEF Jobs, Idle, Held
      <3> QED
        BY <1>4, <2>1, <3>1
    <2>2. CASE Pool(c, found) # {}
      <3> DEFINE r == [stage |-> "replace", version |-> n, pool |-> Pool(c, found)]
      <3>1. r \in Jobs
        BY <1>3, <1>8, <2>2 DEF Jobs
      <3>2. Held(r)
        BY <1>2, <1>3, <1>8, <2>2 DEF Held
      <3> QED
        BY <1>4, <2>2, <3>1, <3>2
    <2> QED
      BY <2>1, <2>2
  <1>10. HeldVersions' /\ job' \in [Threads -> Jobs]
    BY <1>6, <1>9, StillHeld, JobsGoOn
  <1> QED
    BY <1>5, <1>6, <1>7, <1>10, StillServes, GatewaysTyped, Assembled

LEMMA ReplaceKeeps ==
  ASSUME ConfigConstants, ConfigInv, NEW t \in Threads, Replace(t)
  PROVE  ConfigInv'
  <1>1. /\ job[t].version \in 1 .. Len(history) /\ job[t].pool \in SUBSET Models
        /\ ServedBy(job[t].pool, history[job[t].version])
        /\ registry' = [version |-> job[t].version, pool |-> job[t].pool]
        /\ job' = [job EXCEPT ![t] = Idle]
        /\ UNCHANGED <<history, lastSet, environ, cache, down, verified>>
    BY JobShape DEF Replace, ConfigInv, HeldVersions, Held
  <1>2. CentreTyped' /\ Extends /\ NoLostUpdate' /\ EnvFollowsCenter'
    BY <1>1, CentreKept
  <1>3. registry' \in [version : 0 .. Len(history'), pool : SUBSET Models] /\ ServesItsVersion'
    BY <1>1, InvTyped DEF ServesItsVersion, ServedBy
  <1>4. Idle \in Jobs /\ Held(Idle)'
    BY DEF Jobs, Idle, Held
  <1>5. HeldVersions' /\ job' \in [Threads -> Jobs]
    BY <1>1, <1>2, <1>4, JobsGoOn
  <1> QED
    BY <1>1, <1>2, <1>3, <1>5, CacheKept, GatewaysTyped, Assembled

LEMMA BootstrapReadsKeeps ==
  ASSUME ConfigConstants, ConfigInv, BootstrapReads
  PROVE  ConfigInv'
  <1> DEFINE u == [k \in {i \in Keys : environ[i] \notin {NoGateway, {}}} |-> environ[k]]
  <1>1. environ \in Full
    BY InvTyped DEF CentreTyped
  <1>2. u \in Configs
    <2>1. /\ DOMAIN u \subseteq Keys /\ u = [k \in DOMAIN u |-> u[k]]
          /\ \A k \in DOMAIN u : u[k] \in ValueOf(k)
      BY <1>1, FullConfigs
    <2> HIDE DEF u
    <2> QED
      BY <1>1, <2>1, ConfigMade
  <1>3. PICK j : j = [stage |-> "bootstrap", updates |-> u]
    OBVIOUS
  <1>4. j \in Jobs /\ Held(j)
    BY <1>2, <1>3 DEF Jobs, Held
  <1>5. job' = [job EXCEPT ![Scheduler] = j] /\ Scheduler \in Threads
        /\ UNCHANGED <<history, lastSet, environ, cache, down, verified, registry>>
    BY <1>3 DEF BootstrapReads, Threads
  <1> HIDE DEF u
  <1> QED
    BY <1>4, <1>5, JobOnly

LEMMA BootstrapSavesKeeps ==
  ASSUME ConfigConstants, ConfigInv, BootstrapSaves
  PROVE  ConfigInv'
  <1>1. PICK u : u = job[Scheduler].updates
    OBVIOUS
  <1>2. Scheduler \in Threads /\ u \in Configs /\ SaveUpdates(u, FALSE)
        /\ job' = [job EXCEPT ![Scheduler] = Idle]
        /\ UNCHANGED <<environ, cache, down, verified, registry>>
    BY <1>1, JobShape DEF BootstrapSaves, Threads
  <1>3. /\ history' \in Seq(Configs) /\ Len(history') <= MaxSaves /\ Extends /\ NoLostUpdate'
        /\ Current' = Onto(u, Current) /\ DOMAIN Current' = DOMAIN u \cup DOMAIN Current
        /\ \A k \in DOMAIN Current' : lastSet'[k].posted = IF k \in DOMAIN u THEN FALSE
                                                           ELSE lastSet[k].posted
    BY <1>2, SaveMakes
  <1>4. CentreTyped'
    BY <1>2, <1>3, InvTyped DEF CentreTyped
  <1>5. EnvFollowsCenter'
    <2> SUFFICES ASSUME NEW k \in DOMAIN Current', lastSet'[k].posted
                 PROVE  environ[k] = Current'[k]
      BY <1>2 DEF EnvFollowsCenter
    <2>1. k \notin DOMAIN u /\ k \in DOMAIN Current /\ lastSet[k].posted
      BY <1>3
    <2>2. Current'[k] = Current[k]
      BY <1>3, <2>1 DEF Onto
    <2> QED
      BY <2>1, <2>2 DEF ConfigInv, EnvFollowsCenter
  <1>6. Idle \in Jobs /\ Held(Idle)'
    BY DEF Jobs, Idle, Held
  <1>7. HeldVersions' /\ job' \in [Threads -> Jobs]
    BY <1>2, <1>3, <1>4, <1>6, JobsGoOn
  <1> QED
    BY <1>2, <1>3, <1>4, <1>5, <1>7, StillServes, CacheKept, GatewaysTyped, Assembled

LEMMA GatewaysComeAndGo ==
  ASSUME ConfigInv, down' \subseteq Gateways,
         UNCHANGED <<history, lastSet, environ, cache, verified, registry, job>>
  PROVE  ConfigInv'
  <1>1. CentreTyped' /\ Extends /\ NoLostUpdate' /\ EnvFollowsCenter'
    BY CentreKept
  <1>2. HeldVersions' /\ job' \in [Threads -> Jobs]
    BY DEF ConfigInv, HeldVersions, Held, TypeOK
  <1> QED
    BY <1>1, <1>2, StillServes, CacheKept, GatewaysTyped, Assembled

LEMMA RestartKeeps ==
  ASSUME ConfigConstants, ConfigInv, Restart
  PROVE  ConfigInv'
  <1>1. /\ environ' = Onto(Current, environ) /\ registry' = FirstPool(down)
        /\ cache' = [g \in Gateways |-> {}] /\ job' = [t \in Threads |-> Idle]
        /\ UNCHANGED <<history, lastSet, down, verified>>
    BY DEF Restart, Project
  <1>2. CentreTyped /\ Current \in Configs /\ environ \in Full
    BY InvTyped, CurrentTyped
  <1>3. environ' \in Full /\ \A k \in DOMAIN Current : environ'[k] = Current[k]
    BY <1>1, <1>2, ProjectFull
  <1>4. CentreTyped' /\ Current' = Current
    BY <1>1, <1>2, <1>3 DEF CentreTyped, Current
  <1>5. NoLostUpdate' /\ EnvFollowsCenter'
    BY <1>1, <1>3, <1>4 DEF ConfigInv, NoLostUpdate, EnvFollowsCenter
  <1>6. registry' \in [version : 0 .. Len(history'), pool : SUBSET Models] /\ ServesItsVersion'
    BY <1>1, <1>2, FirstPoolServed DEF ServesItsVersion, ServedBy
  <1>7. HeldVersions' /\ job' \in [Threads -> Jobs]
    BY <1>1 DEF HeldVersions, Held, Jobs, Idle
  <1>8. CacheListed' /\ cache' \in [Gateways -> {{}} \cup {{S} : S \in SUBSET Models}]
    BY <1>1 DEF CacheListed
  <1> QED
    BY <1>1, <1>4, <1>5, <1>6, <1>7, <1>8, GatewaysTyped, Assembled

LEMMA ConfigStep ==
  ASSUME ConfigConstants, ConfigOffers, ConfigInv, [Next]_vars
  PROVE  ConfigInv'
  <1>1. CASE UNCHANGED vars
    BY <1>1, GatewaysComeAndGo, GatewaysTyped DEF vars
  <1>2. CASE Request
    BY <1>2, ReceiveKeeps, StoreOnlyKeeps DEF Request
  <1>3. ASSUME NEW a \in Admins, Verify(a) \/ Save(a) PROVE ConfigInv'
    BY <1>3, VerifyKeeps, SaveKeeps
  <1>4. CASE ProbeReads \/ BootstrapReads \/ BootstrapSaves
    BY <1>4, ProbeReadsKeeps, BootstrapReadsKeeps, BootstrapSavesKeeps
  <1>5. ASSUME NEW t \in Threads, Build(t) \/ Replace(t) PROVE ConfigInv'
    BY <1>5, BuildKeeps, ReplaceKeeps
  <1>6. CASE Outage \/ Recovery
    <2>1. down' \subseteq Gateways
      BY <1>6, GatewaysTyped DEF Outage, Recovery
    <2> QED
      BY <1>6, <2>1, GatewaysComeAndGo DEF Outage, Recovery
  <1>7. CASE Restart
    BY <1>7, RestartKeeps
  <1> QED
    BY <1>1, <1>2, <1>3, <1>4, <1>5, <1>6, <1>7 DEF Next

LEMMA ConfigInvariant ==
  ASSUME ConfigConstants, ConfigOffers
  PROVE  Spec => []ConfigInv
  BY InitConfig, ConfigStep, PTL DEF Spec

-----------------------------------------------------------------------------
(* The configurations, the pools and what threads hold keep their types.      *)
THEOREM ConfigTyped == Spec => []TypeOK
  <1>1. Spec => []ConfigInv
    BY ConfigConstants, ConfigOffers, ConfigInvariant
  <1> QED
    BY <1>1, PTL DEF ConfigInv

(* Requests read the whole document before their awaits and save after them;  *)
(* a save still loses no change another request or the scheduler saved in     *)
(* between.                                                                   *)
THEOREM ConfigLosesNothing == Spec => []NoLostUpdate
  <1>1. Spec => []ConfigInv
    BY ConfigConstants, ConfigOffers, ConfigInvariant
  <1> QED
    BY <1>1, PTL DEF ConfigInv

(* The environment holds what administrators last saved, and the registry     *)
(* serves only models of the version it names that the gateway of that        *)
(* version lists, whatever requests, probes and restarts interleave.          *)
THEOREM ConfigFollowsCenter == Spec => []FollowsCenter
  <1>1. Spec => []ConfigInv
    BY ConfigConstants, ConfigOffers, ConfigInvariant
  <1> QED
    BY <1>1, PTL DEF ConfigInv, FollowsCenter
=============================================================================
