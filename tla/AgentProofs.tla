----------------------------- MODULE AgentProofs ------------------------------
(* What a turn of the agent does: UatStore, ModelRouter, CreationTurn and    *)
(* WritingProfile, for any users, threads, model calls, messages, tool       *)
(* calls, facts and transactions.                                            *)
EXTENDS UatStore, ModelRouter, CreationTurn, WritingProfile, WellFoundedInduction, TLAPS

(* UatStore: with the database no live authorization is deleted, and with    *)
(* either backend nobody touches the record of another user where the file   *)
(* can be read.                                                              *)

\* A thread in the store is there for a user, and knows no token Feishu has yet to issue.
CallerShape ==
  \A t \in Threads : caller[t].at # "idle" =>
    caller[t].user \in Users /\ caller[t].token <= issued[caller[t].user]
RecordsIssued ==
  \A u \in Users : tokens[u] # NoRecord => tokens[u].token <= issued[u]

\* The row lock is exclusive.
OneHolder ==
  \A s, t \in Threads : Holds(s) /\ Holds(t) /\ caller[s].user = caller[t].user => s = t

\* Under the lock the thread works on the token of the row, and a rejected one stays dead.
UnderLock ==
  \A t \in Threads : backend = "pg" /\ caller[t].at \in {"locked", "rejected"} =>
    /\ tokens[caller[t].user] # NoRecord
    /\ tokens[caller[t].user].token = caller[t].token
RejectedDead ==
  \A t \in Threads : backend = "pg" /\ caller[t].at = "rejected" =>
    caller[t].token \notin honoured[caller[t].user]

UatInv == UatTypeOK /\ CallerShape /\ RecordsIssued /\ OneHolder /\ UnderLock /\ RejectedDead
-----------------------------------------------------------------------------
\* What a step makes of the visit of one thread, and of the record of one user.
Becomes(t, at, u, k) ==
  /\ caller' \in [Threads -> UatCaller]
  /\ caller'[t].at = at /\ caller'[t].user = u /\ caller'[t].token = k
  /\ \A s \in Threads \ {t} : caller'[s] = caller[s]
Writes(u, k) ==
  /\ tokens' \in [Users -> StoredTokens]
  /\ tokens'[u] # NoRecord /\ tokens'[u].token = k
  /\ \A v \in Users \ {u} : tokens'[v] = tokens[v]

LEMMA CallerTyped ==
  ASSUME UatTypeOK, NEW t \in Threads
  PROVE  /\ caller[t] \in UatCaller /\ caller[t].at \in Stages /\ caller[t].token \in Nat
         /\ caller[t].user \in Users \cup {Nobody} /\ caller[t].read \in [Users -> StoredTokens]
  BY DEF UatTypeOK, UatCaller

LEMMA RecordTyped ==
  ASSUME UatTypeOK, NEW u \in Users, tokens[u] # NoRecord
  PROVE  tokens[u] \in UatRecord /\ tokens[u].token \in Nat
  BY DEF UatTypeOK, StoredTokens, UatRecord

LEMMA Visits ==
  ASSUME UatTypeOK, NEW t \in Threads, NEW c \in UatCaller, caller' = [caller EXCEPT ![t] = c]
  PROVE  Becomes(t, c.at, c.user, c.token)
  BY DEF UatTypeOK, Becomes

LEMMA Leaves ==
  ASSUME UatTypeOK, NEW t \in Threads, LeaveStore(t)
  PROVE  Becomes(t, "idle", Nobody, 0) /\ caller'[t] = NotAsking
  <1>1. /\ NotAsking \in UatCaller /\ NotAsking.at = "idle" /\ NotAsking.user = Nobody
        /\ NotAsking.token = 0
    BY DEF NotAsking, UatCaller, Stages, StoredTokens
  <1>2. caller' = [caller EXCEPT ![t] = NotAsking]
    BY DEF LeaveStore
  <1> QED
    BY <1>1, <1>2, Visits DEF UatTypeOK

LEMMA Arrives ==
  ASSUME UatTypeOK, NEW t \in Threads, NEW u \in Users, NEW k \in Nat, NEW at \in Stages,
         caller' = [caller EXCEPT ![t] = [at |-> at, user |-> u, token |-> k, read |-> tokens]]
  PROVE  Becomes(t, at, u, k)
  <1> DEFINE c == [at |-> at, user |-> u, token |-> k, read |-> tokens]
  <1>1. c \in UatCaller /\ c.at = at /\ c.user = u /\ c.token = k
    BY DEF UatTypeOK, UatCaller
  <1>2. caller' = [caller EXCEPT ![t] = c]
    OBVIOUS
  <1> HIDE DEF c
  <1> QED
    BY <1>1, <1>2, Visits

LEMMA Enters ==
  ASSUME UatTypeOK, NEW t \in Threads, NEW at \in Stages, Enter(t, at)
  PROVE  Becomes(t, at, caller[t].user, caller[t].token)
  <1> DEFINE c == [caller[t] EXCEPT !.at = at]
  <1>1. c \in UatCaller /\ c.at = at /\ c.user = caller[t].user /\ c.token = caller[t].token
    BY CallerTyped DEF UatCaller
  <1>2. caller' = [caller EXCEPT ![t] = c]
    BY DEF Enter
  <1> HIDE DEF c
  <1> QED
    BY <1>1, <1>2, Visits

LEMMA EntersWith ==
  ASSUME UatTypeOK, NEW t \in Threads, NEW k \in Nat, NEW at \in Stages,
         caller' = [caller EXCEPT ![t].at = at, ![t].token = k]
  PROVE  Becomes(t, at, caller[t].user, k)
  <1> DEFINE c == [caller[t] EXCEPT !.at = at, !.token = k]
  <1>1. c \in UatCaller /\ c.at = at /\ c.user = caller[t].user /\ c.token = k
    BY CallerTyped DEF UatCaller
  <1>2. caller' = [caller EXCEPT ![t] = c]
    BY DEF UatTypeOK
  <1> HIDE DEF c
  <1> QED
    BY <1>1, <1>2, Visits

LEMMA Written ==
  ASSUME UatTypeOK, NEW u \in Users, NEW fresh \in BOOLEAN,
         tokens[u] # NoRecord, tokens' = [tokens EXCEPT ![u].fresh = fresh]
  PROVE  Writes(u, tokens[u].token)
  <1> DEFINE r == [tokens[u] EXCEPT !.fresh = fresh]
  <1>1. tokens[u] \in UatRecord
    BY RecordTyped
  <1>2. r \in UatRecord /\ r.token = tokens[u].token /\ r # NoRecord
    BY <1>1, UatAssumption DEF UatRecord
  <1>3. tokens' = [tokens EXCEPT ![u] = r]
    OBVIOUS
  <1> HIDE DEF r
  <1> QED
    BY <1>2, <1>3 DEF Writes, UatTypeOK, StoredTokens

\* The record of u is written over what can be read of the store.
Keeps(u, k) ==
  /\ tokens' \in [Users -> StoredTokens] /\ legible' = TRUE
  /\ tokens'[u] # NoRecord /\ tokens'[u].token = k
  /\ \A v \in Users \ {u} :
       tokens'[v] = tokens[v] \/ (~legible /\ tokens'[v] = NoRecord)

LEMMA Kept ==
  ASSUME UatTypeOK, NEW u \in Users, NEW k \in Nat, Keep(ReadStore, u, k)
  PROVE  Keeps(u, k)
  <1> DEFINE r == [token |-> k, fresh |-> TRUE]
  <1>1. r \in UatRecord /\ r.token = k
    BY DEF UatRecord
  <1>4. r # NoRecord
    BY <1>1, UatAssumption DEF UatRecord
  <1>2. tokens' = [ReadStore EXCEPT ![u] = r] /\ legible' = TRUE
    BY DEF Keep
  <1> HIDE DEF r
  <1>3. ReadStore \in [Users -> StoredTokens]
        /\ \A v \in Users : ReadStore[v] = tokens[v] \/ (~legible /\ ReadStore[v] = NoRecord)
    BY DEF ReadStore, NoRecords, UatTypeOK, StoredTokens
  <1> QED
    BY <1>1, <1>2, <1>3, <1>4 DEF Keeps, StoredTokens
-----------------------------------------------------------------------------
LEMMA UatInitial == UatInit => UatInv
  <1> SUFFICES ASSUME UatInit PROVE UatInv
    OBVIOUS
  <1>1. NotAsking \in UatCaller /\ NotAsking.at = "idle"
    BY DEF NotAsking, UatCaller, Stages, StoredTokens
  <1>2. [token |-> 1, fresh |-> FALSE] \in UatRecord /\ [token |-> 1, fresh |-> FALSE].token = 1
    BY DEF UatRecord
  <1>3. UatTypeOK
    BY <1>1, <1>2 DEF UatInit, UatTypeOK, StoredTokens
  <1>4. \A t \in Threads : caller[t].at = "idle"
    BY <1>1 DEF UatInit
  <1>5. RecordsIssued
    BY <1>2 DEF UatInit, RecordsIssued
  <1> QED
    BY <1>3, <1>4, <1>5 DEF UatInv, CallerShape, OneHolder, UnderLock, RejectedDead, Holds

Invisible(at) == at \notin {"locked", "granted", "rejected", "failed"}

\* A visit that does not hold the row comes or goes.
LEMMA VisitStep ==
  ASSUME UatInv, NEW t \in Threads, NEW at \in Stages, NEW u \in Users \cup {Nobody}, NEW k \in Nat,
         Becomes(t, at, u, k), Invisible(at),
         at # "idle" => u \in Users /\ k <= issued'[u],
         UNCHANGED <<backend, tokens, legible>>, issued' \in [Users -> Nat],
         honoured' \in [Users -> SUBSET Nat],
         \A v \in Users : issued'[v] >= issued[v],
         \A v \in Users, n \in Nat : n \in honoured'[v] => n \in honoured[v] \/ n > issued[v]
  PROVE  UatInv'
  <1>0. UatTypeOK /\ \A s \in Threads : caller[s].token \in Nat
    BY CallerTyped DEF UatInv
  <1>1. UatTypeOK'
    BY DEF UatInv, UatTypeOK, Becomes
  <1>2. CallerShape'
    BY <1>0 DEF UatInv, UatTypeOK, CallerShape, Becomes
  <1>3. RecordsIssued'
    BY <1>0, RecordTyped DEF UatInv, UatTypeOK, RecordsIssued
  <1>4. OneHolder'
    BY DEF UatInv, OneHolder, Holds, Becomes, Invisible
  <1>5. UnderLock'
    BY DEF UatInv, UnderLock, Becomes, Invisible
  <1>6. RejectedDead'
    BY <1>0 DEF UatInv, UatTypeOK, RejectedDead, CallerShape, Becomes, Invisible
  <1> QED
    BY <1>1, <1>2, <1>3, <1>4, <1>5, <1>6 DEF UatInv

\* The visit of a thread to the row of u takes the lock, or goes on with it.
LEMMA LockStep ==
  ASSUME UatInv, NEW t \in Threads, LockRow(t) PROVE UatInv'
  <1> DEFINE u == caller[t].user
  <1>0. UatTypeOK /\ u \in Users /\ backend = "pg"
    BY DEF UatInv, LockRow, CallerShape
  <1>1. CASE LeaveStore(t)
    <2>1. Becomes(t, "idle", Nobody, 0)
      BY <1>0, <1>1, Leaves
    <2>2. UNCHANGED <<backend, tokens, legible, honoured, issued>>
      BY DEF LockRow
    <2> QED
      BY <1>0, <2>1, <2>2, VisitStep DEF UatTypeOK, Stages, Invisible
  <1>2. CASE tokens[u] # NoRecord /\ caller' = [caller EXCEPT ![t].at = "locked", ![t].token = tokens[u].token]
    <2>0. tokens[u].token \in Nat /\ tokens[u].token <= issued[u]
      BY <1>0, <1>2, RecordTyped DEF UatInv, RecordsIssued
    <2>1. Becomes(t, "locked", u, tokens[u].token)
      BY <1>0, <1>2, <2>0, EntersWith DEF Stages
    <2>2. UNCHANGED <<backend, tokens, legible, honoured, issued>>
      BY DEF LockRow
    <2> HIDE DEF u
    <2>3. UatTypeOK' /\ CallerShape' /\ RecordsIssued'
      BY <1>0, <2>0, <2>1, <2>2 DEF UatInv, UatTypeOK, CallerShape, RecordsIssued, Becomes
    <2>4. OneHolder'
      <3>1. \A s \in Threads : Holds(s) => caller[s].user # u
        BY DEF LockRow, RowFree, u
      <3> QED
        BY <2>1, <2>2, <3>1 DEF UatInv, OneHolder, Holds, Becomes
    <2>5. UnderLock' /\ RejectedDead'
      BY <1>2, <2>1, <2>2 DEF UatInv, UnderLock, RejectedDead, Becomes
    <2> QED
      BY <2>3, <2>4, <2>5 DEF UatInv
  <1> QED
    BY <1>1, <1>2 DEF LockRow

\* Feishu has answered.
LEMMA RefreshStep == ASSUME UatInv, NEW t \in Threads, Refresh(t) PROVE UatInv'
  <1> DEFINE u == caller[t].user
             k == caller[t].token
  <1>0. UatTypeOK /\ u \in Users /\ k \in Nat /\ k <= issued[u] /\ issued[u] \in Nat
        /\ (backend = "pg" => Holds(t)) /\ caller[t].at # "rejected"
        /\ UNCHANGED <<backend, tokens, legible>>
    BY CallerTyped DEF UatInv, UatTypeOK, Refresh, MayAsk, Holds, CallerShape
  <1>1. PICK at \in {"granted", "failed", "rejected"}, n \in Nat :
          /\ Becomes(t, at, u, n) /\ n <= issued'[u]
          /\ at = "rejected" => n = k /\ n \notin honoured'[u]
          /\ issued' \in [Users -> Nat] /\ honoured' \in [Users -> SUBSET Nat]
          /\ \A v \in Users : issued'[v] >= issued[v]
          /\ \A v \in Users, m \in Nat : m \in honoured'[v] => m \in honoured[v] \/ m > issued[v]
    <2>1. CASE UNCHANGED <<honoured, issued>>
      <3>1. (Enter(t, "rejected") /\ k \notin honoured[u]) \/ Enter(t, "failed")
        BY <1>0, <2>1 DEF Refresh, UatTypeOK
      <3>2. CASE Enter(t, "rejected") /\ k \notin honoured[u]
        <4>1. Becomes(t, "rejected", u, k)
          BY <1>0, <3>2, Enters DEF Stages
        <4> HIDE DEF u, k
        <4> QED
          BY <1>0, <2>1, <3>2, <4>1 DEF UatTypeOK
      <3>3. CASE Enter(t, "failed")
        <4>1. Becomes(t, "failed", u, k)
          BY <1>0, <3>3, Enters DEF Stages
        <4> HIDE DEF u, k
        <4> QED
          BY <1>0, <2>1, <4>1 DEF UatTypeOK
      <3> QED
        BY <3>1, <3>2, <3>3
    <2>2. CASE /\ honoured' = [honoured EXCEPT ![u] = (@ \ {k}) \cup {issued[u] + 1}]
               /\ issued' = [issued EXCEPT ![u] = @ + 1]
               /\ \/ caller' = [caller EXCEPT ![t].at = "granted", ![t].token = issued[u] + 1]
                  \/ Enter(t, "failed")
      <3>1. /\ issued' \in [Users -> Nat] /\ honoured' \in [Users -> SUBSET Nat]
            /\ \A v \in Users : issued'[v] >= issued[v]
            /\ issued'[u] = issued[u] + 1
            /\ \A v \in Users, m \in Nat : m \in honoured'[v] => m \in honoured[v] \/ m > issued[v]
        <4> HIDE DEF u, k
        <4> QED
          BY <1>0, <2>2 DEF UatTypeOK
      <3>2. Becomes(t, "granted", u, issued[u] + 1) \/ Becomes(t, "failed", u, k)
        <4>1. CASE Enter(t, "failed")
          BY <1>0, <4>1, Enters DEF Stages
        <4>2. CASE caller' = [caller EXCEPT ![t].at = "granted", ![t].token = issued[u] + 1]
          <5> DEFINE n == issued[u] + 1
          <5>1. n \in Nat /\ caller' = [caller EXCEPT ![t].at = "granted", ![t].token = n]
            BY <1>0, <4>2
          <5> HIDE DEF n
          <5>2. Becomes(t, "granted", u, n)
            BY <1>0, <5>1, EntersWith DEF Stages
          <5> QED
            BY <5>2 DEF n
        <4> QED
          BY <2>2, <4>1, <4>2
      <3> HIDE DEF u, k
      <3> QED
        BY <1>0, <3>1, <3>2
    <2> QED
      BY <2>1, <2>2 DEF Refresh
  <1> HIDE DEF u, k
  <1>2. UatTypeOK' /\ RecordsIssued'
    BY <1>0, <1>1, RecordTyped DEF UatInv, UatTypeOK, RecordsIssued, Becomes
  <1>3. CallerShape'
    BY <1>0, <1>1, CallerTyped DEF UatInv, UatTypeOK, CallerShape, Becomes
  <1>4. OneHolder'
    BY <1>0, <1>1 DEF UatInv, OneHolder, Holds, Becomes, u
  <1>5. UnderLock'
    <2>1. backend = "pg" => caller[t].at = "locked"
      BY DEF Refresh, MayAsk
    <2> QED
      BY <1>0, <1>1, <2>1 DEF UatInv, UnderLock, Becomes, u, k
  <1>6. RejectedDead'
    <2> SUFFICES ASSUME NEW s \in Threads, backend' = "pg", caller'[s].at = "rejected"
                 PROVE  caller'[s].token \notin honoured'[caller'[s].user]
      BY DEF RejectedDead
    <2>1. CASE s = t
      BY <1>1, <2>1 DEF Becomes
    <2>2. CASE s # t
      <3>1. caller'[s] = caller[s]
        BY <1>1, <2>2 DEF Becomes
      <3>2. /\ caller[s].token \notin honoured[caller[s].user] /\ caller[s].user \in Users
            /\ caller[s].token <= issued[caller[s].user] /\ caller[s].token \in Nat
        BY <1>0, <3>1, CallerTyped DEF UatInv, RejectedDead, CallerShape
      <3>3. issued[caller[s].user] \in Nat
        BY <1>0, <3>2 DEF UatTypeOK
      <3> QED
        BY <1>1, <3>1, <3>2, <3>3
    <2> QED
      BY <2>1, <2>2
  <1> QED
    BY <1>2, <1>3, <1>4, <1>5, <1>6 DEF UatInv

\* The visit ends with the record of its user written or deleted, in the database alone
\* at the row.
LEMMA WriteStep ==
  ASSUME UatInv, NEW t \in Threads, KeepRefreshed(t) \/ DropRejected(t) \/ SaveUat(t)
  PROVE  UatInv'
  <1> DEFINE u == caller[t].user
             k == caller[t].token
  <1>0. UatTypeOK /\ u \in Users /\ k \in Nat /\ k <= issued[u]
        /\ UNCHANGED <<backend, honoured, issued>> /\ (legible' = legible \/ legible' = TRUE)
    BY CallerTyped DEF UatInv, Keep, KeepRefreshed, DropRejected, SaveUat, CallerShape
  <1>1. Becomes(t, "idle", Nobody, 0)
    BY <1>0, Leaves DEF KeepRefreshed, DropRejected, SaveUat
  <1>2. /\ tokens' \in [Users -> StoredTokens]
        /\ tokens'[u] # NoRecord => tokens'[u].token = k \/ tokens'[u] = tokens[u]
        /\ \A v \in Users \ {u} :
             tokens'[v] = tokens[v] \/ (~legible /\ tokens'[v] = NoRecord)
    <2>1. CASE DropRejected(t)
      <3> HIDE DEF u
      <3> QED
        BY <1>0, <2>1 DEF DropRejected, UatTypeOK, StoredTokens, u
    <2>2. CASE KeepRefreshed(t) \/ SaveUat(t)
      <3>1. Keep(ReadStore, u, k)
        BY <2>2 DEF KeepRefreshed, SaveUat
      <3> HIDE DEF u, k
      <3>2. Keeps(u, k)
        BY <1>0, <3>1, Kept
      <3> QED
        BY <3>2 DEF Keeps
    <2> QED
      BY <2>1, <2>2
  <1>3. backend = "pg" => \A s \in Threads \ {t} : Holds(s) => caller[s].user # u
    BY DEF KeepRefreshed, DropRejected, SaveUat, UatInv, OneHolder, Holds, RowFree
  <1> HIDE DEF u, k
  <1>4. UatTypeOK' /\ CallerShape'
    <2>1. legible' \in BOOLEAN /\ (backend' = "pg" => legible')
      BY <1>0 DEF UatTypeOK
    <2> QED
      BY <1>0, <1>1, <1>2, <2>1 DEF UatInv, UatTypeOK, CallerShape, Becomes
  <1>5. RecordsIssued'
    BY <1>0, <1>2 DEF UatInv, RecordsIssued
  <1>6. OneHolder' /\ RejectedDead'
    BY <1>0, <1>1 DEF UatInv, OneHolder, RejectedDead, Holds, Becomes
  <1>7. UnderLock'
    <2> SUFFICES ASSUME NEW s \in Threads, backend' = "pg", caller'[s].at \in {"locked", "rejected"}
                 PROVE  /\ tokens'[caller'[s].user] # NoRecord
                        /\ tokens'[caller'[s].user].token = caller'[s].token
      BY DEF UnderLock
    <2>1. s # t /\ caller'[s] = caller[s] /\ Holds(s)
      BY <1>0, <1>1 DEF Becomes, Holds
    <2>2. caller[s].user \in Users \ {u}
      BY <1>0, <1>3, <2>1 DEF UatInv, CallerShape, Holds
    <2>3. legible /\ tokens'[caller[s].user] = tokens[caller[s].user]
      BY <1>0, <1>2, <2>2 DEF UatTypeOK
    <2> QED
      BY <1>0, <2>1, <2>2, <2>3 DEF UatInv, UnderLock
  <1> QED
    BY <1>4, <1>5, <1>6, <1>7 DEF UatInv

\* A record ages; the user withdraws the consent.
LEMMA WorldStep ==
  ASSUME UatInv, \/ \E u \in Users : Age(u) \/ Withdraw(u)
                 \/ LoseSight \/ RegainSight
  PROVE  UatInv'
  <1>0. UatTypeOK
    BY DEF UatInv
  <1>1. ASSUME NEW u \in Users, Age(u) PROVE UatInv'
    <2>1. Writes(u, tokens[u].token) /\ tokens[u] # NoRecord
      BY <1>0, <1>1, RecordTyped, Written DEF Age
    <2>2. UNCHANGED <<backend, legible, honoured, issued, caller>>
      BY <1>1 DEF Age
    <2>3. \A v \in Users : (tokens'[v] = NoRecord <=> tokens[v] = NoRecord)
                          /\ (tokens[v] # NoRecord => tokens'[v].token = tokens[v].token)
      BY <2>1 DEF Writes
    <2>4. UatTypeOK' /\ CallerShape' /\ OneHolder' /\ RejectedDead'
      BY <2>1, <2>2 DEF UatInv, UatTypeOK, CallerShape, OneHolder, RejectedDead, Holds, Writes
    <2>5. RecordsIssued'
      BY <2>2, <2>3 DEF UatInv, RecordsIssued
    <2>6. UnderLock'
      BY <2>2, <2>3 DEF UatInv, UnderLock, CallerShape
    <2> QED
      BY <2>4, <2>5, <2>6 DEF UatInv
  <1>2. ASSUME NEW u \in Users, Withdraw(u) PROVE UatInv'
    <2>1. UNCHANGED <<backend, tokens, legible, issued, caller>>
          /\ honoured' \in [Users -> SUBSET Nat] /\ \A v \in Users : honoured'[v] \subseteq honoured[v]
      BY <1>0, <1>2 DEF Withdraw, UatTypeOK
    <2>2. UatTypeOK' /\ CallerShape' /\ RecordsIssued' /\ OneHolder' /\ UnderLock'
      BY <2>1 DEF UatInv, UatTypeOK, CallerShape, RecordsIssued, OneHolder, UnderLock, Holds
    <2>3. RejectedDead'
      BY <2>1 DEF UatInv, RejectedDead, CallerShape
    <2> QED
      BY <2>2, <2>3 DEF UatInv
  <1>3. CASE LoseSight \/ RegainSight
    <2>1. UNCHANGED <<backend, tokens, honoured, issued, caller>>
      BY <1>3 DEF LoseSight, RegainSight
    <2>2. UatTypeOK'
      BY <1>0, <1>3, <2>1 DEF LoseSight, RegainSight, UatTypeOK
    <2> QED
      BY <2>1, <2>2 DEF UatInv, CallerShape, RecordsIssued, OneHolder, UnderLock, RejectedDead, Holds
  <1> QED
    BY <1>1, <1>2, <1>3

LEMMA UatStep == UatInv /\ [UatNext]_uatVars => UatInv'
  <1> SUFFICES ASSUME UatInv, [UatNext]_uatVars PROVE UatInv'
    OBVIOUS
  <1>0. UatTypeOK
    BY DEF UatInv
  <1>1. ASSUME NEW t \in Threads, NEW u \in Users, GetUat(t, u) PROVE UatInv'
    <2>1. tokens[u].token \in Nat /\ tokens[u].token <= issued[u]
      BY <1>0, <1>1, RecordTyped DEF GetUat, UatInv, RecordsIssued, ReadStore, NoRecords
    <2>2. Becomes(t, "expiring", u, tokens[u].token)
      BY <1>0, <1>1, <2>1, Arrives DEF GetUat, Stages
    <2> QED
      BY <1>0, <1>1, <2>1, <2>2, VisitStep DEF GetUat, UatTypeOK, Stages, Invisible
  <1>2. ASSUME NEW t \in Threads, NEW u \in Users, Authorize(t, u) PROVE UatInv'
    <2>1. issued[u] \in Nat /\ issued' \in [Users -> Nat] /\ honoured' \in [Users -> SUBSET Nat]
          /\ (\A v \in Users : issued'[v] >= issued[v]) /\ issued'[u] = issued[u] + 1
          /\ \A v \in Users, n \in Nat : n \in honoured'[v] => n \in honoured[v] \/ n > issued[v]
      BY <1>0, <1>2 DEF Authorize, UatTypeOK
    <2>2. Becomes(t, "issued", u, issued[u] + 1)
      BY <1>0, <1>2, <2>1, Arrives DEF Authorize, Stages
    <2>3. UNCHANGED <<backend, tokens, legible>>
      BY <1>2 DEF Authorize
    <2> QED
      BY <2>1, <2>2, <2>3, VisitStep DEF Stages, Invisible
  <1>3. ASSUME NEW t \in Threads, GiveUpAsking(t) PROVE UatInv'
    <2>1. Becomes(t, "idle", Nobody, 0)
      BY <1>0, <1>3, Leaves DEF GiveUpAsking
    <2> QED
      BY <1>0, <1>3, <2>1, VisitStep DEF GiveUpAsking, UatTypeOK, Stages, Invisible
  <1>4. CASE UNCHANGED uatVars
    BY <1>4 DEF uatVars, UatInv, UatTypeOK, CallerShape, RecordsIssued, OneHolder, UnderLock,
                RejectedDead, Holds
  <1> QED
    BY <1>1, <1>2, <1>3, <1>4, LockStep, RefreshStep, WriteStep, WorldStep DEF UatNext
-----------------------------------------------------------------------------
\* Every reachable store is well formed.
THEOREM UatTypeCorrect == UatSpec => []UatTypeOK
  <1>1. UatInv => UatTypeOK
    BY DEF UatInv
  <1> QED
    BY <1>1, UatInitial, UatStep, PTL DEF UatSpec

\* Only DropRejected removes a record, and under the row lock it removes a dead one.
LEMMA DeleteStep ==
  ASSUME UatInv, [UatNext]_uatVars, NEW u \in Users, backend = "pg",
         tokens[u] # NoRecord, tokens'[u] = NoRecord
  PROVE  tokens[u].token \notin honoured[u]
  <1> USE DEF UatInv
  <1>1. PICK t \in Threads : DropRejected(t)
    <2>1. ASSUME NEW t \in Threads, KeepRefreshed(t) \/ SaveUat(t) PROVE FALSE
      <3>1. caller[t].user \in Users /\ caller[t].token \in Nat
        BY <2>1, CallerTyped DEF KeepRefreshed, SaveUat, CallerShape
      <3>2. Keeps(caller[t].user, caller[t].token) /\ legible
        BY <2>1, <3>1, Kept DEF KeepRefreshed, SaveUat, UatTypeOK
      <3> QED
        BY <3>1, <3>2 DEF Keeps
    <2>2. ASSUME NEW v \in Users, Age(v) PROVE FALSE
      <3>1. Writes(v, tokens[v].token)
        BY <2>2, RecordTyped, Written DEF Age
      <3> QED
        BY <3>1 DEF Writes
    <2>3. tokens' # tokens
      OBVIOUS
    <2> QED
      BY <2>1, <2>2, <2>3 DEF UatNext, uatVars, GetUat, Authorize, LockRow, Refresh, GiveUpAsking,
                              Withdraw, LoseSight, RegainSight
  <1>2. u = caller[t].user
    BY <1>1 DEF DropRejected, UatTypeOK
  <1> QED
    BY <1>1, <1>2 DEF DropRejected, UnderLock, RejectedDead

\* With the database, an authorization is thrown away only when Feishu refuses it.
THEOREM DeletesOnlyDead == UatSpec => DeletedWhenDead
  <1>1. UatInv /\ [UatNext]_uatVars =>
          [\A u \in Users : (backend = "pg" /\ tokens[u] # NoRecord /\ tokens'[u] = NoRecord)
             => tokens[u].token \notin honoured[u]]_uatVars
    BY DeleteStep
  <1> QED
    BY <1>1, UatInitial, UatStep, PTL DEF UatSpec, DeletedWhenDead

\* A thread's step changes at most the record of the user it serves.
LEMMA ServesOne ==
  ASSUME UatInv, [UatNext]_uatVars, NEW t \in Threads, caller'[t] # caller[t], legible,
         NEW u \in Users \ {caller[t].user}
  PROVE  tokens'[u] = tokens[u]
  <1> USE DEF UatInv, UatTypeOK
  <1>1. ASSUME NEW s \in Threads, KeepRefreshed(s) \/ DropRejected(s) \/ SaveUat(s)
        PROVE  tokens'[u] = tokens[u]
    <2>1. s = t
      BY <1>1 DEF KeepRefreshed, DropRejected, SaveUat, LeaveStore
    <2> QED
      BY <1>1, <2>1 DEF KeepRefreshed, DropRejected, SaveUat, Keep, ReadStore
  <1> QED
    BY <1>1 DEF UatNext, uatVars, GetUat, Authorize, LockRow, Refresh, GiveUpAsking, Withdraw, Age,
                LoseSight, RegainSight

\* Serving one user leaves the records of the others alone, in the table and in a file that
\* can be read.
THEOREM KeepsOthers == UatSpec => OthersKept
  <1>1. UatInv /\ [UatNext]_uatVars =>
          [\A t \in Threads : (caller'[t] # caller[t] /\ legible)
             => \A u \in Users \ {caller[t].user} : tokens'[u] = tokens[u]]_uatVars
    BY ServesOne
  <1> QED
    BY <1>1, UatInitial, UatStep, PTL DEF UatSpec, OthersKept

-------------------------------------------------------------------------------
(* ModelRouter: a call fails only when every candidate of the pool it read   *)
(* has been tried, or slipped between the two looks at the clock.            *)

\* What a call has tried, has still to try and has missed is the pool it read.
Covers(c) ==
  /\ c.at = "ordering" => c.healthy \subseteq c.seen /\ c.tried = {}
  /\ c.at \in {"calling", "placeholder"} =>
       c.tried \cup c.healthy \cup c.resting \cup c.slipped = c.seen
  /\ c.at = "calling" => c.healthy \cup c.resting # {}
  /\ c.at = "placeholder" => c.healthy \cup c.resting = {}
  /\ c.at = "failed" /\ c.error \in {"retryable", "auth"} => Exhausted(c)
RouterInv == RouterTypeOK /\ \A k \in Calls : Covers(call[k])

CallStages == {"idle", "retrying", "ordering", "calling", "placeholder", "failed"}
ModelCall ==
  [at : CallStages, seen : SUBSET Models, healthy : SUBSET Models, resting : SUBSET Models,
   slipped : SUBSET Models, tried : SUBSET Models, error : Errors \cup {"none"},
   attempt : 0 .. MaxRetries]
-----------------------------------------------------------------------------
LEMMA StrongestThere ==
  ASSUME RouterAssumption, NEW S \in SUBSET Models, S # {}
  PROVE  Strongest(S) \in S
  <1> DEFINE Less == {ss \in Nat \X Nat : ss[1] < ss[2]}
  <1>1. IsWellFoundedOn(Less, Nat)
    BY NatLessThanWellFounded DEF OpToRel
  <1>2. S \in SUBSET Nat
    BY DEF Models, RouterAssumption
  <1> HIDE DEF Less
  <1>3. PICK m \in S : \A n \in S : ~(<<n, m>> \in Less)
    BY <1>1, <1>2, WFMin
  <1>4. \A n \in S : m <= n
    <2> SUFFICES ASSUME NEW n \in S PROVE m <= n
      OBVIOUS
    <2>1. m \in Nat /\ n \in Nat /\ ~(<<n, m>> \in Less)
      BY <1>2, <1>3
    <2> QED
      BY <2>1 DEF Less
  <1>5. \E m1 \in S : \A n \in S : m1 <= n
    BY <1>4
  <1> QED
    BY <1>5 DEF Strongest

\* One call moves on.
LEMMA OneCallMoves ==
  ASSUME RouterInv, NEW k \in Calls, NEW new \in ModelCall, Covers(new),
         call' = [call EXCEPT ![k] = new], serving' = serving, cooling' \subseteq Models
  PROVE  RouterInv'
  <1>1. /\ call'[k] = new /\ \A j \in Calls \ {k} : call'[j] = call[j]
        /\ call' \in [Calls -> ModelCall]
    BY DEF RouterInv, RouterTypeOK, ModelCall, CallStages
  <1>2. RouterTypeOK'
    BY <1>1 DEF RouterInv, RouterTypeOK, ModelCall, CallStages
  <1>3. \A j \in Calls : Covers(call'[j])
    BY <1>1 DEF RouterInv
  <1> QED
    BY <1>2, <1>3 DEF RouterInv, Covers, Exhausted

LEMMA CallShape == ASSUME RouterInv, NEW k \in Calls PROVE call[k] \in ModelCall /\ Covers(call[k])
  BY DEF RouterInv, RouterTypeOK, ModelCall, CallStages

LEMMA IdleCall ==
  ASSUME RouterAssumption, NEW at \in {"idle", "retrying"}, NEW n \in 0 .. MaxRetries
  PROVE  LET c == [NoModelCall EXCEPT !.at = at, !.attempt = n]
         IN  c \in ModelCall /\ Covers(c)
  BY DEF NoModelCall, ModelCall, CallStages, Covers, Errors, RouterAssumption

\* An error that leaves the router is the call's, or leads to another attempt.
LEMMA RaiseKeeps ==
  ASSUME RouterAssumption, RouterInv, NEW k \in Calls, NEW e \in Errors, NEW tried \in SUBSET Models,
         Raise(k, e, tried), serving' = serving, cooling' \subseteq Models,
         e \in {"retryable", "auth"} => tried \cup call[k].slipped = call[k].seen
  PROVE  RouterInv'
  <1>1. call[k] \in ModelCall
    BY CallShape
  <1>2. CASE e = "retryable" /\ call[k].attempt < MaxRetries
    <2> DEFINE new == [NoModelCall EXCEPT !.at = "retrying", !.attempt = call[k].attempt + 1]
    <2>1. call' = [call EXCEPT ![k] = new]
      BY <1>2 DEF Raise
    <2>2. call[k].attempt + 1 \in 0 .. MaxRetries
      BY <1>1, <1>2 DEF ModelCall, RouterAssumption
    <2>3. new \in ModelCall /\ Covers(new)
      BY <2>2, IdleCall
    <2> QED
      BY <2>1, <2>3, OneCallMoves
  <1>3. CASE ~ (e = "retryable" /\ call[k].attempt < MaxRetries)
    <2> DEFINE new == [call[k] EXCEPT !.at = "failed", !.tried = tried, !.error = e,
                                      !.healthy = {}, !.resting = {}]
    <2>1. call' = [call EXCEPT ![k] = new]
      BY <1>3 DEF Raise
    <2>2. /\ new.at = "failed" /\ new.tried = tried /\ new.error = e /\ new \in ModelCall
          /\ new.slipped = call[k].slipped /\ new.seen = call[k].seen
      BY <1>1 DEF ModelCall, CallStages
    <2> HIDE DEF new
    <2>3. Covers(new)
      BY <2>2 DEF Covers, Exhausted
    <2> QED
      BY <2>1, <2>2, <2>3, OneCallMoves
  <1> QED
    BY <1>2, <1>3
-----------------------------------------------------------------------------
LEMMA AttemptKeeps ==
  ASSUME RouterAssumption, RouterInv, NEW k \in Calls, Attempt(k) PROVE RouterInv'
  <1> DEFINE new == [NoModelCall EXCEPT !.at = "ordering", !.seen = serving,
                       !.healthy = serving \ cooling, !.attempt = call[k].attempt]
  <1>1. call' = [call EXCEPT ![k] = new] /\ serving' = serving /\ cooling' = cooling
    BY DEF Attempt
  <1>2. call[k] \in ModelCall /\ serving \subseteq Models /\ cooling \subseteq Models
    BY CallShape DEF RouterInv, RouterTypeOK
  <1>3. new \in ModelCall
    BY <1>2 DEF NoModelCall, ModelCall, CallStages, Errors
  <1>4. Covers(new)
    BY DEF NoModelCall, Covers
  <1> QED
    BY <1>1, <1>2, <1>3, <1>4, OneCallMoves

LEMMA OrderKeeps ==
  ASSUME RouterAssumption, RouterInv, NEW k \in Calls, Order(k) PROVE RouterInv'
  <1> DEFINE c == call[k]
             resting == c.seen \cap cooling
             listed == c.healthy \cup resting
             new == [c EXCEPT !.resting = resting, !.slipped = c.seen \ listed,
                              !.at = IF listed = {} THEN "placeholder" ELSE "calling"]
  <1>1. /\ c.at = "ordering" /\ call' = [call EXCEPT ![k] = new]
        /\ serving' = serving /\ cooling' = cooling
    BY DEF Order
  <1>2. /\ c \in ModelCall /\ c.healthy \subseteq c.seen /\ c.tried = {}
        /\ cooling \subseteq Models
    BY <1>1, CallShape DEF Covers, RouterInv, RouterTypeOK
  <1>3. /\ new \in ModelCall
        /\ new.healthy = c.healthy /\ new.resting = resting /\ new.slipped = c.seen \ listed
        /\ new.seen = c.seen /\ new.tried = {}
        /\ new.at = IF listed = {} THEN "placeholder" ELSE "calling"
    BY <1>2 DEF ModelCall, CallStages
  <1>4. PICK n : n = new
    OBVIOUS
  <1> HIDE DEF new
  <1>5. Covers(n)
    BY <1>2, <1>3, <1>4 DEF Covers
  <1> QED
    BY <1>1, <1>2, <1>3, <1>4, <1>5, OneCallMoves

LEMMA FailOverKeeps ==
  ASSUME RouterAssumption, RouterInv, NEW k \in Calls, NEW e \in Errors, FailOver(k, e)
  PROVE  RouterInv'
  <1> DEFINE c == call[k]
             part == IF c.healthy # {} THEN c.healthy ELSE c.resting
             h == Strongest(part)
             left == part \ {h}
             new == [c EXCEPT !.healthy = IF c.healthy # {} THEN left ELSE {},
                              !.resting = IF c.healthy # {} THEN c.resting ELSE left,
                              !.tried = c.tried \cup {h}]
  <1>1. /\ c.at = "calling" /\ serving' = serving /\ cooling' = cooling \cup {h}
        /\ IF left = {} /\ (c.healthy = {} \/ c.resting = {})
             THEN Raise(k, e, c.tried \cup {h}) ELSE call' = [call EXCEPT ![k] = new]
    BY DEF FailOver
  <1>2. /\ c \in ModelCall /\ c.healthy \cup c.resting # {}
        /\ c.tried \cup c.healthy \cup c.resting \cup c.slipped = c.seen
        /\ cooling \subseteq Models
    BY <1>1, CallShape DEF Covers, RouterInv, RouterTypeOK
  <1>3. part \in SUBSET Models /\ part # {}
    BY <1>2 DEF ModelCall
  <1>4. h \in part /\ h \in Models
    BY <1>3, StrongestThere
  <1>5. cooling' \subseteq Models /\ c.tried \cup {h} \in SUBSET Models
    BY <1>1, <1>2, <1>4 DEF ModelCall
  <1>p. PICK n : n = new
    OBVIOUS
  <1>6. /\ n \in ModelCall /\ n.at = c.at /\ n.seen = c.seen /\ n.slipped = c.slipped
        /\ n.tried = c.tried \cup {h}
        /\ n.healthy = IF c.healthy # {} THEN left ELSE {}
        /\ n.resting = IF c.healthy # {} THEN c.resting ELSE left
    BY <1>p, <1>2, <1>3, <1>5 DEF ModelCall
  <1>7. CASE left = {} /\ (c.healthy = {} \/ c.resting = {})
    <2>1. Raise(k, e, c.tried \cup {h})
      BY <1>1, <1>7
    <2>2. c.tried \cup {h} \cup c.slipped = c.seen
      BY <1>2, <1>4, <1>7
    <2> QED
      BY <1>1, <1>5, <2>1, <2>2, RaiseKeeps
  <1>8. CASE ~ (left = {} /\ (c.healthy = {} \/ c.resting = {}))
    <2> HIDE DEF new, h
    <2>1. n.healthy \cup n.resting # {}
      BY <1>6, <1>8
    <2>2. n.tried \cup n.healthy \cup n.resting \cup n.slipped = n.seen
      BY <1>2, <1>4, <1>6
    <2>3. Covers(n)
      BY <1>1, <1>6, <2>1, <2>2 DEF Covers
    <2> QED
      BY <1>1, <1>5, <1>p, <1>6, <1>8, <2>3, OneCallMoves
  <1> QED
    BY <1>7, <1>8

LEMMA RefuseKeeps ==
  ASSUME RouterAssumption, RouterInv, NEW k \in Calls, NEW e \in Errors,
         Refuse(k, e)
  PROVE  RouterInv'
  <1>1. /\ call[k].at \in {"calling", "placeholder"} /\ serving' = serving /\ cooling' = cooling
        /\ call[k].at = "calling" => ~ FailsOver(e)
        /\ Raise(k, e, call[k].tried)
    BY DEF Refuse
  <1>2. call[k] \in ModelCall /\ cooling \subseteq Models /\ Covers(call[k])
    BY CallShape DEF RouterInv, RouterTypeOK
  <1>3. call[k].tried \in SUBSET Models
    BY <1>2 DEF ModelCall
  <1>4. e \in {"retryable", "auth"} => call[k].tried \cup call[k].slipped = call[k].seen
    BY <1>1, <1>2 DEF FailsOver, Covers
  <1> QED
    BY <1>1, <1>2, <1>3, <1>4, RaiseKeeps

LEMMA RouterStep ==
  ASSUME RouterAssumption, RouterInv, [RouterNext]_routerVars PROVE RouterInv'
  <1>1. ASSUME NEW k \in Calls, Answer(k) \/ GiveBack(k) PROVE RouterInv'
    <2>1. call' = [call EXCEPT ![k] = NoModelCall] /\ serving' = serving /\ cooling' = cooling
      BY <1>1 DEF Answer, GiveBack
    <2>2. NoModelCall \in ModelCall /\ Covers(NoModelCall)
      BY DEF NoModelCall, ModelCall, CallStages, Covers, Errors, RouterAssumption
    <2> QED
      BY <2>1, <2>2, OneCallMoves DEF RouterInv, RouterTypeOK
  <1>2. CASE \/ \E m \in Models : Recover(m)
             \/ \E S \in SUBSET Models : Reload(S)
             \/ UNCHANGED routerVars
    <2>1. call' = call /\ serving' \subseteq Models /\ cooling' \subseteq Models
      BY <1>2 DEF Recover, Reload, routerVars, RouterInv, RouterTypeOK
    <2> QED
      BY <2>1 DEF RouterInv, RouterTypeOK, Covers, Exhausted
  <1> QED
    BY <1>1, <1>2, AttemptKeeps, OrderKeeps, FailOverKeeps, RefuseKeeps DEF RouterNext

\* Whatever fails, recovers and is reloaded under a model call, it fails on an error another
\* gateway may not have only after trying every candidate of the pool it read, but for those
\* that recovered between its two looks at the clock (ModelRouterMiddleware).
THEOREM FailsExhausted == RouterSpec => []FailsOnlyExhausted
  <1>1. RouterInit => RouterInv
    BY RouterAssumption
    DEF RouterInit, RouterInv, RouterTypeOK, NoModelCall, Covers, Errors, RouterAssumption
  <1>2. RouterInv /\ [RouterNext]_routerVars => RouterInv'
    BY RouterAssumption, RouterStep
  <1>3. RouterInv => FailsOnlyExhausted
    BY DEF RouterInv, Covers, FailsOnlyExhausted
  <1> QED
    BY <1>1, <1>2, <1>3, PTL DEF RouterSpec

-------------------------------------------------------------------------------
(* CreationTurn: a turn makes at most one copy, however often it is run.     *)

DraftStates == [version : 0 .. MaxDraftVersion, origin : Messages \cup {NoMessage}]

\* The origin lock: one save at a time, and the one that writes has found no copy of the turn.
OneSaver ==
  \A t, u \in ToolCalls : toolCall[t] # "idle" /\ toolCall[u] # "idle" => t = u
NothingToFind ==
  \A t \in ToolCalls : toolCall[t] = "writing" => \A d \in Drafted : draft[d].origin # asked

CreationInv == CreationTypeOK /\ OneSaver /\ NothingToFind /\ OneCopyPerTurn
-----------------------------------------------------------------------------
LEMMA CreationInitial == CreationInit => CreationInv
  <1> SUFFICES ASSUME CreationInit PROVE CreationInv
    OBVIOUS
  <1>1. [version |-> 0, origin |-> NoMessage] \in DraftStates
    BY CreationAssumption DEF DraftStates
  <1>2. draft \in [Drafted -> DraftStates] /\ \A d \in Drafted : draft[d].origin = NoMessage
    BY <1>1 DEF CreationInit
  <1>3. grounding \in [status : {"none", "ready", "error"}, turn : Messages \cup {NoMessage}]
    BY DEF CreationInit
  <1>4. CreationTypeOK
    BY <1>2, <1>3 DEF CreationInit, CreationTypeOK, DraftStates
  <1>5. OneSaver /\ NothingToFind
    BY DEF CreationInit, OneSaver, NothingToFind
  <1> QED
    BY <1>2, <1>4, <1>5 DEF CreationInv, OneCopyPerTurn

\* Steps that store nothing new of a turn: a version more of some copies.
Grows ==
  /\ draft' \in [Drafted -> DraftStates]
  /\ \A d \in Drafted : draft'[d].origin = draft[d].origin

LEMMA Grown ==
  ASSUME CreationTypeOK, NEW d \in Drafted, draft[d].version < MaxDraftVersion,
         draft' = [draft EXCEPT ![d].version = @ + 1]
  PROVE  Grows
  <1> DEFINE r == [draft[d] EXCEPT !.version = @ + 1]
  <1>1. draft \in [Drafted -> DraftStates] /\ draft[d] \in DraftStates
    BY DEF CreationTypeOK, DraftStates
  <1>2. draft[d].version + 1 \in 0 .. MaxDraftVersion
    BY <1>1, CreationAssumption DEF DraftStates
  <1>3. r \in DraftStates /\ r.origin = draft[d].origin
    BY <1>1, <1>2 DEF DraftStates
  <1>4. draft' = [draft EXCEPT ![d] = r]
    BY <1>1
  <1> HIDE DEF r
  <1> QED
    BY <1>1, <1>3, <1>4 DEF Grows

LEMMA Unchanged == CreationTypeOK /\ UNCHANGED draft => Grows
  BY DEF Grows, CreationTypeOK, DraftStates

\* A run begins: every save has ended.
LEMMA RunStep ==
  ASSUME CreationInv, NEW m \in Messages, NEW s \in TurnScopes \cup {NoScope}, Run(m, s),
         asked' \in Messages \cup {NoMessage}, scope' \in TurnScopes \cup {NoScope}
  PROVE  CreationInv'
  <1>1. grounding' \in [status : {"none", "ready", "error"}, turn : Messages \cup {NoMessage}]
    BY DEF Run, Load
  <1>2. profile' \in TurnScopes \cup {NoScope}
    BY DEF Run, Load, CreationInv, CreationTypeOK
  <1>3. UNCHANGED <<draft, feedback, toolCall>> /\ verdict' = "none"
    BY DEF Run, Stored
  <1>4. CreationTypeOK'
    BY <1>1, <1>2, <1>3 DEF CreationInv, CreationTypeOK
  <1>5. OneSaver' /\ NothingToFind'
    BY <1>3 DEF Run, OneSaver, NothingToFind
  <1> QED
    BY <1>3, <1>4, <1>5 DEF CreationInv, OneCopyPerTurn

\* A step that leaves the saves alone and adds no copy.
LEMMA GrowStep ==
  ASSUME CreationInv, Grows, Context, UNCHANGED toolCall,
         feedback' \in [Messages -> Targets \cup {NoTarget}],
         verdict' \in {"none", "saved", "stale", "conflict"}
  PROVE  CreationInv'
  <1>1. CreationTypeOK'
    BY DEF CreationInv, CreationTypeOK, Context, Grows, DraftStates
  <1> QED
    BY <1>1 DEF CreationInv, OneSaver, NothingToFind, OneCopyPerTurn, Grows, Context

\* One save goes on: it starts when there is no other, writes when it found nothing.
LEMMA SaveStep ==
  ASSUME CreationInv, NEW t \in ToolCalls, NEW at \in {"idle", "looking", "writing"},
         toolCall' = [toolCall EXCEPT ![t] = at], Stored, Context, UNCHANGED verdict,
         at # "idle" => toolCall[t] # "idle" \/ OriginFree(t),
         at = "writing" => \A d \in Drafted : draft[d].origin # asked
  PROVE  CreationInv'
  <1>0. toolCall \in [ToolCalls -> {"idle", "looking", "writing"}]
    BY DEF CreationInv, CreationTypeOK
  <1>1. CreationTypeOK'
    BY <1>0 DEF CreationInv, CreationTypeOK, Stored, Context
  <1>2. OneSaver'
    BY <1>0 DEF CreationInv, OneSaver, OriginFree
  <1>3. NothingToFind'
    BY <1>0 DEF CreationInv, NothingToFind, Stored, Context
  <1> QED
    BY <1>1, <1>2, <1>3 DEF CreationInv, OneCopyPerTurn, Stored

\* The copy of a turn is written: there was none.
LEMMA CreateStep ==
  ASSUME CreationInv, NEW t \in ToolCalls, NEW n \in 1 .. MaxDraftVersion, CreateCopy(t, n)
  PROVE  CreationInv'
  <1>1. PICK d \in Drafted : draft' = [draft EXCEPT ![d] = [version |-> n, origin |-> asked]]
    BY DEF CreateCopy
  <1>2. asked \in Messages \cup {NoMessage} /\ draft \in [Drafted -> DraftStates]
        /\ toolCall \in [ToolCalls -> {"idle", "looking", "writing"}]
    BY DEF CreationInv, CreationTypeOK, DraftStates
  <1>3. [version |-> n, origin |-> asked] \in DraftStates
    BY <1>2, CreationAssumption DEF DraftStates
  <1>4. /\ draft' \in [Drafted -> DraftStates] /\ draft'[d].origin = asked
        /\ \A e \in Drafted \ {d} : draft'[e] = draft[e]
    BY <1>1, <1>2, <1>3
  <1>5. toolCall' = [toolCall EXCEPT ![t] = "idle"] /\ Context /\ UNCHANGED <<feedback, verdict>>
    BY DEF CreateCopy
  <1>6. CreationTypeOK'
    BY <1>2, <1>4, <1>5 DEF CreationInv, CreationTypeOK, Context, DraftStates
  <1>7. \A e \in Drafted : draft[e].origin # asked
    BY DEF CreateCopy, CreationInv, NothingToFind
  <1>8. OneCopyPerTurn'
    BY <1>4, <1>7 DEF CreationInv, OneCopyPerTurn
  <1>9. \A u \in ToolCalls : toolCall'[u] = "idle"
    BY <1>2, <1>5 DEF CreateCopy, CreationInv, OneSaver
  <1> QED
    BY <1>6, <1>8, <1>9 DEF CreationInv, OneSaver, NothingToFind

LEMMA ReviseStep ==
  ASSUME CreationInv, NEW d \in Drafted, NEW v \in 1 .. MaxDraftVersion, Revise(d, v)
  PROVE  CreationInv'
  <1>0. CreationTypeOK
    BY DEF CreationInv
  <1>1. Grows
    BY <1>0, Grown, Unchanged DEF Revise, Stored
  <1>2. feedback' \in [Messages -> Targets \cup {NoTarget}]
    BY <1>0 DEF Revise, Stored, CreationTypeOK, Targets
  <1>3. verdict' \in {"none", "saved", "stale", "conflict"}
    BY DEF Revise
  <1> QED
    BY <1>1, <1>2, <1>3, GrowStep DEF Revise

LEMMA CreationStep == CreationInv /\ [CreationNext]_creationVars => CreationInv'
  <1> SUFFICES ASSUME CreationInv, [CreationNext]_creationVars PROVE CreationInv'
    OBVIOUS
  <1>0. CreationTypeOK
    BY DEF CreationInv
  <1>1. ASSUME NEW m \in Messages, NEW s \in TurnScopes, Submit(m, s) PROVE CreationInv'
    BY <1>1, RunStep DEF Submit
  <1>2. CASE RunAgain
    <2>1. asked \in Messages /\ scope \in TurnScopes \cup {NoScope}
      BY <1>0, <1>2 DEF RunAgain, CreationTypeOK
    <2> QED
      BY <1>2, <2>1, RunStep DEF RunAgain
  <1>3. ASSUME NEW t \in ToolCalls, SaveCopy(t) PROVE CreationInv'
    BY <1>3, SaveStep DEF SaveCopy
  <1>4. ASSUME NEW t \in ToolCalls, FindByOrigin(t) PROVE CreationInv'
    <2>1. CASE \E d \in Drafted : draft[d].origin = asked
      <3>1. toolCall' = [toolCall EXCEPT ![t] = "idle"]
        BY <1>4, <2>1 DEF FindByOrigin
      <3> QED
        BY <1>4, <3>1, SaveStep DEF FindByOrigin
    <2>2. CASE \A d \in Drafted : draft[d].origin # asked
      <3>1. toolCall' = [toolCall EXCEPT ![t] = "writing"]
        BY <1>4, <2>2 DEF FindByOrigin
      <3> QED
        BY <1>4, <2>2, <3>1, SaveStep DEF FindByOrigin
    <2> QED
      BY <2>1, <2>2
  <1>5. ASSUME NEW t \in ToolCalls, StopSaving(t) PROVE CreationInv'
    BY <1>5, SaveStep DEF StopSaving
  <1>6. ASSUME NEW d \in Drafted, EditElsewhere(d) PROVE CreationInv'
    <2>1. Grows
      <3>1. draft[d].version < MaxDraftVersion
        BY <1>6, CreationAssumption DEF EditElsewhere
      <3> QED
        BY <1>0, <1>6, <3>1, Grown DEF EditElsewhere
    <2> QED
      BY <1>0, <1>6, <2>1, GrowStep DEF EditElsewhere, CreationTypeOK
  <1>7. CASE UNCHANGED creationVars
    BY <1>7 DEF creationVars, CreationInv, CreationTypeOK, OneSaver, NothingToFind, OneCopyPerTurn
  <1> QED
    BY <1>1, <1>2, <1>3, <1>4, <1>5, <1>6, <1>7, CreateStep, ReviseStep DEF CreationNext
-----------------------------------------------------------------------------
\* Every reachable state is well formed.
THEOREM CreationTypeCorrect == CreationSpec => []CreationTypeOK
  <1>1. CreationInv => CreationTypeOK
    BY DEF CreationInv
  <1> QED
    BY <1>1, CreationInitial, CreationStep, PTL DEF CreationSpec

\* A user message makes at most one copy: repeated runs, parallel tool calls and saves that
\* stop half-way included.
THEOREM OneCopy == CreationSpec => []OneCopyPerTurn
  <1>1. CreationInv => OneCopyPerTurn
    BY DEF CreationInv
  <1> QED
    BY <1>1, CreationInitial, CreationStep, PTL DEF CreationSpec

-------------------------------------------------------------------------------
(* WritingProfile: a profile knows every fact of its scope and no other.     *)

EditorStates ==
  [at : {"idle", "writing", "recorded"}, of : Sources \cup {NoAccount}, on : Occasions,
   scope : Scopes, adds : SUBSET Facts, reads : SUBSET Facts, rebuilds : SUBSET Scopes]

\* What a transaction is about.
OpenOnSource ==
  \A s \in Editors : editor[s].at # "idle" =>
    editor[s].of \in Sources /\ (editor[s].on = <<"adopted">> => editor[s].of \in Drafts)

\* The lock of the user: one transaction has read the facts, and they are still these.
OneRecorded ==
  \A s, t \in Editors : editor[s].at = "recorded" /\ editor[t].at = "recorded" => s = t
RecordedFrom(e) ==
  /\ e.reads = learned \cup e.adds
  /\ \A f \in e.adds : f.scope = e.scope
  /\ e.adds # {} => Whole \in e.rebuilds /\ e.scope \in e.rebuilds
AllRecorded == \A s \in Editors : editor[s].at = "recorded" => RecordedFrom(editor[s])

ProfileInv == ProfileTypeOK /\ OpenOnSource /\ OneRecorded /\ AllRecorded /\ OwnFactsLearned
-----------------------------------------------------------------------------
LEMMA NotEditingTyped == NotEditing \in EditorStates /\ NotEditing.at = "idle"
  BY DEF NotEditing, EditorStates, Occasions, Binding, Scopes

LEMMA WholeScope == Whole \in Scopes /\ Bindings \subseteq Scopes
  BY DEF Scopes

LEMMA ProfileInitial == ProfileInit => ProfileInv
  <1> SUFFICES ASSUME ProfileInit PROVE ProfileInv
    OBVIOUS
  <1>1. profiles \in [Scopes -> [known : BOOLEAN, facts : SUBSET Facts]]
        /\ \A c \in Scopes : profiles[c].facts = {}
    BY DEF ProfileInit, NoProfile
  <1>2. ProfileTypeOK
    BY <1>1, NotEditingTyped, WholeScope DEF ProfileInit, ProfileTypeOK, EditorStates
  <1>3. OwnFactsLearned
    BY <1>1, WholeScope DEF ProfileInit, OwnFactsLearned, Listed
  <1>4. \A s \in Editors : editor[s].at = "idle"
    BY NotEditingTyped DEF ProfileInit
  <1> QED
    BY <1>2, <1>3, <1>4 DEF ProfileInv, OpenOnSource, OneRecorded, AllRecorded

\* One transaction becomes e, the others stay.
Edits(s, e) ==
  /\ editor' \in [Editors -> EditorStates]
  /\ editor'[s] = e /\ \A t \in Editors \ {s} : editor'[t] = editor[t]

LEMMA Edited ==
  ASSUME ProfileTypeOK, NEW s \in Editors, NEW e \in EditorStates, editor' = [editor EXCEPT ![s] = e]
  PROVE  Edits(s, e)
  BY DEF ProfileTypeOK, EditorStates, Edits

LEMMA EditorTyped ==
  ASSUME ProfileTypeOK, NEW s \in Editors
  PROVE  editor[s] \in EditorStates
  BY DEF ProfileTypeOK, EditorStates

\* A transaction that has recorded nothing, or ends without a trace.
LEMMA QuietStep ==
  ASSUME ProfileInv, NEW s \in Editors, NEW e \in EditorStates, Edits(s, e), e.at # "recorded",
         e.at # "idle" => e.of \in Sources /\ (e.on = <<"adopted">> => e.of \in Drafts),
         UNCHANGED <<niche, bound, learned, profiles>>
  PROVE  ProfileInv'
  <1>1. ProfileTypeOK'
    BY DEF ProfileInv, ProfileTypeOK, Edits, EditorStates
  <1>2. OpenOnSource' /\ OneRecorded'
    BY DEF ProfileInv, OpenOnSource, OneRecorded, Edits
  <1>3. AllRecorded'
    BY DEF ProfileInv, AllRecorded, RecordedFrom, Edits
  <1>4. OwnFactsLearned'
    BY DEF ProfileInv, OwnFactsLearned, Listed
  <1> QED
    BY <1>1, <1>2, <1>3, <1>4 DEF ProfileInv

LEMMA BeginStep ==
  ASSUME ProfileInv, NEW s \in Editors, NEW v \in Sources, NEW o \in Occasions, NEW c \in Scopes,
         o = <<"adopted">> => v \in Drafts, Begin(s, v, o, c)
  PROVE  ProfileInv'
  <1> DEFINE e == [NotEditing EXCEPT !.at = "writing", !.of = v, !.on = o, !.scope = c]
  <1>1. e \in EditorStates /\ e.at = "writing" /\ e.of = v /\ e.on = o
    BY NotEditingTyped DEF EditorStates
  <1>2. editor' = [editor EXCEPT ![s] = e] /\ UNCHANGED <<niche, bound, learned, profiles>>
    BY DEF Begin
  <1>3. ProfileTypeOK
    BY DEF ProfileInv
  <1> HIDE DEF e
  <1> QED
    BY <1>1, <1>2, <1>3, Edited, QuietStep

\* The niche or a binding changes: transactions and profiles do not.
LEMMA BindStep ==
  ASSUME ProfileInv, niche' \in [Accounts -> Niches], bound' \in [Sources -> Scopes],
         UNCHANGED <<learned, profiles, editor>>
  PROVE  ProfileInv'
  BY DEF ProfileInv, ProfileTypeOK, OpenOnSource, OneRecorded, AllRecorded, RecordedFrom,
         OwnFactsLearned, Listed

\* The scope a version has, or is bound to.
LEMMA ScopeTyped ==
  ASSUME ProfileTypeOK, NEW v \in Sources, NEW a \in Accounts \cup {NoAccount}
  PROVE  ScopeFor(v, a) \in Scopes
  <1>1. CASE bound[v] # Whole \/ a = NoAccount
    BY <1>1 DEF ProfileTypeOK, ScopeFor
  <1>2. CASE bound[v] = Whole /\ a # NoAccount
    <2>1. a \in Accounts /\ niche[a] \in Niches
      BY <1>2 DEF ProfileTypeOK
    <2> QED
      BY <1>2, <2>1 DEF ScopeFor, Scopes, Bindings
  <1> QED
    BY <1>1, <1>2

\* What an event adds: facts, of the scope of the event.
LEMMA FactsTyped ==
  ASSUME NEW e \in EditorStates, e.of \in Sources, e.on = <<"adopted">> => e.of \in Drafts
  PROVE  Fresh(e) \subseteq Facts /\ \A f \in Fresh(e) : f.scope = e.scope
  <1>1. Lost(e) \subseteq Drafts
    BY ProfileAssumption DEF Lost
  <1>2. {e.on} \cup ({"comparison"} \X Lost(e)) \subseteq Occasions
    BY <1>1 DEF EditorStates, Occasions
  <1>3. e.scope \in Scopes
    BY DEF EditorStates
  <1>4. FactsOf(e) \subseteq Facts /\ \A f \in FactsOf(e) : f.scope = e.scope
    BY <1>2, <1>3 DEF FactsOf, Facts
  <1> QED
    BY <1>4 DEF Fresh

LEMMA RecordStep ==
  ASSUME ProfileInv, NEW s \in Editors, RecordExactEvent(s) PROVE ProfileInv'
  <1> DEFINE m == editor[s]
             e == IF m.on = <<"metric">> THEN [m EXCEPT !.scope = bound[m.of]] ELSE m
             new == Fresh(e)
             rebuilds == IF new # {} THEN {Whole, e.scope}
                         ELSE IF profiles[e.scope].known THEN {} ELSE {e.scope}
             r == [m EXCEPT !.at = "recorded", !.scope = e.scope, !.adds = new,
                            !.reads = learned \cup new, !.rebuilds = rebuilds]
  <1>1. ProfileTypeOK /\ m \in EditorStates /\ m.at = "writing" /\ m.of \in Sources
        /\ (m.on = <<"adopted">> => m.of \in Drafts)
    BY EditorTyped DEF ProfileInv, OpenOnSource, RecordExactEvent, ActorFree
  <1>2. e \in EditorStates /\ e.of = m.of /\ e.on = m.on
    <2>1. bound[m.of] \in Scopes
      BY <1>1 DEF ProfileTypeOK
    <2> QED
      BY <1>1, <2>1 DEF EditorStates
  <1>3. editor' = [editor EXCEPT ![s] = r] /\ UNCHANGED <<niche, bound, learned, profiles>>
    BY <1>1 DEF RecordExactEvent, ProfileTypeOK
  <1>4. \A t \in Editors : editor[t].at # "recorded"
    BY DEF RecordExactEvent, ActorFree
  <1> HIDE DEF m, e
  <1>5. new \subseteq Facts /\ (\A f \in new : f.scope = e.scope) /\ e.scope \in Scopes
    <2>1. e.scope \in Scopes
      BY <1>2 DEF EditorStates
    <2> QED
      BY <1>1, <1>2, <2>1, FactsTyped
  <1> HIDE DEF new
  <1>6. rebuilds \subseteq Scopes /\ (new # {} => rebuilds = {Whole, e.scope})
    BY <1>5, WholeScope
  <1> HIDE DEF rebuilds
  <1>7. /\ r \in EditorStates /\ r.of = m.of /\ r.on = m.on /\ r.at = "recorded"
        /\ r.scope = e.scope /\ r.adds = new /\ r.reads = learned \cup new /\ r.rebuilds = rebuilds
    BY <1>1, <1>5, <1>6 DEF EditorStates, ProfileTypeOK
  <1> HIDE DEF r
  <1>8. Edits(s, r)
    BY <1>1, <1>3, <1>7, Edited
  <1>9. ProfileTypeOK'
    BY <1>1, <1>3, <1>8 DEF ProfileTypeOK, Edits, EditorStates
  <1>10. OpenOnSource' /\ OneRecorded'
    BY <1>1, <1>4, <1>7, <1>8 DEF ProfileInv, OpenOnSource, OneRecorded, Edits
  <1>11. AllRecorded'
    BY <1>3, <1>4, <1>5, <1>6, <1>7, <1>8 DEF AllRecorded, RecordedFrom, Edits
  <1>12. OwnFactsLearned'
    BY <1>3 DEF ProfileInv, OwnFactsLearned, Listed
  <1> QED
    BY <1>9, <1>10, <1>11, <1>12 DEF ProfileInv

\* The profiles are what the facts read make of them; a fact it did not add is in them.
LEMMA CommitStep ==
  ASSUME ProfileInv, NEW s \in Editors, Commit(s) PROVE ProfileInv'
  <1> DEFINE e == editor[s]
  <1>1. ProfileTypeOK /\ e \in EditorStates /\ e.at = "recorded" /\ e.of \in Sources /\ RecordedFrom(e)
    BY EditorTyped DEF ProfileInv, OpenOnSource, AllRecorded, Commit
  <1>2. /\ bound' = IF e.on = <<"metric">> THEN bound ELSE [bound EXCEPT ![e.of] = e.scope]
        /\ learned' = learned \cup e.adds
        /\ profiles' = [c \in Scopes |-> IF c \in e.rebuilds THEN Rebuilt(e.reads, c) ELSE profiles[c]]
        /\ editor' = [editor EXCEPT ![s] = NotEditing] /\ UNCHANGED niche
    BY DEF Commit
  <1>3. Edits(s, NotEditing)
    BY <1>1, <1>2, NotEditingTyped, Edited
  <1>4. \A t \in Editors : editor'[t].at # "recorded"
    BY <1>1, <1>3, NotEditingTyped DEF ProfileInv, OneRecorded, Edits
  <1>5. OpenOnSource'
    BY <1>3, NotEditingTyped DEF ProfileInv, OpenOnSource, Edits
  <1> HIDE DEF e
  <1>6. e.adds \subseteq Facts /\ e.reads \subseteq Facts /\ e.scope \in Scopes
    BY <1>1 DEF EditorStates
  <1>7. \A c \in Scopes : profiles[c] \in [known : BOOLEAN, facts : SUBSET Facts]
    BY <1>1 DEF ProfileTypeOK
  <1>8. \A c \in Scopes : /\ Rebuilt(e.reads, c) \in [known : BOOLEAN, facts : SUBSET Facts]
                          /\ Rebuilt(e.reads, c).facts = Listed(e.reads, c)
    BY <1>6 DEF Rebuilt, Listed
  <1>9. \A c \in Scopes : profiles'[c].facts = IF c \in e.rebuilds THEN Listed(e.reads, c)
                                               ELSE profiles[c].facts
    BY <1>2, <1>8
  <1>10. ProfileTypeOK'
    <2>1. profiles' \in [Scopes -> [known : BOOLEAN, facts : SUBSET Facts]]
      BY <1>2, <1>7, <1>8
    <2>2. bound' \in [Sources -> Scopes]
      BY <1>1, <1>2, <1>6 DEF ProfileTypeOK
    <2> QED
      BY <1>1, <1>2, <1>3, <1>6, <2>1, <2>2 DEF ProfileTypeOK, Edits, EditorStates
  <1>11. profiles'[Whole].facts = learned'
    BY <1>1, <1>2, <1>9, WholeScope DEF ProfileInv, OwnFactsLearned, RecordedFrom, Listed
  <1>12. ASSUME NEW c \in Bindings
         PROVE  /\ {f \in learned' : f.scope = c} \subseteq profiles'[c].facts
                /\ profiles'[c].facts \subseteq Listed(learned', c)
    <2>1. CASE c \in e.rebuilds
      BY <1>1, <1>2, <1>9, <1>12, <2>1, WholeScope DEF RecordedFrom, Listed
    <2>2. CASE c \notin e.rebuilds
      <3>1. \A f \in e.adds : f.scope # c
        BY <1>1, <2>2 DEF RecordedFrom
      <3>2. profiles'[c].facts = profiles[c].facts
        BY <1>9, <1>12, <2>2, WholeScope
      <3> QED
        BY <1>2, <3>1, <3>2 DEF ProfileInv, OwnFactsLearned, Listed
    <2> QED
      BY <2>1, <2>2
  <1>13. OwnFactsLearned'
    BY <1>11, <1>12 DEF OwnFactsLearned, Listed
  <1> QED
    BY <1>4, <1>5, <1>10, <1>13 DEF ProfileInv, OneRecorded, AllRecorded

LEMMA ProfileStep == ProfileInv /\ [ProfileNext]_profileVars => ProfileInv'
  <1> SUFFICES ASSUME ProfileInv, [ProfileNext]_profileVars PROVE ProfileInv'
    OBVIOUS
  <1>0. ProfileTypeOK /\ Drafts \subseteq Sources /\ Opinions \subseteq Sources
    BY DEF ProfileInv, Sources
  <1>1. ASSUME NEW s \in Editors, NEW v \in Drafts, NEW o \in Occasions,
               NEW a \in Accounts \cup {NoAccount}, ChangeCopy(s, v, o, a)
        PROVE  ProfileInv'
    <2>1. ScopeFor(v, a) \in Scopes
      BY <1>0, ScopeTyped
    <2> QED
      BY <1>0, <1>1, <2>1, BeginStep DEF ChangeCopy
  <1>2. ASSUME NEW v \in Drafts, NEW a \in Accounts, RepeatChange(v, a) PROVE ProfileInv'
    <2>1. ScopeFor(v, a) \in Scopes
      BY <1>0, ScopeTyped
    <2>2. bound' \in [Sources -> Scopes] /\ niche' \in [Accounts -> Niches]
      BY <1>0, <1>2, <2>1 DEF RepeatChange, ProfileTypeOK
    <2> QED
      BY <1>2, <2>2, BindStep DEF RepeatChange
  <1>3. ASSUME NEW s \in Editors, NEW v \in Drafts, BackfillMetric(s, v) PROVE ProfileInv'
    <2>1. <<"metric">> \in Occasions /\ Whole \in Scopes
      BY WholeScope DEF Occasions
    <2> QED
      BY <1>0, <1>3, <2>1, BeginStep DEF BackfillMetric
  <1>4. ASSUME NEW s \in Editors, NEW g \in Opinions, GiveFeedback(s, g) PROVE ProfileInv'
    <2>1. <<"feedback">> \in Occasions /\ <<"feedback">> # <<"adopted">>
      BY DEF Occasions
    <2>2. OpinionOn[g] \in Sources
      BY <1>0, ProfileAssumption
    <2>3. bound[OpinionOn[g]] \in Scopes /\ bound[g] \in Scopes
      BY <1>0, <2>2 DEF ProfileTypeOK
    <2>4. PICK c \in Scopes : Begin(s, g, <<"feedback">>, c)
      BY <1>4, <2>3 DEF GiveFeedback
    <2> QED
      BY <1>0, <2>1, <2>4, BeginStep
  <1>5. ASSUME NEW a \in Accounts, NEW n \in Niches, EditAccount(a, n) PROVE ProfileInv'
    <2>1. niche' \in [Accounts -> Niches] /\ bound' \in [Sources -> Scopes]
      BY <1>0, <1>5 DEF EditAccount, ProfileTypeOK
    <2> QED
      BY <1>5, <2>1, BindStep DEF EditAccount
  <1>6. ASSUME NEW s \in Editors, RollBack(s) PROVE ProfileInv'
    <2>1. Edits(s, NotEditing)
      BY <1>0, <1>6, NotEditingTyped, Edited DEF RollBack
    <2> QED
      BY <1>6, <2>1, NotEditingTyped, QuietStep DEF RollBack
  <1>7. CASE UNCHANGED profileVars
    BY <1>0, <1>7, BindStep DEF profileVars, ProfileTypeOK
  <1> QED
    BY <1>1, <1>2, <1>3, <1>4, <1>5, <1>6, <1>7, RecordStep, CommitStep DEF ProfileNext
-----------------------------------------------------------------------------
\* Every reachable state is well formed.
THEOREM ProfileTypeCorrect == ProfileSpec => []ProfileTypeOK
  <1>1. ProfileInv => ProfileTypeOK
    BY DEF ProfileInv
  <1> QED
    BY <1>1, ProfileInitial, ProfileStep, PTL DEF ProfileSpec

\* The profile of everything knows every fact, the one of a scope every fact of its own and
\* none of another's, however the transactions of the user overlap, fail or repeat.
THEOREM LearnsOwnFacts == ProfileSpec => []OwnFactsLearned
  <1>1. ProfileInv => OwnFactsLearned
    BY DEF ProfileInv
  <1> QED
    BY <1>1, ProfileInitial, ProfileStep, PTL DEF ProfileSpec
===============================================================================
