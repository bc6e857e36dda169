------------------------------ MODULE UatStore ------------------------------
(* Feishu user tokens (tools/uat_store.py).  A stored record holds a refresh *)
(* token Feishu honours once: refreshing consumes it and issues another.     *)
(* Threads read a record, refresh it when it is about to expire, and save    *)
(* what an OAuth callback brought.  The store is a PostgreSQL table, or a    *)
(* file when no database is configured; which of the two is fixed for a      *)
(* behaviour.  Feishu is modelled from how the code uses it.                 *)
EXTENDS Naturals

CONSTANTS
  Users, Threads,
  NoRecord, Nobody,
  MaxToken      \* bound: refresh tokens issued to one user

ASSUME UatAssumption ==
  /\ MaxToken \in Nat /\ Nobody \notin Users
  /\ NoRecord \notin [token : Nat, fresh : BOOLEAN]

VARIABLES
  backend,    \* "pg" or "file"
  tokens,     \* the stored record of each user
  legible,    \* the file can be read and decrypted
  honoured,   \* Feishu: the refresh tokens it still accepts
  issued,     \* Feishu: how many it has issued
  caller      \* what each thread is doing

uatVars == <<backend, tokens, legible, honoured, issued, caller>>

UatRecord == [token : Nat, fresh : BOOLEAN]
StoredTokens == UatRecord \cup {NoRecord}
\* expiring: get_uat saw a record close to its expiry; locked: the row lock is held and the
\* row was read again; granted, rejected, failed: Feishu's answer; issued: a callback's token.
Stages == {"idle", "expiring", "locked", "granted", "rejected", "failed", "issued"}
UatCaller == [at : Stages, user : Users \cup {Nobody}, token : Nat,
               read : [Users -> StoredTokens]]

NotAsking == [at |-> "idle", user |-> Nobody, token |-> 0, read |-> [u \in Users |-> NoRecord]]

UatTypeOK ==
  /\ backend \in {"pg", "file"}
  /\ tokens \in [Users -> StoredTokens]
  /\ legible \in BOOLEAN /\ (backend = "pg" => legible)
  /\ honoured \in [Users -> SUBSET Nat]
  /\ issued \in [Users -> Nat]
  /\ caller \in [Threads -> UatCaller]

UatInit ==
  /\ backend \in {"pg", "file"}
  /\ tokens = [u \in Users |-> [token |-> 1, fresh |-> FALSE]]
  /\ legible = TRUE
  /\ honoured = [u \in Users |-> {1}]
  /\ issued = [u \in Users |-> 1]
  /\ caller = [t \in Threads |-> NotAsking]

-----------------------------------------------------------------------------
Enter(t, at) == caller' = [caller EXCEPT ![t].at = at]
LeaveStore(t) == caller' = [caller EXCEPT ![t] = NotAsking]

\* What a read of the store gives.  _read_store answers any error, of the disk or of the
\* decryption, with an empty store.
NoRecords == [u \in Users |-> NoRecord]
ReadStore == IF legible THEN tokens ELSE NoRecords

\* The transaction of _refresh_uat_pg_locked holds the user's row until it ends.
Holds(t) == backend = "pg" /\ caller[t].at \in {"locked", "granted", "rejected", "failed"}
RowFree(u) == \A t \in Threads : Holds(t) => caller[t].user # u

(* get_uat: a record that is missing or good for ten minutes is returned as it *)
(* is; otherwise the thread goes on with what it has read.                     *)
GetUat(t, u) ==
  /\ caller[t].at = "idle"
  /\ ReadStore[u] # NoRecord /\ ~ReadStore[u].fresh
  /\ caller' = [caller EXCEPT ![t] = [at |-> "expiring", user |-> u,
                                      token |-> tokens[u].token, read |-> tokens]]
  /\ UNCHANGED <<backend, tokens, legible, honoured, issued>>

(* select ... for update, and the second look: gone or refreshed meanwhile. *)
\* Mutant: the refresh token read before the lock is used.
LockRowStale(t) ==
  LET u == caller[t].user
  IN  /\ backend = "pg" /\ caller[t].at = "expiring" /\ RowFree(u)
      /\ IF tokens[u] = NoRecord THEN LeaveStore(t) ELSE Enter(t, "locked")
      /\ UNCHANGED <<backend, tokens, legible, honoured, issued>>
LockRow(t) ==
  LET u == caller[t].user
  IN  /\ backend = "pg" /\ caller[t].at = "expiring" /\ RowFree(u)
      /\ IF tokens[u] = NoRecord \/ tokens[u].fresh
           THEN LeaveStore(t)
           ELSE caller' = [caller EXCEPT ![t].at = "locked", ![t].token = tokens[u].token]
      /\ UNCHANGED <<backend, tokens, legible, honoured, issued>>

(* _refresh_user_token: one POST to Feishu.  An accepted token is consumed and *)
(* another issued, whether or not the answer arrives; a token Feishu does not  *)
(* accept is answered with 400; any other error leaves the record alone.       *)
MayAsk(t) == IF backend = "pg" THEN caller[t].at = "locked" ELSE caller[t].at = "expiring"
Refresh(t) ==
  LET u == caller[t].user
      k == caller[t].token
  IN  /\ MayAsk(t)
      /\ \/ /\ k \in honoured[u] /\ issued[u] < MaxToken
            /\ honoured' = [honoured EXCEPT ![u] = (@ \ {k}) \cup {issued[u] + 1}]
            /\ issued' = [issued EXCEPT ![u] = @ + 1]
            /\ \/ caller' = [caller EXCEPT ![t].at = "granted", ![t].token = issued[u] + 1]
               \/ Enter(t, "failed")
         \/ k \notin honoured[u] /\ Enter(t, "rejected") /\ UNCHANGED <<honoured, issued>>
         \/ Enter(t, "failed") /\ UNCHANGED <<honoured, issued>>
      /\ UNCHANGED <<backend, tokens, legible>>

\* The record of a user is written: the row, or the file read again under _store_lock and
\* replaced as a whole.  A file that could not be read is replaced by this record alone.
Keep(from, u, k) ==
  /\ tokens' = [from EXCEPT ![u] = [token |-> k, fresh |-> TRUE]]
  /\ legible' = TRUE

\* Mutant: the file is written from what get_uat read before it asked Feishu.
KeepRefreshedFromRead(t) ==
  /\ caller[t].at = "granted"
  /\ Keep(IF backend = "pg" THEN tokens ELSE caller[t].read, caller[t].user, caller[t].token)
  /\ LeaveStore(t)
  /\ UNCHANGED <<backend, honoured, issued>>
KeepRefreshed(t) ==
  /\ caller[t].at = "granted"
  /\ Keep(ReadStore, caller[t].user, caller[t].token)
  /\ LeaveStore(t)
  /\ UNCHANGED <<backend, honoured, issued>>

(* TokenInvalidError: the record is deleted, whatever it holds by now; a file *)
(* that does not show it is not written.                                      *)
DropRejected(t) ==
  /\ caller[t].at = "rejected"
  /\ tokens' = IF ReadStore[caller[t].user] = NoRecord THEN tokens
               ELSE [tokens EXCEPT ![caller[t].user] = NoRecord]
  /\ LeaveStore(t)
  /\ UNCHANGED <<backend, legible, honoured, issued>>

(* The refresh failed, the connection broke or the process died: what was not *)
(* committed is gone, with a token Feishu may already have issued.            *)
GiveUpAsking(t) ==
  /\ caller[t].at # "idle"
  /\ LeaveStore(t)
  /\ UNCHANGED <<backend, tokens, legible, honoured, issued>>

(* The OAuth callback: Feishu exchanges the code, save_uat writes the record. *)
Authorize(t, u) ==
  /\ caller[t].at = "idle" /\ issued[u] < MaxToken
  /\ honoured' = [honoured EXCEPT ![u] = @ \cup {issued[u] + 1}]
  /\ issued' = [issued EXCEPT ![u] = @ + 1]
  /\ caller' = [caller EXCEPT ![t] = [at |-> "issued", user |-> u,
                                      token |-> issued[u] + 1, read |-> tokens]]
  /\ UNCHANGED <<backend, tokens, legible>>
SaveUat(t) ==
  /\ caller[t].at = "issued"
  /\ (backend = "pg" => RowFree(caller[t].user))
  /\ Keep(ReadStore, caller[t].user, caller[t].token)
  /\ LeaveStore(t)
  /\ UNCHANGED <<backend, honoured, issued>>

\* Time brings a record within ten minutes of its expiry; the user withdraws the consent.
Age(u) ==
  /\ tokens[u] # NoRecord /\ tokens[u].fresh
  /\ tokens' = [tokens EXCEPT ![u].fresh = FALSE]
  /\ UNCHANGED <<backend, legible, honoured, issued, caller>>
Withdraw(u) ==
  /\ honoured[u] # {}
  /\ honoured' = [honoured EXCEPT ![u] = {}]
  /\ UNCHANGED <<backend, tokens, legible, issued, caller>>

\* The file is damaged, the disk fails, or the process restarts with another key; what was
\* only a passing error, or a wrong key, is over again.
LoseSight ==
  /\ backend = "file" /\ legible /\ legible' = FALSE
  /\ UNCHANGED <<backend, tokens, honoured, issued, caller>>
RegainSight ==
  /\ ~legible /\ legible' = TRUE
  /\ UNCHANGED <<backend, tokens, honoured, issued, caller>>

UatNext ==
  \/ \E t \in Threads : LockRow(t) \/ Refresh(t) \/ KeepRefreshed(t) \/ DropRejected(t)
                        \/ GiveUpAsking(t) \/ SaveUat(t)
  \/ \E t \in Threads, u \in Users : GetUat(t, u) \/ Authorize(t, u)
  \/ \E u \in Users : Age(u) \/ Withdraw(u)
  \/ LoseSight \/ RegainSight

UatSpec == UatInit /\ [][UatNext]_uatVars

-----------------------------------------------------------------------------
(* With the database, a user's authorization is thrown away only when it is    *)
(* dead: two threads that refresh at once, a callback in between, a lost       *)
(* answer or a crash never delete a record Feishu would still accept.          *)
DeletedWhenDead ==
  [][\A u \in Users :
       (backend = "pg" /\ tokens[u] # NoRecord /\ tokens'[u] = NoRecord)
         => tokens[u].token \notin honoured[u]]_uatVars

(* Serving one user never loses or reverts the record of another: in the table, *)
(* and in a file that can be read, which is read again under its lock before it *)
(* is replaced.  A file that cannot be read is taken for an empty one and loses  *)
(* every record but the one written.                                            *)
OthersKept ==
  [][\A t \in Threads :
       (caller'[t] # caller[t] /\ legible)
         => \A u \in Users \ {caller[t].user} : tokens'[u] = tokens[u]]_uatVars
=============================================================================
