----------------------------- MODULE ModelRouter -----------------------------
(* The model call of an agent's turn (models.py, middlewares.py, agent.py):    *)
(* retry outside, router inside.  The router takes the pool of the registry,   *)
(* strongest first, puts the candidates that are cooling down last, and goes   *)
(* from one to the next on an error another gateway may not have; the health   *)
(* it notes is shared by the turns of the process, without a lock.             *)
EXTENDS Naturals

CONSTANTS
  Calls,          \* model calls in flight at once
  MaxCandidate,   \* candidates are 1 .. MaxCandidate, the strongest first
  MaxRetries      \* of ModelRetryMiddleware

ASSUME RouterAssumption == MaxCandidate \in Nat /\ MaxRetries \in Nat

VARIABLES
  serving,    \* the registry's pool
  cooling,   \* candidates in their cooldown
  call       \* each model call

routerVars == <<serving, cooling, call>>

Models == 1 .. MaxCandidate
\* retryable: 408, 409, 425, 429, 5xx, transport, an unparsable structured answer;
\* auth: 401, 403, another gateway has another key; request: nothing will help.
Errors == {"retryable", "auth", "request"}
\* Mutant: an authentication error is taken for an error of the request.
FailsOverRetryable(e) == e = "retryable"
FailsOver(e) == e \in {"retryable", "auth"}

RouterTypeOK ==
  /\ serving \subseteq Models /\ cooling \subseteq Models
  /\ call \in [Calls ->
       [at : {"idle", "retrying", "ordering", "calling", "placeholder", "failed"},
        seen : SUBSET Models, healthy : SUBSET Models, resting : SUBSET Models,
        slipped : SUBSET Models, tried : SUBSET Models, error : Errors \cup {"none"},
        attempt : 0 .. MaxRetries]]

\* Still to be tried: the healthy candidates first, then the resting ones, each strongest first.
NoModelCall == [at |-> "idle", seen |-> {}, healthy |-> {}, resting |-> {}, slipped |-> {},
                tried |-> {}, error |-> "none", attempt |-> 0]

RouterInit ==
  /\ serving = Models
  /\ cooling = {}
  /\ call = [k \in Calls |-> NoModelCall]

-----------------------------------------------------------------------------
Strongest(S) == CHOOSE m \in S : \A n \in S : m <= n

\* An attempt starts: the pool, and who is healthy by the clock now.
Attempt(k) ==
  /\ call[k].at \in {"idle", "retrying"}
  /\ call' = [call EXCEPT ![k] = [NoModelCall EXCEPT !.at = "ordering", !.seen = serving,
                                     !.healthy = serving \ cooling, !.attempt = call[k].attempt]]
  /\ UNCHANGED <<serving, cooling>>

\* _ordered_candidates reads the clock again for the cooling ones: what has recovered
\* meanwhile is in neither list, what has failed meanwhile in both.
Order(k) ==
  LET c == call[k]
      resting == c.seen \cap cooling
      listed  == c.healthy \cup resting
  IN  /\ c.at = "ordering"
      /\ call' = [call EXCEPT ![k].resting = resting, ![k].slipped = c.seen \ listed,
                              ![k].at = IF listed = {} THEN "placeholder" ELSE "calling"]
      /\ UNCHANGED <<serving, cooling>>

Answer(k) ==
  /\ call[k].at \in {"calling", "placeholder"}
  /\ call' = [call EXCEPT ![k] = NoModelCall]
  /\ UNCHANGED <<serving, cooling>>

\* The error leaves the router; the retry middleware goes for another attempt on some.
Raise(k, e, tried) ==
  IF e = "retryable" /\ call[k].attempt < MaxRetries
    THEN call' = [call EXCEPT ![k] = [NoModelCall EXCEPT !.at = "retrying",
                                                         !.attempt = call[k].attempt + 1]]
    ELSE call' = [call EXCEPT ![k].at = "failed", ![k].tried = tried, ![k].error = e,
                              ![k].healthy = {}, ![k].resting = {}]

\* _mark_unhealthy, and on to the next candidate; the last one's error is the call's.  One in
\* both lists is called again.
FailOver(k, e) ==
  LET c == call[k]
      part == IF c.healthy # {} THEN c.healthy ELSE c.resting
      h == Strongest(part)
      left == part \ {h}
  IN  /\ c.at = "calling" /\ FailsOver(e)
      /\ cooling' = cooling \cup {h}
      /\ IF left = {} /\ (c.healthy = {} \/ c.resting = {})
           THEN Raise(k, e, c.tried \cup {h})
           ELSE call' = [call EXCEPT ![k].healthy = IF c.healthy # {} THEN left ELSE {},
                                     ![k].resting = IF c.healthy # {} THEN @ ELSE left,
                                     ![k].tried = @ \cup {h}]
      /\ UNCHANGED serving
Refuse(k, e) ==
  /\ call[k].at \in {"calling", "placeholder"}
  /\ (call[k].at = "calling" => ~FailsOver(e))
  /\ Raise(k, e, call[k].tried)
  /\ UNCHANGED <<serving, cooling>>

\* The turn deals with the failure.
GiveBack(k) ==
  /\ call[k].at = "failed"
  /\ call' = [call EXCEPT ![k] = NoModelCall]
  /\ UNCHANGED <<serving, cooling>>

\* Thirty seconds after its last failure.
Recover(c) ==
  /\ c \in cooling
  /\ cooling' = cooling \ {c}
  /\ UNCHANGED <<serving, call>>
\* The registry replaces its pool; an all-failing probe keeps the old one.
Reload(S) ==
  /\ S # serving /\ S # {}
  /\ serving' = S
  /\ UNCHANGED <<cooling, call>>

RouterNext ==
  \/ \E k \in Calls : Attempt(k) \/ Order(k) \/ Answer(k)
                      \/ \E e \in Errors : FailOver(k, e) \/ Refuse(k, e)
                      \/ GiveBack(k)
  \/ \E c \in Models : Recover(c)
  \/ \E S \in SUBSET Models : Reload(S)

RouterSpec == RouterInit /\ [][RouterNext]_routerVars

-----------------------------------------------------------------------------
(* A call that fails on an error another gateway may not have has tried every *)
(* candidate of the pool it read, through concurrent failures, recoveries and *)
(* reloads; the one it may have missed is a candidate whose cooldown ended    *)
(* between the two looks at the clock.                                        *)
Exhausted(c) == c.tried \cup c.slipped = c.seen
FailsOnlyExhausted ==
  \A k \in Calls :
    call[k].at = "failed" /\ call[k].error \in {"retryable", "auth"} => Exhausted(call[k])
=============================================================================
