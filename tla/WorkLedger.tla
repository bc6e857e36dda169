----------------------------- MODULE WorkLedger -----------------------------
(***************************************************************************)
(* What the outbox promises its producers: a request, once made, is owed   *)
(* until a run that took it up after it was made discharges it, or until   *)
(* the outbox gives up on it.  Crashes, timeouts and lost leases may only  *)
(* repeat work, never forget it and never let an older run answer it.      *)
(***************************************************************************)
CONSTANT Items

VARIABLES
  owed,      \* requests not answered yet
  claimed,   \* items some run has taken up since they were last requested
  givenUp    \* requests abandoned after max_attempts

vars == <<owed, claimed, givenUp>>

Init == owed = {} /\ claimed = {} /\ givenUp = {}

\* New work, or work already answered requested once more.
Request(S) ==
  /\ owed' = owed \cup S
  /\ claimed' = claimed \ S
  /\ givenUp' = givenUp \ S

\* Runs take up owed work, and drop what they took up.
Serve ==
  /\ claimed' \subseteq claimed \cup owed
  /\ UNCHANGED <<owed, givenUp>>

Discharge(i) ==
  /\ i \in owed \cap claimed
  /\ owed' = owed \ {i}
  /\ claimed' \subseteq claimed
  /\ UNCHANGED givenUp

GiveUp(i) ==
  /\ i \in owed \cap claimed
  /\ owed' = owed \ {i}
  /\ claimed' \subseteq claimed
  /\ givenUp' = givenUp \cup {i}

Next ==
  \/ \E S \in SUBSET Items : Request(S)
  \/ Serve
  \/ \E i \in Items : Discharge(i) \/ GiveUp(i)

Spec == Init /\ [][Next]_vars
=============================================================================
