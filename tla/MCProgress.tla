----------------------------- MODULE MCProgress -----------------------------
(* What must eventually happen: the outbox with one scheduler, the external   *)
(* sources with one, and the service process through its lifespans.  A        *)
(* behaviour is of one part, and fair to it; the others stay as they began.   *)
EXTENDS Outbox, SourceSync, ServiceProcess, TLC

CONSTANTS r1, r2, t1, t2

VARIABLE part

\* A lifecycle row written once and a search row re-run at every generation.
ExactProducer == r1 :> "once" @@ r2 :> "terminal"
TwoTopics == r1 :> t1 @@ r2 :> t2

ProgressInit ==
  /\ part \in {"outbox", "sync", "service"} /\ Init /\ SyncInit /\ ServiceInit
  /\ part # "sync" => tableRows = [s \in Sources |-> 0]
  /\ part # "service" => ~backlog
  /\ part # "outbox" => enabled = Topics
ProgressNext ==
  \/ part = "outbox" /\ Next /\ UNCHANGED <<part, syncVars, serviceVars>>
  \/ part = "sync" /\ SyncNext /\ UNCHANGED <<part, vars, serviceVars>>
  \/ part = "service" /\ ServiceNext /\ UNCHANGED <<part, vars, syncVars>>

\* FairSpec, SyncFairSpec and ServiceFairSpec, each of its own part.
OutboxFair ==
  /\ \A w \in Workers : WF_vars(part = "outbox" /\ Work(w))
  /\ \A i \in Items : /\ WF_vars(part = "outbox" /\ BecomeDue(i))
                      /\ WF_vars(part = "outbox" /\ LeaseExpires(i))
SyncFair ==
  /\ \A w \in Schedulers : WF_syncVars(part = "sync" /\ Cycle(w))
  /\ WF_syncVars(part = "sync" /\ ManualSync)
  /\ \A s \in Sources : /\ WF_syncVars(part = "sync" /\ SourceBecomesDue(s))
                        /\ WF_syncVars(part = "sync" /\ Lapse(s))
  /\ \A i \in 1..MaxRuns : WF_syncVars(part = "sync" /\ RunAges(i))
ServiceFair ==
  /\ WF_serviceVars(part = "service" /\ ShutdownStep)
  /\ WF_serviceVars(part = "service" /\ LoopStep)
  /\ \A p \in Payloads : WF_serviceVars(part = "service" /\ Written(p))

ProgressSpec ==
  /\ ProgressInit /\ [][ProgressNext]_<<part, vars, syncVars, serviceVars>>
  /\ OutboxFair /\ SyncFair /\ ServiceFair
=============================================================================
