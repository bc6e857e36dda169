------------------------------ MODULE MCQueues ------------------------------
(* What runs in the background of a service: the outbox with two rows and two *)
(* schedulers, one table as external source with two schedulers, the Base and *)
(* the wiki of Feishu with one cycle at a time and a sync by hand, and the     *)
(* process itself, started and stopped twice.  A behaviour is of one part;    *)
(* the others stay as they began.                                             *)
EXTENDS Outbox, SourceSync, ServiceProcess, TLC

CONSTANTS r1, r2, t1, table, base, wiki

VARIABLE part

\* A row every reconciliation ensures and a debounced preference row.
MixedProducer == r1 :> "ensure" @@ r2 :> "debounced"
OneTopic == r1 :> t1 @@ r2 :> t1

Symmetry == Permutations(Workers) \cup Permutations(Tokens)

\* What each part leaves out: the table's has no Feishu, that of Feishu no table, one cycle at
\* a time, one fault and an empty Base; the wiki may hold a document its walk does not come to.
OnlyTable ==
  /\ \A s \in Feishu : ~sourceDue[s] /\ tableRows[s] = 0
  /\ manual = SyncIdle
OnlyFeishu ==
  /\ ~sourceDue[table] /\ tableRows[table] = 0 /\ tableRows[base] = 0
  /\ \A v, w \in Schedulers : v = w \/ SyncIdle \in {job[v], job[w]}
  /\ syncFaults <= 1

QueuesInit ==
  /\ part \in {"outbox", "sync", "feishu", "service"} /\ Init /\ SyncInit /\ ServiceInit
  /\ sourceDue = [s \in Sources |-> IF part = "sync" THEN s \in Tables ELSE s \in Feishu]
  /\ part = "sync" => OnlyTable
  /\ part # "sync" => OnlyFeishu
  /\ part \in {"outbox", "service"} => tableRows[wiki] = 0
  /\ queue = <<table, base, wiki>>
  /\ part # "service" => ~backlog
  /\ part # "outbox" => enabled = Topics
QueuesNext ==
  \/ part = "outbox" /\ Next /\ UNCHANGED <<part, syncVars, serviceVars>>
  \/ part = "sync" /\ SyncNext /\ OnlyTable' /\ UNCHANGED <<part, vars, serviceVars>>
  \/ part = "feishu" /\ SyncNext /\ OnlyFeishu' /\ UNCHANGED <<part, vars, serviceVars>>
  \/ part = "service" /\ ServiceNext /\ UNCHANGED <<part, vars, syncVars>>
QueuesSpec == QueuesInit /\ [][QueuesNext]_<<part, vars, syncVars, serviceVars>>
=============================================================================
