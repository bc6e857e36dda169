--------------------------- MODULE ServiceProcess ---------------------------
(* One service process: its lifespan (http_app.py), the background supervisor *)
(* with its cycle thread and database listener (supervisor.py), and the       *)
(* bounded writer of retrieval metrics (retrieval_metrics.py).                *)
(*                                                                            *)
(* The event loop is cooperative: what a coroutine does between two awaits is *)
(* one step.  The cycle thread, the writer's threads and the threads that     *)
(* submit measurements interleave with it freely.                             *)
EXTENDS Naturals, FiniteSets

CONSTANTS
  Payloads,      \* measurements; each is submitted by a thread of its own
  MaxInFlight,   \* permits of a dispatcher
  MaxWriters,    \* threads of its executor
  MaxStarts      \* bound: lifespans, in one process as the tests run them

ASSUME ServiceAssumption ==
  /\ IsFiniteSet(Payloads)
  /\ MaxWriters \in Nat \ {0} /\ MaxInFlight \in Nat /\ MaxInFlight >= MaxWriters
  /\ MaxStarts \in Nat \ {0}

VARIABLES
  life,       \* how far the lifespan has come, up or down
  sup,        \* the supervisor: its coroutine, its thread, its connection
  backlog,    \* outbox work no cycle has taken yet
  told,       \* history: a notification arrived after the last time work was taken
  metrics,    \* the global dispatcher: current generation, closed flag
  pool,       \* each dispatcher: its permits and whether its executor takes work
  payload     \* each measurement on its way

serviceVars == <<life, sup, backlog, told, metrics, pool, payload>>

Generations == 1 .. MaxStarts
Lives == {"down", "dispatching", "supervised", "up", "draining", "grace", "joining"}
PayloadStates == {"new", "selected", "acquired", "pending", "running", "done",
                  "cancelled", "dropped"}

ServiceTypeOK ==
  /\ life \in [at : Lives, starts : 0 .. MaxStarts]
  /\ sup \in [accepting : BOOLEAN, wake : BOOLEAN, listening : BOOLEAN, stop : BOOLEAN,
              task : {"none", "loop", "cycle", "waiting"},
              thread : {"idle", "running", "took", "ended"}, conn : {"none", "open", "closed"}]
  /\ backlog \in BOOLEAN /\ told \in BOOLEAN
  /\ metrics \in [current : 0 .. MaxStarts, last : 0 .. MaxStarts, closed : BOOLEAN]
  /\ pool \in [Generations -> [permits : 0 .. MaxInFlight, open : BOOLEAN]]
  /\ payload \in [Payloads -> [at : PayloadStates, gen : 0 .. MaxStarts,
                               attached : BOOLEAN]]

ServiceInit ==
  /\ life = [at |-> "down", starts |-> 0]
  /\ sup = [accepting |-> FALSE, wake |-> FALSE, listening |-> FALSE, stop |-> FALSE,
            task |-> "none", thread |-> "idle", conn |-> "none"]
  /\ backlog \in BOOLEAN /\ told = FALSE
  /\ metrics = [current |-> 0, last |-> 0, closed |-> FALSE]
  /\ pool = [g \in Generations |-> [permits |-> MaxInFlight, open |-> TRUE]]
  /\ payload = [p \in Payloads |-> [at |-> "new", gen |-> 0, attached |-> FALSE]]

-----------------------------------------------------------------------------
(* submit_retrieval_metric, from a request's thread. *)
\* _global_dispatcher: refused once closed, created when there is none.
Create == [metrics EXCEPT !.current = metrics.last + 1, !.last = @ + 1]
Select(p) ==
  /\ payload[p].at = "new"
  /\ IF metrics.closed
       THEN payload' = [payload EXCEPT ![p].at = "dropped"] /\ UNCHANGED metrics
       ELSE /\ metrics' = IF metrics.current = 0 THEN Create ELSE metrics
            /\ payload' = [payload EXCEPT ![p].at = "selected", ![p].gen = metrics'.current]
  /\ UNCHANGED <<life, sup, backlog, told, pool>>

Acquire(p) ==
  LET g == payload[p].gen
  IN  /\ payload[p].at = "selected"
      /\ IF pool[g].permits > 0
           THEN /\ pool' = [pool EXCEPT ![g].permits = @ - 1]
                /\ payload' = [payload EXCEPT ![p].at = "acquired"]
           ELSE payload' = [payload EXCEPT ![p].at = "dropped"] /\ UNCHANGED pool
      /\ UNCHANGED <<life, sup, backlog, told, metrics>>

\* The executor may have been shut down since the dispatcher was selected.
SubmitWrite(p) ==
  LET g == payload[p].gen
  IN  /\ payload[p].at = "acquired"
      /\ IF pool[g].open
           THEN payload' = [payload EXCEPT ![p].at = "pending"] /\ UNCHANGED pool
           ELSE /\ payload' = [payload EXCEPT ![p].at = "dropped"]
                /\ pool' = [pool EXCEPT ![g].permits = @ + 1]
      /\ UNCHANGED <<life, sup, backlog, told, metrics>>

\* add_done_callback runs the callback at once when the future has already ended.
Attach(p) ==
  /\ payload[p].at \in {"pending", "running", "done", "cancelled"} /\ ~payload[p].attached
  /\ payload' = [payload EXCEPT ![p].attached = TRUE]
  /\ pool' = IF payload[p].at \in {"done", "cancelled"}
               THEN [pool EXCEPT ![payload[p].gen].permits = @ + 1] ELSE pool
  /\ UNCHANGED <<life, sup, backlog, told, metrics>>

(* A thread of the executor writes the measurement, or fails to. *)
Writing(g) == {p \in Payloads : payload[p].at = "running" /\ payload[p].gen = g}
Write(p) ==
  /\ payload[p].at = "pending" /\ Cardinality(Writing(payload[p].gen)) < MaxWriters
  /\ payload' = [payload EXCEPT ![p].at = "running"]
  /\ UNCHANGED <<life, sup, backlog, told, metrics, pool>>
Written(p) ==
  /\ payload[p].at = "running"
  /\ payload' = [payload EXCEPT ![p].at = "done"]
  /\ pool' = IF payload[p].attached
               THEN [pool EXCEPT ![payload[p].gen].permits = @ + 1] ELSE pool
  /\ UNCHANGED <<life, sup, backlog, told, metrics>>

-----------------------------------------------------------------------------
(* Startup: the migrations, the dispatcher, the supervisor, the rest.  A failure *)
(* on the way rolls back in the order of a shutdown.                             *)
StartDispatcher ==
  /\ life.at = "down" /\ life.starts < MaxStarts
  /\ life' = [at |-> "dispatching", starts |-> life.starts + 1]
  /\ metrics' = [(IF metrics.current = 0 THEN Create ELSE metrics) EXCEPT !.closed = FALSE]
  /\ UNCHANGED <<sup, backlog, told, pool, payload>>
\* The scheduler, its connection and the thread pool; the coroutine has not run yet.
StartSupervisor ==
  /\ life.at = "dispatching"
  /\ life' = [life EXCEPT !.at = "supervised"]
  /\ sup' = [accepting |-> TRUE, wake |-> FALSE, listening |-> FALSE, stop |-> FALSE,
             task |-> "loop", thread |-> "idle", conn |-> "open"]
  /\ UNCHANGED <<backlog, told, metrics, pool, payload>>
Serve ==
  /\ life.at = "supervised"
  /\ life' = [life EXCEPT !.at = "up"]
  /\ UNCHANGED <<sup, backlog, told, metrics, pool, payload>>

(* shutdown_retrieval_metric_dispatcher: no new dispatcher, the executor closed *)
(* and what it has not begun cancelled; the lifespan waits for its threads.     *)
Cancelled(g) == {p \in Payloads : payload[p].at = "pending" /\ payload[p].gen = g}
BeginShutdown ==
  LET g == metrics.current
      c == Cancelled(g)
  IN  /\ life.at \in {"dispatching", "supervised", "up"}
      /\ life' = [life EXCEPT !.at = "draining"]
      /\ metrics' = [metrics EXCEPT !.current = 0, !.closed = TRUE]
      /\ pool' = [pool EXCEPT ![g].open = FALSE,
                              ![g].permits = @ + Cardinality({p \in c : payload[p].attached})]
      /\ payload' = [p \in Payloads |->
                       IF p \in c THEN [payload[p] EXCEPT !.at = "cancelled"] ELSE payload[p]]
      /\ UNCHANGED <<sup, backlog, told>>

(* BackgroundServiceSupervisor.stop, up to its first long await. *)
RequestStop ==
  /\ life.at = "draining" /\ \A g \in Generations : pool[g].open \/ Writing(g) = {}
  /\ life' = [life EXCEPT !.at = "grace"]
  /\ sup' = [sup EXCEPT !.accepting = FALSE, !.wake = TRUE, !.listening = FALSE, !.stop = TRUE]
  /\ UNCHANGED <<backlog, told, metrics, pool, payload>>
\* The coroutine has ended, or the grace period is over and it is cancelled: the thread
\* of its cycle cannot be.
Grace ==
  /\ life.at = "grace"
  /\ life' = [life EXCEPT !.at = "joining"]
  /\ sup' = [sup EXCEPT !.task = "none"]
  /\ UNCHANGED <<backlog, told, metrics, pool, payload>>
\* executor.shutdown(wait=True), then Scheduler.stop closes the connection.
\* Mutant: the thread is detached instead of joined.
JoinDetached ==
  /\ life.at = "joining"
  /\ life' = [life EXCEPT !.at = "down"]
  /\ sup' = [sup EXCEPT !.conn = IF @ = "open" THEN "closed" ELSE @]
  /\ UNCHANGED <<backlog, told, metrics, pool, payload>>
\* Mutant: the end of the thread is awaited in its coroutine.
JoinCoroutine ==
  /\ life.at = "joining" /\ sup.thread = "idle"
  /\ life' = [life EXCEPT !.at = "down"]
  /\ sup' = [sup EXCEPT !.conn = IF @ = "open" THEN "closed" ELSE @]
  /\ UNCHANGED <<backlog, told, metrics, pool, payload>>
Join ==
  /\ life.at = "joining" /\ sup.thread \notin {"running", "took"}
  /\ life' = [life EXCEPT !.at = "down"]
  /\ sup' = [sup EXCEPT !.thread = "idle", !.conn = IF @ = "open" THEN "closed" ELSE @]
  /\ UNCHANGED <<backlog, told, metrics, pool, payload>>

-----------------------------------------------------------------------------
(* _run: the event is cleared before the cycle, so that what arrives during the *)
(* cycle starts another at once.                                               *)
RunLoop ==
  /\ sup.task = "loop"
  /\ sup' = IF sup.accepting
              THEN [sup EXCEPT !.wake = FALSE, !.thread = "running", !.task = "cycle"]
              ELSE [sup EXCEPT !.task = "none"]
  /\ UNCHANGED <<life, backlog, told, metrics, pool, payload>>
\* The cycle takes the work that is due, and ends; told to stop, or failing, it ends early
\* and what it has not taken waits for the interval.
TakeWork ==
  /\ sup.thread = "running" /\ ~sup.stop
  /\ sup' = [sup EXCEPT !.thread = "took"]
  /\ backlog' = FALSE /\ told' = FALSE
  /\ UNCHANGED <<life, metrics, pool, payload>>
EndWork ==
  /\ sup.thread \in {"running", "took"}
  /\ sup' = [sup EXCEPT !.thread = "ended"]
  /\ told' = (told /\ sup.thread = "took")
  /\ UNCHANGED <<life, backlog, metrics, pool, payload>>
\* Mutant: the event is cleared when the cycle is over.
ResumeDrowsy ==
  /\ sup.task = "cycle" /\ sup.thread = "ended"
  /\ sup' = [sup EXCEPT !.task = "waiting", !.thread = "idle", !.wake = FALSE]
  /\ UNCHANGED <<life, backlog, told, metrics, pool, payload>>
Resume ==
  /\ sup.task = "cycle" /\ sup.thread = "ended"
  /\ sup' = [sup EXCEPT !.task = "waiting", !.thread = "idle"]
  /\ UNCHANGED <<life, backlog, told, metrics, pool, payload>>
\* Woken by the event, or by the interval.
WakeUp ==
  /\ sup.task = "waiting"
  /\ sup' = [sup EXCEPT !.task = "loop"]
  /\ UNCHANGED <<life, backlog, told, metrics, pool, payload>>

(* _listen_db_notifies: connected only after the coroutine has begun, lost with *)
(* its connection; a notification sent meanwhile reaches nobody.                *)
Listen ==
  /\ sup.accepting /\ sup.task \in {"cycle", "waiting"}
  /\ sup' = [sup EXCEPT !.listening = ~@]
  /\ UNCHANGED <<life, backlog, told, metrics, pool, payload>>
\* A transaction commits outbox rows and notifies.
MarkWork ==
  /\ backlog' = TRUE
  /\ told' = (told \/ sup.listening)
  /\ sup' = IF sup.listening THEN [sup EXCEPT !.wake = TRUE] ELSE sup
  /\ UNCHANGED <<life, metrics, pool, payload>>

ServiceNext ==
  \/ StartDispatcher \/ StartSupervisor \/ Serve \/ BeginShutdown \/ RequestStop \/ Grace
  \/ Join \/ RunLoop \/ TakeWork \/ EndWork \/ Resume \/ WakeUp \/ Listen \/ MarkWork
  \/ \E p \in Payloads : Select(p) \/ Acquire(p) \/ SubmitWrite(p) \/ Attach(p) \/ Write(p)
                         \/ Written(p)

ServiceSpec == ServiceInit /\ [][ServiceNext]_serviceVars

(* What goes on without anybody's leave: the steps of a shutdown; the loop    *)
(* with its cycle, which looks at the stop flag and whose calls time out; a   *)
(* writer under its statement timeout.  Starting and producing are free.      *)
ShutdownStep == RequestStop \/ Grace \/ Join
LoopStep == RunLoop \/ EndWork \/ Resume \/ WakeUp

ServiceFairSpec ==
  /\ ServiceSpec /\ WF_serviceVars(ShutdownStep) /\ WF_serviceVars(LoopStep)
  /\ \A p \in Payloads : WF_serviceVars(Written(p))

-----------------------------------------------------------------------------
(* The scheduler's connection is open as long as a thread runs a cycle on it: *)
(* the end of the grace period cancels the coroutine, never the thread, and   *)
(* the connection is closed only after the thread was joined.                 *)
ConnectionOutlivesCycle == sup.thread \in {"running", "took"} => sup.conn = "open"

(* A notification that arrives while the cycle runs, after it took its work,  *)
(* starts the next cycle at once: the loop never sleeps on it.                *)
NoLostWakeUp == told /\ sup.task = "waiting" => sup.wake

(* Every permit is free or held by one measurement still on its way, through  *)
(* a late submit to a closed executor, a cancelled future and a callback      *)
(* attached after the end; and nothing is written once a shutdown returned.   *)
Holding(g) ==
  {p \in Payloads :
     /\ payload[p].gen = g
     /\ \/ payload[p].at \in {"acquired", "pending", "running"}
        \/ payload[p].at \in {"done", "cancelled"} /\ ~payload[p].attached}
PermitsExact ==
  \A g \in Generations : pool[g].permits + Cardinality(Holding(g)) = MaxInFlight
NothingWrittenAfter ==
  life.at \in {"grace", "joining", "down"}
    => \A g \in Generations : pool[g].open \/ Writing(g) = {}

(* A shutdown closes nothing under a thread that still uses it, and leaves no *)
(* measurement and no permit behind.                                          *)
ShutdownClean == ConnectionOutlivesCycle /\ PermitsExact /\ NothingWrittenAfter

(* A shutdown that has begun ends, however long the cycle takes and whatever *)
(* the supervisor was doing: waiting for its coroutine, the thread, writers. *)
StopCompletes == life.at \in {"draining", "grace", "joining"} ~> life.at = "down"
=============================================================================
