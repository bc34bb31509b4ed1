------------------------------- MODULE Cluster -------------------------------
(***************************************************************************)
(* The scheduler together with the workers that call it: the side of       *)
(* src/trun/worker.py that decides which call a worker makes next, and the *)
(* ground truth of which steps it really executes.  A worker's calls can   *)
(* lose their reply and be repeated (src/trun/rpc.py), workers die or fall *)
(* silent, and an operator interferes through the web interface.           *)
(***************************************************************************)
EXTENDS Scheduler

CONSTANTS
    Need(_),            \* Step.process_resources() of a step
    Requires(_),        \* Step.deps() of a step
    Yields(_),          \* the dynamic dependencies its run() yields, or {}
    Priority(_),        \* Step.priority
    IsBatchable(_),     \* Step.batchable
    RetryCount(_),      \* Step.retry_count, else the scheduler's
    Roots(_),           \* the steps a worker is started with
    AssistantWorkers,   \* the workers started with assistant = True
    Processes(_),       \* worker_processes
    Claims,             \* the statuses Worker._add finds for its steps
    Endings,            \* the statuses a run may end with
    Mortal,             \* the workers that may die
    Amount,             \* the resource limits that are configured or set
    Behaviours          \* what may go wrong or interfere, see the actions

ASSUME ClusterAssumption ==
    /\ \A s \in Steps : /\ Need(s) \in Amounts /\ Priority(s) \in Nat
                        /\ Requires(s) \subseteq Steps /\ Yields(s) \subseteq Steps
                        /\ IsBatchable(s) \in BOOLEAN /\ RetryCount(s) \in Nat
    /\ \A w \in Workers : Processes(w) \in Nat /\ Roots(w) \subseteq Steps
    /\ AssistantWorkers \subseteq Workers
    /\ Claims \subseteq {"PENDING", "DONE", "UNKNOWN", "DISABLED"}
    /\ Endings \subseteq {"DONE", "FAILED"}
    /\ Amount \subseteq Nat /\ Mortal \subseteq Workers
    /\ None \notin Requests

VARIABLES
    phase,      \* [Workers -> {"adding", "working", "dead"}]
    adding,     \* [Workers -> SUBSET Steps]: the queue of Worker.add
    running,    \* [Workers -> SUBSET Steps]: Worker._running_steps
    starting,   \* [Workers -> SUBSET Steps]: a batch received, not announced
    erring,     \* [Workers -> SUBSET Steps]: steps received, not loadable
    calling     \* [Workers -> request or None]: an add_step call to be made
                \* once the queue is empty, or to be repeated

clientVars == <<phase, adding, running, starting, erring, calling>>
allVars == <<vars, clientVars>>

\* The main thread of w is in its loop, Worker.run
Ready(w) == /\ phase[w] = "working" /\ adding[w] = {} /\ starting[w] = {}
            /\ erring[w] = {} /\ calling[w] = None

Alive(w) == phase[w] # "dead"

-----------------------------------------------------------------------------
(* Scheduling. *)

\* Worker._add_step_batcher
RegisterBatcher(w, s) ==
    /\ Alive(w) /\ s \in adding[w] /\ IsBatchable(s)
    /\ Family(s) \notin batchers[w]
    /\ AddStepBatcher(w, Family(s))
    /\ UNCHANGED clientVars

\* The dependencies Worker._add sends with a step: its own if it is to be run,
\* none if it was found complete or broken; a disabled step may be either
DepsSent(s, status) ==
    {deps \in {Requires(s), None} :
        /\ status = "PENDING" => deps = Requires(s)
        /\ status \in {"DONE", "UNKNOWN"} => deps = None}

\* Worker.add and Worker._add; the dependencies that are sent are next
Schedule(w, s, status) ==
    \E deps \in DepsSent(s, status) :
        /\ Alive(w) /\ s \in adding[w]
        /\ deps # None /\ IsBatchable(s) => Family(s) \in batchers[w]
        /\ AddStep(ScheduleRequest(w, s, status, deps, Need(s), Priority(s),
                                   IsBatchable(s), RetryCount(s)))
        /\ adding' = [adding EXCEPT ![w] =
                         (@ \ {s}) \cup (IF deps # None THEN deps ELSE {})]
        /\ UNCHANGED <<phase, running, starting, erring, calling>>

\* Worker._add_worker, at the start of Worker.run
Announce(w) ==
    /\ phase[w] = "adding" /\ adding[w] = {}
    /\ AddWorker(w, Processes(w))
    /\ phase' = [phase EXCEPT ![w] = "working"]
    /\ UNCHANGED <<adding, running, starting, erring, calling>>

-----------------------------------------------------------------------------
(* Asking for work and running it. *)

\* Worker.run asks for work while a process is free
Polls(w) == Ready(w) /\ Cardinality(running[w]) < Processes(w)

Receives(w, work) ==
    Polls(w) /\ GetWork(w, w \in AssistantWorkers, running[w], work)

Replies(w) ==
    IF Polls(w) THEN HandOuts(w, w \in AssistantWorkers, running[w]) ELSE {}

\* Worker._get_work and Worker._run_step; a batch is announced first
AskForWork(w, work) ==
    /\ Receives(w, work)
    /\ running' = [running EXCEPT ![w] =
                      IF Cardinality(work) = 1 THEN @ \cup work ELSE @]
    /\ starting' = [starting EXCEPT ![w] =
                      IF Cardinality(work) > 1 THEN work ELSE @]
    /\ UNCHANGED <<phase, adding, erring, calling>>

\* The reply of get_work does not arrive; the worker will ask again
LoseWork(w, work) ==
    /\ "lost" \in Behaviours
    /\ Receives(w, work)
    /\ UNCHANGED clientVars

\* Worker._get_work of a worker without processes, which only schedules
CountWork(w) ==
    /\ Ready(w) /\ Processes(w) = 0
    /\ CountPending(w)
    /\ UNCHANGED clientVars

\* load_step fails on what get_work handed out
ReceiveUnloadable(w, work) ==
    /\ "unloadable" \in Behaviours
    /\ Receives(w, work)
    /\ work # {}
    /\ erring' = [erring EXCEPT ![w] = work]
    /\ UNCHANGED <<phase, adding, running, starting, calling>>

\* Worker._handle_step_load_error, one call for each step
ReportUnloadable(w, s) ==
    /\ Alive(w) /\ s \in erring[w]
    /\ AddStep(LoadErrorRequest(w, s))
    /\ erring' = [erring EXCEPT ![w] = @ \ {s}]
    /\ UNCHANGED <<phase, adding, running, starting, calling>>

\* The rest of Worker._get_work_step_id; a call that fails is repeated
StartBatch(w) ==
    LET q == StartRequest(w, starting[w])
    IN  /\ Alive(w) /\ starting[w] # {}
        /\ AddStep(q)
        /\ starting' = [starting EXCEPT ![w] = {}]
        /\ IF AddStepFails(q)
           THEN calling' = [calling EXCEPT ![w] = q] /\ UNCHANGED running
           ELSE /\ running' = [running EXCEPT ![w] = @ \cup {q.step}]
                /\ UNCHANGED calling
        /\ UNCHANGED <<phase, adding, erring>>

\* A running step reports its tracking URL (StepStatusReporter)
Track(w, s) ==
    /\ "track" \in Behaviours
    /\ Alive(w) /\ s \in running[w]
    /\ AddStep(TrackingRequest(w, s))
    /\ UNCHANGED clientVars

\* A running step gives up its resources (StepStatusReporter)
GiveUpResources(w, s) ==
    /\ "decrease" \in Behaviours
    /\ Alive(w) /\ s \in running[w]
    /\ DecreaseRunningStepResources(s, Need(s))
    /\ UNCHANGED clientVars

Outcome(w, s, status, new_deps) ==
    ReportRequest(w, s, status, new_deps, Need(s), w \in AssistantWorkers,
                  RetryCount(s))

\* Worker._handle_next_step for a run that ended; one that missed a dependency
\* is scheduled again
Finish(w, s, status, missing) ==
    /\ Ready(w) /\ s \in running[w]
    /\ missing => status = "FAILED" /\ Requires(s) # {} /\ "missing" \in Behaviours
    /\ AddStep(Outcome(w, s, status, {}))
    /\ running' = [running EXCEPT ![w] = @ \ {s}]
    /\ adding' = [adding EXCEPT ![w] = IF missing THEN {s} ELSE {}]
    /\ UNCHANGED <<phase, starting, erring, calling>>

\* Worker._handle_next_step for a run that yielded new dependencies: they are
\* scheduled first
Suspend(w, s) ==
    /\ Ready(w) /\ s \in running[w] /\ Yields(s) # {}
    /\ adding' = [adding EXCEPT ![w] = Yields(s)]
    /\ calling' = [calling EXCEPT ![w] = Outcome(w, s, "PENDING", Yields(s))]
    /\ UNCHANGED <<vars, phase, running, starting, erring>>

\* A call that the scheduler handles, but whose reply does not arrive in time
CallUnheard(w, q) ==
    /\ "repeat" \in Behaviours
    /\ AddStep(q)
    /\ calling' = [calling EXCEPT ![w] = q]
    /\ UNCHANGED <<phase, adding, running, starting, erring>>

FinishUnheard(w, s, status) ==
    Ready(w) /\ s \in running[w] /\ CallUnheard(w, Outcome(w, s, status, {}))

\* The call that is due, or another attempt of RemoteScheduler._fetch, until the
\* scheduler answers
Call(w) ==
    LET q == calling[w]
    IN  /\ Alive(w) /\ q # None /\ adding[w] = {}
        /\ AddStep(q)
        /\ calling' = [calling EXCEPT ![w] = IF AddStepFails(q) THEN @ ELSE None]
        /\ running' = [running EXCEPT ![w] = CASE AddStepFails(q) -> @
                                              [] ~AddStepFails(q) /\ q.status = "RUNNING" ->
                                                     @ \cup {q.step}
                                              [] OTHER -> @ \ {q.step}]
        /\ UNCHANGED <<phase, adding, starting, erring>>

\* The same, when its reply is lost
RepeatUnheard(w) ==
    Alive(w) /\ calling[w] # None /\ adding[w] = {} /\ CallUnheard(w, calling[w])

-----------------------------------------------------------------------------
(* Life and death of workers, and time. *)

\* The KeepAliveThread; the ping brings back a worker that was given up
KeepAlive(w) ==
    /\ Alive(w) /\ (workers[w].active => workers[w].last_active > 0)
    /\ UNCHANGED clientVars
    /\ Ping(w)

\* The worker process dies with the steps it executes; an idle one may as well
\* have left Worker.run
Crash(w) ==
    /\ w \in Mortal /\ Alive(w)
    /\ phase' = [phase EXCEPT ![w] = "dead"]
    /\ running' = [running EXCEPT ![w] = {}]
    /\ starting' = [starting EXCEPT ![w] = {}]
    /\ erring' = [erring EXCEPT ![w] = {}]
    /\ calling' = [calling EXCEPT ![w] = None]
    /\ adding' = [adding EXCEPT ![w] = {}]
    /\ UNCHANGED vars

\* Unless workers may fall silent, the ping of a live worker comes well
\* within DisconnectDelay
TimePasses ==
    /\ "silence" \in Behaviours \/
       \A w \in Workers : Alive(w) /\ workers[w].active =>
                              workers[w].last_active < DisconnectDelay
    /\ UNCHANGED clientVars
    /\ Tick

\* The server's timer, or a page of the web interface
PruneNow ==
    /\ UNCHANGED clientVars
    /\ Prune

\* The web interface, the command line tools, and whoever restarts the server
Operate ==
    /\ UNCHANGED clientVars
    /\ \/ "pause" \in Behaviours /\ SetPaused(~paused)
       \/ "disable_worker" \in Behaviours /\ \E w \in Workers : DisableWorker(w)
       \/ "forgive" \in Behaviours /\ \E s \in Steps : ForgiveFailures(s)
       \/ "mark_done" \in Behaviours /\ \E s \in Steps : MarkAsDone(s)
       \/ "re_enable" \in Behaviours /\ \E s \in Steps : ReEnableStep(s)
       \/ "restart" \in Behaviours /\ Restart
       \/ "limits" \in Behaviours /\ \E r \in Resources, a \in Amount :
                                         UpdateResource(r, a)

-----------------------------------------------------------------------------
ClusterInit ==
    /\ Init
    /\ phase = [w \in Workers |-> "adding"]
    /\ adding = [w \in Workers |-> Roots(w)]
    /\ running = [w \in Workers |-> {}]
    /\ starting = [w \in Workers |-> {}]
    /\ erring = [w \in Workers |-> {}]
    /\ calling = [w \in Workers |-> None]

WorkerNext(w) ==
    \/ \E s \in Steps : RegisterBatcher(w, s)
    \/ \E s \in Steps, status \in Claims : Schedule(w, s, status)
    \/ Announce(w)
    \/ \E work \in Replies(w) : AskForWork(w, work)
    \/ CountWork(w)
    \/ \E work \in Replies(w) : LoseWork(w, work)
    \/ \E work \in Replies(w) : ReceiveUnloadable(w, work)
    \/ \E s \in Steps : ReportUnloadable(w, s)
    \/ StartBatch(w)
    \/ \E s \in Steps : Track(w, s)
    \/ \E s \in Steps : GiveUpResources(w, s)
    \/ \E s \in Steps, status \in Endings, missing \in BOOLEAN :
          Finish(w, s, status, missing)
    \/ \E s \in Steps : Suspend(w, s)
    \/ \E s \in Steps, status \in Endings : FinishUnheard(w, s, status)
    \/ Call(w)
    \/ RepeatUnheard(w)
    \/ KeepAlive(w)
    \/ Crash(w)

ClusterNext == (\E w \in Workers : WorkerNext(w)) \/ TimePasses \/ PruneNow \/ Operate

ClusterSpec == ClusterInit /\ [][ClusterNext]_allVars

\* What the main thread of w does next while it is not in its loop
Proceed(w) ==
    \/ \E s \in Steps : RegisterBatcher(w, s) \/ ReportUnloadable(w, s)
    \/ \E s \in Steps, status \in Claims : Schedule(w, s, status)
    \/ Announce(w) \/ StartBatch(w) \/ Call(w)

\* Time passes, the server's timer calls prune, and a worker that lives does
\* its next call: its loop never stops, and a step that runs ends some time.
\* Nothing is assumed of crashes, lost replies and operators.
Fairness ==
    /\ WF_allVars(TimePasses)
    /\ WF_allVars(PruneNow)
    /\ \A w \in Workers :
          /\ WF_allVars(KeepAlive(w))
          /\ WF_allVars(Proceed(w))
          /\ WF_allVars(\E work \in Replies(w) : AskForWork(w, work))
          /\ WF_allVars(\E s \in Steps, status \in Endings :
                            Finish(w, s, status, FALSE))

FairClusterSpec == ClusterSpec /\ Fairness

-----------------------------------------------------------------------------
(* Properties. *)

\* A worker's bookkeeping keeps its type; what it is about to send is a call that
\* Worker makes of add_step (an assistant reports with runnable = None).
ClientTypeOK ==
    /\ phase \in [Workers -> {"adding", "working", "dead"}]
    /\ adding \in [Workers -> SUBSET Steps]
    /\ running \in [Workers -> SUBSET Steps]
    /\ starting \in [Workers -> SUBSET Steps]
    /\ erring \in [Workers -> SUBSET Steps]
    /\ calling \in [Workers -> OrNone(Calls)]

\* The steps w executes and has not yet reported on
Executing(w) ==
    {s \in running[w] : calling[w] = None \/ calling[w].step # s}

\* What the scheduler believes of a step that is being executed is true: it is
\* RUNNING on that worker.  In particular no two workers execute one step.
OwnershipAgrees ==
    \A w \in Workers : \A s \in Executing(w) :
        steps[s].status = "RUNNING" /\ steps[s].worker_running = w

\* What the scheduler has on record of a step, as StepLife sees it
RecordOf(s) ==
    CASE steps[s].status = "RUNNING" -> "running"
      [] steps[s].status = "DONE" -> "done"
      [] OTHER -> "idle"

Life == INSTANCE StepLife
            WITH Executors <- Workers,
                 record <- [s \in Steps |-> RecordOf(s)],
                 executors <- [s \in Steps |-> {w \in Workers : s \in Executing(w)}]

\* Scheduler and workers implement StepLife: a step is executed by one worker at a
\* time, the scheduler has it RUNNING for as long, and it is recorded as done only
\* when an execution ends.
WorkersImplementLife == Life!LifeSpec

\* No two workers execute the same step at the same time.
NoDoubleExecution ==
    \A v, w \in Workers : v # w => Executing(v) \cap Executing(w) = {}

\* The steps that are really being executed never need more of a resource than
\* there is.
WithinLimits ==
    \A x \in Resources :
        MapThenSumSet(LAMBDA w : MapThenSumSet(LAMBDA s : Need(s)[x], running[w]),
                      Workers) <= limits[x]

\* The failure count of a step, which retry_count limits, goes up only with a
\* run that ends, or with a run that died with its worker.
FailuresAreRuns ==
    [][\A s \in Steps : NumFailures(steps'[s]) > NumFailures(steps[s]) =>
          \E w \in Workers :
             \/ s \in Executing(w) /\ s \notin Executing(w)'
             \/ steps[s].worker_running = w /\ ~Alive(w)]_allVars

\* The failures of a batch are counted for its runner and its members once each: only
\* what is on record as running fails, and at most once in one call or pass of prune,
\* whichever of the runner and its members _prune_steps visits first.
FailuresAreCountedOnce ==
    [][\A s \in Steps : NumFailures(steps'[s]) > NumFailures(steps[s]) =>
          /\ steps[s].status \in ActiveStatuses
          /\ NumFailures(steps'[s]) = NumFailures(steps[s]) + 1]_allVars

\* A step that has failed retry_count times within the window is not offered
\* to a worker again until its record is cleared.
RetryBudgetKept ==
    \A s \in Steps : steps[s].status \in {"PENDING", "FAILED"} \cup ActiveStatuses
                        => NumFailures(steps[s]) < RetryCount(s)

\* Worker w is given step s, and is not just reminded of it
GivenTo(s, w) ==
    /\ steps[s].status # "RUNNING"
    /\ steps'[s].status = "RUNNING" /\ steps'[s].worker_running = w

\* get_work passes over a step of higher rank that the worker could run at once
\* only for a step of yet higher rank that needs the same resource.
PriorityRespected ==
    [][\A s, t \in Steps, w \in Workers :
          /\ GivenTo(s, w) /\ Outranks(steps, t, s) /\ Schedulable(steps, t)
          /\ CanTake(steps, t, w, w \in AssistantWorkers, UsedResources(steps))
          => \E u \in Steps :
                /\ steps[u].status \in {"PENDING", "RUNNING"}
                /\ Outranks(steps, u, t)
                /\ \E x \in Resources : Need(u)[x] > 0 /\ Need(t)[x] > 0]_allVars

\* w has asked for work recently
AsksForWork(w) ==
    /\ workers[w].active /\ workers[w].processes > 0
    /\ workers[w].last_get_work # None /\ workers[w].last_get_work < DisconnectDelay

\* What the step of highest rank needs is kept for it while a worker that can run
\* it asks for work: meanwhile no step is started that would take it away, even if
\* the resource is free and others ask more often.
UrgentStepsAreReserved ==
    [][\A s, t \in Steps, w \in Workers :
          /\ GivenTo(s, w) /\ s # t
          /\ Schedulable(steps, t) /\ HasResources(Need(t), NoResources)
          /\ \A u \in WithStatus(steps, {"PENDING", "RUNNING"}) \ {t} : Outranks(steps, t, u)
          /\ \E v \in steps[t].workers : AsksForWork(v)'
          => \A x \in Resources : Need(s)[x] > 0 =>
                 Need(s)[x] + Need(t)[x] <= limits[x]]_allVars

\* prune keeps a step as long as a worker that holds it is active.
HeldStepsAreKept ==
    [][\A s \in Steps : steps[s].stakeholders \ TimedOut(workers) # {} =>
                            steps'[s].status # Absent]_allVars

\* A step is not removed while a live worker executes it.
RunsAreNotRemoved ==
    \A w \in Workers : \A s \in Executing(w) : steps[s].status # Absent

\* No member of a batch is stranded: its worker is about to start the runner or
\* to report that it cannot, or the runner is RUNNING with this batch, or the
\* next get_work of the worker, which has lost the batch, takes the member back.
MembersHaveRunner ==
    \A m \in Steps : steps[m].status = "BATCH_RUNNING" =>
        LET w == steps[m].worker_running
            run == Runner(steps[m].batch_id)
        IN  \/ ~Alive(w)
            \/ starting[w] = steps[m].batch_id
            \/ m \in erring[w]
            \/ Ready(w) /\ m \in OrphanedSteps(steps, w)
            \/ steps[run].status = "RUNNING" /\ steps[run].batch_id = steps[m].batch_id

\* What a dead worker ran is taken back: prune fails it once the worker has
\* timed out.
DeadRunsAreReclaimed ==
    \A s \in Steps, w \in Mortal :
        (steps[s].status \in ActiveStatuses /\ steps[s].worker_running = w /\ ~Alive(w))
            ~> (steps[s].status \notin ActiveStatuses \/ steps[s].worker_running # w)

\* What get_work has given to a live worker is executed by it or taken back, even
\* if the reply was lost: get_work hands it out again.
LostWorkIsFound ==
    \A s \in Steps, w \in Workers :
        (steps[s].status = "RUNNING" /\ steps[s].worker_running = w)
            ~> (s \in running[w] \/ ~Alive(w) \/ steps[s].status # "RUNNING")

\* A failed step does not stay failed: update_status makes it PENDING again after
\* retry_delay, unless it is disabled, done or removed before.
FailuresAreRetried ==
    \A s \in Steps : steps[s].status = "FAILED" ~> steps[s].status # "FAILED"
=============================================================================
