------------------------------ MODULE Scheduler ------------------------------
(***************************************************************************)
(* The central scheduler of trun (src/trun/scheduler.py): the table of     *)
(* steps and workers (SimpleStepState) and the RPC handlers of Scheduler.  *)
(* The server runs one handler at a time, so one handler is one action.    *)
(*                                                                         *)
(* Times are kept relative to the present: `retry' and `remove' are the    *)
(* ticks still to go, `updated', `first_failure', `disable_time',          *)
(* `last_active' and `last_get_work' are ages, capped where the code no    *)
(* longer tells greater ages apart.  Tick lets one unit of time pass.      *)
(***************************************************************************)
EXTENDS Integers, FiniteSets, FiniteSetsExt, Functions

CONSTANTS
    Workers,            \* worker ids
    Steps,              \* step ids, the ids of batch runners included
    Resources,          \* resource names
    None,               \* Python's None, and an attribute that is not set
    Shared,             \* resources_running is the very dict of resources
    Family(_),          \* family and unbatched parameters of a step
    Runner(_),          \* id of the step that load_step builds for a batch
    MaxBatchSize,       \* max_batch_size of the batchable families
    InitialLimits,      \* the [resources] section of the configuration
    DefaultRetryCount,  \* [scheduler] retry_count
    RetryDelay, RemoveDelay, DisconnectDelay, DisableWindow,
    HardTimeout,        \* disable_hard_timeout, None for the default 999999999
    DisablePersist, Cooldown

VARIABLES
    steps,      \* SimpleStepState._steps: [Steps -> step record]
    older,      \* <<s, t>>: s was added to _steps before t (Step.time)
    workers,    \* SimpleStepState._active_workers: [Workers -> worker record]
    batchers,   \* SimpleStepState._step_batchers: [Workers -> set of families]
    limits,     \* Scheduler._resources: [Resources -> Nat]
    paused      \* Scheduler._paused

vars == <<steps, older, workers, batchers, limits, paused>>

OrNone(S) == S \cup {None}

ASSUME ConstantsAssumption ==
    /\ None \notin Workers /\ None \notin Nat
    /\ None \notin [Resources -> Nat] /\ Shared \notin [Resources -> Nat]
    /\ None # Shared
    /\ InitialLimits \in [Resources -> Nat]

ASSUME TimingAssumption ==
    /\ MaxBatchSize \in Nat /\ DefaultRetryCount \in Nat
    /\ RetryDelay \in Nat /\ RemoveDelay \in Nat /\ DisconnectDelay \in Nat
    /\ DisableWindow \in Nat /\ HardTimeout \in OrNone(Nat)
    /\ DisablePersist \in Nat /\ Cooldown \in Nat

ASSUME RunnerAssumption == \A b \in SUBSET Steps : Runner(b) \in Steps

-----------------------------------------------------------------------------
(* The records of the state. *)

Statuses == {"PENDING", "RUNNING", "BATCH_RUNNING", "DONE", "FAILED",
             "DISABLED", "UNKNOWN"}
ActiveStatuses == {"RUNNING", "BATCH_RUNNING"}
Absent == "ABSENT"      \* the status of an id that is not in _steps

Families == {Family(s) : s \in Steps}
Amounts == [Resources -> Nat]
NoResources == [r \in Resources |-> 0]
NoFailures == [age \in 0..DisableWindow |-> 0]

StepRecords == [
    status            : Statuses \cup {Absent},
    deps              : SUBSET Steps,
    stakeholders      : SUBSET Workers,
    workers           : SUBSET Workers,
    worker_running    : OrNone(Workers),
    batch_id          : SUBSET Steps,        \* {} is None
    batchable         : BOOLEAN,
    runnable          : BOOLEAN,
    priority          : Nat,
    resources         : Amounts,
    resources_running : Amounts \cup {None, Shared},
    retry_count       : Nat,                 \* retry_policy.retry_count
    retry             : OrNone(Nat),
    remove            : OrNone(Nat),
    updated           : Nat,
    failures          : [0..DisableWindow -> Nat],  \* failures by their age
    first_failure     : OrNone(Nat),
    disable_time      : OrNone(Nat)]         \* scheduler_disable_time

\* A Step object that was removed from _steps and has been left in Worker.steps:
\* what get_work and count_pending read of it, as it was at the end
RemovedSteps == [
    step           : Steps,
    status         : Statuses \cup {Absent},
    resources      : Amounts,
    worker_running : OrNone(Workers)]

RemovedStep(x, t) == [step |-> x, status |-> t.status, resources |-> t.resources,
                      worker_running |-> t.worker_running]

WorkerRecords == [
    active        : BOOLEAN,                 \* in _active_workers
    last_active   : Nat,
    last_get_work : OrNone(Nat),
    steps         : SUBSET Steps,            \* Worker.steps, those in _steps
    removed       : SUBSET RemovedSteps,     \* Worker.steps, the others
    assistant     : BOOLEAN,
    processes     : Nat,                     \* info['workers']
    disabled      : BOOLEAN]

\* Step.__init__
NewStep(status, deps, resources, priority) == [
    status |-> status, deps |-> deps, stakeholders |-> {}, workers |-> {},
    worker_running |-> None, batch_id |-> {}, batchable |-> FALSE,
    runnable |-> FALSE, priority |-> priority, resources |-> resources,
    resources_running |-> None, retry_count |-> DefaultRetryCount,
    retry |-> None, remove |-> None, updated |-> 0, failures |-> NoFailures,
    first_failure |-> None, disable_time |-> None]

NoStep == NewStep(Absent, {}, NoResources, 0)

\* Worker.__init__ of the scheduler's Worker class
NewWorker == [active |-> TRUE, last_active |-> 0, last_get_work |-> None,
              steps |-> {}, removed |-> {}, assistant |-> FALSE,
              processes |-> 1, disabled |-> FALSE]

NoWorker == [NewWorker EXCEPT !.active = FALSE]

Present(ss) == {s \in Steps : ss[s].status # Absent}
ActiveWorkers(ws) == {w \in Workers : ws[w].active}
WithStatus(ss, sts) == {s \in Steps : ss[s].status \in sts}

\* SimpleStepState.get_worker: setdefault(worker_id, Worker(worker_id))
GetWorker(ws, w) == IF ws[w].active THEN ws[w] ELSE NewWorker

\* Scheduler._update_worker
UpdateWorker(ws, w, get_work) ==
    [ws EXCEPT ![w] = [GetWorker(ws, w) EXCEPT
        !.last_active = 0,
        !.last_get_work = IF get_work THEN 0 ELSE @]]

\* getattr(step, 'resources_running', step.resources)
RunningResources(t) ==
    IF t.resources_running \in {None, Shared} THEN t.resources
                                              ELSE t.resources_running

\* SimpleStepState.get_batch_running_steps
BatchRunningSteps(ss, batch) ==
    {m \in Steps : ss[m].status = "BATCH_RUNNING" /\ ss[m].batch_id = batch}

-----------------------------------------------------------------------------
(* Failures and status changes. *)

\* Step.add_failure
AddFailure(t) ==
    [t EXCEPT !.failures = [age \in 0..DisableWindow |->
                               IF age = 0 THEN t.failures[0] + 1
                                          ELSE t.failures[age]],
              !.first_failure = IF @ = None THEN 0 ELSE @]

\* Step.num_failures: the failures of the last DisableWindow ticks
NumFailures(t) == SumFunction(t.failures)

\* Step.has_excessive_failures
HasExcessiveFailures(t) ==
    \/ /\ HardTimeout # None /\ t.first_failure # None
       /\ t.first_failure >= HardTimeout
    \/ NumFailures(t) >= t.retry_count

\* Step.clear_failures
ClearFailures(t) ==
    [t EXCEPT !.failures = NoFailures, !.first_failure = None]

\* Mutant: a step the scheduler has disabled may be changed by anyone
RefusesDisableOfRun(t, new) == new = "DISABLED" /\ t.status \in ActiveStatuses

\* The early returns of SimpleStepState.set_status
RefusesStatus(t, new) ==
    \/ new = "DISABLED" /\ t.status \in ActiveStatuses
    \/ /\ t.status = "DISABLED" /\ t.disable_time # None
       /\ new \notin {"DONE", "DISABLED"}

\* The status that set_status stores; f is the step with the failure counted
StatusStored(f, old, new) ==
    IF new = "FAILED" /\ old # "DISABLED" /\ HasExcessiveFailures(f)
    THEN "DISABLED" ELSE new

\* SimpleStepState.set_status on the step itself
SetOwnStatus(t, new) ==
    LET cleared == IF t.status = "DISABLED" /\ new = "DONE"
                   THEN [ClearFailures(t) EXCEPT !.disable_time = None] ELSE t
        f == IF new = "FAILED" /\ t.status # "DISABLED"
             THEN AddFailure(cleared) ELSE cleared
        stored == StatusStored(f, t.status, new)
        removeOnFailure == t.batch_id # {} /\ ~t.batchable
    IN  IF RefusesStatus(t, new) THEN t
        ELSE [f EXCEPT
            !.status = stored,
            !.updated = IF stored # t.status THEN 0 ELSE @,
            !.disable_time = IF stored # "DISABLED" THEN @
                             ELSE IF new = "FAILED" THEN 0 ELSE None,
            !.retry = IF stored = "FAILED" THEN RetryDelay + 1 ELSE @,
            !.remove = IF stored = "FAILED" /\ removeOnFailure THEN 0 ELSE @]

\* A step that leaves RUNNING takes the members of its batch along
EndsBatch(t, new) ==
    /\ t.status = "RUNNING" /\ t.batch_id # {}
    /\ new \notin {"RUNNING", "DISABLED"}

\* A member of a batch whose runner gets status new
EndMember(t, new) == [SetOwnStatus(t, new) EXCEPT !.batch_id = {}]

\* SimpleStepState.set_status
SetStatus(ss, s, new) ==
    LET ended == IF EndsBatch(ss[s], new)
                 THEN BatchRunningSteps(ss, ss[s].batch_id) ELSE {}
    IN  [x \in Steps |->
            CASE x \in ended -> EndMember(ss[x], new)
              [] x = s /\ EndsBatch(ss[s], new) -> EndMember(ss[s], new)
              [] x = s /\ ~EndsBatch(ss[s], new) -> SetOwnStatus(ss[s], new)
              [] OTHER -> ss[x]]

\* Mutant: the failures are not forgotten
ReEnableWithFailures(t) == SetOwnStatus([t EXCEPT !.disable_time = None], "FAILED")

\* SimpleStepState.re_enable with a config
ReEnable(t) ==
    ClearFailures(SetOwnStatus([ClearFailures(t) EXCEPT !.disable_time = None],
                               "FAILED"))

-----------------------------------------------------------------------------
(* Pruning.  prune() visits the steps in the order of _steps. *)

\* Mutant: assistants are not asked for
NoAssistants(ws) == {}

Assistants(ws) == {w \in Workers : ws[w].active /\ ws[w].assistant}

\* Mutant: the worker is not looked for among the active ones
AnyWorkerIsDead(t, assistants) ==
    t.status \in ActiveStatuses /\ t.worker_running # None

\* The condition of fail_dead_worker_step
HasDeadWorker(t, assistants) ==
    /\ t.status \in ActiveStatuses
    /\ t.worker_running # None
    /\ t.worker_running \notin t.stakeholders \cup assistants

\* SimpleStepState.fail_dead_worker_step on the step itself
FailDeadWorkerStep(t) ==
    LET orphan == [t EXCEPT !.worker_running = None]
        failed == IF EndsBatch(t, "FAILED") THEN EndMember(orphan, "FAILED")
                                            ELSE SetOwnStatus(orphan, "FAILED")
    IN  [failed EXCEPT !.retry = RetryDelay + 1]

\* Mutant: a failed step is not reset to PENDING
UpdateStatusWithoutRetry(t) ==
    LET marked == [t EXCEPT !.remove =
                      IF /\ t.stakeholders = {} /\ t.remove = None
                         /\ t.status # "RUNNING"
                      THEN RemoveDelay ELSE @]
    IN  IF /\ t.status = "DISABLED" /\ t.disable_time # None
           /\ t.disable_time > DisablePersist
        THEN ReEnable(marked) ELSE marked

\* SimpleStepState.update_status: mark for removal, end a disable, retry
UpdateStatus(t) ==
    LET marked == [t EXCEPT !.remove =
                      IF /\ t.stakeholders = {} /\ t.remove = None
                         /\ t.status # "RUNNING"
                      THEN RemoveDelay ELSE @]
        enabled == IF /\ t.status = "DISABLED" /\ t.disable_time # None
                      /\ t.disable_time > DisablePersist
                   THEN ReEnable(marked) ELSE marked
    IN  IF enabled.status = "FAILED" /\ enabled.retry = 0
        THEN SetOwnStatus(enabled, "PENDING") ELSE enabled

\* SimpleStepState.may_prune
MayPrune(t) == t.remove = 0

\* Mutant: workers are never given up
NoneTimedOut(ws) == {}

\* Worker.prune of the scheduler's Worker class
TimedOut(ws) ==
    {w \in Workers : ws[w].active /\ ws[w].last_active > DisconnectDelay}

\* Mutant: Step.workers keeps the workers that are gone
KeepsWorkers(ss, gone, remove_stakeholders) ==
    [s \in Steps |-> [ss[s] EXCEPT
        !.stakeholders = IF remove_stakeholders THEN @ \ gone ELSE @]]

\* Mutant: Step.stakeholders keeps the workers that are gone
KeepsStakeholders(ss, gone, remove_stakeholders) ==
    [s \in Steps |-> [ss[s] EXCEPT !.workers = @ \ gone]]

\* SimpleStepState._remove_workers_from_steps
RemoveWorkersFromSteps(ss, gone, remove_stakeholders) ==
    [s \in Steps |-> [ss[s] EXCEPT
        !.workers = @ \ gone,
        !.stakeholders = IF remove_stakeholders THEN @ \ gone ELSE @]]

\* The running batch runners that _prune_steps fails together with member x
DeadRunnersOf(ss, x, assistants) ==
    {r \in Steps : /\ r # x /\ HasDeadWorker(ss[r], assistants)
                   /\ EndsBatch(ss[r], "FAILED")
                   /\ x \in BatchRunningSteps(ss, ss[r].batch_id)}

\* Step x when the loop of _prune_steps visits it: an older runner has failed
\* it already, or it is failed for its own worker; then update_status
Visited(ss, ord, x, assistants) ==
    LET earlier == {r \in DeadRunnersOf(ss, x, assistants) : <<r, x>> \in ord}
    IN  UpdateStatus(CASE earlier # {} -> EndMember(ss[x], "FAILED")
                       [] earlier = {} /\ HasDeadWorker(ss[x], assistants) ->
                              FailDeadWorkerStep(ss[x])
                       [] OTHER -> ss[x])

\* Mutant: a runner fails its batch without looking whether the members still run
LoopedTwice(ss, ord, x, assistants) ==
    LET t == Visited(ss, ord, x, assistants)
    IN  IF DeadRunnersOf(ss, x, assistants) # {} THEN EndMember(t, "FAILED") ELSE t

\* Step x after the loop of _prune_steps: a younger runner may have failed its
\* batch after the visit
Looped(ss, ord, x, assistants) ==
    LET t == Visited(ss, ord, x, assistants)
    IN  IF t.status = "BATCH_RUNNING" /\ DeadRunnersOf(ss, x, assistants) # {}
        THEN EndMember(t, "FAILED") ELSE t

\* What _prune_steps makes of step x: it removes it if due when visited
PrunedStep(ss, ord, x, assistants) ==
    IF ss[x].status = Absent \/ MayPrune(Visited(ss, ord, x, assistants))
    THEN NoStep ELSE Looped(ss, ord, x, assistants)

\* Scheduler._prune_steps
PruneSteps(ss, ord, assistants) ==
    [x \in Steps |-> PrunedStep(ss, ord, x, assistants)]

\* SimpleStepState.inactivate_steps, seen from a worker: a step that is removed
\* from _steps and _status_steps stays in Worker.steps
Inactivated(ss, ord, assistants, w, kept) ==
    [w EXCEPT !.steps = @ \cap kept,
              !.removed = @ \cup {RemovedStep(x, Looped(ss, ord, x, assistants)) :
                                     x \in w.steps \ kept}]

\* Scheduler.prune
Prune ==
    LET gone == TimedOut(workers)
        left == [w \in Workers |-> IF w \in gone THEN NoWorker ELSE workers[w]]
        ss == RemoveWorkersFromSteps(steps, gone, TRUE)
        pruned == PruneSteps(ss, older, Assistants(left))
        kept == Present(pruned)
    IN  /\ steps' = pruned
        /\ older' = older \cap (kept \X kept)
        /\ workers' = [w \in Workers |->
                          Inactivated(ss, older, Assistants(left), left[w], kept)]
        /\ UNCHANGED <<batchers, limits, paused>>

-----------------------------------------------------------------------------
(* add_step.  A request is a record of its arguments; each caller in         *)
(* src/trun/worker.py passes its own combination of them.                    *)

Requests == [
    worker : Workers, step : Steps, status : Statuses \ {"BATCH_RUNNING"},
    runnable : BOOLEAN, deps : OrNone(SUBSET Steps), new_deps : SUBSET Steps,
    resources : Amounts, priority : Nat, assistant : BOOLEAN,
    batchable : OrNone(BOOLEAN), batch_id : SUBSET Steps, retry_count : Nat]

\* The default arguments, with which a call from inside a running step reports
\* its tracking URL
TrackingRequest(w, s) == [
    worker |-> w, step |-> s, status |-> "RUNNING", runnable |-> TRUE,
    deps |-> None, new_deps |-> {}, resources |-> NoResources, priority |-> 0,
    assistant |-> FALSE, batchable |-> None, batch_id |-> {},
    retry_count |-> DefaultRetryCount]

\* Worker._get_work_step_id announces the runner of the batch it was given
StartRequest(w, batch) ==
    [TrackingRequest(w, Runner(batch)) EXCEPT !.batch_id = batch]

\* Worker._handle_step_load_error
LoadErrorRequest(w, s) ==
    [TrackingRequest(w, s) EXCEPT !.status = "FAILED", !.runnable = FALSE]

\* Worker._add: deps is None unless the step is to be run here
ScheduleRequest(w, s, status, deps, resources, priority, batchable, count) ==
    [TrackingRequest(w, s) EXCEPT
        !.status = status, !.deps = deps, !.runnable = deps # None,
        !.resources = resources, !.priority = priority,
        !.batchable = batchable, !.retry_count = count]

\* Mutant: the report does not say runnable = None
ReportAsRunnable(w, s, status, new_deps, resources, assistant, count) ==
    [TrackingRequest(w, s) EXCEPT
        !.status = status, !.new_deps = new_deps, !.resources = resources,
        !.assistant = assistant, !.retry_count = count]

\* Worker._handle_next_step
ReportRequest(w, s, status, new_deps, resources, assistant, count) ==
    [TrackingRequest(w, s) EXCEPT
        !.status = status, !.runnable = FALSE, !.new_deps = new_deps,
        !.resources = resources, !.assistant = assistant,
        !.retry_count = count]

\* get_step(step_id, setdefault = _default_step)
WithDefaultStep(ss, q, enabled) ==
    IF enabled /\ ss[q.step].status = Absent
    THEN [ss EXCEPT ![q.step] =
             NewStep("PENDING", IF q.deps = None THEN {} ELSE q.deps,
                     q.resources, q.priority)]
    ELSE ss

\* The early returns: a disabled worker may only speak for running steps, and
\* a step that is DONE stays so for a while
IgnoresRequest(t, q, enabled) ==
    \/ t.status = Absent
    \/ t.status # "RUNNING" /\ ~enabled
    \/ q.status = "PENDING" /\ t.status = "DONE" /\ t.updated < Cooldown

\* A run that starts on a step nobody runs is attributed to the caller
StartsRun(t, q) == q.status = "RUNNING" /\ t.worker_running = None

\* get_batch_running_steps(batch_id)[0] raises IndexError
NamesLostBatch(ss, q) ==
    /\ StartsRun(ss[q.step], q) /\ q.batch_id # {}
    /\ BatchRunningSteps(ss, q.batch_id) = {}

\* Mutant: a run that starts is not attributed to the caller
Unattributed(t, q) == [t EXCEPT
    !.batch_id = IF q.batch_id # {} THEN q.batch_id ELSE @]

\* What add_step stores before it looks at the batch
Attributed(t, q) == [t EXCEPT
    !.batch_id = IF q.batch_id # {} THEN q.batch_id ELSE @,
    !.worker_running = IF StartsRun(t, q) THEN q.worker ELSE @]

\* Mutant: the removal of a step that is scheduled again is not called off
ClaimedForRemoval(ss, q) ==
    LET first == CHOOSE m \in BatchRunningSteps(ss, q.batch_id) : TRUE
    IN  [Attributed(ss[q.step], q) EXCEPT
            !.resources_running =
                IF StartsRun(ss[q.step], q) /\ q.batch_id # {}
                THEN RunningResources(ss[first]) ELSE @,
            !.batchable = IF q.batchable # None THEN q.batchable ELSE @]

\* The assignments of add_step before set_status
Claimed(ss, q) ==
    LET first == CHOOSE m \in BatchRunningSteps(ss, q.batch_id) : TRUE
    IN  [Attributed(ss[q.step], q) EXCEPT
            !.resources_running =
                IF StartsRun(ss[q.step], q) /\ q.batch_id # {}
                THEN RunningResources(ss[first]) ELSE @,
            !.batchable = IF q.batchable # None THEN q.batchable ELSE @,
            !.remove = None]

\* Mutant: a step that runs may be scheduled again by anyone
MaySetStatusOfAnyRun(t, q) ==
    \/ t.status \notin ActiveStatuses
    \/ t.worker_running = q.worker
    \/ q.status = "PENDING"

\* The condition under which add_step calls set_status
MaySetStatus(t, q) ==
    \/ t.status \notin ActiveStatuses
    \/ q.status \in {"DONE", "FAILED", "RUNNING"} /\ t.worker_running = q.worker
    \/ q.new_deps # {}

\* Mutant: a disabled worker is registered as well
RegistersDisabled(q, enabled) == q.runnable /\ q.status # "FAILED"

\* The worker becomes one of those that can perform the step
Registers(q, enabled) == q.runnable /\ q.status # "FAILED" /\ enabled

\* The assignments of add_step after set_status
Described(t, q, enabled) == [t EXCEPT
    !.deps = (IF q.deps # None THEN q.deps ELSE @) \cup q.new_deps,
    !.resources_running = IF @ = Shared THEN t.resources ELSE @,
    !.resources = q.resources,
    !.retry_count = q.retry_count,
    !.stakeholders = IF enabled /\ ~q.assistant THEN @ \cup {q.worker} ELSE @,
    !.workers = IF Registers(q, enabled) THEN @ \cup {q.worker} ELSE @,
    !.runnable = IF Registers(q, enabled) THEN TRUE ELSE @]

\* A dependency of the step: a placeholder if need be, held by the worker
Held(t, q) ==
    LET found == IF t.status = Absent
                 THEN NewStep("UNKNOWN", {}, NoResources, q.priority) ELSE t
    IN  [found EXCEPT !.stakeholders = @ \cup {q.worker}]

\* Scheduler._update_priority, the recursion over the dependencies: the steps
\* below s whose priority prio raises
Raised(ss, s, prio) ==
    LET lower(u) == {d \in ss[u].deps : /\ ss[d].status # Absent
                                        /\ prio > ss[d].priority}
        reach[n \in Nat] == IF n = 0 THEN {s}
                            ELSE reach[n - 1] \cup
                                 UNION {lower(u) : u \in reach[n - 1]}
    IN  reach[Cardinality(Steps)]

\* Scheduler._update_priority
UpdatePriority(ss, s, prio) ==
    LET top == IF prio > ss[s].priority THEN prio ELSE ss[s].priority
    IN  [x \in Steps |-> IF x \in Raised(ss, s, top)
                         THEN [ss[x] EXCEPT !.priority = top] ELSE ss[x]]

\* The steps after an add_step that is neither ignored nor fails
AddStepSteps(ss, q, enabled) ==
    LET claimed == [ss EXCEPT ![q.step] = Claimed(ss, q)]
        set == IF MaySetStatus(claimed[q.step], q)
               THEN SetStatus(claimed, q.step, q.status) ELSE claimed
        described == [set EXCEPT ![q.step] = Described(@, q, enabled)]
        deps == IF enabled /\ ~q.assistant THEN described[q.step].deps ELSE {}
        held == [x \in Steps |-> IF x \in deps THEN Held(described[x], q)
                                               ELSE described[x]]
    IN  UpdatePriority(held, q.step, q.priority)

\* The order of _steps after the steps in new have been added behind those of
\* old, `first' before the others, which come from a Python set
Enrolled(ord, old, new, first) ==
    {ord \cup (old \X new) \cup {p \in new \X new : rank[p[1]] < rank[p[2]]} :
        rank \in {f \in Bijection(new, 1..Cardinality(new)) :
                     first \in new => f[first] = 1}}

\* add_step ends with an IndexError, after it has stored a part of the request
AddStepFails(q) ==
    LET enabled == ~GetWorker(workers, q.worker).disabled
        ss == WithDefaultStep(steps, q, enabled)
    IN  ~IgnoresRequest(ss[q.step], q, enabled) /\ NamesLostBatch(ss, q)

\* Scheduler.add_step
AddStep(q) ==
    LET ws == UpdateWorker(workers, q.worker, FALSE)
        enabled == ~ws[q.worker].disabled
        ss == WithDefaultStep(steps, q, enabled)
        ignored == IgnoresRequest(ss[q.step], q, enabled)
        stored == ~ignored /\ ~AddStepFails(q)
    IN  /\ steps' = CASE ignored -> ss
                      [] stored -> AddStepSteps(ss, q, enabled)
                      [] OTHER -> [ss EXCEPT ![q.step] = Attributed(@, q)]
        /\ older' \in Enrolled(older, Present(steps),
                               Present(steps') \ Present(steps), q.step)
        /\ workers' = IF stored /\ Registers(q, enabled)
                      THEN [ws EXCEPT ![q.worker].steps = @ \cup {q.step}]
                      ELSE ws
        /\ UNCHANGED <<batchers, limits, paused>>

-----------------------------------------------------------------------------
(* get_work. *)

\* Worker.get_steps goes through Worker.steps if that is the smaller index
SearchesOwnSteps(ss, ws, w, sts) ==
    Cardinality(ws[w].steps) + Cardinality(ws[w].removed)
        < Cardinality(WithStatus(ss, sts))

\* Worker.get_steps, without the removed ones
GetSteps(ss, ws, w, sts) ==
    IF SearchesOwnSteps(ss, ws, w, sts)
    THEN ws[w].steps \cap WithStatus(ss, sts)
    ELSE {s \in WithStatus(ss, sts) : w \in ss[s].workers}

\* The removed steps that Worker.get_steps returns
GetRemovedSteps(ss, ws, w, sts) ==
    {x \in ws[w].removed : x.status \in sts /\ SearchesOwnSteps(ss, ws, w, sts)}

\* Worker.is_trivial_worker
IsTrivialWorker(ss, ws, w) ==
    /\ ~ws[w].assistant
    /\ \A s \in GetSteps(ss, ws, w, {"PENDING"}) : ss[s].resources = NoResources
    /\ \A x \in GetRemovedSteps(ss, ws, w, {"PENDING"}) : x.resources = NoResources

\* Mutant: what is in use is not counted
HasResourcesAlone(needed, used) ==
    \A r \in Resources : needed[r] > 0 => needed[r] <= limits[r]

\* Scheduler._has_resources
HasResources(needed, used) ==
    \A r \in Resources : needed[r] > 0 => needed[r] + used[r] <= limits[r]

PlusAmounts(a, b) == [r \in Resources |-> a[r] + b[r]]

\* Scheduler._used_resources
UsedResources(ss) ==
    [r \in Resources |->
        MapThenSumSet(LAMBDA s : RunningResources(ss[s])[r],
                      WithStatus(ss, {"RUNNING"}))]

\* Scheduler._rank, highest first
Outranks(ss, s, t) ==
    \/ ss[s].priority > ss[t].priority
    \/ ss[s].priority = ss[t].priority /\ <<s, t>> \in older

\* Scheduler._schedulable
Schedulable(ss, s) ==
    /\ ss[s].status = "PENDING"
    /\ \A d \in ss[s].deps : ss[d].status = "DONE"

\* Mutant: a batch whose runner was never announced is not looked for
NoOrphanedSteps(ss, w) == {}

\* The steps _reset_orphaned_batch_running_steps returns to the pool
OrphanedSteps(ss, w) ==
    LET running == {ss[s].batch_id :
                    s \in {r \in WithStatus(ss, {"RUNNING"}) :
                               ss[r].worker_running = w}}
    IN  {m \in WithStatus(ss, {"BATCH_RUNNING"}) :
            ss[m].worker_running = w /\ ss[m].batch_id \notin running}

\* Scheduler._reset_orphaned_batch_running_steps
ResetOrphanedSteps(ss, w) ==
    [s \in Steps |-> IF s \in OrphanedSteps(ss, w)
                     THEN SetOwnStatus(ss[s], "PENDING") ELSE ss[s]]

\* Mutant: only what is in use now is looked at
NoGreedyWorkers(ws, trivial) == {}

\* The greedy schedule that get_work builds while it goes down the queue: the
\* free processes of each worker and the resources taken so far
GreedyWorkers(ws, trivial) ==
    {w \in Workers : /\ ~trivial /\ ws[w].active /\ ws[w].last_get_work # None
                     /\ ws[w].last_get_work < DisconnectDelay}

\* In the greedy schedule step s runs on worker v
Charge(greedy, v, amounts) ==
    [free |-> [greedy.free EXCEPT ![v] = @ - 1],
     taken |-> PlusAmounts(greedy.taken, amounts)]

\* w may take step s at once
CanTake(ss, s, w, assistant, used) ==
    /\ (assistant /\ ss[s].runnable) \/ w \in ss[s].workers
    /\ HasResources(ss[s].resources, used)

\* Mutant: the queue is sorted the other way round
NthFromTheEnd(ss, queue, i) ==
    {s \in queue : Cardinality({t \in queue : Outranks(ss, s, t)}) = i - 1}

\* The i-th step of the queue, in a set
NthInQueue(ss, queue, i) ==
    {s \in queue : Cardinality({t \in queue : Outranks(ss, t, s)}) = i - 1}

\* The first candidate in the queue that fits into the greedy schedule and
\* that w may take, or {}; pick names the worker tried first for a step
BestStep(ss, ws, w, assistant, pick) ==
    LET trivial == IsTrivialWorker(ss, ws, w)
        queue == IF trivial THEN GetSteps(ss, ws, w, {"PENDING", "RUNNING"})
                 ELSE WithStatus(ss, {"PENDING", "RUNNING"})
        used == IF trivial THEN NoResources ELSE UsedResources(ss)
        polling == GreedyWorkers(ws, trivial)
        place(i) == CHOOSE s \in NthInQueue(ss, queue, i) : TRUE
        fits(s, g) == Schedulable(ss, s) /\ HasResources(ss[s].resources, g.taken)
        free(V, g) == {v \in V : v \in polling /\ g.free[v] > 0}
        hosts(s, g) == IF assistant /\ free(ss[s].workers, g) = {}
                       THEN free({w}, g) ELSE free(ss[s].workers, g)
        host(s, g) == IF s \in DOMAIN pick /\ pick[s] \in hosts(s, g)
                      THEN pick[s] ELSE CHOOSE v \in hosts(s, g) : TRUE
        after(s, g) ==
            CASE ss[s].status = "RUNNING" /\ ss[s].worker_running \in polling ->
                     Charge(g, ss[s].worker_running, RunningResources(ss[s]))
              [] ss[s].status = "PENDING" /\ fits(s, g) /\ hosts(s, g) # {} ->
                     Charge(g, host(s, g), ss[s].resources)
              [] OTHER -> g
        greedy[i \in 0..Cardinality(queue)] ==
            IF i = 0 THEN [free |-> [v \in Workers |-> ws[v].processes],
                           taken |-> NoResources]
            ELSE after(place(i), greedy[i - 1])
        taken == {i \in 1..Cardinality(queue) :
                     /\ fits(place(i), greedy[i - 1])
                     /\ CanTake(ss, place(i), w, assistant, used)}
    IN  IF taken = {} THEN {} ELSE NthInQueue(ss, queue, Min(taken))

\* The best step and the lower ranked ones get_work puts into a batch with it
BatchWith(ss, ws, w, best) ==
    LET relevant == IF IsTrivialWorker(ss, ws, w)
                    THEN GetSteps(ss, ws, w, {"PENDING", "RUNNING"})
                    ELSE WithStatus(ss, {"PENDING", "RUNNING"})
        more == {s \in relevant :
                    /\ Outranks(ss, best, s) /\ Family(s) = Family(best)
                    /\ ss[s].batchable /\ ss[s].resources = ss[best].resources
                    /\ Schedulable(ss, s)}
    IN  IF Family(best) \in batchers[w] /\ ss[best].batchable
        THEN {best} \cup {s \in more : MaxBatchSize > 1 +
                             Cardinality({t \in more : Outranks(ss, t, s)})}
        ELSE {best}

\* Mutant: the steps that other workers run are not left out
UnclaimedByAnyone(ss, w, current_steps) ==
    WithStatus(ss, {"RUNNING"}) \ current_steps

\* Mutant: a hand-out that was lost is not repeated
NothingUnclaimed(ss, w, current_steps) == {}

\* The running steps of w that it does not know of: their hand-out was lost
UnclaimedSteps(ss, w, current_steps) ==
    {s \in WithStatus(ss, {"RUNNING"}) :
        ss[s].worker_running = w /\ s \notin current_steps}

\* The steps several workers could be charged with in the greedy schedule;
\* which one is, is the order of Step.workers, not kept in the model
Contested(ss, ws, w) ==
    {s \in WithStatus(ss, {"PENDING"}) : /\ ~IsTrivialWorker(ss, ws, w)
                                        /\ \E u, v \in ss[s].workers : u # v}

\* What get_work hands out: {}, one step, or the members of a batch
Work(ss, ws, w, assistant, current_steps, pick) ==
    LET unclaimed == UnclaimedSteps(ss, w, current_steps)
        best == IF paused THEN {} ELSE BestStep(ss, ws, w, assistant, pick)
    IN  IF unclaimed # {}
        THEN {s \in unclaimed : \A t \in unclaimed \ {s} : Outranks(ss, s, t)}
        ELSE UNION {BatchWith(ss, ws, w, s) : s \in best}

\* A removed step that get_steps returns raises KeyError, before anything is
\* handed out: _upstream_status (in count_pending) has no entry for a step that
\* is DONE now, and set_status does not find in _status_steps what was removed
RaisesKeyError(ss, ws, w) ==
    \/ \E sts \in {{"RUNNING"}, {"PENDING", "FAILED"}} :
          \E x \in GetRemovedSteps(ss, ws, w, sts) : ss[x.step].status = "DONE"
    \/ /\ ~paused /\ IsTrivialWorker(ss, ws, w)
       /\ \E x \in GetRemovedSteps(ss, ws, w, {"PENDING", "RUNNING"}) :
             x.status = "PENDING"

\* Removed steps that look the same count once in the model, so get_steps may
\* find Worker.steps larger than SearchesOwnSteps does, and not go through it
Views(ws, w) == {ws, [ws EXCEPT ![w].removed = {}]}

\* The hand-outs get_work may reply with to worker w, {} if it replies with none
\* or with an error
HandOuts(w, assistant, current_steps) ==
    LET touched == UpdateWorker(workers, w, TRUE)
        ws == [touched EXCEPT ![w].assistant = @ \/ assistant]
        ss == ResetOrphanedSteps(steps, w)
        replies(v) == {Work(ss, v, w, assistant, current_steps, pick) :
                           pick \in [Contested(ss, v, w) -> Workers]}
    IN  IF touched[w].disabled THEN {{}}
        ELSE UNION {replies(v) : v \in Views(ws, w)}
                 \cup {none \in {{}} : RaisesKeyError(ss, ws, w)}

\* Mutant: the worker of the batch is not stored
SetBatchRunningForNobody(t, batch, w) ==
    [SetOwnStatus(t, "BATCH_RUNNING") EXCEPT
        !.batch_id = batch, !.resources_running = Shared]

\* SimpleStepState.set_batch_running
SetBatchRunning(t, batch, w) ==
    [SetOwnStatus(t, "BATCH_RUNNING") EXCEPT
        !.batch_id = batch, !.worker_running = w, !.resources_running = Shared]

\* The end of get_work for a single step
SetRunning(t, w) ==
    [SetOwnStatus(t, "RUNNING") EXCEPT
        !.worker_running = w, !.resources_running = t.resources]

\* The assignments at the end of get_work
HandOut(ss, w, work) ==
    [s \in Steps |->
        CASE s \in work /\ Cardinality(work) > 1 -> SetBatchRunning(ss[s], work, w)
          [] s \in work /\ Cardinality(work) = 1 -> SetRunning(ss[s], w)
          [] OTHER -> ss[s]]

\* Scheduler.count_pending: get_worker(step.worker_running) on the way would
\* bring back a worker that is not active any more (no step that is RUNNING is
\* passed over: its upstream status is UPSTREAM_RUNNING)
CountedWorkers(ss, ws, w) ==
    LET running == {ss[s].worker_running : s \in GetSteps(ss, ws, w, {"RUNNING"})}
            \cup {x.worker_running : x \in GetRemovedSteps(ss, ws, w, {"RUNNING"})}
    IN  [v \in Workers |-> IF v \in running THEN GetWorker(ws, v) ELSE ws[v]]

\* Scheduler.get_work, with the hand-out `work' in its reply
GetWork(w, assistant, current_steps, work) ==
    LET touched == UpdateWorker(workers, w, TRUE)
        ws == [touched EXCEPT ![w].assistant = @ \/ assistant]
        ss == ResetOrphanedSteps(steps, w)
    IN  /\ work \in HandOuts(w, assistant, current_steps)
        /\ UNCHANGED <<older, batchers, limits, paused>>
        /\ IF touched[w].disabled
           THEN workers' = touched /\ UNCHANGED steps
           ELSE /\ steps' = HandOut(ss, w, work)
                /\ workers' = CountedWorkers(ss, ws, w)

\* Scheduler.count_pending, called by a worker without processes
CountPending(w) ==
    /\ workers' = CountedWorkers(steps,
                      [workers EXCEPT ![w] = GetWorker(workers, w)], w)
    /\ UNCHANGED <<steps, older, batchers, limits, paused>>

-----------------------------------------------------------------------------
(* The other handlers. *)

\* Scheduler.ping
Ping(w) ==
    /\ workers' = UpdateWorker(workers, w, FALSE)
    /\ UNCHANGED <<steps, older, batchers, limits, paused>>

\* Scheduler.add_worker with the number of processes of the worker
AddWorker(w, n) ==
    /\ workers' = [workers EXCEPT
                      ![w] = [GetWorker(workers, w) EXCEPT !.processes = n]]
    /\ UNCHANGED <<steps, older, batchers, limits, paused>>

\* Scheduler.add_step_batcher
AddStepBatcher(w, family) ==
    /\ batchers' = [batchers EXCEPT ![w] = @ \cup {family}]
    /\ UNCHANGED <<steps, older, workers, limits, paused>>

\* Scheduler.disable_worker
DisableWorker(w) ==
    /\ steps' = RemoveWorkersFromSteps(steps, {w}, FALSE)
    /\ workers' = [workers EXCEPT ![w] =
                      [GetWorker(workers, w) EXCEPT !.disabled = TRUE,
                                                    !.steps = {},
                                                    !.removed = {}]]
    /\ UNCHANGED <<older, batchers, limits, paused>>

\* Scheduler.forgive_failures
ForgiveFailures(s) ==
    /\ steps[s].status = "FAILED"
    /\ steps' = SetStatus(steps, s, "PENDING")
    /\ UNCHANGED <<older, workers, batchers, limits, paused>>

\* Scheduler.mark_as_done
MarkAsDone(s) ==
    /\ steps[s].status \in {"RUNNING", "FAILED", "DISABLED"}
    /\ steps' = SetStatus(steps, s, "DONE")
    /\ UNCHANGED <<older, workers, batchers, limits, paused>>

\* Scheduler.re_enable_step
ReEnableStep(s) ==
    /\ steps[s].status = "DISABLED" /\ steps[s].disable_time # None
    /\ steps' = [steps EXCEPT ![s] = ReEnable(@)]
    /\ UNCHANGED <<older, workers, batchers, limits, paused>>

\* Scheduler.pause and Scheduler.unpause
SetPaused(flag) ==
    /\ paused' = flag
    /\ UNCHANGED <<steps, older, workers, batchers, limits>>

\* Scheduler.update_resource and Scheduler.update_resources
UpdateResource(r, amount) ==
    /\ limits' = [limits EXCEPT ![r] = amount]
    /\ UNCHANGED <<steps, older, workers, batchers, paused>>

\* The server is stopped and started again: Scheduler.dump, Scheduler.load.  The
\* state file holds the steps, the workers and the batchers, and nothing else
Restart ==
    /\ limits' = InitialLimits
    /\ paused' = FALSE
    /\ UNCHANGED <<steps, older, workers, batchers>>

\* The nested function decrease, on the dict that is resources_running
Decrease(t, less) ==
    LET lower(a) == [r \in Resources |->
                        IF a[r] > less[r] THEN a[r] - less[r] ELSE 0]
    IN  CASE t.resources_running = None -> t
          [] t.resources_running = Shared ->
                 [t EXCEPT !.resources = lower(t.resources)]
          [] OTHER -> [t EXCEPT !.resources_running = lower(t.resources_running)]

\* Scheduler.decrease_running_step_resources
DecreaseRunningStepResources(s, less) ==
    LET batch == IF steps[s].batch_id = {} THEN {}
                 ELSE BatchRunningSteps(steps, steps[s].batch_id)
    IN  /\ steps[s].status = "RUNNING"
        /\ steps[s].resources_running # None     \* else AttributeError
        /\ steps' = [x \in Steps |-> IF x \in batch \cup {s}
                                     THEN Decrease(steps[x], less) ELSE steps[x]]
        /\ UNCHANGED <<older, workers, batchers, limits, paused>>

-----------------------------------------------------------------------------
(* Time. *)

\* Mutant: a delay that has run out goes on running
DownBelowZero(t) == IF t = None THEN t ELSE t - 1

Down(t) == IF t = None \/ t = 0 THEN t ELSE t - 1

Up(a, cap) == IF a = None \/ a >= cap THEN a ELSE a + 1

\* Ages and delays that are not read in a status are not counted in it
AgedStep(t) == [t EXCEPT
    !.retry = IF t.status = "FAILED" THEN Down(@) ELSE @,
    !.remove = Down(@),
    !.updated = IF t.status = "DONE" THEN Up(@, Cooldown) ELSE @,
    !.failures = [age \in 0..DisableWindow |->
                     IF age = 0 THEN 0 ELSE t.failures[age - 1]],
    !.first_failure = IF HardTimeout # None THEN Up(@, HardTimeout) ELSE @,
    !.disable_time = Up(@, DisablePersist + 1)]

AgedWorker(w) == [w EXCEPT
    !.last_active = Up(@, DisconnectDelay + 1),
    !.last_get_work = Up(@, DisconnectDelay)]

\* One unit of time passes; time.time() moves on for every record
Tick ==
    /\ steps' = [s \in Steps |-> IF steps[s].status = Absent THEN NoStep
                                  ELSE AgedStep(steps[s])]
    /\ workers' = [w \in Workers |-> IF workers[w].active
                                     THEN AgedWorker(workers[w]) ELSE NoWorker]
    /\ UNCHANGED <<older, batchers, limits, paused>>

-----------------------------------------------------------------------------
(* The server on its own, called by clients that may do anything the RPC     *)
(* interface allows, in any order.                                           *)

Init ==
    /\ steps = [s \in Steps |-> NoStep]
    /\ older = {}
    /\ workers = [w \in Workers |-> NoWorker]
    /\ batchers = [w \in Workers |-> {}]
    /\ limits = InitialLimits
    /\ paused = FALSE

\* Every call of add_step in src/trun/worker.py that passes assistant = True
\* (Worker._handle_next_step) passes runnable = None
Calls == {q \in Requests : q.assistant => ~q.runnable}

Next ==
    \/ \E q \in Calls : AddStep(q)
    \/ \E w \in Workers, assistant \in BOOLEAN, current_steps \in SUBSET Steps,
          work \in SUBSET Steps : GetWork(w, assistant, current_steps, work)
    \/ \E w \in Workers : CountPending(w) \/ Ping(w) \/ DisableWorker(w)
    \/ \E w \in Workers, n \in Nat : AddWorker(w, n)
    \/ \E w \in Workers, f \in Families : AddStepBatcher(w, f)
    \/ \E s \in Steps : ForgiveFailures(s) \/ MarkAsDone(s) \/ ReEnableStep(s)
    \/ \E s \in Steps, less \in Amounts : DecreaseRunningStepResources(s, less)
    \/ \E flag \in BOOLEAN : SetPaused(flag)
    \/ \E r \in Resources, amount \in Nat : UpdateResource(r, amount)
    \/ Restart
    \/ Prune
    \/ Tick

Spec == Init /\ [][Next]_vars

-----------------------------------------------------------------------------
(* Properties. *)

\* Every attribute of the table of steps and workers keeps its type: a status is
\* one of the status constants, a delay that runs down never gets negative.
TypeOK ==
    /\ steps \in [Steps -> StepRecords]
    /\ older \subseteq Steps \X Steps
    /\ workers \in [Workers -> WorkerRecords]
    /\ batchers \in [Workers -> SUBSET Families]
    /\ limits \in Amounts
    /\ paused \in BOOLEAN

\* The two indexes of "worker w can perform step s", Step.workers and
\* Worker.steps, say the same of every step in the table, so of these get_steps
\* finds the same through either.  (Worker.steps has removed steps besides.)
IndexesAgree ==
    \A s \in Steps, w \in Workers : s \in workers[w].steps <=> w \in steps[s].workers

\* A worker that may perform a step holds it, and whoever holds a step is known
\* to the scheduler and not forgotten with its time-out: a step cannot be kept
\* from removal, or wait, for a worker that is gone.
HoldersAreActive ==
    \A s \in Steps : /\ steps[s].workers \subseteq steps[s].stakeholders
                     /\ steps[s].stakeholders \subseteq ActiveWorkers(workers)

\* What runs can be taken back: prune finds a worker to ask about for every
\* step that is marked as running, get_work a batch for every batch member, and
\* update_status a time to retry for every failed step.
RunsCanBeReclaimed ==
    \A s \in Steps :
        /\ steps[s].status \in ActiveStatuses => steps[s].worker_running # None
        /\ steps[s].status = "BATCH_RUNNING" => steps[s].batch_id # {}
        /\ steps[s].status = "FAILED" => steps[s].retry # None

\* disable_worker takes all steps from the worker, and no later call of that
\* worker registers it again.
DisabledWorkersHaveNoSteps ==
    \A w \in Workers : workers[w].disabled =>
        /\ workers[w].steps = {} /\ workers[w].removed = {}
        /\ \A s \in Steps : w \notin steps[s].workers

\* get_work does not end with an exception, so that a worker that asks is
\* answered.  (It may, in this code, over a removed step in Worker.steps.)
GetWorkAnswers ==
    \A w \in ActiveWorkers(workers) :
        ~RaisesKeyError(ResetOrphanedSteps(steps, w), workers, w)

\* Disabled after too many failures, and not by a worker
DisabledByScheduler(s) ==
    steps[s].status = "DISABLED" /\ steps[s].disable_time # None

\* A step the scheduler has disabled stays so whatever workers say: it becomes
\* DONE, is removed, or, when the disable has expired or an operator ends it,
\* goes back to FAILED with a clean record.  Only a worker's own DISABLED turns
\* the scheduler's disable into an ordinary one.
DisableIsRespected ==
    [][\A s \in Steps : DisabledByScheduler(s) =>
          \/ steps'[s].status \in {"DISABLED", Absent}
          \/ /\ steps'[s].status \in {"DONE", "FAILED"}
             /\ steps'[s].failures = NoFailures
             /\ steps'[s].disable_time = None]_vars
=============================================================================
