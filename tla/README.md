# A TLA+ model of the trun scheduler

trun is a workflow engine. A *step* is a unit of work with dependencies; a
*worker* schedules a graph of steps at a *central scheduler*, asks it for steps
to run, runs them and reports how they ended. Many workers share a scheduler,
and one step may have been scheduled by several of them. This directory models
the scheduler and the calls of its workers, the inside of a worker with its
processes and files, and two algorithms that are hard to test (the walk of
`_upstream_status` and the pid file). It checks the models with TLC on small
instances, and proves their central invariants and the refinements with TLAPS for
all instances.

## 1. Inventory

| Component | State | Operations | Interacts with |
|---|---|---|---|
| Scheduler (`src/trun/scheduler.py`) | table of steps, table of workers, batchers, resource limits, pause flag | RPC handlers (`add_step`, `get_work`, `prune`, ...) | workers and operators call it |
| Worker (`src/trun/worker.py`) | queue of steps to schedule, running steps, results, keep-alive thread | `add`, `_get_work`, `_run_step`, `_handle_next_step`, `ping` | calls the scheduler, starts step processes |
| RPC client (`rpc.py`) | connection | `_fetch` with retries | between worker and scheduler |
| RPC server (`server.py`) | - | one handler at a time, `prune` every 60 s, state file | runs the scheduler |
| Upstream status, graph queries (`scheduler.py`) | - | `_upstream_status`, `dep_graph`, `step_list` | read the tables |
| Lock (`lock.py`) | pid file | `acquire_for` | processes on one host |
| Targets (`target.py`, `local_target.py`) | files | write to a temporary file, move | steps |
| Notifications (`batch_notifier.py`) | queues of failures | `add_failure`, `update`, `send_email` | scheduler |
| Steps, parameters, registry | classes | construction, parsing | everything |
| History, summary, metrics, tools, contrib, visualiser, C++ drafts | - | reporting and adapters | - |

What is hard here:

- *concurrency*: workers call in any order, and one step has several workers;
  a reply takes time, so a worker acts on what the scheduler has changed since;
- *failure*: workers die at any point, also between the two calls that start a
  batch; replies get lost after the call was handled, and the client repeats
  it; a worker may be silent and alive;
- *ordering*: late reports of runs that were given up; a pass of `prune` that
  visits a batch's runner before or after its members;
- *time*: retry, removal, disconnect, disable window and persistence, cooldown;
- *limits*: resources, retry counts, processes, batch sizes.

`PROJECT.json` lists these hazards at their lines. What makes the scheduler
correct is, in one paragraph: whoever executes a step is known to, nobody else
is given it, what nobody executes any more is found and tried again, a step
that fails too often is not, resources are not overdrawn, and no step that is
held or running is forgotten. For a worker: it reports every run once, starts no
second process for a step, leaves nothing running when it stops, and what it
reports as done has been written.

## 2. Modules

`Scheduler.tla` is the scheduler alone: `steps`, `workers`, `batchers`,
`limits`, `paused` are the attributes of `SimpleStepState` and `Scheduler`, and
`older` is the order of `_steps`, which is also the order of `Step.time`. The set
`Worker.steps` is two fields: `steps` has those that are in `_steps`, `removed` those
that `inactivate_steps` has taken out of it, which it leaves in `Worker.steps`. Every
RPC handler that changes state is one action, because the server runs one
handler at a time. Helpers carry the names of the methods they model
(`SetStatus` for `set_status`, `FailDeadWorkerStep`, `UpdateStatus`,
`HasResources`, ...). Its `Next` lets clients make any call with any
arguments in any order, with one restriction taken from `worker.py`: a call
with `assistant = True` has `runnable = None`. This open system is what the
theorems of `SchedulerProofs` are about.

`Cluster.tla` extends it with the workers. `phase`, `adding`, `running`,
`starting`, `erring`, `calling` are the position of each worker's main thread
and its `_running_steps`; `running` is at the same time the ground truth of
what is really executed. Actions are the calls `worker.py` makes: `Schedule`
and `RegisterBatcher` (`_add`, `_add_step_batcher`), `Announce`
(`_add_worker`), `AskForWork` and `StartBatch` (`_get_work`,
`_get_work_step_id`, `_run_step`), `CountWork`, `ReportUnloadable`
(`_handle_step_load_error`), `Finish` and `Suspend` (`_handle_next_step`),
`Track` and `GiveUpResources` (`StepStatusReporter`), `KeepAlive`. What may go
wrong is switched on by the constants `Mortal` and `Behaviours`: `LoseWork` and
`CallUnheard` lose a reply of a call that was handled, `RepeatUnheard` and
`Call` repeat it, `Crash` kills a worker, "silence" lets pings come too late,
`Operate` is the operator.

`StepLife.tla` is the abstract specification of what trun promises about a
step: at any time it has at most one executor; while it has one, the record says
that it runs and does not change; and it becomes done only by the end of an
execution. It has five actions per step (`Assign`, `Begin`, `End`, `TakeBack`,
`Reopen`), and several steps may move at once, as `prune` moves many. `Cluster`
implements it with workers as executors (`WorkersImplementLife`), `WorkerLoop`
with the processes of one worker (`ProcessesImplementLife`). The record is mapped
the same way in both: RUNNING is "running", DONE is "done", the rest is "idle".

`WorkerLoop.tla` is the inside of one worker: `pc` is the place in `Worker.run`
and `_handle_next_step`, `running_steps` is `_running_steps` with the number of
the process of each step, `result_queue` is `_step_result_queue`, `children` are
the processes and `output` is what is found under the final name of a step's
target. The main thread asks (`AskScheduler`, `ReceiveStep`, `ReceiveNothing`),
looks for dead and late children (`PurgeChildren`), and takes one result from the
queue (`HearNothing`, `SkipResult`, `ReportResult`). A process writes, closes and
moves its file, puts a result and exits, or is killed at any point; a process that
is killed after its `put` is "spoiled": its result counts and it is found dead.
Around the worker, the scheduler retries failed steps, an operator disables the
worker, SIGUSR1 interrupts it, and the keep-alive thread changes the number of
processes. Of the scheduler only the answers are kept: `Cluster` has the rest.
`EarlyRetry` says whether the scheduler may hand a step out again while a result
of an earlier run is in the queue. A failed step waits `retry_delay` (900 s by
default), and the queue is read all the time while anything runs, so this is
unusual after a failure; but a step that yields is PENDING at once.

`UpstreamStatus.tla` is the loop of `_upstream_status`, one iteration per action
(`Ignore`, `Descend`, `Enter`, `Update`), and `Ask` is a call with a table that may
have entries of earlier calls. `Init` chooses the graph and the statuses.

`PidLock.tla` is `acquire_for`: `ReadPids` up to the decision, `TruncateFile` and
`WritePids` for the two effects of `_write_pids_file`, `EndProcess` for the end of a
process anywhere. A process whose write overlaps another's leaves the end of a
longer text behind, so some pids of the other may survive. `disturbed` remembers
whether two acquisitions overlapped or a process was killed between truncating and
writing: the two cases in which the code really loses pids.

`MCCluster.tla`, `MCWorkerLoop.tla`, `MCUpstreamStatus.tla` and `MCPidLock.tla` hold
the definitions the configurations choose from. `SchedulerProofs.tla`,
`ClusterProofs.tla`, `BudgetProofs.tla`, `LimitProofs.tla`, `BatchProofs.tla`,
`WorkerLoopProofs.tla`, `PidLockProofs.tla` and `UpstreamStatusProofs.tla` hold the
theorems.

### How the code is abstracted

- *Time.* The code stores instants; the model stores what the code computes
  from them: `retry` and `remove` count down, ages count up to the cap past
  which no comparison changes. `retry < time()` is strict, so the delay is
  `RetryDelay + 1` ticks; `remove <= time()` is not. Ages and delays that no
  handler reads in a status are not counted in it. A disable window of
  `DisableWindow` ticks keeps failures by their age.
- *Batches.* `batch_id` is a hash of the member ids: the model uses the set of
  members, and `{}` for None. `Runner(batch)` is the id of the step that
  `load_step` builds from the combined parameters. `Family` stands for a
  family together with the parameters that are not batched.
- *Order of `Step.workers`.* Only the greedy schedule reads it, to choose whose
  process to charge; `get_work` chooses any worker there (`pick`), so all
  orders are covered. `older` orders the steps made in one call in every way a
  Python set might.
- *Resources.* An amount of 0 is a missing key. `resources_running` has three
  cases: not set, a dict of its own, and `Shared`, the very dict of
  `resources`, which `set_batch_running` assigns without a copy, so that a
  later decrease changes `resources` too.
- *Errors.* `add_step` with a batch that has been taken back raises IndexError
  after storing a part of the request: the action stores that part, and the
  client repeats the call. `decrease_running_step_resources` without
  `resources_running` raises before it changes anything: it is disabled.
- *Removed steps.* Of a removed Step object that is left in `Worker.steps` the model keeps
  what is read of it later: status, resources, `worker_running`. `get_steps` returns such
  objects when it goes through `Worker.steps`, and then `get_work` raises KeyError
  (`RaisesKeyError`): nothing has been handed out, and what was changed before stays. As
  their priority and dependencies are not kept, the model lets `count_pending` raise
  whenever the step that has their id now is DONE. Two objects that look
  the same count once; `Views` allows for what that makes of the size that `get_steps`
  compares. That `set_status` on a removed object sets more aside than it should before it
  fails, if a live step with the same id exists, is not modelled, nor that the worker ends
  when the client's three attempts all raise (for the scheduler that is a `Crash`).
- *Retry policy.* Of the policy of a step only `retry_count` is per step;
  window and hard timeout are the scheduler's.
- `prune_on_get_work` is the interleaving `Prune; GetWork`. The legacy status
  SUSPENDED is not modelled.
- *Left out.* Texts, tracking URLs, progress, messages, parameters, history,
  mail and metrics. In `Cluster` a run has exactly
  one result; the queue, phasing out and keep_alive are in `WorkerLoop`.
- *Worker loop.* `worker_processes` is at least 1 (a worker with none only counts
  pending steps, which `Cluster` has). Steps that run in the worker's own process
  are the interleavings in which the process runs alone. A step whose `run()` returns
  has written its target: that is the user's part of the contract, and
  `check_complete_on_run` would turn a breach into a failure. A step yields before it
  has moved its file. Left out: external steps,
  rescheduling of missing dependencies and its limit (`unfulfilled_counts`), the
  variants of `_keep_alive` that count unique or last scheduled steps or idle time,
  the result None of a process stopped by KeyboardInterrupt, and a process that
  ends with code 0 without having put a result (user code that calls `os._exit`),
  for which the worker would wait until `worker_timeout`. The last loop of
  `Worker.run` is never entered: the first ends only with nothing running.
- *Upstream status.* The dependencies of a step that is neither PENDING nor UNKNOWN are
  not looked at, so such steps have none in the model.
- *Pid lock.* A pid is not used again. A process whose pid stands for an earlier one
  of the same command would count itself. That `_read_pids_file` reads a file it
  cannot open as empty is not modelled: all processes may read and write the file.

## 3. Runs

Every run is `tlc -config X.cfg M`, with M the module `PROJECT.json` names. All
runs of `MCCluster` have two workers except `BatchWorker` (two workers that get
batches they cannot load have more than a million states), and every configuration
uses delays of 0 or 1 tick, so that each delay both runs and expires in reachable
states.

Passing:

| Run | Checks | Instance |
|---|---|---|
| Ownership | `TypeOK`, `IndexesAgree`, `HoldersAreActive`, `OwnershipAgrees`, `FailuresAreRuns`, `WorkersImplementLife` | chain of two steps scheduled by both workers; both mortal, lost replies, missing dependencies; 87k states |
| Batches | `RunsCanBeReclaimed`, `MembersHaveRunner` | two batchable steps and their runner, which a worker may also declare disabled, both workers mortal, lost replies; 120k |
| BatchWorker | `MembersHaveRunner`, `OwnershipAgrees`, `FailuresAreCountedOnce` | three batchable steps, batches of two whose runner is a fourth step for one of them and a member for the others, one mortal worker, batches that do not load, lost replies, failing runs, steps found complete; 195k |
| Disabling | `RetryBudgetKept`, `DisabledWorkersHaveNoSteps`, `DisableIsRespected` | one step with retry count 2 in a window of two ticks, which workers find pending, complete or unknown, forgiveness, re-enable, disabled workers; 9k |
| Resources | `WithinLimits`, `PriorityRespected`, `UrgentStepsAreReserved` | three steps, two units of one resource, an urgent step that needs both, one worker with two processes; 62k |
| Assistant | `ClientTypeOK`, `HoldersAreActive`, `OwnershipAgrees` | an assistant that may die runs what the other worker scheduled, lost and repeated calls; 136k |
| Progress | `DeadRunsAreReclaimed`, `LostWorkIsFound`, `FailuresAreRetried` | one step, one mortal worker, lost replies, fairness; 2.3k |
| Interference | `RunsAreNotRemoved` | dynamic dependency, steps a worker declares disabled, tracking, given up resources, repeated calls, a worker without processes, an operator who marks steps done, changes limits, pauses and restarts the server; 229k |
| Children | `LoopTypeOK`, `DoneMeansWhole`, `StopsClean`, `ProcessesImplementLife`, `EveryRunIsReported`, `WorkerStops` | one worker with keep_alive, one or two processes and two runs, of two steps or of one step twice; 329k |
| Upstream | `NothingInvented`, `EntriesAreExact`, `WalkEnds` | all graphs of three steps, which are PENDING or UNKNOWN (with or without dependencies), RUNNING, FAILED, DISABLED, DONE or not in the table; 301k |
| PidLock | `LimitKept`, `RefusalsAreJustified` | five processes, two of them killers, one place; 30k |

Bounds, and why they are enough to be interesting. Two workers are enough for most
conflicts about one step, since a handler looks at one calling worker and at one worker
that runs or held the step; the exception that is known, a disable that passes through
three hands, is among the disagreements below, and the theorems of section 4 are about any
number of workers. Two steps give a dependency; two members and a runner give a batch,
three members batches that overlap; three steps and two units give a step that has to wait
for two others. `RetryCount` 2 lets a step fail, be retried and be disabled. Two runs let
a step fail and run again, or two steps run side by side; three steps give a cycle, a
diamond's shared dependency reached by two ways, and a chain; five processes with one
place fill the lock, its extra place for a killer, and leave dead ones in the file.
`MaxRuns` is the only bound on behaviours: the rest is finite because ages are capped and
every worker starts from finitely many steps; in `WorkerLoop` the queue is finite because
a dead process adds results only until it is reported. Symmetry is used for invariants and
action properties only, where the two workers are configured alike. The mutants in
`PROJECT.json` each break the code in a plausible way and are each caught in the same
instance.

Violated, a disagreement between the code and its documentation (quoted in
`PROJECT.json` under findings):

| Run | Property | What happens |
|---|---|---|
| StaleResult | `OneProcessPerStep` | a child yields, puts PENDING and dies with an error; the FAILED result added for it stays in the queue when PENDING is reported, is taken for the result of the next run of the step, and while that runs the step is handed out again and a second process started |

Sixteen further disagreements were found; each but the last, a comment, is a change to a
configuration or to a definition away:

| Change | Violated | What happens |
|---|---|---|
| Ownership, `Yields <- ChainDeps`, `Requires <- Nothing`, `Mortal = {}`, `Behaviours = {"repeat"}` | `NoDoubleExecution` | a report of new dependencies, repeated after a lost reply, resets the run of the worker that got the step in between (`scheduler.py:863`) |
| Batches, `Steps = {a, b, c, d}`, `Resources = {r}`, `Need <- NeedOne` | `WithinLimits` | a batch that is handed out and not announced yet uses no resources (`scheduler.py:1028`) |
| Assistant, `Steps = {a}`, `Mortal = {w1}`, `Behaviours = {}` | `RunsAreNotRemoved` | a step marked for removal is removed while an assistant runs it (`scheduler.py:593`) |
| Ownership, `Mortal = {w1}` | `HeldStepsAreKept` | a dependency marked for removal is removed though an active worker holds it (`scheduler.py:909`) |
| Ownership, `Behaviours = {"silence"}` | `NoDoubleExecution` | a worker that is silent for longer than the disconnect delay loses its step while it runs it (`scheduler.py:567`) |
| Ownership, `Behaviours = {"repeat"}` | `FailuresAreRuns` | a report of a failure that is repeated counts twice (`scheduler.py:535`) |
| Batches, nobody mortal, `Behaviours = {}` | `OwnershipAgrees` | a batch runner stays attributed to the worker of its first run (`scheduler.py:831`) |
| Disabling, `RetryCount <- CountOne`, `Behaviours = {"track"}` | `RetryBudgetKept` | a report of a tracking URL replaces the step's retry count by the default (`scheduler.py:915`) |
| Disabling, `Workers = {w1, w2, w3}`, `Claims = {"PENDING", "DISABLED"}`, `Behaviours = {}`, no symmetry | `RetryBudgetKept` | a worker that declares a step disabled itself takes over the scheduler's disable, and the next worker ends it by declaring the step pending (`scheduler.py:550`, against the comment in line 525, "don't allow workers to override a scheduler disable"); found when the proof of `RetryBudgetAlwaysKept` failed |
| Ownership, `Resources = {r}`, `Need <- NeedOne`, `Requires <- Nothing`, `Roots <- AllRoots`, `Processes <- TwoProcesses`, `Behaviours = {"track"}` | `WithinLimits` | a report of a tracking URL clears the resources, and the step is retried without them (`scheduler.py:900`) |
| BatchWorker, `"repeat"` added to `Behaviours` | `MembersHaveRunner` | a failure of the runner that is repeated counts twice, so that the runner is disabled before its members; they are handed out again, and while the result of a runner that is not on record as RUNNING is being repeated, they wait for nobody (`scheduler.py:535`) |
| BatchWorker, `"disable_worker"` added to `Behaviours` | `MembersHaveRunner` | what a disabled worker reports of a step that is not RUNNING is ignored, and its `get_work` takes nothing back: members it cannot load stay BATCH_RUNNING until it disconnects (`scheduler.py:812`, `scheduler.py:1124`) |
| BatchWorker, `Workers = {w1, w2}`, `Steps = {a, b, c, 1, 2}`, `Runner <- RunnerC`, `Roots <- OtherRoots`, `Processes <- NoneForSecond`, `Claims = {"PENDING"}`, `Behaviours = {}`, `Mortal = {}` | `GetWorkAnswers` | a batch runner that has failed is removed while its worker lives, but stays in `Worker.steps`; when the worker has fewer steps than the table, `get_steps` finds it there, and `get_work` ends in `KeyError`, in `set_status` (`scheduler.py:600`) or in `count_pending` (`scheduler.py:1282`) |
| BatchWorker, `Workers = {w1, w2}`, `Steps = {a, b, c, d}`, `Runner <- MaxRunner`, `IsBatchable <- AllButD`, `Roots <- OverlappingRoots`, `Processes <- TwoProcesses`, `Claims = {"PENDING"}`, `Behaviours = {"silence", "unloadable"}`, `Mortal = {}`, `DefaultRetryCount = 3` (by simulation) | `MembersHaveRunner` | with `batch_method=max` the runner c is a member of two batches; a worker whose hand-out of {a, c} was taken back while it was silent announces c late, and stores its `batch_id` in the c that is about to run {b, c} for the other worker, or runs it (`scheduler.py:829`); if it runs, its end does not end b, as `trun_patterns.rst:140` promises |
| Upstream, `EntriesAreExact` without the condition on UNKNOWN steps in `Tame` | `EntriesAreExact` | an UNKNOWN step that has kept its dependencies (one worker could list them, another one not) is entered as '', and gets the worst of its dependencies if it is met again: what its dependants wait for depends on the order of questions (`scheduler.py:1272`) |
| - | - | the comment in `scheduler.py:114`, "Jobs are disabled if we see more than retry_count failures", says one failure more than `has_excessive_failures` allows (`scheduler.py:306`, `>=`); `configuration.rst:737` and the tests agree with the code, and so does `RetryBudgetKept` |

The passing runs leave out exactly the behaviour that these switch on: for
instance `OwnershipAgrees` holds unless a worker is silent, a report of new
dependencies is repeated, or a batch is run by a second worker. `IndexesAgree` and
`EntriesAreExact` are about what the code does keep, the steps in the table and the steps
that reach neither a cycle nor an UNKNOWN step with dependencies.

### Fairness

`FairClusterSpec` assumes weak fairness of time, of `PruneNow` (the server's
`PeriodicCallback`), and for each live worker of its keep-alive thread
(`KeepAlive`), of its next call outside the loop (`Proceed`), of asking for work
while a process is free (the loop of `Worker.run` with `keep_alive` set), and of
some running step ending. Nothing is assumed of crashes, operators and lost
replies: `AskForWork` stays enabled, so infinitely many attempts include one
that is answered. That a run ends is an assumption on the user's code; worker
timeouts exist but are optional.

`FairLoopSpec` assumes weak fairness of the worker's main thread (`MainLoop`) and of
`RunLate` for each process: every step has a `worker_timeout`, and it passes. It
assumes nothing of the processes, which may hang, or of the scheduler. `WorkerStops`
and `EveryRunIsReported` need the timeout: without one a step that hangs keeps its
worker for ever. (`timeout` in the configuration is 0 by default, meaning none.)
`FairUpstreamSpec` assumes that the loop of `_upstream_status` goes on.

Deadlock checking is on in the runs of `MCCluster`, whose workers never stop for
good. It is off in the others: `Worker.run` returns, all processes of a lock end, and
the walk ends when nothing is left to ask for.

## 4. Theorems

`SchedulerProofs.tla`, about `Spec` of `Scheduler`, for every set of workers,
steps and resources and every configuration that satisfies the named
assumptions of `Scheduler.tla` (None is no worker, number or dict; delays and
counts are naturals; the runner of a batch is a step):

- `Inductive`: the inductive invariant `IInv`;
- `TypesCorrect`, `IndexesAlwaysAgree`, `HoldersAlwaysActive`,
  `RunsAlwaysReclaimable`, `DisabledWorkersStayOut`: five invariants the runs
  check, from `IInv`;
- `DisableAlwaysRespected`: the action property `DisableIsRespected`.

None of the five is inductive alone. `IndexesAgree` is about the steps in the table:
removed steps are in `Worker.steps` alone, for which the code has its price (see the
disagreements). That the indexes agree after a time-out needs the holders to be active;
that a step that is not in the table has no holders, so that the step's next life starts
without any, needs `workers` to be among `stakeholders`; that the steps of disabled
workers stay empty needs the indexes to agree; that a failed step has a time of retry
needs that a disable by the scheduler is recorded only for DISABLED steps, as `re_enable`
would otherwise be refused. `IInv` is their conjunction with the types: `TableOK` collects
what is said of the two tables and `StepOK` what is said of one record.

The argument goes by size. Lemmas about the operators on one record
(`SetOwnStatus`, `ReEnable`, `FailDeadWorkerStep`, `UpdateStatus`, ...) say that
they keep `StepOK` and the holders, and what they may do to a disabled step.
Lemmas about the operators on the table lift this to `SetStatus`, `PruneSteps`,
`AddStepSteps`, `HandOut`. One lemma per handler (`AddStepGood`, `GetWorkGood`,
`PruneGood`, ...) shows that it keeps `IInv` and respects disables; `NextGood`
combines them.

`WorkerLoopProofs.tla`, about `LoopSpec`, for every set of steps, number of runs and
capacities, under the assumption `~EarlyRetry`, which `StaleResult` shows to be
needed:

- `LoopInductive`: the inductive invariant `LoopInv`;
- `LoopTypesCorrect`, `DoneAlwaysWhole`, `OneProcessAlways`: from `LoopInv`;
- `StopsAlwaysClean`: `StopsClean`, from `LoopInv` and `StopInv`: as long as the worker
  counts itself successful, a process that died is still the one of its step, and what is
  queued for it says FAILED;
- `ProcessesAlwaysImplementLife`: the refinement of `StepLife`.

`LoopInv` adds to the types that a process that executes is the one in
`_running_steps` (`Owned`), that a result in the queue is never one of a process that
still executes, and is true if it says DONE (`QueueOK`), and that what has been moved
is whole (`Written`). `QueueOK` is where `~EarlyRetry` comes in: a new process for a
step with an old result in the queue breaks it. All that is done to or by processes
goes through one lemma, `ProcessStepKeepsInv`: it keeps the invariant if nothing
starts to execute, what is moved is whole and what is queued is right. The refinement
needs of the invariant only that executors and record are functions of
`_running_steps` (`Followed`); then `ReceiveStep` is a `Begin`, `ReportResult` is an
`End`, and nothing else moves (`EffectOnAStep`).

`PidLockProofs.tla`, for every set of processes and number of places:
`LockInductive`, `LimitAlwaysKept` and `RefusalsAlwaysJustified`. While nothing was
disturbed, one process at most is busy, and whoever holds the lock is in what it has
read and, unless it is being written, in the file; and what is in the file or in
anybody's memory is, disturbed or not, the pid of a process that got the lock. Both
properties follow by counting.

`UpstreamStatusProofs.tla`, for every finite graph: `NothingEverInvented`, a positive
entry in a closed set of steps has its cause there, because the worst of the entries of
dependencies is one of them; and `EntriesAlwaysExact`, for each step that reaches neither
a cycle nor an UNKNOWN step with dependencies, in a graph that may have both. Its
invariant (`Walked`) looks at the stack: an entry is exact already, or it is a placeholder
whose step is still on the stack with every dependency exact or above it, and with nothing
above it but what it depends on. If such a step is on top when it is met again, then all
of its dependencies are exact, since none of them leads back to it.

### The scheduler with its workers

`ClusterProofs.tla`, for every number of workers, steps and resources and every graph,
under the assumptions of `Scheduler.tla` and `ClusterAssumption`:

- `ClientTypesCorrect`, and `ClusterImplementsScheduler`: every call a worker makes,
  the repeated ones too, is one `Scheduler` allows, so its six theorems hold for the
  cluster;
- `RunsNeverRemoved` under `PlainSetting`: live workers ping in time, there are no
  assistants and no batches, and the steps are finitely many;
- `OwnersAlwaysAgree` under `OwnSetting`: besides, no operator marks steps as done, no
  report is repeated where steps yield, and no worker declares a step complete where steps
  yield or miss dependencies (it may be executing then);
- `ClusterImplementsLife` under `LifeSetting`: besides, no report is repeated and no step
  found complete that nobody has executed.

The settings switch off what breaks the property in the code: each part of them is a
row of the table of disagreements, a batch that is run by a second worker for one, or
the documented way to intervene, as marking a step done. Deaths of workers, lost
replies of `get_work`, missing dependencies, pruning at any time, disabled
workers, forgiveness, changed limits, pauses and restarts of the server stay in. (A
configuration sets `Behaviours`, `AssistantWorkers`, `IsBatchable`, `Claims`: that of
`Ownership` satisfies all three settings.)

The argument has two parts. `HoldInv` says that no live worker is out of contact for too
long, that it is a stakeholder of what it executes and of what the scheduler believes it
executes, and that no step in use is marked for removal. It is kept because each handler
does only little to a record, and the lemmas say so in terms of relations between a record
and the next: `Calm` (what `prune`, `get_work` and an operator do), `Steady`, `Answered`
(what `add_step` does for the step it is about and for the others). `OwnInv` says that
what is executed is RUNNING on its executor, and what a worker has still to report. That
`get_work` gives a step to one worker only rests on `older` being a strict total order:
the best step is one step, and the greedy schedule hands out that one. The refinement then
looks at one step of the table: what `StepLife` does not allow (done to running, done
without an execution, a second executor) does not happen to it (`Lively`), and what is
left is one of its actions or none.

`BudgetProofs.tla`:

- `RetryBudgetAlwaysKept` under `BudgetSetting`: no worker declares a step disabled, and
  no step has fewer retries than the scheduler's default. Both are needed (see the
  disagreements). Batches, assistants, silence, repeated calls and operators are all in.
  The invariant `BudgetInv` says that a record that is not DISABLED has fewer failures than
  the step's `RetryCount`, that one that is was disabled by the scheduler, whose disable no
  worker's report can end, that the `retry_count` of a record never exceeds the step's, and
  that no call under way would make it do so.
- `FailuresAlwaysRuns` under `CountSetting`: the setting of `OwnersAlwaysAgree`, where
  besides no report is repeated and every step that is handed out can be loaded. A failure
  is counted by a report, which ends a run, or by `prune`, for a step whose worker has died.

Failures are kept by age, so their number is a sum, and what a sum is would be a matter
of induction. The first part of the module avoids the induction theorems (which take an
operator as parameter): a sum of naturals over a finite set is the cardinality of the set
of its units, shown for the smallest set for which it would be false. After that `Tick`,
which makes failures older and drops the oldest, is an injection between sets of units.

### Resources

`LimitProofs.tla`, about `get_work` and what it hands out:

- `PriorityAlwaysRespected` and `UrgentStepsAlwaysReserved` under `SizeSetting`:
  `PlainSetting`, and the record of a scheduled step says what the step needs. Two calls
  can change that in the code, a report of a tracking URL (which clears the resources,
  see the disagreements) and `decrease_running_step_resources`; and a report that a step
  cannot be loaded is made without its resources. The setting switches these three off.
- `LimitsAlwaysKept` under `LimitSetting`: besides, `OwnSetting` (a step that is executed
  and not on record as RUNNING uses resources nobody counts), no report is repeated (while
  it is repeated, the scheduler counts a run as ended that the worker has still in
  `_running_steps`), no operator changes the limits (a lowered limit is exceeded by what
  runs already) and the workers are finitely many.

The configuration of the run `Resources` satisfies both.

The invariant `SizeInv` says that `resources` is what the step needs once the step has
been scheduled, that `resources_running` is not set or the same, that calls under way
carry it, and that no step is being given up as not loadable. `LoadInv` adds that the sum
of what RUNNING steps need is within the limits.

The greedy schedule is a recursive function, from the best place of the queue to the last,
and the first lemmas show that it exists and what its steps are: that every place is filled
by one step, since the steps are finitely many and `Ordered` makes the rank a total order
(`PlaceOf` and `PlaceIsTaken`, which count the steps above), and that a resource is taken
only by steps higher up (`SchedulesTaken`). What `get_work` returns is the first place that
fits. So a step of higher rank that is passed over does not fit in the schedule, hence
shares a resource with a step above it; and nothing is above the step of highest rank, so
its own need is in the schedule when any other is tried.

For the limits, sums are counts of units again: starting a step adds its units to those of
the RUNNING steps, which `_has_resources` has compared with the limits; and what the workers
execute injects into what is RUNNING, since by `OwnInv` each run is a step that is RUNNING
on that worker.

### Batches

`BatchProofs.tla`: `MembersAlwaysHaveRunner` under `BatchSetting`, with any number of
workers that may die or fall silent, replies of `get_work` that get lost, batches that do
not load, and operators that mark steps done, re-enable, pause, change limits or restart
the server. The setting asks for

- runners that run one batch only and are not batchable themselves (`RunnersApart`). Not
  every `batch_method` is like that: with `max`, the documented one, the runner is a
  member, and of several batches. Of such runners the theorem says nothing. With a silent
  worker the property is false of them (see the disagreements); without one TLC found it
  to hold (`BatchWorker`, where two of three batches are run by a member, and larger
  instances with `MaxRunner` and two workers), but it is not proved;
- nobody depends on a runner; no dynamic dependencies, no assistants, finitely many steps;
- no repeated reports and no disabled workers, with which TLC finds the property violated
  (see the disagreements);
- no "track", "missing" and "forgive". In the instance of `BatchWorker` TLC finds the
  property to hold with each of the first two, and with "forgive" and two members (`Steps =
  {a, b, c}`) in all of the 1.5 million states it reaches in five minutes,
  but the proof does not cover them.

The configuration of the run `Batches` satisfies it. The invariant has
four parts. `AllSound`: who has a `batch_id` belongs to that batch, and a runner is not
removed while it matters. `NotMisled`: what runs for the batch of a BATCH_RUNNING member on
the member's worker is the runner; otherwise `_reset_orphaned_batch_running_steps` would
take a lost member for one that is run. `Cared`: a live worker of a member is about to
start the runner, or to report the member, or to ask for work, or the runner is RUNNING.
`OneThing`: the main thread does one of these at a time. `prune`, `add_step`, time and the
operators are instances of one relation between tables (`Moves`: no member is new and none
loses its runner), which is transitive, so a handler is followed assignment by assignment;
only `get_work` makes members, and it has a relation of its own (`Hands`).

### Only model-checked

- Liveness (`DeadRunsAreReclaimed`, `LostWorkIsFound`, `FailuresAreRetried`,
  `EveryRunIsReported`, `WorkerStops`, `WalkEnds`), which is out of the prover's reach.
- Ownership with assistants and with batches of one worker (`Assistant`, `BatchWorker`),
  which `OwnSetting` excludes; `FailuresAreCountedOnce`; batches that are run by a member.
  (`HoldersAreActive` in `Assistant` is proved, for `Scheduler`.)

## 5. Plan

Done: `Scheduler`, `Cluster`, `StepLife`, `WorkerLoop`, `UpstreamStatus`, `PidLock`,
and the proofs above. Next, in order:

1. Proofs: ownership with assistants, and with batches that are run by one worker;
   `MembersHaveRunner` with tracking reports, missing dependencies and forgiveness, and for
   runners that are members, without silence.
2. Scheduler: a crash that loses or sets back
   the state file; scheduler messages and status messages.
3. Worker: external steps, rescheduling of missing dependencies and its limit.

## 6. Not modelled

Steps, parameters, configuration, command line, formats, history, summary,
metrics, tools and the integrations under `contrib/` are sequential code around
parsing or I/O; the scheduler sees of them only the ids and attributes that are
constants here. Batched notifications end as mail, on which nothing depends. The
visualiser appears as its operator calls, and the queries it reads are left out, with
the exception of `_upstream_status`, on which `count_pending` depends too.

The C++ files under `src/src/trun` and `src/main.cpp` are unfinished translations of
the Python modules: `scheduler.h` includes a header that is not in the repository,
`target.cpp` and `interface.cpp` do not compile, and methods are missing or left as
comments. They have no behaviour that could be compared with a model. What is under
`examples/` (SQLite, toml++ and other libraries) is third-party code; it makes up
nearly all of the C and C++ of the repository, so no part of that is covered here.
The program that runs is the Python package `src/trun`.
