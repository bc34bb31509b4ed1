------------------------------ MODULE WorkerLoop ------------------------------
(***************************************************************************)
(* The inside of one worker: the main loop of Worker.run, the processes it *)
(* starts for its steps, the queue on which they put their results, and    *)
(* the files the steps write (src/trun/worker.py, target.py,               *)
(* local_target.py).  Of the scheduler only what it answers is modelled:   *)
(* the status of each step, and whether the worker is disabled.            *)
(***************************************************************************)
EXTENDS Integers, Sequences, FiniteSets

CONSTANTS
    Steps,
    MaxRuns,        \* bound: how many processes the worker ever starts
    Capacities,     \* the values worker_processes is set to
    KeepAlive,      \* the worker is configured with keep_alive
    Assistant,      \* the worker is an assistant
    EarlyRetry      \* the scheduler may hand a step out again while an old
                    \* result of it is still in the queue

ASSUME LoopAssumption ==
    /\ IsFiniteSet(Steps) /\ Steps # {} /\ MaxRuns \in Nat
    /\ IsFiniteSet(Capacities) /\ Capacities \subseteq Nat \ {0} /\ Capacities # {}
    /\ KeepAlive \in BOOLEAN /\ Assistant \in BOOLEAN /\ EarlyRetry \in BOOLEAN

VARIABLES
    status,             \* [Steps -> Statuses]: what the scheduler records
    enabled,            \* the scheduler has not disabled the worker
    pc,                 \* where Worker.run is
    running_steps,      \* [Steps -> 0..MaxRuns]: _running_steps, 0 for no entry
    worker_processes,
    stop_requesting,    \* _stop_requesting_work, which also ends keep_alive
    run_succeeded,
    result_queue,       \* Seq of results, _step_result_queue
    children,           \* [1..MaxRuns -> child]: the processes, in start order
    output              \* [Steps -> what is under the final name of the target]

schedulerVars == <<status, enabled>>
mainVars == <<pc, running_steps, worker_processes, stop_requesting, run_succeeded>>
childVars == <<result_queue, children, output>>
loopVars == <<schedulerVars, mainVars, childVars>>

Runs == 1..MaxRuns
Statuses == {"PENDING", "RUNNING", "DONE", "FAILED"}
Results == [step : Steps, status : {"PENDING", "DONE", "FAILED"}]

\* A process executes StepProcess.run until it has put its result: it writes to
\* the temporary file, closes it, moves it.  After that it has only to exit.  One
\* that is killed "died" before or was "spoiled" after the result was put.
ExecutingStages == {"writing", "closed", "moved"}
AliveStages == ExecutingStages \cup {"put"}
DeadStages == {"died", "spoiled"}

Stages == {"unused", "gone"} \cup AliveStages \cup DeadStages

Running == {s \in Steps : running_steps[s] # 0}
Executing(c) == children[c].stage \in ExecutingStages
IsAlive(c) == children[c].stage \in AliveStages
InQueue(s) == \E i \in 1..Len(result_queue) : result_queue[i].step = s

LoopInit ==
    /\ status = [s \in Steps |-> "PENDING"]
    /\ enabled = TRUE
    /\ pc = "top"
    /\ running_steps = [s \in Steps |-> 0]
    /\ worker_processes \in Capacities
    /\ stop_requesting = FALSE
    /\ run_succeeded = TRUE
    /\ result_queue = <<>>
    /\ children = [c \in Runs |-> [step |-> CHOOSE s \in Steps : TRUE,
                                   stage |-> "unused", late |-> FALSE]]
    /\ output = [s \in Steps |-> "none"]

-----------------------------------------------------------------------------
(* Worker.run: asking for work. *)

Full == Cardinality(Running) >= worker_processes

\* `while len(self._running_steps) >= self.worker_processes > 0`
WaitForProcess ==
    /\ pc = "top" /\ Full
    /\ pc' = "handling"
    /\ UNCHANGED <<schedulerVars, childVars, running_steps, worker_processes,
                   stop_requesting, run_succeeded>>

\* The first half of Worker._get_work: the scheduler is asked, or not any more
AskScheduler ==
    /\ pc = "top" /\ ~Full
    /\ pc' = IF stop_requesting THEN "refused" ELSE "asking"
    /\ UNCHANGED <<schedulerVars, childVars, running_steps, worker_processes,
                   stop_requesting, run_succeeded>>

\* The reply names a step: _get_work, _run_step and _create_step_process
ReceiveStep(s, c) ==
    /\ pc = "asking"
    /\ enabled /\ status[s] = "PENDING" /\ s \notin Running
    /\ EarlyRetry \/ ~InQueue(s)
    /\ children[c].stage = "unused"
    /\ \A d \in 1..c-1 : children[d].stage # "unused"
    /\ status' = [status EXCEPT ![s] = "RUNNING"]
    /\ running_steps' = [running_steps EXCEPT ![s] = c]
    /\ children' = [children EXCEPT ![c] =
                       [step |-> s, stage |-> "writing", late |-> FALSE]]
    /\ pc' = "top"
    /\ UNCHANGED <<enabled, worker_processes, stop_requesting, run_succeeded,
                   result_queue, output>>

\* Worker._keep_alive
StaysAlive(stop, n_pending_steps) ==
    KeepAlive /\ ~stop /\ (Assistant \/ n_pending_steps > 0)

Pending == Cardinality({s \in Steps : status[s] \in {"PENDING", "FAILED"}})

\* Mutant: the state of the worker in the reply is not looked at
PhasesOutUnlessDisabled == stop_requesting

\* The reply says that the worker is disabled: _start_phasing_out
PhasesOut == stop_requesting \/ ~enabled

\* Mutant: only processes that are alive count as running steps
NothingAlive == \A s \in Running : ~IsAlive(running_steps[s])

NothingRunning == Running = {}

\* The reply names no step.  An idle worker sleeps and asks again, or leaves the
\* loop.
ReceiveNothing ==
    /\ pc \in {"asking", "refused"}
    /\ stop_requesting' = PhasesOut
    /\ pc' = IF ~NothingRunning THEN "handling"
             ELSE IF StaysAlive(PhasesOut, IF pc = "refused" THEN 0 ELSE Pending)
                  THEN "top" ELSE "stopped"
    /\ UNCHANGED <<schedulerVars, childVars, running_steps, worker_processes,
                   run_succeeded>>

-----------------------------------------------------------------------------
(* Worker._handle_next_step. *)

\* Mutant: dead processes are not looked for
NeverDied(s) == FALSE

Died(s) == children[running_steps[s]].stage \in DeadStages

TimedOut(s) == children[running_steps[s]].late /\ IsAlive(running_steps[s])

\* Mutant: the process is given up, but not terminated
GivenUp(child) == child

\* StepProcess.terminate
Terminated(child) ==
    [child EXCEPT !.stage = IF @ = "put" THEN "spoiled" ELSE "died", !.late = FALSE]

\* The ways to put a finite set in sequence: _running_steps is walked in some order
Orders(S) ==
    {q \in [1..Cardinality(S) -> S] : \A i, j \in DOMAIN q : q[i] = q[j] => i = j}

\* Mutant: the result has no status
UnclearResult(s) == [step |-> s, status |-> "UNKNOWN"]

FailedResult(s) == [step |-> s, status |-> "FAILED"]

\* _purge_children: a result for each child that died, and for each that has run
\* too long and is terminated now; again at every call until it is reported
PurgeChildren ==
    LET killed == {s \in Running : TimedOut(s)}
        failed == {s \in Running : Died(s)} \cup killed
    IN  /\ pc = "handling"
        /\ \E order \in Orders(failed) :
              result_queue' = result_queue
                                \o [i \in 1..Len(order) |-> FailedResult(order[i])]
        /\ children' = [c \in Runs |-> IF \E s \in killed : running_steps[s] = c
                                       THEN Terminated(children[c])
                                       ELSE children[c]]
        /\ pc' = "waiting"
        /\ UNCHANGED <<schedulerVars, running_steps, worker_processes,
                       stop_requesting, run_succeeded, output>>

\* Nothing arrives within wait_interval
HearNothing ==
    /\ pc = "waiting" /\ result_queue = <<>>
    /\ pc' = "top"
    /\ UNCHANGED <<schedulerVars, childVars, running_steps, worker_processes,
                   stop_requesting, run_succeeded>>

\* "Not a running step. Probably already removed."
SkipResult ==
    /\ pc = "waiting" /\ result_queue # <<>>
    /\ Head(result_queue).step \notin Running
    /\ result_queue' = Tail(result_queue)
    /\ pc' = "handling"
    /\ UNCHANGED <<schedulerVars, running_steps, worker_processes, stop_requesting,
                   run_succeeded, children, output>>

\* The result is reported to the scheduler and the step is no longer running
ReportResult ==
    LET result == Head(result_queue)
    IN  /\ pc = "waiting" /\ result_queue # <<>> /\ result.step \in Running
        /\ result_queue' = Tail(result_queue)
        /\ status' = [status EXCEPT ![result.step] = result.status]
        /\ running_steps' = [running_steps EXCEPT ![result.step] = 0]
        /\ run_succeeded' = (run_succeeded /\ result.status # "FAILED")
        /\ pc' = "top"
        /\ UNCHANGED <<enabled, worker_processes, stop_requesting, children, output>>

-----------------------------------------------------------------------------
(* The processes: StepProcess.run, and the file its step writes. *)

Becomes(c, stage) == children' = [children EXCEPT ![c].stage = stage]

Put(c, result_status) ==
    result_queue' = Append(result_queue,
                           [step |-> children[c].step, status |-> result_status])

\* What is in the temporary file: all is written when it is closed
Contents(c) == IF children[c].stage = "writing" THEN "partial" ELSE "whole"

\* AtomicLocalFile.close: the temporary file is closed ...
CloseFile(c) ==
    /\ children[c].stage = "writing"
    /\ Becomes(c, "closed")
    /\ UNCHANGED <<schedulerVars, mainVars, result_queue, output>>

\* Mutant: the file is moved while it is written
Writable == {"writing", "closed"}

Movable == {"closed"}

\* ... and moved to its final name, in one step
MoveFile(c) ==
    /\ children[c].stage \in Movable
    /\ Becomes(c, "moved")
    /\ output' = [output EXCEPT ![children[c].step] = Contents(c)]
    /\ UNCHANGED <<schedulerVars, mainVars, result_queue>>

\* run() returns, and has written its file: the result is DONE
ReturnDone(c) ==
    /\ children[c].stage = "moved"
    /\ Put(c, "DONE")
    /\ Becomes(c, "put")
    /\ UNCHANGED <<schedulerVars, mainVars, output>>

\* run() raises, before or after it has written its file or because that fails
RaiseError(c) ==
    /\ Executing(c)
    /\ Put(c, "FAILED")
    /\ Becomes(c, "put")
    /\ UNCHANGED <<schedulerVars, mainVars, output>>

\* run() yields dependencies that are not complete, and will start again
YieldDependencies(c) ==
    /\ children[c].stage = "writing"
    /\ Put(c, "PENDING")
    /\ Becomes(c, "put")
    /\ UNCHANGED <<schedulerVars, mainVars, output>>

\* The process ends with exit code 0, after it has put its result
ExitChild(c) ==
    /\ children[c].stage = "put"
    /\ children' = [children EXCEPT ![c].stage = "gone", ![c].late = FALSE]
    /\ UNCHANGED <<schedulerVars, mainVars, result_queue, output>>

\* The process is killed at any point, before or after it has put its result
KillChild(c) ==
    /\ IsAlive(c)
    /\ children' = [children EXCEPT ![c] = Terminated(@)]
    /\ UNCHANGED <<schedulerVars, mainVars, result_queue, output>>

\* timeout_time passes
RunLate(c) ==
    /\ IsAlive(c) /\ ~children[c].late
    /\ children' = [children EXCEPT ![c].late = TRUE]
    /\ UNCHANGED <<schedulerVars, mainVars, result_queue, output>>

-----------------------------------------------------------------------------
(* What happens around the worker until it has left its loop. *)

\* The scheduler makes a failed step PENDING again
RetryStep(s) ==
    /\ status[s] = "FAILED" /\ pc # "stopped"
    /\ status' = [status EXCEPT ![s] = "PENDING"]
    /\ UNCHANGED <<enabled, mainVars, childVars>>

\* An operator disables the worker at the scheduler, while it still asks
Disable ==
    /\ enabled /\ ~stop_requesting /\ pc # "stopped"
    /\ enabled' = FALSE
    /\ UNCHANGED <<status, mainVars, childVars>>

\* SIGUSR1: handle_interrupt and _start_phasing_out
HandleInterrupt ==
    /\ ~stop_requesting /\ pc # "stopped"
    /\ stop_requesting' = TRUE
    /\ UNCHANGED <<schedulerVars, childVars, pc, running_steps, worker_processes,
                   run_succeeded>>

\* The keep-alive thread is told another number of processes
SetWorkerProcesses(n) ==
    /\ n # worker_processes /\ pc # "stopped"
    /\ worker_processes' = n
    /\ UNCHANGED <<schedulerVars, childVars, pc, running_steps, stop_requesting,
                   run_succeeded>>

MainLoop ==
    \/ WaitForProcess \/ AskScheduler
    \/ \E s \in Steps, c \in Runs : ReceiveStep(s, c)
    \/ ReceiveNothing
    \/ PurgeChildren \/ HearNothing \/ SkipResult \/ ReportResult

Child(c) ==
    \/ CloseFile(c) \/ MoveFile(c) \/ ReturnDone(c) \/ RaiseError(c)
    \/ YieldDependencies(c) \/ ExitChild(c) \/ KillChild(c) \/ RunLate(c)

Environment ==
    \/ \E s \in Steps : RetryStep(s)
    \/ Disable \/ HandleInterrupt
    \/ \E n \in Capacities : SetWorkerProcesses(n)

LoopNext == MainLoop \/ (\E c \in Runs : Child(c)) \/ Environment

LoopSpec == LoopInit /\ [][LoopNext]_loopVars

\* The main thread goes on, and every step has a worker_timeout that passes some
\* time.  Nothing is assumed of the processes: a step may hang.
FairLoopSpec ==
    /\ LoopSpec
    /\ WF_loopVars(MainLoop)
    /\ \A c \in Runs : WF_loopVars(RunLate(c))

-----------------------------------------------------------------------------
(* Properties. *)

\* The variables of the loop, of the scheduler's record and of the processes keep
\* their types.
LoopTypeOK ==
    /\ status \in [Steps -> Statuses] /\ enabled \in BOOLEAN
    /\ pc \in {"top", "asking", "refused", "handling", "waiting", "stopped"}
    /\ running_steps \in [Steps -> 0..MaxRuns]
    /\ worker_processes \in Capacities
    /\ stop_requesting \in BOOLEAN /\ run_succeeded \in BOOLEAN
    /\ result_queue \in Seq(Results)
    /\ children \in [Runs -> [step : Steps, stage : Stages, late : BOOLEAN]]
    /\ output \in [Steps -> {"none", "partial", "whole"}]

\* What StepLife says of the executors of a step holds of the processes of this
\* worker: a process executes its step from the start until its result is
\* reported, or longer if the result that is reported is not its own.
ProcessesOf(s) ==
    {c \in Runs : /\ children[c].step = s
                  /\ Executing(c) \/ running_steps[s] = c}

RecordOf(s) ==
    CASE status[s] = "RUNNING" -> "running"
      [] status[s] = "DONE" -> "done"
      [] OTHER -> "idle"

Life == INSTANCE StepLife WITH Executors <- Runs,
                               record <- [s \in Steps |-> RecordOf(s)],
                               executors <- [s \in Steps |-> ProcessesOf(s)]

\* The worker implements StepLife: a step is executed by one process at a time,
\* the scheduler has it RUNNING for as long, and it is recorded as done only when
\* an execution ends.
ProcessesImplementLife == Life!LifeSpec

\* The worker never starts a second process for a step while the first one still
\* executes it.
OneProcessPerStep ==
    \A c, d \in Runs : Executing(c) /\ Executing(d) /\ children[c].step = children[d].step
                          => c = d

\* What the scheduler has as DONE has been written completely: at no time, whatever
\* process is killed, is there a partial file under the final name.
DoneMeansWhole ==
    \A s \in Steps : /\ output[s] # "partial"
                     /\ status[s] = "DONE" => output[s] = "whole"

\* When Worker.run returns no process is left behind that still executes a step,
\* and it returns True only if no process died before it put its result.
StopsClean ==
    pc = "stopped" => \A c \in Runs : /\ ~Executing(c)
                                      /\ run_succeeded => children[c].stage # "died"

\* Every run ends for the worker: its result is reported even if the process dies
\* or hangs.
EveryRunIsReported ==
    \A c \in Runs : (\E s \in Steps : running_steps[s] = c)
                        ~> ~\E s \in Steps : running_steps[s] = c

\* A worker that is disabled or interrupted ends its runs and leaves the loop.
WorkerStops == (~enabled \/ stop_requesting) ~> pc = "stopped"
=============================================================================
