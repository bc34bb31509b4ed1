------------------------------- MODULE StepLife -------------------------------
(***************************************************************************)
(* What trun promises about one step, whoever runs it: at any time it has  *)
(* at most one executor; while it has one, the scheduler's record says     *)
(* that it runs and is not changed; and it becomes done only by the end of *)
(* an execution.  Cluster implements this with worker processes as         *)
(* executors, WorkerLoop with the child processes of one worker.           *)
(***************************************************************************)
CONSTANTS
    Steps,
    Executors       \* whoever may execute a step

VARIABLES
    record,         \* [Steps -> {"idle", "running", "done"}]
    executors       \* [Steps -> SUBSET Executors]: who executes the step now

lifeVars == <<record, executors>>

Records == {"idle", "running", "done"}

LifeInit ==
    /\ record = [s \in Steps |-> "idle"]
    /\ executors = [s \in Steps |-> {}]

\* A step that is not done is given to somebody, who may not have heard of it
Assign(s) ==
    /\ record[s] = "idle" /\ record'[s] = "running"
    /\ executors[s] = {} /\ executors'[s] = {}

\* An execution begins, of a step that is given to its executor
Begin(s) ==
    /\ record[s] \in {"idle", "running"} /\ record'[s] = "running"
    /\ executors[s] = {} /\ \E e \in Executors : executors'[s] = {e}

\* The execution ends; the record may say so at once, or still say "running"
End(s) ==
    /\ record[s] = "running" /\ record'[s] \in Records
    /\ \E e \in Executors : executors[s] = {e}
    /\ executors'[s] = {}

\* What was given to somebody and is not executed is taken back
TakeBack(s) ==
    /\ record[s] = "running" /\ record'[s] = "idle"
    /\ executors[s] = {} /\ executors'[s] = {}

\* A step that was done is wanted again
Reopen(s) ==
    /\ record[s] = "done" /\ record'[s] = "idle"
    /\ executors[s] = {} /\ executors'[s] = {}

\* Several steps may take a step of their lives at once
LifeNext ==
    \A s \in Steps : \/ Assign(s) \/ Begin(s) \/ End(s) \/ TakeBack(s) \/ Reopen(s)
                     \/ record'[s] = record[s] /\ executors'[s] = executors[s]

LifeSpec == LifeInit /\ [][LifeNext]_lifeVars
=============================================================================
