--------------------------- MODULE WorkerLoopProofs ---------------------------
(***************************************************************************)
(* WorkerLoop keeps its types, has written what is DONE, and implements    *)
(* StepLife, for every number of steps, processes and runs, as long as no  *)
(* step is handed out again while an old result of it is in the queue.     *)
(***************************************************************************)
EXTENDS WorkerLoop, FiniteSetTheorems, TLAPS

\* A process that executes a step is the one _running_steps has for it, and the
\* scheduler has RUNNING exactly the steps in _running_steps.
Owned ==
    /\ \A c \in Runs : Executing(c) => running_steps[children[c].step] = c
    /\ \A s \in Steps : running_steps[s] # 0 =>
           /\ children[running_steps[s]].step = s
           /\ children[running_steps[s]].stage # "unused"
    /\ \A s \in Steps : status[s] = "RUNNING" <=> running_steps[s] # 0

\* A result in the queue is not one of a process that still executes; and one that
\* says DONE is true.
ResultOK(result) ==
    /\ running_steps[result.step] # 0 => ~Executing(running_steps[result.step])
    /\ result.status = "DONE" => output[result.step] = "whole"

QueueOK == \A i \in 1..Len(result_queue) : ResultOK(result_queue[i])

\* What has been moved is whole.
Written ==
    /\ \A s \in Steps : output[s] # "partial"
    /\ \A s \in Steps : status[s] = "DONE" => output[s] = "whole"
    /\ \A c \in Runs : children[c].stage = "moved" => output[children[c].step] = "whole"

LoopInv == LoopTypeOK /\ Owned /\ QueueOK /\ Written

-----------------------------------------------------------------------------
(* Sequences. *)

\* What is in a sequence after an element was appended was there, or is the element.
LEMMA InAppend ==
    ASSUME NEW S, NEW q \in Seq(S), NEW x \in S, NEW i \in 1..Len(Append(q, x))
    PROVE  (i \in 1..Len(q) /\ Append(q, x)[i] = q[i]) \/ Append(q, x)[i] = x
OBVIOUS

\* What is in the tail of a sequence was in the sequence.
LEMMA InTail ==
    ASSUME NEW S, NEW q \in Seq(S), q # <<>>, NEW i \in 1..Len(Tail(q))
    PROVE  i + 1 \in 1..Len(q) /\ Tail(q)[i] = q[i + 1]
OBVIOUS

\* What is in the concatenation of two sequences is in one of them.
LEMMA InConcat ==
    ASSUME NEW S, NEW q \in Seq(S), NEW r \in Seq(S), NEW i \in 1..Len(q \o r)
    PROVE  \/ i \in 1..Len(q) /\ (q \o r)[i] = q[i]
           \/ i - Len(q) \in 1..Len(r) /\ (q \o r)[i] = r[i - Len(q)]
OBVIOUS

\* An order of a set of steps lists its elements.
LEMMA OrdersAreSeqs ==
    ASSUME NEW S \in SUBSET Steps, NEW q \in Orders(S)
    PROVE  q \in Seq(S) /\ \A i \in 1..Len(q) : q[i] \in S
<1>1. Cardinality(S) \in Nat
  BY FS_Subset, FS_CardinalityType, LoopAssumption
<1> QED
  BY <1>1 DEF Orders

\* The results in the queue are results of steps.
LEMMA ResultsHaveSteps ==
    ASSUME LoopTypeOK, NEW i \in 1..Len(result_queue)
    PROVE  result_queue[i] \in Results /\ result_queue[i].step \in Steps
<1>1. result_queue[i] \in Results
  BY DEF LoopTypeOK
<1> QED
  BY <1>1 DEF Results

-----------------------------------------------------------------------------
(* The invariant. *)

\* The invariant holds when Worker.run starts.
LEMMA LoopInvInit == LoopInit => LoopInv
<1> SUFFICES ASSUME LoopInit PROVE LoopInv
  OBVIOUS
<1>1. (CHOOSE s \in Steps : TRUE) \in Steps
  BY LoopAssumption
<1>2. LoopTypeOK
  <2>1. children \in [Runs -> [step : Steps, stage : Stages, late : BOOLEAN]]
    <3> DEFINE child == [step |-> CHOOSE s \in Steps : TRUE, stage |-> "unused",
                         late |-> FALSE]
    <3>1. child \in [step : Steps, stage : Stages, late : BOOLEAN]
      BY <1>1 DEF Stages
    <3>2. children = [c \in Runs |-> child]
      BY DEF LoopInit
    <3> HIDE DEF child
    <3> QED
      BY <3>1, <3>2
  <2>2. running_steps \in [Steps -> 0..MaxRuns]
    BY LoopAssumption DEF LoopInit
  <2>3. status \in [Steps -> Statuses] /\ output \in [Steps -> {"none", "partial", "whole"}]
    BY DEF LoopInit, Statuses
  <2>4. result_queue \in Seq(Results)
    BY DEF LoopInit
  <2> QED
    BY <2>1, <2>2, <2>3, <2>4 DEF LoopInit, LoopTypeOK
<1>3. Owned
  BY DEF LoopInit, Owned, Executing, ExecutingStages
<1>4. QueueOK /\ Written
  BY DEF LoopInit, QueueOK, Written
<1> QED
  BY <1>2, <1>3, <1>4 DEF LoopInv

\* A step that changes neither the steps' bookkeeping nor the processes keeps it.
LEMMA QuietStepKeepsInv ==
    ASSUME LoopInv, LoopTypeOK',
           UNCHANGED <<status, running_steps, result_queue, children, output>>
    PROVE  LoopInv'
<1>1. Owned'
  BY DEF LoopInv, Owned, Executing
<1>2. QueueOK'
  BY DEF LoopInv, QueueOK, ResultOK, Executing
<1>3. Written'
  BY DEF LoopInv, Written
<1> QED
  BY <1>1, <1>2, <1>3 DEF LoopInv

\* Asking, waiting and stopping keep the invariant.
LEMMA LoopStepKeepsInv ==
    ASSUME LoopInv, WaitForProcess \/ AskScheduler \/ ReceiveNothing \/ HearNothing
    PROVE  LoopInv'
<1> USE DEF schedulerVars, childVars
<1>1. LoopTypeOK'
  <2>1. CASE WaitForProcess
    BY <2>1 DEF LoopInv, LoopTypeOK, WaitForProcess
  <2>2. CASE AskScheduler
    BY <2>2 DEF LoopInv, LoopTypeOK, AskScheduler
  <2>3. CASE ReceiveNothing
    BY <2>3, Zenon DEF LoopInv, LoopTypeOK, ReceiveNothing, PhasesOut
  <2>4. CASE HearNothing
    BY <2>4 DEF LoopInv, LoopTypeOK, HearNothing
  <2> QED
    BY <2>1, <2>2, <2>3, <2>4
<1>2. UNCHANGED <<status, running_steps, result_queue, children, output>>
  BY DEF WaitForProcess, AskScheduler, ReceiveNothing, HearNothing
<1> QED
  BY <1>1, <1>2, QuietStepKeepsInv

\* What goes on around the worker keeps the invariant.
LEMMA EnvironmentKeepsInv ==
    ASSUME LoopInv, Environment
    PROVE  LoopInv'
<1> USE DEF schedulerVars, mainVars, childVars
<1>1. ASSUME NEW s \in Steps, RetryStep(s) PROVE LoopInv'
  <2>1. /\ status' = [status EXCEPT ![s] = "PENDING"] /\ status[s] = "FAILED"
        /\ UNCHANGED <<enabled, mainVars, childVars>>
    BY <1>1 DEF RetryStep
  <2>2. LoopTypeOK'
    BY <2>1 DEF LoopInv, LoopTypeOK, Statuses
  <2>3. Owned'
    BY <2>1 DEF LoopInv, LoopTypeOK, Owned, Executing
  <2>4. QueueOK'
    BY <2>1 DEF LoopInv, QueueOK, ResultOK, Executing
  <2>5. Written'
    BY <2>1 DEF LoopInv, LoopTypeOK, Written
  <2> QED
    BY <2>2, <2>3, <2>4, <2>5 DEF LoopInv
<1>2. ASSUME Disable \/ HandleInterrupt \/ \E n \in Capacities : SetWorkerProcesses(n)
      PROVE  LoopInv'
  <2>1. LoopTypeOK'
    BY <1>2 DEF LoopInv, LoopTypeOK, Disable, HandleInterrupt, SetWorkerProcesses
  <2>2. UNCHANGED <<status, running_steps, result_queue, children, output>>
    BY <1>2 DEF Disable, HandleInterrupt, SetWorkerProcesses
  <2> QED
    BY <2>1, <2>2, QuietStepKeepsInv
<1> QED
  BY <1>1, <1>2 DEF Environment

\* Starting a process for a step of which no old result is left keeps the invariant.
LEMMA ReceiveStepKeepsInv ==
    ASSUME LoopInv, ~EarlyRetry, NEW s \in Steps, NEW c \in Runs, ReceiveStep(s, c)
    PROVE  LoopInv'
<1> DEFINE child == [step |-> s, stage |-> "writing", late |-> FALSE]
<1>1. /\ status' = [status EXCEPT ![s] = "RUNNING"]
      /\ running_steps' = [running_steps EXCEPT ![s] = c]
      /\ children' = [children EXCEPT ![c] = child]
      /\ UNCHANGED <<result_queue, output>>
      /\ running_steps[s] = 0 /\ children[c].stage = "unused" /\ ~InQueue(s)
  BY DEF ReceiveStep, Running
<1>2. c # 0 /\ c \in 0..MaxRuns
  BY LoopAssumption DEF Runs
<1>3. LoopTypeOK'
  <2>1. child \in [step : Steps, stage : Stages, late : BOOLEAN]
    BY DEF Stages, AliveStages, ExecutingStages
  <2>2. children' \in [Runs -> [step : Steps, stage : Stages, late : BOOLEAN]]
    BY <1>1, <2>1 DEF LoopInv, LoopTypeOK
  <2>3. running_steps' \in [Steps -> 0..MaxRuns] /\ status' \in [Steps -> Statuses]
    BY <1>1, <1>2 DEF LoopInv, LoopTypeOK, Statuses
  <2> QED
    BY <1>1, <2>2, <2>3 DEF LoopInv, LoopTypeOK, ReceiveStep
<1>4. \A t \in Steps \ {s} : running_steps'[t] = running_steps[t] /\ running_steps[t] # c
  BY <1>1, <1>2 DEF LoopInv, LoopTypeOK, Owned
<1>5. children'[c] = child /\ \A d \in Runs \ {c} : children'[d] = children[d]
  BY <1>1 DEF LoopInv, LoopTypeOK
<1>6. running_steps'[s] = c
  BY <1>1 DEF LoopInv, LoopTypeOK
<1>7. Owned'
  <2>1. ASSUME NEW d \in Runs, Executing(d)' PROVE running_steps'[children'[d].step] = d
    <3>1. CASE d = c
      BY <1>5, <1>6, <3>1
    <3>2. CASE d # c
      <4>1. running_steps[children[d].step] = d /\ children[d].step \in Steps
        BY <1>5, <2>1, <3>2 DEF LoopInv, LoopTypeOK, Owned, Executing
      <4>2. d # 0
        BY LoopAssumption DEF Runs
      <4> QED
        BY <1>1, <1>4, <1>5, <3>2, <4>1, <4>2
    <3> QED
      BY <3>1, <3>2
  <2>2. ASSUME NEW t \in Steps, running_steps'[t] # 0
        PROVE  /\ children'[running_steps'[t]].step = t
               /\ children'[running_steps'[t]].stage # "unused"
    <3>1. CASE t = s
      BY <1>5, <1>6, <3>1
    <3>2. CASE t # s
      <4>1. running_steps[t] \in Runs \ {c}
        BY <1>4, <2>2, <3>2 DEF LoopInv, LoopTypeOK, Runs
      <4> QED
        BY <1>4, <1>5, <2>2, <3>2, <4>1 DEF LoopInv, Owned
    <3> QED
      BY <3>1, <3>2
  <2>3. \A t \in Steps : status'[t] = "RUNNING" <=> running_steps'[t] # 0
    BY <1>1, <1>2, <1>4, <1>6 DEF LoopInv, LoopTypeOK, Owned
  <2> QED
    BY <2>1, <2>2, <2>3 DEF Owned
<1>8. QueueOK'
  <2> SUFFICES ASSUME NEW i \in 1..Len(result_queue) PROVE ResultOK(result_queue[i])'
    BY <1>1 DEF QueueOK
  <2>0. result_queue[i].step \in Steps
    BY ResultsHaveSteps DEF LoopInv
  <2>1. result_queue[i].step \in Steps \ {s}
    BY <1>1, <2>0 DEF InQueue
  <2>2. running_steps[result_queue[i].step] # 0 =>
            running_steps[result_queue[i].step] \in Runs \ {c}
    BY <1>4, <2>1 DEF LoopInv, LoopTypeOK, Runs
  <2> QED
    BY <1>1, <1>4, <1>5, <2>1, <2>2 DEF LoopInv, QueueOK, ResultOK, Executing
<1>9. Written'
  <2>1. \A t \in Steps : status'[t] = "DONE" => output'[t] = "whole"
    BY <1>1 DEF LoopInv, LoopTypeOK, Written
  <2>2. ASSUME NEW d \in Runs, children'[d].stage = "moved"
        PROVE  output'[children'[d].step] = "whole"
    <3>1. d # c
      BY <1>5, <2>2
    <3> QED
      BY <1>1, <1>5, <2>2, <3>1 DEF LoopInv, Written
  <2> QED
    BY <1>1, <2>1, <2>2 DEF LoopInv, Written
<1> QED
  BY <1>3, <1>7, <1>8, <1>9 DEF LoopInv

\* A result that is skipped may be forgotten.
LEMMA SkipResultKeepsInv ==
    ASSUME LoopInv, SkipResult
    PROVE  LoopInv'
<1> USE DEF schedulerVars
<1>1. /\ result_queue # <<>> /\ result_queue' = Tail(result_queue)
      /\ result_queue \in Seq(Results)
      /\ UNCHANGED <<status, running_steps, children, output>>
  BY DEF SkipResult, LoopInv, LoopTypeOK
<1>2. LoopTypeOK'
  BY <1>1 DEF LoopInv, LoopTypeOK, SkipResult
<1>3. Owned' /\ Written'
  BY <1>1 DEF LoopInv, Owned, Written, Executing
<1>4. QueueOK'
  BY <1>1, InTail DEF LoopInv, QueueOK, ResultOK, Executing
<1> QED
  BY <1>2, <1>3, <1>4 DEF LoopInv

\* Reporting a result keeps the invariant: the process it is taken for does not
\* execute any more.
LEMMA ResultKeepsInv ==
    ASSUME LoopInv, LoopTypeOK', NEW result \in Results, NEW s \in Steps,
           s = result.step, ResultOK(result), running_steps[s] # 0,
           result_queue # <<>>, result_queue' = Tail(result_queue),
           status' = [status EXCEPT ![s] = result.status],
           running_steps' = [running_steps EXCEPT ![s] = 0],
           UNCHANGED <<children, output>>
    PROVE  LoopInv'
<1>1. result.status \in {"PENDING", "DONE", "FAILED"} /\ result_queue \in Seq(Results)
  BY DEF Results, LoopInv, LoopTypeOK
<1>2. /\ \A t \in Steps \ {s} : running_steps'[t] = running_steps[t] /\ status'[t] = status[t]
      /\ running_steps'[s] = 0 /\ status'[s] = result.status
  BY DEF LoopInv, LoopTypeOK
<1>3. Owned'
  <2>1. ASSUME NEW c \in Runs, Executing(c)' PROVE running_steps'[children'[c].step] = c
    <3>1. Executing(c) /\ running_steps[children[c].step] = c /\ children[c].step \in Steps
      BY <2>1 DEF LoopInv, LoopTypeOK, Owned, Executing
    <3>2. children[c].step # s
      BY <3>1 DEF ResultOK
    <3> QED
      BY <1>2, <3>1, <3>2
  <2>2. \A t \in Steps : running_steps'[t] # 0 =>
            /\ children'[running_steps'[t]].step = t
            /\ children'[running_steps'[t]].stage # "unused"
    BY <1>2 DEF LoopInv, Owned
  <2>3. \A t \in Steps : status'[t] = "RUNNING" <=> running_steps'[t] # 0
    BY <1>1, <1>2 DEF LoopInv, Owned
  <2> QED
    BY <2>1, <2>2, <2>3 DEF Owned
<1>4. QueueOK'
  <2> SUFFICES ASSUME NEW i \in 1..Len(result_queue')
               PROVE  ResultOK(result_queue[i])'
    BY DEF QueueOK
  <2>1. i + 1 \in 1..Len(result_queue) /\ result_queue'[i] = result_queue[i + 1]
    BY <1>1, InTail
  <2>2. ResultOK(result_queue[i + 1]) /\ result_queue[i + 1].step \in Steps
    BY <2>1, ResultsHaveSteps DEF LoopInv, QueueOK
  <2> QED
    BY <1>2, <2>1, <2>2 DEF ResultOK, Executing
<1>5. Written'
  BY <1>2 DEF LoopInv, Written, ResultOK
<1> QED
  BY <1>3, <1>4, <1>5 DEF LoopInv

\* ReportResult reports what is first in the queue.
LEMMA ReportResultKeepsInv ==
    ASSUME LoopInv, ReportResult
    PROVE  LoopInv'
<1>1. PICK result : result = Head(result_queue)
  OBVIOUS
<1>2. PICK s : s = result.step
  OBVIOUS
<1>3. /\ result_queue # <<>> /\ result_queue' = Tail(result_queue)
      /\ UNCHANGED <<enabled, worker_processes, stop_requesting, children, output>>
      /\ pc' = "top" /\ run_succeeded' \in BOOLEAN
      /\ s \in Steps /\ running_steps[s] # 0
      /\ status' = [status EXCEPT ![s] = result.status]
      /\ running_steps' = [running_steps EXCEPT ![s] = 0]
  BY <1>1, <1>2 DEF ReportResult, Running
<1>4. /\ result \in Results /\ result = result_queue[1] /\ 1 \in 1..Len(result_queue)
      /\ result_queue' \in Seq(Results)
  BY <1>1, <1>3 DEF LoopInv, LoopTypeOK
<1>5. ResultOK(result) /\ result.status \in Statuses
  BY <1>4 DEF LoopInv, QueueOK, Results, Statuses
<1>6. LoopTypeOK'
  <2>1. running_steps' \in [Steps -> 0..MaxRuns] /\ status' \in [Steps -> Statuses]
    BY <1>3, <1>5, LoopAssumption DEF LoopInv, LoopTypeOK
  <2> QED
    BY <1>3, <1>4, <2>1 DEF LoopInv, LoopTypeOK
<1> QED
  BY <1>2, <1>3, <1>4, <1>5, <1>6, ResultKeepsInv

-----------------------------------------------------------------------------
(* What the processes do, and what is done to them. *)

\* ResultOK of a result, after the step.
NowOK(result) ==
    /\ running_steps'[result.step] # 0 =>
           children'[running_steps'[result.step]].stage \notin ExecutingStages
    /\ result.status = "DONE" => output'[result.step] = "whole"

\* A result in the queue after the step was there before or is right now.
OldOrRight(result) ==
    (\E j \in 1..Len(result_queue) : result = result_queue[j]) \/ NowOK(result)

\* Whatever happens to processes keeps the invariant if none starts to execute,
\* what they move is whole, and the results they add are right.
LEMMA ProcessStepKeepsInv ==
    ASSUME LoopInv, LoopTypeOK', UNCHANGED <<status, running_steps>>,
           \A c \in Runs : /\ children'[c].step = children[c].step
                           /\ children[c].stage # "unused" => children'[c].stage # "unused"
                           /\ Executing(c)' => Executing(c)
                           /\ children'[c].stage = "moved" =>
                                 output'[children[c].step] = "whole",
           \A s \in Steps : output'[s] \in {output[s], "whole"},
           \A i \in 1..Len(result_queue') : OldOrRight(result_queue'[i])
    PROVE  LoopInv'
<1>1. Owned'
  <2>1. \A c \in Runs : Executing(c)' => running_steps'[children'[c].step] = c
    BY DEF LoopInv, Owned
  <2>2. ASSUME NEW s \in Steps, running_steps'[s] # 0
        PROVE  /\ children'[running_steps'[s]].step = s
               /\ children'[running_steps'[s]].stage # "unused"
    <3>1. running_steps[s] \in Runs /\ running_steps[s] # 0
      BY <2>2 DEF LoopInv, LoopTypeOK, Runs
    <3> QED
      BY <3>1 DEF LoopInv, Owned
  <2>3. \A s \in Steps : status'[s] = "RUNNING" <=> running_steps'[s] # 0
    BY DEF LoopInv, Owned
  <2> QED
    BY <2>1, <2>2, <2>3 DEF Owned
<1>2. QueueOK'
  <2> SUFFICES ASSUME NEW i \in 1..Len(result_queue') PROVE ResultOK(result_queue[i])'
    BY DEF QueueOK
  <2>1. CASE \E j \in 1..Len(result_queue) : result_queue'[i] = result_queue[j]
    <3>1. PICK j \in 1..Len(result_queue) : result_queue'[i] = result_queue[j]
      BY <2>1
    <3>2. result_queue[j].step \in Steps /\ ResultOK(result_queue[j])
      BY ResultsHaveSteps DEF LoopInv, QueueOK
    <3>3. running_steps[result_queue[j].step] # 0 =>
              running_steps[result_queue[j].step] \in Runs
      BY <3>2 DEF LoopInv, LoopTypeOK, Runs
    <3>4. running_steps'[result_queue[j].step] # 0 =>
              children'[running_steps'[result_queue[j].step]].stage \notin ExecutingStages
      BY <3>2, <3>3 DEF ResultOK, Executing
    <3>5. result_queue[j].status = "DONE" => output'[result_queue[j].step] = "whole"
      BY <3>2 DEF ResultOK
    <3> QED
      BY <3>1, <3>4, <3>5 DEF ResultOK, Executing
  <2>2. CASE NowOK(result_queue'[i])
    BY <2>2 DEF NowOK, ResultOK, Executing
  <2> QED
    BY <2>1, <2>2 DEF OldOrRight
<1>3. Written'
  BY DEF LoopInv, Written
<1> QED
  BY <1>1, <1>2, <1>3 DEF LoopInv

\* The set of records a process is one of.
Processes == [step : Steps, stage : Stages, late : BOOLEAN]

\* The same for a step of one process, with what it becomes.
LEMMA OneProcessKeepsInv ==
    ASSUME LoopInv, NEW c \in Runs, NEW child \in Processes,
           children' = [children EXCEPT ![c] = child],
           UNCHANGED <<schedulerVars, mainVars>>,
           child.step = children[c].step, child.stage # "unused",
           child.stage \in ExecutingStages => Executing(c),
           output' \in [Steps -> {"none", "partial", "whole"}],
           \A s \in Steps : output'[s] \in {output[s], "whole"},
           child.stage = "moved" => output'[child.step] = "whole",
           result_queue' \in Seq(Results),
           \A i \in 1..Len(result_queue') : OldOrRight(result_queue'[i])
    PROVE  LoopInv'
<1> USE DEF schedulerVars, mainVars
<1>1. LoopTypeOK'
  BY DEF LoopInv, LoopTypeOK, Processes
<1>2. children'[c] = child /\ \A d \in Runs \ {c} : children'[d] = children[d]
  BY DEF LoopInv, LoopTypeOK
<1>3. ASSUME NEW d \in Runs
      PROVE  /\ children'[d].step = children[d].step
             /\ children[d].stage # "unused" => children'[d].stage # "unused"
             /\ Executing(d)' => Executing(d)
             /\ children'[d].stage = "moved" => output'[children[d].step] = "whole"
  <2>1. CASE d = c
    BY <1>2, <2>1 DEF Executing
  <2>2. CASE d # c
    <3>1. children[d].step \in Steps
      BY DEF LoopInv, LoopTypeOK
    <3> QED
      BY <1>2, <2>2, <3>1 DEF Executing, LoopInv, Written
  <2> QED
    BY <2>1, <2>2
<1> QED
  BY <1>1, <1>3, ProcessStepKeepsInv

\* A process that puts a result and executes no more keeps the invariant.
LEMMA PutKeepsInv ==
    ASSUME LoopInv, NEW c \in Runs, NEW result_status \in {"PENDING", "DONE", "FAILED"},
           Executing(c), Put(c, result_status), Becomes(c, "put"),
           UNCHANGED <<schedulerVars, mainVars, output>>,
           result_status = "DONE" => children[c].stage = "moved"
    PROVE  LoopInv'
<1> DEFINE child == [children[c] EXCEPT !.stage = "put"]
<1>1. PICK result : result = [step |-> children[c].step, status |-> result_status]
  OBVIOUS
<1>2. children[c] \in Processes /\ children[c].step \in Steps
  BY DEF LoopInv, LoopTypeOK, Processes
<1>3. /\ child \in Processes /\ child.step = children[c].step /\ child.stage = "put"
      /\ children' = [children EXCEPT ![c] = child]
  BY <1>2 DEF Processes, Stages, AliveStages, Becomes, LoopInv, LoopTypeOK
<1>4. result \in Results /\ result_queue \in Seq(Results)
  BY <1>1, <1>2 DEF Results, LoopInv, LoopTypeOK
<1>5. result_queue' = Append(result_queue, result) /\ result_queue' \in Seq(Results)
  BY <1>1, <1>4 DEF Put
<1>6. NowOK(result)
  <2>1. running_steps[result.step] = c /\ UNCHANGED running_steps
    BY <1>1 DEF LoopInv, Owned, mainVars
  <2>2. ~Executing(c)'
    BY <1>3 DEF Executing, ExecutingStages, LoopInv, LoopTypeOK
  <2>3. result.status = "DONE" => output'[result.step] = "whole"
    BY <1>1 DEF LoopInv, Written
  <2> QED
    BY <2>1, <2>2, <2>3 DEF NowOK, Executing
<1>7. \A i \in 1..Len(result_queue') : OldOrRight(result_queue'[i])
  BY <1>4, <1>5, <1>6, InAppend DEF OldOrRight
<1>8. output' \in [Steps -> {"none", "partial", "whole"}] /\ output' = output
  BY DEF LoopInv, LoopTypeOK
<1>9. child.stage \notin ExecutingStages /\ child.stage # "unused" /\ child.stage # "moved"
  BY <1>3 DEF ExecutingStages
<1> HIDE DEF child
<1> QED
  BY <1>3, <1>5, <1>7, <1>8, <1>9, OneProcessKeepsInv

\* Every step of a process keeps the invariant.
LEMMA ChildKeepsInv ==
    ASSUME LoopInv, NEW c \in Runs, Child(c)
    PROVE  LoopInv'
<1>1. children[c] \in Processes /\ children[c].step \in Steps /\ children \in [Runs -> Processes]
  BY DEF LoopInv, LoopTypeOK, Processes
<1>2. output \in [Steps -> {"none", "partial", "whole"}] /\ result_queue \in Seq(Results)
  BY DEF LoopInv, LoopTypeOK
<1>3. result_queue' = result_queue =>
          \A i \in 1..Len(result_queue') : OldOrRight(result_queue'[i])
  BY DEF OldOrRight
<1>4. CASE CloseFile(c)
  <2>1. PICK child : child = [children[c] EXCEPT !.stage = "closed"]
    OBVIOUS
  <2>2. /\ child \in Processes /\ child.step = children[c].step /\ child.stage = "closed"
        /\ children' = [children EXCEPT ![c] = child]
    BY <1>1, <1>4, <2>1 DEF Processes, Stages, AliveStages, ExecutingStages, CloseFile, Becomes
  <2>3. /\ UNCHANGED <<schedulerVars, mainVars, result_queue, output>>
        /\ Executing(c)
    BY <1>4 DEF CloseFile, Executing, ExecutingStages
  <2> QED
    BY <1>2, <1>3, <2>2, <2>3, OneProcessKeepsInv
<1>5. CASE MoveFile(c)
  <2>1. PICK child : child = [children[c] EXCEPT !.stage = "moved"]
    OBVIOUS
  <2>2. /\ child \in Processes /\ child.step = children[c].step /\ child.stage = "moved"
        /\ children' = [children EXCEPT ![c] = child]
    BY <1>1, <1>5, <2>1 DEF Processes, Stages, AliveStages, ExecutingStages, MoveFile, Becomes
  <2>3. /\ UNCHANGED <<schedulerVars, mainVars, result_queue>>
        /\ output' = [output EXCEPT ![children[c].step] = "whole"]
        /\ Executing(c)
    BY <1>5 DEF MoveFile, Movable, Contents, Executing, ExecutingStages
  <2>4. /\ output' \in [Steps -> {"none", "partial", "whole"}]
        /\ \A s \in Steps : output'[s] \in {output[s], "whole"}
        /\ output'[child.step] = "whole"
    BY <1>1, <1>2, <2>2, <2>3
  <2> QED
    BY <1>2, <1>3, <2>2, <2>3, <2>4, OneProcessKeepsInv
<1>6. CASE ReturnDone(c)
  BY <1>6, PutKeepsInv DEF ReturnDone, Executing, ExecutingStages
<1>7. CASE RaiseError(c)
  BY <1>7, PutKeepsInv DEF RaiseError, Executing, ExecutingStages
<1>8. CASE YieldDependencies(c)
  BY <1>8, PutKeepsInv DEF YieldDependencies, Executing, ExecutingStages
<1>9. CASE ExitChild(c)
  <2>1. PICK child : child = [children[c] EXCEPT !.stage = "gone", !.late = FALSE]
    OBVIOUS
  <2>2. /\ child \in Processes /\ child.step = children[c].step /\ child.stage = "gone"
        /\ children' = [children EXCEPT ![c] = child]
    BY <1>1, <1>9, <2>1 DEF Processes, Stages, ExitChild
  <2>3. /\ UNCHANGED <<schedulerVars, mainVars, result_queue, output>>
        /\ child.stage \notin ExecutingStages
    BY <1>9, <2>2 DEF ExitChild, ExecutingStages
  <2> QED
    BY <1>2, <1>3, <2>2, <2>3, OneProcessKeepsInv
<1>10. CASE KillChild(c)
  <2>1. PICK child : child = Terminated(children[c])
    OBVIOUS
  <2>2. /\ child \in Processes /\ child.step = children[c].step
        /\ child.stage \in {"died", "spoiled"}
    BY <1>1, <2>1 DEF Processes, Stages, DeadStages, Terminated
  <2>3. /\ UNCHANGED <<schedulerVars, mainVars, result_queue, output>>
        /\ children' = [children EXCEPT ![c] = child]
        /\ child.stage \notin ExecutingStages
    BY <1>1, <1>10, <2>1, <2>2 DEF KillChild, ExecutingStages
  <2> QED
    BY <1>2, <1>3, <2>2, <2>3, OneProcessKeepsInv
<1>11. CASE RunLate(c)
  <2>1. PICK child : child = [children[c] EXCEPT !.late = TRUE]
    OBVIOUS
  <2>2. /\ child \in Processes /\ child.step = children[c].step
        /\ child.stage = children[c].stage
        /\ children' = [children EXCEPT ![c] = child]
    BY <1>1, <1>11, <2>1 DEF Processes, RunLate
  <2>3. /\ UNCHANGED <<schedulerVars, mainVars, result_queue, output>>
        /\ child.stage # "unused"
        /\ child.stage \in ExecutingStages => Executing(c)
        /\ child.stage = "moved" => output'[child.step] = "whole"
    BY <1>11, <2>2 DEF RunLate, IsAlive, AliveStages, ExecutingStages, Executing,
                       LoopInv, Written
  <2> QED
    BY <1>2, <1>3, <2>2, <2>3, OneProcessKeepsInv
<1> QED
  BY <1>4, <1>5, <1>6, <1>7, <1>8, <1>9, <1>10, <1>11 DEF Child

\* Purging keeps the invariant: what it puts on the queue is true, since the
\* process died before or is terminated now.
LEMMA PurgeChildrenKeepsInv ==
    ASSUME LoopInv, PurgeChildren
    PROVE  LoopInv'
<1> DEFINE killed == {s \in Running : TimedOut(s)}
           failed == {s \in Running : Died(s)} \cup killed
<1>1. /\ children' = [c \in Runs |-> IF \E s \in killed : running_steps[s] = c
                                     THEN Terminated(children[c]) ELSE children[c]]
      /\ UNCHANGED <<status, enabled, running_steps, worker_processes,
                     stop_requesting, run_succeeded, output>>
      /\ pc' = "waiting"
  BY DEF PurgeChildren, schedulerVars
<1>2. PICK order \in Orders(failed) :
          result_queue' = result_queue \o [i \in 1..Len(order) |-> FailedResult(order[i])]
  BY DEF PurgeChildren
<1>3. failed \in SUBSET Steps /\ killed \in SUBSET Steps
  BY DEF Running
<1>4. order \in Seq(failed) /\ \A i \in 1..Len(order) : order[i] \in failed
  BY <1>3, OrdersAreSeqs
<1>5. PICK added : added = [i \in 1..Len(order) |-> FailedResult(order[i])]
  OBVIOUS
<1>6. ASSUME NEW c \in Runs
      PROVE  /\ children'[c] = Terminated(children[c]) \/ children'[c] = children[c]
             /\ (\E s \in killed : running_steps[s] = c) =>
                    children'[c] = Terminated(children[c])
  BY <1>1
<1>7. ASSUME NEW c \in Runs
      PROVE  LET child == Terminated(children[c])
             IN  /\ child \in Processes /\ child.step = children[c].step
                 /\ child.stage \in DeadStages
  BY DEF LoopInv, LoopTypeOK, Processes, Stages, DeadStages, Terminated
<1> HIDE DEF killed, failed
<1>8. ASSUME NEW s \in failed PROVE NowOK(FailedResult(s))
  <2>1. s \in Steps /\ running_steps[s] \in Runs
    BY DEF failed, killed, Running, LoopInv, LoopTypeOK, Runs
  <2>2. CASE s \in killed
    <3>1. children'[running_steps[s]].stage \in DeadStages
      BY <1>6, <1>7, <2>1, <2>2
    <3> QED
      BY <1>1, <2>1, <3>1 DEF NowOK, FailedResult, ExecutingStages, DeadStages
  <2>3. CASE s \notin killed
    <3>1. children[running_steps[s]].stage \in DeadStages
      BY <2>3 DEF failed, Died
    <3>2. children'[running_steps[s]].stage \in DeadStages
      BY <1>6, <1>7, <2>1, <3>1
    <3> QED
      BY <1>1, <2>1, <3>2 DEF NowOK, FailedResult, ExecutingStages, DeadStages
  <2> QED
    BY <2>2, <2>3
<1>9. /\ added \in Seq(Results) /\ Len(added) = Len(order)
      /\ \A i \in 1..Len(added) : added[i] = FailedResult(order[i])
  <2>1. \A i \in 1..Len(order) : FailedResult(order[i]) \in Results
    BY <1>3, <1>4 DEF FailedResult, Results
  <2>2. Len(order) \in Nat
    BY <1>4
  <2> QED
    BY <1>5, <2>1, <2>2
<1>10. result_queue' = result_queue \o added /\ result_queue \in Seq(Results)
  BY <1>2, <1>5 DEF LoopInv, LoopTypeOK
<1>11. \A i \in 1..Len(result_queue') : OldOrRight(result_queue'[i])
  <2> SUFFICES ASSUME NEW i \in 1..Len(result_queue') PROVE OldOrRight(result_queue'[i])
    OBVIOUS
  <2>1. \/ i \in 1..Len(result_queue) /\ result_queue'[i] = result_queue[i]
        \/ i - Len(result_queue) \in 1..Len(added)
           /\ result_queue'[i] = added[i - Len(result_queue)]
    BY <1>9, <1>10, InConcat
  <2>2. CASE i \in 1..Len(result_queue) /\ result_queue'[i] = result_queue[i]
    BY <2>2 DEF OldOrRight
  <2>3. CASE i - Len(result_queue) \in 1..Len(added)
             /\ result_queue'[i] = added[i - Len(result_queue)]
    <3>1. PICK j \in 1..Len(order) : result_queue'[i] = FailedResult(order[j])
      BY <1>9, <2>3
    <3>2. NowOK(FailedResult(order[j]))
      BY <1>4, <1>8
    <3> QED
      BY <3>1, <3>2 DEF OldOrRight
  <2> QED
    BY <2>1, <2>2, <2>3
<1>12. children' \in [Runs -> Processes]
  <2>1. \A c \in Runs : children[c] \in Processes
    BY DEF LoopInv, LoopTypeOK, Processes
  <2> QED
    BY <1>1, <1>7, <2>1
<1>13. LoopTypeOK'
  <2>1. result_queue' \in Seq(Results)
    BY <1>9, <1>10
  <2> QED
    BY <1>1, <1>12, <2>1 DEF LoopInv, LoopTypeOK, Processes
<1>14. ASSUME NEW c \in Runs
       PROVE  /\ children'[c].step = children[c].step
              /\ children[c].stage # "unused" => children'[c].stage # "unused"
              /\ Executing(c)' => Executing(c)
              /\ children'[c].stage = "moved" => output'[children[c].step] = "whole"
  <2>1. CASE children'[c] = children[c]
    BY <1>1, <2>1 DEF Executing, LoopInv, Written
  <2>2. CASE children'[c] = Terminated(children[c])
    BY <1>7, <2>2 DEF Executing, ExecutingStages, DeadStages
  <2> QED
    BY <1>6, <2>1, <2>2
<1> QED
  BY <1>1, <1>11, <1>13, <1>14, ProcessStepKeepsInv

-----------------------------------------------------------------------------
(* The theorems. *)

\* Worker.run and everything around it keep the invariant, if the scheduler hands
\* no step out again while an old result of it is in the queue.
THEOREM LoopInductive ==
    ASSUME ~EarlyRetry
    PROVE  LoopSpec => []LoopInv
<1>1. ASSUME LoopInv, [LoopNext]_loopVars PROVE LoopInv'
  <2>1. CASE MainLoop
    BY <1>1, <2>1, LoopStepKeepsInv, ReceiveStepKeepsInv, PurgeChildrenKeepsInv,
       SkipResultKeepsInv, ReportResultKeepsInv DEF MainLoop
  <2>2. CASE \E c \in Runs : Child(c)
    BY <1>1, <2>2, ChildKeepsInv
  <2>3. CASE Environment
    BY <1>1, <2>3, EnvironmentKeepsInv
  <2>4. CASE UNCHANGED loopVars
    <3>1. LoopTypeOK'
      BY <1>1, <2>4 DEF LoopInv, LoopTypeOK, loopVars, schedulerVars, mainVars, childVars
    <3>2. UNCHANGED <<status, running_steps, result_queue, children, output>>
      BY <2>4 DEF loopVars, schedulerVars, mainVars, childVars
    <3> QED
      BY <1>1, <3>1, <3>2, QuietStepKeepsInv
  <2> QED
    BY <1>1, <2>1, <2>2, <2>3, <2>4 DEF LoopNext
<1> QED
  BY <1>1, LoopInvInit, PTL DEF LoopSpec

\* The variables of the loop, of the scheduler's record and of the processes keep
\* their types.
THEOREM LoopTypesCorrect ==
    ASSUME ~EarlyRetry
    PROVE  LoopSpec => []LoopTypeOK
<1>1. LoopInv => LoopTypeOK
  BY DEF LoopInv
<1> QED
  BY <1>1, LoopInductive, PTL

\* What the scheduler has as DONE has been written completely, and nothing partial
\* is ever under the final name, whatever process is killed and when.
THEOREM DoneAlwaysWhole ==
    ASSUME ~EarlyRetry
    PROVE  LoopSpec => []DoneMeansWhole
<1>1. LoopInv => DoneMeansWhole
  BY DEF LoopInv, Written, DoneMeansWhole
<1> QED
  BY <1>1, LoopInductive, PTL

\* No two processes execute a step at the same time.
THEOREM OneProcessAlways ==
    ASSUME ~EarlyRetry
    PROVE  LoopSpec => []OneProcessPerStep
<1>1. LoopInv => OneProcessPerStep
  BY DEF LoopInv, Owned, OneProcessPerStep
<1> QED
  BY <1>1, LoopInductive, PTL

-----------------------------------------------------------------------------
(* When the worker stops. *)

\* A result in the queue for a step whose process has died says that it failed.
SaysFailed(result) ==
    /\ running_steps[result.step] # 0
    /\ children[running_steps[result.step]].stage = "died"
    => result.status = "FAILED"

\* The loop is left with nothing in _running_steps; a process that died is either
\* still there, and then it will be reported as failed, or it has been.
Stopped == pc = "stopped" => \A s \in Steps : running_steps[s] = 0

DeathsCount ==
    run_succeeded => \A c \in Runs : children[c].stage = "died" =>
                                         running_steps[children[c].step] = c

DeathsQueued == \A i \in 1..Len(result_queue) : SaysFailed(result_queue[i])

StopInv == Stopped /\ DeathsCount /\ DeathsQueued

\* A step that leaves the processes and the queue alone keeps it.
LEMMA QuietStepKeepsStop ==
    ASSUME StopInv, UNCHANGED <<running_steps, run_succeeded, result_queue, children>>,
           pc' = "stopped" => pc = "stopped" \/ \A s \in Steps : running_steps[s] = 0
    PROVE  StopInv'
<1>1. Stopped'
  BY DEF StopInv, Stopped
<1>2. DeathsCount'
  BY DEF StopInv, DeathsCount
<1>3. DeathsQueued'
  BY DEF StopInv, DeathsQueued, SaysFailed
<1> QED
  BY <1>1, <1>2, <1>3 DEF StopInv

\* What happens to processes keeps it if only one that executed dies, and if what is
\* new in the queue says of a process that has died that it failed.
LEMMA ProcessStepKeepsStop ==
    ASSUME LoopInv, StopInv, UNCHANGED <<running_steps, run_succeeded>>,
           pc' \in {pc, "waiting"},
           \A c \in Runs : /\ children'[c].step = children[c].step
                           /\ children'[c].stage = "died" =>
                                 children[c].stage = "died" \/ Executing(c),
           \A i \in 1..Len(result_queue') :
              \/ \E j \in 1..Len(result_queue) : result_queue'[i] = result_queue[j]
              \/ SaysFailed(result_queue[i])'
    PROVE  StopInv'
<1>1. Stopped'
  BY DEF StopInv, Stopped
<1>2. DeathsCount'
  BY DEF StopInv, DeathsCount, LoopInv, Owned
<1>3. DeathsQueued'
  <2> SUFFICES ASSUME NEW i \in 1..Len(result_queue') PROVE SaysFailed(result_queue[i])'
    BY DEF DeathsQueued
  <2>1. CASE \E j \in 1..Len(result_queue) : result_queue'[i] = result_queue[j]
    <3>1. PICK j \in 1..Len(result_queue) : result_queue'[i] = result_queue[j]
      BY <2>1
    <3>2. /\ result_queue[j].step \in Steps /\ ResultOK(result_queue[j])
          /\ SaysFailed(result_queue[j])
      BY ResultsHaveSteps DEF LoopInv, QueueOK, StopInv, DeathsQueued
    <3>3. running_steps[result_queue[j].step] # 0 =>
              running_steps[result_queue[j].step] \in Runs
      BY <3>2 DEF LoopInv, LoopTypeOK, Runs
    <3> QED
      BY <3>1, <3>2, <3>3 DEF SaysFailed, ResultOK
  <2>2. CASE SaysFailed(result_queue[i])'
    BY <2>2
  <2> QED
    BY <2>1, <2>2
<1> QED
  BY <1>1, <1>2, <1>3 DEF StopInv

\* A process becomes "died" only while it executes, and what it puts on the queue it
\* puts while it lives.
LEMMA ChildKeepsStop ==
    ASSUME LoopInv, StopInv, NEW c \in Runs, Child(c)
    PROVE  StopInv'
<1> USE DEF mainVars
<1>1. /\ children \in [Runs -> Processes] /\ children[c] \in Processes
      /\ result_queue \in Seq(Results)
  BY DEF LoopInv, LoopTypeOK, Processes
<1>2. PICK child : children' = [children EXCEPT ![c] = child] /\ child.step = children[c].step
                   /\ (child.stage = "died" => children[c].stage = "died" \/ Executing(c))
  <2>1. CASE CloseFile(c) \/ MoveFile(c) \/ ReturnDone(c) \/ RaiseError(c)
             \/ YieldDependencies(c)
    <3>1. PICK stage \in {"closed", "moved", "put"} : Becomes(c, stage)
      BY <2>1 DEF CloseFile, MoveFile, ReturnDone, RaiseError, YieldDependencies
    <3>2. children' = [children EXCEPT ![c] = [children[c] EXCEPT !.stage = stage]]
      BY <1>1, <3>1 DEF Becomes
    <3>3. [children[c] EXCEPT !.stage = stage].step = children[c].step
          /\ [children[c] EXCEPT !.stage = stage].stage = stage
      BY <1>1 DEF Processes
    <3> QED
      BY <3>2, <3>3
  <2>2. CASE ExitChild(c)
    <3>1. children' = [children EXCEPT ![c] =
                          [children[c] EXCEPT !.stage = "gone", !.late = FALSE]]
      BY <1>1, <2>2 DEF ExitChild
    <3>2. /\ [children[c] EXCEPT !.stage = "gone", !.late = FALSE].step = children[c].step
          /\ [children[c] EXCEPT !.stage = "gone", !.late = FALSE].stage = "gone"
      BY <1>1 DEF Processes
    <3> QED
      BY <3>1, <3>2
  <2>3. CASE KillChild(c)
    <3>1. children' = [children EXCEPT ![c] = Terminated(children[c])] /\ IsAlive(c)
      BY <1>1, <2>3 DEF KillChild
    <3>2. /\ Terminated(children[c]).step = children[c].step
          /\ children[c].stage = "put" => Terminated(children[c]).stage = "spoiled"
      BY <1>1 DEF Processes, Terminated
    <3>3. Executing(c) \/ children[c].stage = "put"
      BY <3>1 DEF IsAlive, Executing, AliveStages
    <3> QED
      BY <3>1, <3>2, <3>3
  <2>4. CASE RunLate(c)
    <3>1. children' = [children EXCEPT ![c] = [children[c] EXCEPT !.late = TRUE]]
      BY <1>1, <2>4 DEF RunLate
    <3>2. /\ [children[c] EXCEPT !.late = TRUE].step = children[c].step
          /\ [children[c] EXCEPT !.late = TRUE].stage = children[c].stage
      BY <1>1 DEF Processes
    <3> QED
      BY <3>1, <3>2
  <2> QED
    BY <2>1, <2>2, <2>3, <2>4 DEF Child
<1>3. children'[c] = child /\ \A d \in Runs \ {c} : children'[d] = children[d]
  BY <1>1, <1>2
<1>4. UNCHANGED <<pc, running_steps, run_succeeded>>
  BY DEF Child, CloseFile, MoveFile, ReturnDone, RaiseError, YieldDependencies,
         ExitChild, KillChild, RunLate
<1>5. \A i \in 1..Len(result_queue') :
         \/ \E j \in 1..Len(result_queue) : result_queue'[i] = result_queue[j]
         \/ SaysFailed(result_queue[i])'
  <2>1. CASE UNCHANGED result_queue
    BY <2>1
  <2>2. ASSUME NEW result_status \in {"PENDING", "DONE", "FAILED"}, Executing(c),
               Put(c, result_status), Becomes(c, "put"), NEW i \in 1..Len(result_queue')
        PROVE  \/ \E j \in 1..Len(result_queue) : result_queue'[i] = result_queue[j]
               \/ SaysFailed(result_queue[i])'
    <3>1. PICK result : result = [step |-> children[c].step, status |-> result_status]
      OBVIOUS
    <3>2. result \in Results /\ result_queue' = Append(result_queue, result)
      BY <1>1, <2>2, <3>1 DEF Put, Results, Processes
    <3>3. CASE result_queue'[i] = result
      <4>1. running_steps'[result.step] = c
        BY <1>4, <2>2, <3>1 DEF LoopInv, Owned
      <4>2. children'[c].stage = "put"
        BY <1>1, <2>2 DEF Becomes, Processes
      <4> QED
        BY <3>3, <4>1, <4>2 DEF SaysFailed
    <3> QED
      BY <1>1, <3>2, <3>3, InAppend
  <2>3. \/ UNCHANGED result_queue
        \/ \E result_status \in {"PENDING", "DONE", "FAILED"} :
              Executing(c) /\ Put(c, result_status) /\ Becomes(c, "put")
    BY DEF Child, CloseFile, MoveFile, ReturnDone, RaiseError, YieldDependencies,
           ExitChild, KillChild, RunLate, Executing, ExecutingStages
  <2> QED
    BY <2>1, <2>2, <2>3
<1> QED
  BY <1>2, <1>3, <1>4, <1>5, ProcessStepKeepsStop

\* Purging terminates only processes that live, and all it puts on the queue is
\* that a step failed.
LEMMA PurgeChildrenKeepsStop ==
    ASSUME LoopInv, StopInv, PurgeChildren
    PROVE  StopInv'
<1> DEFINE killed == {s \in Running : TimedOut(s)}
           failed == {s \in Running : Died(s)} \cup killed
<1>1. /\ children' = [c \in Runs |-> IF \E s \in killed : running_steps[s] = c
                                     THEN Terminated(children[c]) ELSE children[c]]
      /\ UNCHANGED <<running_steps, run_succeeded>> /\ pc' = "waiting"
  BY DEF PurgeChildren
<1>2. PICK order \in Orders(failed) :
          result_queue' = result_queue \o [i \in 1..Len(order) |-> FailedResult(order[i])]
  BY DEF PurgeChildren
<1>3. failed \in SUBSET Steps
  BY DEF Running
<1>4. order \in Seq(failed) /\ \A i \in 1..Len(order) : order[i] \in Steps
  BY <1>3, OrdersAreSeqs
<1>5. PICK added : added = [i \in 1..Len(order) |-> FailedResult(order[i])]
  OBVIOUS
<1>6. ASSUME NEW c \in Runs
      PROVE  /\ children'[c].step = children[c].step
             /\ children'[c].stage = "died" => children[c].stage = "died" \/ Executing(c)
  <2>1. children[c] \in Processes
    BY DEF LoopInv, LoopTypeOK, Processes
  <2>2. CASE \E s \in killed : running_steps[s] = c
    <3>1. IsAlive(c) /\ children'[c] = Terminated(children[c])
      BY <1>1, <2>2 DEF TimedOut
    <3>2. /\ Terminated(children[c]).step = children[c].step
          /\ children[c].stage = "put" => Terminated(children[c]).stage = "spoiled"
      BY <2>1 DEF Processes, Terminated
    <3> QED
      BY <3>1, <3>2 DEF IsAlive, Executing, AliveStages
  <2>3. CASE ~\E s \in killed : running_steps[s] = c
    BY <1>1, <2>3
  <2> QED
    BY <2>2, <2>3
<1> HIDE DEF killed, failed
<1>7. /\ added \in Seq(Results) /\ \A i \in 1..Len(added) : added[i].status = "FAILED"
      /\ result_queue \in Seq(Results) /\ result_queue' = result_queue \o added
  <2>1. \A i \in 1..Len(order) : /\ FailedResult(order[i]) \in Results
                                 /\ FailedResult(order[i]).status = "FAILED"
    BY <1>4 DEF FailedResult, Results
  <2>2. Len(order) \in Nat
    BY <1>4
  <2>3. added \in Seq(Results) /\ Len(added) = Len(order)
    BY <1>5, <2>1, <2>2
  <2> QED
    BY <1>2, <1>5, <2>1, <2>3 DEF LoopInv, LoopTypeOK
<1>8. \A i \in 1..Len(result_queue') :
         \/ \E j \in 1..Len(result_queue) : result_queue'[i] = result_queue[j]
         \/ SaysFailed(result_queue[i])'
  BY <1>7, InConcat DEF SaysFailed
<1> QED
  BY <1>1, <1>6, <1>8, ProcessStepKeepsStop

\* Starting a process keeps it: no old result of the step is in the queue.
LEMMA ReceiveStepKeepsStop ==
    ASSUME LoopInv, StopInv, ~EarlyRetry, NEW s \in Steps, NEW c \in Runs, ReceiveStep(s, c)
    PROVE  StopInv'
<1>1. PICK child : child = [step |-> s, stage |-> "writing", late |-> FALSE]
  OBVIOUS
<1>2. /\ running_steps' = [running_steps EXCEPT ![s] = c] /\ pc' = "top"
      /\ children' = [children EXCEPT ![c] = child] /\ child.stage = "writing"
      /\ UNCHANGED <<result_queue, run_succeeded>>
      /\ running_steps[s] = 0 /\ ~InQueue(s) /\ c # 0
      /\ children[c].stage = "unused"
  BY <1>1, LoopAssumption DEF ReceiveStep, Running, Runs
<1>3. /\ children'[c] = child /\ \A d \in Runs \ {c} : children'[d] = children[d]
      /\ \A t \in Steps \ {s} : running_steps'[t] = running_steps[t] /\ running_steps[t] # c
  BY <1>2 DEF LoopInv, LoopTypeOK, Owned
<1>4. DeathsCount'
  <2> SUFFICES ASSUME run_succeeded, NEW d \in Runs, children'[d].stage = "died"
               PROVE  running_steps'[children'[d].step] = d
    BY <1>2 DEF DeathsCount
  <2>1. d # c /\ children'[d] = children[d]
    BY <1>2, <1>3
  <2>2. running_steps[children[d].step] = d /\ children[d].step \in Steps /\ d # 0
    BY <2>1, LoopAssumption DEF StopInv, DeathsCount, LoopInv, LoopTypeOK, Runs
  <2> QED
    BY <1>2, <1>3, <2>1, <2>2
<1>5. DeathsQueued'
  <2> SUFFICES ASSUME NEW i \in 1..Len(result_queue) PROVE SaysFailed(result_queue[i])'
    BY <1>2 DEF DeathsQueued
  <2>1. result_queue[i].step \in Steps \ {s}
    BY <1>2, ResultsHaveSteps DEF LoopInv, InQueue
  <2>2. running_steps[result_queue[i].step] # 0 =>
            running_steps[result_queue[i].step] \in Runs \ {c}
    BY <1>3, <2>1 DEF LoopInv, LoopTypeOK, Runs
  <2> QED
    BY <1>2, <1>3, <2>1, <2>2 DEF StopInv, DeathsQueued, SaysFailed
<1>6. Stopped'
  BY <1>2 DEF Stopped
<1> QED
  BY <1>4, <1>5, <1>6 DEF StopInv

\* Taking a result from the queue keeps it: if the process of the step has died the
\* result says so, and run_succeeded becomes false.
LEMMA ResultKeepsStop ==
    ASSUME LoopInv, StopInv, SkipResult \/ ReportResult
    PROVE  StopInv'
<1>1. /\ result_queue \in Seq(Results) /\ result_queue # <<>>
      /\ result_queue' = Tail(result_queue) /\ UNCHANGED children /\ pc' # "stopped"
  BY DEF SkipResult, ReportResult, LoopInv, LoopTypeOK
<1>2. PICK result : result = Head(result_queue)
  OBVIOUS
<1>3. /\ result = result_queue[1] /\ 1 \in 1..Len(result_queue)
      /\ result.step \in Steps /\ SaysFailed(result)
  <2>1. result = result_queue[1] /\ 1 \in 1..Len(result_queue)
    BY <1>1, <1>2
  <2> QED
    BY <2>1, ResultsHaveSteps DEF LoopInv, StopInv, DeathsQueued
<1>4. \A s \in Steps : running_steps'[s] = running_steps[s] \/ running_steps'[s] = 0
  BY <1>2 DEF SkipResult, ReportResult, LoopInv, LoopTypeOK
<1>5. Stopped'
  BY <1>1 DEF Stopped
<1>6. DeathsQueued'
  <2> SUFFICES ASSUME NEW i \in 1..Len(result_queue') PROVE SaysFailed(result_queue[i])'
    BY DEF DeathsQueued
  <2>1. i + 1 \in 1..Len(result_queue) /\ result_queue'[i] = result_queue[i + 1]
    BY <1>1, InTail
  <2>2. result_queue[i + 1].step \in Steps /\ SaysFailed(result_queue[i + 1])
    BY <2>1, ResultsHaveSteps DEF LoopInv, StopInv, DeathsQueued
  <2> QED
    BY <1>1, <1>4, <2>1, <2>2 DEF SaysFailed
<1>7. DeathsCount'
  <2> SUFFICES ASSUME run_succeeded', NEW c \in Runs, children[c].stage = "died"
               PROVE  running_steps'[children[c].step] = c
    BY <1>1 DEF DeathsCount
  <2>1. run_succeeded
    BY DEF SkipResult, ReportResult
  <2>2. running_steps[children[c].step] = c /\ children[c].step \in Steps /\ c # 0
    BY <2>1, LoopAssumption DEF StopInv, DeathsCount, LoopInv, LoopTypeOK, Runs
  <2>3. CASE SkipResult
    BY <2>2, <2>3 DEF SkipResult
  <2>4. CASE ReportResult
    <3>1. /\ running_steps' = [running_steps EXCEPT ![result.step] = 0]
          /\ result.status # "FAILED"
      BY <1>2, <2>4 DEF ReportResult
    <3>2. result.step # children[c].step
      BY <1>3, <2>2, <3>1 DEF SaysFailed
    <3> QED
      BY <2>2, <3>1, <3>2 DEF LoopInv, LoopTypeOK
  <2> QED
    BY <2>3, <2>4
<1> QED
  BY <1>5, <1>6, <1>7 DEF StopInv

\* Nothing executes any more when Worker.run returns, and if it returns True then no
\* process has died before it put its result.
THEOREM StopsAlwaysClean ==
    ASSUME ~EarlyRetry
    PROVE  LoopSpec => []StopsClean
<1>1. LoopInit => StopInv
  <2> SUFFICES ASSUME LoopInit PROVE StopInv
    OBVIOUS
  <2>1. Stopped /\ DeathsQueued
    BY DEF LoopInit, Stopped, DeathsQueued
  <2>2. DeathsCount
    BY DEF LoopInit, DeathsCount
  <2> QED
    BY <2>1, <2>2 DEF StopInv
<1>2. ASSUME LoopInv, StopInv, [LoopNext]_loopVars PROVE StopInv'
  <2> USE DEF mainVars, childVars
  <2>1. CASE WaitForProcess \/ AskScheduler \/ HearNothing
    <3>1. UNCHANGED <<running_steps, run_succeeded, result_queue, children>>
          /\ pc' # "stopped"
      BY <2>1 DEF WaitForProcess, AskScheduler, HearNothing
    <3> QED
      BY <1>2, <3>1, QuietStepKeepsStop
  <2>2. CASE ReceiveNothing
    <3>1. UNCHANGED <<running_steps, run_succeeded, result_queue, children>>
          /\ (pc' = "stopped" => Running = {})
      BY <2>2 DEF ReceiveNothing, NothingRunning
    <3> QED
      BY <1>2, <3>1, QuietStepKeepsStop DEF Running
  <2>3. CASE Environment \/ UNCHANGED loopVars
    <3>1. UNCHANGED <<running_steps, run_succeeded, result_queue, children, pc>>
      BY <2>3 DEF Environment, RetryStep, Disable, HandleInterrupt, SetWorkerProcesses,
                  loopVars
    <3> QED
      BY <1>2, <3>1, QuietStepKeepsStop
  <2> QED
    BY <1>2, <2>1, <2>2, <2>3, ReceiveStepKeepsStop, PurgeChildrenKeepsStop,
       ResultKeepsStop, ChildKeepsStop DEF LoopNext, MainLoop
<1>3. LoopInv /\ StopInv => StopsClean
  <2> SUFFICES ASSUME LoopInv, StopInv, pc = "stopped", NEW c \in Runs
               PROVE  ~Executing(c) /\ (run_succeeded => children[c].stage # "died")
    BY DEF StopsClean
  <2>1. children[c].step \in Steps /\ c # 0
    BY LoopAssumption DEF LoopInv, LoopTypeOK, Runs
  <2> QED
    BY <2>1 DEF LoopInv, Owned, StopInv, Stopped, DeathsCount
<1> QED
  BY <1>1, <1>2, <1>3, LoopInductive, PTL DEF LoopSpec

-----------------------------------------------------------------------------
(* The refinement of StepLife. *)

\* The abstract state of a step follows from _running_steps: its executor is the
\* process there, and the record says "running" exactly while there is one.
Followed ==
    \A s \in Steps :
        /\ ProcessesOf(s) = IF running_steps[s] = 0 THEN {} ELSE {running_steps[s]}
        /\ RecordOf(s) \in {"idle", "running", "done"}
        /\ RecordOf(s) = "running" <=> running_steps[s] # 0

\* The invariant implies it.
LEMMA InvFollowed == LoopInv => Followed
<1> SUFFICES ASSUME LoopInv, NEW s \in Steps
             PROVE  /\ ProcessesOf(s) = IF running_steps[s] = 0 THEN {}
                                                              ELSE {running_steps[s]}
                    /\ RecordOf(s) \in {"idle", "running", "done"}
                    /\ RecordOf(s) = "running" <=> running_steps[s] # 0
  BY DEF Followed
<1>1. running_steps[s] # 0 => running_steps[s] \in Runs
  BY DEF LoopInv, LoopTypeOK, Runs
<1>2. 0 \notin Runs
  BY LoopAssumption DEF Runs
<1>3. ProcessesOf(s) = IF running_steps[s] = 0 THEN {} ELSE {running_steps[s]}
  BY <1>1, <1>2 DEF LoopInv, Owned, ProcessesOf
<1> QED
  BY <1>3 DEF LoopInv, Owned, RecordOf

\* A step of the worker leaves a step where it was, starts its process, or reports
\* its result.
LEMMA EffectOnAStep ==
    ASSUME LoopInv, [LoopNext]_loopVars, NEW s \in Steps
    PROVE  \/ running_steps'[s] = running_steps[s] /\ RecordOf(s)' = RecordOf(s)
           \/ running_steps[s] = 0 /\ running_steps'[s] # 0 /\ status[s] = "PENDING"
           \/ running_steps[s] # 0 /\ running_steps'[s] = 0
<1> USE DEF schedulerVars, mainVars, childVars
<1>1. CASE UNCHANGED <<status, running_steps>>
  BY <1>1 DEF RecordOf
<1>2. ASSUME NEW t \in Steps, NEW c \in Runs, ReceiveStep(t, c)
      PROVE  \/ running_steps'[s] = running_steps[s] /\ RecordOf(s)' = RecordOf(s)
             \/ running_steps[s] = 0 /\ running_steps'[s] # 0 /\ status[s] = "PENDING"
  <2>1. c # 0
    BY LoopAssumption DEF Runs
  <2> QED
    BY <1>2, <2>1 DEF ReceiveStep, Running, RecordOf, LoopInv, LoopTypeOK
<1>3. CASE ReportResult
  <2>1. PICK t : t = Head(result_queue).step
    OBVIOUS
  <2>2. PICK new : new = Head(result_queue).status
    OBVIOUS
  <2>3. /\ t \in Steps /\ running_steps[t] # 0
        /\ status' = [status EXCEPT ![t] = new]
        /\ running_steps' = [running_steps EXCEPT ![t] = 0]
    BY <1>3, <2>1, <2>2 DEF ReportResult, Running
  <2> QED
    BY <2>3 DEF RecordOf, LoopInv, LoopTypeOK
<1>4. ASSUME NEW t \in Steps, RetryStep(t)
      PROVE  running_steps'[s] = running_steps[s] /\ RecordOf(s)' = RecordOf(s)
  BY <1>4 DEF RetryStep, RecordOf, LoopInv, LoopTypeOK
<1>5. \/ UNCHANGED <<status, running_steps>>
      \/ \E t \in Steps, c \in Runs : ReceiveStep(t, c)
      \/ ReportResult
      \/ \E t \in Steps : RetryStep(t)
  <2>1. CASE MainLoop
    BY <2>1 DEF MainLoop, WaitForProcess, AskScheduler, ReceiveNothing, PurgeChildren,
                HearNothing, SkipResult
  <2>2. CASE \E c \in Runs : Child(c)
    BY <2>2 DEF Child, CloseFile, MoveFile, ReturnDone, RaiseError, YieldDependencies,
                ExitChild, KillChild, RunLate
  <2>3. CASE Environment
    BY <2>3 DEF Environment, Disable, HandleInterrupt, SetWorkerProcesses
  <2>4. CASE UNCHANGED loopVars
    BY <2>4 DEF loopVars
  <2> QED
    BY <2>1, <2>2, <2>3, <2>4 DEF LoopNext
<1> QED
  BY <1>1, <1>2, <1>3, <1>4, <1>5

\* The worker implements StepLife: a step has one process at a time, the scheduler
\* has it RUNNING for as long, and it is done only when an execution ends.
THEOREM ProcessesAlwaysImplementLife ==
    ASSUME ~EarlyRetry
    PROVE  LoopSpec => ProcessesImplementLife
<1>1. LoopInit => Life!LifeInit
  <2> SUFFICES ASSUME LoopInit PROVE Life!LifeInit
    OBVIOUS
  <2>1. \A s \in Steps : RecordOf(s) = "idle"
    BY DEF LoopInit, RecordOf
  <2>2. \A s \in Steps : ProcessesOf(s) = {}
    BY LoopInvInit, InvFollowed DEF LoopInit, Followed
  <2> QED
    BY <2>1, <2>2 DEF Life!LifeInit
<1>2. ASSUME LoopInv, LoopInv', [LoopNext]_loopVars
      PROVE  [Life!LifeNext]_(Life!lifeVars)
  <2> SUFFICES ASSUME NEW s \in Steps
               PROVE  \/ Life!Begin(s) \/ Life!End(s)
                      \/ RecordOf(s)' = RecordOf(s) /\ ProcessesOf(s)' = ProcessesOf(s)
    BY DEF Life!LifeNext
  <2>1. /\ ProcessesOf(s) = IF running_steps[s] = 0 THEN {} ELSE {running_steps[s]}
        /\ RecordOf(s) = "running" <=> running_steps[s] # 0
        /\ RecordOf(s) \in {"idle", "running", "done"}
    BY <1>2, InvFollowed DEF Followed
  <2>2. /\ ProcessesOf(s)' = IF running_steps'[s] = 0 THEN {} ELSE {running_steps'[s]}
        /\ RecordOf(s)' = "running" <=> running_steps'[s] # 0
        /\ RecordOf(s)' \in {"idle", "running", "done"}
    <3>1. Followed'
      BY <1>2, InvFollowed, PTL
    <3> QED
      BY <3>1 DEF Followed
  <2>3. /\ running_steps[s] # 0 => running_steps[s] \in Runs
        /\ running_steps'[s] # 0 => running_steps'[s] \in Runs
    BY <1>2 DEF LoopInv, LoopTypeOK, Runs
  <2>4. CASE running_steps'[s] = running_steps[s] /\ RecordOf(s)' = RecordOf(s)
    BY <2>1, <2>2, <2>4
  <2>5. CASE running_steps[s] = 0 /\ running_steps'[s] # 0 /\ status[s] = "PENDING"
    <3>1. RecordOf(s) = "idle"
      BY <2>5 DEF RecordOf
    <3> QED
      BY <2>1, <2>2, <2>3, <2>5, <3>1 DEF Life!Begin
  <2>6. CASE running_steps[s] # 0 /\ running_steps'[s] = 0
    BY <2>1, <2>2, <2>3, <2>6 DEF Life!End, Life!Records
  <2> QED
    BY <1>2, <2>4, <2>5, <2>6, EffectOnAStep
<1> QED
  BY <1>1, <1>2, LoopInductive, PTL DEF LoopSpec, ProcessesImplementLife, Life!LifeSpec
=============================================================================
