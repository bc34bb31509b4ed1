---------------------------- MODULE ClusterProofs ----------------------------
(***************************************************************************)
(* Proofs about Cluster.  The workers of worker.py call the scheduler only *)
(* in ways that the scheduler on its own allows, so what SchedulerProofs   *)
(* shows of it holds with them; and, as long as live workers ping in time, *)
(* what a worker executes is neither removed nor given to another one.     *)
(***************************************************************************)
EXTENDS Cluster, SchedulerProofs, FiniteSetTheorems, WellFoundedInduction

USE DEF OrNone

-----------------------------------------------------------------------------
(* The calls of a worker. *)

\* Every request a worker puts together is one that add_step accepts.
LEMMA TrackingRequestType ==
    ASSUME NEW w \in Workers, NEW s \in Steps
    PROVE  TrackingRequest(w, s) \in Calls
BY TimingAssumption
   DEF TimingAssumption, TrackingRequest, Calls, Requests, Statuses, Amounts,
       NoResources

LEMMA StartRequestType ==
    ASSUME NEW w \in Workers, NEW batch \in SUBSET Steps
    PROVE  StartRequest(w, batch) \in Calls /\ StartRequest(w, batch).step \in Steps
<1>1. Runner(batch) \in Steps
  BY RunnerAssumption
<1>2. StartRequest(w, batch) \in Calls
  BY <1>1, TimingAssumption
     DEF TimingAssumption, TrackingRequest, StartRequest, Calls, Requests, Statuses,
         Amounts, NoResources
<1> QED BY <1>2 DEF Calls, Requests

LEMMA LoadErrorRequestType ==
    ASSUME NEW w \in Workers, NEW s \in Steps
    PROVE  LoadErrorRequest(w, s) \in Calls
BY TimingAssumption
   DEF TimingAssumption, TrackingRequest, LoadErrorRequest, Calls, Requests,
       Statuses, Amounts, NoResources

\* What Schedule asks for.
Scheduled(w, s, status, deps) ==
    ScheduleRequest(w, s, status, deps, Need(s), Priority(s), IsBatchable(s),
                    RetryCount(s))

LEMMA ScheduleRequestType ==
    ASSUME NEW w \in Workers, NEW s \in Steps, NEW status \in Claims,
           NEW deps \in DepsSent(s, status)
    PROVE  Scheduled(w, s, status, deps) \in Calls
<1>1. /\ deps \in OrNone(SUBSET Steps) /\ Need(s) \in Amounts /\ Priority(s) \in Nat
      /\ IsBatchable(s) \in BOOLEAN /\ RetryCount(s) \in Nat
      /\ status \in Statuses \ {"BATCH_RUNNING"}
  BY ClusterAssumption DEF ClusterAssumption, Statuses, DepsSent
<1>2. Scheduled(w, s, status, deps) =
          ScheduleRequest(w, s, status, deps, Need(s), Priority(s), IsBatchable(s),
                          RetryCount(s))
  BY DEF Scheduled
<1>3. PICK runnable \in BOOLEAN : runnable = (deps # None)
  OBVIOUS
<1>4. Scheduled(w, s, status, deps) = [
          worker |-> w, step |-> s, status |-> status, runnable |-> runnable,
          deps |-> deps, new_deps |-> {}, resources |-> Need(s), priority |-> Priority(s),
          assistant |-> FALSE, batchable |-> IsBatchable(s), batch_id |-> {},
          retry_count |-> RetryCount(s)]
  <2>1. PICK t : t = TrackingRequest(w, s)
    OBVIOUS
  <2>2. Scheduled(w, s, status, deps) = [t EXCEPT
          !.status = status, !.deps = deps, !.runnable = runnable, !.resources = Need(s),
          !.priority = Priority(s), !.batchable = IsBatchable(s), !.retry_count = RetryCount(s)]
    BY <1>2, <1>3, <2>1, Zenon DEF ScheduleRequest
  <2> QED BY <2>1, <2>2, Zenon DEF TrackingRequest
<1> HIDE DEF Scheduled
<1>5. /\ Scheduled(w, s, status, deps) \in Requests
      /\ Scheduled(w, s, status, deps).assistant = FALSE
  BY <1>1, <1>3, <1>4 DEF Requests
<1> QED BY <1>5 DEF Calls

LEMMA OutcomeType ==
    ASSUME NEW w \in Workers, NEW s \in Steps,
           NEW status \in {"DONE", "FAILED", "PENDING"}, NEW new_deps \in SUBSET Steps
    PROVE  Outcome(w, s, status, new_deps) \in Calls
<1>1. Need(s) \in Amounts /\ RetryCount(s) \in Nat /\ (w \in AssistantWorkers) \in BOOLEAN
  BY ClusterAssumption DEF ClusterAssumption
<1> QED BY <1>1, TimingAssumption
        DEF TimingAssumption, Outcome, TrackingRequest, ReportRequest, Calls, Requests,
            Statuses

\* The step get_work takes from the top of the queue is one that can be scheduled
\* and that the worker may perform.
Takeable(ss, s, w, assistant) ==
    Schedulable(ss, s) /\ ((assistant /\ ss[s].runnable) \/ w \in ss[s].workers)

Queues(ss, ws, w) == {GetSteps(ss, ws, w, {"PENDING", "RUNNING"}),
                      WithStatus(ss, {"PENDING", "RUNNING"})}

\* The i-th step of the queue.
Place(ss, queue, i) == CHOOSE s \in NthInQueue(ss, queue, i) : TRUE

LEMMA BestStepShape ==
    ASSUME NEW ss, NEW ws, NEW w, NEW assistant, NEW pick
    PROVE  \E queue \in Queues(ss, ws, w) : \E taken \in SUBSET (1..Cardinality(queue)) :
              /\ \A i \in taken :
                    Takeable(ss, Place(ss, queue, i), w, assistant)
              /\ BestStep(ss, ws, w, assistant, pick) =
                     IF taken = {} THEN {} ELSE NthInQueue(ss, queue, Min(taken))
<1> DEFINE trivial == IsTrivialWorker(ss, ws, w)
        queue == IF trivial THEN GetSteps(ss, ws, w, {"PENDING", "RUNNING"})
                 ELSE WithStatus(ss, {"PENDING", "RUNNING"})
        used == IF trivial THEN NoResources ELSE UsedResources(ss)
        polling == GreedyWorkers(ws, trivial)
        place(i) == CHOOSE s \in NthInQueue(ss, queue, i) : TRUE
        fits(s, g) == Schedulable(ss, s) /\ HasResources(ss[s].resources, g.taken)
        free(V, g) == {v \in V : v \in polling /\ g.free[v] > 0}
        hosts(s, g) == IF assistant /\ free(ss[s].workers, g) = {}
                       THEN free({w}, g) ELSE free(ss[s].workers, g)
        host(s, g) == IF s \in DOMAIN pick /\ pick[s] \in hosts(s, g)
                      THEN pick[s] ELSE CHOOSE v \in hosts(s, g) : TRUE
        after(s, g) ==
            CASE ss[s].status = "RUNNING" /\ ss[s].worker_running \in polling ->
                     Charge(g, ss[s].worker_running, RunningResources(ss[s]))
              [] ss[s].status = "PENDING" /\ fits(s, g) /\ hosts(s, g) # {} ->
                     Charge(g, host(s, g), ss[s].resources)
              [] OTHER -> g
        greedy[i \in 0..Cardinality(queue)] ==
            IF i = 0 THEN [free |-> [v \in Workers |-> ws[v].processes],
                           taken |-> NoResources]
            ELSE after(place(i), greedy[i - 1])
        taken == {i \in 1..Cardinality(queue) :
                     /\ fits(place(i), greedy[i - 1])
                     /\ CanTake(ss, place(i), w, assistant, used)}
<1>1. BestStep(ss, ws, w, assistant, pick) =
          IF taken = {} THEN {} ELSE NthInQueue(ss, queue, Min(taken))
  BY Zenon DEF BestStep
<1> HIDE DEF greedy
<1>2. \A i \in taken : Takeable(ss, Place(ss, queue, i), w, assistant)
  BY DEF Takeable, CanTake, Place
<1>3. taken \in SUBSET (1..Cardinality(queue))
  OBVIOUS
<1>4. queue \in Queues(ss, ws, w)
  BY DEF Queues
<1> HIDE DEF queue, taken
<1> QED BY <1>1, <1>2, <1>3, <1>4

LEMMA QueueType ==
    ASSUME NEW ss, NEW ws, NEW w, NEW queue \in Queues(ss, ws, w)
    PROVE  queue \subseteq WithStatus(ss, {"PENDING", "RUNNING"}) /\ queue \subseteq Steps
BY DEF Queues, GetSteps, WithStatus

\* The workers as get_work finds them.
Asked(w, assistant) ==
    [UpdateWorker(workers, w, TRUE) EXCEPT ![w].assistant = @ \/ assistant]

\* What get_work replies with if it hands out something.
HandedOut(work, w, assistant, current_steps) ==
    \E ws \in Views(Asked(w, assistant), w) : \E pick :
        work = Work(ResetOrphanedSteps(steps, w), ws, w, assistant, current_steps, pick)

\* get_work hands out nothing, or what is best whichever way get_steps goes.
LEMMA HandOutsShape ==
    ASSUME NEW w, NEW assistant, NEW current_steps,
           NEW work \in HandOuts(w, assistant, current_steps), work # {}
    PROVE  /\ ~UpdateWorker(workers, w, TRUE)[w].disabled
           /\ HandedOut(work, w, assistant, current_steps)
<1> DEFINE ss == ResetOrphanedSteps(steps, w)
           touched == UpdateWorker(workers, w, TRUE)
           replies(v) == {Work(ss, v, w, assistant, current_steps, pick) :
                              pick \in [Contested(ss, v, w) -> Workers]}
<1>1. work \in IF touched[w].disabled THEN {{}}
               ELSE UNION {replies(v) : v \in Views(Asked(w, assistant), w)}
                        \cup {none \in {{}} : RaisesKeyError(ss, Asked(w, assistant), w)}
  BY Zenon DEF HandOuts, Asked
<1> HIDE DEF replies
<1>2. ~touched[w].disabled /\ \E v \in Views(Asked(w, assistant), w) : work \in replies(v)
  BY <1>1
<1> QED BY <1>2, Zenon DEF replies, HandedOut

\* get_work hands out steps.
LEMMA HandOutsType ==
    ASSUME NEW w, NEW assistant, NEW current_steps,
           NEW work \in HandOuts(w, assistant, current_steps)
    PROVE  work \in SUBSET Steps
<1>1. ASSUME NEW ss, NEW ws, NEW pick
      PROVE  BestStep(ss, ws, w, assistant, pick) \subseteq Steps
  <2>1. PICK queue \in Queues(ss, ws, w) : \E i :
            BestStep(ss, ws, w, assistant, pick) \in {{}, NthInQueue(ss, queue, i)}
    BY BestStepShape
  <2> QED BY <2>1, QueueType DEF NthInQueue
<1>2. ASSUME NEW ss, NEW ws, NEW best \in Steps
      PROVE  BatchWith(ss, ws, w, best) \subseteq Steps
  BY DEF BatchWith, GetSteps, WithStatus
<1>3. ASSUME NEW ss, NEW ws, NEW pick
      PROVE  Work(ss, ws, w, assistant, current_steps, pick) \subseteq Steps
  BY <1>1, <1>2 DEF Work, UnclaimedSteps, WithStatus
<1>4. CASE work # {}
  <2>1. HandedOut(work, w, assistant, current_steps)
    BY <1>4, HandOutsShape
  <2> QED BY <1>3, <2>1 DEF HandedOut
<1> QED BY <1>4

\* What Receives is to the scheduler.
LEMMA ReceivesGetsWork ==
    ASSUME NEW w \in Workers, NEW work, Receives(w, work), ClientTypeOK
    PROVE  /\ \E assistant \in BOOLEAN, current_steps \in SUBSET Steps,
                 work2 \in SUBSET Steps : GetWork(w, assistant, current_steps, work2)
           /\ work \in SUBSET Steps
<1>1. work \in HandOuts(w, w \in AssistantWorkers, running[w])
      /\ GetWork(w, w \in AssistantWorkers, running[w], work)
  BY DEF Receives, GetWork
<1>2. work \in SUBSET Steps
  BY <1>1, HandOutsType
<1>3. (w \in AssistantWorkers) \in BOOLEAN /\ running[w] \in SUBSET Steps
  BY DEF ClientTypeOK
<1> QED BY <1>1, <1>2, <1>3

\* A worker's step is a call the scheduler accepts, or none, and keeps the types.
LEMMA WorkerNextServed ==
    ASSUME ClientTypeOK, NEW w \in Workers, WorkerNext(w)
    PROVE  [Next]_vars /\ ClientTypeOK'
<1>1. CASE \E s \in Steps : RegisterBatcher(w, s)
  <2>1. PICK s \in Steps : RegisterBatcher(w, s)
    BY <1>1
  <2>2. Family(s) \in Families
    BY DEF Families
  <2> QED BY <2>1, <2>2 DEF RegisterBatcher, Next, clientVars, ClientTypeOK
<1>2. CASE \E s \in Steps, status \in Claims : Schedule(w, s, status)
  <2>1. PICK s \in Steps, status \in Claims : Schedule(w, s, status)
    BY <1>2
  <2>2. PICK deps \in DepsSent(s, status) :
           /\ AddStep(Scheduled(w, s, status, deps))
           /\ adding' = [adding EXCEPT ![w] =
                            (adding[w] \ {s}) \cup (IF deps # None THEN deps ELSE {})]
           /\ UNCHANGED <<phase, running, starting, erring, calling>>
    BY <2>1 DEF Schedule, Scheduled
  <2>3. /\ AddStep(Scheduled(w, s, status, deps))
        /\ adding' = [adding EXCEPT ![w] =
                         (adding[w] \ {s}) \cup (IF deps # None THEN deps ELSE {})]
        /\ UNCHANGED <<phase, running, starting, erring, calling>>
    BY <2>2
  <2>4. (IF deps # None THEN deps ELSE {}) \subseteq Steps
    BY <2>2, ClusterAssumption DEF ClusterAssumption, DepsSent
  <2>5. ClientTypeOK'
    BY <2>3, <2>4 DEF ClientTypeOK
  <2> QED BY <2>3, <2>5, ScheduleRequestType DEF Next
<1>3. CASE Announce(w)
  BY <1>3, ClusterAssumption DEF ClusterAssumption, Announce, Next, ClientTypeOK
<1>4. CASE \E work \in Replies(w) : AskForWork(w, work) \/ LoseWork(w, work)
                                    \/ ReceiveUnloadable(w, work)
  <2>1. PICK work : AskForWork(w, work) \/ LoseWork(w, work) \/ ReceiveUnloadable(w, work)
    BY <1>4
  <2>2. Receives(w, work)
    BY <2>1 DEF AskForWork, LoseWork, ReceiveUnloadable
  <2>3. Next /\ work \in SUBSET Steps
    BY <2>2, ReceivesGetsWork DEF Next
  <2>4. ClientTypeOK'
    BY <2>1, <2>3 DEF AskForWork, LoseWork, ReceiveUnloadable, clientVars, ClientTypeOK
  <2> QED BY <2>3, <2>4
<1>5. CASE CountWork(w)
  BY <1>5 DEF CountWork, Next, clientVars, ClientTypeOK
<1>6. CASE \E s \in Steps : ReportUnloadable(w, s)
  <2>1. PICK s \in Steps : ReportUnloadable(w, s)
    BY <1>6
  <2>2. ClientTypeOK'
    BY <2>1 DEF ReportUnloadable, ClientTypeOK
  <2> QED BY <2>1, <2>2, LoadErrorRequestType DEF ReportUnloadable, Next
<1>7. CASE StartBatch(w)
  <2>1. PICK q : q = StartRequest(w, starting[w])
    OBVIOUS
  <2>2. q \in Calls /\ q.step \in Steps
    BY <2>1, StartRequestType DEF ClientTypeOK
  <2>3. /\ AddStep(q)
        /\ starting' = [starting EXCEPT ![w] = {}]
        /\ \/ calling' = [calling EXCEPT ![w] = q] /\ UNCHANGED running
           \/ /\ running' = [running EXCEPT ![w] = running[w] \cup {q.step}]
              /\ UNCHANGED calling
        /\ UNCHANGED <<phase, adding, erring>>
    BY <1>7, <2>1 DEF StartBatch
  <2>4. ClientTypeOK'
    BY <2>2, <2>3 DEF ClientTypeOK
  <2> QED BY <2>2, <2>3, <2>4 DEF Next
<1>8. CASE \E s \in Steps : Track(w, s)
  <2>1. PICK s \in Steps : Track(w, s)
    BY <1>8
  <2> QED BY <2>1, TrackingRequestType DEF Track, Next, clientVars, ClientTypeOK
<1>9. CASE \E s \in Steps : GiveUpResources(w, s)
  <2>1. PICK s \in Steps : GiveUpResources(w, s)
    BY <1>9
  <2>2. Need(s) \in Amounts
    BY ClusterAssumption DEF ClusterAssumption
  <2> QED BY <2>1, <2>2 DEF GiveUpResources, Next, clientVars, ClientTypeOK
<1>10. CASE \E s \in Steps, status \in Endings, missing \in BOOLEAN :
               Finish(w, s, status, missing)
  <2>1. PICK s \in Steps, status \in Endings, missing \in BOOLEAN :
            Finish(w, s, status, missing)
    BY <1>10
  <2>2. status \in {"DONE", "FAILED", "PENDING"}
    BY ClusterAssumption DEF ClusterAssumption
  <2>3. Outcome(w, s, status, {}) \in Calls
    BY <2>2, OutcomeType
  <2>4. ClientTypeOK'
    BY <2>1 DEF Finish, ClientTypeOK
  <2> QED BY <2>1, <2>3, <2>4 DEF Finish, Next
<1>11. CASE \E s \in Steps : Suspend(w, s)
  <2>1. PICK s \in Steps : Suspend(w, s)
    BY <1>11
  <2>2. Yields(s) \in SUBSET Steps
    BY ClusterAssumption DEF ClusterAssumption
  <2>3. Outcome(w, s, "PENDING", Yields(s)) \in Calls
    BY <2>2, OutcomeType
  <2>4. ClientTypeOK'
    BY <2>1, <2>2, <2>3 DEF Suspend, ClientTypeOK
  <2> QED BY <2>1, <2>4 DEF Suspend
<1>12. CASE \E s \in Steps, status \in Endings : FinishUnheard(w, s, status)
  <2>1. PICK s \in Steps, status \in Endings : FinishUnheard(w, s, status)
    BY <1>12
  <2>2. status \in {"DONE", "FAILED", "PENDING"}
    BY ClusterAssumption DEF ClusterAssumption
  <2>3. Outcome(w, s, status, {}) \in Calls
    BY <2>2, OutcomeType
  <2>4. ClientTypeOK'
    BY <2>1, <2>3 DEF FinishUnheard, CallUnheard, ClientTypeOK
  <2> QED BY <2>1, <2>3, <2>4 DEF FinishUnheard, CallUnheard, Next
<1>13. CASE Call(w) \/ RepeatUnheard(w)
  <2>1. PICK q : q = calling[w]
    OBVIOUS
  <2>2. q \in Calls
    BY <1>13, <2>1 DEF Call, RepeatUnheard, ClientTypeOK
  <2>3. AddStep(q)
    BY <1>13, <2>1 DEF Call, RepeatUnheard, CallUnheard
  <2>4. q.step \in Steps
    BY <2>2 DEF Calls, Requests
  <2>5. CASE Call(w)
    <3>1. PICK after \in SUBSET Steps : running' = [running EXCEPT ![w] = after]
      <4>1. \E after \in {running[w], running[w] \cup {q.step}, running[w] \ {q.step}} :
                running' = [running EXCEPT ![w] = after]
        BY <2>1, <2>5 DEF Call
      <4>2. running[w] \cup {q.step} \in SUBSET Steps /\ running[w] \ {q.step} \in SUBSET Steps
        BY <2>4 DEF ClientTypeOK
      <4> QED BY <4>1, <4>2
    <3>2. ClientTypeOK'
      BY <2>5, <3>1 DEF Call, ClientTypeOK
    <3> QED BY <2>2, <2>3, <3>2 DEF Next
  <2>6. CASE RepeatUnheard(w)
    <3>1. ClientTypeOK'
      BY <2>1, <2>2, <2>6 DEF RepeatUnheard, CallUnheard, ClientTypeOK
    <3> QED BY <2>2, <2>3, <3>1 DEF Next
  <2> QED BY <1>13, <2>5, <2>6
<1>14. CASE KeepAlive(w)
  BY <1>14 DEF KeepAlive, Next, clientVars, ClientTypeOK
<1>15. CASE Crash(w)
  BY <1>15 DEF Crash, ClientTypeOK
<1> QED BY <1>1, <1>2, <1>3, <1>4, <1>5, <1>6, <1>7, <1>8, <1>9, <1>10, <1>11,
           <1>12, <1>13, <1>14, <1>15 DEF WorkerNext

LEMMA ClusterNextServed ==
    ClientTypeOK /\ [ClusterNext]_allVars => [Next]_vars /\ ClientTypeOK'
<1> SUFFICES ASSUME ClientTypeOK, [ClusterNext]_allVars
             PROVE  [Next]_vars /\ ClientTypeOK'
  OBVIOUS
<1>1. CASE \E w \in Workers : WorkerNext(w)
  BY <1>1, WorkerNextServed
<1>2. CASE TimePasses \/ PruneNow
  BY <1>2 DEF TimePasses, PruneNow, Next, clientVars, ClientTypeOK
<1>3. CASE Operate
  <2>1. ClientTypeOK'
    BY <1>3 DEF Operate, clientVars, ClientTypeOK
  <2>2. CASE SetPaused(~paused)
    BY <2>1, <2>2 DEF Next
  <2>3. CASE \E w \in Workers : DisableWorker(w)
    BY <2>1, <2>3 DEF Next
  <2>4. CASE \E s \in Steps : ForgiveFailures(s) \/ MarkAsDone(s) \/ ReEnableStep(s)
    BY <2>1, <2>4 DEF Next
  <2>5. CASE Restart
    BY <2>1, <2>5 DEF Next
  <2>6. CASE \E r \in Resources, a \in Amount : UpdateResource(r, a)
    BY <2>1, <2>6, ClusterAssumption DEF ClusterAssumption, Next
  <2> QED BY <1>3, <2>1, <2>2, <2>3, <2>4, <2>5, <2>6 DEF Operate
<1>4. CASE UNCHANGED allVars
  BY <1>4 DEF allVars, vars, clientVars, ClientTypeOK
<1> QED BY <1>1, <1>2, <1>3, <1>4 DEF ClusterNext

LEMMA ClusterInitServed == ClusterInit => Init /\ ClientTypeOK
BY ClusterAssumption DEF ClusterAssumption, ClusterInit, ClientTypeOK

\* The workers' bookkeeping keeps its type, and a call that is to be repeated
\* is one that add_step accepts.
THEOREM ClientTypesCorrect == ClusterSpec => []ClientTypeOK
BY ClusterInitServed, ClusterNextServed, PTL DEF ClusterSpec

\* Together with its workers the scheduler does only what it does on its own, where
\* anything the RPC interface allows may be called: the theorems of SchedulerProofs
\* hold for the cluster.
THEOREM ClusterImplementsScheduler == ClusterSpec => Spec
BY ClusterInitServed, ClusterNextServed, ClientTypesCorrect, PTL DEF ClusterSpec, Spec

\* The invariant of the scheduler with its workers.
LEMMA ClusterInductive == ClusterSpec => [](IInv /\ ClientTypeOK)
BY ClusterImplementsScheduler, Inductive, ClientTypesCorrect, PTL

-----------------------------------------------------------------------------
(* Records of steps that are not in a batch. *)

Plain(t) == t.batch_id = {} /\ t.batchable = FALSE /\ t.status # "BATCH_RUNNING"

\* The attributes that the rest of this module is about.
SameRemoval(t, u) == u.remove = t.remove /\ u.batchable = t.batchable

LEMMA StoredRemoval ==
    ASSUME NEW t \in StepRecords, NEW status, NEW updated, NEW disabled, NEW retry,
           NEW remove, NEW u, u = Stored(t, status, updated, disabled, retry, remove)
    PROVE  u.remove = remove /\ u.batchable = t.batchable /\ u.status = status
BY DEF StepRecords, Stored

\* Outside a batch set_status never lets a step be removed, and stores what it is
\* asked to unless the step fails or is disabled.
LEMMA SetOwnStatusPlain ==
    ASSUME NEW t \in StepRecords, Plain(t), NEW new \in Statuses \ {"BATCH_RUNNING"}
    PROVE  LET u == SetOwnStatus(t, new)
           IN  /\ Plain(u) /\ SameRemoval(t, u)
               /\ t.status # "DISABLED" /\ new \notin {"FAILED", "DISABLED"} => u.status = new
<1> DEFINE cleared == IF t.status = "DISABLED" /\ new = "DONE"
                      THEN [ClearFailures(t) EXCEPT !.disable_time = None] ELSE t
           f == IF new = "FAILED" /\ t.status # "DISABLED"
                THEN AddFailure(cleared) ELSE cleared
           stored == StatusStored(f, t.status, new)
           disabled == IF stored # "DISABLED" THEN f.disable_time
                       ELSE IF new = "FAILED" THEN 0 ELSE None
           updated == IF stored # t.status THEN 0 ELSE f.updated
           retry == IF stored = "FAILED" THEN RetryDelay + 1 ELSE f.retry
           remove == IF stored = "FAILED" /\ t.batch_id # {} /\ ~t.batchable
                     THEN 0 ELSE f.remove
           u == Stored(f, stored, updated, disabled, retry, remove)
<1>1. ClearFailures(t) \in StepRecords /\ SameRemoval(t, ClearFailures(t))
  <2>1. SameRemoval(t, ClearFailures(t))
    BY DEF ClearFailures, StepRecords, SameRemoval
  <2> QED BY <2>1, ClearFailuresType
<1>2. cleared \in StepRecords /\ SameRemoval(t, cleared)
  <2> DEFINE c == ClearFailures(t)
  <2>1. c \in StepRecords /\ SameRemoval(t, c)
    BY <1>1
  <2> HIDE DEF c
  <2>2. [c EXCEPT !.disable_time = None] \in StepRecords
    BY <2>1, SMTT(30) DEF StepRecords
  <2>3. SameRemoval(c, [c EXCEPT !.disable_time = None])
    BY <2>1 DEF StepRecords, SameRemoval
  <2> QED BY <2>1, <2>2, <2>3 DEF c, SameRemoval
<1> HIDE DEF cleared
<1>3. AddFailure(cleared) \in StepRecords /\ SameRemoval(t, AddFailure(cleared))
  <2>1. PICK failures, first :
            AddFailure(cleared) = [cleared EXCEPT !.failures = failures, !.first_failure = first]
    BY Zenon DEF AddFailure
  <2>2. SameRemoval(cleared, AddFailure(cleared))
    BY <1>2, <2>1 DEF StepRecords, SameRemoval
  <2> QED BY <1>2, <2>2, AddFailureType DEF SameRemoval
<1>4. f \in StepRecords /\ SameRemoval(t, f)
  BY <1>2, <1>3
<1> HIDE DEF f
<1>5. remove = t.remove
  BY <1>4 DEF SameRemoval, Plain
<1>6. /\ stored \in {new, "DISABLED"} /\ (new # "FAILED" => stored = new)
  BY DEF StatusStored
<1>7. ~RefusesStatus(t, new) => SetOwnStatus(t, new) = u
  BY DEF SetOwnStatus, Stored, cleared, f
<1>8. RefusesStatus(t, new) => SetOwnStatus(t, new) = t
  BY DEF SetOwnStatus
<1>9. u.remove = t.remove /\ u.batchable = t.batchable /\ u.status = stored
  BY <1>4, <1>5, StoredRemoval DEF SameRemoval
<1> HIDE DEF u, stored
<1>10. Changes(t, SetOwnStatus(t, new), new)
  BY SetOwnStatusType
<1>11. RefusesStatus(t, new) => t.status = "DISABLED" \/ new = "DISABLED"
  BY DEF RefusesStatus
<1>12. Plain(SetOwnStatus(t, new))
  BY <1>6, <1>7, <1>8, <1>9, <1>10 DEF Plain, Changes
<1> QED BY <1>6, <1>7, <1>8, <1>9, <1>11, <1>12 DEF SameRemoval

\* set_status on the table changes only the step itself.
LEMMA SetStatusPlain ==
    ASSUME NEW ss, \A x \in Steps : Plain(ss[x]), NEW s \in Steps, NEW new
    PROVE  SetStatus(ss, s, new) =
               [x \in Steps |-> IF x = s THEN SetOwnStatus(ss[s], new) ELSE ss[x]]
<1>1. ~EndsBatch(ss[s], new)
  BY DEF EndsBatch, Plain
<1> QED BY <1>1 DEF SetStatus

-----------------------------------------------------------------------------
(* What the handlers do to a step outside a batch. *)

\* A step that can be performed or runs is not about to be removed.
Needed(t) == t.workers # {} \/ t.status = "RUNNING" => t.remove = None

\* From record t to u, when the workers in `gone' are given up: whoever u names as
\* running the step was so named or holds it, whoever held it holds it or the step
\* is removed, and a step that is held and not about to be removed stays so.
Calm(t, u, gone) ==
    /\ Plain(u)
    /\ Needed(t) => Needed(u)
    /\ u.worker_running \in {None, t.worker_running} \cup u.stakeholders
    /\ \/ t.stakeholders \ gone \subseteq u.stakeholders
       \/ u.worker_running = None /\ (t.remove # None \/ t.stakeholders \ gone = {})
    /\ t.remove = None /\ t.stakeholders \ gone # {} => u.remove = None

\* The run of a worker that holds the step and is not given up goes on.
Steady(t, u, gone) ==
    t.status = "RUNNING" /\ t.remove = None /\ t.worker_running \in t.stakeholders \ gone
        => u.status = "RUNNING" /\ u.worker_running = t.worker_running

\* No run begins, and nothing becomes DONE.
NoNews(t, u) == /\ u.status = "RUNNING" => t.status = "RUNNING"
                /\ u.status = "DONE" => t.status = "DONE"

LEMMA NoStepPlain ==
    Plain(NoStep) /\ NoStep.remove = None /\ NoStep.worker_running = None
BY DEF NoStep, NewStep, Plain, Absent

LEMMA ReEnablePlain ==
    ASSUME NEW t, StepOK(t), Plain(t), t.status = "DISABLED"
    PROVE  LET u == ReEnable(t)
           IN  /\ Plain(u) /\ SameRemoval(t, u) /\ u.worker_running = t.worker_running
               /\ u.status \in {"FAILED", "DISABLED"}
<1> DEFINE c == ClearFailures(t)
           e == [c EXCEPT !.disable_time = None]
           u == SetOwnStatus(e, "FAILED")
           v == ClearFailures(u)
<1>0. ASSUME NEW r \in StepRecords
      PROVE  /\ ClearFailures(r) \in StepRecords /\ SameRemoval(r, ClearFailures(r))
             /\ ClearFailures(r).worker_running = r.worker_running
             /\ ClearFailures(r).status = r.status
             /\ ClearFailures(r).batch_id = r.batch_id
  <2>1. SameRemoval(r, ClearFailures(r))
    BY DEF ClearFailures, StepRecords, SameRemoval
  <2> QED BY <2>1, ClearFailuresType
<1>1. /\ c \in StepRecords /\ SameRemoval(t, c) /\ c.worker_running = t.worker_running
      /\ c.status = "DISABLED" /\ c.batch_id = {}
  BY <1>0 DEF StepOK, Plain
<1> HIDE DEF c
<1>2. e \in StepRecords
  BY <1>1 DEF StepRecords
<1>3. /\ SameRemoval(c, e) /\ e.worker_running = c.worker_running
      /\ e.status = c.status /\ e.batch_id = c.batch_id
  BY <1>1 DEF StepRecords, SameRemoval
<1> HIDE DEF e
<1>4. Plain(e) /\ SameRemoval(t, e) /\ e.worker_running = t.worker_running
      /\ e.status = "DISABLED"
  BY <1>1, <1>3 DEF Plain, SameRemoval
<1>5. "FAILED" \in Statuses \ {"BATCH_RUNNING"}
  BY DEF Statuses
<1>6. u \in StepRecords /\ Changes(e, u, "FAILED")
  BY <1>2, <1>5, SetOwnStatusType
<1>7. Plain(u) /\ SameRemoval(e, u)
  BY <1>2, <1>4, <1>5, SetOwnStatusPlain
<1> HIDE DEF u
<1>8. /\ v \in StepRecords /\ SameRemoval(u, v) /\ v.worker_running = u.worker_running
      /\ v.status = u.status /\ v.batch_id = u.batch_id
  BY <1>0, <1>6
<1>9. v = ReEnable(t)
  BY DEF v, u, e, c, ReEnable
<1> HIDE DEF v
<1>10. Plain(v) /\ SameRemoval(t, v) /\ v.worker_running = t.worker_running
  BY <1>4, <1>6, <1>7, <1>8 DEF Plain, SameRemoval, Changes
<1>11. v.status \in {"FAILED", "DISABLED"}
  BY <1>4, <1>6, <1>8 DEF Changes
<1> QED BY <1>9, <1>10, <1>11

\* update_status marks a step for removal only if nobody holds it and it does not
\* run, and leaves the status of what runs or is done alone.
LEMMA UpdateStatusPlain ==
    ASSUME NEW t, StepOK(t), Plain(t)
    PROVE  LET u == UpdateStatus(t)
           IN  /\ Plain(u) /\ u.worker_running = t.worker_running
               /\ u.remove = IF t.stakeholders = {} /\ t.remove = None /\ t.status # "RUNNING"
                             THEN RemoveDelay ELSE t.remove
               /\ u.status \in {t.status, "PENDING", "FAILED", "DISABLED"}
               /\ t.status \notin {"FAILED", "DISABLED"} => u.status = t.status
<1>1. PICK remove : remove = IF t.stakeholders = {} /\ t.remove = None /\ t.status # "RUNNING"
                             THEN RemoveDelay ELSE t.remove
  OBVIOUS
<1>2. remove \in OrNone(Nat)
  BY <1>1, TimingAssumption DEF TimingAssumption, StepOK, StepRecords
<1>3. PICK marked : marked = [t EXCEPT !.remove = remove]
  OBVIOUS
<1>4. /\ marked \in StepRecords /\ SameHolders(t, marked) /\ SameStatus(t, marked)
      /\ marked.retry = t.retry /\ marked.batch_id = t.batch_id
      /\ marked.worker_running = t.worker_running
  BY <1>2, <1>3 DEF StepOK, StepRecords, SameHolders, SameStatus
<1>5. marked.remove = remove /\ marked.batchable = t.batchable
  BY <1>3 DEF StepOK, StepRecords
<1>6. StepOK(marked) /\ Plain(marked) /\ marked.status = t.status
  BY <1>4, <1>5 DEF StepOK, SameHolders, SameStatus, Timed, Plain
<1>7. PICK enabled : enabled = IF /\ t.status = "DISABLED" /\ t.disable_time # None
                                  /\ t.disable_time > DisablePersist
                               THEN ReEnable(marked) ELSE marked
  OBVIOUS
<1>8. /\ StepOK(enabled) /\ Plain(enabled) /\ enabled.worker_running = t.worker_running
      /\ enabled.remove = remove
      /\ enabled.status \in {t.status, "FAILED", "DISABLED"}
      /\ t.status # "DISABLED" => enabled.status = t.status
  <2>1. CASE t.status = "DISABLED" /\ enabled = ReEnable(marked)
    <3>1. StepOK(enabled)
      BY <1>6, <2>1, ReEnableOK
    <3>2. /\ Plain(enabled) /\ SameRemoval(marked, enabled)
          /\ enabled.worker_running = marked.worker_running
          /\ enabled.status \in {"FAILED", "DISABLED"}
      BY <1>6, <2>1, ReEnablePlain
    <3> QED BY <1>4, <1>5, <2>1, <3>1, <3>2 DEF SameRemoval
  <2>2. CASE enabled = marked
    BY <1>4, <1>5, <1>6, <2>2
  <2> QED BY <1>7, <2>1, <2>2
<1>9. PICK u : u = IF enabled.status = "FAILED" /\ enabled.retry = 0
                   THEN SetOwnStatus(enabled, "PENDING") ELSE enabled
  OBVIOUS
<1>10. u = UpdateStatus(t)
  BY <1>1, <1>3, <1>7, <1>9 DEF UpdateStatus
<1>11. /\ Plain(u) /\ u.worker_running = t.worker_running /\ u.remove = remove
       /\ u.status \in {t.status, "PENDING", "FAILED", "DISABLED"}
       /\ t.status \notin {"FAILED", "DISABLED"} => u.status = t.status
  <2>1. CASE enabled.status = "FAILED" /\ u = SetOwnStatus(enabled, "PENDING")
    <3>1. "PENDING" \in Statuses \ {"BATCH_RUNNING"} /\ enabled \in StepRecords
      BY <1>8 DEF Statuses, StepOK
    <3>2. /\ Plain(u) /\ SameRemoval(enabled, u) /\ Changes(enabled, u, "PENDING")
      BY <1>8, <2>1, <3>1, SetOwnStatusPlain, SetOwnStatusType
    <3> QED BY <1>8, <2>1, <3>2 DEF SameRemoval, Changes
  <2>2. CASE u = enabled
    BY <1>8, <2>2
  <2> QED BY <1>9, <2>1, <2>2
<1> QED BY <1>1, <1>10, <1>11

LEMMA FailDeadWorkerStepPlain ==
    ASSUME NEW t, StepOK(t), Plain(t), t.status \in ActiveStatuses
    PROVE  LET u == FailDeadWorkerStep(t)
           IN  /\ Plain(u) /\ SameRemoval(t, u) /\ u.worker_running = None
               /\ u.status \in {"FAILED", "DISABLED"}
<1>1. PICK o : o = [t EXCEPT !.worker_running = None]
  OBVIOUS
<1>2. o \in StepRecords /\ o.status = t.status /\ o.batch_id = t.batch_id
  BY <1>1 DEF StepOK, StepRecords
<1>3. SameRemoval(t, o) /\ o.worker_running = None
  BY <1>1 DEF StepOK, StepRecords, SameRemoval
<1>4. PICK f : f = SetOwnStatus(o, "FAILED")
  OBVIOUS
<1>5. Plain(o) /\ "FAILED" \in Statuses \ {"BATCH_RUNNING"}
  BY <1>2, <1>3 DEF Plain, SameRemoval, Statuses
<1>6. f \in StepRecords /\ Changes(o, f, "FAILED") /\ Plain(f) /\ SameRemoval(o, f)
  BY <1>2, <1>4, <1>5, SetOwnStatusType, SetOwnStatusPlain
<1>7. PICK u : u = [f EXCEPT !.retry = RetryDelay + 1]
  OBVIOUS
<1>8. u.status = f.status /\ u.batch_id = f.batch_id /\ SameRemoval(f, u)
      /\ u.worker_running = f.worker_running
  BY <1>6, <1>7 DEF StepRecords, SameRemoval
<1>9. u = FailDeadWorkerStep(t)
  BY <1>1, <1>4, <1>7 DEF FailDeadWorkerStep, EndsBatch, Plain
<1> QED BY <1>2, <1>3, <1>6, <1>8, <1>9 DEF Plain, SameRemoval, Changes

\* _prune_steps on a table whose holders that are gone have been taken out.
LEMMA PrunedStepPlain ==
    ASSUME NEW ss, \A y \in Steps : StepOK(ss[y]) /\ Plain(ss[y]), NEW ord,
           NEW assistants, NEW x \in Steps
    PROVE  LET u == PrunedStep(ss, ord, x, assistants)
           IN  /\ Calm(ss[x], u, {}) /\ Steady(ss[x], u, {}) /\ NoNews(ss[x], u)
<1>1. PICK t : t = ss[x]
  OBVIOUS
<1>2. DeadRunnersOf(ss, x, assistants) = {}
  BY DEF DeadRunnersOf, EndsBatch, Plain
<1>3. PICK f : f = IF HasDeadWorker(t, assistants) THEN FailDeadWorkerStep(t) ELSE t
  OBVIOUS
<1>4. PICK v : v = UpdateStatus(f)
  OBVIOUS
<1>5. v = Visited(ss, ord, x, assistants)
  BY <1>1, <1>2, <1>3, <1>4 DEF Visited
<1>6. PICK u : u = PrunedStep(ss, ord, x, assistants)
  OBVIOUS
<1>7. u = IF t.status = Absent \/ MayPrune(v) THEN NoStep ELSE v
  BY <1>1, <1>2, <1>5, <1>6 DEF PrunedStep, Looped
<1>8. StepOK(t) /\ Plain(t)
  BY <1>1
<1>9. HasDeadWorker(t, assistants) =>
          /\ t.status = "RUNNING" /\ t.worker_running \notin t.stakeholders
          /\ f = FailDeadWorkerStep(t) /\ t.status \in ActiveStatuses
  BY <1>3, <1>8 DEF HasDeadWorker, Plain, ActiveStatuses
<1>10. /\ StepOK(f) /\ SameHolders(t, f) /\ Plain(f) /\ f.remove = t.remove
       /\ \/ f = t
          \/ /\ t.status = "RUNNING" /\ t.worker_running \notin t.stakeholders
             /\ f.worker_running = None /\ f.status \in {"FAILED", "DISABLED"}
  <2>1. CASE HasDeadWorker(t, assistants)
    BY <1>8, <1>9, <2>1, FailDeadWorkerStepOK, FailDeadWorkerStepPlain DEF SameRemoval
  <2>2. CASE ~HasDeadWorker(t, assistants)
    BY <1>3, <1>8, <2>2 DEF SameHolders
  <2> QED BY <2>1, <2>2
<1>11. StepOK(v) /\ SameHolders(f, v)
  BY <1>4, <1>10, UpdateStatusOK
<1>12. /\ Plain(v) /\ v.worker_running = f.worker_running
       /\ v.remove = IF f.stakeholders = {} /\ f.remove = None /\ f.status # "RUNNING"
                     THEN RemoveDelay ELSE f.remove
       /\ v.status \in {f.status, "PENDING", "FAILED", "DISABLED"}
       /\ f.status \notin {"FAILED", "DISABLED"} => v.status = f.status
  BY <1>4, <1>10, UpdateStatusPlain
<1>13. t.remove = None /\ t.stakeholders # {} => v.remove = None
  BY <1>10, <1>12 DEF SameHolders
<1>14. u = v \/ (u = NoStep /\ (t.remove # None \/ t.stakeholders = {}))
  <2>1. t.status = Absent => t.stakeholders = {}
    BY <1>8 DEF StepOK
  <2>2. MayPrune(v) => v.remove # None
    BY ConstantsAssumption DEF ConstantsAssumption, MayPrune
  <2> QED BY <1>7, <1>13, <2>1, <2>2
<1>15. Needed(t) => Needed(v)
  <2>1. v.workers # {} => t.workers # {} /\ t.stakeholders # {}
    BY <1>8, <1>10, <1>11 DEF SameHolders, StepOK
  <2>2. v.status = "RUNNING" => t.status = "RUNNING" /\ v.remove = t.remove
    BY <1>10, <1>12
  <2> QED BY <1>13, <2>1, <2>2 DEF Needed
<1>16. Calm(t, v, {})
  BY <1>10, <1>11, <1>12, <1>13, <1>15 DEF Calm, SameHolders
<1>17. Steady(t, v, {})
  BY <1>10, <1>12 DEF Steady
<1>18. NoNews(t, v)
  BY <1>10, <1>12 DEF NoNews
<1>19. u = NoStep => Calm(t, u, {}) /\ Steady(t, u, {}) /\ NoNews(t, u)
  <2> SUFFICES ASSUME u = NoStep, u # v
               PROVE  Calm(t, u, {}) /\ Steady(t, u, {}) /\ NoNews(t, u)
    BY <1>16, <1>17, <1>18
  <2>1. Needed(u)
    BY NoStepPlain DEF Needed
  <2> QED BY <1>14, <2>1, NoStepPlain, NoStepOK DEF Calm, Steady, NoNews, Absent
<1> QED BY <1>1, <1>6, <1>14, <1>16, <1>17, <1>18, <1>19

-----------------------------------------------------------------------------
(* The handlers that no worker's report is part of. *)

AllPlain == \A s \in Steps : Plain(steps[s])

AllCalm(gone) == \A s \in Steps : Calm(steps[s], steps'[s], gone)
AllSteady(gone) == \A s \in Steps : Steady(steps[s], steps'[s], gone)
AllQuiet == \A s \in Steps : NoNews(steps[s], steps'[s])

\* The ids that are in _steps stay.
SamePresent == \A s \in Steps : steps'[s].status = Absent <=> steps[s].status = Absent

\* A worker that was not heard of before is new, and nobody seems to be silent for
\* longer.
Fresher ==
    \A w \in Workers : workers'[w].active =>
        \/ workers'[w].last_active = 0
        \/ workers[w].active /\ workers'[w].last_active = workers[w].last_active

LEMMA RemoveWorkersPlain ==
    ASSUME NEW ss, \A s \in Steps : StepOK(ss[s]), NEW gone, NEW all, NEW s \in Steps
    PROVE  SameRemoval(ss[s], RemoveWorkersFromSteps(ss, gone, all)[s])
<1>1. PICK wks, stk : RemoveWorkersFromSteps(ss, gone, all)[s] =
                          [ss[s] EXCEPT !.workers = wks, !.stakeholders = stk]
  BY DEF RemoveWorkersFromSteps
<1>2. ss[s] \in StepRecords
  BY DEF StepOK
<1> QED BY <1>1, <1>2 DEF StepRecords, SameRemoval

LEMMA PrunePlain ==
    ASSUME IInv, AllPlain, Prune
    PROVE  /\ AllCalm(TimedOut(workers)) /\ AllSteady(TimedOut(workers)) /\ AllQuiet
           /\ Fresher
<1>1. PICK gone : gone = TimedOut(workers)
  OBVIOUS
<1>2. PICK left : left = [w \in Workers |-> IF w \in gone THEN NoWorker ELSE workers[w]]
  OBVIOUS
<1>3. PICK ss : ss = RemoveWorkersFromSteps(steps, gone, TRUE)
  OBVIOUS
<1>4. PICK kept : kept = Present(PruneSteps(ss, older, Assistants(left)))
  OBVIOUS
<1>5. /\ steps' = PruneSteps(ss, older, Assistants(left))
      /\ workers' = [w \in Workers |->
                        Inactivated(ss, older, Assistants(left), left[w], kept)]
  BY <1>1, <1>2, <1>3, <1>4 DEF Prune
<1>6. /\ \A s \in Steps : StepOK(steps[s])
      /\ workers \in [Workers -> WorkerRecords]
  BY DEF IInv, TableOK
<1>7. \A s \in Steps :
         /\ StepOK(ss[s]) /\ SameRun(steps[s], ss[s])
         /\ HeldBy(ss[s], steps[s].stakeholders \ gone, steps[s].workers \ gone)
  BY <1>3, <1>6, RemoveWorkersOK
<1>8. \A s \in Steps : SameRemoval(steps[s], ss[s])
  BY <1>3, <1>6, RemoveWorkersPlain
<1>9. \A s \in Steps : Plain(ss[s])
  BY <1>7, <1>8 DEF AllPlain, Plain, SameRun, SameStatus, SameRemoval
<1>10. \A s \in Steps : /\ Calm(ss[s], steps'[s], {}) /\ Steady(ss[s], steps'[s], {})
                        /\ NoNews(ss[s], steps'[s])
  BY <1>5, <1>7, <1>9, PrunedStepPlain DEF PruneSteps
<1>11. ASSUME NEW s \in Steps
       PROVE  /\ Calm(steps[s], steps'[s], gone) /\ Steady(steps[s], steps'[s], gone)
              /\ NoNews(steps[s], steps'[s])
  <2>1. /\ ss[s].stakeholders = steps[s].stakeholders \ gone
        /\ ss[s].remove = steps[s].remove
        /\ ss[s].status = steps[s].status
        /\ ss[s].worker_running = steps[s].worker_running
        /\ ss[s].workers \subseteq steps[s].workers
    BY <1>7, <1>8 DEF SameRun, SameStatus, HeldBy, SameRemoval
  <2>2. Needed(steps[s]) => Needed(ss[s])
    BY <2>1 DEF Needed
  <2>3. Calm(ss[s], steps'[s], {}) /\ Steady(ss[s], steps'[s], {}) /\ NoNews(ss[s], steps'[s])
    BY <1>10
  <2>4. Calm(steps[s], steps'[s], gone)
    BY <2>1, <2>2, <2>3 DEF Calm
  <2> QED BY <2>1, <2>3, <2>4 DEF Steady, NoNews
<1>12. Fresher
  <2> SUFFICES ASSUME NEW w \in Workers, workers'[w].active
               PROVE  workers[w].active /\ workers'[w].last_active = workers[w].last_active
    BY DEF Fresher
  <2>1. NoWorker \in WorkerRecords /\ ~NoWorker.active
    BY DEF NoWorker, NewWorker, WorkerRecords
  <2>2. left[w] \in WorkerRecords
    BY <1>2, <1>6, <2>1
  <2>3. workers'[w].active = left[w].active /\ workers'[w].last_active = left[w].last_active
    BY <1>5, <2>2 DEF WorkerRecords, Inactivated
  <2> QED BY <1>2, <2>1, <2>3
<1> QED BY <1>1, <1>11, <1>12 DEF AllCalm, AllSteady, AllQuiet

\* What is enough for a step whose holders stay.
LEMMA CalmBySameFields ==
    ASSUME NEW t, NEW u, Plain(u), u.stakeholders = t.stakeholders,
           u.workers \subseteq t.workers, t.remove = None => u.remove = None,
           u.worker_running \in {None, t.worker_running},
           u.status = "RUNNING" => t.status = "RUNNING"
    PROVE  Calm(t, u, {})
<1>1. Needed(t) => Needed(u)
  BY DEF Needed
<1> QED BY <1>1 DEF Calm

LEMMA SameFieldsSteady ==
    ASSUME NEW t, NEW u, u.status = t.status, u.worker_running = t.worker_running
    PROVE  Steady(t, u, {}) /\ NoNews(t, u)
BY DEF Steady, NoNews

LEMMA DisableWorkerPlain ==
    ASSUME IInv, AllPlain, NEW w \in Workers, DisableWorker(w)
    PROVE  AllCalm({}) /\ AllSteady({}) /\ AllQuiet /\ SamePresent /\ Fresher
<1>1. \A s \in Steps : StepOK(steps[s])
  BY DEF IInv, TableOK
<1>2. /\ \A s \in Steps :
            /\ StepOK(steps'[s]) /\ SameRun(steps[s], steps'[s])
            /\ HeldBy(steps'[s], steps[s].stakeholders, steps[s].workers \ {w})
  BY <1>1, RemoveWorkersOK DEF DisableWorker
<1>3. \A s \in Steps : SameRemoval(steps[s], steps'[s])
  BY <1>1, RemoveWorkersPlain DEF DisableWorker
<1>4. ASSUME NEW s \in Steps
      PROVE  /\ Calm(steps[s], steps'[s], {}) /\ Steady(steps[s], steps'[s], {})
             /\ NoNews(steps[s], steps'[s]) /\ steps'[s].status = steps[s].status
  <2>1. /\ steps'[s].status = steps[s].status
        /\ steps'[s].worker_running = steps[s].worker_running
        /\ steps'[s].batch_id = steps[s].batch_id
        /\ SameRemoval(steps[s], steps'[s])
        /\ steps'[s].stakeholders = steps[s].stakeholders
        /\ steps'[s].workers \subseteq steps[s].workers
    BY <1>2, <1>3 DEF SameRun, SameStatus, HeldBy
  <2>2. Plain(steps'[s])
    BY <2>1 DEF AllPlain, Plain, SameRemoval
  <2> QED BY <2>1, <2>2, CalmBySameFields, SameFieldsSteady DEF SameRemoval
<1>5. Fresher
  <2>1. TableOK(steps, workers) /\ workers \in [Workers -> WorkerRecords]
    BY DEF IInv, TableOK
  <2>2. PICK g : g = GetWorker(workers, w)
    OBVIOUS
  <2>3. g \in WorkerRecords
    BY <2>1, <2>2, GetWorkerOK
  <2>4. workers' = [workers EXCEPT ![w] = [g EXCEPT !.disabled = TRUE, !.steps = {}, !.removed = {}]]
    BY <2>2 DEF DisableWorker
  <2>5. [g EXCEPT !.disabled = TRUE, !.steps = {}, !.removed = {}].last_active = g.last_active
    BY <2>3 DEF WorkerRecords
  <2>6. g.last_active = 0 \/ (workers[w].active /\ g.last_active = workers[w].last_active)
    BY <2>2 DEF GetWorker, NewWorker
  <2> QED BY <2>1, <2>4, <2>5, <2>6 DEF Fresher
<1> QED BY <1>4, <1>5 DEF AllCalm, AllSteady, AllQuiet, SamePresent

\* forgive_failures and mark_as_done
LEMMA StatusPlain ==
    ASSUME IInv, AllPlain, NEW s \in Steps, NEW new \in {"PENDING", "DONE"},
           steps' = SetStatus(steps, s, new), steps[s].status # Absent
    PROVE  /\ AllCalm({}) /\ SamePresent
           /\ steps[s].status = "FAILED" /\ new = "PENDING" => AllSteady({}) /\ AllQuiet
<1>1. PICK u : u = SetOwnStatus(steps[s], new)
  OBVIOUS
<1>2. steps' = [x \in Steps |-> IF x = s THEN u ELSE steps[x]]
  BY <1>1, SetStatusPlain DEF AllPlain
<1>3. steps[s] \in StepRecords /\ Plain(steps[s]) /\ new \in Statuses \ {"BATCH_RUNNING"}
  BY DEF IInv, TableOK, StepOK, AllPlain, Statuses
<1>4. Changes(steps[s], u, new) /\ Plain(u) /\ SameRemoval(steps[s], u)
  BY <1>1, <1>3, SetOwnStatusType, SetOwnStatusPlain
<1>5. Calm(steps[s], u, {})
  BY <1>4, CalmBySameFields DEF Changes, SameHolders, SameRemoval
<1>6. u.status # Absent
  BY <1>4 DEF Changes, Absent
<1>7. \A x \in Steps : /\ Calm(steps[x], steps[x], {}) /\ Steady(steps[x], steps[x], {})
                       /\ NoNews(steps[x], steps[x])
  BY CalmBySameFields, SameFieldsSteady DEF AllPlain
<1>8. steps[s].status = "FAILED" /\ new = "PENDING" =>
          Steady(steps[s], u, {}) /\ NoNews(steps[s], u)
  BY <1>4 DEF Changes, Steady, NoNews
<1> QED BY <1>2, <1>5, <1>6, <1>7, <1>8 DEF AllCalm, AllSteady, AllQuiet, SamePresent

LEMMA ReEnableStepPlain ==
    ASSUME IInv, AllPlain, NEW s \in Steps, ReEnableStep(s)
    PROVE  AllCalm({}) /\ AllSteady({}) /\ AllQuiet /\ SamePresent
<1>1. PICK u : u = ReEnable(steps[s])
  OBVIOUS
<1>2. steps \in [Steps -> StepRecords] /\ \A x \in Steps : StepOK(steps[x]) /\ Plain(steps[x])
  BY DEF IInv, TableOK, AllPlain
<1>3. steps' = [steps EXCEPT ![s] = u] /\ steps[s].status = "DISABLED"
  BY <1>1 DEF ReEnableStep
<1>4. SameHolders(steps[s], u) /\ u.status # Absent
  BY <1>1, <1>2, <1>3, ReEnableOK
<1>5. /\ Plain(u) /\ SameRemoval(steps[s], u) /\ u.worker_running = steps[s].worker_running
      /\ u.status \in {"FAILED", "DISABLED"}
  BY <1>1, <1>2, <1>3, ReEnablePlain
<1>6. Calm(steps[s], u, {})
  BY <1>4, <1>5, CalmBySameFields DEF SameHolders, SameRemoval
<1>7. Steady(steps[s], u, {}) /\ NoNews(steps[s], u)
  BY <1>3, <1>5 DEF Steady, NoNews
<1>8. \A x \in Steps : /\ Calm(steps[x], steps[x], {}) /\ Steady(steps[x], steps[x], {})
                       /\ NoNews(steps[x], steps[x])
  BY <1>2, CalmBySameFields, SameFieldsSteady
<1>9. \A x \in Steps : steps'[x] = IF x = s THEN u ELSE steps[x]
  BY <1>2, <1>3
<1>10. steps[s].status # Absent
  BY <1>3 DEF Absent
<1> QED BY <1>4, <1>6, <1>7, <1>8, <1>9, <1>10 DEF AllCalm, AllSteady, AllQuiet, SamePresent

LEMMA DecreasePlain ==
    ASSUME IInv, AllPlain, NEW s \in Steps, NEW less,
           DecreaseRunningStepResources(s, less)
    PROVE  AllCalm({}) /\ AllSteady({}) /\ AllQuiet /\ SamePresent
<1>1. ASSUME NEW x \in Steps
      PROVE  /\ steps'[x].status = steps[x].status
             /\ steps'[x].worker_running = steps[x].worker_running
             /\ steps'[x].batch_id = steps[x].batch_id
             /\ SameRemoval(steps[x], steps'[x])
             /\ SameHolders(steps[x], steps'[x])
  <2>1. steps[x] \in StepRecords
    BY DEF IInv, TableOK
  <2>2. steps'[x] \in {steps[x], Decrease(steps[x], less)}
    BY DEF DecreaseRunningStepResources
  <2>3. steps'[x] = steps[x] \/ \E r : \/ steps'[x] = [steps[x] EXCEPT !.resources = r]
                                       \/ steps'[x] = [steps[x] EXCEPT !.resources_running = r]
    BY <2>2 DEF Decrease
  <2> QED BY <2>1, <2>3 DEF StepRecords, SameRemoval, SameHolders
<1>2. ASSUME NEW x \in Steps
      PROVE  /\ Calm(steps[x], steps'[x], {}) /\ Steady(steps[x], steps'[x], {})
             /\ NoNews(steps[x], steps'[x])
  <2>1. Plain(steps'[x])
    BY <1>1 DEF AllPlain, Plain, SameRemoval
  <2> QED BY <1>1, <2>1, CalmBySameFields, SameFieldsSteady DEF SameHolders, SameRemoval
<1> QED BY <1>1, <1>2 DEF AllCalm, AllSteady, AllQuiet, SamePresent

LEMMA TickPlain ==
    ASSUME IInv, AllPlain, Tick
    PROVE  AllCalm({}) /\ AllSteady({}) /\ AllQuiet /\ SamePresent
<1>1. ASSUME NEW s \in Steps, steps[s].status # Absent
      PROVE  /\ steps'[s].status = steps[s].status
             /\ steps'[s].worker_running = steps[s].worker_running
             /\ steps'[s].batch_id = steps[s].batch_id
             /\ steps'[s].batchable = steps[s].batchable
             /\ steps[s].remove = None => steps'[s].remove = None
             /\ SameHolders(steps[s], steps'[s])
  <2>1. steps[s] \in StepRecords
    BY DEF IInv, TableOK
  <2>2. PICK retry, updated, failures, first, disabled :
            steps'[s] = Aged(steps[s], retry, Down(steps[s].remove), updated, failures,
                             first, disabled)
    BY <1>1 DEF Tick, AgedStep, Aged
  <2>3. steps[s].remove = None => Down(steps[s].remove) = None
    BY DEF Down
  <2> QED BY <2>1, <2>2, <2>3 DEF StepRecords, Aged, SameHolders
<1>2. ASSUME NEW s \in Steps
      PROVE  /\ Calm(steps[s], steps'[s], {}) /\ Steady(steps[s], steps'[s], {})
             /\ NoNews(steps[s], steps'[s])
             /\ steps'[s].status = steps[s].status
  <2>1. CASE steps[s].status = Absent
    <3>1. steps'[s] = NoStep
      BY <2>1 DEF Tick
    <3>2. steps[s].stakeholders = {}
      BY <2>1 DEF IInv, TableOK, StepOK
    <3>3. Calm(steps[s], NoStep, {})
      BY <3>2, NoStepPlain, NoStepOK DEF Calm, Needed, Absent
    <3> QED BY <2>1, <3>1, <3>3, NoStepOK DEF Steady, NoNews, Absent
  <2>2. CASE steps[s].status # Absent
    <3>1. Plain(steps'[s])
      BY <1>1, <2>2 DEF AllPlain, Plain
    <3> QED BY <1>1, <2>2, <3>1, CalmBySameFields, SameFieldsSteady DEF SameHolders
  <2> QED BY <2>1, <2>2
<1> QED BY <1>2 DEF AllCalm, AllSteady, AllQuiet, SamePresent

-----------------------------------------------------------------------------
(* add_step. *)

\* A call that is not about a batch and not an assistant's.
PlainCall(q) == q.batch_id = {} /\ q.batchable \in {None, FALSE} /\ ~q.assistant

\* Such a call does not fail.
LEMMA PlainCallAnswered ==
    ASSUME NEW q, PlainCall(q) PROVE ~AddStepFails(q)
BY DEF AddStepFails, NamesLostBatch, PlainCall

\* Of the attributes that matter here only the holders may change, and only get more.
Kin(t, u) ==
    /\ u.status = t.status /\ u.worker_running = t.worker_running
    /\ u.batch_id = t.batch_id /\ SameRemoval(t, u)
    /\ t.stakeholders \subseteq u.stakeholders

\* The call ends the run of t, or is meant to.
EndsRun(t, q) ==
    q.new_deps # {} \/ (q.status \in {"DONE", "FAILED"} /\ t.worker_running = q.worker)

LEMMA ClaimedPlain ==
    ASSUME NEW ss, \A y \in Steps : StepOK(ss[y]) /\ Plain(ss[y]),
           NEW q \in Calls, PlainCall(q)
    PROVE  LET t == ss[q.step]
               c == Claimed(ss, q)
           IN  /\ StepOK(c) /\ Plain(c) /\ c.remove = None /\ SameHolders(t, c)
               /\ c.status = t.status
               /\ c.worker_running = IF StartsRun(t, q) THEN q.worker ELSE t.worker_running
<1>1. PICK t : t = ss[q.step]
  OBVIOUS
<1>2. q \in Requests /\ t \in StepRecords /\ Plain(t)
  BY <1>1 DEF Calls, Requests, StepOK
<1>3. PICK c : c = Claimed(ss, q)
  OBVIOUS
<1>4. ~NamesLostBatch(ss, q)
  BY DEF NamesLostBatch, PlainCall
<1>5. StepOK(c) /\ SameHolders(t, c) /\ SameStatus(t, c)
  BY <1>1, <1>2, <1>3, <1>4, ClaimedOK
<1>6. PICK runner : runner = IF StartsRun(t, q) THEN q.worker ELSE t.worker_running
  OBVIOUS
<1>7. PICK batchable : batchable = IF q.batchable # None THEN q.batchable ELSE t.batchable
  OBVIOUS
<1>8. PICK a : a = [t EXCEPT !.batch_id = t.batch_id, !.worker_running = runner]
  OBVIOUS
<1>9. a = Attributed(t, q)
  BY <1>6, <1>8 DEF Attributed, PlainCall
<1>10. a.batchable = t.batchable
  BY <1>2, <1>8 DEF StepRecords
<1>11. PICK rr : c = [a EXCEPT !.resources_running = rr, !.batchable = batchable,
                               !.remove = None]
  BY <1>1, <1>3, <1>7, <1>9, <1>10 DEF Claimed
<1>12. c.worker_running = runner /\ c.batch_id = t.batch_id
  BY <1>2, <1>8, <1>11 DEF StepRecords
<1>13. c.remove = None /\ c.batchable = batchable
  BY <1>2, <1>8, <1>11 DEF StepRecords
<1>14. batchable = FALSE
  BY <1>2, <1>7 DEF PlainCall, Plain
<1> QED BY <1>1, <1>2, <1>3, <1>5, <1>6, <1>12, <1>13, <1>14 DEF Plain, SameStatus

LEMMA DescribedPlain ==
    ASSUME NEW t, StepOK(t), t.status # Absent, NEW q \in Calls, NEW enabled \in BOOLEAN
    PROVE  Kin(t, Described(t, q, enabled))
<1>1. PICK d : d = Described(t, q, enabled)
  OBVIOUS
<1>2. \E deps, rr, resources, count, stk, wks, runnable :
          d = DescribedAs(t, deps, rr, resources, count, stk, wks, runnable)
  <2>1. PICK deps : deps = (IF q.deps # None THEN q.deps ELSE t.deps) \cup q.new_deps
    OBVIOUS
  <2>2. PICK rr : rr = IF t.resources_running = Shared THEN t.resources ELSE t.resources_running
    OBVIOUS
  <2>3. PICK stk : stk = IF enabled /\ ~q.assistant
                         THEN t.stakeholders \cup {q.worker} ELSE t.stakeholders
    OBVIOUS
  <2>4. PICK wks : wks = IF Registers(q, enabled) THEN t.workers \cup {q.worker} ELSE t.workers
    OBVIOUS
  <2>5. PICK runnable : runnable = IF Registers(q, enabled) THEN TRUE ELSE t.runnable
    OBVIOUS
  <2>6. d = DescribedAs(t, deps, rr, q.resources, q.retry_count, stk, wks, runnable)
    BY <1>1, <2>1, <2>2, <2>3, <2>4, <2>5 DEF Described, DescribedAs
  <2> QED BY <2>6
<1>3. t \in StepRecords
  BY DEF StepOK
<1>4. SameRemoval(t, d)
  BY <1>2, <1>3 DEF DescribedAs, StepRecords, SameRemoval
<1>5. SameRun(t, d)
  BY <1>1, DescribedOK
<1>6. d.stakeholders = IF enabled /\ ~q.assistant
                       THEN t.stakeholders \cup {q.worker} ELSE t.stakeholders
  BY <1>1, DescribedOK DEF HeldBy
<1> QED BY <1>1, <1>4, <1>5, <1>6 DEF Kin, SameRun, SameStatus

LEMMA HeldPlain ==
    ASSUME NEW t, StepOK(t), NEW q \in Requests
    PROVE  LET h == Held(t, q)
           IN  /\ h.workers = t.workers
               /\ t.status # Absent => Kin(t, h)
               /\ t.status = Absent =>
                     /\ Plain(h) /\ h.remove = None /\ h.worker_running = None
                     /\ h.status = "UNKNOWN" /\ t.stakeholders \subseteq h.stakeholders
<1>1. PICK h : h = Held(t, q)
  OBVIOUS
<1>2. PICK found : found = IF t.status = Absent
                           THEN NewStep("UNKNOWN", {}, NoResources, q.priority) ELSE t
  OBVIOUS
<1>3. PICK stk : h = [found EXCEPT !.stakeholders = stk]
  BY <1>1, <1>2 DEF Held
<1>4. HeldBy(h, t.stakeholders \cup {q.worker}, t.workers)
      /\ (t.status # Absent => SameRun(t, h))
  BY <1>1, HeldOK
<1>5. CASE t.status # Absent
  <2>1. SameRemoval(t, h)
    BY <1>2, <1>3, <1>5 DEF StepOK, StepRecords, SameRemoval
  <2> QED BY <1>1, <1>4, <1>5, <2>1 DEF Kin, SameRun, SameStatus, HeldBy
<1>6. CASE t.status = Absent
  <2>1. /\ h.batch_id = {} /\ h.batchable = FALSE /\ h.status = "UNKNOWN"
        /\ h.remove = None /\ h.worker_running = None
    BY <1>2, <1>3, <1>6 DEF NewStep
  <2> QED BY <1>1, <1>4, <1>6, <2>1 DEF Plain, HeldBy
<1> QED BY <1>5, <1>6

LEMMA UpdatePriorityPlain ==
    ASSUME NEW ss, \A y \in Steps : StepOK(ss[y]), NEW s \in Steps, NEW prio \in Nat,
           NEW x \in Steps
    PROVE  LET u == UpdatePriority(ss, s, prio)[x]
           IN  Kin(ss[x], u) /\ u.workers = ss[x].workers
<1>1. PICK u : u = UpdatePriority(ss, s, prio)[x]
  OBVIOUS
<1>2. SameHolders(ss[x], u) /\ SameRun(ss[x], u)
  BY <1>1, UpdatePriorityOK
<1>3. u = ss[x] \/ \E top : u = [ss[x] EXCEPT !.priority = top]
  BY <1>1 DEF UpdatePriority
<1>4. SameRemoval(ss[x], u)
  BY <1>3 DEF StepOK, StepRecords, SameRemoval
<1> QED BY <1>1, <1>2, <1>4 DEF Kin, SameHolders, SameRun, SameStatus

\* What add_step does to step x.
Answered(t, u, x, q) ==
    /\ Calm(t, u, {})
    /\ x # q.step \/ ~EndsRun(t, q) => Steady(t, u, {})
    /\ u.status = "RUNNING" => t.status = "RUNNING" \/ (x = q.step /\ q.status = "RUNNING")
    /\ u.status = "DONE" => t.status = "DONE" \/ (x = q.step /\ q.status = "DONE")
    /\ t.status # Absent => u.status # Absent

\* The status that add_step leaves the step in.
LEMMA ReportedPlain ==
    ASSUME NEW ss, \A y \in Steps : StepOK(ss[y]) /\ Plain(ss[y]),
           NEW q \in Calls, PlainCall(q), ss[q.step].status # Absent
    PROVE  LET t == ss[q.step]
               c == Claimed(ss, q)
               u == IF MaySetStatus(c, q) THEN SetOwnStatus(c, q.status) ELSE c
           IN  /\ StepOK(u) /\ Plain(u) /\ u.remove = None /\ SameHolders(t, u)
               /\ u.worker_running = IF StartsRun(t, q) THEN q.worker ELSE t.worker_running
               /\ u.status \in {t.status, q.status, "DISABLED"} /\ u.status # Absent
               /\ t.status = "RUNNING" /\ ~EndsRun(t, q) => u.status = "RUNNING"
<1>1. PICK t : t = ss[q.step]
  OBVIOUS
<1>2. PICK c : c = Claimed(ss, q)
  OBVIOUS
<1>3. PICK u : u = IF MaySetStatus(c, q) THEN SetOwnStatus(c, q.status) ELSE c
  OBVIOUS
<1>4. /\ StepOK(c) /\ Plain(c) /\ c.remove = None /\ SameHolders(t, c)
      /\ c.status = t.status
      /\ c.worker_running = IF StartsRun(t, q) THEN q.worker ELSE t.worker_running
  BY <1>1, <1>2, ClaimedPlain
<1>5. /\ q \in Requests /\ q.worker \in Workers /\ q.step \in Steps
      /\ q.status \in Statuses \ {"BATCH_RUNNING"} /\ c \in StepRecords
  BY <1>4 DEF Calls, Requests, StepOK
<1>6. q.status = "RUNNING" => c.worker_running # None
  BY <1>4, <1>5, ConstantsAssumption DEF ConstantsAssumption, StartsRun
<1>7. CASE MaySetStatus(c, q)
  <2>1. u = SetOwnStatus(c, q.status)
    BY <1>3, <1>7
  <2>2. StepOK(u) /\ SameHolders(c, u) /\ u.status # Absent
    BY <1>1, <1>4, <1>5, <1>6, <2>1, SetOwnStatusOK DEF ActiveStatuses
  <2>3. Changes(c, u, q.status) /\ Plain(u) /\ SameRemoval(c, u)
        /\ (c.status # "DISABLED" /\ q.status \notin {"FAILED", "DISABLED"} =>
                u.status = q.status)
    BY <1>4, <1>5, <2>1, SetOwnStatusType, SetOwnStatusPlain
  <2>4. t.status = "RUNNING" /\ ~EndsRun(t, q) => u.status = "RUNNING"
    <3> SUFFICES ASSUME t.status = "RUNNING", ~EndsRun(t, q) PROVE u.status = "RUNNING"
      OBVIOUS
    <3>1. c.worker_running = t.worker_running
      BY <1>1, <1>4, <1>5 DEF StartsRun, StepOK, ActiveStatuses
    <3>2. q.status = "RUNNING"
      BY <1>4, <1>7, <3>1 DEF MaySetStatus, EndsRun, ActiveStatuses
    <3> QED BY <1>4, <2>3, <3>2
  <2> QED BY <1>1, <1>2, <1>3, <1>4, <2>2, <2>3, <2>4
          DEF SameHolders, SameRemoval, Changes
<1>8. CASE ~MaySetStatus(c, q)
  <2>1. u = c
    BY <1>3, <1>8
  <2> QED BY <1>1, <1>2, <1>3, <1>4, <2>1
<1> QED BY <1>7, <1>8

LEMMA AddStepStepsPlain ==
    ASSUME NEW ss \in [Steps -> StepRecords],
           \A y \in Steps : StepOK(ss[y]) /\ Plain(ss[y]),
           NEW q \in Calls, PlainCall(q), NEW enabled \in BOOLEAN,
           ss[q.step].status # Absent, enabled \/ ss[q.step].status = "RUNNING",
           NEW x \in Steps
    PROVE  Answered(ss[x], AddStepSteps(ss, q, enabled)[x], x, q)
<1>1. q \in Requests /\ q.step \in Steps /\ q.worker \in Workers /\ q.priority \in Nat
  BY DEF Calls, Requests
<1>2. PICK c : c = Claimed(ss, q)
  OBVIOUS
<1>3. PICK r : r = IF MaySetStatus(c, q) THEN SetOwnStatus(c, q.status) ELSE c
  OBVIOUS
<1>4. PICK d : d = Described(r, q, enabled)
  OBVIOUS
<1>5. PICK claimed : claimed = [ss EXCEPT ![q.step] = c]
  OBVIOUS
<1>6. PICK set : set = IF MaySetStatus(claimed[q.step], q)
                       THEN SetStatus(claimed, q.step, q.status) ELSE claimed
  OBVIOUS
<1>7. PICK described : described = [set EXCEPT ![q.step] = Described(set[q.step], q, enabled)]
  OBVIOUS
<1>8. PICK deps : deps = IF enabled /\ ~q.assistant THEN described[q.step].deps ELSE {}
  OBVIOUS
<1>9. PICK held : held = [y \in Steps |-> IF y \in deps THEN Held(described[y], q)
                                                        ELSE described[y]]
  OBVIOUS
<1>10. AddStepSteps(ss, q, enabled) = UpdatePriority(held, q.step, q.priority)
  BY <1>2, <1>5, <1>6, <1>7, <1>8, <1>9 DEF AddStepSteps
<1>11. \A y \in Steps : claimed[y] = IF y = q.step THEN c ELSE ss[y]
  BY <1>1, <1>5
<1>12. /\ StepOK(r) /\ Plain(r) /\ r.remove = None /\ SameHolders(ss[q.step], r)
       /\ r.worker_running = IF StartsRun(ss[q.step], q) THEN q.worker
                                                         ELSE ss[q.step].worker_running
       /\ r.status \in {ss[q.step].status, q.status, "DISABLED"} /\ r.status # Absent
       /\ ss[q.step].status = "RUNNING" /\ ~EndsRun(ss[q.step], q) => r.status = "RUNNING"
  BY <1>2, <1>3, ReportedPlain
<1>13. DOMAIN set = Steps /\ \A y \in Steps : set[y] = IF y = q.step THEN r ELSE ss[y]
  <2>1. \A y \in Steps : Plain(claimed[y])
    <3>1. Plain(c)
      BY <1>2, ClaimedPlain
    <3> QED BY <1>11, <3>1
  <2>2. SetStatus(claimed, q.step, q.status) =
            [y \in Steps |-> IF y = q.step THEN SetOwnStatus(claimed[q.step], q.status)
                                           ELSE claimed[y]]
    BY <1>1, <2>1, SetStatusPlain
  <2>3. claimed[q.step] = c /\ DOMAIN claimed = Steps
    BY <1>1, <1>5
  <2>4. CASE MaySetStatus(c, q)
    BY <1>1, <1>3, <1>6, <1>11, <2>2, <2>3, <2>4
  <2>5. CASE ~MaySetStatus(c, q)
    BY <1>3, <1>6, <1>11, <2>3, <2>5
  <2> QED BY <2>4, <2>5
<1>14. \A y \in Steps : described[y] = IF y = q.step THEN d ELSE ss[y]
  BY <1>1, <1>4, <1>7, <1>13
<1>15. StepOK(d) /\ Kin(r, d) /\ (enabled => q.worker \in d.stakeholders)
  <2>1. StepOK(d)
    BY <1>4, <1>12, DescribedOK
  <2>2. Kin(r, d)
    BY <1>4, <1>12, DescribedPlain
  <2>3. d.stakeholders = IF enabled /\ ~q.assistant
                         THEN r.stakeholders \cup {q.worker} ELSE r.stakeholders
    BY <1>4, <1>12, DescribedOK DEF HeldBy
  <2> QED BY <2>1, <2>2, <2>3 DEF PlainCall
<1>16. \A y \in Steps : StepOK(described[y])
  BY <1>14, <1>15
<1>17. \A y \in Steps : StepOK(held[y])
  <2>1. \A y \in Steps : StepOK(Held(described[y], q))
    BY <1>1, <1>16, HeldOK
  <2> QED BY <1>9, <1>16, <2>1
<1>18. PICK u : u = AddStepSteps(ss, q, enabled)[x]
  OBVIOUS
<1>19. Kin(held[x], u) /\ u.workers = held[x].workers
  BY <1>1, <1>10, <1>17, <1>18, UpdatePriorityPlain
<1>20. held[x] = IF x \in deps THEN Held(described[x], q) ELSE described[x]
  BY <1>9
<1>21. described[x].status # Absent =>
           Kin(described[x], u) /\ u.workers = described[x].workers
  <2>1. x \in deps /\ described[x].status # Absent =>
            Kin(described[x], held[x]) /\ held[x].workers = described[x].workers
    BY <1>1, <1>16, <1>20, HeldPlain
  <2> QED BY <1>19, <1>20, <2>1 DEF Kin, SameRemoval
<1>22. CASE x = q.step
  <2>1. PICK t : t = ss[x]
    OBVIOUS
  <2>2. d.status # Absent /\ described[x] = d
    BY <1>12, <1>14, <1>15, <1>22 DEF Kin
  <2>3. Kin(r, u)
    BY <1>15, <1>21, <2>2 DEF Kin, SameRemoval
  <2>4. d.stakeholders \subseteq u.stakeholders
    BY <1>21, <2>2 DEF Kin
  <2>5. u.worker_running \in {None, t.worker_running} \cup u.stakeholders
    <3>1. CASE StartsRun(t, q)
      <4>1. t.status # "RUNNING"
        BY <2>1, <3>1 DEF StepOK, StartsRun, ActiveStatuses
      <4>2. q.worker \in u.stakeholders
        BY <1>15, <1>22, <2>1, <2>4, <4>1
      <4> QED BY <1>12, <1>22, <2>1, <2>3, <3>1, <4>2 DEF Kin
    <3>2. CASE ~StartsRun(t, q)
      BY <1>12, <1>22, <2>1, <2>3, <3>2 DEF Kin
    <3> QED BY <3>1, <3>2
  <2>6. Plain(u) /\ u.remove = None /\ t.stakeholders \subseteq u.stakeholders
    BY <1>12, <1>22, <2>1, <2>3 DEF Kin, Plain, SameRemoval, SameHolders
  <2>7. Calm(t, u, {})
    BY <2>5, <2>6 DEF Calm, Needed
  <2>8. ~EndsRun(t, q) => Steady(t, u, {})
    <3> SUFFICES ASSUME ~EndsRun(t, q), t.status = "RUNNING"
                 PROVE  u.status = "RUNNING" /\ u.worker_running = t.worker_running
      BY DEF Steady
    <3>1. ~StartsRun(t, q)
      BY <2>1 DEF StartsRun, StepOK, ActiveStatuses
    <3> QED BY <1>12, <1>22, <2>1, <2>3, <3>1 DEF Kin
  <2>9. u.status \in {t.status, q.status, "DISABLED"} /\ u.status # Absent
    BY <1>12, <1>22, <2>1, <2>3 DEF Kin
  <2> QED BY <1>18, <1>22, <2>1, <2>7, <2>8, <2>9 DEF Answered
<1>23. CASE x # q.step
  <2>1. PICK t : t = ss[x]
    OBVIOUS
  <2>2. described[x] = t /\ Plain(t) /\ StepOK(t)
    BY <1>14, <1>23, <2>1
  <2>3. CASE t.status # Absent
    <3>1. Kin(t, u) /\ u.workers = t.workers
      BY <1>21, <2>2, <2>3
    <3>2. Plain(u) /\ (Needed(t) => Needed(u))
      BY <2>2, <3>1 DEF Kin, Plain, Needed, SameRemoval
    <3>3. Calm(t, u, {})
      BY <3>1, <3>2 DEF Calm, Kin, SameRemoval
    <3> QED BY <1>18, <1>23, <2>1, <3>1, <3>3 DEF Answered, Kin, Steady
  <2>4. CASE t.status = Absent
    <3>1. CASE x \in deps
      <4>1. /\ Plain(held[x]) /\ held[x].remove = None /\ held[x].worker_running = None
            /\ held[x].status = "UNKNOWN" /\ t.stakeholders \subseteq held[x].stakeholders
        BY <1>1, <1>20, <2>2, <2>4, <3>1, HeldPlain
      <4>2. /\ Plain(u) /\ u.remove = None /\ u.worker_running = None
            /\ u.status = "UNKNOWN" /\ t.stakeholders \subseteq u.stakeholders
        BY <1>19, <4>1 DEF Kin, Plain, SameRemoval
      <4>3. Calm(t, u, {})
        BY <4>2 DEF Calm, Needed
      <4> QED BY <1>18, <2>1, <2>4, <4>2, <4>3 DEF Answered, Steady, Absent
    <3>2. CASE x \notin deps
      <4>1. Kin(t, u) /\ u.workers = t.workers
        BY <1>19, <1>20, <2>2, <3>2
      <4>2. Plain(u) /\ (Needed(t) => Needed(u))
        BY <2>2, <4>1 DEF Kin, Plain, Needed, SameRemoval
      <4>3. Calm(t, u, {})
        BY <4>1, <4>2 DEF Calm, Kin, SameRemoval
      <4> QED BY <1>18, <2>1, <2>4, <4>1, <4>3 DEF Answered, Kin, Steady, Absent
    <3> QED BY <3>1, <3>2
  <2> QED BY <2>3, <2>4
<1> QED BY <1>22, <1>23

LEMMA AnsweredRefl ==
    ASSUME NEW t, Plain(t), NEW x, NEW q
    PROVE  Answered(t, t, x, q)
BY CalmBySameFields DEF Answered, Steady

\* A step that is created on the way.
LEMMA AnsweredNew ==
    ASSUME NEW t, StepOK(t), t.status = Absent, NEW n, Plain(n), n.remove = None,
           n.worker_running = None, n.status = "PENDING", NEW u, NEW x, NEW q,
           Answered(n, u, x, q)
    PROVE  Answered(t, u, x, q)
<1>1. t.stakeholders = {}
  BY DEF StepOK
<1>2. Needed(n)
  BY DEF Needed
<1>3. Calm(t, u, {})
  BY <1>1, <1>2 DEF Answered, Calm
<1> QED BY <1>3 DEF Answered, Steady, Absent

LEMMA WithDefaultStepPlain ==
    ASSUME NEW ss \in [Steps -> StepRecords], NEW q \in Requests, NEW enabled,
           NEW x \in Steps, WithDefaultStep(ss, q, enabled)[x] # ss[x]
    PROVE  LET n == WithDefaultStep(ss, q, enabled)[x]
           IN  /\ ss[x].status = Absent /\ Plain(n) /\ n.remove = None
               /\ n.worker_running = None /\ n.status = "PENDING"
<1>1. q.step \in Steps
  BY DEF Requests
<1>2. PICK deps : WithDefaultStep(ss, q, enabled) =
                      IF enabled /\ ss[q.step].status = Absent
                      THEN [ss EXCEPT ![q.step] =
                               NewStep("PENDING", deps, q.resources, q.priority)]
                      ELSE ss
  BY Zenon DEF WithDefaultStep
<1>3. /\ ss[x].status = Absent
      /\ WithDefaultStep(ss, q, enabled)[x] = NewStep("PENDING", deps, q.resources, q.priority)
  BY <1>1, <1>2
<1> QED BY <1>3 DEF NewStep, Plain

\* UpdateWorker makes the worker fresh and leaves the others alone.
LEMMA UpdateWorkerFresh ==
    ASSUME NEW ss, NEW ws, TableOK(ss, ws), NEW w \in Workers, NEW get_work \in BOOLEAN,
           NEW u, u = UpdateWorker(ws, w, get_work)
    PROVE  /\ u \in [Workers -> WorkerRecords]
           /\ u[w].last_active = 0
           /\ \A v \in Workers \ {w} : u[v] = ws[v]
<1>1. PICK g : g = GetWorker(ws, w)
  OBVIOUS
<1>2. g \in WorkerRecords /\ ws \in [Workers -> WorkerRecords]
  BY <1>1, GetWorkerOK DEF TableOK
<1>3. PICK last : u = [ws EXCEPT ![w] = [g EXCEPT !.last_active = 0, !.last_get_work = last]]
  BY <1>1 DEF UpdateWorker
<1>4. [g EXCEPT !.last_active = 0, !.last_get_work = last].last_active = 0
  BY <1>2 DEF WorkerRecords
<1>5. u \in [Workers -> WorkerRecords]
  BY UpdateWorkerOK DEF WorkersKept
<1> QED BY <1>2, <1>3, <1>4, <1>5

\* add_step, called by a worker about a step outside a batch.
LEMMA AddStepPlain ==
    ASSUME IInv, AllPlain, NEW q \in Calls, PlainCall(q), AddStep(q)
    PROVE  (\A x \in Steps : Answered(steps[x], steps'[x], x, q)) /\ Fresher
<1> DEFINE ws == UpdateWorker(workers, q.worker, FALSE)
           enabled == ~ws[q.worker].disabled
           ss == WithDefaultStep(steps, q, enabled)
           ignored == IgnoresRequest(ss[q.step], q, enabled)
           stored == ~ignored /\ ~AddStepFails(q)
<1>1. q \in Requests /\ q.worker \in Workers /\ q.step \in Steps
  BY DEF Calls, Requests
<1>2. TableOK(steps, workers)
  BY DEF IInv
<1>3. enabled \in BOOLEAN
  OBVIOUS
<1>4. ~AddStepFails(q)
  BY PlainCallAnswered
<1>5. /\ steps' = CASE ignored -> ss
                    [] stored -> AddStepSteps(ss, q, enabled)
                    [] OTHER -> [ss EXCEPT ![q.step] = Attributed(ss[q.step], q)]
      /\ workers' = IF stored /\ Registers(q, enabled)
                    THEN [ws EXCEPT ![q.worker].steps =
                             ws[q.worker].steps \cup {q.step}]
                    ELSE ws
  BY DEF AddStep
<1> HIDE DEF ws, enabled
<1>6. /\ ss \in [Steps -> StepRecords] /\ steps \in [Steps -> StepRecords]
      /\ \A x \in Steps : StepOK(ss[x]) /\ StepOK(steps[x])
  BY <1>1, <1>2, <1>3, WithDefaultStepOK DEF TableOK
<1>7. \A x \in Steps : ss[x] # steps[x] =>
          /\ steps[x].status = Absent /\ Plain(ss[x]) /\ ss[x].remove = None
          /\ ss[x].worker_running = None /\ ss[x].status = "PENDING"
  BY <1>1, <1>6, WithDefaultStepPlain
<1>8. \A x \in Steps : Plain(ss[x])
  BY <1>7 DEF AllPlain
<1> HIDE DEF ss
<1>9. steps' = IF ignored THEN ss ELSE AddStepSteps(ss, q, enabled)
  BY <1>4, <1>5
<1>11. \A x \in Steps : Answered(ss[x], steps'[x], x, q)
  <2>1. CASE ignored
    BY <1>8, <1>9, <2>1, AnsweredRefl
  <2>2. CASE ~ignored
    <3>1. ss[q.step].status # Absent /\ (enabled \/ ss[q.step].status = "RUNNING")
      BY <2>2 DEF IgnoresRequest
    <3> HIDE DEF ignored
    <3> QED BY <1>3, <1>6, <1>8, <1>9, <2>2, <3>1, AddStepStepsPlain
  <2> QED BY <2>1, <2>2
<1>12. \A x \in Steps : Answered(steps[x], steps'[x], x, q)
  BY <1>6, <1>7, <1>11, AnsweredNew
<1>13. /\ ws \in [Workers -> WorkerRecords] /\ ws[q.worker].last_active = 0
       /\ \A v \in Workers \ {q.worker} : ws[v] = workers[v]
  <2>1. PICK w \in Workers : w = q.worker
    BY <1>1
  <2>2. PICK get_work \in BOOLEAN : get_work = FALSE
    OBVIOUS
  <2>3. PICK u : u = UpdateWorker(workers, w, get_work)
    OBVIOUS
  <2>4. u[w].last_active = 0
    BY <1>2, <2>3, UpdateWorkerFresh
  <2>5. u \in [Workers -> WorkerRecords] /\ \A v \in Workers \ {w} : u[v] = workers[v]
    BY <1>2, <2>3, UpdateWorkerFresh
  <2> QED BY <2>1, <2>2, <2>3, <2>4, <2>5 DEF ws
<1>14. PICK rec : rec = ws[q.worker]
  OBVIOUS
<1>15. rec \in WorkerRecords
  BY <1>1, <1>13, <1>14
<1>16. [rec EXCEPT !.steps = rec.steps \cup {q.step}].last_active = rec.last_active
  BY <1>15 DEF WorkerRecords
<1>17. /\ workers'[q.worker].last_active = 0
       /\ \A v \in Workers \ {q.worker} : workers'[v] = workers[v]
  <2>1. CASE workers' = ws
    BY <1>13, <2>1
  <2>2. CASE workers' = [ws EXCEPT ![q.worker].steps = ws[q.worker].steps \cup {q.step}]
    <3>1. workers'[q.worker] = [rec EXCEPT !.steps = rec.steps \cup {q.step}]
      BY <1>1, <1>13, <1>14, <2>2
    <3>2. \A v \in Workers \ {q.worker} : workers'[v] = ws[v]
      BY <1>13, <2>2
    <3> QED BY <1>13, <1>14, <1>16, <3>1, <3>2
  <2> QED BY <1>5, <2>1, <2>2
<1> QED BY <1>12, <1>17 DEF Fresher

-----------------------------------------------------------------------------
(* The queue of get_work.  _rank ends with the time a step was added, so no two *)
(* steps have the same place in it.                                             *)

\* A strict total order of P.
Sorts(ord, P) ==
    /\ ord \subseteq P \X P
    /\ \A s \in P : <<s, s>> \notin ord
    /\ \A s, t \in P : s # t => <<s, t>> \in ord \/ <<t, s>> \in ord
    /\ \A s, t, u \in P : <<s, t>> \in ord /\ <<t, u>> \in ord => <<s, u>> \in ord

\* `older' sorts the steps in _steps.
Ordered == Sorts(older, Present(steps))

LEMMA OutranksOrders ==
    ASSUME IInv, Ordered
    PROVE  LET P == Present(steps)
           IN  /\ \A s \in P : ~Outranks(steps, s, s)
               /\ \A s, t \in P : s # t => Outranks(steps, s, t) \/ Outranks(steps, t, s)
               /\ \A s, t, u \in P : Outranks(steps, s, t) /\ Outranks(steps, t, u)
                                         => Outranks(steps, s, u)
<1>1. \A s \in Present(steps) : steps[s].priority \in Nat
  BY DEF IInv, TableOK, StepRecords, Present
<1> QED BY <1>1 DEF Ordered, Sorts, Outranks

\* No two steps have the same number of steps before them.
LEMMA NthIsOne ==
    ASSUME IInv, Ordered, IsFiniteSet(Steps), NEW queue \in SUBSET Present(steps), NEW i,
           NEW a \in NthInQueue(steps, queue, i), NEW b \in NthInQueue(steps, queue, i)
    PROVE  a = b
<1> DEFINE above(s) == {t \in queue : Outranks(steps, t, s)}
<1>1. ASSUME NEW s \in queue, NEW t \in queue, Outranks(steps, s, t),
             Cardinality(above(s)) = Cardinality(above(t))
      PROVE  FALSE
  <2>1. above(s) \subseteq above(t)
    BY <1>1, OutranksOrders
  <2>2. s \in above(t) /\ s \notin above(s)
    BY <1>1, OutranksOrders
  <2>3. IsFiniteSet(above(t))
    <3>1. above(t) \in SUBSET Steps
      BY DEF Present
    <3> QED BY <3>1, FS_Subset
  <2> HIDE DEF above
  <2> QED BY <1>1, <2>1, <2>2, <2>3, FS_Subset
<1>2. /\ a \in queue /\ b \in queue
      /\ Cardinality(above(a)) = i - 1 /\ Cardinality(above(b)) = i - 1
  BY DEF NthInQueue
<1> HIDE DEF above
<1> QED BY <1>1, <1>2, OutranksOrders

LEMMA MinIsIn ==
    ASSUME NEW S \in SUBSET Nat, S # {}
    PROVE  Min(S) \in S
<1>1. PICK x \in S : \A y \in S : ~(<<y, x>> \in OpToRel(<, Nat))
  BY NatLessThanWellFounded, WFMin
<1>2. OpToRel(<, Nat) = {p \in Nat \X Nat : p[1] < p[2]}
  BY Zenon DEF OpToRel
<1>3. ASSUME NEW y \in S PROVE x <= y
  <2>1. x \in Nat /\ y \in Nat /\ <<y, x>> \in Nat \X Nat
    OBVIOUS
  <2>2. <<y, x>> \notin {p \in Nat \X Nat : p[1] < p[2]}
    BY <1>1, <1>2, Zenon
  <2>3. ~(y < x)
    BY <2>1, <2>2
  <2> QED BY <2>1, <2>3
<1> QED BY <1>3 DEF Min

\* What get_work finds further down in the queue is a step w can perform, or nothing.
LEMMA BestStepPlain ==
    ASSUME IInv, Ordered, IsFiniteSet(Steps), NEW ws, NEW w, NEW pick,
           NEW assistant \in BOOLEAN, ~assistant,
           NEW best \in BestStep(steps, ws, w, assistant, pick)
    PROVE  /\ best \in Steps /\ steps[best].status = "PENDING" /\ w \in steps[best].workers
           /\ BestStep(steps, ws, w, assistant, pick) = {best}
<1>1. PICK queue \in Queues(steps, ws, w) : \E taken \in SUBSET (1..Cardinality(queue)) :
              /\ \A i \in taken :
                    Takeable(steps, Place(steps, queue, i), w, assistant)
              /\ BestStep(steps, ws, w, assistant, pick) =
                     IF taken = {} THEN {} ELSE NthInQueue(steps, queue, Min(taken))
  BY BestStepShape
<1>2. PICK taken \in SUBSET (1..Cardinality(queue)) :
              /\ \A i \in taken :
                    Takeable(steps, Place(steps, queue, i), w, assistant)
              /\ BestStep(steps, ws, w, assistant, pick) =
                     IF taken = {} THEN {} ELSE NthInQueue(steps, queue, Min(taken))
  BY <1>1
<1>3. taken # {} /\ best \in NthInQueue(steps, queue, Min(taken))
  BY <1>2
<1>4. Min(taken) \in taken
  BY <1>3, MinIsIn
<1>5. queue \in SUBSET Present(steps) /\ queue \subseteq Steps
  BY QueueType DEF WithStatus, Present, Absent
<1>6. \A a \in NthInQueue(steps, queue, Min(taken)) : a = best
  BY <1>3, <1>5, NthIsOne
<1>7. Place(steps, queue, Min(taken)) = best
  BY <1>3, <1>6 DEF Place
<1>8. Takeable(steps, best, w, assistant)
  BY <1>2, <1>4, <1>7
<1>9. best \in Steps
  BY <1>3, <1>5 DEF NthInQueue
<1>10. BestStep(steps, ws, w, assistant, pick) = {best}
  BY <1>2, <1>3, <1>6
<1> QED BY <1>8, <1>9, <1>10 DEF Takeable, Schedulable

-----------------------------------------------------------------------------
(* get_work, called by a worker that is no assistant, when nothing is batchable. *)

\* A step get_work may hand out to w: it runs on w, which does not know of it, or
\* is PENDING and w can perform it.
MayGive(s, w, current_steps) ==
    \/ steps[s].status = "RUNNING" /\ steps[s].worker_running = w /\ s \notin current_steps
    \/ steps[s].status = "PENDING" /\ w \in steps[s].workers

LEMMA ResetsNothing ==
    ASSUME IInv, AllPlain, NEW w
    PROVE  ResetOrphanedSteps(steps, w) = steps
<1>1. OrphanedSteps(steps, w) = {}
  BY DEF OrphanedSteps, WithStatus, AllPlain, Plain
<1>2. steps \in [Steps -> StepRecords]
  BY DEF IInv, TableOK
<1> QED BY <1>1, <1>2 DEF ResetOrphanedSteps

\* At most one step is handed out.
LEMMA WorkPlain ==
    ASSUME IInv, AllPlain, Ordered, IsFiniteSet(Steps), NEW ws, NEW w, NEW current_steps,
           NEW pick, NEW assistant \in BOOLEAN, ~assistant,
           NEW work, work = Work(steps, ws, w, assistant, current_steps, pick)
    PROVE  work = {} \/ \E s \in Steps : work = {s} /\ MayGive(s, w, current_steps)
<1> DEFINE unclaimed == UnclaimedSteps(steps, w, current_steps)
           best == IF paused THEN {} ELSE BestStep(steps, ws, w, assistant, pick)
<1>1. CASE unclaimed # {}
  <2>1. work = {s \in unclaimed : \A t \in unclaimed \ {s} : Outranks(steps, s, t)}
    BY <1>1, Zenon DEF Work
  <2>2. unclaimed \subseteq Present(steps) /\ unclaimed \subseteq Steps
        /\ \A s \in unclaimed : MayGive(s, w, current_steps)
    BY DEF UnclaimedSteps, WithStatus, Present, Absent, MayGive
  <2> HIDE DEF unclaimed
  <2>3. \A s, t \in work : s = t
    <3> SUFFICES ASSUME NEW s \in work, NEW t \in work, s # t PROVE FALSE
      OBVIOUS
    <3>1. Outranks(steps, s, t) /\ Outranks(steps, t, s)
      BY <2>1
    <3> QED BY <2>1, <2>2, <3>1, OutranksOrders
  <2> QED BY <2>1, <2>2, <2>3
<1>2. CASE unclaimed = {}
  <2>1. work = UNION {BatchWith(steps, ws, w, s) : s \in best}
    BY <1>2, Zenon DEF Work
  <2>2. CASE best = {}
    BY <2>1, <2>2
  <2>3. CASE best # {}
    <3>1. PICK b : b \in BestStep(steps, ws, w, assistant, pick)
      BY <2>3
    <3>2. /\ b \in Steps /\ steps[b].status = "PENDING" /\ w \in steps[b].workers
          /\ BestStep(steps, ws, w, assistant, pick) = {b}
      BY <3>1, BestStepPlain
    <3>3. best = {b}
      BY <2>3, <3>2
    <3>4. BatchWith(steps, ws, w, b) = {b}
      <4>1. steps[b].batchable = FALSE
        BY <3>2 DEF AllPlain, Plain
      <4> QED BY <4>1 DEF BatchWith
    <3>5. work = {b}
      BY <2>1, <3>3, <3>4
    <3> QED BY <3>2, <3>5 DEF MayGive
  <2> QED BY <2>2, <2>3
<1> QED BY <1>1, <1>2

LEMMA HandOutsPlain ==
    ASSUME IInv, AllPlain, Ordered, IsFiniteSet(Steps), NEW w, NEW current_steps,
           NEW assistant \in BOOLEAN, ~assistant,
           NEW work \in HandOuts(w, assistant, current_steps)
    PROVE  work = {} \/ \E s \in Steps : work = {s} /\ MayGive(s, w, current_steps)
<1>1. CASE work = {}
  BY <1>1
<1>2. CASE work # {}
  <2>1. HandedOut(work, w, assistant, current_steps)
    BY <1>2, HandOutsShape
  <2>2. PICK ws, pick : work = Work(ResetOrphanedSteps(steps, w), ws, w, assistant,
                                    current_steps, pick)
    BY <2>1 DEF HandedOut
  <2> QED BY <2>2, ResetsNothing, WorkPlain
<1> QED BY <1>1, <1>2

\* What becomes of a step that is handed out.
LEMMA SetRunningPlain ==
    ASSUME NEW t, StepOK(t), Plain(t), NEW w \in Workers,
           \/ t.status = "RUNNING" /\ t.worker_running = w
           \/ t.status = "PENDING" /\ w \in t.workers
    PROVE  LET u == SetRunning(t, w)
           IN  /\ Calm(t, u, {}) /\ Steady(t, u, {})
               /\ u.status = "RUNNING" /\ u.worker_running = w
<1>1. PICK v : v = SetOwnStatus(t, "RUNNING")
  OBVIOUS
<1>2. PICK u : u = SetRunning(t, w)
  OBVIOUS
<1>3. Plain(v) /\ SameRemoval(t, v) /\ v.status = "RUNNING"
  BY <1>1, SetOwnStatusPlain DEF StepOK, Statuses
<1>4. v \in StepRecords
  BY <1>1, SetOwnStatusType DEF StepOK, Statuses
<1>5. u = [v EXCEPT !.worker_running = w, !.resources_running = t.resources]
  BY <1>1, <1>2 DEF SetRunning
<1>6. /\ u.status = "RUNNING" /\ u.worker_running = w /\ u.batch_id = v.batch_id
      /\ u.batchable = v.batchable /\ u.remove = v.remove
  BY <1>3, <1>4, <1>5 DEF StepRecords
<1>7. Plain(u) /\ SameRemoval(t, u)
  BY <1>3, <1>6 DEF Plain, SameRemoval
<1>8. SameHolders(t, u)
  BY <1>2, SetRunningOK
<1>9. w \in {t.worker_running} \cup u.stakeholders
  BY <1>8 DEF SameHolders, StepOK
<1>10. Needed(t) => Needed(u)
  BY <1>7 DEF Needed, SameRemoval
<1>11. Calm(t, u, {})
  BY <1>6, <1>7, <1>8, <1>9, <1>10 DEF Calm, SameHolders, SameRemoval
<1>12. Steady(t, u, {})
  BY <1>6 DEF Steady
<1> QED BY <1>2, <1>6, <1>11, <1>12

\* What get_work does: the step it hands out is RUNNING on w, and nothing else happens.
Gives(w, current_steps, work) ==
    /\ AllCalm({}) /\ AllSteady({}) /\ SamePresent /\ Fresher
    /\ \/ work = {} /\ steps' = steps
       \/ \E s \in Steps :
             /\ work = {s} /\ MayGive(s, w, current_steps)
             /\ steps'[s].status = "RUNNING" /\ steps'[s].worker_running = w
             /\ \A x \in Steps \ {s} : steps'[x] = steps[x]

\* The index of workers after get_worker(step.worker_running).
LEMMA CountedWorkersFresh ==
    ASSUME NEW ss, NEW ws \in [Workers -> WorkerRecords], NEW w, NEW v \in Workers
    PROVE  LET c == CountedWorkers(ss, ws, w)[v]
           IN  c.last_active = 0 \/ c = ws[v]
<1>1. CountedWorkers(ss, ws, w)[v] \in {GetWorker(ws, v), ws[v]}
  BY DEF CountedWorkers
<1>2. GetWorker(ws, v).last_active = 0 \/ GetWorker(ws, v) = ws[v]
  BY DEF GetWorker, NewWorker
<1> QED BY <1>1, <1>2

LEMMA UnchangedSteps ==
    ASSUME AllPlain, steps' = steps
    PROVE  AllCalm({}) /\ AllSteady({}) /\ AllQuiet /\ SamePresent
<1>1. \A s \in Steps : Calm(steps[s], steps[s], {})
  BY CalmBySameFields DEF AllPlain
<1>2. \A s \in Steps : Steady(steps[s], steps[s], {}) /\ NoNews(steps[s], steps[s])
  BY SameFieldsSteady
<1> QED BY <1>1, <1>2 DEF AllCalm, AllSteady, AllQuiet, SamePresent

LEMMA GetWorkPlain ==
    ASSUME IInv, AllPlain, Ordered, IsFiniteSet(Steps), NEW w \in Workers,
           NEW current_steps, NEW assistant \in BOOLEAN, ~assistant, NEW work,
           GetWork(w, assistant, current_steps, work)
    PROVE  Gives(w, current_steps, work)
<1>1. PICK get_work \in BOOLEAN : get_work = TRUE
  OBVIOUS
<1>2. PICK touched : touched = UpdateWorker(workers, w, get_work)
  OBVIOUS
<1>3. /\ touched \in [Workers -> WorkerRecords] /\ touched[w].last_active = 0
      /\ \A v \in Workers \ {w} : touched[v] = workers[v]
  <2>1. TableOK(steps, workers)
    BY DEF IInv
  <2> QED BY <1>2, <2>1, UpdateWorkerFresh
<1>4. PICK flag \in BOOLEAN : flag = (touched[w].assistant \/ assistant)
  OBVIOUS
<1>5. PICK ws : ws = [touched EXCEPT ![w] = [touched[w] EXCEPT !.assistant = flag]]
  OBVIOUS
<1>6. /\ ws \in [Workers -> WorkerRecords] /\ ws[w].last_active = 0
      /\ \A v \in Workers \ {w} : ws[v] = workers[v]
  <2>1. PICK rec : rec = touched[w]
    OBVIOUS
  <2>2. PICK new : new = [rec EXCEPT !.assistant = flag]
    OBVIOUS
  <2>3. new \in WorkerRecords /\ new.last_active = rec.last_active
    BY <1>3, <2>1, <2>2 DEF WorkerRecords
  <2> QED BY <1>3, <1>5, <2>1, <2>2, <2>3
<1>7. PICK ss : ss = ResetOrphanedSteps(steps, w)
  OBVIOUS
<1>8. ss = steps
  BY <1>7, ResetsNothing
<1>9. /\ work \in HandOuts(w, assistant, current_steps)
      /\ IF touched[w].disabled
         THEN workers' = touched /\ steps' = steps
         ELSE steps' = HandOut(ss, w, work) /\ workers' = CountedWorkers(ss, ws, w)
  BY <1>1, <1>2, <1>4, <1>5, <1>7 DEF GetWork
<1>10. Fresher
  <2>1. CASE touched[w].disabled
    BY <1>3, <1>9, <2>1 DEF Fresher
  <2>2. CASE ~touched[w].disabled
    <3>1. \A v \in Workers : workers'[v].last_active = 0 \/ workers'[v] = ws[v]
      BY <1>6, <1>9, <2>2, CountedWorkersFresh
    <3> QED BY <1>6, <3>1 DEF Fresher
  <2> QED BY <2>1, <2>2
<1>11. work = {} \/ \E s \in Steps : work = {s} /\ MayGive(s, w, current_steps)
  BY <1>9, HandOutsPlain
<1>12. steps \in [Steps -> StepRecords] /\ \A s \in Steps : StepOK(steps[s])
  BY DEF IInv, TableOK
<1>13. CASE touched[w].disabled
  <2>1. work = {}
    BY <1>1, <1>2, <1>9, <1>13 DEF HandOuts
  <2> QED BY <1>9, <1>10, <1>13, <2>1, UnchangedSteps DEF Gives
<1>14. CASE ~touched[w].disabled /\ work = {}
  <2>1. steps' = steps
    BY <1>8, <1>9, <1>12, <1>14 DEF HandOut
  <2> QED BY <1>10, <1>14, <2>1, UnchangedSteps DEF Gives
<1>15. CASE ~touched[w].disabled /\ work # {}
  <2>1. PICK s \in Steps : work = {s} /\ MayGive(s, w, current_steps)
    BY <1>11, <1>15
  <2>2. Cardinality(work) = 1
    BY <2>1, FS_Singleton
  <2>3. \A x \in Steps : steps'[x] = IF x = s THEN SetRunning(steps[s], w) ELSE steps[x]
    BY <1>8, <1>9, <1>15, <2>1, <2>2 DEF HandOut
  <2>4. PICK u : u = SetRunning(steps[s], w)
    OBVIOUS
  <2>5. /\ Calm(steps[s], u, {}) /\ Steady(steps[s], u, {})
        /\ u.status = "RUNNING" /\ u.worker_running = w
    BY <1>12, <2>1, <2>4, SetRunningPlain DEF AllPlain, MayGive
  <2>6. steps[s].status # Absent
    BY <2>1 DEF MayGive, Absent
  <2>7. \A x \in Steps : Calm(steps[x], steps[x], {}) /\ Steady(steps[x], steps[x], {})
    BY CalmBySameFields, SameFieldsSteady DEF AllPlain
  <2>8. AllCalm({}) /\ AllSteady({})
    BY <2>3, <2>4, <2>5, <2>7 DEF AllCalm, AllSteady
  <2>9. SamePresent
    BY <2>3, <2>4, <2>5, <2>6 DEF SamePresent, Absent
  <2>10. /\ steps'[s].status = "RUNNING" /\ steps'[s].worker_running = w
         /\ \A x \in Steps \ {s} : steps'[x] = steps[x]
    BY <2>3, <2>4, <2>5
  <2> QED BY <1>10, <2>1, <2>8, <2>9, <2>10 DEF Gives
<1> QED BY <1>13, <1>14, <1>15

\* count_pending, ping and add_worker.
LEMMA CountPendingPlain ==
    ASSUME IInv, NEW w \in Workers, CountPending(w)
    PROVE  Fresher
<1>1. PICK ws : ws = [workers EXCEPT ![w] = GetWorker(workers, w)]
  OBVIOUS
<1>2. workers \in [Workers -> WorkerRecords] /\ GetWorker(workers, w) \in WorkerRecords
  <2>1. TableOK(steps, workers)
    BY DEF IInv
  <2>2. GetWorker(workers, w) \in WorkerRecords
    BY <2>1, GetWorkerOK
  <2> QED BY <2>1, <2>2 DEF TableOK
<1>3. ws \in [Workers -> WorkerRecords]
  BY <1>1, <1>2
<1>4. workers' = CountedWorkers(steps, ws, w)
  BY <1>1 DEF CountPending
<1>5. \A v \in Workers : workers'[v].last_active = 0 \/ workers'[v] = ws[v]
  BY <1>3, <1>4, CountedWorkersFresh
<1>6. \A v \in Workers : ws[v].last_active = 0 \/ ws[v] = workers[v]
  BY <1>1, <1>2 DEF GetWorker, NewWorker
<1> QED BY <1>5, <1>6 DEF Fresher

LEMMA PingPlain ==
    ASSUME IInv, NEW w \in Workers, Ping(w)
    PROVE  Fresher
<1>1. PICK get_work \in BOOLEAN : get_work = FALSE
  OBVIOUS
<1>2. workers' = UpdateWorker(workers, w, get_work) /\ TableOK(steps, workers)
  BY <1>1 DEF Ping, IInv
<1>3. workers'[w].last_active = 0 /\ \A v \in Workers \ {w} : workers'[v] = workers[v]
  BY <1>2, UpdateWorkerFresh
<1> QED BY <1>3 DEF Fresher

LEMMA AddWorkerPlain ==
    ASSUME IInv, NEW w \in Workers, NEW n, AddWorker(w, n)
    PROVE  Fresher
<1>1. PICK g : g = GetWorker(workers, w)
  OBVIOUS
<1>2. workers \in [Workers -> WorkerRecords] /\ g \in WorkerRecords
  <2>1. TableOK(steps, workers)
    BY DEF IInv
  <2>2. g \in WorkerRecords
    BY <1>1, <2>1, GetWorkerOK
  <2> QED BY <2>1, <2>2 DEF TableOK
<1>3. workers' = [workers EXCEPT ![w] = [g EXCEPT !.processes = n]]
  BY <1>1 DEF AddWorker
<1>4. [g EXCEPT !.processes = n].last_active = g.last_active
  BY <1>2 DEF WorkerRecords
<1>5. g.last_active = 0 \/ (workers[w].active /\ g = workers[w])
  BY <1>1 DEF GetWorker, NewWorker
<1> QED BY <1>2, <1>3, <1>4, <1>5 DEF Fresher

-----------------------------------------------------------------------------
(* The order of _steps. *)

LEMMA SortsRestricted ==
    ASSUME NEW ord, NEW P, Sorts(ord, P), NEW Q \in SUBSET P
    PROVE  Sorts(ord \cap (Q \X Q), Q)
BY DEF Sorts

\* ord2 is ord with `new' behind `old', sorted by rank.
Extends(ord2, ord, old, new, rank) ==
    /\ ord2 \subseteq (old \cup new) \X (old \cup new)
    /\ \A s, t : <<s, t>> \in ord2 <=> \/ <<s, t>> \in ord
                                       \/ s \in old /\ t \in new
                                       \/ s \in new /\ t \in new /\ rank[s] < rank[t]

LEMMA SortsExtended ==
    ASSUME NEW ord, NEW old, Sorts(ord, old), NEW new, old \cap new = {},
           NEW rank \in [new -> Nat], \A s, t \in new : rank[s] = rank[t] => s = t,
           NEW ord2, Extends(ord2, ord, old, new, rank)
    PROVE  Sorts(ord2, old \cup new)
<1>1. \A s, t : <<s, t>> \in ord2 <=>
          \/ <<s, t>> \in ord
          \/ s \in old /\ t \in new
          \/ s \in new /\ t \in new /\ rank[s] < rank[t]
  BY Zenon DEF Extends
<1>2. \A s \in new : rank[s] \in Nat
  OBVIOUS
<1>3. \A s, t : <<s, t>> \in ord => s \in old /\ t \in old
  BY DEF Sorts
<1>4. ord2 \subseteq (old \cup new) \X (old \cup new)
  BY DEF Extends
<1>5. ASSUME NEW s \in old \cup new PROVE <<s, s>> \notin ord2
  BY <1>1, <1>2, <1>3 DEF Sorts
<1>6. ASSUME NEW s \in old \cup new, NEW t \in old \cup new, s # t
      PROVE  <<s, t>> \in ord2 \/ <<t, s>> \in ord2
  <2>1. CASE s \in old /\ t \in old
    BY <1>1, <1>6, <2>1 DEF Sorts
  <2>2. CASE s \in new /\ t \in new
    <3>1. rank[s] # rank[t]
      BY <1>6, <2>2
    <3> QED BY <1>1, <1>2, <2>2, <3>1
  <2> QED BY <1>1, <2>1, <2>2
<1>7. ASSUME NEW s \in old \cup new, NEW t \in old \cup new, NEW u \in old \cup new,
             <<s, t>> \in ord2, <<t, u>> \in ord2
      PROVE  <<s, u>> \in ord2
  <2>1. CASE u \in old
    <3>1. <<t, u>> \in ord /\ t \in old
      BY <1>1, <1>3, <1>7, <2>1
    <3>2. <<s, t>> \in ord /\ s \in old
      BY <1>1, <1>3, <1>7, <3>1
    <3> QED BY <1>1, <2>1, <3>1, <3>2 DEF Sorts
  <2>2. CASE u \in new /\ s \in old
    BY <1>1, <2>2
  <2>3. CASE u \in new /\ s \in new
    <3>1. t \in new /\ rank[s] < rank[t]
      BY <1>1, <1>3, <1>7, <2>3
    <3>2. rank[t] < rank[u]
      BY <1>1, <1>3, <1>7, <2>3, <3>1
    <3>3. rank[s] < rank[u]
      BY <1>2, <2>3, <3>1, <3>2
    <3> QED BY <1>1, <2>3, <3>3
  <2> QED BY <2>1, <2>2, <2>3
<1> QED BY <1>4, <1>5, <1>6, <1>7 DEF Sorts

LEMMA SameOrdered ==
    ASSUME Ordered, SamePresent, older' = older
    PROVE  Ordered'
<1>1. Present(steps') = Present(steps)
  BY DEF Present, SamePresent
<1> QED BY <1>1 DEF Ordered

LEMMA PruneOrdered ==
    ASSUME IInv, Ordered, Prune
    PROVE  Ordered'
<1>1. PICK gone, assistants :
          /\ steps' = PruneSteps(RemoveWorkersFromSteps(steps, gone, TRUE), older, assistants)
          /\ older' = older \cap (Present(steps') \X Present(steps'))
  BY Zenon DEF Prune
<1>2. PICK ss : ss = RemoveWorkersFromSteps(steps, gone, TRUE)
  OBVIOUS
<1>3. \A s \in Steps : ss[s].status = steps[s].status
  <2>1. \A s \in Steps : \E wks, stk :
            ss[s] = [steps[s] EXCEPT !.workers = wks, !.stakeholders = stk]
    BY <1>2 DEF RemoveWorkersFromSteps
  <2>2. \A s \in Steps : steps[s] \in StepRecords
    BY DEF IInv, TableOK
  <2> QED BY <2>1, <2>2 DEF StepRecords
<1>4. \A s \in Steps : ss[s].status = Absent => steps'[s] = NoStep
  BY <1>1, <1>2 DEF PruneSteps, PrunedStep
<1>5. NoStep.status = Absent
  BY DEF NoStep, NewStep
<1>6. Present(steps') \in SUBSET Present(steps)
  BY <1>3, <1>4, <1>5 DEF Present
<1> QED BY <1>1, <1>6, SortsRestricted DEF Ordered

LEMMA AddStepOrdered ==
    ASSUME Ordered, IsFiniteSet(Steps), NEW q, AddStep(q),
           \A s \in Steps : steps[s].status # Absent => steps'[s].status # Absent
    PROVE  Ordered'
<1>1. PICK old : old = Present(steps)
  OBVIOUS
<1>2. PICK new : new = Present(steps') \ Present(steps)
  OBVIOUS
<1>3. Present(steps') = old \cup new /\ old \cap new = {} /\ new \in SUBSET Steps
  BY <1>1, <1>2 DEF Present
<1>4. older' \in Enrolled(older, old, new, q.step)
  BY <1>1, <1>2 DEF AddStep
<1>5. PICK rank \in Bijection(new, 1..Cardinality(new)) :
          older' = older \cup (old \X new) \cup {p \in new \X new : rank[p[1]] < rank[p[2]]}
  BY <1>4 DEF Enrolled
<1>6. Cardinality(new) \in Nat
  BY <1>3, FS_Subset, FS_CardinalityType
<1>7. /\ rank \in [new -> 1..Cardinality(new)]
      /\ \A s, t \in new : rank[s] = rank[t] => s = t
  BY DEF Bijection, Injection, IsInjective
<1>8. rank \in [new -> Nat]
  BY <1>6, <1>7
<1>9. Sorts(older, old)
  BY <1>1 DEF Ordered
<1>10. Sorts(older', old \cup new)
  <2>1. PICK ord2 : ord2 = older'
    OBVIOUS
  <2>2. ord2 \subseteq (old \cup new) \X (old \cup new)
    BY <1>5, <1>9, <2>1 DEF Sorts
  <2>3. PICK ranked : ranked = {p \in new \X new : rank[p[1]] < rank[p[2]]}
    OBVIOUS
  <2>4. \A s, t : <<s, t>> \in ranked <=> s \in new /\ t \in new /\ rank[s] < rank[t]
    BY <2>3
  <2>5. \A s, t : <<s, t>> \in old \X new <=> s \in old /\ t \in new
    OBVIOUS
  <2>6. ord2 = older \cup (old \X new) \cup ranked
    BY <1>5, <2>1, <2>3
  <2>7. Extends(ord2, older, old, new, rank)
    BY <2>2, <2>4, <2>5, <2>6, Zenon DEF Extends
  <2> QED BY <1>3, <1>7, <1>8, <1>9, <2>1, <2>7, SortsExtended
<1> QED BY <1>3, <1>10 DEF Ordered

-----------------------------------------------------------------------------
(* What a live worker executes is kept. *)

\* Live workers ping in time, none is an assistant, and no step is batchable.
PlainSetting ==
    /\ "silence" \notin Behaviours
    /\ AssistantWorkers = {}
    /\ \A s \in Steps : ~IsBatchable(s)
    /\ IsFiniteSet(Steps)

\* No batch is received, and what is to be reported is about a run that ended.
PlainCalls ==
    \A w \in Workers :
        /\ starting[w] = {}
        /\ calling[w] # None => /\ PlainCall(calling[w]) /\ calling[w].worker = w
                                /\ calling[w].status # "RUNNING"

\* No live worker has timed out.
Heard ==
    \A w \in Workers : Alive(w) /\ workers[w].active =>
                           workers[w].last_active <= DisconnectDelay

\* A live worker that runs a step according to the scheduler holds it.
RunnersHold ==
    \A s \in Steps, w \in Workers :
        steps[s].worker_running = w /\ Alive(w) => w \in steps[s].stakeholders

\* No step that can be performed or runs is about to be removed.
AllNeeded == \A s \in Steps : Needed(steps[s])

\* Worker w keeps the step from being removed.
Safe(t, w) == w \in t.stakeholders /\ t.remove = None

RunsHeld == \A w \in Workers : \A s \in running[w] : Alive(w) /\ Safe(steps[s], w)

ServerHolds == AllPlain /\ RunnersHold /\ AllNeeded /\ Heard /\ Ordered

HoldInv == ServerHolds /\ PlainCalls /\ RunsHeld

\* Whoever keeps a step goes on doing so.
SafeKept == \A w \in Workers, s \in Steps :
                Alive(w) /\ Safe(steps[s], w) => Safe(steps'[s], w)

\* No worker comes back from the dead.
NoRevival == \A w \in Workers : phase'[w] # "dead" => phase[w] # "dead"

LEMMA CalmHolds ==
    ASSUME ServerHolds, NEW gone, AllCalm(gone),
           \A w \in Workers : w \in gone => ~Alive(w), NoRevival, Fresher, Ordered'
    PROVE  ServerHolds' /\ SafeKept
<1>1. AllPlain' /\ AllNeeded'
  BY DEF AllCalm, Calm, AllPlain, AllNeeded, ServerHolds
<1>2. RunnersHold'
  <2> SUFFICES ASSUME NEW s \in Steps, NEW w \in Workers,
                      steps'[s].worker_running = w, phase'[w] # "dead"
               PROVE  w \in steps'[s].stakeholders
    BY DEF RunnersHold, Alive
  <2>1. Calm(steps[s], steps'[s], gone) /\ Alive(w) /\ w \notin gone
    BY DEF AllCalm, NoRevival, Alive
  <2>2. w # None
    BY ConstantsAssumption DEF ConstantsAssumption
  <2>3. CASE steps[s].worker_running = w
    <3>1. w \in steps[s].stakeholders \ gone
      BY <2>1, <2>3 DEF ServerHolds, RunnersHold
    <3> QED BY <2>1, <2>2, <3>1 DEF Calm
  <2> QED BY <2>1, <2>2, <2>3 DEF Calm
<1>3. Heard'
  <2> SUFFICES ASSUME NEW w \in Workers, phase'[w] # "dead", workers'[w].active
               PROVE  workers'[w].last_active <= DisconnectDelay
    BY DEF Heard, Alive
  <2>1. CASE workers'[w].last_active = 0
    BY <2>1, TimingAssumption DEF TimingAssumption
  <2>2. CASE workers[w].active /\ workers'[w].last_active = workers[w].last_active
    <3>1. Alive(w)
      BY DEF NoRevival, Alive
    <3> QED BY <2>2, <3>1 DEF ServerHolds, Heard
  <2> QED BY <2>1, <2>2 DEF Fresher
<1>4. SafeKept
  <2> SUFFICES ASSUME NEW w \in Workers, NEW s \in Steps, Alive(w), Safe(steps[s], w)
               PROVE  Safe(steps'[s], w)
    BY DEF SafeKept
  <2>1. Calm(steps[s], steps'[s], gone) /\ w \in steps[s].stakeholders \ gone
        /\ steps[s].remove = None
    BY DEF AllCalm, Safe
  <2> QED BY <2>1 DEF Calm, Safe
<1> QED BY <1>1, <1>2, <1>3, <1>4 DEF ServerHolds

LEMMA CalmHoldsAll ==
    ASSUME ServerHolds, AllCalm({}), NoRevival, Fresher, Ordered'
    PROVE  ServerHolds' /\ SafeKept
<1>1. \A w \in Workers : w \in {} => ~Alive(w)
  OBVIOUS
<1> QED BY <1>1, CalmHolds

LEMMA SamePhase == ASSUME UNCHANGED phase PROVE NoRevival
BY DEF NoRevival

\* Fewer runs are held all the more.
LEMMA FewerRuns ==
    ASSUME ClientTypeOK, HoldInv, ServerHolds', SafeKept, PlainCalls', UNCHANGED phase,
           \A w \in Workers : running'[w] \subseteq running[w]
    PROVE  HoldInv'
<1>1. RunsHeld'
  <2> SUFFICES ASSUME NEW w \in Workers, NEW s \in running'[w]
               PROVE  phase'[w] # "dead" /\ Safe(steps'[s], w)
    BY DEF RunsHeld, Alive
  <2>1. Alive(w) /\ Safe(steps[s], w) /\ s \in Steps
    BY DEF HoldInv, RunsHeld, ClientTypeOK
  <2> QED BY <2>1 DEF SafeKept, Alive
<1> QED BY <1>1 DEF HoldInv

LEMMA SameClients ==
    ASSUME ClientTypeOK, HoldInv, ServerHolds', SafeKept, UNCHANGED clientVars
    PROVE  HoldInv'
<1>1. PlainCalls'
  BY DEF HoldInv, PlainCalls, clientVars
<1> QED BY <1>1, FewerRuns DEF clientVars

\* What the workers' calls are, when they are plain.
LEMMA TrackingPlain ==
    ASSUME NEW w \in Workers, NEW s \in Steps, NEW q, q = TrackingRequest(w, s)
    PROVE  /\ q \in Calls /\ PlainCall(q) /\ q.worker = w /\ q.step = s
           /\ q.status = "RUNNING" /\ q.new_deps = {}
<1>1. q \in Calls
  BY TrackingRequestType
<1> QED BY <1>1 DEF TrackingRequest, PlainCall

LEMMA LoadErrorPlain ==
    ASSUME NEW w \in Workers, NEW s \in Steps, NEW q, q = LoadErrorRequest(w, s)
    PROVE  /\ q \in Calls /\ PlainCall(q) /\ q.worker = w /\ q.step = s
           /\ q.status = "FAILED" /\ q.new_deps = {}
<1>1. q \in Calls
  BY LoadErrorRequestType
<1> QED BY <1>1 DEF LoadErrorRequest, TrackingRequest, PlainCall

LEMMA ScheduledPlain ==
    ASSUME PlainSetting, NEW w \in Workers, NEW s \in Steps, NEW status \in Claims,
           NEW deps \in DepsSent(s, status), NEW q, q = Scheduled(w, s, status, deps)
    PROVE  /\ q \in Calls /\ PlainCall(q) /\ q.worker = w /\ q.step = s
           /\ q.status = status /\ q.new_deps = {}
<1>1. q \in Calls
  BY ScheduleRequestType
<1>2. IsBatchable(s) = FALSE
  BY ClusterAssumption DEF PlainSetting, ClusterAssumption
<1>3. PICK runnable, count : q = [TrackingRequest(w, s) EXCEPT
          !.status = status, !.deps = deps, !.runnable = runnable, !.resources = Need(s),
          !.priority = Priority(s), !.batchable = IsBatchable(s), !.retry_count = count]
  BY DEF Scheduled, ScheduleRequest
<1>4. /\ q.worker = w /\ q.step = s /\ q.status = status /\ q.new_deps = {}
      /\ q.batch_id = {} /\ q.assistant = FALSE /\ q.batchable = IsBatchable(s)
  BY <1>3 DEF TrackingRequest
<1> QED BY <1>1, <1>2, <1>4 DEF PlainCall

LEMMA OutcomePlain ==
    ASSUME PlainSetting, NEW w \in Workers, NEW s \in Steps,
           NEW status \in {"DONE", "FAILED", "PENDING"}, NEW new_deps \in SUBSET Steps,
           NEW q, q = Outcome(w, s, status, new_deps)
    PROVE  /\ q \in Calls /\ PlainCall(q) /\ q.worker = w /\ q.step = s
           /\ q.status = status /\ q.new_deps = new_deps
<1>1. q \in Calls
  BY OutcomeType
<1>2. PICK assistant \in BOOLEAN : assistant = (w \in AssistantWorkers)
  <2>1. (w \in AssistantWorkers) \in BOOLEAN
    OBVIOUS
  <2> QED BY <2>1, Zenon
<1>3. ~assistant
  BY <1>2 DEF PlainSetting
<1>4. q = [TrackingRequest(w, s) EXCEPT
              !.status = status, !.runnable = FALSE, !.new_deps = new_deps,
              !.resources = Need(s), !.assistant = assistant, !.retry_count = RetryCount(s)]
  BY <1>2 DEF Outcome, ReportRequest
<1>5. /\ q.worker = w /\ q.step = s /\ q.status = status /\ q.new_deps = new_deps
      /\ q.batch_id = {} /\ q.assistant = assistant /\ q.batchable = None
  BY <1>4 DEF TrackingRequest
<1> QED BY <1>1, <1>3, <1>5 DEF PlainCall

\* add_step and get_work, called by a worker.
LEMMA AddStepHolds ==
    ASSUME PlainSetting, IInv, ServerHolds, NEW q \in Calls, PlainCall(q), AddStep(q),
           UNCHANGED phase
    PROVE  /\ ServerHolds' /\ SafeKept
           /\ \A x \in Steps : Answered(steps[x], steps'[x], x, q)
<1>1. (\A x \in Steps : Answered(steps[x], steps'[x], x, q)) /\ Fresher
  BY AddStepPlain DEF ServerHolds
<1>2. AllCalm({})
  BY <1>1 DEF AllCalm, Answered
<1>3. \A s \in Steps : steps[s].status # Absent => steps'[s].status # Absent
  BY <1>1 DEF Answered
<1>4. Ordered'
  BY <1>3, AddStepOrdered DEF ServerHolds, PlainSetting
<1> QED BY <1>1, <1>2, <1>4, SamePhase, CalmHoldsAll

LEMMA ReceivesHolds ==
    ASSUME PlainSetting, IInv, ServerHolds, NEW w \in Workers, NEW work,
           Receives(w, work), UNCHANGED phase
    PROVE  ServerHolds' /\ SafeKept /\ Gives(w, running[w], work) /\ Ready(w)
<1>1. PICK assistant \in BOOLEAN : assistant = (w \in AssistantWorkers)
  <2>1. (w \in AssistantWorkers) \in BOOLEAN
    OBVIOUS
  <2> QED BY <2>1, Zenon
<1>2. ~assistant
  BY <1>1 DEF PlainSetting
<1>3. GetWork(w, assistant, running[w], work) /\ Ready(w)
  BY <1>1 DEF Receives, Polls
<1>4. Gives(w, running[w], work)
  BY <1>2, <1>3, GetWorkPlain DEF ServerHolds, PlainSetting
<1>5. older' = older
  BY <1>3 DEF GetWork
<1>6. Ordered'
  BY <1>4, <1>5, SameOrdered DEF Gives, ServerHolds
<1>7. ServerHolds' /\ SafeKept
  BY <1>4, <1>6, SamePhase, CalmHoldsAll DEF Gives
<1> QED BY <1>3, <1>4, <1>7

\* A step that is handed out is kept by the worker that gets it.
LEMMA GivenIsSafe ==
    ASSUME IInv, ServerHolds, NEW w \in Workers, Alive(w), NEW s \in Steps,
           NEW current_steps, MayGive(s, w, current_steps)
    PROVE  Safe(steps[s], w)
<1>1. StepOK(steps[s]) /\ Needed(steps[s])
  BY DEF IInv, TableOK, ServerHolds, AllNeeded
<1>2. CASE steps[s].status = "RUNNING" /\ steps[s].worker_running = w
  BY <1>1, <1>2 DEF ServerHolds, RunnersHold, Needed, Safe
<1>3. CASE steps[s].status = "PENDING" /\ w \in steps[s].workers
  BY <1>1, <1>3 DEF StepOK, Needed, Safe
<1> QED BY <1>2, <1>3 DEF MayGive

\* The handlers that change no step.
LEMMA IdleHolds ==
    ASSUME ServerHolds, UNCHANGED <<steps, older, phase>>, Fresher
    PROVE  ServerHolds' /\ SafeKept
<1>1. AllCalm({}) /\ SamePresent
  BY UnchangedSteps DEF ServerHolds
<1>2. Ordered'
  BY <1>1, SameOrdered DEF ServerHolds
<1> QED BY <1>1, <1>2, SamePhase, CalmHoldsAll

LEMMA SameWorkersFresh ==
    ASSUME UNCHANGED workers PROVE Fresher
BY DEF Fresher

\* A call of add_step after which the worker executes no more than before.
LEMMA ReportHolds ==
    ASSUME PlainSetting, IInv, ClientTypeOK, HoldInv, NEW q \in Calls, PlainCall(q),
           AddStep(q), UNCHANGED phase, PlainCalls',
           \A w \in Workers : running'[w] \subseteq running[w]
    PROVE  HoldInv'
<1>1. ServerHolds' /\ SafeKept
  BY AddStepHolds DEF HoldInv
<1> QED BY <1>1, FewerRuns

\* PlainCalls, when only the call of w may be a new one.
LEMMA OneCall ==
    ASSUME ClientTypeOK, PlainCalls, NEW w \in Workers, UNCHANGED starting,
           NEW q, calling' = [calling EXCEPT ![w] = q],
           q # None => PlainCall(q) /\ q.worker = w /\ q.status # "RUNNING"
    PROVE  PlainCalls'
<1>1. \A v \in Workers : calling'[v] = IF v = w THEN q ELSE calling[v]
  BY DEF ClientTypeOK
<1> QED BY <1>1 DEF PlainCalls

\* Receiving work.
LEMMA ReceivingHolds ==
    ASSUME PlainSetting, IInv, ClientTypeOK, HoldInv, NEW w \in Workers, NEW work,
           AskForWork(w, work) \/ LoseWork(w, work) \/ ReceiveUnloadable(w, work)
    PROVE  HoldInv'
<1>1. Receives(w, work) /\ UNCHANGED <<phase, calling>>
  BY DEF AskForWork, LoseWork, ReceiveUnloadable, clientVars
<1>2. ServerHolds' /\ SafeKept /\ Gives(w, running[w], work) /\ Ready(w)
  BY <1>1, ReceivesHolds DEF HoldInv
<1>3. CASE LoseWork(w, work) \/ ReceiveUnloadable(w, work)
  <2>1. PlainCalls' /\ UNCHANGED running
    BY <1>3 DEF HoldInv, PlainCalls, LoseWork, ReceiveUnloadable, clientVars
  <2> QED BY <1>1, <1>2, <2>1, FewerRuns
<1>4. CASE AskForWork(w, work)
  <2>1. work = {} \/ \E s \in Steps : work = {s} /\ MayGive(s, w, running[w])
    BY <1>2 DEF Gives
  <2>2. \A s : Cardinality({s}) = 1
    BY FS_Singleton
  <2>3. Cardinality({}) = 0
    BY FS_EmptySet
  <2>4. ~(Cardinality(work) > 1)
    <3>1. CASE work = {}
      <4>1. Cardinality(work) = 0
        BY <2>3, <3>1
      <4> QED BY <4>1
    <3>2. CASE work # {}
      <4>1. PICK s : work = {s}
        BY <2>1, <3>2
      <4>2. Cardinality(work) = 1
        BY <2>2, <4>1
      <4> QED BY <4>2
    <3> QED BY <3>1, <3>2
  <2>5. starting' = [starting EXCEPT ![w] = starting[w]]
    BY <1>4, <2>4 DEF AskForWork
  <2>6. UNCHANGED starting
    BY <2>5 DEF ClientTypeOK
  <2>7. PlainCalls'
    BY <1>1, <2>6 DEF HoldInv, PlainCalls
  <2>8. running' = [running EXCEPT ![w] = IF Cardinality(work) = 1 THEN running[w] \cup work
                                                                  ELSE running[w]]
    BY <1>4 DEF AskForWork
  <2>9. /\ running'[w] \subseteq running[w] \cup work
        /\ \A v \in Workers \ {w} : running'[v] = running[v]
    BY <2>8 DEF ClientTypeOK
  <2>10. Alive(w)
    BY <1>2 DEF Ready, Alive
  <2>11. \A s \in work : s \in Steps /\ Safe(steps[s], w)
    BY <1>2, <2>1, <2>10, GivenIsSafe DEF HoldInv
  <2>12. ASSUME NEW v \in Workers, NEW s \in running'[v]
         PROVE  s \in Steps /\ Alive(v) /\ Safe(steps[s], v)
    <3>1. CASE s \in running[v]
      BY <3>1 DEF HoldInv, RunsHeld, ClientTypeOK
    <3>2. CASE s \notin running[v]
      <4>1. v = w /\ s \in work
        BY <2>9, <2>12, <3>2
      <4> QED BY <2>10, <2>11, <4>1
    <3> QED BY <3>1, <3>2
  <2>13. RunsHeld'
    <3> SUFFICES ASSUME NEW v \in Workers, NEW s \in running'[v]
                 PROVE  phase'[v] # "dead" /\ Safe(steps'[s], v)
      BY DEF RunsHeld, Alive
    <3> QED BY <1>1, <1>2, <2>12 DEF SafeKept, Alive
  <2> QED BY <1>2, <2>7, <2>13 DEF HoldInv
<1> QED BY <1>3, <1>4

LEMMA WorkerNextHolds ==
    ASSUME PlainSetting, IInv, ClientTypeOK, HoldInv, NEW w \in Workers, WorkerNext(w)
    PROVE  HoldInv'
<1>0. ServerHolds /\ PlainCalls /\ RunsHeld
  BY DEF HoldInv
<1>1. CASE \E s \in Steps : RegisterBatcher(w, s)
  BY <1>1 DEF RegisterBatcher, PlainSetting
<1>2. CASE \E s \in Steps, status \in Claims : Schedule(w, s, status)
  <2>1. PICK s \in Steps, status \in Claims : Schedule(w, s, status)
    BY <1>2
  <2>2. PICK deps, q :
           /\ deps \in DepsSent(s, status)
           /\ q = Scheduled(w, s, status, deps)
           /\ AddStep(q) /\ UNCHANGED <<phase, running, starting, calling>>
    BY <2>1 DEF Schedule, Scheduled
  <2>3. q \in Calls /\ PlainCall(q)
    BY <2>2, ScheduledPlain
  <2>4. AddStep(q) /\ UNCHANGED <<phase, running, starting, calling>>
    BY <2>2
  <2>5. PlainCalls'
    BY <1>0, <2>4 DEF PlainCalls
  <2> QED BY <2>3, <2>4, <2>5, ReportHolds
<1>3. CASE Announce(w)
  <2>1. /\ UNCHANGED <<steps, older, running, starting, calling>>
        /\ phase' = [phase EXCEPT ![w] = "working"] /\ phase[w] = "adding"
        /\ AddWorker(w, Processes(w))
    BY <1>3 DEF Announce, AddWorker
  <2>2. Fresher
    BY <2>1, AddWorkerPlain
  <2>3. NoRevival /\ \A v \in Workers : phase[v] # "dead" => phase'[v] # "dead"
    BY <2>1 DEF NoRevival, ClientTypeOK
  <2>4. AllCalm({}) /\ SamePresent
    BY <1>0, <2>1, UnchangedSteps DEF ServerHolds
  <2>5. Ordered'
    BY <1>0, <2>1, <2>4, SameOrdered DEF ServerHolds
  <2>6. ServerHolds'
    BY <1>0, <2>2, <2>3, <2>4, <2>5, CalmHoldsAll
  <2>7. PlainCalls'
    BY <1>0, <2>1 DEF PlainCalls
  <2>8. RunsHeld'
    BY <1>0, <2>1, <2>3 DEF RunsHeld, Alive
  <2> QED BY <2>6, <2>7, <2>8 DEF HoldInv
<1>4. CASE \E work \in Replies(w) : AskForWork(w, work) \/ LoseWork(w, work)
                                    \/ ReceiveUnloadable(w, work)
  BY <1>4, ReceivingHolds
<1>5. CASE CountWork(w)
  <2>1. CountPending(w) /\ UNCHANGED clientVars /\ UNCHANGED <<steps, older, phase>>
    BY <1>5 DEF CountWork, CountPending, clientVars
  <2>2. Fresher
    BY <2>1, CountPendingPlain
  <2> QED BY <1>0, <2>1, <2>2, IdleHolds, SameClients
<1>6. CASE \E s \in Steps : ReportUnloadable(w, s)
  <2>1. PICK s \in Steps : ReportUnloadable(w, s)
    BY <1>6
  <2>2. PICK q : q = LoadErrorRequest(w, s)
    OBVIOUS
  <2>3. q \in Calls /\ PlainCall(q)
    BY <2>2, LoadErrorPlain
  <2>4. AddStep(q) /\ UNCHANGED <<phase, running, starting, calling>>
    BY <2>1, <2>2 DEF ReportUnloadable
  <2>5. PlainCalls'
    BY <1>0, <2>4 DEF PlainCalls
  <2> QED BY <2>3, <2>4, <2>5, ReportHolds
<1>7. CASE StartBatch(w)
  BY <1>0, <1>7 DEF StartBatch, PlainCalls
<1>8. CASE \E s \in Steps : Track(w, s)
  <2>1. PICK s \in Steps : Track(w, s)
    BY <1>8
  <2>2. PICK q : q = TrackingRequest(w, s)
    OBVIOUS
  <2>3. q \in Calls /\ PlainCall(q)
    BY <2>2, TrackingPlain
  <2>4. AddStep(q) /\ UNCHANGED clientVars /\ UNCHANGED phase
    BY <2>1, <2>2 DEF Track, clientVars
  <2>5. ServerHolds' /\ SafeKept
    BY <1>0, <2>3, <2>4, AddStepHolds
  <2> QED BY <2>4, <2>5, SameClients
<1>9. CASE \E s \in Steps : GiveUpResources(w, s)
  <2>1. PICK s \in Steps : GiveUpResources(w, s)
    BY <1>9
  <2>2. /\ DecreaseRunningStepResources(s, Need(s)) /\ UNCHANGED clientVars
        /\ UNCHANGED <<phase, older, workers>>
    BY <2>1 DEF GiveUpResources, clientVars, DecreaseRunningStepResources
  <2>3. AllCalm({}) /\ SamePresent
    BY <1>0, <2>2, DecreasePlain DEF ServerHolds
  <2>4. Ordered'
    BY <1>0, <2>2, <2>3, SameOrdered DEF ServerHolds
  <2>5. ServerHolds' /\ SafeKept
    BY <1>0, <2>2, <2>3, <2>4, SamePhase, SameWorkersFresh, CalmHoldsAll
  <2> QED BY <2>2, <2>5, SameClients
<1>10. CASE \E s \in Steps, status \in Endings, missing \in BOOLEAN :
               Finish(w, s, status, missing)
  <2>1. PICK s \in Steps, status \in Endings, missing \in BOOLEAN :
            Finish(w, s, status, missing)
    BY <1>10
  <2>2. status \in {"DONE", "FAILED", "PENDING"} /\ {} \in SUBSET Steps
    BY ClusterAssumption DEF ClusterAssumption
  <2>3. PICK q : q = Outcome(w, s, status, {})
    OBVIOUS
  <2>4. q \in Calls /\ PlainCall(q)
    BY <2>2, <2>3, OutcomePlain
  <2>5. /\ AddStep(q) /\ UNCHANGED <<phase, starting, calling>>
        /\ running' = [running EXCEPT ![w] = running[w] \ {s}]
    BY <2>1, <2>3 DEF Finish
  <2>6. \A v \in Workers : running'[v] \subseteq running[v]
    BY <2>5 DEF ClientTypeOK
  <2>7. PlainCalls'
    BY <1>0, <2>5 DEF PlainCalls
  <2> QED BY <2>4, <2>5, <2>6, <2>7, ReportHolds
<1>11. CASE \E s \in Steps : Suspend(w, s)
  <2>1. PICK s \in Steps : Suspend(w, s)
    BY <1>11
  <2>2. Yields(s) \in SUBSET Steps /\ "PENDING" \in {"DONE", "FAILED", "PENDING"}
    BY ClusterAssumption DEF ClusterAssumption
  <2>3. PICK q : q = Outcome(w, s, "PENDING", Yields(s))
    OBVIOUS
  <2>4. PlainCall(q) /\ q.worker = w /\ q.status = "PENDING"
    BY <2>2, <2>3, OutcomePlain
  <2>5. calling' = [calling EXCEPT ![w] = q] /\ UNCHANGED <<vars, phase, running, starting>>
    BY <2>1, <2>3 DEF Suspend
  <2>6. PlainCalls'
    BY <1>0, <2>4, <2>5, OneCall
  <2>7. UNCHANGED <<steps, older, phase>> /\ UNCHANGED workers /\ UNCHANGED running
    BY <2>5 DEF vars
  <2>8. ServerHolds' /\ SafeKept
    BY <1>0, <2>7, IdleHolds, SameWorkersFresh
  <2> QED BY <2>6, <2>7, <2>8, FewerRuns
<1>12. CASE \E s \in Steps, status \in Endings : FinishUnheard(w, s, status)
  <2>1. PICK s \in Steps, status \in Endings : FinishUnheard(w, s, status)
    BY <1>12
  <2>2. status \in {"DONE", "FAILED", "PENDING"} /\ {} \in SUBSET Steps /\ status # "RUNNING"
    BY ClusterAssumption DEF ClusterAssumption
  <2>3. PICK q : q = Outcome(w, s, status, {})
    OBVIOUS
  <2>4. q \in Calls /\ PlainCall(q) /\ q.worker = w /\ q.status = status
    BY <2>2, <2>3, OutcomePlain
  <2>5. /\ AddStep(q) /\ UNCHANGED <<phase, starting, running>>
        /\ calling' = [calling EXCEPT ![w] = q]
    BY <2>1, <2>3 DEF FinishUnheard, CallUnheard
  <2>6. PlainCalls'
    BY <1>0, <2>2, <2>4, <2>5, OneCall
  <2> QED BY <2>4, <2>5, <2>6, ReportHolds
<1>13. CASE Call(w) \/ RepeatUnheard(w)
  <2>1. PICK q : q = calling[w]
    OBVIOUS
  <2>2. q # None /\ AddStep(q) /\ UNCHANGED <<phase, starting>>
    BY <1>13, <2>1 DEF Call, RepeatUnheard, CallUnheard
  <2>3. q \in Calls /\ PlainCall(q) /\ q.worker = w /\ q.status # "RUNNING"
    BY <1>0, <2>1, <2>2 DEF PlainCalls, ClientTypeOK
  <2>4. calling' \in {[calling EXCEPT ![w] = q], [calling EXCEPT ![w] = None]}
    BY <1>13, <2>1 DEF Call, RepeatUnheard, CallUnheard
  <2>5. PlainCalls'
    BY <1>0, <2>2, <2>3, <2>4, OneCall
  <2>6. running' = running \/ running' = [running EXCEPT ![w] = running[w] \ {q.step}]
    BY <1>13, <2>1, <2>3, PlainCallAnswered DEF Call, RepeatUnheard, CallUnheard
  <2>7. \A v \in Workers : running'[v] \subseteq running[v]
    BY <2>6 DEF ClientTypeOK
  <2> QED BY <2>2, <2>3, <2>5, <2>7, ReportHolds
<1>14. CASE KeepAlive(w)
  <2>1. Ping(w) /\ UNCHANGED clientVars /\ UNCHANGED <<steps, older, phase>>
    BY <1>14 DEF KeepAlive, Ping, clientVars
  <2>2. Fresher
    BY <2>1, PingPlain
  <2> QED BY <1>0, <2>1, <2>2, IdleHolds, SameClients
<1>15. CASE Crash(w)
  <2>1. /\ phase' = [phase EXCEPT ![w] = "dead"] /\ running' = [running EXCEPT ![w] = {}]
        /\ starting' = [starting EXCEPT ![w] = {}] /\ calling' = [calling EXCEPT ![w] = None]
        /\ UNCHANGED <<steps, older, workers>>
    BY <1>15 DEF Crash, vars
  <2>2. /\ \A v \in Workers : phase'[v] = IF v = w THEN "dead" ELSE phase[v]
        /\ \A v \in Workers : running'[v] = IF v = w THEN {} ELSE running[v]
        /\ \A v \in Workers : starting'[v] = IF v = w THEN {} ELSE starting[v]
        /\ \A v \in Workers : calling'[v] = IF v = w THEN None ELSE calling[v]
    BY <2>1 DEF ClientTypeOK
  <2>3. NoRevival
    BY <2>2 DEF NoRevival
  <2>4. AllCalm({}) /\ SamePresent
    BY <1>0, <2>1, UnchangedSteps DEF ServerHolds
  <2>5. Ordered'
    BY <1>0, <2>1, <2>4, SameOrdered DEF ServerHolds
  <2>6. ServerHolds'
    BY <1>0, <2>1, <2>3, <2>4, <2>5, SameWorkersFresh, CalmHoldsAll
  <2>7. PlainCalls'
    BY <1>0, <2>2 DEF PlainCalls
  <2>8. RunsHeld'
    BY <1>0, <2>1, <2>2 DEF RunsHeld, Alive
  <2> QED BY <2>6, <2>7, <2>8 DEF HoldInv
<1> QED BY <1>1, <1>2, <1>3, <1>4, <1>5, <1>6, <1>7, <1>8, <1>9, <1>10, <1>11,
           <1>12, <1>13, <1>14, <1>15 DEF WorkerNext

\* Ageing of the workers, with the guard of TimePasses.
LEMMA TimePassesHeard ==
    ASSUME PlainSetting, IInv, TimePasses
    PROVE  Heard'
<1> SUFFICES ASSUME NEW w \in Workers, Alive(w), workers'[w].active
             PROVE  workers'[w].last_active <= DisconnectDelay
  BY DEF Heard, Alive, TimePasses, clientVars
<1>1. PICK t : t = workers[w]
  OBVIOUS
<1>2. t \in WorkerRecords
  BY <1>1 DEF IInv, TableOK
<1>3. workers'[w] = IF t.active THEN AgedWorker(t) ELSE NoWorker
  BY <1>1 DEF TimePasses, Tick
<1>4. ~NoWorker.active
  BY DEF NoWorker, NewWorker
<1>5. t.active /\ workers'[w] = AgedWorker(t)
  BY <1>3, <1>4
<1>6. t.last_active < DisconnectDelay /\ t.last_active \in Nat
  BY <1>1, <1>2, <1>5 DEF TimePasses, PlainSetting, WorkerRecords
<1>7. AgedWorker(t).last_active = Up(t.last_active, DisconnectDelay + 1)
  BY <1>2 DEF AgedWorker, WorkerRecords
<1>8. DisconnectDelay \in Nat /\ None \notin Nat
  BY TimingAssumption, ConstantsAssumption DEF TimingAssumption, ConstantsAssumption
<1>9. Up(t.last_active, DisconnectDelay + 1) = t.last_active + 1
  BY <1>6, <1>8 DEF Up
<1> QED BY <1>5, <1>6, <1>7, <1>8, <1>9

LEMMA OperateHolds ==
    ASSUME PlainSetting, IInv, ClientTypeOK, HoldInv, Operate
    PROVE  HoldInv'
<1>0. ServerHolds /\ UNCHANGED clientVars /\ UNCHANGED phase
  BY DEF HoldInv, Operate, clientVars
<1>1. SUFFICES ServerHolds' /\ SafeKept
  BY <1>0, SameClients
<1>2. ASSUME AllCalm({}), SamePresent, UNCHANGED older, Fresher
      PROVE  ServerHolds' /\ SafeKept
  BY <1>0, <1>2, SameOrdered, SamePhase, CalmHoldsAll DEF ServerHolds
<1>3. CASE SetPaused(~paused) \/ Restart \/ \E r \in Resources, a \in Amount :
                                                UpdateResource(r, a)
  <2>1. UNCHANGED <<steps, older, phase>> /\ UNCHANGED workers
    BY <1>0, <1>3 DEF SetPaused, Restart, UpdateResource
  <2> QED BY <1>0, <2>1, IdleHolds, SameWorkersFresh
<1>4. CASE \E w \in Workers : DisableWorker(w)
  <2>1. UNCHANGED older
    BY <1>4 DEF DisableWorker
  <2> QED BY <1>0, <1>2, <1>4, <2>1, DisableWorkerPlain DEF ServerHolds
<1>5. CASE \E s \in Steps : ForgiveFailures(s) \/ MarkAsDone(s)
  <2>1. PICK s \in Steps : ForgiveFailures(s) \/ MarkAsDone(s)
    BY <1>5
  <2>2. PICK new \in {"PENDING", "DONE"} : steps' = SetStatus(steps, s, new)
    BY <2>1 DEF ForgiveFailures, MarkAsDone
  <2>3. steps[s].status # Absent /\ UNCHANGED <<older, workers>>
    BY <2>1 DEF ForgiveFailures, MarkAsDone, Absent
  <2> QED BY <1>0, <1>2, <2>2, <2>3, StatusPlain, SameWorkersFresh DEF ServerHolds
<1>6. CASE \E s \in Steps : ReEnableStep(s)
  <2>1. UNCHANGED <<older, workers>>
    BY <1>6 DEF ReEnableStep
  <2> QED BY <1>0, <1>2, <1>6, <2>1, ReEnableStepPlain, SameWorkersFresh DEF ServerHolds
<1> QED BY <1>3, <1>4, <1>5, <1>6 DEF Operate

LEMMA TimePassesHolds ==
    ASSUME PlainSetting, IInv, ClientTypeOK, HoldInv, TimePasses
    PROVE  HoldInv'
<1>1. ServerHolds /\ Tick /\ UNCHANGED clientVars /\ UNCHANGED phase
  BY DEF HoldInv, TimePasses, clientVars
<1>2. AllCalm({}) /\ SamePresent /\ UNCHANGED older
  BY <1>1, TickPlain DEF ServerHolds, Tick
<1>3. Heard'
  BY TimePassesHeard
<1>4. Ordered'
  BY <1>1, <1>2, SameOrdered DEF ServerHolds
<1>5. AllPlain' /\ AllNeeded'
  BY <1>1, <1>2 DEF AllCalm, Calm, AllPlain, AllNeeded, ServerHolds
<1>6. RunnersHold'
  <2> SUFFICES ASSUME NEW s \in Steps, NEW w \in Workers,
                      steps'[s].worker_running = w, phase[w] # "dead"
               PROVE  w \in steps'[s].stakeholders
    BY <1>1 DEF RunnersHold, Alive
  <2>1. Calm(steps[s], steps'[s], {})
    BY <1>2 DEF AllCalm
  <2>2. w # None
    BY ConstantsAssumption DEF ConstantsAssumption
  <2>3. steps[s].worker_running = w => w \in steps[s].stakeholders
    BY <1>1 DEF ServerHolds, RunnersHold, Alive
  <2> QED BY <2>1, <2>2, <2>3 DEF Calm
<1>7. SafeKept
  <2> SUFFICES ASSUME NEW w \in Workers, NEW s \in Steps, Safe(steps[s], w)
               PROVE  Safe(steps'[s], w)
    BY DEF SafeKept
  <2> QED BY <1>2 DEF AllCalm, Calm, Safe
<1> QED BY <1>1, <1>3, <1>4, <1>5, <1>6, <1>7, SameClients DEF ServerHolds

LEMMA PruneHolds ==
    ASSUME PlainSetting, IInv, ClientTypeOK, HoldInv, PruneNow
    PROVE  HoldInv'
<1>1. ServerHolds /\ Prune /\ UNCHANGED clientVars /\ UNCHANGED phase
  BY DEF HoldInv, PruneNow, clientVars
<1>2. AllCalm(TimedOut(workers)) /\ Fresher
  BY <1>1, PrunePlain DEF ServerHolds
<1>3. ASSUME NEW w \in Workers, w \in TimedOut(workers) PROVE ~Alive(w)
  <2>1. workers[w].active /\ workers[w].last_active > DisconnectDelay
    BY <1>3 DEF TimedOut
  <2>2. workers[w].last_active \in Nat /\ DisconnectDelay \in Nat
    BY TimingAssumption DEF TimingAssumption, IInv, TableOK, WorkerRecords
  <2> QED BY <1>1, <2>1, <2>2 DEF ServerHolds, Heard
<1>4. Ordered'
  BY <1>1, PruneOrdered DEF ServerHolds
<1>5. ServerHolds' /\ SafeKept
  BY <1>1, <1>2, <1>3, <1>4, SamePhase, CalmHolds
<1> QED BY <1>1, <1>5, SameClients

LEMMA NextHolds ==
    PlainSetting /\ IInv /\ ClientTypeOK /\ HoldInv /\ [ClusterNext]_allVars => HoldInv'
<1> SUFFICES ASSUME PlainSetting, IInv, ClientTypeOK, HoldInv, [ClusterNext]_allVars
             PROVE  HoldInv'
  OBVIOUS
<1>1. CASE UNCHANGED allVars
  <2>1. ServerHolds' /\ SafeKept /\ UNCHANGED clientVars
    <3>1. ServerHolds /\ UNCHANGED <<steps, older, phase>> /\ UNCHANGED workers
          /\ UNCHANGED clientVars
      BY <1>1 DEF HoldInv, allVars, vars, clientVars
    <3> QED BY <3>1, IdleHolds, SameWorkersFresh
  <2> QED BY <2>1, SameClients
<1> QED BY <1>1, WorkerNextHolds, TimePassesHolds, PruneHolds, OperateHolds DEF ClusterNext

LEMMA InitHolds == ClusterInit => HoldInv
<1> SUFFICES ASSUME ClusterInit PROVE HoldInv
  OBVIOUS
<1>1. /\ \A s \in Steps : steps[s] = NoStep
      /\ older = {} /\ \A w \in Workers : workers[w] = NoWorker
      /\ \A w \in Workers : running[w] = {} /\ starting[w] = {} /\ calling[w] = None
  BY DEF ClusterInit, Init
<1>2. /\ Plain(NoStep) /\ NoStep.remove = None /\ NoStep.worker_running = None
      /\ NoStep.status = Absent /\ ~NoWorker.active
  BY NoStepPlain DEF NoStep, NewStep, NoWorker, NewWorker
<1>3. Present(steps) = {}
  BY <1>1, <1>2 DEF Present
<1>4. Ordered
  BY <1>1, <1>3 DEF Ordered, Sorts
<1>5. AllPlain /\ AllNeeded /\ Heard
  BY <1>1, <1>2 DEF AllPlain, AllNeeded, Needed, Heard
<1>6. RunnersHold
  BY <1>1, <1>2, ConstantsAssumption DEF RunnersHold, ConstantsAssumption
<1> QED BY <1>1, <1>4, <1>5, <1>6 DEF HoldInv, ServerHolds, PlainCalls, RunsHeld

\* The invariant behind the theorems about what workers execute.
LEMMA HoldInductive ==
    ASSUME PlainSetting PROVE ClusterSpec => [](IInv /\ ClientTypeOK /\ HoldInv)
<1>1. PlainSetting
  OBVIOUS
<1> QED BY <1>1, ClusterInductive, InitHolds, NextHolds, PTL DEF ClusterSpec

\* As long as live workers ping in time, none is an assistant and no step is
\* batchable, a step is not removed while a worker executes it, whatever operators,
\* lost replies, repeated reports and crashes of other workers do: the worker is one
\* of its stakeholders, and update_status marks no such step for removal.
THEOREM RunsNeverRemoved ==
    ASSUME PlainSetting PROVE ClusterSpec => []RunsAreNotRemoved
<1>1. IInv /\ ClientTypeOK /\ HoldInv => RunsAreNotRemoved
  <2> SUFFICES ASSUME IInv, ClientTypeOK, HoldInv, NEW w \in Workers, NEW s \in Executing(w)
               PROVE  steps[s].status # Absent
    BY DEF RunsAreNotRemoved
  <2>1. s \in running[w] /\ s \in Steps
    BY DEF Executing, ClientTypeOK
  <2>2. w \in steps[s].stakeholders
    BY <2>1 DEF HoldInv, RunsHeld, Safe
  <2>3. StepOK(steps[s])
    BY <2>1 DEF IInv, TableOK
  <2> QED BY <2>2, <2>3 DEF StepOK
<1> QED BY <1>1, HoldInductive, PTL

-----------------------------------------------------------------------------
(* What the scheduler believes of a step that is executed is true. *)

\* Nobody but its worker ends a run: no operator marks it as done; a report is not
\* repeated after the step has been suspended, which would be PENDING by then; and no
\* worker finds a step complete while it executes steps.
OwnSetting ==
    /\ PlainSetting
    /\ "mark_done" \notin Behaviours
    /\ "repeat" \notin Behaviours \/ \A s \in Steps : Yields(s) = {}
    /\ "DONE" \notin Claims \/ ("missing" \notin Behaviours /\ \A s \in Steps : Yields(s) = {})

\* The scheduler has it on record that w runs the step.
RunsOn(t, w) == t.status = "RUNNING" /\ t.worker_running = w

\* The report that the run of s has ended is under way, and may have arrived.
Reporting(w, s) == "repeat" \in Behaviours /\ calling[w] # None /\ calling[w].step = s

RunsOwned == \A w \in Workers : \A s \in running[w] : Reporting(w, s) \/ RunsOn(steps[s], w)

\* What a worker has still to report: a result that may have arrived, or a step that
\* it has suspended.
ReportsDue ==
    \A w \in Workers : calling[w] # None =>
        \/ /\ "repeat" \in Behaviours
           /\ calling[w].status \in {"DONE", "FAILED"} /\ calling[w].new_deps = {}
        \/ /\ "repeat" \notin Behaviours
           /\ calling[w].status = "PENDING" /\ calling[w].step \in running[w]

\* A worker does not execute what it cannot load.
ErringApart == \A w \in Workers : erring[w] \cap running[w] = {}

\* A worker that may find steps complete schedules before it executes anything.
AddsFirst == "DONE" \in Claims => \A w \in Workers : adding[w] = {} \/ running[w] = {}

OwnInv == RunsOwned /\ ReportsDue /\ ErringApart /\ AddsFirst

\* What StepLife does not allow does not happen to a step: that it goes from done to
\* running, that it becomes done without being executed, or that it gets an executor
\* while it has another one.
Lively ==
    \A s \in Steps :
        /\ steps'[s].status = "RUNNING" => steps[s].status # "DONE"
        /\ steps'[s].status = "DONE" =>
               steps[s].status = "DONE" \/ \E w \in Workers : s \in Executing(w)
        /\ \A v \in Workers : s \in Executing(v)' =>
               s \in Executing(v) \/ \A u \in Workers : s \notin Executing(u)

LEMMA SteadyOwner ==
    ASSUME HoldInv, NEW gone, \A v \in Workers : v \in gone => ~Alive(v),
           NEW w \in Workers, NEW s \in running[w], RunsOn(steps[s], w),
           Steady(steps[s], steps'[s], gone)
    PROVE  RunsOn(steps'[s], w)
<1>1. Alive(w) /\ Safe(steps[s], w)
  BY DEF HoldInv, RunsHeld
<1>2. w \notin gone
  BY <1>1
<1> QED BY <1>1, <1>2 DEF Safe, Steady, RunsOn

\* A handler that ends no run of a live worker, and leaves the workers alone.
LEMMA SteadyOwns ==
    ASSUME ClientTypeOK, HoldInv, OwnInv, NEW gone, \A v \in Workers : v \in gone => ~Alive(v),
           AllSteady(gone), UNCHANGED clientVars
    PROVE  OwnInv'
<1>1. RunsOwned'
  <2> SUFFICES ASSUME NEW w \in Workers, NEW s \in running[w], RunsOn(steps[s], w)
               PROVE  RunsOn(steps'[s], w)
    BY DEF OwnInv, RunsOwned, Reporting, clientVars
  <2>1. s \in Steps
    BY DEF ClientTypeOK
  <2> QED BY <2>1, SteadyOwner DEF AllSteady
<1> QED BY <1>1 DEF OwnInv, ReportsDue, ErringApart, AddsFirst, clientVars

LEMMA QuietLively ==
    ASSUME AllQuiet, \A v \in Workers : Executing(v)' \subseteq Executing(v)
    PROVE  Lively
BY DEF AllQuiet, NoNews, Lively

LEMMA SameExecuting ==
    ASSUME UNCHANGED <<running, calling>>, NEW v \in Workers
    PROVE  Executing(v)' = Executing(v)
BY DEF Executing

\* A handler that also begins no run and completes nothing.
LEMMA QuietOwns ==
    ASSUME ClientTypeOK, HoldInv, OwnInv, NEW gone, \A v \in Workers : v \in gone => ~Alive(v),
           AllSteady(gone), AllQuiet, UNCHANGED clientVars
    PROVE  OwnInv' /\ Lively
<1>1. OwnInv'
  BY SteadyOwns
<1>2. UNCHANGED <<running, calling>>
  BY DEF clientVars
<1> QED BY <1>1, <1>2, SameExecuting, QuietLively

LEMMA IdleOwns ==
    ASSUME ClientTypeOK, HoldInv, OwnInv, UNCHANGED steps, UNCHANGED clientVars
    PROVE  OwnInv' /\ Lively
<1>1. AllSteady({}) /\ AllQuiet
  BY UnchangedSteps DEF HoldInv, ServerHolds
<1>2. \A v \in Workers : v \in {} => ~Alive(v)
  OBVIOUS
<1> QED BY <1>1, <1>2, QuietOwns

\* A call of add_step ends no run but the one it is about.
LEMMA AddStepOwner ==
    ASSUME PlainSetting, IInv, ClientTypeOK, HoldInv, NEW q \in Calls, PlainCall(q),
           AddStep(q), UNCHANGED phase, NEW w \in Workers, NEW s \in running[w],
           RunsOn(steps[s], w), s # q.step \/ ~EndsRun(steps[s], q)
    PROVE  RunsOn(steps'[s], w)
<1>1. s \in Steps
  BY DEF ClientTypeOK
<1>2. Answered(steps[s], steps'[s], s, q)
  BY <1>1, AddStepHolds DEF HoldInv
<1>3. Steady(steps[s], steps'[s], {})
  BY <1>2 DEF Answered
<1>4. \A v \in Workers : v \in {} => ~Alive(v)
  OBVIOUS
<1> QED BY <1>3, <1>4, SteadyOwner

\* A call of add_step that neither starts nor completes a step.
LEMMA AddStepQuiet ==
    ASSUME PlainSetting, IInv, HoldInv, NEW q \in Calls, PlainCall(q), AddStep(q),
           UNCHANGED phase, q.status \notin {"RUNNING", "DONE"}
    PROVE  AllQuiet
<1>1. \A x \in Steps : Answered(steps[x], steps'[x], x, q)
  BY AddStepHolds DEF HoldInv
<1> QED BY <1>1 DEF Answered, AllQuiet, NoNews

\* No result is reported twice, and no worker finds a step complete that it did not
\* execute: then a step becomes DONE only by being executed.
LifeSetting == OwnSetting /\ "repeat" \notin Behaviours /\ "DONE" \notin Claims

\* What is shown of every step of the cluster.
Owns == OwnInv' /\ (LifeSetting => Lively)

LEMMA ScheduleOwns ==
    ASSUME OwnSetting, IInv, ClientTypeOK, HoldInv, OwnInv, NEW w \in Workers,
           NEW s \in Steps, NEW status \in Claims, Schedule(w, s, status)
    PROVE  Owns
<1>1. PICK deps, q :
         /\ deps \in DepsSent(s, status)
         /\ q = Scheduled(w, s, status, deps)
         /\ AddStep(q) /\ s \in adding[w]
         /\ UNCHANGED <<phase, running, starting, erring, calling>>
         /\ \E more : adding' = [adding EXCEPT ![w] = more]
  BY DEF Schedule, Scheduled
<1>2. /\ q \in Calls /\ PlainCall(q) /\ q.worker = w /\ q.step = s
      /\ q.status = status /\ q.new_deps = {}
  BY <1>1, ScheduledPlain DEF OwnSetting
<1>3. /\ AddStep(q) /\ s \in adding[w] /\ UNCHANGED <<phase, running, starting, erring, calling>>
      /\ \E more : adding' = [adding EXCEPT ![w] = more]
  BY <1>1
<1>4. status \in {"PENDING", "DONE", "UNKNOWN", "DISABLED"}
  BY ClusterAssumption DEF ClusterAssumption
<1>5. RunsOwned'
  <2> SUFFICES ASSUME NEW v \in Workers, NEW x \in running[v], RunsOn(steps[x], v)
               PROVE  RunsOn(steps'[x], v)
    BY <1>3 DEF OwnInv, RunsOwned, Reporting
  <2>1. x # q.step \/ ~EndsRun(steps[x], q)
    <3> SUFFICES ASSUME x = s, EndsRun(steps[x], q) PROVE FALSE
      BY <1>2
    <3>1. status = "DONE" /\ steps[x].worker_running = w
      BY <1>2, <1>4 DEF EndsRun
    <3>2. v = w
      BY <3>1 DEF RunsOn
    <3>3. adding[w] = {} \/ running[w] = {}
      BY <3>1 DEF OwnInv, AddsFirst
    <3> QED BY <1>3, <3>2, <3>3
  <2> QED BY <1>2, <1>3, <2>1, AddStepOwner DEF OwnSetting
<1>6. ReportsDue' /\ ErringApart'
  BY <1>3 DEF OwnInv, ReportsDue, ErringApart
<1>7. AddsFirst'
  <2> SUFFICES ASSUME "DONE" \in Claims, NEW v \in Workers
               PROVE  adding'[v] = {} \/ running'[v] = {}
    BY DEF AddsFirst
  <2>1. CASE v = w
    BY <1>3, <2>1 DEF OwnInv, AddsFirst
  <2>2. CASE v # w
    <3>1. adding'[v] = adding[v]
      BY <1>3, <2>2 DEF ClientTypeOK
    <3> QED BY <1>3, <3>1 DEF OwnInv, AddsFirst
  <2> QED BY <2>1, <2>2
<1>8. ASSUME LifeSetting PROVE Lively
  <2>1. q.status \notin {"RUNNING", "DONE"}
    BY <1>2, <1>4, <1>8 DEF LifeSetting
  <2>2. AllQuiet
    BY <1>2, <1>3, <2>1, AddStepQuiet DEF OwnSetting
  <2> QED BY <1>3, <2>2, SameExecuting, QuietLively
<1> QED BY <1>5, <1>6, <1>7, <1>8 DEF OwnInv, Owns

LEMMA ReceivingOwns ==
    ASSUME OwnSetting, IInv, ClientTypeOK, HoldInv, OwnInv, NEW w \in Workers, NEW work,
           AskForWork(w, work) \/ LoseWork(w, work) \/ ReceiveUnloadable(w, work)
    PROVE  Owns
<1>1. Receives(w, work) /\ UNCHANGED <<phase, adding, calling>>
  BY DEF AskForWork, LoseWork, ReceiveUnloadable, clientVars
<1>2. Gives(w, running[w], work) /\ Ready(w)
  BY <1>1, ReceivesHolds DEF HoldInv, OwnSetting
<1>3. /\ calling[w] = None /\ erring[w] = {} /\ adding[w] = {}
      /\ \A s \in running[w] : RunsOn(steps[s], w)
  BY <1>2 DEF Ready, OwnInv, RunsOwned, Reporting
<1>4. work = {} \/ \E s \in Steps : work = {s} /\ MayGive(s, w, running[w])
                                    /\ RunsOn(steps'[s], w)
  BY <1>2 DEF Gives, RunsOn
<1>5. work \cap running[w] = {}
  BY <1>3, <1>4 DEF MayGive, RunsOn
<1>6. ASSUME NEW v \in Workers, NEW x \in running[v], RunsOn(steps[x], v)
      PROVE  RunsOn(steps'[x], v)
  <2>1. x \in Steps /\ Steady(steps[x], steps'[x], {})
    BY <1>2 DEF ClientTypeOK, Gives, AllSteady
  <2>2. \A u \in Workers : u \in {} => ~Alive(u)
    OBVIOUS
  <2> QED BY <1>6, <2>1, <2>2, SteadyOwner
<1>7. /\ \A v \in Workers : running[v] \subseteq running'[v]
      /\ \A v \in Workers \ {w} : running'[v] = running[v] /\ erring'[v] = erring[v]
      /\ running'[w] \subseteq running[w] \cup work
      /\ \/ running'[w] = running[w] /\ erring'[w] \in {erring[w], work}
         \/ erring'[w] = erring[w]
  <2>1. CASE LoseWork(w, work)
    BY <2>1 DEF LoseWork, clientVars
  <2>2. CASE ReceiveUnloadable(w, work)
    BY <2>2 DEF ReceiveUnloadable, ClientTypeOK
  <2>3. CASE AskForWork(w, work)
    <3>1. /\ running' = [running EXCEPT ![w] = IF Cardinality(work) = 1
                                                THEN running[w] \cup work ELSE running[w]]
          /\ erring' = erring
      BY <2>3 DEF AskForWork
    <3> QED BY <3>1 DEF ClientTypeOK
  <2> QED BY <2>1, <2>2, <2>3
<1>8. RunsOwned'
  <2> SUFFICES ASSUME NEW v \in Workers, NEW x \in running'[v], ~Reporting(v, x)
               PROVE  RunsOn(steps'[x], v)
    BY <1>1 DEF RunsOwned, Reporting
  <2>1. CASE x \in running[v]
    BY <1>6, <2>1 DEF OwnInv, RunsOwned
  <2>2. CASE x \notin running[v]
    <3>1. v = w /\ x \in work
      BY <1>7, <2>2
    <3> QED BY <1>4, <3>1
  <2> QED BY <2>1, <2>2
<1>9. ReportsDue'
  BY <1>1, <1>7 DEF OwnInv, ReportsDue
<1>10. ErringApart'
  <2> SUFFICES ASSUME NEW v \in Workers PROVE erring'[v] \cap running'[v] = {}
    BY DEF ErringApart
  <2>1. CASE v # w
    BY <1>7, <2>1 DEF OwnInv, ErringApart
  <2>2. CASE v = w
    BY <1>3, <1>5, <1>7, <2>2
  <2> QED BY <2>1, <2>2
<1>11. AddsFirst'
  <2> SUFFICES ASSUME "DONE" \in Claims, NEW v \in Workers
               PROVE  adding'[v] = {} \/ running'[v] = {}
    BY DEF AddsFirst
  <2>1. CASE v # w
    BY <1>1, <1>7, <2>1 DEF OwnInv, AddsFirst
  <2> QED BY <1>1, <1>3, <2>1
<1>12. Lively
  <2> SUFFICES ASSUME NEW s \in Steps
               PROVE  /\ steps'[s].status = "RUNNING" => steps[s].status # "DONE"
                      /\ steps'[s].status = "DONE" => steps[s].status = "DONE"
                      /\ \A v \in Workers : s \in Executing(v)' =>
                             s \in Executing(v) \/ \A u \in Workers : s \notin Executing(u)
    BY DEF Lively
  <2>1. CASE s \notin work
    <3>1. steps'[s] = steps[s]
      BY <1>2, <2>1 DEF Gives
    <3>2. \A v \in Workers : s \in Executing(v)' => s \in Executing(v)
      BY <1>1, <1>7, <2>1 DEF Executing
    <3> QED BY <3>1, <3>2
  <2>2. CASE s \in work
    <3>1. MayGive(s, w, running[w]) /\ RunsOn(steps'[s], w)
      BY <1>4, <2>2
    <3>2. \A u \in Workers : s \in Executing(u) => RunsOn(steps[s], u) /\ s \in running[u]
      BY DEF OwnInv, RunsOwned, Reporting, Executing
    <3>3. \A u \in Workers : s \notin Executing(u)
      BY <1>5, <2>2, <3>1, <3>2 DEF MayGive, RunsOn
    <3> QED BY <3>1, <3>3 DEF MayGive, RunsOn
  <2> QED BY <2>1, <2>2
<1> QED BY <1>8, <1>9, <1>10, <1>11, <1>12 DEF OwnInv, Owns

LEMMA ReportUnloadableOwns ==
    ASSUME OwnSetting, IInv, ClientTypeOK, HoldInv, OwnInv, NEW w \in Workers,
           NEW s \in Steps, ReportUnloadable(w, s)
    PROVE  Owns
<1>1. PICK q : q = LoadErrorRequest(w, s)
  OBVIOUS
<1>2. /\ q \in Calls /\ PlainCall(q) /\ q.worker = w /\ q.step = s
      /\ q.status = "FAILED" /\ q.new_deps = {}
  BY <1>1, LoadErrorPlain
<1>3. /\ AddStep(q) /\ s \in erring[w] /\ UNCHANGED <<phase, adding, running, starting, calling>>
      /\ erring' = [erring EXCEPT ![w] = erring[w] \ {s}]
  BY <1>1 DEF ReportUnloadable
<1>4. RunsOwned'
  <2> SUFFICES ASSUME NEW v \in Workers, NEW x \in running[v], RunsOn(steps[x], v)
               PROVE  RunsOn(steps'[x], v)
    BY <1>3 DEF OwnInv, RunsOwned, Reporting
  <2>1. x # q.step \/ ~EndsRun(steps[x], q)
    <3> SUFFICES ASSUME x = s, EndsRun(steps[x], q) PROVE FALSE
      BY <1>2
    <3>1. v = w
      BY <1>2 DEF EndsRun, RunsOn
    <3> QED BY <1>3, <3>1 DEF OwnInv, ErringApart
  <2> QED BY <1>2, <1>3, <2>1, AddStepOwner DEF OwnSetting
<1>5. \A v \in Workers : erring'[v] \subseteq erring[v]
  BY <1>3 DEF ClientTypeOK
<1>6. ReportsDue' /\ ErringApart' /\ AddsFirst'
  BY <1>3, <1>5 DEF OwnInv, ReportsDue, ErringApart, AddsFirst
<1>7. AllQuiet
  BY <1>2, <1>3, AddStepQuiet DEF OwnSetting
<1>8. Lively
  BY <1>3, <1>7, SameExecuting, QuietLively
<1> QED BY <1>4, <1>6, <1>8 DEF OwnInv, Owns

\* The report of a result ends no run but the one it is about.
LEMMA ResultOwner ==
    ASSUME OwnSetting, IInv, ClientTypeOK, HoldInv, NEW q \in Calls, PlainCall(q),
           AddStep(q), UNCHANGED phase, q.new_deps = {}, NEW v \in Workers,
           NEW x \in running[v], RunsOn(steps[x], v), v # q.worker \/ x # q.step
    PROVE  RunsOn(steps'[x], v)
<1>1. x # q.step \/ ~EndsRun(steps[x], q)
  BY DEF EndsRun, RunsOn
<1> QED BY <1>1, AddStepOwner DEF OwnSetting

LEMMA TrackOwns ==
    ASSUME OwnSetting, IInv, ClientTypeOK, HoldInv, OwnInv, NEW w \in Workers,
           NEW s \in Steps, Track(w, s)
    PROVE  Owns
<1>1. PICK q : q = TrackingRequest(w, s)
  OBVIOUS
<1>2. /\ q \in Calls /\ PlainCall(q) /\ q.worker = w /\ q.step = s
      /\ q.status = "RUNNING" /\ q.new_deps = {}
  BY <1>1, TrackingPlain
<1>3. AddStep(q) /\ s \in running[w] /\ UNCHANGED clientVars /\ UNCHANGED phase
      /\ UNCHANGED <<running, calling>>
  BY <1>1 DEF Track, clientVars
<1>4. ASSUME NEW v \in Workers, NEW x \in running[v], RunsOn(steps[x], v)
      PROVE  RunsOn(steps'[x], v)
  <2>1. ~EndsRun(steps[x], q)
    BY <1>2 DEF EndsRun
  <2> QED BY <1>2, <1>3, <1>4, <2>1, AddStepOwner DEF OwnSetting
<1>5. OwnInv'
  BY <1>3, <1>4 DEF OwnInv, RunsOwned, Reporting, ReportsDue, ErringApart, AddsFirst, clientVars
<1>6. ASSUME LifeSetting PROVE Lively
  <2>1. steps[s].status = "RUNNING"
    BY <1>3, <1>6 DEF LifeSetting, OwnInv, RunsOwned, Reporting, RunsOn
  <2>2. \A x \in Steps : Answered(steps[x], steps'[x], x, q)
    BY <1>2, <1>3, AddStepHolds DEF HoldInv, OwnSetting
  <2>3. AllQuiet
    BY <1>2, <2>1, <2>2 DEF Answered, AllQuiet, NoNews
  <2> QED BY <1>3, <2>3, SameExecuting, QuietLively
<1> QED BY <1>5, <1>6 DEF Owns

LEMMA FinishOwns ==
    ASSUME OwnSetting, IInv, ClientTypeOK, HoldInv, OwnInv, NEW w \in Workers,
           NEW s \in Steps, NEW status \in Endings, NEW missing \in BOOLEAN,
           Finish(w, s, status, missing)
    PROVE  Owns
<1>1. status \in {"DONE", "FAILED"} /\ status \in {"DONE", "FAILED", "PENDING"}
      /\ {} \in SUBSET Steps
  BY ClusterAssumption DEF ClusterAssumption
<1>2. PICK q : q = Outcome(w, s, status, {})
  OBVIOUS
<1>3. /\ q \in Calls /\ PlainCall(q) /\ q.worker = w /\ q.step = s
      /\ q.status = status /\ q.new_deps = {}
  BY <1>1, <1>2, OutcomePlain DEF OwnSetting
<1>4. /\ AddStep(q) /\ Ready(w) /\ s \in running[w]
      /\ running' = [running EXCEPT ![w] = running[w] \ {s}]
      /\ adding' = [adding EXCEPT ![w] = IF missing THEN {s} ELSE {}]
      /\ UNCHANGED <<phase, starting, erring, calling>>
      /\ missing => "missing" \in Behaviours
  BY <1>2 DEF Finish
<1>5. /\ \A v \in Workers : running'[v] = IF v = w THEN running[w] \ {s} ELSE running[v]
      /\ \A v \in Workers : adding'[v] = IF v = w THEN (IF missing THEN {s} ELSE {})
                                                  ELSE adding[v]
      /\ calling[w] = None /\ adding[w] = {}
  BY <1>4 DEF ClientTypeOK, Ready
<1>6. RunsOwned'
  <2> SUFFICES ASSUME NEW v \in Workers, NEW x \in running'[v], ~Reporting(v, x)
               PROVE  RunsOn(steps'[x], v)
    BY <1>4 DEF RunsOwned, Reporting
  <2>1. x \in running[v] /\ RunsOn(steps[x], v) /\ (v # q.worker \/ x # q.step)
    BY <1>3, <1>5 DEF OwnInv, RunsOwned
  <2> QED BY <1>3, <1>4, <2>1, ResultOwner
<1>7. ReportsDue'
  BY <1>4, <1>5 DEF OwnInv, ReportsDue
<1>8. ErringApart'
  BY <1>4, <1>5 DEF OwnInv, ErringApart
<1>9. AddsFirst'
  BY <1>4, <1>5 DEF OwnInv, AddsFirst, OwnSetting
<1>10. Lively
  <2>1. \A x \in Steps : Answered(steps[x], steps'[x], x, q)
    BY <1>3, <1>4, AddStepHolds DEF HoldInv, OwnSetting
  <2>2. s \in Executing(w)
    BY <1>4, <1>5 DEF Executing
  <2>3. \A v \in Workers : Executing(v)' \subseteq Executing(v)
    BY <1>4, <1>5 DEF Executing
  <2> QED BY <1>1, <1>3, <2>1, <2>2, <2>3 DEF Answered, Lively
<1> QED BY <1>6, <1>7, <1>8, <1>9, <1>10 DEF OwnInv, Owns

LEMMA SuspendOwns ==
    ASSUME OwnSetting, ClientTypeOK, HoldInv, OwnInv, NEW w \in Workers,
           NEW s \in Steps, Suspend(w, s)
    PROVE  Owns
<1>1. Yields(s) \in SUBSET Steps /\ "PENDING" \in {"DONE", "FAILED", "PENDING"}
  BY ClusterAssumption DEF ClusterAssumption
<1>2. PICK q : q = Outcome(w, s, "PENDING", Yields(s))
  OBVIOUS
<1>3. q.step = s /\ q.status = "PENDING"
  BY <1>1, <1>2, OutcomePlain DEF OwnSetting
<1>4. /\ Ready(w) /\ s \in running[w] /\ Yields(s) # {}
      /\ calling' = [calling EXCEPT ![w] = q]
      /\ UNCHANGED <<steps, phase, running, starting, erring>>
  BY <1>2 DEF Suspend, vars
<1>5. "repeat" \notin Behaviours /\ "DONE" \notin Claims
  BY <1>4 DEF OwnSetting
<1>6. \A v \in Workers : calling'[v] = IF v = w THEN q ELSE calling[v]
  BY <1>4 DEF ClientTypeOK
<1>7. OwnInv'
  BY <1>3, <1>4, <1>5, <1>6 DEF OwnInv, RunsOwned, Reporting, ReportsDue, ErringApart, AddsFirst
<1>8. \A v \in Workers : Executing(v)' \subseteq Executing(v)
  BY <1>4, <1>6 DEF Executing, Ready
<1>9. AllQuiet
  BY <1>4, UnchangedSteps DEF HoldInv, ServerHolds
<1> QED BY <1>7, <1>8, <1>9, QuietLively DEF Owns

\* A result that is reported, with or without an answer.
LEMMA UnheardOwns ==
    ASSUME OwnSetting, IInv, ClientTypeOK, HoldInv, OwnInv, NEW w \in Workers,
           NEW q \in Calls, PlainCall(q), q.worker = w, q.status \in {"DONE", "FAILED"},
           q.new_deps = {}, CallUnheard(w, q),
           calling[w] = None \/ calling[w].step = q.step
    PROVE  Owns
<1>1. /\ AddStep(q) /\ "repeat" \in Behaviours /\ calling' = [calling EXCEPT ![w] = q]
      /\ UNCHANGED <<phase, adding, running, starting, erring>>
  BY DEF CallUnheard
<1>2. \A v \in Workers : calling'[v] = IF v = w THEN q ELSE calling[v]
  BY <1>1 DEF ClientTypeOK
<1>3. q # None
  BY ClusterAssumption DEF ClusterAssumption, Calls
<1>4. RunsOwned'
  <2> SUFFICES ASSUME NEW v \in Workers, NEW x \in running[v],
                      ~(calling'[v] # None /\ calling'[v].step = x)
               PROVE  RunsOn(steps'[x], v)
    BY <1>1 DEF RunsOwned, Reporting
  <2>1. RunsOn(steps[x], v) /\ (v # q.worker \/ x # q.step)
    BY <1>2, <1>3 DEF OwnInv, RunsOwned, Reporting
  <2> QED BY <1>1, <2>1, ResultOwner
<1>5. ReportsDue'
  BY <1>1, <1>2 DEF OwnInv, ReportsDue
<1>6. ErringApart' /\ AddsFirst'
  BY <1>1 DEF OwnInv, ErringApart, AddsFirst
<1> QED BY <1>1, <1>4, <1>5, <1>6 DEF OwnInv, Owns, LifeSetting

LEMMA CallOwns ==
    ASSUME OwnSetting, IInv, ClientTypeOK, HoldInv, OwnInv, NEW w \in Workers, Call(w)
    PROVE  Owns
<1>1. PICK q : q = calling[w]
  OBVIOUS
<1>2. /\ q # None /\ AddStep(q) /\ adding[w] = {}
      /\ UNCHANGED <<phase, adding, starting, erring>>
  BY <1>1 DEF Call
<1>3. q \in Calls /\ PlainCall(q) /\ q.worker = w /\ q.status # "RUNNING"
  BY <1>1, <1>2 DEF HoldInv, PlainCalls, ClientTypeOK
<1>4. /\ running' = [running EXCEPT ![w] = running[w] \ {q.step}]
      /\ calling' = [calling EXCEPT ![w] = None]
  BY <1>1, <1>3, PlainCallAnswered DEF Call
<1>5. /\ \A v \in Workers : running'[v] = IF v = w THEN running[w] \ {q.step} ELSE running[v]
      /\ \A v \in Workers : calling'[v] = IF v = w THEN None ELSE calling[v]
  BY <1>2, <1>4 DEF ClientTypeOK
<1>6. \/ /\ "repeat" \in Behaviours /\ q.status \in {"DONE", "FAILED"} /\ q.new_deps = {}
      \/ /\ "repeat" \notin Behaviours /\ q.status = "PENDING" /\ q.step \in running[w]
  BY <1>1, <1>2 DEF OwnInv, ReportsDue
<1>7. RunsOwned'
  <2> SUFFICES ASSUME NEW v \in Workers, NEW x \in running'[v],
                      v = w \/ ~Reporting(v, x)
               PROVE  RunsOn(steps'[x], v)
    BY <1>5 DEF RunsOwned, Reporting
  <2>1. x \in running[v] /\ (v # w \/ x # q.step)
    BY <1>5
  <2>2. RunsOn(steps[x], v)
    BY <1>1, <2>1 DEF OwnInv, RunsOwned, Reporting
  <2>3. CASE q.new_deps = {}
    BY <1>2, <1>3, <2>1, <2>2, <2>3, ResultOwner
  <2>4. CASE "repeat" \notin Behaviours /\ q.step \in running[w]
    <3>1. RunsOn(steps[q.step], w)
      BY <2>4 DEF OwnInv, RunsOwned, Reporting
    <3>2. x # q.step
      BY <2>1, <2>2, <3>1 DEF RunsOn
    <3> QED BY <1>2, <1>3, <2>1, <2>2, <3>2, AddStepOwner DEF OwnSetting
  <2> QED BY <1>6, <2>3, <2>4
<1>8. ReportsDue'
  BY <1>5 DEF OwnInv, ReportsDue
<1>9. ErringApart' /\ AddsFirst'
  BY <1>2, <1>5 DEF OwnInv, ErringApart, AddsFirst
<1>10. ASSUME LifeSetting PROVE Lively
  <2>1. q.status \notin {"RUNNING", "DONE"}
    BY <1>6, <1>10 DEF LifeSetting
  <2>2. AllQuiet
    BY <1>2, <1>3, <2>1, AddStepQuiet DEF OwnSetting
  <2>3. \A v \in Workers : Executing(v)' \subseteq Executing(v)
    BY <1>1, <1>5 DEF Executing
  <2> QED BY <2>2, <2>3, QuietLively
<1> QED BY <1>7, <1>8, <1>9, <1>10 DEF OwnInv, Owns

LEMMA CrashOwns ==
    ASSUME ClientTypeOK, HoldInv, OwnInv, NEW w \in Workers, Crash(w)
    PROVE  Owns
<1>1. /\ running' = [running EXCEPT ![w] = {}] /\ erring' = [erring EXCEPT ![w] = {}]
      /\ calling' = [calling EXCEPT ![w] = None] /\ adding' = [adding EXCEPT ![w] = {}]
      /\ UNCHANGED steps
  BY DEF Crash, vars
<1>2. /\ \A v \in Workers : running'[v] = IF v = w THEN {} ELSE running[v]
      /\ \A v \in Workers : erring'[v] = IF v = w THEN {} ELSE erring[v]
      /\ \A v \in Workers : calling'[v] = IF v = w THEN None ELSE calling[v]
      /\ \A v \in Workers : adding'[v] = IF v = w THEN {} ELSE adding[v]
  BY <1>1 DEF ClientTypeOK
<1>3. RunsOwned' /\ ReportsDue'
  BY <1>1, <1>2 DEF OwnInv, RunsOwned, Reporting, ReportsDue
<1>4. ErringApart' /\ AddsFirst'
  BY <1>2 DEF OwnInv, ErringApart, AddsFirst
<1>5. \A v \in Workers : Executing(v)' \subseteq Executing(v)
  BY <1>2 DEF Executing
<1>6. AllQuiet
  BY <1>1, UnchangedSteps DEF HoldInv, ServerHolds
<1> QED BY <1>3, <1>4, <1>5, <1>6, QuietLively DEF OwnInv, Owns

LEMMA WorkerNextOwns ==
    ASSUME OwnSetting, IInv, ClientTypeOK, HoldInv, OwnInv, NEW w \in Workers, WorkerNext(w)
    PROVE  Owns
<1>0. PlainSetting /\ ServerHolds
  BY DEF OwnSetting, HoldInv
<1>1. CASE \E s \in Steps : RegisterBatcher(w, s)
  BY <1>0, <1>1 DEF RegisterBatcher, PlainSetting
<1>2. CASE \E s \in Steps, status \in Claims : Schedule(w, s, status)
  BY <1>2, ScheduleOwns
<1>3. CASE Announce(w)
  <2>1. UNCHANGED <<steps, adding, running, erring, calling>>
    BY <1>3 DEF Announce, AddWorker
  <2>2. OwnInv'
    BY <2>1 DEF OwnInv, RunsOwned, Reporting, ReportsDue, ErringApart, AddsFirst
  <2>3. AllQuiet
    BY <1>0, <2>1, UnchangedSteps DEF ServerHolds
  <2>4. Lively
    BY <2>1, <2>3, SameExecuting, QuietLively
  <2> QED BY <2>2, <2>4 DEF Owns
<1>4. CASE \E work \in Replies(w) : AskForWork(w, work) \/ LoseWork(w, work)
                                    \/ ReceiveUnloadable(w, work)
  BY <1>4, ReceivingOwns
<1>5. CASE CountWork(w) \/ KeepAlive(w)
  <2>1. UNCHANGED steps /\ UNCHANGED clientVars
    BY <1>5 DEF CountWork, CountPending, KeepAlive, Ping
  <2> QED BY <2>1, IdleOwns DEF Owns
<1>6. CASE \E s \in Steps : ReportUnloadable(w, s)
  BY <1>6, ReportUnloadableOwns
<1>7. CASE StartBatch(w)
  BY <1>7 DEF StartBatch, HoldInv, PlainCalls
<1>8. CASE \E s \in Steps : Track(w, s)
  BY <1>8, TrackOwns
<1>9. CASE \E s \in Steps : GiveUpResources(w, s)
  <2>1. PICK s \in Steps : GiveUpResources(w, s)
    BY <1>9
  <2>2. DecreaseRunningStepResources(s, Need(s)) /\ UNCHANGED clientVars
    BY <2>1 DEF GiveUpResources
  <2>3. AllSteady({}) /\ AllQuiet
    BY <1>0, <2>2, DecreasePlain DEF ServerHolds
  <2>4. \A v \in Workers : v \in {} => ~Alive(v)
    OBVIOUS
  <2> QED BY <2>2, <2>3, <2>4, QuietOwns DEF Owns
<1>10. CASE \E s \in Steps, status \in Endings, missing \in BOOLEAN :
               Finish(w, s, status, missing)
  BY <1>10, FinishOwns
<1>11. CASE \E s \in Steps : Suspend(w, s)
  BY <1>11, SuspendOwns
<1>12. CASE \E s \in Steps, status \in Endings : FinishUnheard(w, s, status)
  <2>1. PICK s \in Steps, status \in Endings : FinishUnheard(w, s, status)
    BY <1>12
  <2>2. status \in {"DONE", "FAILED"} /\ status \in {"DONE", "FAILED", "PENDING"}
        /\ {} \in SUBSET Steps
    BY ClusterAssumption DEF ClusterAssumption
  <2>3. PICK q : q = Outcome(w, s, status, {})
    OBVIOUS
  <2>4. /\ q \in Calls /\ PlainCall(q) /\ q.worker = w /\ q.status \in {"DONE", "FAILED"}
        /\ q.new_deps = {}
    BY <1>0, <2>2, <2>3, OutcomePlain
  <2>5. CallUnheard(w, q) /\ calling[w] = None
    BY <2>1, <2>3 DEF FinishUnheard, Ready
  <2> QED BY <2>4, <2>5, UnheardOwns
<1>13. CASE Call(w)
  BY <1>13, CallOwns
<1>14. CASE RepeatUnheard(w)
  <2>1. PICK q : q = calling[w]
    OBVIOUS
  <2>2. q # None /\ CallUnheard(w, q) /\ "repeat" \in Behaviours
    BY <1>14, <2>1 DEF RepeatUnheard, CallUnheard
  <2>3. q \in Calls /\ PlainCall(q) /\ q.worker = w
    BY <2>1, <2>2 DEF HoldInv, PlainCalls, ClientTypeOK
  <2>4. q.status \in {"DONE", "FAILED"} /\ q.new_deps = {}
    BY <2>1, <2>2 DEF OwnInv, ReportsDue
  <2> QED BY <2>1, <2>2, <2>3, <2>4, UnheardOwns
<1>15. CASE Crash(w)
  BY <1>15, CrashOwns
<1> QED BY <1>1, <1>2, <1>3, <1>4, <1>5, <1>6, <1>7, <1>8, <1>9, <1>10, <1>11,
           <1>12, <1>13, <1>14, <1>15 DEF WorkerNext

LEMMA OperateOwns ==
    ASSUME OwnSetting, IInv, ClientTypeOK, HoldInv, OwnInv, Operate
    PROVE  Owns
<1>0. ServerHolds /\ UNCHANGED clientVars /\ \A v \in Workers : v \in {} => ~Alive(v)
  BY DEF HoldInv, Operate
<1>1. SUFFICES AllSteady({}) /\ AllQuiet
  BY <1>0, QuietOwns DEF Owns
<1>2. CASE SetPaused(~paused) \/ Restart \/ \E r \in Resources, a \in Amount :
                                                UpdateResource(r, a)
  <2>1. UNCHANGED steps
    BY <1>2 DEF SetPaused, Restart, UpdateResource
  <2> QED BY <1>0, <2>1, UnchangedSteps DEF ServerHolds
<1>3. CASE \E w \in Workers : DisableWorker(w)
  BY <1>0, <1>3, DisableWorkerPlain DEF ServerHolds
<1>4. CASE \E s \in Steps : ForgiveFailures(s)
  <2>1. PICK s \in Steps : ForgiveFailures(s)
    BY <1>4
  <2>2. PICK new \in {"PENDING", "DONE"} : new = "PENDING"
    OBVIOUS
  <2>3. /\ steps' = SetStatus(steps, s, new) /\ steps[s].status = "FAILED"
        /\ steps[s].status # Absent
    BY <2>1, <2>2 DEF ForgiveFailures, Absent
  <2> QED BY <1>0, <2>2, <2>3, StatusPlain DEF ServerHolds
<1>5. CASE \E s \in Steps : ReEnableStep(s)
  BY <1>0, <1>5, ReEnableStepPlain DEF ServerHolds
<1> QED BY <1>2, <1>3, <1>4, <1>5 DEF Operate, OwnSetting

LEMMA NextOwns ==
    ASSUME OwnSetting, IInv, ClientTypeOK, HoldInv, OwnInv, [ClusterNext]_allVars
    PROVE  Owns
<1>0. ServerHolds /\ \A v \in Workers : v \in {} => ~Alive(v)
  BY DEF HoldInv
<1>1. CASE UNCHANGED allVars
  <2>1. UNCHANGED steps /\ UNCHANGED clientVars
    BY <1>1 DEF allVars, vars
  <2> QED BY <2>1, IdleOwns DEF Owns
<1>2. CASE \E w \in Workers : WorkerNext(w)
  BY <1>2, WorkerNextOwns
<1>3. CASE TimePasses
  <2>1. AllSteady({}) /\ AllQuiet /\ UNCHANGED clientVars
    BY <1>0, <1>3, TickPlain DEF ServerHolds, TimePasses
  <2> QED BY <1>0, <2>1, QuietOwns DEF Owns
<1>4. CASE PruneNow
  <2>1. AllSteady(TimedOut(workers)) /\ AllQuiet /\ UNCHANGED clientVars
    BY <1>0, <1>4, PrunePlain DEF ServerHolds, PruneNow
  <2>2. ASSUME NEW w \in Workers, w \in TimedOut(workers) PROVE ~Alive(w)
    <3>1. workers[w].active /\ workers[w].last_active > DisconnectDelay
      BY <2>2 DEF TimedOut
    <3>2. workers[w].last_active \in Nat /\ DisconnectDelay \in Nat
      BY TimingAssumption DEF TimingAssumption, IInv, TableOK, WorkerRecords
    <3> QED BY <1>0, <3>1, <3>2 DEF ServerHolds, Heard
  <2> QED BY <2>1, <2>2, QuietOwns DEF Owns
<1>5. CASE Operate
  BY <1>5, OperateOwns
<1> QED BY <1>1, <1>2, <1>3, <1>4, <1>5 DEF ClusterNext

LEMMA InitOwns == ClusterInit => OwnInv
BY DEF ClusterInit, OwnInv, RunsOwned, ReportsDue, ErringApart, AddsFirst

LEMMA OwnInductive ==
    ASSUME OwnSetting PROVE ClusterSpec => [](IInv /\ ClientTypeOK /\ HoldInv /\ OwnInv)
<1>1. PlainSetting
  BY DEF OwnSetting
<1>2. IInv /\ ClientTypeOK /\ HoldInv /\ OwnInv /\ [ClusterNext]_allVars => OwnInv'
  BY NextOwns DEF Owns
<1> QED BY <1>1, <1>2, HoldInductive, InitOwns, PTL DEF ClusterSpec

\* What the scheduler believes of a step that a worker executes is true: the step is
\* RUNNING on that worker, through lost replies, repeated reports, crashes, disabled
\* workers and restarts of the server.  No two workers execute one step.
THEOREM OwnersAlwaysAgree ==
    ASSUME OwnSetting PROVE ClusterSpec => []OwnershipAgrees
<1>1. OwnInv => OwnershipAgrees
  BY DEF OwnInv, RunsOwned, Reporting, RunsOn, OwnershipAgrees, Executing
<1> QED BY <1>1, OwnInductive, PTL

-----------------------------------------------------------------------------
(* The cluster implements StepLife. *)

\* The variables of StepLife, for one step.
ExecutorsOf(s) == {w \in Workers : s \in Executing(w)}

\* With OwnInv the executors of a step are none or the one it runs on.
LEMMA ExecutorsOwn ==
    ASSUME OwnInv, NEW s \in Steps
    PROVE  /\ ExecutorsOf(s) = {} \/ \E e \in Workers : ExecutorsOf(s) = {e}
           /\ ExecutorsOf(s) # {} => RecordOf(s) = "running"
<1>1. \A w \in ExecutorsOf(s) : RunsOn(steps[s], w)
  BY DEF OwnInv, RunsOwned, Reporting, Executing, ExecutorsOf
<1> QED BY <1>1 DEF RunsOn, RecordOf, ExecutorsOf

LEMMA LifeStep ==
    ASSUME OwnInv, OwnInv', Lively, NEW s \in Steps
    PROVE  \/ Life!Assign(s) \/ Life!Begin(s) \/ Life!End(s) \/ Life!TakeBack(s)
           \/ Life!Reopen(s)
           \/ RecordOf(s)' = RecordOf(s) /\ ExecutorsOf(s)' = ExecutorsOf(s)
<1>1. PICK r, r2, E, E2 : /\ r = RecordOf(s) /\ r2 = RecordOf(s)'
                          /\ E = ExecutorsOf(s) /\ E2 = ExecutorsOf(s)'
  OBVIOUS
<1>2. r \in {"idle", "running", "done"} /\ r2 \in {"idle", "running", "done"}
  BY <1>1 DEF RecordOf
<1>3. (E = {} \/ \E e \in Workers : E = {e}) /\ (E # {} => r = "running")
  BY <1>1, ExecutorsOwn
<1>4. (E2 = {} \/ \E e \in Workers : E2 = {e}) /\ (E2 # {} => r2 = "running")
  <2>1. \A w \in E2 : w \in Workers /\ RunsOn(steps[s], w)'
    BY <1>1 DEF OwnInv, RunsOwned, Reporting, Executing, ExecutorsOf
  <2> QED BY <1>1, <2>1 DEF RunsOn, RecordOf
<1>5. r2 = "running" => r # "done"
  BY <1>1 DEF RecordOf, Lively
<1>6. r2 = "done" => r = "done" \/ E # {}
  BY <1>1 DEF RecordOf, Lively, ExecutorsOf
<1>7. E # {} /\ E2 # {} => E2 = E
  <2>1. \A v \in E2 : v \in E \/ E = {}
    BY <1>1 DEF Lively, ExecutorsOf
  <2> QED BY <1>3, <1>4, <2>1
<1>8. /\ Life!Assign(s) <=> r = "idle" /\ r2 = "running" /\ E = {} /\ E2 = {}
      /\ Life!Begin(s) <=> /\ r \in {"idle", "running"} /\ r2 = "running" /\ E = {}
                           /\ \E e \in Workers : E2 = {e}
      /\ Life!End(s) <=> /\ r = "running" /\ r2 \in {"idle", "running", "done"}
                         /\ (\E e \in Workers : E = {e}) /\ E2 = {}
      /\ Life!TakeBack(s) <=> r = "running" /\ r2 = "idle" /\ E = {} /\ E2 = {}
      /\ Life!Reopen(s) <=> r = "done" /\ r2 = "idle" /\ E = {} /\ E2 = {}
  BY <1>1 DEF Life!Assign, Life!Begin, Life!End, Life!TakeBack, Life!Reopen, Life!Records,
              ExecutorsOf
<1> QED BY <1>1, <1>2, <1>3, <1>4, <1>5, <1>6, <1>7, <1>8

\* Scheduler and workers implement StepLife, when no report is repeated and no worker
\* finds a step complete that nobody has executed: every step of the cluster is, for
\* each step of the table, a step of its life or none.
THEOREM ClusterImplementsLife ==
    ASSUME LifeSetting PROVE ClusterSpec => WorkersImplementLife
<1>1. LifeSetting /\ OwnSetting
  BY DEF LifeSetting
<1>2. ClusterInit => Life!LifeInit
  <2> SUFFICES ASSUME ClusterInit PROVE Life!LifeInit
    OBVIOUS
  <2>1. \A s \in Steps : RecordOf(s) = "idle"
    <3>1. \A s \in Steps : steps[s].status = Absent
      BY DEF ClusterInit, Init, NoStep, NewStep
    <3> QED BY <3>1 DEF RecordOf, Absent
  <2>2. \A w \in Workers : Executing(w) = {}
    BY DEF ClusterInit, Executing
  <2>3. \A s \in Steps : {w \in Workers : s \in Executing(w)} = {}
    BY <2>2
  <2> QED BY <2>1, <2>3 DEF Life!LifeInit
<1>3. /\ IInv /\ ClientTypeOK /\ HoldInv /\ OwnInv /\ OwnInv' /\ [ClusterNext]_allVars
      => [Life!LifeNext]_(Life!lifeVars)
  <2> SUFFICES ASSUME IInv, ClientTypeOK, HoldInv, OwnInv, OwnInv', [ClusterNext]_allVars
               PROVE  Life!LifeNext
    OBVIOUS
  <2>1. Lively
    BY <1>1, NextOwns DEF Owns
  <2>2. ASSUME NEW s \in Steps
        PROVE  \/ Life!Assign(s) \/ Life!Begin(s) \/ Life!End(s) \/ Life!TakeBack(s)
               \/ Life!Reopen(s)
               \/ RecordOf(s)' = RecordOf(s) /\ ExecutorsOf(s)' = ExecutorsOf(s)
    BY <2>1, LifeStep
  <2> QED BY <2>2 DEF Life!LifeNext, ExecutorsOf
<1> QED BY <1>1, <1>2, <1>3, OwnInductive, PTL
        DEF ClusterSpec, WorkersImplementLife, Life!LifeSpec
=============================================================================
