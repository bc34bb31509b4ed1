----------------------------- MODULE LimitProofs -----------------------------
(***************************************************************************)
(* Proofs about resources: that the steps which are executed never need    *)
(* more than there is, and that get_work hands resources out by rank.      *)
(***************************************************************************)
EXTENDS BudgetProofs

USE DEF OrNone

-----------------------------------------------------------------------------
(* What a step needs is what the scheduler has on record.  A step that nobody *)
(* has scheduled yet, a placeholder for a dependency, needs nothing so far.   *)

Unscheduled == {Absent, "UNKNOWN"}

Sized(t, n) ==
    /\ t.resources_running \in {None, n}
    /\ t.status \notin Unscheduled => t.resources = n

SameAmounts(t, u) ==
    u.resources = t.resources /\ u.resources_running = t.resources_running

\* A change of t into u that does not touch what the step needs.
SameSize(t, u) ==
    u = NoStep \/ (SameAmounts(t, u) /\ (t.status \in Unscheduled => u.status = t.status))

LEMMA SameSizeFits ==
    ASSUME NEW t, NEW u, SameSize(t, u), NEW n, Sized(t, n)
    PROVE  Sized(u, n)
<1>1. NoStep.resources_running = None /\ NoStep.status = Absent
  BY DEF NoStep, NewStep
<1> QED BY <1>1 DEF SameSize, SameAmounts, Sized, Unscheduled

LEMMA ClearFailuresAmounts ==
    ASSUME NEW t \in StepRecords
    PROVE  SameAmounts(t, ClearFailures(t))
BY DEF ClearFailures, StepRecords, SameAmounts

LEMMA SetOwnStatusAmounts ==
    ASSUME NEW t \in StepRecords, NEW new \in Statuses
    PROVE  SameAmounts(t, SetOwnStatus(t, new))
<1>1. PICK d : d = ClearFailures(t)
  OBVIOUS
<1>2. PICK c : c = [d EXCEPT !.disable_time = None]
  OBVIOUS
<1>3. PICK cleared : cleared = IF t.status = "DISABLED" /\ new = "DONE" THEN c ELSE t
  OBVIOUS
<1>4. d \in StepRecords /\ SameAmounts(t, d)
  BY <1>1, ClearFailuresType, ClearFailuresAmounts
<1>5. c \in StepRecords
  BY <1>2, <1>4 DEF StepRecords
<1>6. SameAmounts(d, c)
  BY <1>2, <1>4 DEF StepRecords, SameAmounts
<1>7. cleared \in StepRecords /\ SameAmounts(t, cleared)
  BY <1>3, <1>4, <1>5, <1>6 DEF SameAmounts
<1>8. PICK f : f = IF new = "FAILED" /\ t.status # "DISABLED"
                   THEN AddFailure(cleared) ELSE cleared
  OBVIOUS
<1>9. PICK failures, first :
          AddFailure(cleared) = [cleared EXCEPT !.failures = failures, !.first_failure = first]
  BY Zenon DEF AddFailure
<1>10. AddFailure(cleared) \in StepRecords /\ SameAmounts(cleared, AddFailure(cleared))
  <2>1. SameAmounts(cleared, AddFailure(cleared))
    BY <1>7, <1>9 DEF StepRecords, SameAmounts
  <2> QED BY <1>7, <2>1, AddFailureType
<1>11. f \in StepRecords /\ SameAmounts(t, f)
  BY <1>7, <1>8, <1>10 DEF SameAmounts
<1>12. PICK stored : stored = StatusStored(f, t.status, new)
  OBVIOUS
<1>13. PICK updated : updated = IF stored # t.status THEN 0 ELSE f.updated
  OBVIOUS
<1>14. PICK disabled : disabled = IF stored # "DISABLED" THEN f.disable_time
                                  ELSE IF new = "FAILED" THEN 0 ELSE None
  OBVIOUS
<1>15. PICK retry : retry = IF stored = "FAILED" THEN RetryDelay + 1 ELSE f.retry
  OBVIOUS
<1>16. PICK remove : remove = IF stored = "FAILED" /\ (t.batch_id # {} /\ ~t.batchable)
                              THEN 0 ELSE f.remove
  OBVIOUS
<1>17. SetOwnStatus(t, new) \in {t, Stored(f, stored, updated, disabled, retry, remove)}
  BY <1>1, <1>2, <1>3, <1>8, <1>12, <1>13, <1>14, <1>15, <1>16 DEF SetOwnStatus, Stored
<1>18. SameAmounts(f, Stored(f, stored, updated, disabled, retry, remove))
  BY <1>11 DEF StepRecords, Stored, SameAmounts
<1> QED BY <1>11, <1>17, <1>18 DEF SameAmounts

\* set_status when nothing is in a batch.
LEMMA SetStatusAmounts ==
    ASSUME NEW ss, \A x \in Steps : ss[x] \in StepRecords /\ Plain(ss[x]), NEW s \in Steps,
           NEW new \in Statuses, NEW x \in Steps
    PROVE  LET u == SetStatus(ss, s, new)[x]
           IN  SameAmounts(ss[x], u) /\ (x # s => u = ss[x])
<1>1. SetStatus(ss, s, new)[x] = IF x = s THEN SetOwnStatus(ss[s], new) ELSE ss[x]
  BY SetStatusPlain
<1>2. SameAmounts(ss[s], SetOwnStatus(ss[s], new))
  BY SetOwnStatusAmounts
<1> QED BY <1>1, <1>2 DEF SameAmounts

LEMMA ReEnableAmounts ==
    ASSUME NEW t, StepOK(t), t.status = "DISABLED"
    PROVE  SameSize(t, ReEnable(t))
<1>1. PICK d : d = ClearFailures(t)
  OBVIOUS
<1>2. PICK c : c = [d EXCEPT !.disable_time = None]
  OBVIOUS
<1>3. PICK v : v = SetOwnStatus(c, "FAILED")
  OBVIOUS
<1>4. t \in StepRecords /\ "FAILED" \in Statuses
  BY DEF StepOK, Statuses
<1>5. d \in StepRecords /\ SameAmounts(t, d)
  BY <1>1, <1>4, ClearFailuresType, ClearFailuresAmounts
<1>6. c \in StepRecords
  BY <1>2, <1>5 DEF StepRecords
<1>7. SameAmounts(d, c)
  BY <1>2, <1>5 DEF StepRecords, SameAmounts
<1>8. v \in StepRecords /\ SameAmounts(c, v)
  BY <1>3, <1>4, <1>6, SetOwnStatusType, SetOwnStatusAmounts
<1>9. SameAmounts(v, ClearFailures(v))
  BY <1>8, ClearFailuresAmounts
<1>10. ReEnable(t) = ClearFailures(v)
  BY <1>1, <1>2, <1>3 DEF ReEnable
<1> QED BY <1>5, <1>7, <1>8, <1>9, <1>10 DEF SameAmounts, SameSize, Unscheduled, Absent

LEMMA UpdateStatusAmounts ==
    ASSUME NEW t, StepOK(t), Plain(t)
    PROVE  SameSize(t, UpdateStatus(t))
<1>1. PICK marked : marked = [t EXCEPT !.remove =
                       IF t.stakeholders = {} /\ t.remove = None /\ t.status # "RUNNING"
                       THEN RemoveDelay ELSE t.remove]
  OBVIOUS
<1>2. t \in StepRecords
  BY DEF StepOK
<1>3. marked \in StepRecords
  <2>1. RemoveDelay \in Nat
    BY TimingAssumption DEF TimingAssumption
  <2> QED BY <1>1, <1>2, <2>1 DEF StepRecords
<1>4. SameAmounts(t, marked) /\ marked.status = t.status
  BY <1>1, <1>2 DEF StepRecords, SameAmounts
<1>5. StepOK(marked)
  BY <1>1, <1>2, <1>3 DEF StepRecords, StepOK, Timed
<1>6. PICK enabled : enabled = IF /\ t.status = "DISABLED" /\ t.disable_time # None
                                  /\ t.disable_time > DisablePersist
                               THEN ReEnable(marked) ELSE marked
  OBVIOUS
<1>7. enabled \in StepRecords /\ SameAmounts(marked, enabled)
  <2>1. CASE t.status = "DISABLED"
    <3>1. SameSize(marked, ReEnable(marked)) /\ StepOK(ReEnable(marked))
          /\ ReEnable(marked).status # Absent
      BY <1>4, <1>5, <2>1, ReEnableAmounts, ReEnableOK
    <3>2. SameAmounts(marked, ReEnable(marked))
      BY <3>1, NoStepOK DEF SameSize
    <3> QED BY <1>3, <1>6, <3>1, <3>2 DEF SameAmounts, StepOK
  <2>2. CASE t.status # "DISABLED"
    BY <1>3, <1>6, <2>2 DEF SameAmounts
  <2> QED BY <2>1, <2>2
<1>8. PICK u : u = IF enabled.status = "FAILED" /\ enabled.retry = 0
                   THEN SetOwnStatus(enabled, "PENDING") ELSE enabled
  OBVIOUS
<1>9. SameAmounts(enabled, u)
  <2>1. "PENDING" \in Statuses
    BY DEF Statuses
  <2>2. SameAmounts(enabled, SetOwnStatus(enabled, "PENDING"))
    BY <1>7, <2>1, SetOwnStatusAmounts
  <2> QED BY <1>8, <2>2 DEF SameAmounts
<1>10. u = UpdateStatus(t)
  BY <1>1, <1>6, <1>8 DEF UpdateStatus
<1>11. t.status \in Unscheduled => u.status = t.status
  BY <1>10, UpdateStatusPlain DEF Unscheduled, Absent
<1> QED BY <1>4, <1>7, <1>9, <1>10, <1>11 DEF SameAmounts, SameSize

LEMMA FailDeadWorkerStepAmounts ==
    ASSUME NEW t, StepOK(t), Plain(t)
    PROVE  SameAmounts(t, FailDeadWorkerStep(t))
<1>1. PICK orphan : orphan = [t EXCEPT !.worker_running = None]
  OBVIOUS
<1>2. t \in StepRecords /\ "FAILED" \in Statuses
  BY DEF StepOK, Statuses
<1>3. orphan \in StepRecords
  BY <1>1, <1>2 DEF StepRecords
<1>4. SameAmounts(t, orphan)
  BY <1>1, <1>2 DEF StepRecords, SameAmounts
<1>5. PICK f : f = SetOwnStatus(orphan, "FAILED")
  OBVIOUS
<1>6. f \in StepRecords /\ SameAmounts(orphan, f)
  BY <1>2, <1>3, <1>5, SetOwnStatusType, SetOwnStatusAmounts
<1>7. PICK u : u = [f EXCEPT !.retry = RetryDelay + 1]
  OBVIOUS
<1>8. SameAmounts(f, u)
  BY <1>6, <1>7 DEF StepRecords, SameAmounts
<1>9. ~EndsBatch(t, "FAILED")
  BY DEF EndsBatch, Plain
<1>10. u = FailDeadWorkerStep(t)
  BY <1>1, <1>5, <1>7, <1>9 DEF FailDeadWorkerStep
<1> QED BY <1>4, <1>6, <1>8, <1>10 DEF SameAmounts

\* prune.
LEMMA PrunedStepAmounts ==
    ASSUME NEW ss, \A y \in Steps : StepOK(ss[y]) /\ Plain(ss[y]), NEW ord,
           NEW assistants, NEW x \in Steps
    PROVE  SameSize(ss[x], PrunedStep(ss, ord, x, assistants))
<1>1. DeadRunnersOf(ss, x, assistants) = {}
  BY DEF DeadRunnersOf, EndsBatch, Plain
<1>2. PICK t : t = ss[x]
  OBVIOUS
<1>3. StepOK(t) /\ Plain(t) /\ t \in StepRecords
  BY <1>2 DEF StepOK
<1>4. PICK f : f = IF HasDeadWorker(t, assistants) THEN FailDeadWorkerStep(t) ELSE t
  OBVIOUS
<1>5. Visited(ss, ord, x, assistants) = UpdateStatus(f)
  BY <1>1, <1>2, <1>4 DEF Visited
<1>6. StepOK(f) /\ Plain(f) /\ SameSize(t, f) /\ SameAmounts(t, f)
  <2>1. CASE HasDeadWorker(t, assistants)
    <3>1. t.status \in ActiveStatuses
      BY <2>1 DEF HasDeadWorker
    <3> QED BY <1>3, <1>4, <2>1, <3>1, FailDeadWorkerStepOK, FailDeadWorkerStepPlain,
               FailDeadWorkerStepAmounts DEF SameSize, ActiveStatuses, Unscheduled, Absent
  <2>2. CASE ~HasDeadWorker(t, assistants)
    BY <1>3, <1>4, <2>2 DEF SameSize, SameAmounts
  <2> QED BY <2>1, <2>2
<1>7. SameSize(f, UpdateStatus(f))
  BY <1>6, UpdateStatusAmounts
<1>8. t.status \in Unscheduled => f.status = t.status
  BY <1>4 DEF HasDeadWorker, ActiveStatuses, Unscheduled, Absent
<1>9. SameSize(t, UpdateStatus(f))
  BY <1>6, <1>7, <1>8 DEF SameSize, SameAmounts
<1>10. PrunedStep(ss, ord, x, assistants) \in {NoStep, UpdateStatus(f)}
  BY <1>1, <1>5 DEF PrunedStep, Looped
<1> QED BY <1>2, <1>9, <1>10 DEF SameSize

-----------------------------------------------------------------------------
(* add_step. *)

\* A call makes of step x what it takes, and of its own step what it says.
Suits(t, u, x, q) ==
    \A n \in Amounts : Sized(t, n) /\ (x = q.step => q.resources = n) => Sized(u, n)

LEMMA ClaimedAmounts ==
    ASSUME NEW ss, \A y \in Steps : StepOK(ss[y]), NEW q \in Requests, PlainCall(q)
    PROVE  SameAmounts(ss[q.step], Claimed(ss, q))
<1>1. PICK t : t = ss[q.step]
  OBVIOUS
<1>2. t \in StepRecords
  BY <1>1 DEF Requests, StepOK
<1>3. PICK a : a = Attributed(t, q)
  OBVIOUS
<1>4. a \in StepRecords
  BY <1>1, <1>3, AttributedOK DEF Requests, StepOK
<1>5. SameAmounts(t, a)
  <2>1. PICK batch, runner :
            Attributed(t, q) = [t EXCEPT !.batch_id = batch, !.worker_running = runner]
    BY Zenon DEF Attributed
  <2> QED BY <1>2, <1>3, <2>1 DEF StepRecords, SameAmounts
<1>6. PICK b : b = IF q.batchable # None THEN q.batchable ELSE a.batchable
  OBVIOUS
<1>7. Claimed(ss, q) = [a EXCEPT !.resources_running = a.resources_running,
                                 !.batchable = b, !.remove = None]
  BY <1>1, <1>3, <1>6 DEF Claimed, PlainCall
<1>8. SameAmounts(a, Claimed(ss, q))
  BY <1>4, <1>7 DEF StepRecords, SameAmounts
<1> QED BY <1>1, <1>5, <1>8 DEF SameAmounts

LEMMA DescribedAmounts ==
    ASSUME NEW t \in StepRecords, NEW q, NEW enabled, t.resources_running # Shared
    PROVE  LET u == Described(t, q, enabled)
           IN  u.resources = q.resources /\ u.resources_running = t.resources_running
<1>1. PICK deps : deps = (IF q.deps # None THEN q.deps ELSE t.deps) \cup q.new_deps
  OBVIOUS
<1>2. PICK rr : rr = t.resources_running
  OBVIOUS
<1>3. PICK stk : stk = IF enabled /\ ~q.assistant THEN t.stakeholders \cup {q.worker}
                                                 ELSE t.stakeholders
  OBVIOUS
<1>4. PICK wks : wks = IF Registers(q, enabled) THEN t.workers \cup {q.worker} ELSE t.workers
  OBVIOUS
<1>5. PICK runnable : runnable = IF Registers(q, enabled) THEN TRUE ELSE t.runnable
  OBVIOUS
<1>6. Described(t, q, enabled) =
          DescribedAs(t, deps, rr, q.resources, q.retry_count, stk, wks, runnable)
  BY <1>1, <1>2, <1>3, <1>4, <1>5 DEF Described, DescribedAs
<1> QED BY <1>2, <1>6 DEF StepRecords, DescribedAs

LEMMA HeldAmounts ==
    ASSUME NEW t, StepOK(t), NEW q \in Requests
    PROVE  LET u == Held(t, q)
           IN  /\ t.status # Absent => SameAmounts(t, u) /\ u.status = t.status
               /\ t.status = Absent => u.status = "UNKNOWN" /\ u.resources_running = None
<1>1. PICK d : d = IF t.status = Absent THEN NewStep("UNKNOWN", {}, NoResources, q.priority)
                                        ELSE t
  OBVIOUS
<1>2. PICK stk : Held(t, q) = [d EXCEPT !.stakeholders = stk]
  BY <1>1, Zenon DEF Held
<1>3. t \in StepRecords
  BY DEF StepOK
<1>4. CASE t.status # Absent
  BY <1>1, <1>2, <1>3, <1>4 DEF StepRecords, SameAmounts
<1>5. CASE t.status = Absent
  BY <1>1, <1>2, <1>5 DEF NewStep
<1> QED BY <1>4, <1>5

LEMMA UpdatePriorityAmounts ==
    ASSUME NEW ss, NEW s, NEW prio, NEW x \in Steps, ss[x] \in StepRecords
    PROVE  LET u == UpdatePriority(ss, s, prio)[x]
           IN  SameAmounts(ss[x], u) /\ u.status = ss[x].status
<1>1. PICK top : top = IF prio > ss[s].priority THEN prio ELSE ss[s].priority
  OBVIOUS
<1>2. UpdatePriority(ss, s, prio)[x] \in {ss[x], [ss[x] EXCEPT !.priority = top]}
  BY <1>1 DEF UpdatePriority
<1>3. PICK v : v = [ss[x] EXCEPT !.priority = top]
  OBVIOUS
<1>4. SameAmounts(ss[x], v) /\ v.status = ss[x].status /\ SameAmounts(ss[x], ss[x])
  BY <1>3 DEF StepRecords, SameAmounts
<1> QED BY <1>2, <1>3, <1>4

LEMMA AddStepStepsSuits ==
    ASSUME NEW ss \in [Steps -> StepRecords],
           \A y \in Steps : StepOK(ss[y]) /\ Plain(ss[y]),
           NEW q \in Calls, PlainCall(q), NEW enabled \in BOOLEAN,
           ss[q.step].status # Absent, NEW x \in Steps
    PROVE  Suits(ss[x], AddStepSteps(ss, q, enabled)[x], x, q)
<1>1. /\ q \in Requests /\ q.step \in Steps /\ q.priority \in Nat
      /\ q.status \in Statuses \ {"BATCH_RUNNING"}
  BY DEF Calls, Requests
<1>2. PICK claimed : claimed = [ss EXCEPT ![q.step] = Claimed(ss, q)]
  OBVIOUS
<1>3. PICK set : set = IF MaySetStatus(claimed[q.step], q)
                       THEN SetStatus(claimed, q.step, q.status) ELSE claimed
  OBVIOUS
<1>4. PICK described : described = [set EXCEPT ![q.step] = Described(set[q.step], q, enabled)]
  OBVIOUS
<1>5. PICK deps : deps = IF enabled /\ ~q.assistant THEN described[q.step].deps ELSE {}
  OBVIOUS
<1>6. PICK held : held = [y \in Steps |-> IF y \in deps THEN Held(described[y], q)
                                                        ELSE described[y]]
  OBVIOUS
<1>7. AddStepSteps(ss, q, enabled) = UpdatePriority(held, q.step, q.priority)
  BY <1>2, <1>3, <1>4, <1>5, <1>6 DEF AddStepSteps
<1>8. /\ DOMAIN claimed = Steps
      /\ \A y \in Steps : claimed[y] = IF y = q.step THEN Claimed(ss, q) ELSE ss[y]
  BY <1>1, <1>2
<1>9. /\ StepOK(Claimed(ss, q)) /\ Plain(Claimed(ss, q))
      /\ SameAmounts(ss[q.step], Claimed(ss, q))
      /\ Claimed(ss, q).status = ss[q.step].status
      /\ q.status = "RUNNING" => Claimed(ss, q).worker_running # None
  <2>1. ~NamesLostBatch(ss, q)
    BY DEF NamesLostBatch, PlainCall
  <2> QED BY <1>1, <2>1, ClaimedOK, ClaimedPlain, ClaimedAmounts
<1>10. \A y \in Steps : StepOK(claimed[y]) /\ Plain(claimed[y]) /\ claimed[y] \in StepRecords
  BY <1>8, <1>9 DEF StepOK
<1>11. /\ DOMAIN set = Steps
       /\ \A y \in Steps : StepOK(set[y]) /\ set[y] \in StepRecords
       /\ \A y \in Steps \ {q.step} : set[y] = ss[y]
       /\ SameAmounts(ss[q.step], set[q.step]) /\ set[q.step].status # Absent
  <2>1. CASE MaySetStatus(claimed[q.step], q)
    <3>1. set = SetStatus(claimed, q.step, q.status)
      BY <1>3, <2>1
    <3>2. DOMAIN set = Steps
      BY <3>1 DEF SetStatus
    <3>3. \A y \in Steps :
             StepOK(set[y]) /\ (claimed[y].status # Absent => set[y].status # Absent)
      BY <1>1, <1>8, <1>9, <1>10, <3>1, SetStatusOK
    <3>4. \A y \in Steps : SameAmounts(claimed[y], set[y]) /\ (y # q.step => set[y] = claimed[y])
      BY <1>1, <1>10, <3>1, SetStatusAmounts
    <3> QED BY <1>1, <1>8, <1>9, <3>2, <3>3, <3>4 DEF SameAmounts, StepOK
  <2>2. CASE ~MaySetStatus(claimed[q.step], q)
    BY <1>1, <1>3, <1>8, <1>9, <1>10, <2>2
  <2> QED BY <2>1, <2>2
<1>12. /\ \A y \in Steps : StepOK(described[y])
       /\ x # q.step => described[x] = ss[x]
       /\ x = q.step /\ ss[x].resources_running # Shared =>
              /\ described[x].resources = q.resources
              /\ described[x].resources_running = ss[x].resources_running
              /\ described[x].status # Absent
  <2>1. PICK d : d = Described(set[q.step], q, enabled)
    OBVIOUS
  <2>2. \A y \in Steps : described[y] = IF y = q.step THEN d ELSE set[y]
    BY <1>1, <1>4, <1>11, <2>1
  <2>3. StepOK(d) /\ SameRun(set[q.step], d)
    BY <1>1, <1>11, <2>1, DescribedOK
  <2>4. set[q.step].resources_running # Shared =>
            d.resources = q.resources /\ d.resources_running = set[q.step].resources_running
    BY <1>1, <1>11, <2>1, DescribedAmounts
  <2> QED BY <1>1, <1>11, <2>2, <2>3, <2>4 DEF SameAmounts, SameRun, SameStatus
<1>13. /\ StepOK(held[x])
       /\ described[x].status # Absent =>
              SameAmounts(described[x], held[x]) /\ held[x].status = described[x].status
       /\ described[x].status = Absent =>
              \/ held[x] = described[x]
              \/ held[x].status = "UNKNOWN" /\ held[x].resources_running = None
  <2>1. CASE x \in deps
    BY <1>1, <1>6, <1>12, <2>1, HeldOK, HeldAmounts
  <2>2. CASE x \notin deps
    BY <1>6, <1>12, <2>2 DEF SameAmounts
  <2> QED BY <2>1, <2>2
<1>14. PICK u : u = AddStepSteps(ss, q, enabled)[x]
  OBVIOUS
<1>15. SameAmounts(held[x], u) /\ u.status = held[x].status
  BY <1>7, <1>13, <1>14, UpdatePriorityAmounts DEF StepOK
<1>16. ASSUME NEW n \in Amounts, Sized(ss[x], n), x = q.step => q.resources = n
       PROVE  Sized(u, n)
  <2>1. ss[x].resources_running # Shared
    BY <1>16, ConstantsAssumption DEF ConstantsAssumption, Sized, Amounts
  <2>2. Sized(described[x], n)
    BY <1>12, <1>16, <2>1 DEF Sized
  <2>3. Sized(held[x], n)
    BY <1>13, <2>2 DEF Sized, SameAmounts, Unscheduled
  <2> QED BY <1>15, <2>3 DEF Sized, SameAmounts
<1> QED BY <1>14, <1>16 DEF Suits

\* add_step.
LEMMA AddStepSuits ==
    ASSUME IInv, AllPlain, NEW q \in Calls, PlainCall(q), AddStep(q), NEW x \in Steps
    PROVE  Suits(steps[x], steps'[x], x, q)
<1> DEFINE ws == UpdateWorker(workers, q.worker, FALSE)
           enabled == ~ws[q.worker].disabled
           ss == WithDefaultStep(steps, q, enabled)
           ignored == IgnoresRequest(ss[q.step], q, enabled)
           stored == ~ignored /\ ~AddStepFails(q)
<1>1. q \in Requests /\ q.worker \in Workers /\ q.step \in Steps
  BY DEF Calls, Requests
<1>2. steps' = CASE ignored -> ss
                 [] stored -> AddStepSteps(ss, q, enabled)
                 [] OTHER -> [ss EXCEPT ![q.step] = Attributed(ss[q.step], q)]
  BY DEF AddStep
<1>3. ~AddStepFails(q)
  BY PlainCallAnswered
<1>4. ~ignored => ss[q.step].status # Absent
  BY DEF IgnoresRequest
<1>5. enabled \in BOOLEAN
  OBVIOUS
<1> HIDE DEF ws, enabled
<1>6. /\ ss \in [Steps -> StepRecords] /\ steps \in [Steps -> StepRecords]
      /\ \A y \in Steps : StepOK(ss[y])
  <2>1. steps \in [Steps -> StepRecords] /\ \A y \in Steps : StepOK(steps[y])
    BY DEF IInv, TableOK
  <2> QED BY <1>1, <1>5, <2>1, WithDefaultStepOK
<1>7. \A y \in Steps : Plain(ss[y])
  BY <1>1, <1>6, WithDefaultStepPlain DEF AllPlain
<1>8. Suits(steps[x], ss[x], x, q)
  <2>1. PICK deps : deps = IF q.deps = None THEN {} ELSE q.deps
    OBVIOUS
  <2>2. PICK new : new = NewStep("PENDING", deps, q.resources, q.priority)
    OBVIOUS
  <2>3. ss[x] = steps[x] \/ (x = q.step /\ ss[x] = new)
    BY <1>1, <1>6, <2>1, <2>2 DEF WithDefaultStep
  <2>4. new.resources = q.resources /\ new.resources_running = None
    BY <2>2 DEF NewStep
  <2> QED BY <2>3, <2>4 DEF Suits, Sized
<1> HIDE DEF ss
<1>9. Suits(ss[x], steps'[x], x, q)
  <2>1. CASE ignored
    BY <1>2, <2>1 DEF Suits
  <2>2. CASE stored
    <3>1. steps' = AddStepSteps(ss, q, enabled)
      BY <1>2, <2>2
    <3> QED BY <1>4, <1>5, <1>6, <1>7, <2>2, <3>1, AddStepStepsSuits
  <2> QED BY <1>3, <2>1, <2>2
<1> QED BY <1>8, <1>9 DEF Suits

-----------------------------------------------------------------------------
(* The other handlers. *)

AllSameSize == \A s \in Steps : SameSize(steps[s], steps'[s])

\* No step begins to run.
NoStart == \A s \in Steps : steps'[s].status = "RUNNING" => steps[s].status = "RUNNING"

LEMMA RemoveWorkersAmounts ==
    ASSUME NEW ss, \A x \in Steps : ss[x] \in StepRecords, NEW gone, NEW both, NEW x \in Steps
    PROVE  LET u == RemoveWorkersFromSteps(ss, gone, both)[x]
           IN  SameAmounts(ss[x], u) /\ u.status = ss[x].status
<1>1. PICK wks : wks = ss[x].workers \ gone
  OBVIOUS
<1>2. PICK stk : stk = IF both THEN ss[x].stakeholders \ gone ELSE ss[x].stakeholders
  OBVIOUS
<1>3. RemoveWorkersFromSteps(ss, gone, both)[x] =
          [ss[x] EXCEPT !.workers = wks, !.stakeholders = stk]
  BY <1>1, <1>2 DEF RemoveWorkersFromSteps
<1> QED BY <1>3 DEF StepRecords, SameAmounts

LEMMA DisableWorkerSize ==
    ASSUME IInv, AllPlain, NEW w \in Workers, DisableWorker(w)
    PROVE  AllSameSize /\ NoStart
<1>1. \A x \in Steps : steps[x] \in StepRecords
  BY DEF IInv, TableOK, StepOK
<1>2. PICK gone, both : gone = {w} /\ both = FALSE
  OBVIOUS
<1>3. steps' = RemoveWorkersFromSteps(steps, gone, both)
  BY <1>2 DEF DisableWorker
<1>4. \A x \in Steps : SameAmounts(steps[x], steps'[x]) /\ steps'[x].status = steps[x].status
  BY <1>1, <1>3, RemoveWorkersAmounts
<1> QED BY <1>4 DEF AllSameSize, SameSize, NoStart

LEMMA StatusSize ==
    ASSUME IInv, AllPlain, NEW s \in Steps, NEW new \in {"PENDING", "DONE"},
           steps' = SetStatus(steps, s, new), steps[s].status \notin Unscheduled
    PROVE  AllSameSize /\ NoStart
<1>1. \A x \in Steps : steps[x] \in StepRecords /\ Plain(steps[x])
  BY DEF IInv, TableOK, StepOK, AllPlain
<1>2. new \in Statuses
  BY DEF Statuses
<1>3. \A x \in Steps : SameAmounts(steps[x], steps'[x]) /\ (x # s => steps'[x] = steps[x])
  BY <1>1, <1>2, SetStatusAmounts
<1>4. AllSameSize
  BY <1>3 DEF AllSameSize, SameSize
<1>5. steps'[s] = SetOwnStatus(steps[s], new)
  BY <1>1, SetStatusPlain
<1>6. SetOwnStatus(steps[s], new).status \in {steps[s].status, new}
  BY <1>1, <1>2, SetOwnStatusTally
<1> QED BY <1>3, <1>4, <1>5, <1>6 DEF NoStart

LEMMA ReEnableStepSize ==
    ASSUME IInv, AllPlain, NEW s \in Steps, ReEnableStep(s)
    PROVE  AllSameSize /\ NoStart
<1>1. \A x \in Steps : StepOK(steps[x])
  BY DEF IInv, TableOK
<1>2. \A x \in Steps : steps'[x] = IF x = s THEN ReEnable(steps[s]) ELSE steps[x]
  BY DEF ReEnableStep, IInv, TableOK
<1>3. SameSize(steps[s], ReEnable(steps[s]))
  BY <1>1, ReEnableAmounts DEF ReEnableStep
<1>4. AllQuiet
  BY ReEnableStepPlain
<1> QED BY <1>2, <1>3, <1>4 DEF AllSameSize, SameSize, SameAmounts, NoStart, AllQuiet, NoNews

LEMMA TickSize ==
    ASSUME IInv, AllPlain, Tick
    PROVE  AllSameSize /\ NoStart
<1>1. ASSUME NEW x \in Steps PROVE SameSize(steps[x], steps'[x])
  <2>1. PICK t : t = steps[x]
    OBVIOUS
  <2>2. t \in StepRecords
    BY <1>1, <2>1 DEF IInv, TableOK, StepOK
  <2>3. steps'[x] = IF t.status = Absent THEN NoStep ELSE AgedStep(t)
    BY <1>1, <2>1 DEF Tick
  <2>4. PICK retry, remove, updated, failures, first, disabled :
            AgedStep(t) = Aged(t, retry, remove, updated, failures, first, disabled)
    <3>1. AgedStep(t) = Aged(t, IF t.status = "FAILED" THEN Down(t.retry) ELSE t.retry,
                             Down(t.remove),
                             IF t.status = "DONE" THEN Up(t.updated, Cooldown) ELSE t.updated,
                             [age \in 0..DisableWindow |-> IF age = 0 THEN 0 ELSE t.failures[age - 1]],
                             IF HardTimeout # None THEN Up(t.first_failure, HardTimeout)
                                                   ELSE t.first_failure,
                             Up(t.disable_time, DisablePersist + 1))
      BY DEF AgedStep, Aged
    <3> QED BY <3>1, Zenon
  <2>5. SameAmounts(t, AgedStep(t)) /\ AgedStep(t).status = t.status
    BY <2>2, <2>4 DEF StepRecords, Aged, SameAmounts
  <2> QED BY <2>1, <2>3, <2>5 DEF SameSize
<1>2. AllQuiet
  BY TickPlain
<1> QED BY <1>1, <1>2 DEF AllSameSize, NoStart, AllQuiet, NoNews

LEMMA PruneSize ==
    ASSUME IInv, AllPlain, Prune
    PROVE  AllSameSize /\ NoStart
<1>1. PICK gone : gone = TimedOut(workers)
  OBVIOUS
<1>2. PICK both \in BOOLEAN : both = TRUE
  OBVIOUS
<1>3. PICK ss : ss = RemoveWorkersFromSteps(steps, gone, both)
  OBVIOUS
<1>4. PICK assistants : steps' = PruneSteps(ss, older, assistants)
  BY <1>1, <1>2, <1>3 DEF Prune
<1>5. \A y \in Steps : StepOK(steps[y]) /\ steps[y] \in StepRecords
  BY DEF IInv, TableOK, StepOK
<1>6. \A y \in Steps : SameAmounts(steps[y], ss[y]) /\ ss[y].status = steps[y].status
  BY <1>3, <1>5, RemoveWorkersAmounts
<1>7. \A y \in Steps : Plain(ss[y])
  <2>1. \A y \in Steps : SameRun(steps[y], ss[y]) /\ SameRemoval(steps[y], ss[y])
    BY <1>3, <1>5, RemoveWorkersOK, RemoveWorkersPlain
  <2> QED BY <1>6, <2>1 DEF AllPlain, Plain, SameRun, SameRemoval
<1>8. \A y \in Steps : StepOK(ss[y])
  BY <1>3, <1>5, RemoveWorkersOK
<1>9. \A x \in Steps : SameSize(ss[x], steps'[x])
  BY <1>4, <1>7, <1>8, PrunedStepAmounts DEF PruneSteps
<1>10. AllSameSize
  BY <1>6, <1>9 DEF AllSameSize, SameSize, SameAmounts
<1>11. AllQuiet
  BY PrunePlain
<1> QED BY <1>10, <1>11 DEF NoStart, AllQuiet, NoNews

\* A step that is handed out.
LEMMA SetRunningSized ==
    ASSUME NEW t, StepOK(t), t.status \in {"PENDING", "RUNNING"}, NEW w \in Workers,
           NEW n, Sized(t, n)
    PROVE  Sized(SetRunning(t, w), n)
<1>1. PICK v : v = SetOwnStatus(t, "RUNNING")
  OBVIOUS
<1>2. t \in StepRecords /\ "RUNNING" \in Statuses
  BY DEF StepOK, Statuses
<1>3. v \in StepRecords /\ SameAmounts(t, v)
  BY <1>1, <1>2, SetOwnStatusType, SetOwnStatusAmounts
<1>4. PICK u : u = SetRunning(t, w)
  OBVIOUS
<1>5. u = [v EXCEPT !.worker_running = w, !.resources_running = t.resources]
  BY <1>1, <1>4 DEF SetRunning
<1>6. u.resources = t.resources /\ u.resources_running = t.resources
  BY <1>3, <1>5 DEF StepRecords, SameAmounts
<1> QED BY <1>4, <1>6 DEF Sized, Unscheduled, Absent

-----------------------------------------------------------------------------
(* What the scheduler has on record of a step's needs is true.               *)

\* A step is scheduled and reported on with what it needs: it does not report a
\* tracking URL, which resets its resources, is not handed out where it cannot be
\* loaded, and keeps its resources while it runs.
SizeSetting ==
    /\ PlainSetting
    /\ "track" \notin Behaviours /\ "decrease" \notin Behaviours
    /\ "unloadable" \notin Behaviours

SizedCall(q) == q.resources = Need(q.step)

AllSized == \A s \in Steps : Sized(steps[s], Need(s))

CallsSized == \A w \in Workers : calling[w] # None => SizedCall(calling[w])

SizeInv == AllSized /\ CallsSized /\ NoErrors

LEMMA ScheduledSized ==
    ASSUME NEW w \in Workers, NEW s \in Steps, NEW status \in Claims, NEW deps
    PROVE  SizedCall(Scheduled(w, s, status, deps))
BY DEF Scheduled, ScheduleRequest, TrackingRequest, SizedCall

LEMMA OutcomeSized ==
    ASSUME NEW w \in Workers, NEW s \in Steps, NEW status, NEW new_deps
    PROVE  SizedCall(Outcome(w, s, status, new_deps))
BY DEF Outcome, ReportRequest, TrackingRequest, SizedCall

\* A call of add_step that no run begins with.
Calling(q) == q \in Calls /\ PlainCall(q) /\ SizedCall(q) /\ q.status # "RUNNING" /\ AddStep(q)

\* What changes the steps, apart from calls of add_step and get_work.
Interfering ==
    \/ UNCHANGED steps \/ Tick \/ Prune
    \/ \E w \in Workers : DisableWorker(w)
    \/ \E s \in Steps : ForgiveFailures(s) \/ MarkAsDone(s) \/ ReEnableStep(s)

\* Whatever happens in the cluster is one of three things to the scheduler.
Handled ==
    \/ \E q \in Calls : Calling(q)
    \/ \E w \in Workers : \E work \in Replies(w) : Receives(w, work)
    \/ Interfering

LEMMA OneCallSized ==
    ASSUME ClientTypeOK, CallsSized, NEW w \in Workers, NEW q,
           calling' = [calling EXCEPT ![w] = q], q # None => SizedCall(q)
    PROVE  CallsSized'
<1>1. \A v \in Workers : calling'[v] = IF v = w THEN q ELSE calling[v]
  BY DEF ClientTypeOK
<1> QED BY <1>1 DEF CallsSized, SizedCall

LEMMA SameCallsSized ==
    ASSUME CallsSized, UNCHANGED calling
    PROVE  CallsSized'
BY DEF CallsSized, SizedCall

LEMMA WorkerNextHandled ==
    ASSUME SizeSetting, ClientTypeOK, HoldInv, SizeInv, NEW w \in Workers, WorkerNext(w)
    PROVE  Handled /\ CallsSized'
<1>0. CallsSized /\ NoErrors /\ PlainSetting
  BY DEF SizeInv, SizeSetting
<1>1. CASE \E s \in Steps, status \in Claims : Schedule(w, s, status)
  <2>1. PICK s \in Steps, status \in Claims : Schedule(w, s, status)
    BY <1>1
  <2>2. PICK deps, q :
           /\ deps \in DepsSent(s, status)
           /\ q = Scheduled(w, s, status, deps)
           /\ AddStep(q) /\ UNCHANGED calling
    BY <2>1 DEF Schedule, Scheduled
  <2>3. AddStep(q) /\ UNCHANGED calling
    BY <2>2
  <2>4. status # "RUNNING"
    BY ClusterAssumption DEF ClusterAssumption
  <2>5. Calling(q) /\ q \in Calls
    BY <1>0, <2>2, <2>3, <2>4, ScheduledPlain, ScheduledSized DEF Calling
  <2> QED BY <1>0, <2>3, <2>5, SameCallsSized DEF Handled
<1>2. CASE \E work \in Replies(w) : AskForWork(w, work) \/ LoseWork(w, work)
                                    \/ ReceiveUnloadable(w, work)
  <2>1. PICK work \in Replies(w) : AskForWork(w, work) \/ LoseWork(w, work)
                                   \/ ReceiveUnloadable(w, work)
    BY <1>2
  <2>2. Receives(w, work) /\ UNCHANGED calling
    BY <2>1 DEF AskForWork, LoseWork, ReceiveUnloadable, clientVars
  <2> QED BY <1>0, <2>2, SameCallsSized DEF Handled
<1>3. CASE \E s \in Steps : ReportUnloadable(w, s)
  BY <1>0, <1>3 DEF ReportUnloadable, NoErrors
<1>4. CASE StartBatch(w)
  BY <1>4 DEF StartBatch, HoldInv, PlainCalls
<1>5. CASE \E s \in Steps : Track(w, s) \/ GiveUpResources(w, s)
  BY <1>5 DEF Track, GiveUpResources, SizeSetting
<1>6. CASE \E s \in Steps, status \in Endings :
              \/ \E missing \in BOOLEAN : Finish(w, s, status, missing)
              \/ FinishUnheard(w, s, status)
  <2>1. PICK s \in Steps, status \in Endings :
              \/ \E missing \in BOOLEAN : Finish(w, s, status, missing)
              \/ FinishUnheard(w, s, status)
    BY <1>6
  <2>2. PICK q : q = Outcome(w, s, status, {})
    OBVIOUS
  <2>3. AddStep(q) /\ (UNCHANGED calling \/ calling' = [calling EXCEPT ![w] = q])
    BY <2>1, <2>2 DEF Finish, FinishUnheard, CallUnheard
  <2>4. status \in {"DONE", "FAILED", "PENDING"} /\ status # "RUNNING" /\ {} \in SUBSET Steps
    BY ClusterAssumption DEF ClusterAssumption
  <2>5. q \in Calls /\ PlainCall(q) /\ q.status = status
    BY <1>0, <2>2, <2>4, OutcomePlain
  <2>6. SizedCall(q)
    BY <2>2, OutcomeSized
  <2>7. Calling(q)
    BY <2>3, <2>4, <2>5, <2>6 DEF Calling
  <2>8. CallsSized'
    BY <1>0, <2>3, <2>6, OneCallSized, SameCallsSized
  <2> QED BY <2>5, <2>7, <2>8 DEF Handled
<1>7. CASE \E s \in Steps : Suspend(w, s)
  <2>1. PICK s \in Steps : Suspend(w, s)
    BY <1>7
  <2>2. PICK q : q = Outcome(w, s, "PENDING", Yields(s))
    OBVIOUS
  <2>3. UNCHANGED steps /\ calling' = [calling EXCEPT ![w] = q]
    BY <2>1, <2>2 DEF Suspend, vars
  <2>4. SizedCall(q)
    BY <2>2, OutcomeSized
  <2> QED BY <1>0, <2>3, <2>4, OneCallSized DEF Handled, Interfering
<1>8. CASE Call(w) \/ RepeatUnheard(w)
  <2>1. PICK q : q = calling[w]
    OBVIOUS
  <2>2. q # None /\ AddStep(q)
    BY <1>8, <2>1 DEF Call, RepeatUnheard, CallUnheard
  <2>3. calling' = [calling EXCEPT ![w] = None] \/ calling' = [calling EXCEPT ![w] = q]
    BY <1>8, <2>1 DEF Call, RepeatUnheard, CallUnheard
  <2>4. q \in Calls /\ PlainCall(q) /\ q.status # "RUNNING" /\ SizedCall(q)
    BY <1>0, <2>1, <2>2 DEF ClientTypeOK, HoldInv, PlainCalls, CallsSized
  <2>5. CallsSized'
    BY <1>0, <2>3, <2>4, OneCallSized
  <2> QED BY <2>2, <2>4, <2>5 DEF Handled, Calling
<1>9. CASE Crash(w)
  <2>1. UNCHANGED steps /\ calling' = [calling EXCEPT ![w] = None]
    BY <1>9 DEF Crash, vars
  <2> QED BY <1>0, <2>1, OneCallSized DEF Handled, Interfering
<1>10. CASE \/ \E s \in Steps : RegisterBatcher(w, s)
            \/ Announce(w) \/ CountWork(w) \/ KeepAlive(w)
  <2>1. UNCHANGED steps /\ UNCHANGED calling
    BY <1>10 DEF RegisterBatcher, Announce, CountWork, KeepAlive, AddStepBatcher, AddWorker,
                 CountPending, Ping, clientVars
  <2> QED BY <1>0, <2>1, SameCallsSized DEF Handled, Interfering
<1> QED BY <1>1, <1>2, <1>3, <1>4, <1>5, <1>6, <1>7, <1>8, <1>9, <1>10 DEF WorkerNext

LEMMA NextHandled ==
    ASSUME SizeSetting, ClientTypeOK, HoldInv, SizeInv, [ClusterNext]_allVars
    PROVE  Handled /\ CallsSized'
<1>0. CallsSized
  BY DEF SizeInv
<1>1. CASE \E w \in Workers : WorkerNext(w)
  BY <1>1, WorkerNextHandled
<1>2. CASE TimePasses \/ PruneNow \/ UNCHANGED allVars
  <2>1. Interfering /\ UNCHANGED calling
    BY <1>2 DEF TimePasses, PruneNow, allVars, vars, clientVars, Interfering
  <2> QED BY <1>0, <2>1, SameCallsSized DEF Handled
<1>3. CASE Operate
  <2>1. UNCHANGED calling
    BY <1>3 DEF Operate, clientVars
  <2>2. Interfering
    BY <1>3 DEF Operate, Interfering, SetPaused, Restart, UpdateResource
  <2> QED BY <1>0, <2>1, <2>2, SameCallsSized DEF Handled
<1> QED BY <1>1, <1>2, <1>3 DEF ClusterNext

LEMMA InterferingSize ==
    ASSUME IInv, AllPlain, Interfering
    PROVE  AllSameSize /\ NoStart
<1>1. CASE UNCHANGED steps
  BY <1>1 DEF AllSameSize, SameSize, SameAmounts, NoStart
<1>2. CASE \E s \in Steps : ForgiveFailures(s) \/ MarkAsDone(s)
  <2>1. PICK s \in Steps : ForgiveFailures(s) \/ MarkAsDone(s)
    BY <1>2
  <2>2. PICK new \in {"PENDING", "DONE"} : steps' = SetStatus(steps, s, new)
    BY <2>1 DEF ForgiveFailures, MarkAsDone
  <2>3. steps[s].status \notin Unscheduled
    BY <2>1 DEF ForgiveFailures, MarkAsDone, Unscheduled, Absent
  <2> QED BY <2>2, <2>3, StatusSize
<1> QED BY <1>1, <1>2, TickSize, PruneSize, DisableWorkerSize, ReEnableStepSize DEF Interfering

\* A run does not begin by a call of add_step.
LEMMA CallingSize ==
    ASSUME IInv, AllPlain, AllSized, NEW q, Calling(q)
    PROVE  AllSized' /\ NoStart
<1>1. q \in Calls /\ PlainCall(q) /\ SizedCall(q) /\ AddStep(q) /\ q.status # "RUNNING"
  BY DEF Calling
<1>2. \A x \in Steps : Suits(steps[x], steps'[x], x, q) /\ Answered(steps[x], steps'[x], x, q)
  BY <1>1, AddStepSuits, AddStepPlain
<1>3. \A x \in Steps : Need(x) \in Amounts
  BY ClusterAssumption DEF ClusterAssumption
<1>4. AllSized'
  BY <1>1, <1>2, <1>3 DEF AllSized, Suits, SizedCall
<1>5. NoStart
  BY <1>1, <1>2 DEF NoStart, Answered
<1> QED BY <1>4, <1>5

-----------------------------------------------------------------------------
(* get_work. *)

\* The workers as get_work of w finds them, and what it may make of Worker.steps.
Asking(w) == Asked(w, w \in AssistantWorkers)

Asks(w) == Views(Asking(w), w)

\* What get_work makes of the steps: it starts or repeats one, or none.
Starts(w, s) ==
    /\ MayGive(s, w, running[w])
    /\ \A x \in Steps : steps'[x] = IF x = s THEN SetRunning(steps[s], w) ELSE steps[x]

\* The step comes from the queue.
Picked(w, s) == \E ws \in Asks(w) : \E pick : s \in BestStep(steps, ws, w, FALSE, pick)

LEMMA WorkBest ==
    ASSUME IInv, AllPlain, Ordered, IsFiniteSet(Steps), NEW ws, NEW w, NEW current_steps,
           NEW pick, NEW s \in Work(steps, ws, w, FALSE, current_steps, pick),
           steps[s].status # "RUNNING"
    PROVE  s \in BestStep(steps, ws, w, FALSE, pick)
<1> DEFINE unclaimed == UnclaimedSteps(steps, w, current_steps)
           best == IF paused THEN {} ELSE BestStep(steps, ws, w, FALSE, pick)
<1>1. unclaimed = {}
  <2> SUFFICES ASSUME unclaimed # {} PROVE FALSE
    OBVIOUS
  <2>1. s \in unclaimed
    BY Zenon DEF Work
  <2> QED BY <2>1 DEF UnclaimedSteps, WithStatus
<1>2. s \in UNION {BatchWith(steps, ws, w, b) : b \in best}
  BY <1>1, Zenon DEF Work
<1>3. PICK b \in best : s \in BatchWith(steps, ws, w, b)
  BY <1>2
<1>4. b \in BestStep(steps, ws, w, FALSE, pick)
  BY <1>3
<1>5. b \in Steps
  BY <1>4, BestStepPlain
<1>6. BatchWith(steps, ws, w, b) = {b}
  <2>1. steps[b].batchable = FALSE
    BY <1>5 DEF AllPlain, Plain
  <2> QED BY <2>1 DEF BatchWith
<1> QED BY <1>3, <1>4, <1>6

\* get_work as a change of the steps.
LEMMA ReceivesStarts ==
    ASSUME PlainSetting, IInv, ServerHolds, NEW w \in Workers, NEW work, Receives(w, work)
    PROVE  \/ steps' = steps
           \/ \E s \in Steps :
                 /\ Starts(w, s)
                 /\ steps[s].status # "RUNNING" =>
                        Picked(w, s) /\ workers' = CountedWorkers(steps, Asking(w), w)
<1>1. PICK assistant \in BOOLEAN : assistant = (w \in AssistantWorkers)
  <2>1. (w \in AssistantWorkers) \in BOOLEAN
    OBVIOUS
  <2> QED BY <2>1, Zenon
<1>2. assistant = FALSE
  BY <1>1 DEF PlainSetting
<1>3. GetWork(w, assistant, running[w], work)
  BY <1>1 DEF Receives
<1>4. PICK touched : touched = UpdateWorker(workers, w, TRUE)
  OBVIOUS
<1>5. PICK ws : ws = [touched EXCEPT ![w].assistant = @ \/ assistant]
  OBVIOUS
<1>6. ws = Asked(w, assistant) /\ Asked(w, assistant) = Asking(w)
  <2>1. ws = Asked(w, assistant)
    BY <1>4, <1>5, Zenon DEF Asked
  <2>2. Asked(w, assistant) = Asking(w)
    BY <1>1, Zenon DEF Asking
  <2> QED BY <2>1, <2>2
<1>7. ResetOrphanedSteps(steps, w) = steps
  BY ResetsNothing DEF ServerHolds
<1>8. /\ work \in HandOuts(w, assistant, running[w])
      /\ IF touched[w].disabled
         THEN workers' = touched /\ steps' = steps
         ELSE steps' = HandOut(steps, w, work) /\ workers' = CountedWorkers(steps, ws, w)
  BY <1>3, <1>4, <1>5, <1>7 DEF GetWork
<1>9. work = {} \/ \E s \in Steps : work = {s} /\ MayGive(s, w, running[w])
  BY <1>2, <1>8, HandOutsPlain DEF ServerHolds, PlainSetting
<1>10. steps \in [Steps -> StepRecords]
  BY DEF IInv, TableOK
<1>11. CASE touched[w].disabled
  BY <1>8, <1>11
<1>12. CASE ~touched[w].disabled /\ work = {}
  BY <1>8, <1>10, <1>12 DEF HandOut
<1>13. CASE ~touched[w].disabled /\ work # {}
  <2>1. PICK s \in Steps : work = {s} /\ MayGive(s, w, running[w])
    BY <1>9, <1>13
  <2>2. Cardinality(work) = 1
    BY <2>1, FS_Singleton
  <2>3. Starts(w, s)
    BY <1>8, <1>13, <2>1, <2>2 DEF HandOut, Starts
  <2>4. ASSUME steps[s].status # "RUNNING" PROVE Picked(w, s)
    <3>1. HandedOut(work, w, assistant, running[w])
      BY <1>8, <1>13, HandOutsShape
    <3>2. PICK view, pick :
              /\ view \in Views(Asked(w, assistant), w)
              /\ work = Work(steps, view, w, assistant, running[w], pick)
      BY <1>7, <3>1 DEF HandedOut
    <3>3. s \in Work(steps, view, w, FALSE, running[w], pick)
      BY <1>2, <2>1, <3>2
    <3>4. s \in BestStep(steps, view, w, FALSE, pick)
      BY <2>4, <3>3, WorkBest DEF ServerHolds, PlainSetting
    <3> QED BY <1>6, <3>2, <3>4 DEF Picked, Asks
  <2>5. workers' = CountedWorkers(steps, Asking(w), w)
    BY <1>6, <1>8, <1>13
  <2> QED BY <2>3, <2>4, <2>5
<1> QED BY <1>11, <1>12, <1>13

LEMMA ReceivesSized ==
    ASSUME PlainSetting, IInv, ServerHolds, AllSized, NEW w \in Workers, NEW work,
           Receives(w, work)
    PROVE  AllSized'
<1>1. CASE steps' = steps
  BY <1>1 DEF AllSized
<1>2. ASSUME NEW s \in Steps, Starts(w, s) PROVE AllSized'
  <2>1. StepOK(steps[s]) /\ steps[s].status \in {"PENDING", "RUNNING"}
    BY <1>2 DEF IInv, TableOK, Starts, MayGive
  <2>2. Sized(SetRunning(steps[s], w), Need(s))
    BY <2>1, SetRunningSized DEF AllSized
  <2> QED BY <1>2, <2>2 DEF Starts, AllSized
<1> QED BY <1>1, <1>2, ReceivesStarts

\* What the invariant says of sizes is kept.
LEMMA NextSized ==
    SizeSetting /\ IInv /\ ClientTypeOK /\ HoldInv /\ SizeInv /\ [ClusterNext]_allVars => SizeInv'
<1> SUFFICES ASSUME SizeSetting, IInv, ClientTypeOK, HoldInv, SizeInv, [ClusterNext]_allVars
             PROVE  SizeInv'
  OBVIOUS
<1>1. Handled /\ CallsSized'
  BY NextHandled
<1>2. NoErrors'
  BY ErrorsStay DEF SizeSetting, SizeInv
<1>3. AllSized /\ AllPlain /\ ServerHolds /\ PlainSetting
  BY DEF SizeInv, HoldInv, ServerHolds, SizeSetting
<1>4. ASSUME NEW q, Calling(q) PROVE AllSized'
  BY <1>3, <1>4, CallingSize
<1>5. ASSUME NEW w \in Workers, NEW work, Receives(w, work) PROVE AllSized'
  BY <1>3, <1>5, ReceivesSized
<1>6. ASSUME Interfering PROVE AllSized'
  <2>1. \A s \in Steps : SameSize(steps[s], steps'[s])
    BY <1>3, <1>6, InterferingSize DEF AllSameSize
  <2>2. \A s \in Steps : Sized(steps'[s], Need(s))
    BY <1>3, <2>1, SameSizeFits DEF AllSized
  <2> QED BY <2>2 DEF AllSized
<1>7. AllSized'
  BY <1>1, <1>4, <1>5, <1>6 DEF Handled
<1> QED BY <1>1, <1>2, <1>7 DEF SizeInv

LEMMA InitSized == ClusterInit => SizeInv
<1> SUFFICES ASSUME ClusterInit PROVE SizeInv
  OBVIOUS
<1>1. /\ \A s \in Steps : steps[s] = NoStep
      /\ \A w \in Workers : erring[w] = {} /\ calling[w] = None
  BY DEF ClusterInit, Init
<1>2. NoStep.status = Absent /\ NoStep.resources_running = None
  BY DEF NoStep, NewStep
<1> QED BY <1>1, <1>2 DEF SizeInv, AllSized, CallsSized, NoErrors, Sized, Unscheduled

\* The invariant behind the theorems about resources.
LEMMA SizeInductive ==
    ASSUME SizeSetting PROVE ClusterSpec => [](IInv /\ ClientTypeOK /\ HoldInv /\ SizeInv)
<1>1. SizeSetting /\ PlainSetting
  BY DEF SizeSetting
<1>2. ClusterSpec => [](IInv /\ ClientTypeOK /\ HoldInv)
  BY <1>1, HoldInductive
<1> QED BY <1>1, <1>2, InitSized, NextSized, PTL DEF ClusterSpec

-----------------------------------------------------------------------------
(* The greedy schedule of get_work, the names inside BestStep one by one.     *)

QueueOf(ws, w) ==
    IF IsTrivialWorker(steps, ws, w) THEN GetSteps(steps, ws, w, {"PENDING", "RUNNING"})
                                     ELSE WithStatus(steps, {"PENDING", "RUNNING"})

UsedFor(ws, w) == IF IsTrivialWorker(steps, ws, w) THEN NoResources ELSE UsedResources(steps)

Polling(ws, w) == GreedyWorkers(ws, IsTrivialWorker(steps, ws, w))

Fits(s, g) == Schedulable(steps, s) /\ HasResources(steps[s].resources, g.taken)

Hosts(polling, s, g) == {v \in steps[s].workers : v \in polling /\ g.free[v] > 0}

Host(polling, pick, s, g) ==
    IF s \in DOMAIN pick /\ pick[s] \in Hosts(polling, s, g)
    THEN pick[s] ELSE CHOOSE v \in Hosts(polling, s, g) : TRUE

\* The schedule with step s in it.
With(polling, pick, s, g) ==
    CASE steps[s].status = "RUNNING" /\ steps[s].worker_running \in polling ->
             Charge(g, steps[s].worker_running, RunningResources(steps[s]))
      [] steps[s].status = "PENDING" /\ Fits(s, g) /\ Hosts(polling, s, g) # {} ->
             Charge(g, Host(polling, pick, s, g), steps[s].resources)
      [] OTHER -> g

Empty(ws) == [free |-> [v \in Workers |-> ws[v].processes], taken |-> NoResources]

\* The first m + 1 schedules.
Schedules(f, ws, polling, pick, queue, m) ==
    f = [i \in 0..m |-> IF i = 0 THEN Empty(ws)
                        ELSE With(polling, pick, Place(steps, queue, i), f[i - 1])]

\* The places in the queue whose step w can be given.
Candidates(f, ws, w, queue) ==
    {i \in 1..Cardinality(queue) :
        /\ Fits(Place(steps, queue, i), f[i - 1])
        /\ CanTake(steps, Place(steps, queue, i), w, FALSE, UsedFor(ws, w))}

LEMMA LeastNumber ==
    ASSUME NEW S \in SUBSET Nat, S # {}
    PROVE  \E m \in S : \A k \in S : m <= k
<1>1. PICK x \in S : \A y \in S : ~(<<y, x>> \in OpToRel(<, Nat))
  BY NatLessThanWellFounded, WFMin
<1>2. OpToRel(<, Nat) = {p \in Nat \X Nat : p[1] < p[2]}
  BY Zenon DEF OpToRel
<1>3. ASSUME NEW y \in S PROVE x <= y
  <2>1. x \in Nat /\ y \in Nat /\ <<y, x>> \in Nat \X Nat
    OBVIOUS
  <2>2. <<y, x>> \notin {p \in Nat \X Nat : p[1] < p[2]}
    BY <1>1, <1>2, Zenon
  <2>3. ~(y < x)
    BY <2>1, <2>2
  <2> QED BY <2>1, <2>3
<1> QED BY <1>3

LEMMA MinIsLeast ==
    ASSUME NEW S \in SUBSET Nat, S # {}
    PROVE  Min(S) \in S /\ \A k \in S : Min(S) <= k
<1>1. \E m \in S : \A k \in S : m <= k
  BY LeastNumber
<1> QED BY <1>1 DEF Min

\* Going down the queue is well-defined, whatever is charged there.
LEMMA SchedulesExist ==
    ASSUME NEW ws, NEW polling, NEW pick, NEW queue, NEW n \in Nat
    PROVE  \E f : Schedules(f, ws, polling, pick, queue, n)
<1> DEFINE Bad == {m \in Nat : ~ \E f : Schedules(f, ws, polling, pick, queue, m)}
<1>1. SUFFICES ASSUME Bad # {} PROVE FALSE
  OBVIOUS
<1>2. PICK m \in Bad : \A k \in Bad : m <= k
  <2>1. Bad \in SUBSET Nat
    OBVIOUS
  <2> HIDE DEF Bad
  <2> QED BY <1>1, <2>1, LeastNumber
<1>3. m # 0
  <2>1. SUFFICES ASSUME m = 0 PROVE FALSE
    OBVIOUS
  <2> DEFINE f == [i \in 0..0 |-> Empty(ws)]
  <2>2. f = [i \in 0..0 |-> IF i = 0 THEN Empty(ws)
                            ELSE With(polling, pick, Place(steps, queue, i), f[i - 1])]
    OBVIOUS
  <2> HIDE DEF f
  <2> QED BY <2>1, <2>2 DEF Schedules
<1>4. m \in Nat /\ m - 1 \in Nat
  BY <1>3
<1>5. PICK f : Schedules(f, ws, polling, pick, queue, m - 1)
  BY <1>2, <1>4
<1>6. /\ DOMAIN f = 0..(m - 1)
      /\ \A i \in 0..(m - 1) : f[i] = IF i = 0 THEN Empty(ws)
                                      ELSE With(polling, pick, Place(steps, queue, i), f[i - 1])
  BY <1>5 DEF Schedules
<1> DEFINE h == [i \in 0..m |-> IF i = m THEN With(polling, pick, Place(steps, queue, m), f[m - 1])
                                        ELSE f[i]]
<1>7. \A i \in 0..(m - 1) : h[i] = f[i]
  BY <1>4
<1>8. ASSUME NEW i \in 0..m
      PROVE  h[i] = IF i = 0 THEN Empty(ws) ELSE With(polling, pick, Place(steps, queue, i), h[i - 1])
  <2>1. CASE i = m
    <3>1. h[m - 1] = f[m - 1]
      BY <1>4, <1>7
    <3> QED BY <1>3, <2>1, <3>1
  <2>2. CASE i # m
    <3>1. i \in 0..(m - 1)
      BY <1>4, <2>2
    <3>2. i # 0 => i - 1 \in 0..(m - 1)
      BY <1>4, <3>1
    <3> HIDE DEF h
    <3> QED BY <1>6, <1>7, <3>1, <3>2
  <2> QED BY <2>1, <2>2
<1>9. h = [i \in 0..m |-> h[i]]
  OBVIOUS
<1> HIDE DEF h
<1>10. Schedules(h, ws, polling, pick, queue, m)
  BY <1>8, <1>9 DEF Schedules
<1> QED BY <1>2, <1>10

\* BestStep takes the first candidate, and its schedules follow the queue.
LEMMA BestStepGreedy ==
    ASSUME NEW ws, NEW w, NEW pick, IsFiniteSet(Steps)
    PROVE  \E f :
              /\ Schedules(f, ws, Polling(ws, w), pick, QueueOf(ws, w),
                           Cardinality(QueueOf(ws, w)))
              /\ BestStep(steps, ws, w, FALSE, pick) =
                     IF Candidates(f, ws, w, QueueOf(ws, w)) = {} THEN {}
                     ELSE NthInQueue(steps, QueueOf(ws, w),
                                     Min(Candidates(f, ws, w, QueueOf(ws, w))))
<1> DEFINE trivial == IsTrivialWorker(steps, ws, w)
        queue == IF trivial THEN GetSteps(steps, ws, w, {"PENDING", "RUNNING"})
                 ELSE WithStatus(steps, {"PENDING", "RUNNING"})
        used == IF trivial THEN NoResources ELSE UsedResources(steps)
        polling == GreedyWorkers(ws, trivial)
        place(i) == CHOOSE s \in NthInQueue(steps, queue, i) : TRUE
        fits(s, g) == Schedulable(steps, s) /\ HasResources(steps[s].resources, g.taken)
        free(V, g) == {v \in V : v \in polling /\ g.free[v] > 0}
        hosts(s, g) == IF FALSE /\ free(steps[s].workers, g) = {}
                       THEN free({w}, g) ELSE free(steps[s].workers, g)
        host(s, g) == IF s \in DOMAIN pick /\ pick[s] \in hosts(s, g)
                      THEN pick[s] ELSE CHOOSE v \in hosts(s, g) : TRUE
        after(s, g) ==
            CASE steps[s].status = "RUNNING" /\ steps[s].worker_running \in polling ->
                     Charge(g, steps[s].worker_running, RunningResources(steps[s]))
              [] steps[s].status = "PENDING" /\ fits(s, g) /\ hosts(s, g) # {} ->
                     Charge(g, host(s, g), steps[s].resources)
              [] OTHER -> g
        greedy[i \in 0..Cardinality(queue)] ==
            IF i = 0 THEN [free |-> [v \in Workers |-> ws[v].processes],
                           taken |-> NoResources]
            ELSE after(place(i), greedy[i - 1])
        taken == {i \in 1..Cardinality(queue) :
                     /\ fits(place(i), greedy[i - 1])
                     /\ CanTake(steps, place(i), w, FALSE, used)}
<1>1. BestStep(steps, ws, w, FALSE, pick) =
          IF taken = {} THEN {} ELSE NthInQueue(steps, queue, Min(taken))
  BY Zenon DEF BestStep
<1>2. \A s, g : hosts(s, g) = Hosts(polling, s, g)
  BY DEF Hosts
<1>3. \A s, g : fits(s, g) = Fits(s, g)
  BY Zenon DEF Fits
<1>4. \A s, g : after(s, g) = With(polling, pick, s, g)
  <2> HIDE DEF hosts, fits
  <2>1. ASSUME NEW s, NEW g PROVE host(s, g) = Host(polling, pick, s, g)
    <3>1. hosts(s, g) = Hosts(polling, s, g)
      BY <1>2
    <3>2. (CHOOSE v \in hosts(s, g) : TRUE) = CHOOSE v \in Hosts(polling, s, g) : TRUE
      BY <3>1
    <3> QED BY <3>1, <3>2 DEF Host
  <2> HIDE DEF host
  <2> QED BY <1>2, <1>3, <2>1 DEF With
<1>5. queue = QueueOf(ws, w) /\ used = UsedFor(ws, w) /\ polling = Polling(ws, w)
  BY Zenon DEF QueueOf, UsedFor, Polling
<1>6. Cardinality(queue) \in Nat
  <2>1. queue \in SUBSET Steps
    BY DEF GetSteps, WithStatus
  <2> HIDE DEF queue
  <2> QED BY <2>1, FS_Subset, FS_CardinalityType
<1> DEFINE follows(f) == f = [i \in 0..Cardinality(queue) |->
            IF i = 0 THEN [free |-> [v \in Workers |-> ws[v].processes],
                           taken |-> NoResources]
            ELSE after(place(i), f[i - 1])]
<1>7. greedy = CHOOSE f : follows(f)
  BY DEF greedy
<1> HIDE DEF after, greedy, queue, used, polling, trivial
<1>8. \A f : follows(f) <=> Schedules(f, ws, polling, pick, queue, Cardinality(queue))
  BY <1>4 DEF Schedules, Empty, Place
<1> HIDE DEF follows
<1>9. Schedules(greedy, ws, polling, pick, queue, Cardinality(queue))
  <2>1. \E f : follows(f)
    BY <1>6, <1>8, SchedulesExist
  <2>2. follows(greedy)
    BY <1>7, <2>1, Zenon
  <2> QED BY <1>8, <2>2
<1>10. taken = Candidates(greedy, ws, w, queue)
  <2> HIDE DEF fits
  <2> QED BY <1>3, <1>5 DEF Candidates, Place
<1> QED BY <1>1, <1>5, <1>9, <1>10

-----------------------------------------------------------------------------
(* The queue. *)

Above(queue, s) == {t \in queue : Outranks(steps, t, s)}

\* Whichever way get_steps goes, it is about the same workers.
LEMMA ViewsAlike ==
    ASSUME NEW ws \in [Workers -> WorkerRecords], NEW w \in Workers, NEW view \in Views(ws, w)
    PROVE  /\ view \in [Workers -> WorkerRecords]
           /\ \A v \in Workers :
                 /\ view[v].steps = ws[v].steps /\ view[v].processes = ws[v].processes
                 /\ view[v].active = ws[v].active
                 /\ view[v].last_get_work = ws[v].last_get_work
<1>1. CASE view = ws
  BY <1>1
<1>2. CASE view = [ws EXCEPT ![w].removed = {}]
  <2>1. PICK rec : rec = ws[w]
    OBVIOUS
  <2>2. PICK new : new = [rec EXCEPT !.removed = {}]
    OBVIOUS
  <2>3. view = [ws EXCEPT ![w] = new]
    BY <1>2, <2>1, <2>2
  <2>4. /\ new \in WorkerRecords /\ new.steps = rec.steps /\ new.processes = rec.processes
        /\ new.active = rec.active /\ new.last_get_work = rec.last_get_work
    BY <2>1, <2>2 DEF WorkerRecords
  <2> QED BY <2>1, <2>3, <2>4
<1> QED BY <1>1, <1>2 DEF Views

\* What get_work makes of the workers does not concern what they can perform.
LEMMA AskingWorkers ==
    ASSUME IInv, NEW w \in Workers
    PROVE  /\ Asking(w) \in [Workers -> WorkerRecords]
           /\ \A v \in Workers : Asking(w)[v].steps = workers[v].steps
<1>1. PICK get_work \in BOOLEAN : get_work = TRUE
  OBVIOUS
<1>2. PICK touched : touched = UpdateWorker(workers, w, get_work)
  OBVIOUS
<1>3. WorkersKept(workers, touched) /\ touched \in [Workers -> WorkerRecords]
  <2>1. TableOK(steps, workers)
    BY DEF IInv
  <2>2. WorkersKept(workers, touched)
    BY <1>2, <2>1, UpdateWorkerOK
  <2> QED BY <1>2, <2>1, <2>2, UpdateWorkerFresh
<1>4. PICK flag \in BOOLEAN : flag = (touched[w].assistant \/ w \in AssistantWorkers)
  OBVIOUS
<1>5. PICK rec : rec = touched[w]
  OBVIOUS
<1>6. PICK new : new = [rec EXCEPT !.assistant = flag]
  OBVIOUS
<1>7. Asking(w) = [touched EXCEPT ![w] = new]
  BY <1>1, <1>2, <1>4, <1>5, <1>6 DEF Asking, Asked
<1>8. new \in WorkerRecords /\ new.steps = rec.steps
  BY <1>3, <1>5, <1>6 DEF WorkerRecords
<1> QED BY <1>3, <1>5, <1>7, <1>8 DEF WorkersKept

LEMMA AskedSteps ==
    ASSUME IInv, NEW w \in Workers, NEW ws \in Asks(w), NEW sts
    PROVE  GetSteps(steps, ws, w, sts) = {s \in WithStatus(steps, sts) : w \in steps[s].workers}
<1>1. \A s \in Steps : s \in ws[w].steps <=> w \in steps[s].workers
  <2>1. ws[w].steps = Asking(w)[w].steps
    BY AskingWorkers, ViewsAlike DEF Asks
  <2> QED BY <2>1, AskingWorkers DEF IInv, TableOK
<1>2. WithStatus(steps, sts) \subseteq Steps
  BY DEF WithStatus
<1> QED BY <1>1, <1>2 DEF GetSteps

\* The queue has the steps w can perform, and for a trivial worker no others, which
\* need nothing unless they run.
LEMMA QueueHas ==
    ASSUME IInv, IsFiniteSet(Steps), NEW w \in Workers, NEW ws \in Asks(w)
    PROVE  LET queue == QueueOf(ws, w)
           IN  /\ queue \in SUBSET Present(steps) /\ queue \in SUBSET Steps
               /\ IsFiniteSet(queue) /\ Cardinality(queue) \in Nat
               /\ \A s \in queue : steps[s].status \in {"PENDING", "RUNNING"}
               /\ \A s \in Steps : steps[s].status = "PENDING" /\ w \in steps[s].workers
                                       => s \in queue
               /\ ~IsTrivialWorker(steps, ws, w) =>
                      queue = WithStatus(steps, {"PENDING", "RUNNING"})
               /\ IsTrivialWorker(steps, ws, w) =>
                      \A s \in Steps : steps[s].status = "PENDING" /\ w \in steps[s].workers
                                           => steps[s].resources = NoResources
<1> DEFINE queue == QueueOf(ws, w)
<1>1. \A sts : GetSteps(steps, ws, w, sts) = {s \in WithStatus(steps, sts) : w \in steps[s].workers}
  BY AskedSteps
<1>2. /\ \A s \in queue : s \in Steps /\ steps[s].status \in {"PENDING", "RUNNING"}
      /\ \A s \in Steps : steps[s].status = "PENDING" /\ w \in steps[s].workers => s \in queue
  BY <1>1 DEF QueueOf, WithStatus
<1>3. ~IsTrivialWorker(steps, ws, w) => queue = WithStatus(steps, {"PENDING", "RUNNING"})
  BY DEF QueueOf
<1>4. IsTrivialWorker(steps, ws, w) =>
          \A s \in Steps : steps[s].status = "PENDING" /\ w \in steps[s].workers
                               => steps[s].resources = NoResources
  BY <1>1 DEF IsTrivialWorker, WithStatus
<1> HIDE DEF queue
<1>5. queue \in SUBSET Present(steps) /\ queue \in SUBSET Steps
  BY <1>2 DEF Present, Absent
<1>6. IsFiniteSet(queue) /\ Cardinality(queue) \in Nat
  BY <1>5, FS_Subset, FS_CardinalityType
<1> QED BY <1>2, <1>3, <1>4, <1>5, <1>6 DEF queue

LEMMA AboveCounts ==
    ASSUME IInv, Ordered, IsFiniteSet(Steps), NEW queue \in SUBSET Present(steps),
           NEW s \in queue
    PROVE  /\ IsFiniteSet(Above(queue, s)) /\ Cardinality(Above(queue, s)) \in Nat
           /\ IsFiniteSet(queue) /\ Cardinality(queue) \in Nat
           /\ Cardinality(Above(queue, s)) < Cardinality(queue)
<1>1. IsFiniteSet(queue) /\ Cardinality(queue) \in Nat
  <2>1. queue \in SUBSET Steps
    BY DEF Present
  <2> QED BY <2>1, FS_Subset, FS_CardinalityType
<1>2. Above(queue, s) \in SUBSET queue /\ Above(queue, s) # queue
  BY OutranksOrders DEF Above
<1>3. IsFiniteSet(Above(queue, s)) /\ Cardinality(Above(queue, s)) \in Nat
  BY <1>1, <1>2, FS_Subset, FS_CardinalityType
<1>4. Cardinality(Above(queue, s)) <= Cardinality(queue)
      /\ Cardinality(Above(queue, s)) # Cardinality(queue)
  BY <1>1, <1>2, FS_Subset
<1> QED BY <1>1, <1>3, <1>4

\* The higher the rank, the fewer are above.
LEMMA RankCounts ==
    ASSUME IInv, Ordered, IsFiniteSet(Steps), NEW queue \in SUBSET Present(steps),
           NEW s \in queue, NEW t \in queue
    PROVE  /\ Outranks(steps, s, t)
                  <=> Cardinality(Above(queue, s)) < Cardinality(Above(queue, t))
           /\ Cardinality(Above(queue, s)) = Cardinality(Above(queue, t)) => s = t
<1>1. ASSUME NEW a \in queue, NEW b \in queue, Outranks(steps, a, b)
      PROVE  Cardinality(Above(queue, a)) < Cardinality(Above(queue, b))
  <2>1. Above(queue, a) \in SUBSET Above(queue, b)
    BY <1>1, OutranksOrders DEF Above
  <2>2. a \in Above(queue, b) /\ a \notin Above(queue, a)
    BY <1>1, OutranksOrders DEF Above
  <2>3. /\ IsFiniteSet(Above(queue, b)) /\ Cardinality(Above(queue, b)) \in Nat
        /\ Cardinality(Above(queue, a)) \in Nat
    BY AboveCounts
  <2>4. Cardinality(Above(queue, a)) <= Cardinality(Above(queue, b))
        /\ Cardinality(Above(queue, a)) # Cardinality(Above(queue, b))
    BY <2>1, <2>2, <2>3, FS_Subset
  <2> QED BY <2>3, <2>4
<1>2. Cardinality(Above(queue, s)) \in Nat /\ Cardinality(Above(queue, t)) \in Nat
  BY AboveCounts
<1>3. s = t \/ Outranks(steps, s, t) \/ Outranks(steps, t, s)
  BY OutranksOrders
<1> QED BY <1>1, <1>2, <1>3

\* The place of a step.
LEMMA PlaceOf ==
    ASSUME IInv, Ordered, IsFiniteSet(Steps), NEW queue \in SUBSET Present(steps),
           NEW s \in queue
    PROVE  /\ Cardinality(Above(queue, s)) + 1 \in 1..Cardinality(queue)
           /\ Place(steps, queue, Cardinality(Above(queue, s)) + 1) = s
<1>1. PICK n : n = Cardinality(Above(queue, s))
  OBVIOUS
<1>2. n \in Nat /\ Cardinality(queue) \in Nat /\ n < Cardinality(queue)
  BY <1>1, AboveCounts
<1>3. (n + 1) - 1 = n /\ n + 1 \in 1..Cardinality(queue)
  BY <1>2
<1>4. s \in NthInQueue(steps, queue, n + 1)
  BY <1>1, <1>3 DEF NthInQueue, Above
<1>5. \A t \in NthInQueue(steps, queue, n + 1) : t = s
  BY <1>4, NthIsOne
<1> QED BY <1>1, <1>3, <1>4, <1>5 DEF Place

\* There is a step at every place.
LEMMA PlaceIsTaken ==
    ASSUME IInv, Ordered, IsFiniteSet(Steps), NEW queue \in SUBSET Present(steps),
           NEW i \in 1..Cardinality(queue)
    PROVE  Place(steps, queue, i) \in queue /\ Cardinality(Above(queue, Place(steps, queue, i))) = i - 1
<1>1. IsFiniteSet(queue) /\ Cardinality(queue) \in Nat
  <2>1. queue \in SUBSET Steps
    BY DEF Present
  <2> QED BY <2>1, FS_Subset, FS_CardinalityType
<1>2. PICK n \in Nat : n = Cardinality(queue)
  BY <1>1
<1> DEFINE count == [s \in queue |-> Cardinality(Above(queue, s))]
<1>3. n > 0 /\ i \in 1..n /\ i \in Nat
  BY <1>2
<1>4. IsFiniteSet(0..(n-1)) /\ Cardinality(0..(n-1)) = n
  BY <1>3, FS_Interval
<1>5. \A s \in queue : count[s] \in 0..(n-1)
  BY <1>2, AboveCounts
<1>6. \A s, t \in queue : count[s] = count[t] => s = t
  BY RankCounts
<1>7. count \in Injection(queue, 0..(n-1))
  <2>1. count \in [queue -> 0..(n-1)]
    BY <1>5
  <2> HIDE DEF count
  <2> QED BY <1>6, <2>1 DEF Injection, IsInjective
<1>8. count \in Surjection(queue, 0..(n-1))
  <2> HIDE DEF count
  <2> QED BY <1>2, <1>4, <1>7, FS_Injection
<1>9. PICK s \in queue : count[s] = i - 1
  <2>1. i - 1 \in 0..(n-1)
    BY <1>3
  <2> HIDE DEF count
  <2> QED BY <1>8, <2>1 DEF Surjection
<1>10. Cardinality(Above(queue, s)) = i - 1
  BY <1>9
<1>11. Cardinality(Above(queue, s)) + 1 = i
  BY <1>3, <1>10
<1>12. Place(steps, queue, i) = s
  BY <1>11, PlaceOf
<1> QED BY <1>9, <1>10, <1>12

-----------------------------------------------------------------------------
(* What the greedy schedule takes. *)

LEMMA RunningNeeds ==
    ASSUME IInv, AllSized, NEW s \in Steps, steps[s].status \in {"PENDING", "RUNNING"}
    PROVE  steps[s].resources = Need(s) /\ RunningResources(steps[s]) = Need(s)
<1>1. Need(s) \in Amounts
  BY ClusterAssumption DEF ClusterAssumption
<1>2. Need(s) # None /\ Need(s) # Shared
  BY <1>1, ConstantsAssumption DEF ConstantsAssumption, Amounts
<1>3. Sized(steps[s], Need(s))
  BY DEF AllSized
<1>4. steps[s].resources = Need(s) /\ steps[s].resources_running \in {None, Need(s)}
  BY <1>3 DEF Sized, Unscheduled, Absent
<1> QED BY <1>2, <1>4 DEF RunningResources

LEMMA WithTaken ==
    ASSUME IInv, AllSized, NEW s \in Steps, steps[s].status \in {"PENDING", "RUNNING"},
           NEW g, g.taken \in Amounts, NEW polling, NEW pick
    PROVE  LET h == With(polling, pick, s, g)
           IN  /\ h.taken \in Amounts
               /\ \A x \in Resources : h.taken[x] \in {g.taken[x], g.taken[x] + Need(s)[x]}
               /\ polling = {} => h = g
<1>1. Need(s) \in Amounts
  BY ClusterAssumption DEF ClusterAssumption
<1>2. steps[s].resources = Need(s) /\ RunningResources(steps[s]) = Need(s)
  BY RunningNeeds
<1>3. PICK h : h = With(polling, pick, s, g)
  OBVIOUS
<1>4. h = g \/ \E v : h = Charge(g, v, Need(s))
  BY <1>2, <1>3 DEF With
<1>5. h = g \/ h.taken = [x \in Resources |-> g.taken[x] + Need(s)[x]]
  BY <1>4 DEF Charge, PlusAmounts
<1>6. h.taken \in Amounts
      /\ \A x \in Resources : h.taken[x] \in {g.taken[x], g.taken[x] + Need(s)[x]}
  <2>1. CASE h = g
    BY <2>1
  <2>2. CASE h.taken = [x \in Resources |-> g.taken[x] + Need(s)[x]]
    BY <1>1, <2>2 DEF Amounts
  <2> QED BY <1>5, <2>1, <2>2
<1>7. polling = {} => h = g
  BY <1>3 DEF With, Hosts
<1> QED BY <1>3, <1>6, <1>7

\* What a schedule has taken, somebody on the way down needs.
TakenFor(g, queue, i) ==
    /\ g.taken \in Amounts
    /\ \A x \in Resources : g.taken[x] > 0 => \E j \in 1..i : Need(Place(steps, queue, j))[x] > 0

LEMMA SchedulesTaken ==
    ASSUME IInv, AllSized, Ordered, IsFiniteSet(Steps), NEW w \in Workers,
           NEW ws \in Asks(w), NEW polling, NEW pick, NEW queue, queue = QueueOf(ws, w),
           NEW f, Schedules(f, ws, polling, pick, queue, Cardinality(queue))
    PROVE  \A i \in 0..Cardinality(queue) :
              /\ TakenFor(f[i], queue, i)
              /\ polling = {} => f[i].taken = NoResources
              /\ i >= 1 => \A x \in Resources : f[1].taken[x] <= f[i].taken[x]
<1>1. /\ queue \in SUBSET Present(steps) /\ queue \in SUBSET Steps /\ Cardinality(queue) \in Nat
      /\ \A s \in queue : steps[s].status \in {"PENDING", "RUNNING"}
  BY QueueHas
<1>2. PICK n \in Nat : n = Cardinality(queue)
  BY <1>1
<1> DEFINE Fine(i) == /\ TakenFor(f[i], queue, i)
                      /\ polling = {} => f[i].taken = NoResources
                      /\ i >= 1 => \A x \in Resources : f[1].taken[x] <= f[i].taken[x]
           Bad == {i \in 0..n : ~Fine(i)}
<1>3. SUFFICES ASSUME Bad # {} PROVE FALSE
  BY <1>2
<1>4. PICK m \in Bad : \A k \in Bad : m <= k
  <2>1. Bad \in SUBSET Nat
    OBVIOUS
  <2> HIDE DEF Bad
  <2> QED BY <1>3, <2>1, LeastNumber
<1>5. \A i \in 0..n : f[i] = IF i = 0 THEN Empty(ws)
                             ELSE With(polling, pick, Place(steps, queue, i), f[i - 1])
  BY <1>2 DEF Schedules
<1>6. CASE m = 0
  <2>1. f[0].taken = NoResources
    <3>1. 0 \in 0..n
      OBVIOUS
    <3>2. f[0] = Empty(ws)
      BY <1>5, <3>1
    <3> QED BY <3>2 DEF Empty
  <2>2. NoResources \in Amounts /\ \A x \in Resources : ~(NoResources[x] > 0)
    BY DEF NoResources, Amounts
  <2>3. TakenFor(f[0], queue, 0)
    BY <2>1, <2>2 DEF TakenFor
  <2> QED BY <1>4, <1>6, <2>1, <2>3
<1>7. CASE m # 0
  <2>1. m \in 1..n /\ m - 1 \in 0..n /\ m \in Nat /\ m - 1 \in Nat
    BY <1>4, <1>7
  <2>2. Fine(m - 1)
    BY <1>4, <2>1
  <2>3. PICK s : s = Place(steps, queue, m)
    OBVIOUS
  <2>4. s \in Steps /\ steps[s].status \in {"PENDING", "RUNNING"}
    BY <1>1, <1>2, <2>1, <2>3, PlaceIsTaken
  <2>5. PICK g, h : g = f[m - 1] /\ h = f[m]
    OBVIOUS
  <2>6. h = With(polling, pick, s, g)
    BY <1>5, <2>1, <2>3, <2>5
  <2>7. g.taken \in Amounts
    BY <2>2, <2>5 DEF TakenFor
  <2>8. /\ h.taken \in Amounts
        /\ \A x \in Resources : h.taken[x] \in {g.taken[x], g.taken[x] + Need(s)[x]}
        /\ polling = {} => h = g
    BY <2>4, <2>6, <2>7, WithTaken
  <2>9. Need(s) \in Amounts
    BY <2>4, ClusterAssumption DEF ClusterAssumption
  <2>10. ASSUME NEW x \in Resources, h.taken[x] > 0
         PROVE  \E j \in 1..m : Need(Place(steps, queue, j))[x] > 0
    <3>1. g.taken[x] > 0 \/ Need(s)[x] > 0
      BY <2>7, <2>8, <2>9, <2>10 DEF Amounts
    <3>2. CASE Need(s)[x] > 0
      BY <2>1, <2>3, <3>2
    <3>3. CASE g.taken[x] > 0
      <4>1. PICK j \in 1..(m - 1) : Need(Place(steps, queue, j))[x] > 0
        BY <2>2, <2>5, <3>3 DEF TakenFor
      <4>2. j \in 1..m
        BY <2>1
      <4> QED BY <4>1, <4>2
    <3> QED BY <3>1, <3>2, <3>3
  <2>11. TakenFor(f[m], queue, m)
    BY <2>5, <2>8, <2>10 DEF TakenFor
  <2>12. polling = {} => f[m].taken = NoResources
    BY <2>2, <2>5, <2>8
  <2>13. ASSUME NEW x \in Resources PROVE f[1].taken[x] <= f[m].taken[x]
    <3>1. g.taken[x] \in Nat /\ h.taken[x] \in Nat /\ g.taken[x] <= h.taken[x]
      BY <2>7, <2>8, <2>9 DEF Amounts
    <3>2. CASE m = 1
      BY <2>5, <3>1, <3>2
    <3>3. CASE m # 1
      <4>1. m - 1 >= 1
        BY <2>1, <3>3
      <4>2. f[1].taken[x] <= g.taken[x]
        BY <2>2, <2>5, <4>1
      <4>3. f[1].taken \in Amounts
        <5>1. 1 \in 0..n /\ 1 < m
          BY <2>1, <3>3
        <5>2. Fine(1)
          BY <1>4, <5>1
        <5> QED BY <5>2 DEF TakenFor
      <4>4. f[1].taken[x] \in Nat
        BY <4>3 DEF Amounts
      <4> QED BY <2>5, <3>1, <4>2, <4>4
    <3> QED BY <3>2, <3>3
  <2> QED BY <1>4, <2>11, <2>12, <2>13
<1> QED BY <1>6, <1>7

\* w gets s because s comes first among the candidates.
GrantedAs(ws, f, pick, w, s) ==
    LET queue == QueueOf(ws, w)
        place == Cardinality(Above(queue, s)) + 1
    IN  /\ Schedules(f, ws, Polling(ws, w), pick, queue, Cardinality(queue))
        /\ s \in queue /\ place \in Candidates(f, ws, w, queue)
        /\ \A k \in Candidates(f, ws, w, queue) : place <= k

Granted(f, pick, w, s) == \E ws \in Asks(w) : GrantedAs(ws, f, pick, w, s)

LEMMA PickedGranted ==
    ASSUME IInv, Ordered, IsFiniteSet(Steps), NEW w \in Workers, NEW s, Picked(w, s)
    PROVE  \E f, pick : Granted(f, pick, w, s)
<1>1. PICK ws \in Asks(w) : \E pick : s \in BestStep(steps, ws, w, FALSE, pick)
  BY DEF Picked
<1>2. PICK pick : s \in BestStep(steps, ws, w, FALSE, pick)
  BY <1>1
<1>3. PICK queue : queue = QueueOf(ws, w)
  OBVIOUS
<1>4. PICK f :
          /\ Schedules(f, ws, Polling(ws, w), pick, queue, Cardinality(queue))
          /\ BestStep(steps, ws, w, FALSE, pick) =
                 IF Candidates(f, ws, w, queue) = {} THEN {}
                 ELSE NthInQueue(steps, queue, Min(Candidates(f, ws, w, queue)))
  BY <1>3, BestStepGreedy
<1>5. PICK cands : cands = Candidates(f, ws, w, queue)
  OBVIOUS
<1>6. cands # {} /\ s \in NthInQueue(steps, queue, Min(cands))
  BY <1>2, <1>4, <1>5
<1>7. queue \in SUBSET Present(steps) /\ Cardinality(queue) \in Nat
  BY <1>1, <1>3, QueueHas
<1>8. cands \in SUBSET Nat
  <2>1. cands \subseteq 1..Cardinality(queue)
    BY <1>5, Zenon DEF Candidates
  <2> QED BY <1>7, <2>1
<1>9. Min(cands) \in cands /\ \A k \in cands : Min(cands) <= k
  BY <1>6, <1>8, MinIsLeast
<1>10. s \in queue /\ Cardinality(Above(queue, s)) = Min(cands) - 1
  BY <1>6 DEF NthInQueue, Above
<1>11. Cardinality(Above(queue, s)) + 1 = Min(cands)
  <2>1. Min(cands) \in Nat
    BY <1>8, <1>9
  <2> QED BY <1>10, <2>1
<1> QED BY <1>1, <1>3, <1>4, <1>5, <1>9, <1>10, <1>11 DEF Granted, GrantedAs

-----------------------------------------------------------------------------
(* What is in use. *)

Demand(x) == [s \in Steps |-> Need(s)[x]]

\* What the running steps need of resource x.
Load(x) == Cardinality(Units(Demand(x), WithStatus(steps, {"RUNNING"})))

\* The fold of _used_resources.
AddsUpUsed(h, x, S) ==
    h = [s \in SUBSET S |->
            IF s = {} THEN 0
            ELSE RunningResources(steps[CHOOSE y \in s : TRUE])[x]
                     + h[s \ {CHOOSE y \in s : TRUE}]]

\* The fold of what a set of steps needs.
AddsUpNeeded(h, x, S) ==
    h = [s \in SUBSET S |->
            IF s = {} THEN 0
            ELSE Need(CHOOSE y \in s : TRUE)[x] + h[s \ {CHOOSE y \in s : TRUE}]]

LEMMA DemandType ==
    ASSUME NEW x \in Resources
    PROVE  \A s \in Steps : Demand(x)[s] \in Nat /\ Demand(x)[s] = Need(s)[x]
<1>1. \A s \in Steps : Need(s) \in Amounts
  BY ClusterAssumption DEF ClusterAssumption
<1> QED BY <1>1 DEF Demand, Amounts

LEMMA SumOfNeeds ==
    ASSUME NEW x \in Resources, NEW S \in SUBSET Steps, IsFiniteSet(S)
    PROVE  MapThenSumSet(LAMBDA s : Need(s)[x], S) = Cardinality(Units(Demand(x), S))
<1>1. \A s \in S : Demand(x)[s] \in Nat /\ Demand(x)[s] = Need(s)[x]
  BY DemandType
<1>2. ASSUME NEW h PROVE AddsUpNeeded(h, x, S) <=> AddsUp(h, Demand(x), S)
  <2>1. ASSUME NEW s \in SUBSET S
        PROVE  (IF s = {} THEN 0
                ELSE Need(CHOOSE y \in s : TRUE)[x] + h[s \ {CHOOSE y \in s : TRUE}])
             = (IF s = {} THEN 0
                ELSE Demand(x)[CHOOSE y \in s : TRUE] + h[s \ {CHOOSE y \in s : TRUE}])
    <3>1. PICK c : c = CHOOSE y \in s : TRUE
      OBVIOUS
    <3>2. s # {} => c \in S
      BY <3>1
    <3> QED BY <1>1, <3>1, <3>2
  <2> QED BY <2>1 DEF AddsUpNeeded, AddsUp
<1>3. \E h : AddsUp(h, Demand(x), S)
  BY <1>1, AddsUpExists
<1>4. PICK h : h = CHOOSE f : AddsUpNeeded(f, x, S)
  OBVIOUS
<1>5. AddsUpNeeded(h, x, S)
  BY <1>2, <1>3, <1>4, Zenon
<1>6. MapThenSumSet(LAMBDA s : Need(s)[x], S) = h[S]
  BY <1>4 DEF MapThenSumSet, MapThenFoldSet, AddsUpNeeded
<1> QED BY <1>1, <1>2, <1>5, <1>6, AddsUpCounts

\* What _used_resources adds up is what the running steps need.
LEMMA UsedLoad ==
    ASSUME IInv, AllSized, IsFiniteSet(Steps), NEW x \in Resources
    PROVE  UsedResources(steps)[x] = Load(x) /\ Load(x) \in Nat
<1> DEFINE S == WithStatus(steps, {"RUNNING"})
<1>1. S \in SUBSET Steps /\ \A s \in S : RunningResources(steps[s]) = Need(s)
  BY RunningNeeds DEF WithStatus
<1>2. UsedResources(steps)[x] = MapThenSumSet(LAMBDA s : RunningResources(steps[s])[x], S)
  BY DEF UsedResources
<1>3. Load(x) = Cardinality(Units(Demand(x), S))
  BY DEF Load
<1> HIDE DEF S
<1>4. IsFiniteSet(S)
  BY <1>1, FS_Subset
<1>5. \A s \in S : Demand(x)[s] \in Nat /\ Demand(x)[s] = Need(s)[x]
  BY <1>1, DemandType
<1>6. ASSUME NEW h PROVE AddsUpUsed(h, x, S) <=> AddsUp(h, Demand(x), S)
  <2>1. ASSUME NEW s \in SUBSET S
        PROVE  (IF s = {} THEN 0
                ELSE RunningResources(steps[CHOOSE y \in s : TRUE])[x]
                         + h[s \ {CHOOSE y \in s : TRUE}])
             = (IF s = {} THEN 0
                ELSE Demand(x)[CHOOSE y \in s : TRUE] + h[s \ {CHOOSE y \in s : TRUE}])
    <3>1. PICK c : c = CHOOSE y \in s : TRUE
      OBVIOUS
    <3>2. s # {} => c \in S
      BY <3>1
    <3> QED BY <1>1, <1>5, <3>1, <3>2
  <2> QED BY <2>1 DEF AddsUpUsed, AddsUp
<1>7. \E h : AddsUp(h, Demand(x), S)
  BY <1>4, <1>5, AddsUpExists
<1>8. PICK h : h = CHOOSE f : AddsUpUsed(f, x, S)
  OBVIOUS
<1>9. AddsUpUsed(h, x, S)
  BY <1>6, <1>7, <1>8, Zenon
<1>10. MapThenSumSet(LAMBDA s : RunningResources(steps[s])[x], S) = h[S]
  BY <1>8 DEF MapThenSumSet, MapThenFoldSet, AddsUpUsed
<1>11. h[S] = Cardinality(Units(Demand(x), S)) /\ Cardinality(Units(Demand(x), S)) \in Nat
  BY <1>4, <1>5, <1>6, <1>9, AddsUpCounts, UnitsFinite
<1> QED BY <1>2, <1>3, <1>10, <1>11

-----------------------------------------------------------------------------
(* What get_work passes over. *)

\* A step that is given to w is picked from the queue by a get_work of w.
LEMMA GivenIsPicked ==
    ASSUME SizeSetting, IInv, ClientTypeOK, HoldInv, SizeInv, [ClusterNext]_allVars,
           NEW s \in Steps, NEW w \in Workers, GivenTo(s, w)
    PROVE  /\ steps[s].status = "PENDING" /\ w \in steps[s].workers /\ Picked(w, s)
           /\ workers' = CountedWorkers(steps, Asking(w), w)
<1>1. /\ steps[s].status # "RUNNING" /\ steps'[s].status = "RUNNING"
      /\ steps'[s].worker_running = w
  BY DEF GivenTo
<1>2. AllSized /\ AllPlain /\ ServerHolds /\ PlainSetting
  BY DEF SizeInv, HoldInv, ServerHolds, SizeSetting
<1>3. ~NoStart
  BY <1>1 DEF NoStart
<1>4. Handled
  BY NextHandled
<1>5. PICK v \in Workers : \E work : Receives(v, work)
  BY <1>2, <1>3, <1>4, CallingSize, InterferingSize DEF Handled
<1>6. PICK work : Receives(v, work)
  BY <1>5
<1>7. PICK t \in Steps :
          /\ Starts(v, t)
          /\ steps[t].status # "RUNNING" =>
                 Picked(v, t) /\ workers' = CountedWorkers(steps, Asking(v), v)
  <2>1. steps' # steps
    BY <1>1
  <2> QED BY <1>2, <1>6, <2>1, ReceivesStarts
<1>8. t = s
  BY <1>1, <1>7 DEF Starts
<1>9. steps[s].status = "PENDING" /\ v \in steps[s].workers
  BY <1>1, <1>7, <1>8 DEF Starts, MayGive
<1>10. steps'[s] = SetRunning(steps[s], v)
  BY <1>7, <1>8 DEF Starts
<1>11. SetRunning(steps[s], v).worker_running = v
  <2>1. StepOK(steps[s]) /\ Plain(steps[s])
    BY <1>2 DEF IInv, TableOK, AllPlain
  <2> QED BY <1>9, <2>1, SetRunningPlain
<1>12. v = w
  BY <1>1, <1>10, <1>11
<1> QED BY <1>1, <1>7, <1>8, <1>9, <1>12

LEMMA GivenIsGranted ==
    ASSUME SizeSetting, IInv, ClientTypeOK, HoldInv, SizeInv, [ClusterNext]_allVars,
           NEW s \in Steps, NEW w \in Workers, GivenTo(s, w)
    PROVE  \E f, pick : Granted(f, pick, w, s)
<1>1. Picked(w, s)
  BY GivenIsPicked
<1>2. Ordered /\ IsFiniteSet(Steps)
  BY DEF HoldInv, ServerHolds, SizeSetting, PlainSetting
<1> QED BY <1>1, <1>2, PickedGranted

\* A step of higher rank that w could run has been kept back by one of yet higher rank.
LEMMA PassedOver ==
    ASSUME IInv, AllSized, Ordered, IsFiniteSet(Steps), NEW w \in Workers,
           NEW s \in Steps, NEW t \in Steps, NEW f, NEW pick, Granted(f, pick, w, s),
           Outranks(steps, t, s), Schedulable(steps, t), w \in steps[t].workers,
           HasResources(steps[t].resources, UsedResources(steps))
    PROVE  \E u \in Steps :
              /\ steps[u].status \in {"PENDING", "RUNNING"}
              /\ Outranks(steps, u, t)
              /\ \E x \in Resources : Need(u)[x] > 0 /\ Need(t)[x] > 0
<1>1. PICK ws \in Asks(w) : GrantedAs(ws, f, pick, w, s)
  BY DEF Granted
<1>2. PICK queue : queue = QueueOf(ws, w)
  OBVIOUS
<1>3. PICK n : n = Cardinality(queue)
  OBVIOUS
<1>4. PICK polling : polling = Polling(ws, w)
  OBVIOUS
<1>5. PICK i : i = Cardinality(Above(queue, t)) + 1
  OBVIOUS
<1>6. /\ queue \in SUBSET Present(steps) /\ queue \in SUBSET Steps /\ n \in Nat
      /\ \A y \in queue : steps[y].status \in {"PENDING", "RUNNING"}
      /\ t \in queue
      /\ IsTrivialWorker(steps, ws, w) => steps[t].resources = NoResources
  BY <1>1, <1>2, <1>3, QueueHas DEF Schedulable
<1>7. /\ Schedules(f, ws, polling, pick, queue, n)
      /\ s \in queue
      /\ \A k \in Candidates(f, ws, w, queue) : Cardinality(Above(queue, s)) + 1 <= k
  BY <1>1, <1>2, <1>3, <1>4 DEF GrantedAs
<1>8. i \in 1..n /\ Place(steps, queue, i) = t
  BY <1>3, <1>5, <1>6, PlaceOf
<1>9. i \notin Candidates(f, ws, w, queue)
  <2>1. Cardinality(Above(queue, t)) < Cardinality(Above(queue, s))
    BY <1>6, <1>7, RankCounts
  <2>2. Cardinality(Above(queue, t)) \in Nat /\ Cardinality(Above(queue, s)) \in Nat
    BY <1>6, <1>7, AboveCounts
  <2>3. ~(Cardinality(Above(queue, s)) + 1 <= i)
    BY <1>5, <2>1, <2>2
  <2> QED BY <1>7, <2>3
<1>10. steps[t].resources = Need(t) /\ Need(t) \in Amounts
  <2>1. Need(t) \in Amounts
    BY ClusterAssumption DEF ClusterAssumption
  <2> QED BY <1>6, <2>1, RunningNeeds
<1>11. CanTake(steps, t, w, FALSE, UsedFor(ws, w))
  <2>1. HasResources(steps[t].resources, UsedFor(ws, w))
    <3>1. CASE IsTrivialWorker(steps, ws, w)
      BY <1>6, <3>1 DEF HasResources, NoResources
    <3>2. CASE ~IsTrivialWorker(steps, ws, w)
      BY <3>2 DEF UsedFor
    <3> QED BY <3>1, <3>2
  <2> QED BY <2>1 DEF CanTake
<1>12. PICK g : g = f[i - 1]
  OBVIOUS
<1>13. ~HasResources(Need(t), g.taken)
  <2>1. ~(Fits(Place(steps, queue, i), f[i - 1])
          /\ CanTake(steps, Place(steps, queue, i), w, FALSE, UsedFor(ws, w)))
    BY <1>3, <1>8, <1>9 DEF Candidates
  <2> QED BY <1>8, <1>10, <1>11, <1>12, <2>1 DEF Fits
<1>14. PICK x \in Resources : Need(t)[x] > 0 /\ ~(Need(t)[x] + g.taken[x] <= limits[x])
  BY <1>13 DEF HasResources
<1>15. Need(t)[x] + UsedResources(steps)[x] <= limits[x]
  BY <1>10, <1>14 DEF HasResources
<1>16. UsedResources(steps)[x] \in Nat
  BY UsedLoad
<1>17. i - 1 \in 0..n
  BY <1>6, <1>8
<1>18. TakenFor(g, queue, i - 1)
  BY <1>1, <1>2, <1>3, <1>7, <1>12, <1>17, SchedulesTaken
<1>19. g.taken[x] > 0
  <2>1. g.taken[x] \in Nat /\ Need(t)[x] \in Nat /\ limits[x] \in Nat
    BY <1>10, <1>18 DEF TakenFor, Amounts, IInv
  <2> QED BY <1>14, <1>15, <1>16, <2>1
<1>20. PICK j \in 1..(i - 1) : Need(Place(steps, queue, j))[x] > 0
  BY <1>18, <1>19 DEF TakenFor
<1>21. PICK u : u = Place(steps, queue, j)
  OBVIOUS
<1>22. j \in 1..n /\ j < i
  BY <1>6, <1>8
<1>23. u \in queue /\ Cardinality(Above(queue, u)) = j - 1
  BY <1>3, <1>6, <1>21, <1>22, PlaceIsTaken
<1>24. Outranks(steps, u, t)
  <2>1. Cardinality(Above(queue, t)) \in Nat
    BY <1>6, AboveCounts
  <2>2. Cardinality(Above(queue, u)) < Cardinality(Above(queue, t))
    BY <1>5, <1>22, <1>23, <2>1
  <2> QED BY <1>6, <1>23, <2>2, RankCounts
<1> QED BY <1>6, <1>14, <1>20, <1>21, <1>23, <1>24

\* As long as steps are scheduled with what they need, get_work hands out by rank: it
\* passes over a step that the worker could run at once only for the sake of a step of
\* yet higher rank, which has taken one of its resources in the greedy schedule.
THEOREM PriorityAlwaysRespected ==
    ASSUME SizeSetting PROVE ClusterSpec => PriorityRespected
<1> DEFINE ByRank ==
        \A s, t \in Steps, w \in Workers :
          /\ GivenTo(s, w) /\ Outranks(steps, t, s) /\ Schedulable(steps, t)
          /\ CanTake(steps, t, w, w \in AssistantWorkers, UsedResources(steps))
          => \E u \in Steps :
                /\ steps[u].status \in {"PENDING", "RUNNING"}
                /\ Outranks(steps, u, t)
                /\ \E x \in Resources : Need(u)[x] > 0 /\ Need(t)[x] > 0
<1>1. IInv /\ ClientTypeOK /\ HoldInv /\ SizeInv /\ [ClusterNext]_allVars => ByRank
  <2> SUFFICES ASSUME IInv, ClientTypeOK, HoldInv, SizeInv, [ClusterNext]_allVars,
                      NEW s \in Steps, NEW t \in Steps, NEW w \in Workers,
                      GivenTo(s, w), Outranks(steps, t, s), Schedulable(steps, t),
                      CanTake(steps, t, w, w \in AssistantWorkers, UsedResources(steps))
               PROVE  \E u \in Steps :
                        /\ steps[u].status \in {"PENDING", "RUNNING"}
                        /\ Outranks(steps, u, t)
                        /\ \E x \in Resources : Need(u)[x] > 0 /\ Need(t)[x] > 0
    BY Zenon
  <2>1. AllSized /\ Ordered /\ IsFiniteSet(Steps) /\ w \notin AssistantWorkers
    BY DEF SizeInv, HoldInv, ServerHolds, SizeSetting, PlainSetting
  <2>2. w \in steps[t].workers /\ HasResources(steps[t].resources, UsedResources(steps))
    BY <2>1 DEF CanTake
  <2>3. PICK f, pick : Granted(f, pick, w, s)
    BY GivenIsGranted
  <2> QED BY <2>1, <2>2, <2>3, PassedOver
<1> HIDE DEF ByRank
<1>2. ClusterSpec => [](IInv /\ ClientTypeOK /\ HoldInv /\ SizeInv)
  BY SizeInductive
<1>3. ClusterSpec => [][ByRank]_allVars
  BY <1>1, <1>2, PTL DEF ClusterSpec
<1> QED BY <1>3 DEF PriorityRespected, ByRank

\* Worker v asks for work, as AsksForWork, in the table ws.
StillPolls(ws, v) ==
    /\ ws[v].active /\ ws[v].processes > 0
    /\ ws[v].last_get_work # None /\ ws[v].last_get_work < DisconnectDelay

\* A worker that asks for work after a get_work was one that asked before, or it is the
\* worker that gets the reply.
LEMMA AskedBefore ==
    ASSUME NEW w \in Workers, workers' = CountedWorkers(steps, Asking(w), w),
           NEW v \in Workers, AsksForWork(v)'
    PROVE  StillPolls(Asking(w), v)
<1>1. PICK ws : ws = Asking(w)
  OBVIOUS
<1>2. /\ workers'[v].active /\ workers'[v].processes > 0
      /\ workers'[v].last_get_work # None /\ workers'[v].last_get_work < DisconnectDelay
  BY DEF AsksForWork
<1>3. workers'[v] \in {GetWorker(ws, v), ws[v]}
  BY <1>1 DEF CountedWorkers
<1>4. NewWorker.last_get_work = None
  BY DEF NewWorker
<1>5. workers'[v] = ws[v]
  BY <1>2, <1>3, <1>4 DEF GetWorker
<1> QED BY <1>1, <1>2, <1>5 DEF StillPolls

\* What the first step of the queue needs is set aside in the schedule.
LEMMA SetAside ==
    ASSUME IInv, AllSized, Ordered, IsFiniteSet(Steps), NEW w \in Workers,
           NEW s \in Steps, NEW t \in Steps, s # t, NEW f, NEW pick, Granted(f, pick, w, s),
           steps[s].status = "PENDING", w \in steps[s].workers,
           Schedulable(steps, t), HasResources(Need(t), NoResources),
           \A u \in WithStatus(steps, {"PENDING", "RUNNING"}) \ {t} : Outranks(steps, t, u),
           NEW v \in steps[t].workers, StillPolls(Asking(w), v),
           NEW x \in Resources, Need(s)[x] > 0
    PROVE  Need(s)[x] + Need(t)[x] <= limits[x]
<1>1. PICK ws \in Asks(w) : GrantedAs(ws, f, pick, w, s)
  BY DEF Granted
<1>2. PICK queue : queue = QueueOf(ws, w)
  OBVIOUS
<1>3. PICK n : n = Cardinality(queue)
  OBVIOUS
<1>4. PICK polling : polling = Polling(ws, w)
  OBVIOUS
<1>5. Need(s) \in Amounts /\ Need(t) \in Amounts
  BY ClusterAssumption DEF ClusterAssumption
<1>6. /\ queue \in SUBSET Present(steps) /\ queue \in SUBSET Steps /\ n \in Nat
      /\ ~IsTrivialWorker(steps, ws, w) => queue = WithStatus(steps, {"PENDING", "RUNNING"})
      /\ IsTrivialWorker(steps, ws, w) => steps[s].resources = NoResources
  BY <1>1, <1>2, <1>3, QueueHas
<1>7. steps[s].resources = Need(s) /\ steps[t].resources = Need(t)
      /\ steps[t].status = "PENDING"
  BY RunningNeeds DEF Schedulable
<1>8. ~IsTrivialWorker(steps, ws, w)
  BY <1>6, <1>7 DEF NoResources
<1>9. v \in polling
  <2>1. v \in Workers
    BY DEF IInv, TableOK, StepRecords
  <2>2. StillPolls(ws, v)
    BY <1>1, <2>1, AskingWorkers, ViewsAlike DEF StillPolls, Asks
  <2> QED BY <1>4, <1>8, <2>1, <2>2 DEF Polling, GreedyWorkers, StillPolls
<1>10. t \in queue /\ s \in queue /\ \A u \in queue \ {t} : Outranks(steps, t, u)
  BY <1>6, <1>7, <1>8 DEF WithStatus
<1>11. PICK k : k = Cardinality(Above(queue, s)) + 1
  OBVIOUS
<1>12. /\ Schedules(f, ws, polling, pick, queue, n)
       /\ k \in Candidates(f, ws, w, queue)
  BY <1>1, <1>2, <1>3, <1>4, <1>11 DEF GrantedAs
<1>13. Cardinality(Above(queue, t)) = 0
  <2>1. Above(queue, t) = {}
    <3> SUFFICES ASSUME NEW u \in queue, Outranks(steps, u, t) PROVE FALSE
      BY DEF Above
    <3>1. u # t
      BY <1>6, OutranksOrders
    <3>2. Outranks(steps, t, u)
      BY <1>10, <3>1
    <3>3. Outranks(steps, t, t)
      BY <1>6, <1>10, <3>2, OutranksOrders
    <3> QED BY <1>6, <1>10, <3>3, OutranksOrders
  <2> QED BY <2>1, FS_EmptySet
<1>14. Place(steps, queue, 1) = t /\ 1 \in 1..n
  <2>1. Cardinality(Above(queue, t)) + 1 = 1
    BY <1>13
  <2> QED BY <1>3, <1>6, <1>10, <2>1, PlaceOf
<1>15. Place(steps, queue, k) = s /\ k \in 1..n
  BY <1>3, <1>6, <1>10, <1>11, PlaceOf
<1>16. k - 1 \in 0..n /\ k - 1 >= 1
  <2>1. Cardinality(Above(queue, t)) < Cardinality(Above(queue, s))
    BY <1>6, <1>10, RankCounts
  <2>2. Cardinality(Above(queue, s)) \in Nat
    BY <1>6, <1>10, AboveCounts
  <2> QED BY <1>6, <1>11, <1>13, <1>15, <2>1, <2>2
<1>17. f[0] = Empty(ws) /\ f[1] = With(polling, pick, t, f[0])
  <2>1. 0 \in 0..n /\ 1 \in 0..n /\ 1 - 1 = 0
    BY <1>6, <1>14
  <2> QED BY <1>12, <1>14, <2>1 DEF Schedules
<1>18. f[1].taken[x] = Need(t)[x]
  <2>1. PICK g : g = Empty(ws)
    OBVIOUS
  <2>2. g.taken = NoResources /\ \A y \in Workers : g.free[y] = ws[y].processes
    BY <2>1 DEF Empty
  <2>3. Fits(t, g)
    BY <1>7, <2>2 DEF Fits
  <2>4. v \in Hosts(polling, t, g)
    <3>1. v \in Workers
      BY DEF IInv, TableOK, StepRecords
    <3>2. ws[v].processes > 0
      BY <1>1, <3>1, AskingWorkers, ViewsAlike DEF StillPolls, Asks
    <3> QED BY <1>9, <2>2, <3>1, <3>2 DEF Hosts
  <2>5. \E y : f[1] = Charge(g, y, Need(t))
    BY <1>7, <1>17, <2>1, <2>3, <2>4 DEF With
  <2>6. f[1].taken = PlusAmounts(NoResources, Need(t))
    BY <2>2, <2>5 DEF Charge
  <2> QED BY <1>5, <2>6 DEF PlusAmounts, NoResources, Amounts
<1>19. PICK h : h = f[k - 1]
  OBVIOUS
<1>20. h.taken \in Amounts /\ f[1].taken[x] <= h.taken[x]
  BY <1>1, <1>2, <1>3, <1>12, <1>16, <1>19, SchedulesTaken DEF TakenFor
<1>21. HasResources(Need(s), h.taken)
  BY <1>7, <1>12, <1>15, <1>19 DEF Candidates, Fits
<1>22. Need(s)[x] + h.taken[x] <= limits[x]
  BY <1>21 DEF HasResources
<1>23. /\ Need(s)[x] \in Nat /\ Need(t)[x] \in Nat /\ h.taken[x] \in Nat /\ limits[x] \in Nat
  BY <1>5, <1>20 DEF Amounts, IInv
<1> QED BY <1>18, <1>20, <1>22, <1>23

\* The step of highest rank gets what it needs: while a worker that can run it asks for
\* work, get_work starts no other step that leaves too little of a resource for it, even
\* if the resource is free and others ask more often.
THEOREM UrgentStepsAlwaysReserved ==
    ASSUME SizeSetting PROVE ClusterSpec => UrgentStepsAreReserved
<1> DEFINE Reserved ==
        \A s, t \in Steps, w \in Workers :
          /\ GivenTo(s, w) /\ s # t
          /\ Schedulable(steps, t) /\ HasResources(Need(t), NoResources)
          /\ \A u \in WithStatus(steps, {"PENDING", "RUNNING"}) \ {t} : Outranks(steps, t, u)
          /\ \E v \in steps[t].workers : AsksForWork(v)'
          => \A x \in Resources : Need(s)[x] > 0 =>
                 Need(s)[x] + Need(t)[x] <= limits[x]
<1>1. IInv /\ ClientTypeOK /\ HoldInv /\ SizeInv /\ [ClusterNext]_allVars => Reserved
  <2> SUFFICES ASSUME IInv, ClientTypeOK, HoldInv, SizeInv, [ClusterNext]_allVars,
                      NEW s \in Steps, NEW t \in Steps, NEW w \in Workers, GivenTo(s, w),
                      s # t, Schedulable(steps, t), HasResources(Need(t), NoResources),
                      \A u \in WithStatus(steps, {"PENDING", "RUNNING"}) \ {t} :
                          Outranks(steps, t, u),
                      NEW v \in steps[t].workers, AsksForWork(v)',
                      NEW x \in Resources, Need(s)[x] > 0
               PROVE  Need(s)[x] + Need(t)[x] <= limits[x]
    BY Zenon
  <2>1. AllSized /\ Ordered /\ IsFiniteSet(Steps)
    BY DEF SizeInv, HoldInv, ServerHolds, SizeSetting, PlainSetting
  <2>2. /\ steps[s].status = "PENDING" /\ w \in steps[s].workers
        /\ workers' = CountedWorkers(steps, Asking(w), w)
    BY GivenIsPicked
  <2>3. PICK f, pick : Granted(f, pick, w, s)
    BY GivenIsGranted
  <2>4. v \in Workers
    BY DEF IInv, TableOK, StepRecords
  <2>5. StillPolls(Asking(w), v)
    BY <2>2, <2>4, AskedBefore
  <2> QED BY <2>1, <2>2, <2>3, <2>5, SetAside
<1> HIDE DEF Reserved
<1>2. ClusterSpec => [](IInv /\ ClientTypeOK /\ HoldInv /\ SizeInv)
  BY SizeInductive
<1>3. ClusterSpec => [][Reserved]_allVars
  BY <1>1, <1>2, PTL DEF ClusterSpec
<1> QED BY <1>3 DEF UrgentStepsAreReserved, Reserved

-----------------------------------------------------------------------------
(* What runs never needs more than there is. *)

\* Only the scheduler starts and only the workers end runs, each report arrives once,
\* and nobody changes the limits, of which there would be too little for what runs.
LimitSetting ==
    /\ SizeSetting /\ OwnSetting
    /\ "repeat" \notin Behaviours /\ "limits" \notin Behaviours
    /\ IsFiniteSet(Workers)

LoadInv ==
    /\ limits = InitialLimits
    /\ \A x \in Resources : Load(x) <= limits[x]

LEMMA HandlersKeepLimits ==
    /\ \A q : AddStep(q) => limits' = limits
    /\ \A w, assistant, current_steps, work :
          GetWork(w, assistant, current_steps, work) => limits' = limits
<1>1. ASSUME NEW q, AddStep(q) PROVE limits' = limits
  BY <1>1, Zenon DEF AddStep
<1>2. ASSUME NEW w, NEW assistant, NEW current_steps, NEW work,
             GetWork(w, assistant, current_steps, work)
      PROVE  limits' = limits
  BY <1>2, Zenon DEF GetWork
<1> QED BY <1>1, <1>2

LEMMA NextLimits ==
    ASSUME "limits" \notin Behaviours, limits = InitialLimits, [ClusterNext]_allVars
    PROVE  limits' = InitialLimits
<1>1. ASSUME NEW w \in Workers, WorkerNext(w) PROVE limits' = limits
  <2>1. CASE \E s \in Steps : RegisterBatcher(w, s)
    BY <2>1 DEF RegisterBatcher, AddStepBatcher
  <2>2. CASE \E s \in Steps, status \in Claims : Schedule(w, s, status)
    <3>1. \E q : AddStep(q)
      BY <2>2, Zenon DEF Schedule
    <3> QED BY <3>1, HandlersKeepLimits
  <2>3. CASE Announce(w) \/ CountWork(w) \/ KeepAlive(w)
    BY <2>3 DEF Announce, AddWorker, CountWork, CountPending, KeepAlive, Ping
  <2>4. CASE \E work \in Replies(w) : AskForWork(w, work) \/ LoseWork(w, work)
                                      \/ ReceiveUnloadable(w, work)
    BY <2>4, HandlersKeepLimits DEF AskForWork, LoseWork, ReceiveUnloadable, Receives
  <2>5. CASE (\E s \in Steps : ReportUnloadable(w, s) \/ Track(w, s)) \/ StartBatch(w)
             \/ Call(w) \/ RepeatUnheard(w)
    BY <2>5, HandlersKeepLimits
       DEF ReportUnloadable, Track, StartBatch, Call, RepeatUnheard, CallUnheard
  <2>6. CASE \E s \in Steps : GiveUpResources(w, s)
    BY <2>6 DEF GiveUpResources, DecreaseRunningStepResources
  <2>7. CASE \E s \in Steps, status \in Endings :
                \/ \E missing \in BOOLEAN : Finish(w, s, status, missing)
                \/ FinishUnheard(w, s, status)
    BY <2>7, HandlersKeepLimits DEF Finish, FinishUnheard, CallUnheard
  <2>8. CASE (\E s \in Steps : Suspend(w, s)) \/ Crash(w)
    BY <2>8 DEF Suspend, Crash, vars
  <2> QED BY <1>1, <2>1, <2>2, <2>3, <2>4, <2>5, <2>6, <2>7, <2>8 DEF WorkerNext
<1>2. CASE TimePasses \/ PruneNow \/ UNCHANGED allVars
  BY <1>2 DEF TimePasses, Tick, PruneNow, Prune, allVars, vars
<1>3. CASE Operate
  BY <1>3 DEF Operate, SetPaused, DisableWorker, ForgiveFailures, MarkAsDone, ReEnableStep,
              Restart
<1> QED BY <1>1, <1>2, <1>3 DEF ClusterNext

\* Fewer steps run: they need no more.
LEMMA FewerLoads ==
    ASSUME IsFiniteSet(Steps), NoStart, NEW x \in Resources
    PROVE  Load(x)' <= Load(x) /\ Load(x) \in Nat /\ Load(x)' \in Nat
<1> DEFINE R == WithStatus(steps, {"RUNNING"})
           R2 == WithStatus(steps', {"RUNNING"})
<1>1. R \in SUBSET Steps /\ R2 \in SUBSET R
  BY DEF NoStart, WithStatus
<1>2. Load(x) = Cardinality(Units(Demand(x), R)) /\ Load(x)' = Cardinality(Units(Demand(x), R2))
  BY DEF Load, Demand
<1> HIDE DEF R, R2
<1>3. IsFiniteSet(R) /\ \A s \in R : Demand(x)[s] \in Nat
  BY <1>1, FS_Subset, DemandType
<1>4. IsFiniteSet(Units(Demand(x), R)) /\ Cardinality(Units(Demand(x), R)) \in Nat
  BY <1>3, UnitsFinite
<1>5. Units(Demand(x), R2) \in SUBSET Units(Demand(x), R)
  BY <1>1 DEF Units
<1> QED BY <1>2, <1>4, <1>5, FS_Subset, FS_CardinalityType

\* One more step runs: it adds what it needs.
LEMMA OneMoreLoad ==
    ASSUME IsFiniteSet(Steps), NEW s \in Steps, steps[s].status # "RUNNING",
           \A t \in Steps \ {s} : steps'[t] = steps[t], NEW x \in Resources
    PROVE  Load(x)' <= Load(x) + Need(s)[x] /\ Load(x) \in Nat /\ Load(x)' \in Nat
<1> DEFINE R == WithStatus(steps, {"RUNNING"})
           R2 == WithStatus(steps', {"RUNNING"})
           more == R \cup {s}
<1>1. R \in SUBSET Steps /\ s \notin R /\ R2 \in SUBSET more /\ more \in SUBSET Steps
      /\ more \ {s} = R
  BY DEF WithStatus
<1>2. Load(x) = Cardinality(Units(Demand(x), R)) /\ Load(x)' = Cardinality(Units(Demand(x), R2))
  BY DEF Load, Demand
<1>3. s \in more
  OBVIOUS
<1> HIDE DEF R, R2, more
<1>4. IsFiniteSet(more) /\ IsFiniteSet(R) /\ \A t \in more : Demand(x)[t] \in Nat
  BY <1>1, FS_Subset, DemandType
<1>5. Cardinality(Units(Demand(x), more)) = Demand(x)[s] + Cardinality(Units(Demand(x), R))
  BY <1>1, <1>3, <1>4, UnitsRemove
<1>6. /\ IsFiniteSet(Units(Demand(x), more)) /\ Cardinality(Units(Demand(x), more)) \in Nat
      /\ Cardinality(Units(Demand(x), R)) \in Nat
  <2>1. \A t \in R : Demand(x)[t] \in Nat
    BY <1>1, DemandType
  <2> QED BY <1>4, <2>1, UnitsFinite
<1>7. Units(Demand(x), R2) \in SUBSET Units(Demand(x), more)
  BY <1>1 DEF Units
<1>8. Cardinality(Units(Demand(x), R2)) <= Cardinality(Units(Demand(x), more))
      /\ Cardinality(Units(Demand(x), R2)) \in Nat
  BY <1>6, <1>7, FS_Subset, FS_CardinalityType
<1>9. Demand(x)[s] = Need(s)[x] /\ Demand(x)[s] \in Nat
  BY DemandType
<1> QED BY <1>2, <1>5, <1>6, <1>8, <1>9

\* What get_work gives to w fits in with what runs.
LEMMA GrantedFits ==
    ASSUME IInv, AllSized, Ordered, IsFiniteSet(Steps), NEW w \in Workers, NEW s \in Steps,
           steps[s].status = "PENDING", w \in steps[s].workers, NEW f, NEW pick,
           Granted(f, pick, w, s), NEW x \in Resources, Need(s)[x] > 0
    PROVE  Need(s)[x] + Load(x) <= limits[x]
<1>1. PICK ws \in Asks(w) : GrantedAs(ws, f, pick, w, s)
  BY DEF Granted
<1>2. PICK queue : queue = QueueOf(ws, w)
  OBVIOUS
<1>3. PICK place : place = Cardinality(Above(queue, s)) + 1
  OBVIOUS
<1>4. queue \in SUBSET Present(steps)
      /\ (IsTrivialWorker(steps, ws, w) => steps[s].resources = NoResources)
  BY <1>1, <1>2, QueueHas
<1>5. s \in queue /\ place \in Candidates(f, ws, w, queue)
  BY <1>1, <1>2, <1>3 DEF GrantedAs
<1>6. Place(steps, queue, place) = s
  BY <1>3, <1>4, <1>5, PlaceOf
<1>7. steps[s].resources = Need(s)
  BY RunningNeeds
<1>8. HasResources(Need(s), UsedFor(ws, w))
  BY <1>5, <1>6, <1>7 DEF Candidates, CanTake
<1>9. UsedFor(ws, w) = UsedResources(steps)
  BY <1>4, <1>7 DEF UsedFor, NoResources
<1>10. UsedResources(steps)[x] = Load(x)
  BY UsedLoad
<1> QED BY <1>8, <1>9, <1>10 DEF HasResources

LEMMA ReceivesLoad ==
    ASSUME PlainSetting, IInv, AllSized, ServerHolds, NEW w \in Workers, NEW work,
           Receives(w, work), NEW x \in Resources, Load(x) <= limits[x]
    PROVE  Load(x)' <= limits[x]
<1>1. IsFiniteSet(Steps) /\ Ordered
  BY DEF PlainSetting, ServerHolds
<1>2. limits[x] \in Nat
  BY DEF IInv, Amounts
<1>3. CASE steps' = steps
  BY <1>3 DEF Load
<1>4. ASSUME NEW s \in Steps, Starts(w, s),
             steps[s].status # "RUNNING" =>
                 Picked(w, s) /\ workers' = CountedWorkers(steps, Asking(w), w)
      PROVE  Load(x)' <= limits[x]
  <2>1. \A t \in Steps \ {s} : steps'[t] = steps[t]
    BY <1>4 DEF Starts
  <2>2. CASE steps[s].status = "RUNNING"
    <3>1. NoStart
      BY <2>1, <2>2 DEF NoStart
    <3> QED BY <1>1, <1>2, <3>1, FewerLoads
  <2>3. CASE steps[s].status # "RUNNING"
    <3>1. steps[s].status = "PENDING" /\ w \in steps[s].workers
      BY <1>4, <2>3 DEF Starts, MayGive
    <3>2. PICK f, pick : Granted(f, pick, w, s)
      BY <1>1, <1>4, <2>3, PickedGranted
    <3>3. Need(s)[x] > 0 => Need(s)[x] + Load(x) <= limits[x]
      BY <1>1, <3>1, <3>2, GrantedFits
    <3>4. Load(x)' <= Load(x) + Need(s)[x] /\ Load(x) \in Nat /\ Load(x)' \in Nat
      BY <1>1, <2>1, <2>3, OneMoreLoad
    <3>5. Need(s)[x] \in Nat
      BY DemandType
    <3> QED BY <1>2, <3>3, <3>4, <3>5
  <2> QED BY <2>2, <2>3
<1> QED BY <1>3, <1>4, ReceivesStarts

LEMMA NextLoad ==
    LimitSetting /\ IInv /\ ClientTypeOK /\ HoldInv /\ SizeInv /\ LoadInv /\ [ClusterNext]_allVars
        => LoadInv'
<1> SUFFICES ASSUME LimitSetting, IInv, ClientTypeOK, HoldInv, SizeInv, LoadInv,
                    [ClusterNext]_allVars
             PROVE  LoadInv'
  OBVIOUS
<1>1. limits = InitialLimits /\ "limits" \notin Behaviours /\ SizeSetting /\ PlainSetting
      /\ IsFiniteSet(Steps)
  BY DEF LoadInv, LimitSetting, SizeSetting, PlainSetting
<1>2. limits' = InitialLimits /\ limits' = limits
  BY <1>1, NextLimits
<1>3. AllSized /\ AllPlain /\ ServerHolds
  BY DEF SizeInv, HoldInv, ServerHolds
<1>4. Handled
  BY <1>1, NextHandled
<1>5. ASSUME NEW x \in Resources PROVE Load(x)' <= limits[x]
  <2>1. Load(x) <= limits[x] /\ limits[x] \in Nat
    BY DEF LoadInv, IInv, Amounts
  <2>2. ASSUME NoStart PROVE Load(x)' <= limits[x]
    BY <1>1, <2>1, <2>2, FewerLoads
  <2>3. ASSUME NEW w \in Workers, NEW work, Receives(w, work) PROVE Load(x)' <= limits[x]
    BY <1>1, <1>3, <2>1, <2>3, ReceivesLoad
  <2> QED BY <1>3, <1>4, <2>2, <2>3, CallingSize, InterferingSize DEF Handled
<1> QED BY <1>2, <1>5 DEF LoadInv

LEMMA InitLoad == ClusterInit => LoadInv
<1> SUFFICES ASSUME ClusterInit PROVE LoadInv
  OBVIOUS
<1>1. limits = InitialLimits /\ \A s \in Steps : steps[s] = NoStep
  BY DEF ClusterInit, Init
<1>2. NoStep.status = Absent
  BY DEF NoStep, NewStep
<1>3. WithStatus(steps, {"RUNNING"}) = {}
  BY <1>1, <1>2 DEF WithStatus, Absent
<1>4. \A x \in Resources : Load(x) = 0
  BY <1>3, UnitsOfNothing DEF Load
<1>5. \A x \in Resources : limits[x] \in Nat
  BY <1>1, ConstantsAssumption DEF ConstantsAssumption
<1> QED BY <1>1, <1>4, <1>5 DEF LoadInv

LEMMA LimitInductive ==
    ASSUME LimitSetting
    PROVE  ClusterSpec => [](IInv /\ ClientTypeOK /\ HoldInv /\ SizeInv /\ OwnInv /\ LoadInv)
<1>1. LimitSetting /\ SizeSetting /\ OwnSetting
  BY DEF LimitSetting
<1>2. ClusterSpec => [](IInv /\ ClientTypeOK /\ HoldInv /\ SizeInv)
  BY <1>1, SizeInductive
<1>3. ClusterSpec => [](IInv /\ ClientTypeOK /\ HoldInv /\ OwnInv)
  BY <1>1, OwnInductive
<1> QED BY <1>1, <1>2, <1>3, InitLoad, NextLoad, PTL DEF ClusterSpec

\* The fold of what the workers execute.
AddsUpRuns(h, x, S) ==
    h = [s \in SUBSET S |->
            IF s = {} THEN 0
            ELSE MapThenSumSet(LAMBDA t : Need(t)[x], running[CHOOSE y \in s : TRUE])
                     + h[s \ {CHOOSE y \in s : TRUE}]]

\* What the workers' runs need.
RunsOf(x) == [w \in Workers |-> Cardinality(Units(Demand(x), running[w]))]

LEMMA SumOfRuns ==
    ASSUME ClientTypeOK, IsFiniteSet(Steps), IsFiniteSet(Workers), NEW x \in Resources
    PROVE  /\ MapThenSumSet(LAMBDA w : MapThenSumSet(LAMBDA s : Need(s)[x], running[w]), Workers)
                  = Cardinality(Units(RunsOf(x), Workers))
           /\ \A w \in Workers : RunsOf(x)[w] \in Nat
<1>1. ASSUME NEW w \in Workers
      PROVE  /\ RunsOf(x)[w] \in Nat
             /\ MapThenSumSet(LAMBDA s : Need(s)[x], running[w]) = RunsOf(x)[w]
  <2>1. running[w] \in SUBSET Steps
    BY DEF ClientTypeOK
  <2>2. IsFiniteSet(running[w])
    BY <2>1, FS_Subset
  <2>3. \A s \in running[w] : Demand(x)[s] \in Nat
    BY <2>1, DemandType
  <2>4. Cardinality(Units(Demand(x), running[w])) \in Nat
    BY <2>2, <2>3, UnitsFinite
  <2>5. MapThenSumSet(LAMBDA s : Need(s)[x], running[w])
            = Cardinality(Units(Demand(x), running[w]))
    BY <2>1, <2>2, SumOfNeeds
  <2> QED BY <2>4, <2>5 DEF RunsOf
<1>2. ASSUME NEW h PROVE AddsUpRuns(h, x, Workers) <=> AddsUp(h, RunsOf(x), Workers)
  <2>1. ASSUME NEW s \in SUBSET Workers
        PROVE  (IF s = {} THEN 0
                ELSE MapThenSumSet(LAMBDA t : Need(t)[x], running[CHOOSE y \in s : TRUE])
                         + h[s \ {CHOOSE y \in s : TRUE}])
             = (IF s = {} THEN 0
                ELSE RunsOf(x)[CHOOSE y \in s : TRUE] + h[s \ {CHOOSE y \in s : TRUE}])
    <3>1. PICK c : c = CHOOSE y \in s : TRUE
      OBVIOUS
    <3>2. CASE s = {}
      BY <3>2
    <3>3. CASE s # {}
      <4>1. c \in Workers
        BY <3>1, <3>3
      <4>2. MapThenSumSet(LAMBDA t : Need(t)[x], running[c]) = RunsOf(x)[c]
        BY <1>1, <4>1
      <4> QED BY <3>1, <4>2
    <3> QED BY <3>2, <3>3
  <2> QED BY <2>1 DEF AddsUpRuns, AddsUp
<1>3. \E h : AddsUp(h, RunsOf(x), Workers)
  BY <1>1, AddsUpExists
<1>4. PICK h : h = CHOOSE f : AddsUpRuns(f, x, Workers)
  OBVIOUS
<1>5. AddsUpRuns(h, x, Workers)
  BY <1>2, <1>3, <1>4, Zenon
<1>6. MapThenSumSet(LAMBDA w : MapThenSumSet(LAMBDA s : Need(s)[x], running[w]), Workers)
          = h[Workers]
  BY <1>4 DEF MapThenSumSet, MapThenFoldSet, AddsUpRuns
<1> QED BY <1>1, <1>2, <1>5, <1>6, AddsUpCounts

\* Every run is on record as one, and no two are of the same step.
LEMMA RunsWithinLoad ==
    ASSUME ClientTypeOK, OwnInv, "repeat" \notin Behaviours, IsFiniteSet(Steps),
           IsFiniteSet(Workers), NEW x \in Resources
    PROVE  Cardinality(Units(RunsOf(x), Workers)) <= Load(x)
<1> DEFINE R == WithStatus(steps, {"RUNNING"})
           D == Demand(x)
           part(w) == Units(D, running[w])
           size(w) == Cardinality(part(w))
           number == [w \in Workers |-> CHOOSE b : b \in Bijection(1..size(w), part(w))]
           inject == [u \in Units(RunsOf(x), Workers) |-> number[u[1]][u[2] + 1]]
<1>1. \A w \in Workers : \A s \in running[w] : s \in R /\ steps[s].worker_running = w
  BY DEF OwnInv, RunsOwned, Reporting, RunsOn, WithStatus, ClientTypeOK
<1>2. R \in SUBSET Steps /\ IsFiniteSet(R)
  <2>1. R \in SUBSET Steps
    BY DEF WithStatus
  <2> QED BY <2>1, FS_Subset
<1>3. Load(x) = Cardinality(Units(D, R))
  BY DEF Load
<1> HIDE DEF R
<1>4. IsFiniteSet(Units(D, R))
  BY <1>2, DemandType, UnitsFinite
<1>5. ASSUME NEW w \in Workers
      PROVE  size(w) \in Nat /\ number[w] \in Bijection(1..size(w), part(w))
  <2>1. part(w) \in SUBSET Units(D, R)
    BY <1>1 DEF Units
  <2>2. IsFiniteSet(part(w))
    BY <1>4, <2>1, FS_Subset
  <2>3. size(w) \in Nat /\ \E b : b \in Bijection(1..size(w), part(w))
    BY <2>2, FS_CardinalityType DEF ExistsBijection
  <2> QED BY <2>3
<1>6. \A w \in Workers : RunsOf(x)[w] = size(w)
  BY DEF RunsOf
<1>7. ASSUME NEW u \in Units(RunsOf(x), Workers)
      PROVE  /\ u[1] \in Workers /\ u[2] + 1 \in 1..size(u[1]) /\ u = <<u[1], u[2]>> /\ u[2] \in Nat
             /\ inject[u] = number[u[1]][u[2] + 1] /\ inject[u] \in part(u[1])
  <2>1. u \in Workers \X Nat /\ u[2] < RunsOf(x)[u[1]]
    BY DEF Units
  <2>2. PICK w \in Workers, k \in Nat : w = u[1] /\ k = u[2] /\ u = <<w, k>>
    BY <2>1
  <2>3. size(w) \in Nat /\ number[w] \in Bijection(1..size(w), part(w)) /\ k < size(w)
    BY <1>5, <1>6, <2>1, <2>2
  <2>4. inject[u] = number[w][k + 1]
    BY <2>2
  <2> HIDE DEF number, inject, part, size
  <2>5. k + 1 \in 1..size(w)
    BY <2>3
  <2>6. number[w][k + 1] \in part(w)
    BY <2>3, <2>5 DEF Bijection, Injection
  <2> QED BY <2>2, <2>4, <2>5, <2>6
<1>8. inject \in [Units(RunsOf(x), Workers) -> Units(D, R)]
  <2>1. \A w \in Workers : part(w) \in SUBSET Units(D, R)
    BY <1>1 DEF Units
  <2> HIDE DEF number, part, size, D
  <2>2. DOMAIN inject = Units(RunsOf(x), Workers)
        /\ inject = [u \in Units(RunsOf(x), Workers) |-> inject[u]]
    OBVIOUS
  <2> HIDE DEF inject
  <2>3. \A u \in Units(RunsOf(x), Workers) : inject[u] \in Units(D, R)
    BY <1>7, <2>1
  <2> QED BY <2>2, <2>3
<1>9. ASSUME NEW u \in Units(RunsOf(x), Workers), NEW v \in Units(RunsOf(x), Workers),
             inject[u] = inject[v]
      PROVE  u = v
  <2>1. inject[u] \in part(u[1]) /\ inject[u] \in part(v[1])
    BY <1>7, <1>9
  <2>2. \A w \in Workers : \A y \in part(w) : y[1] \in running[w]
    BY DEF Units
  <2>3. u[1] = v[1]
    <3> HIDE DEF inject, number, part, size, D
    <3>1. /\ u[1] \in Workers /\ inject[u][1] \in running[u[1]]
          /\ v[1] \in Workers /\ inject[u][1] \in running[v[1]]
      BY <1>7, <2>1, <2>2
    <3> QED BY <1>1, <3>1
  <2>4. PICK w \in Workers : w = u[1] /\ w = v[1]
    BY <1>7, <2>3
  <2>5. number[w] \in Bijection(1..size(w), part(w))
    BY <1>5
  <2>6. /\ number[w][u[2] + 1] = number[w][v[2] + 1]
        /\ u[2] + 1 \in 1..size(w) /\ v[2] + 1 \in 1..size(w)
    BY <1>7, <1>9, <2>4
  <2> HIDE DEF number, inject, part, size
  <2>7. u[2] + 1 = v[2] + 1
    BY <2>5, <2>6 DEF Bijection, Injection, IsInjective
  <2> QED BY <1>7, <2>3, <2>7
<1>10. inject \in Injection(Units(RunsOf(x), Workers), Units(D, R))
  <2> HIDE DEF inject
  <2> QED BY <1>8, <1>9 DEF Injection, IsInjective
<1> QED BY <1>3, <1>4, <1>10, FS_Injection

\* What the workers execute never needs more of a resource than there is: _used_resources
\* adds up what the running steps need, whoever runs them, and get_work starts a step
\* only if it fits in.  Steps are executed only as long as they are on record as running.
THEOREM LimitsAlwaysKept ==
    ASSUME LimitSetting PROVE ClusterSpec => []WithinLimits
<1>1. LimitSetting /\ IsFiniteSet(Steps) /\ IsFiniteSet(Workers) /\ "repeat" \notin Behaviours
  BY DEF LimitSetting, SizeSetting, PlainSetting
<1>2. IInv /\ ClientTypeOK /\ HoldInv /\ SizeInv /\ OwnInv /\ LoadInv => WithinLimits
  <2> SUFFICES ASSUME IInv, ClientTypeOK, SizeInv, OwnInv, LoadInv, NEW x \in Resources
               PROVE  MapThenSumSet(LAMBDA w : MapThenSumSet(LAMBDA s : Need(s)[x], running[w]),
                                    Workers) <= limits[x]
    BY DEF WithinLimits
  <2>1. Cardinality(Units(RunsOf(x), Workers)) <= Load(x)
    BY <1>1, RunsWithinLoad
  <2>2. Load(x) <= limits[x] /\ Load(x) \in Nat /\ limits[x] \in Nat
    BY <1>1, UsedLoad DEF LoadInv, SizeInv, IInv, Amounts
  <2>3. /\ MapThenSumSet(LAMBDA w : MapThenSumSet(LAMBDA s : Need(s)[x], running[w]), Workers)
               = Cardinality(Units(RunsOf(x), Workers))
        /\ Cardinality(Units(RunsOf(x), Workers)) \in Nat
    BY <1>1, SumOfRuns, UnitsFinite
  <2> QED BY <2>1, <2>2, <2>3
<1> QED BY <1>1, <1>2, LimitInductive, PTL
=============================================================================
