--------------------------- MODULE SchedulerProofs ---------------------------
(***************************************************************************)
(* Proofs about Scheduler.  The inductive invariant is stated for one step *)
(* record at a time (StepOK), so that every helper of the handlers has one *)
(* lemma about what it does to a record, and the handlers put them         *)
(* together.                                                               *)
(***************************************************************************)
EXTENDS Scheduler, TLAPS

USE DEF OrNone

-----------------------------------------------------------------------------
(* Facts about one step record. *)

\* update_status compares retry with the time whenever a step is FAILED, and
\* only a DISABLED step is disabled by the scheduler.
Timed(t) ==
    /\ t.status = "FAILED" => t.retry # None
    /\ t.disable_time # None => t.status = "DISABLED"

\* A record the handlers leave behind.
StepOK(t) ==
    /\ t \in StepRecords
    /\ t.status \in ActiveStatuses => t.worker_running # None
    /\ t.status = "BATCH_RUNNING" => t.batch_id # {}
    /\ Timed(t)
    /\ t.workers \subseteq t.stakeholders
    /\ t.status = Absent => t.stakeholders = {}

\* Nobody comes to hold the step or ceases to.
SameHolders(t, u) == u.workers = t.workers /\ u.stakeholders = t.stakeholders

\* The status and what goes with it stay.
SameStatus(t, u) ==
    u.status = t.status /\ u.failures = t.failures /\ u.disable_time = t.disable_time

\* A disable by the scheduler is not overridden.
Respects(t, u) ==
    t.status = "DISABLED" /\ t.disable_time # None =>
        \/ u.status \in {"DISABLED", Absent}
        \/ /\ u.status \in {"DONE", "FAILED"}
           /\ u.failures = NoFailures
           /\ u.disable_time = None

\* What set_status does.
Changes(t, u, new) ==
    /\ SameHolders(t, u) /\ Respects(t, u)
    /\ u.worker_running = t.worker_running /\ u.batch_id = t.batch_id
    /\ u.status \in {t.status, new, "DISABLED"}
    /\ t.status \in ActiveStatuses /\ new # "DISABLED" =>
           u.status \in {new, "DISABLED"}
    /\ u.status = "FAILED" /\ t.status # "FAILED" => u.retry = RetryDelay + 1
    /\ Timed(t) => Timed(u)

-----------------------------------------------------------------------------
(* set_status. *)

LEMMA ClearFailuresType ==
    ASSUME NEW t \in StepRecords
    PROVE  /\ ClearFailures(t) \in StepRecords
           /\ ClearFailures(t).status = t.status
           /\ ClearFailures(t).retry = t.retry
           /\ ClearFailures(t).disable_time = t.disable_time
           /\ ClearFailures(t).failures = NoFailures
           /\ ClearFailures(t).batch_id = t.batch_id
           /\ ClearFailures(t).worker_running = t.worker_running
           /\ SameHolders(t, ClearFailures(t))
BY TimingAssumption
   DEF TimingAssumption, ClearFailures, StepRecords, NoFailures, SameHolders

LEMMA AddFailureType ==
    ASSUME NEW t \in StepRecords
    PROVE  /\ AddFailure(t) \in StepRecords
           /\ AddFailure(t).status = t.status
           /\ AddFailure(t).retry = t.retry
           /\ AddFailure(t).disable_time = t.disable_time
           /\ AddFailure(t).batch_id = t.batch_id
           /\ AddFailure(t).worker_running = t.worker_running
           /\ SameHolders(t, AddFailure(t))
<1> DEFINE f == [age \in 0..DisableWindow |->
                   IF age = 0 THEN t.failures[0] + 1 ELSE t.failures[age]]
<1>1. t.failures \in [0..DisableWindow -> Nat]
  BY DEF StepRecords
<1>2. f \in [0..DisableWindow -> Nat]
  BY <1>1, TimingAssumption DEF TimingAssumption
<1> DEFINE g == IF t.first_failure = None THEN 0 ELSE t.first_failure
<1>3. g \in OrNone(Nat)
  BY DEF StepRecords
<1>4. AddFailure(t) = [t EXCEPT !.failures = f, !.first_failure = g]
  BY DEF AddFailure
<1> HIDE DEF f, g
<1>5. [t EXCEPT !.failures = f, !.first_failure = g] \in StepRecords
  BY <1>2, <1>3 DEF StepRecords
<1> QED BY <1>4, <1>5 DEF StepRecords, SameHolders

\* The assignments at the end of set_status.
Stored(t, status, updated, disabled, retry, remove) ==
    [t EXCEPT !.status = status, !.updated = updated,
              !.disable_time = disabled, !.retry = retry, !.remove = remove]

StoredIn(u, t, status, disabled, retry) ==
    /\ u.status = status /\ u.retry = retry /\ u.disable_time = disabled
    /\ u.batch_id = t.batch_id /\ u.worker_running = t.worker_running
    /\ u.failures = t.failures /\ SameHolders(t, u)

LEMMA StoredType ==
    ASSUME NEW t \in StepRecords, NEW status \in Statuses \cup {Absent},
           NEW updated \in Nat, NEW disabled \in OrNone(Nat),
           NEW retry \in OrNone(Nat), NEW remove \in OrNone(Nat),
           NEW u, u = Stored(t, status, updated, disabled, retry, remove)
    PROVE  u \in StepRecords /\ StoredIn(u, t, status, disabled, retry)
BY DEF StepRecords, SameHolders, Stored, StoredIn

\* set_status stores the status it is called with, keeps the old one when it
\* refuses, or disables the step instead of failing it.
LEMMA SetOwnStatusType ==
    ASSUME NEW t \in StepRecords, NEW new \in Statuses
    PROVE  /\ SetOwnStatus(t, new) \in StepRecords
           /\ Changes(t, SetOwnStatus(t, new), new)
<1> DEFINE cleared == IF t.status = "DISABLED" /\ new = "DONE"
                      THEN [ClearFailures(t) EXCEPT !.disable_time = None] ELSE t
           f == IF new = "FAILED" /\ t.status # "DISABLED"
                THEN AddFailure(cleared) ELSE cleared
           stored == StatusStored(f, t.status, new)
           disabled == IF stored # "DISABLED" THEN f.disable_time
                       ELSE IF new = "FAILED" THEN 0 ELSE None
           updated == IF stored # t.status THEN 0 ELSE f.updated
           retry == IF stored = "FAILED" THEN RetryDelay + 1 ELSE f.retry
           remove == IF stored = "FAILED" /\ t.batch_id # {} /\ ~t.batchable
                     THEN 0 ELSE f.remove
           u == Stored(f, stored, updated, disabled, retry, remove)
<1>1. /\ cleared \in StepRecords /\ SameHolders(t, cleared)
      /\ cleared.status = t.status /\ cleared.batch_id = t.batch_id
      /\ cleared.retry = t.retry /\ cleared.worker_running = t.worker_running
      /\ cleared.disable_time = IF t.status = "DISABLED" /\ new = "DONE"
                                THEN None ELSE t.disable_time
      /\ t.status = "DISABLED" /\ new = "DONE" => cleared.failures = NoFailures
  <2>1. CASE t.status = "DISABLED" /\ new = "DONE"
    <3> DEFINE c == ClearFailures(t)
    <3>1. c \in StepRecords /\ SameHolders(t, c) /\ c.status = t.status
          /\ c.batch_id = t.batch_id /\ c.retry = t.retry
          /\ c.worker_running = t.worker_running /\ c.failures = NoFailures
      BY ClearFailuresType
    <3>2. cleared = [c EXCEPT !.disable_time = None]
      BY <2>1
    <3> HIDE DEF c
    <3> QED BY <2>1, <3>1, <3>2 DEF StepRecords, SameHolders
  <2>2. CASE ~(t.status = "DISABLED" /\ new = "DONE")
    BY <2>2 DEF SameHolders
  <2> QED BY <2>1, <2>2
<1> HIDE DEF cleared
<1>2. /\ f \in StepRecords /\ SameHolders(t, f) /\ f.batch_id = t.batch_id
      /\ f.status = t.status /\ f.retry = t.retry
      /\ f.worker_running = t.worker_running
      /\ f.disable_time = cleared.disable_time
      /\ new # "FAILED" => f.failures = cleared.failures
  BY <1>1, AddFailureType DEF SameHolders
<1> HIDE DEF f
<1>3. stored \in Statuses \cup {Absent} /\ stored \in {new, "DISABLED"}
      /\ (stored # new => new = "FAILED")
  BY DEF StatusStored, Statuses
<1> HIDE DEF stored
<1>4. /\ disabled \in OrNone(Nat) /\ updated \in Nat /\ retry \in OrNone(Nat)
      /\ remove \in OrNone(Nat)
  BY <1>2, TimingAssumption DEF TimingAssumption, StepRecords
<1>5. ~RefusesStatus(t, new) => SetOwnStatus(t, new) = u
  BY DEF SetOwnStatus, Stored, cleared, f, stored
<1>6. RefusesStatus(t, new) => SetOwnStatus(t, new) = t
  BY DEF SetOwnStatus
<1>7. CASE RefusesStatus(t, new)
  BY <1>6, <1>7 DEF SameHolders, Changes, Respects, RefusesStatus, ActiveStatuses
<1>8. CASE ~RefusesStatus(t, new)
  <2>1. stored = "FAILED" => retry # None
    BY TimingAssumption, ConstantsAssumption
       DEF TimingAssumption, ConstantsAssumption
  <2>0. stored = "FAILED" => retry = RetryDelay + 1
    OBVIOUS
  <2>2. stored # "DISABLED" => disabled = cleared.disable_time
    BY <1>2
  <2>3. stored # "DISABLED" => new # "DISABLED"
    BY <1>3
  <2> HIDE DEF disabled, updated, retry, remove
  <2>4. stored # "DISABLED" /\ Timed(t) => disabled = None
    BY <1>8, <1>1, <2>2, <2>3 DEF Timed, RefusesStatus
  <2>5. u = Stored(f, stored, updated, disabled, retry, remove)
    OBVIOUS
  <2> HIDE DEF u
  <2>6. u \in StepRecords /\ StoredIn(u, f, stored, disabled, retry)
    BY <1>2, <1>3, <1>4, <2>5, StoredType
  <2>7. SameHolders(t, u) /\ u.worker_running = t.worker_running
        /\ u.batch_id = t.batch_id /\ (Timed(t) => Timed(u))
    BY <1>2, <2>1, <2>4, <2>6 DEF SameHolders, StoredIn, Timed
  <2>8. Respects(t, u)
    <3> SUFFICES ASSUME t.status = "DISABLED", t.disable_time # None,
                        stored # "DISABLED"
                 PROVE  /\ u.status \in {"DONE", "FAILED"}
                        /\ u.failures = NoFailures /\ u.disable_time = None
      BY <2>6 DEF Respects, StoredIn
    <3>1. new = "DONE" /\ stored = "DONE"
      BY <1>3, <1>8 DEF RefusesStatus
    <3> QED BY <1>1, <1>2, <2>2, <2>6, <3>1 DEF StoredIn
  <2>9. /\ u.status \in {t.status, new, "DISABLED"} /\ u.status \in {new, "DISABLED"}
        /\ u.status = "FAILED" => u.retry = RetryDelay + 1
    BY <1>3, <2>0, <2>6 DEF StoredIn
  <2> QED BY <1>5, <1>8, <2>6, <2>7, <2>8, <2>9 DEF Changes
<1> QED BY <1>7, <1>8

\* A record after a status change that leaves everything else to the rules of
\* set_status.
LEMMA SetOwnStatusOK ==
    ASSUME NEW t, StepOK(t), NEW new \in Statuses,
           new \in ActiveStatuses => t.worker_running # None,
           new = "BATCH_RUNNING" => t.batch_id # {}
    PROVE  /\ StepOK(SetOwnStatus(t, new))
           /\ SameHolders(t, SetOwnStatus(t, new))
           /\ Respects(t, SetOwnStatus(t, new))
           /\ t.status # Absent => SetOwnStatus(t, new).status # Absent
<1>1. /\ SetOwnStatus(t, new) \in StepRecords
      /\ Changes(t, SetOwnStatus(t, new), new)
  BY SetOwnStatusType DEF StepOK
<1> DEFINE u == SetOwnStatus(t, new)
<1> HIDE DEF u
<1>2. u.status = Absent => t.status = Absent
  BY <1>1 DEF Changes, Absent, Statuses, u
<1>3. StepOK(u)
  BY <1>1, <1>2 DEF StepOK, Changes, SameHolders, ActiveStatuses, u
<1> QED BY <1>1, <1>2, <1>3 DEF Changes, u

\* A status that ends a run.
RunEndings == Statuses \ {"RUNNING", "BATCH_RUNNING", "DISABLED"}

\* The members of a batch whose runner ends are not running any more.
LEMMA EndMemberOK ==
    ASSUME NEW t \in StepRecords, Timed(t), t.workers \subseteq t.stakeholders,
           t.status \in ActiveStatuses, NEW new \in RunEndings
    PROVE  /\ StepOK(EndMember(t, new)) /\ StepOK(SetOwnStatus(t, new))
           /\ SameHolders(t, EndMember(t, new))
           /\ SameHolders(t, SetOwnStatus(t, new))
           /\ Respects(t, EndMember(t, new))
           /\ EndMember(t, new).status # Absent
<1> DEFINE u == SetOwnStatus(t, new)
           e == EndMember(t, new)
<1>1. u \in StepRecords /\ Changes(t, u, new)
  BY SetOwnStatusType DEF RunEndings
<1>2. e = [u EXCEPT !.batch_id = {}]
  BY DEF EndMember
<1> HIDE DEF u, e
<1>3. u.status \notin ActiveStatuses \cup {Absent}
  BY <1>1 DEF Changes, RunEndings, Statuses, ActiveStatuses, Absent
<1>4. e \in StepRecords /\ SameHolders(u, e) /\ SameStatus(u, e) /\ e.retry = u.retry
  BY <1>1, <1>2 DEF StepRecords, SameHolders, SameStatus
<1>5. StepOK(u)
  BY <1>1, <1>3 DEF StepOK, Changes, SameHolders, ActiveStatuses
<1>6. StepOK(e)
  BY <1>3, <1>4, <1>5 DEF StepOK, SameHolders, SameStatus, Timed, ActiveStatuses
<1>7. SameHolders(t, e) /\ SameHolders(t, u)
  BY <1>1, <1>4 DEF SameHolders, Changes
<1>8. Respects(t, e)
  BY DEF Respects, ActiveStatuses
<1>9. e.status # Absent
  BY <1>3, <1>4 DEF SameStatus
<1> QED BY <1>5, <1>6, <1>7, <1>8, <1>9 DEF u, e

LEMMA EndMemberKeeps ==
    ASSUME NEW t, StepOK(t), t.status \in ActiveStatuses, NEW new \in RunEndings
    PROVE  /\ StepOK(EndMember(t, new)) /\ SameHolders(t, EndMember(t, new))
           /\ Respects(t, EndMember(t, new))
           /\ EndMember(t, new).status # Absent
BY EndMemberOK DEF StepOK

\* set_status on the table: the step itself and the members of its batch.
LEMMA SetStatusOK ==
    ASSUME NEW ss, \A x \in Steps : StepOK(ss[x]), NEW s \in Steps,
           NEW new \in Statuses \ {"BATCH_RUNNING"},
           new = "RUNNING" => ss[s].worker_running # None,
           NEW x \in Steps
    PROVE  /\ StepOK(SetStatus(ss, s, new)[x])
           /\ SameHolders(ss[x], SetStatus(ss, s, new)[x])
           /\ Respects(ss[x], SetStatus(ss, s, new)[x])
           /\ ss[x].status # Absent => SetStatus(ss, s, new)[x].status # Absent
<1> DEFINE ended == IF EndsBatch(ss[s], new)
                    THEN BatchRunningSteps(ss, ss[s].batch_id) ELSE {}
           u == SetStatus(ss, s, new)[x]
<1>1. EndsBatch(ss[s], new) => new \in RunEndings /\ ss[s].status \in ActiveStatuses
  BY DEF EndsBatch, RunEndings, ActiveStatuses
<1>2. CASE x \in ended \/ (x = s /\ EndsBatch(ss[s], new))
  <2>1. u = EndMember(ss[x], new)
    BY <1>2 DEF SetStatus
  <2>2. ss[x].status \in ActiveStatuses /\ new \in RunEndings
    BY <1>1, <1>2 DEF BatchRunningSteps, ActiveStatuses
  <2> QED BY <2>1, <2>2, EndMemberKeeps
<1>3. CASE x \notin ended /\ x = s /\ ~EndsBatch(ss[s], new)
  <2>1. u = SetOwnStatus(ss[x], new)
    BY <1>3 DEF SetStatus
  <2> QED BY <1>3, <2>1, SetOwnStatusOK DEF ActiveStatuses
<1>4. CASE x \notin ended /\ x # s
  <2>1. u = ss[x]
    BY <1>4 DEF SetStatus
  <2> QED BY <2>1 DEF SameHolders, Respects
<1> QED BY <1>2, <1>3, <1>4

-----------------------------------------------------------------------------
(* prune. *)

LEMMA ReEnableOK ==
    ASSUME NEW t, StepOK(t), t.status = "DISABLED"
    PROVE  /\ StepOK(ReEnable(t)) /\ SameHolders(t, ReEnable(t))
           /\ Respects(t, ReEnable(t)) /\ ReEnable(t).status # Absent
           /\ ReEnable(t).retry = 0 => ReEnable(t).status # "FAILED"
<1> DEFINE c == ClearFailures(t)
           e == [c EXCEPT !.disable_time = None]
           u == SetOwnStatus(e, "FAILED")
           v == ClearFailures(u)
<1>1. /\ c \in StepRecords /\ c.status = "DISABLED" /\ SameHolders(t, c)
  BY ClearFailuresType DEF StepOK
<1> HIDE DEF c
<1>2. /\ e \in StepRecords /\ e.status = "DISABLED" /\ SameHolders(t, e)
      /\ e.disable_time = None
  BY <1>1 DEF StepRecords, SameHolders
<1>3. Timed(e)
  BY <1>2 DEF Timed
<1> HIDE DEF e
<1>4. u \in StepRecords /\ Changes(e, u, "FAILED")
  BY <1>2, SetOwnStatusType DEF Statuses
<1> HIDE DEF u
<1>5. /\ v \in StepRecords /\ SameHolders(u, v) /\ v.status = u.status
      /\ v.retry = u.retry /\ v.disable_time = u.disable_time
      /\ v.failures = NoFailures
  BY <1>4, ClearFailuresType
<1>6. v = ReEnable(t)
  BY DEF v, u, e, c, ReEnable
<1> HIDE DEF v
<1>7. v.status \in {"FAILED", "DISABLED"} /\ Timed(v) /\ SameHolders(t, v)
  BY <1>2, <1>3, <1>4, <1>5 DEF Changes, SameHolders, Timed
<1>8. StepOK(v)
  BY <1>5, <1>7 DEF StepOK, SameHolders, ActiveStatuses, Absent
<1>9. Respects(t, v)
  BY <1>5, <1>7 DEF Respects, Timed
<1>10. v.status = "FAILED" => v.retry # 0
  BY <1>2, <1>4, <1>5, TimingAssumption DEF TimingAssumption, Changes
<1> QED BY <1>6, <1>7, <1>8, <1>9, <1>10 DEF Absent

LEMMA UpdateStatusOK ==
    ASSUME NEW t, StepOK(t)
    PROVE  /\ StepOK(UpdateStatus(t)) /\ SameHolders(t, UpdateStatus(t))
           /\ Respects(t, UpdateStatus(t))
<1> DEFINE remove == IF t.stakeholders = {} /\ t.remove = None /\ t.status # "RUNNING"
                     THEN RemoveDelay ELSE t.remove
           marked == [t EXCEPT !.remove = remove]
           expired == /\ t.status = "DISABLED" /\ t.disable_time # None
                      /\ t.disable_time > DisablePersist
           enabled == IF expired THEN ReEnable(marked) ELSE marked
           u == IF enabled.status = "FAILED" /\ enabled.retry = 0
                THEN SetOwnStatus(enabled, "PENDING") ELSE enabled
<1>1. u = UpdateStatus(t)
  BY DEF UpdateStatus
<1>2. remove \in OrNone(Nat)
  BY TimingAssumption DEF TimingAssumption, StepOK, StepRecords
<1> HIDE DEF remove
<1>3. /\ marked \in StepRecords /\ SameHolders(t, marked) /\ SameStatus(t, marked)
      /\ marked.retry = t.retry /\ marked.batch_id = t.batch_id
      /\ marked.worker_running = t.worker_running
  BY <1>2 DEF StepOK, StepRecords, SameHolders, SameStatus
<1> HIDE DEF marked
<1>4. StepOK(marked)
  BY <1>3 DEF StepOK, SameHolders, SameStatus, Timed
<1>5. CASE expired
  <2>1. marked.status = "DISABLED"
    BY <1>3, <1>5 DEF SameStatus
  <2>2. u = ReEnable(marked)
    BY <1>4, <1>5, <2>1, ReEnableOK
  <2>3. /\ StepOK(u) /\ SameHolders(marked, u) /\ Respects(marked, u)
    BY <1>4, <2>1, <2>2, ReEnableOK
  <2> HIDE DEF u
  <2> QED BY <1>1, <1>3, <2>3 DEF SameHolders, SameStatus, Respects
<1>6. CASE ~expired
  <2>1. enabled = marked
    BY <1>6
  <2>2. CASE marked.status = "FAILED" /\ marked.retry = 0
    <3>1. u = SetOwnStatus(marked, "PENDING")
      BY <2>1, <2>2
    <3>2. StepOK(u) /\ SameHolders(marked, u)
      BY <1>4, <3>1, SetOwnStatusOK DEF Statuses, ActiveStatuses
    <3>3. t.status # "DISABLED"
      BY <1>3, <2>2 DEF SameStatus
    <3> HIDE DEF u
    <3> QED BY <1>1, <1>3, <3>2, <3>3 DEF SameHolders, Respects
  <2>3. CASE ~(marked.status = "FAILED" /\ marked.retry = 0)
    <3>1. u = marked
      BY <2>1, <2>3
    <3> HIDE DEF u
    <3> QED BY <1>1, <1>3, <1>4, <3>1 DEF SameHolders, SameStatus, Respects
  <2> QED BY <2>2, <2>3
<1> QED BY <1>5, <1>6

LEMMA FailDeadWorkerStepOK ==
    ASSUME NEW t, StepOK(t), t.status \in ActiveStatuses
    PROVE  /\ StepOK(FailDeadWorkerStep(t))
           /\ SameHolders(t, FailDeadWorkerStep(t))
           /\ Respects(t, FailDeadWorkerStep(t))
<1> DEFINE retry == RetryDelay + 1
           o == [t EXCEPT !.worker_running = None]
           f == IF EndsBatch(t, "FAILED") THEN EndMember(o, "FAILED")
                                          ELSE SetOwnStatus(o, "FAILED")
           u == [f EXCEPT !.retry = retry]
<1>1. u = FailDeadWorkerStep(t)
  BY DEF FailDeadWorkerStep
<1>2. /\ o \in StepRecords /\ SameHolders(t, o) /\ SameStatus(t, o)
      /\ o.retry = t.retry
  BY DEF StepOK, StepRecords, SameHolders, SameStatus
<1> HIDE DEF o
<1>3. Timed(o) /\ o.status \in ActiveStatuses /\ o.workers \subseteq o.stakeholders
  BY <1>2 DEF StepOK, Timed, SameHolders, SameStatus
<1>4. "FAILED" \in RunEndings
  BY DEF RunEndings, Statuses
<1>5. StepOK(f) /\ SameHolders(o, f)
  BY <1>2, <1>3, <1>4, EndMemberOK
<1> HIDE DEF f
<1>0. retry \in Nat /\ retry # None
  BY TimingAssumption, ConstantsAssumption DEF TimingAssumption, ConstantsAssumption
<1> HIDE DEF retry
<1>6. /\ u \in StepRecords /\ SameHolders(f, u) /\ SameStatus(f, u)
      /\ u.worker_running = f.worker_running /\ u.batch_id = f.batch_id
      /\ u.retry # None
  BY <1>0, <1>5 DEF StepOK, StepRecords, SameHolders, SameStatus
<1> HIDE DEF u
<1>7. StepOK(u)
  BY <1>5, <1>6 DEF StepOK, SameHolders, SameStatus, Timed
<1>8. SameHolders(t, u)
  BY <1>2, <1>5, <1>6 DEF SameHolders
<1>9. Respects(t, u)
  BY DEF Respects, ActiveStatuses
<1> QED BY <1>1, <1>7, <1>8, <1>9

LEMMA VisitedOK ==
    ASSUME NEW ss, \A x \in Steps : StepOK(ss[x]), NEW ord, NEW assistants,
           NEW x \in Steps
    PROVE  /\ StepOK(Visited(ss, ord, x, assistants))
           /\ SameHolders(ss[x], Visited(ss, ord, x, assistants))
           /\ Respects(ss[x], Visited(ss, ord, x, assistants))
<1> DEFINE earlier == {r \in DeadRunnersOf(ss, x, assistants) : <<r, x>> \in ord}
           t == CASE earlier # {} -> EndMember(ss[x], "FAILED")
                  [] earlier = {} /\ HasDeadWorker(ss[x], assistants) ->
                         FailDeadWorkerStep(ss[x])
                  [] OTHER -> ss[x]
<1>1. StepOK(t) /\ SameHolders(ss[x], t)
      /\ (ss[x].status = "DISABLED" => t = ss[x])
  <2>1. CASE earlier # {}
    <3>1. x \in Steps /\ ss[x].status \in ActiveStatuses
      BY <2>1 DEF DeadRunnersOf, BatchRunningSteps, ActiveStatuses
    <3>2. t = EndMember(ss[x], "FAILED")
      BY <2>1
    <3>3. "FAILED" \in RunEndings
      BY DEF RunEndings, Statuses
    <3> QED BY <3>1, <3>2, <3>3, EndMemberKeeps DEF ActiveStatuses
  <2>2. CASE earlier = {} /\ HasDeadWorker(ss[x], assistants)
    <3>1. t = FailDeadWorkerStep(ss[x])
      BY <2>2
    <3> QED BY <2>2, <3>1, FailDeadWorkerStepOK DEF HasDeadWorker, ActiveStatuses
  <2>3. CASE earlier = {} /\ ~HasDeadWorker(ss[x], assistants)
    <3>1. t = ss[x]
      BY <2>3
    <3> QED BY <3>1 DEF SameHolders
  <2> QED BY <2>1, <2>2, <2>3
<1>2. Visited(ss, ord, x, assistants) = UpdateStatus(t)
  BY DEF Visited
<1> HIDE DEF t
<1>3. /\ StepOK(UpdateStatus(t)) /\ SameHolders(t, UpdateStatus(t))
      /\ Respects(t, UpdateStatus(t))
  BY <1>1, UpdateStatusOK
<1> QED BY <1>1, <1>2, <1>3 DEF SameHolders, Respects

LEMMA NoStepOK ==
    /\ StepOK(NoStep) /\ NoStep.status = Absent
    /\ NoStep.workers = {} /\ NoStep.stakeholders = {}
BY ConstantsAssumption, TimingAssumption
   DEF ConstantsAssumption, TimingAssumption, StepOK, NoStep, NewStep,
       StepRecords, Timed, NoResources, NoFailures, Amounts, Absent,
       ActiveStatuses, Statuses

\* The loop of _prune_steps keeps the holders of every step.
LEMMA LoopedOK ==
    ASSUME NEW ss, \A x \in Steps : StepOK(ss[x]), NEW ord, NEW assistants,
           NEW x \in Steps
    PROVE  LET u == Looped(ss, ord, x, assistants)
           IN  StepOK(u) /\ Respects(ss[x], u) /\ SameHolders(ss[x], u)
<1> DEFINE t == Visited(ss, ord, x, assistants)
           u == Looped(ss, ord, x, assistants)
           failing == /\ t.status = "BATCH_RUNNING"
                      /\ DeadRunnersOf(ss, x, assistants) # {}
<1>1. StepOK(t) /\ SameHolders(ss[x], t) /\ Respects(ss[x], t)
  BY VisitedOK
<1>2. CASE failing
  <2>1. u = EndMember(t, "FAILED")
    BY <1>2 DEF Looped
  <2>2. "FAILED" \in RunEndings
    BY DEF RunEndings, Statuses
  <2>3. StepOK(u) /\ SameHolders(t, u)
    BY <1>1, <1>2, <2>1, <2>2, EndMemberKeeps DEF ActiveStatuses
  <2>4. x \in BatchRunningSteps(ss, ss[x].batch_id)
    BY <1>2 DEF DeadRunnersOf, BatchRunningSteps
  <2>5. Respects(ss[x], u)
    BY <2>4 DEF Respects, BatchRunningSteps
  <2>6. SameHolders(ss[x], u)
    BY <1>1, <2>3 DEF SameHolders
  <2> QED BY <2>3, <2>5, <2>6
<1>3. CASE ~failing
  <2>1. u = t
    BY <1>3 DEF Looped
  <2> QED BY <1>1, <2>1
<1> QED BY <1>2, <1>3

\* _prune_steps removes a step or keeps its holders.
LEMMA PrunedStepOK ==
    ASSUME NEW ss, \A x \in Steps : StepOK(ss[x]), NEW ord, NEW assistants,
           NEW x \in Steps
    PROVE  LET u == PrunedStep(ss, ord, x, assistants)
           IN  /\ StepOK(u) /\ Respects(ss[x], u)
               /\ u = NoStep \/ SameHolders(ss[x], u)
<1>1. PrunedStep(ss, ord, x, assistants) \in
          {NoStep, Looped(ss, ord, x, assistants)}
  BY DEF PrunedStep
<1>2. Respects(ss[x], NoStep)
  BY NoStepOK DEF Respects
<1> QED BY <1>1, <1>2, NoStepOK, LoopedOK

-----------------------------------------------------------------------------
(* add_step. *)

\* A step nobody holds yet.
Fresh(t) == t.status # Absent /\ t.workers = {} /\ t.stakeholders = {}

LEMMA NewStepOK ==
    ASSUME NEW status \in {"PENDING", "UNKNOWN"}, NEW deps \in SUBSET Steps,
           NEW resources \in Amounts, NEW priority \in Nat
    PROVE  /\ StepOK(NewStep(status, deps, resources, priority))
           /\ Fresh(NewStep(status, deps, resources, priority))
BY ConstantsAssumption, TimingAssumption
   DEF ConstantsAssumption, TimingAssumption, StepOK, NewStep, StepRecords,
       Timed, NoFailures, Absent, ActiveStatuses, Statuses, Fresh

LEMMA WithDefaultStepOK ==
    ASSUME NEW ss \in [Steps -> StepRecords], \A x \in Steps : StepOK(ss[x]),
           NEW q \in Requests, NEW enabled \in BOOLEAN
    PROVE  /\ WithDefaultStep(ss, q, enabled) \in [Steps -> StepRecords]
           /\ \A x \in Steps :
                 /\ StepOK(WithDefaultStep(ss, q, enabled)[x])
                 /\ SameHolders(ss[x], WithDefaultStep(ss, q, enabled)[x])
                 /\ ss[x].status # Absent => WithDefaultStep(ss, q, enabled)[x] = ss[x]
<1> DEFINE deps == IF q.deps = None THEN {} ELSE q.deps
           new == NewStep("PENDING", deps, q.resources, q.priority)
<1>1. deps \in SUBSET Steps /\ q.step \in Steps
  BY DEF Requests
<1>2. StepOK(new) /\ Fresh(new)
  BY <1>1, NewStepOK DEF Requests
<1>3. CASE enabled /\ ss[q.step].status = Absent
  <2>1. WithDefaultStep(ss, q, enabled) = [ss EXCEPT ![q.step] = new]
    BY <1>3 DEF WithDefaultStep
  <2> HIDE DEF new
  <2>2. [ss EXCEPT ![q.step] = new] \in [Steps -> StepRecords]
    BY <1>1, <1>2 DEF StepOK
  <2>3. SameHolders(ss[q.step], new)
    BY <1>1, <1>2, <1>3 DEF StepOK, SameHolders, Fresh
  <2>4. \A x \in Steps : SameHolders(ss[x], ss[x])
    BY DEF SameHolders
  <2> QED BY <1>1, <1>2, <1>3, <2>1, <2>2, <2>3, <2>4
<1>4. CASE ~(enabled /\ ss[q.step].status = Absent)
  <2>1. WithDefaultStep(ss, q, enabled) = ss
    BY <1>4 DEF WithDefaultStep
  <2> QED BY <2>1 DEF SameHolders
<1> QED BY <1>3, <1>4

LEMMA AttributedOK ==
    ASSUME NEW t, StepOK(t), NEW q \in Requests
    PROVE  /\ StepOK(Attributed(t, q)) /\ SameHolders(t, Attributed(t, q))
           /\ SameStatus(t, Attributed(t, q))
           /\ q.status = "RUNNING" => Attributed(t, q).worker_running # None
<1> DEFINE batch == IF q.batch_id # {} THEN q.batch_id ELSE t.batch_id
           runner == IF StartsRun(t, q) THEN q.worker ELSE t.worker_running
           u == [t EXCEPT !.batch_id = batch, !.worker_running = runner]
<1>1. u = Attributed(t, q)
  BY DEF Attributed
<1>2. /\ batch \in SUBSET Steps /\ (t.batch_id # {} => batch # {})
      /\ runner \in OrNone(Workers)
      /\ (t.worker_running # None \/ q.status = "RUNNING") => runner # None
  BY ConstantsAssumption
     DEF ConstantsAssumption, StepOK, StepRecords, Requests, StartsRun
<1> HIDE DEF batch, runner
<1>3. /\ u \in StepRecords /\ SameHolders(t, u) /\ SameStatus(t, u)
      /\ u.retry = t.retry /\ u.batch_id = batch /\ u.worker_running = runner
  BY <1>2, ZenonT(30) DEF StepOK, StepRecords, SameHolders, SameStatus
<1> HIDE DEF u
<1>4. StepOK(u)
  BY <1>2, <1>3 DEF StepOK, SameHolders, SameStatus, Timed
<1> QED BY <1>1, <1>2, <1>3, <1>4

LEMMA RunningResourcesType ==
    ASSUME NEW t \in StepRecords
    PROVE  RunningResources(t) \in Amounts
BY DEF StepRecords, RunningResources

\* The assignments of add_step before set_status, apart from the attribution.
Admitted(t, resources_running, batchable) ==
    [t EXCEPT !.resources_running = resources_running, !.batchable = batchable,
              !.remove = None]

\* The fields StepOK is about, apart from those of the holders.
SameRun(t, u) ==
    /\ SameStatus(t, u) /\ u.retry = t.retry /\ u.batch_id = t.batch_id
    /\ u.worker_running = t.worker_running

LEMMA AdmittedType ==
    ASSUME NEW t \in StepRecords, NEW rr \in Amounts \cup {None, Shared},
           NEW b \in BOOLEAN, NEW u, u = Admitted(t, rr, b)
    PROVE  u \in StepRecords /\ SameHolders(t, u) /\ SameRun(t, u)
<1>1. u \in StepRecords
  BY ZenonT(30) DEF StepRecords, Admitted
<1>2. SameHolders(t, u) /\ SameRun(t, u)
  BY DEF StepRecords, Admitted, SameHolders, SameStatus, SameRun
<1> QED BY <1>1, <1>2

\* The run is attributed before set_status sees it.
LEMMA ClaimedOK ==
    ASSUME NEW ss, \A x \in Steps : StepOK(ss[x]), NEW q \in Requests,
           ~NamesLostBatch(ss, q)
    PROVE  /\ StepOK(Claimed(ss, q)) /\ SameHolders(ss[q.step], Claimed(ss, q))
           /\ SameStatus(ss[q.step], Claimed(ss, q))
           /\ q.status = "RUNNING" => Claimed(ss, q).worker_running # None
<1> DEFINE first == CHOOSE m \in BatchRunningSteps(ss, q.batch_id) : TRUE
           a == Attributed(ss[q.step], q)
           rr == IF StartsRun(ss[q.step], q) /\ q.batch_id # {}
                 THEN RunningResources(ss[first]) ELSE a.resources_running
           b == IF q.batchable # None THEN q.batchable ELSE a.batchable
           u == Admitted(a, rr, b)
<1>1. u = Claimed(ss, q)
  BY DEF Claimed, Admitted
<1>2. /\ StepOK(a) /\ SameHolders(ss[q.step], a) /\ SameStatus(ss[q.step], a)
      /\ q.status = "RUNNING" => a.worker_running # None
  BY AttributedOK DEF Requests
<1> HIDE DEF a
<1>3. rr \in Amounts \cup {None, Shared}
  <2>1. CASE StartsRun(ss[q.step], q) /\ q.batch_id # {}
    <3>1. BatchRunningSteps(ss, q.batch_id) # {}
      BY <2>1 DEF NamesLostBatch
    <3>2. first \in Steps
      BY <3>1 DEF BatchRunningSteps
    <3> QED BY <2>1, <3>2, RunningResourcesType DEF StepOK
  <2>2. CASE ~(StartsRun(ss[q.step], q) /\ q.batch_id # {})
    BY <1>2, <2>2 DEF StepOK, StepRecords
  <2> QED BY <2>1, <2>2
<1>4. b \in BOOLEAN
  BY <1>2 DEF StepOK, StepRecords, Requests
<1> HIDE DEF rr, b
<1>8. a \in StepRecords
  BY <1>2 DEF StepOK
<1>5. u \in StepRecords /\ SameHolders(a, u) /\ SameRun(a, u)
  BY <1>3, <1>4, <1>8, AdmittedType
<1> HIDE DEF u
<1>6. StepOK(u)
  BY <1>2, <1>5 DEF StepOK, SameHolders, SameRun, SameStatus, Timed
<1>7. SameHolders(ss[q.step], u) /\ SameStatus(ss[q.step], u)
  BY <1>2, <1>5 DEF SameHolders, SameStatus, SameRun
<1> QED BY <1>1, <1>2, <1>5, <1>6, <1>7 DEF SameRun

\* StepOK and Respects are about the fields of SameRun and SameHolders.
LEMMA SameRunOK ==
    ASSUME NEW t, StepOK(t), NEW u \in StepRecords, SameHolders(t, u), SameRun(t, u)
    PROVE  StepOK(u) /\ Respects(t, u)
BY DEF StepOK, SameHolders, SameRun, SameStatus, Timed, Respects

\* The assignments of add_step after set_status.
DescribedAs(t, deps, rr, resources, count, stakeholders, wks, runnable) ==
    [t EXCEPT !.deps = deps, !.resources_running = rr, !.resources = resources,
              !.retry_count = count, !.stakeholders = stakeholders,
              !.workers = wks, !.runnable = runnable]

HeldBy(u, stakeholders, wks) == u.stakeholders = stakeholders /\ u.workers = wks

LEMMA DescribedAsType ==
    ASSUME NEW t \in StepRecords, NEW deps \in SUBSET Steps,
           NEW rr \in Amounts \cup {None, Shared}, NEW resources \in Amounts,
           NEW count \in Nat, NEW stakeholders \in SUBSET Workers,
           NEW wks \in SUBSET Workers, NEW runnable \in BOOLEAN,
           NEW u, u = DescribedAs(t, deps, rr, resources, count, stakeholders,
                                  wks, runnable)
    PROVE  u \in StepRecords /\ SameRun(t, u) /\ HeldBy(u, stakeholders, wks)
<1>1. u \in StepRecords
  BY DEF StepRecords, DescribedAs
<1>2. SameRun(t, u) /\ HeldBy(u, stakeholders, wks)
  BY DEF StepRecords, DescribedAs, HeldBy, SameStatus, SameRun
<1> QED BY <1>1, <1>2

\* The caller comes to hold the step, and may perform it only if it holds it.
LEMMA DescribedOK ==
    ASSUME NEW t, StepOK(t), t.status # Absent, NEW q \in Calls,
           NEW enabled \in BOOLEAN
    PROVE  /\ StepOK(Described(t, q, enabled))
           /\ SameRun(t, Described(t, q, enabled))
           /\ HeldBy(Described(t, q, enabled),
                     IF enabled /\ ~q.assistant
                     THEN t.stakeholders \cup {q.worker} ELSE t.stakeholders,
                     IF Registers(q, enabled)
                     THEN t.workers \cup {q.worker} ELSE t.workers)
<1> DEFINE deps == (IF q.deps # None THEN q.deps ELSE t.deps) \cup q.new_deps
           rr == IF t.resources_running = Shared THEN t.resources
                                                 ELSE t.resources_running
           stk == IF enabled /\ ~q.assistant
                  THEN t.stakeholders \cup {q.worker} ELSE t.stakeholders
           wks == IF Registers(q, enabled)
                  THEN t.workers \cup {q.worker} ELSE t.workers
           runnable == IF Registers(q, enabled) THEN TRUE ELSE t.runnable
           u == DescribedAs(t, deps, rr, q.resources, q.retry_count, stk, wks,
                            runnable)
<1>1. u = Described(t, q, enabled)
  BY DEF Described, DescribedAs
<1>2. /\ q \in Requests /\ t \in StepRecords
      /\ q.resources \in Amounts /\ q.retry_count \in Nat
  BY DEF Calls, StepOK, Requests
<1>3. deps \in SUBSET Steps /\ rr \in Amounts \cup {None, Shared}
  BY <1>2 DEF Requests, StepRecords
<1>4. stk \in SUBSET Workers /\ wks \in SUBSET Workers /\ wks \subseteq stk
  <2>1. /\ q.worker \in Workers /\ t.stakeholders \in SUBSET Workers
        /\ t.workers \in SUBSET Workers /\ t.workers \subseteq t.stakeholders
    BY <1>2 DEF Requests, StepRecords, StepOK
  <2>2. Registers(q, enabled) => enabled /\ ~q.assistant
    BY DEF Registers, Calls
  <2> QED BY <2>1, <2>2
<1>5. runnable \in BOOLEAN
  BY <1>2 DEF StepRecords
<1> HIDE DEF deps, rr, stk, wks, runnable
<1>6. u \in StepRecords /\ SameRun(t, u) /\ HeldBy(u, stk, wks)
  BY <1>2, <1>3, <1>4, <1>5, DescribedAsType
<1> HIDE DEF u
<1>7. StepOK(u)
  BY <1>4, <1>6 DEF StepOK, HeldBy, SameRun, SameStatus, Timed
<1> QED BY <1>1, <1>6, <1>7 DEF stk, wks

LEMMA HeldOK ==
    ASSUME NEW t, StepOK(t), NEW q \in Requests
    PROVE  /\ StepOK(Held(t, q)) /\ (t.status # Absent => SameRun(t, Held(t, q)))
           /\ HeldBy(Held(t, q), t.stakeholders \cup {q.worker}, t.workers)
<1> DEFINE new == NewStep("UNKNOWN", {}, NoResources, q.priority)
           d == IF t.status = Absent THEN new ELSE t
           stk == d.stakeholders \cup {q.worker}
           u == [d EXCEPT !.stakeholders = stk]
<1>1. u = Held(t, q)
  BY DEF Held
<1>2. StepOK(new) /\ Fresh(new)
  <2>1. NoResources \in Amounts /\ q.priority \in Nat /\ {} \in SUBSET Steps
    BY DEF Requests, NoResources, Amounts
  <2> QED BY <2>1, NewStepOK
<1> HIDE DEF new
<1>3. /\ d \in StepRecords /\ StepOK(d) /\ d.status # Absent
      /\ SameHolders(t, d) /\ (t.status # Absent => d = t)
  BY <1>2 DEF Absent, StepOK, SameHolders, Fresh
<1> HIDE DEF d
<1>4. stk \in SUBSET Workers
  BY <1>3 DEF StepRecords, Requests
<1> HIDE DEF stk
<1>5. u \in StepRecords /\ SameRun(d, u) /\ HeldBy(u, stk, d.workers)
  BY <1>3, <1>4 DEF StepRecords, SameRun, SameStatus, HeldBy
<1> HIDE DEF u
<1>6. StepOK(u)
  BY <1>3, <1>5 DEF StepOK, SameRun, SameStatus, HeldBy, Timed, stk
<1> QED BY <1>1, <1>3, <1>5, <1>6 DEF SameHolders, stk

LEMMA PriorityType ==
    ASSUME NEW t, StepOK(t), NEW p \in Nat, NEW u, u = [t EXCEPT !.priority = p]
    PROVE  u \in StepRecords /\ SameHolders(t, u) /\ SameRun(t, u)
BY DEF StepOK, StepRecords, SameHolders, SameRun, SameStatus

LEMMA UpdatePriorityOK ==
    ASSUME NEW ss, \A x \in Steps : StepOK(ss[x]), NEW s \in Steps,
           NEW prio \in Nat, NEW x \in Steps
    PROVE  /\ StepOK(UpdatePriority(ss, s, prio)[x])
           /\ SameHolders(ss[x], UpdatePriority(ss, s, prio)[x])
           /\ SameRun(ss[x], UpdatePriority(ss, s, prio)[x])
<1> DEFINE top == IF prio > ss[s].priority THEN prio ELSE ss[s].priority
           u == UpdatePriority(ss, s, prio)[x]
           v == [ss[x] EXCEPT !.priority = top]
<1>1. top \in Nat
  BY DEF StepOK, StepRecords
<1>2. u = ss[x] \/ u = v
  <2>1. u = IF x \in Raised(ss, s, top) THEN v ELSE ss[x]
    BY DEF UpdatePriority
  <2> HIDE DEF top, u, v
  <2> QED BY <2>1
<1> HIDE DEF top
<1>3. v \in StepRecords /\ SameHolders(ss[x], v) /\ SameRun(ss[x], v)
  BY <1>1, PriorityType
<1>4. ss[x] \in StepRecords /\ SameHolders(ss[x], ss[x]) /\ SameRun(ss[x], ss[x])
  BY DEF StepOK, SameHolders, SameRun, SameStatus
<1> HIDE DEF u, v
<1> QED BY <1>2, <1>3, <1>4, SameRunOK DEF u

\* Those in `added', and only they, are new workers of the step, and w may be a
\* new stakeholder.
Joined(t, u, added, w) ==
    /\ u.workers = t.workers \cup added
    /\ u.stakeholders \subseteq t.stakeholders \cup {w}

\* The worker that comes to be able to perform step x by a request
Added(q, x, enabled) ==
    IF x = q.step /\ Registers(q, enabled) THEN {q.worker} ELSE {}

\* The table after add_step: the caller is registered with the step or not, and
\* is the only one who may come to hold it and its dependencies.
LEMMA AddStepStepsOK ==
    ASSUME NEW ss \in [Steps -> StepRecords], \A x \in Steps : StepOK(ss[x]),
           NEW q \in Calls, NEW enabled \in BOOLEAN, ~NamesLostBatch(ss, q),
           ss[q.step].status # Absent, NEW x \in Steps
    PROVE  /\ StepOK(AddStepSteps(ss, q, enabled)[x])
           /\ Respects(ss[x], AddStepSteps(ss, q, enabled)[x])
           /\ Joined(ss[x], AddStepSteps(ss, q, enabled)[x],
                     Added(q, x, enabled), q.worker)
<1> DEFINE claimed == [ss EXCEPT ![q.step] = Claimed(ss, q)]
           set == IF MaySetStatus(claimed[q.step], q)
                  THEN SetStatus(claimed, q.step, q.status) ELSE claimed
           described == [set EXCEPT ![q.step] = Described(set[q.step], q, enabled)]
           deps == IF enabled /\ ~q.assistant THEN described[q.step].deps ELSE {}
           held == [y \in Steps |-> IF y \in deps THEN Held(described[y], q)
                                                  ELSE described[y]]
           final == UpdatePriority(held, q.step, q.priority)
<1>1. /\ q \in Requests /\ q.step \in Steps /\ q.priority \in Nat
      /\ q.status \in Statuses \ {"BATCH_RUNNING"}
  BY DEF Calls, Requests
<1>2. \A y \in Steps : /\ StepOK(claimed[y]) /\ SameHolders(ss[y], claimed[y])
                       /\ SameStatus(ss[y], claimed[y])
  <2>1. /\ StepOK(Claimed(ss, q)) /\ SameHolders(ss[q.step], Claimed(ss, q))
        /\ SameStatus(ss[q.step], Claimed(ss, q))
    BY <1>1, ClaimedOK
  <2>2. \A y \in Steps : claimed[y] = IF y = q.step THEN Claimed(ss, q) ELSE ss[y]
    OBVIOUS
  <2>3. \A y \in Steps : SameHolders(ss[y], ss[y]) /\ SameStatus(ss[y], ss[y])
    BY DEF SameHolders, SameStatus
  <2> HIDE DEF claimed
  <2> QED BY <1>1, <2>1, <2>2, <2>3
<1>3. q.status = "RUNNING" => claimed[q.step].worker_running # None
  <2>1. q.status = "RUNNING" => Claimed(ss, q).worker_running # None
    BY <1>1, ClaimedOK
  <2>2. claimed[q.step] = Claimed(ss, q)
    BY <1>1
  <2> QED BY <2>1, <2>2
<1>4. DOMAIN claimed = Steps
  OBVIOUS
<1> HIDE DEF claimed
<1>5. /\ DOMAIN set = Steps
      /\ \A y \in Steps : /\ StepOK(set[y]) /\ SameHolders(ss[y], set[y])
                          /\ Respects(ss[y], set[y])
                          /\ ss[y].status # Absent => set[y].status # Absent
  <2>1. CASE MaySetStatus(claimed[q.step], q)
    <3>1. set = SetStatus(claimed, q.step, q.status)
      BY <2>1
    <3>2. DOMAIN set = Steps
      BY <3>1 DEF SetStatus
    <3> HIDE DEF set
    <3>3. \A y \in Steps :
             /\ StepOK(set[y]) /\ SameHolders(claimed[y], set[y])
             /\ Respects(claimed[y], set[y])
             /\ claimed[y].status # Absent => set[y].status # Absent
      BY <1>1, <1>2, <1>3, <3>1, SetStatusOK
    <3> QED BY <1>2, <3>2, <3>3 DEF SameHolders, SameStatus, Respects
  <2>2. CASE ~MaySetStatus(claimed[q.step], q)
    <3>1. set = claimed
      BY <2>2
    <3> HIDE DEF set
    <3> QED BY <1>2, <1>4, <3>1 DEF SameHolders, SameStatus, Respects
  <2> QED BY <2>1, <2>2
<1> HIDE DEF set
<1> DEFINE wks(y) == IF y = q.step /\ Registers(q, enabled)
                     THEN ss[y].workers \cup {q.worker} ELSE ss[y].workers
           stk(y) == {ss[y].stakeholders, ss[y].stakeholders \cup {q.worker}}
<1>6. \A y \in Steps : /\ StepOK(described[y]) /\ Respects(ss[y], described[y])
                       /\ described[y].workers = wks(y)
                       /\ described[y].stakeholders \in stk(y)
                       /\ ss[y].status # Absent => described[y].status # Absent
  <2> DEFINE d == Described(set[q.step], q, enabled)
  <2>1. set[q.step].status # Absent /\ StepOK(set[q.step])
    BY <1>1, <1>5
  <2>2. /\ StepOK(d) /\ SameRun(set[q.step], d)
        /\ HeldBy(d, IF enabled /\ ~q.assistant
                     THEN set[q.step].stakeholders \cup {q.worker}
                     ELSE set[q.step].stakeholders,
                  IF Registers(q, enabled)
                  THEN set[q.step].workers \cup {q.worker}
                  ELSE set[q.step].workers)
    BY <2>1, DescribedOK
  <2>3. described = [set EXCEPT ![q.step] = d]
    OBVIOUS
  <2> HIDE DEF d
  <2>4. \A y \in Steps : described[y] = IF y = q.step THEN d ELSE set[y]
    BY <1>1, <1>5, <2>3
  <2> HIDE DEF described
  <2>5. d.workers = wks(q.step) /\ d.stakeholders \in stk(q.step)
    BY <1>1, <1>5, <2>2 DEF HeldBy, SameHolders
  <2>6. Respects(ss[q.step], d) /\ d.status # Absent
    BY <1>1, <1>5, <2>1, <2>2 DEF Respects, SameRun, SameStatus
  <2>7. \A y \in Steps : y # q.step =>
            set[y].workers = wks(y) /\ set[y].stakeholders \in stk(y)
    BY <1>5 DEF SameHolders
  <2> HIDE DEF wks, stk
  <2> QED BY <1>1, <1>5, <2>2, <2>4, <2>5, <2>6, <2>7
<1> HIDE DEF described
<1>7. \A y \in Steps : /\ StepOK(held[y]) /\ Respects(ss[y], held[y])
                       /\ held[y].workers = wks(y) /\ held[y].stakeholders \in stk(y)
  <2> SUFFICES ASSUME NEW y \in Steps
               PROVE  /\ StepOK(held[y]) /\ Respects(ss[y], held[y])
                      /\ held[y].workers = wks(y)
                      /\ held[y].stakeholders \in stk(y)
    OBVIOUS
  <2>1. CASE y \in deps
    <3>1. held[y] = Held(described[y], q)
      BY <2>1
    <3> DEFINE h == Held(described[y], q)
    <3>2. /\ StepOK(h) /\ (described[y].status # Absent => SameRun(described[y], h))
          /\ HeldBy(h, described[y].stakeholders \cup {q.worker},
                    described[y].workers)
      BY <1>1, <1>6, HeldOK
    <3> HIDE DEF h, held, deps, wks
    <3>3. h.workers = wks(y) /\ h.stakeholders \in stk(y)
      BY <1>6, <3>2 DEF HeldBy
    <3>4. Respects(ss[y], h)
      BY <1>6, <3>2 DEF Respects, SameRun, SameStatus, Absent
    <3> QED BY <3>1, <3>2, <3>3, <3>4 DEF h
  <2>2. CASE y \notin deps
    <3>1. held[y] = described[y]
      BY <2>2
    <3> HIDE DEF held, deps, wks, stk
    <3> QED BY <1>6, <3>1
  <2> QED BY <2>1, <2>2
<1> HIDE DEF held
<1>8. /\ StepOK(final[x]) /\ SameHolders(held[x], final[x])
      /\ SameRun(held[x], final[x])
  BY <1>1, <1>7, UpdatePriorityOK
<1>9. final = AddStepSteps(ss, q, enabled)
  BY DEF AddStepSteps, final, held, described, set, claimed
<1> HIDE DEF final
<1>10. Respects(ss[x], final[x])
  BY <1>7, <1>8 DEF Respects, SameRun, SameStatus
<1>11. Joined(ss[x], final[x], Added(q, x, enabled), q.worker)
  BY <1>7, <1>8 DEF SameHolders, Joined, Added
<1> QED BY <1>8, <1>9, <1>10, <1>11

-----------------------------------------------------------------------------
(* get_work and the other handlers. *)

LEMMA SetBatchRunningOK ==
    ASSUME NEW t, StepOK(t), NEW batch \in SUBSET Steps, batch # {},
           NEW w \in Workers
    PROVE  /\ StepOK(SetBatchRunning(t, batch, w))
           /\ SameHolders(t, SetBatchRunning(t, batch, w))
           /\ Respects(t, SetBatchRunning(t, batch, w))
<1> DEFINE v == SetOwnStatus(t, "BATCH_RUNNING")
           u == [v EXCEPT !.batch_id = batch, !.worker_running = w,
                          !.resources_running = Shared]
<1>1. u = SetBatchRunning(t, batch, w)
  BY DEF SetBatchRunning
<1>2. v \in StepRecords /\ Changes(t, v, "BATCH_RUNNING")
  BY SetOwnStatusType DEF Statuses, StepOK
<1> HIDE DEF v
<1>3. u \in StepRecords
  BY <1>2 DEF StepRecords
<1>4. /\ SameHolders(v, u) /\ SameStatus(v, u) /\ u.batch_id = batch
      /\ u.worker_running = w /\ u.retry = v.retry
  BY <1>2 DEF StepRecords, SameHolders, SameStatus
<1> HIDE DEF u
<1>5. (v.status = Absent => t.status = Absent) /\ w # None
  BY <1>2, ConstantsAssumption DEF ConstantsAssumption, Changes, Absent
<1>6. StepOK(u)
  BY <1>2, <1>3, <1>4, <1>5
     DEF StepOK, SameHolders, SameStatus, Changes, Timed
<1>7. SameHolders(t, u) /\ Respects(t, u)
  BY <1>2, <1>4 DEF Changes, SameHolders, SameStatus, Respects
<1> QED BY <1>1, <1>6, <1>7

LEMMA SetRunningOK ==
    ASSUME NEW t, StepOK(t), NEW w \in Workers
    PROVE  /\ StepOK(SetRunning(t, w)) /\ SameHolders(t, SetRunning(t, w))
           /\ Respects(t, SetRunning(t, w))
<1> DEFINE v == SetOwnStatus(t, "RUNNING")
           rr == t.resources
           u == [v EXCEPT !.worker_running = w, !.resources_running = rr]
<1>1. u = SetRunning(t, w)
  BY DEF SetRunning
<1>2. v \in StepRecords /\ Changes(t, v, "RUNNING")
  BY SetOwnStatusType DEF Statuses, StepOK
<1>3. rr \in Amounts
  BY DEF StepOK, StepRecords
<1> HIDE DEF v, rr
<1>4. u \in StepRecords
  BY <1>2, <1>3 DEF StepRecords
<1>5. /\ SameHolders(v, u) /\ SameStatus(v, u) /\ u.batch_id = v.batch_id
      /\ u.worker_running = w /\ u.retry = v.retry
  BY <1>2 DEF StepRecords, SameHolders, SameStatus
<1> HIDE DEF u
<1>6. (v.status = Absent => t.status = Absent) /\ w # None
  BY <1>2, ConstantsAssumption DEF ConstantsAssumption, Changes, Absent
<1>7. v.status = "BATCH_RUNNING" => v.batch_id # {}
  BY <1>2 DEF Changes, StepOK
<1>8. StepOK(u)
  BY <1>2, <1>4, <1>5, <1>6, <1>7
     DEF StepOK, SameHolders, SameStatus, Changes, Timed
<1>9. SameHolders(t, u) /\ Respects(t, u)
  BY <1>2, <1>5 DEF Changes, SameHolders, SameStatus, Respects
<1> QED BY <1>1, <1>8, <1>9

LEMMA DecreaseOK ==
    ASSUME NEW t, StepOK(t), NEW less \in Amounts
    PROVE  /\ StepOK(Decrease(t, less)) /\ SameHolders(t, Decrease(t, less))
           /\ Respects(t, Decrease(t, less))
<1> DEFINE lower(a) == [r \in Resources |->
                           IF a[r] > less[r] THEN a[r] - less[r] ELSE 0]
           r1 == lower(t.resources)
           r2 == lower(t.resources_running)
           u1 == [t EXCEPT !.resources = r1]
           u2 == [t EXCEPT !.resources_running = r2]
<1>1. \A a \in Amounts : lower(a) \in Amounts
  BY DEF Amounts
<1>2. t \in StepRecords /\ t.resources \in Amounts
  BY DEF StepOK, StepRecords
<1>3. CASE t.resources_running = None
  <2>1. Decrease(t, less) = t
    BY <1>3, ConstantsAssumption DEF ConstantsAssumption, Decrease
  <2> QED BY <2>1 DEF SameHolders, Respects
<1>4. CASE t.resources_running # None /\ t.resources_running = Shared
  <2>1. Decrease(t, less) = u1
    BY <1>4 DEF Decrease
  <2>2. r1 \in Amounts
    BY <1>1, <1>2
  <2> HIDE DEF r1
  <2>3. u1 \in StepRecords /\ SameHolders(t, u1) /\ SameRun(t, u1)
    BY <1>2, <2>2 DEF StepRecords, SameHolders, SameRun, SameStatus
  <2> HIDE DEF u1
  <2> QED BY <2>1, <2>3, SameRunOK
<1>5. CASE t.resources_running # None /\ t.resources_running # Shared
  <2>1. Decrease(t, less) = u2
    BY <1>5 DEF Decrease
  <2>2. t.resources_running \in Amounts
    BY <1>2, <1>5 DEF StepRecords
  <2>3. r2 \in Amounts
    BY <1>1, <2>2
  <2> HIDE DEF r2
  <2>4. u2 \in StepRecords /\ SameHolders(t, u2) /\ SameRun(t, u2)
    BY <1>2, <2>3 DEF StepRecords, SameHolders, SameRun, SameStatus
  <2> HIDE DEF u2
  <2> QED BY <2>1, <2>4, SameRunOK
<1> QED BY <1>3, <1>4, <1>5

LEMMA DownType ==
    ASSUME NEW d \in OrNone(Nat)
    PROVE  Down(d) \in OrNone(Nat) /\ (d # None => Down(d) # None)
BY ConstantsAssumption DEF ConstantsAssumption, Down

LEMMA UpType ==
    ASSUME NEW d \in OrNone(Nat), NEW cap \in Nat
    PROVE  /\ Up(d, cap) \in OrNone(Nat) /\ (d \in Nat => Up(d, cap) \in Nat)
           /\ Up(d, cap) # None <=> d # None
BY ConstantsAssumption DEF ConstantsAssumption, Up

\* The fields that time changes.
Aged(t, retry, remove, updated, failures, first, disabled) ==
    [t EXCEPT !.retry = retry, !.remove = remove, !.updated = updated,
              !.failures = failures, !.first_failure = first,
              !.disable_time = disabled]

AgedFrom(t, u, retry, disabled) ==
    /\ u.status = t.status /\ u.worker_running = t.worker_running
    /\ u.batch_id = t.batch_id /\ u.retry = retry /\ u.disable_time = disabled
    /\ SameHolders(t, u)

LEMMA AgedType ==
    ASSUME NEW t \in StepRecords, NEW retry \in OrNone(Nat),
           NEW remove \in OrNone(Nat), NEW updated \in Nat,
           NEW failures \in [0..DisableWindow -> Nat], NEW first \in OrNone(Nat),
           NEW disabled \in OrNone(Nat),
           NEW u, u = Aged(t, retry, remove, updated, failures, first, disabled)
    PROVE  u \in StepRecords /\ AgedFrom(t, u, retry, disabled)
<1>1. u \in StepRecords
  BY DEF StepRecords, Aged
<1>2. AgedFrom(t, u, retry, disabled)
  BY DEF StepRecords, Aged, AgedFrom, SameHolders
<1> QED BY <1>1, <1>2

LEMMA AgedStepOK ==
    ASSUME NEW t, StepOK(t)
    PROVE  /\ StepOK(AgedStep(t)) /\ SameHolders(t, AgedStep(t))
           /\ Respects(t, AgedStep(t))
<1> DEFINE retry == IF t.status = "FAILED" THEN Down(t.retry) ELSE t.retry
           remove == Down(t.remove)
           updated == IF t.status = "DONE" THEN Up(t.updated, Cooldown)
                                           ELSE t.updated
           failures == [age \in 0..DisableWindow |->
                           IF age = 0 THEN 0 ELSE t.failures[age - 1]]
           first == IF HardTimeout # None THEN Up(t.first_failure, HardTimeout)
                                          ELSE t.first_failure
           disabled == Up(t.disable_time, DisablePersist + 1)
           u == Aged(t, retry, remove, updated, failures, first, disabled)
<1>1. u = AgedStep(t)
  BY DEF AgedStep, Aged
<1>2. /\ t \in StepRecords /\ t.retry \in OrNone(Nat) /\ t.remove \in OrNone(Nat)
      /\ t.updated \in Nat /\ t.failures \in [0..DisableWindow -> Nat]
      /\ t.first_failure \in OrNone(Nat) /\ t.disable_time \in OrNone(Nat)
  BY DEF StepOK, StepRecords
<1>3. /\ retry \in OrNone(Nat) /\ (t.retry # None => retry # None)
      /\ remove \in OrNone(Nat)
  BY <1>2, DownType
<1>4. updated \in Nat
  BY <1>2, TimingAssumption DEF TimingAssumption, Up
<1>5. failures \in [0..DisableWindow -> Nat]
  BY <1>2, TimingAssumption DEF TimingAssumption
<1>6. first \in OrNone(Nat)
  BY <1>2, UpType, TimingAssumption DEF TimingAssumption
<1>7. disabled \in OrNone(Nat) /\ (disabled # None <=> t.disable_time # None)
  BY <1>2, TimingAssumption, ConstantsAssumption, SMTT(20)
     DEF TimingAssumption, ConstantsAssumption, Up
<1> HIDE DEF retry, remove, updated, failures, first, disabled
<1>8. u \in StepRecords /\ AgedFrom(t, u, retry, disabled)
  BY <1>2, <1>3, <1>4, <1>5, <1>6, <1>7, AgedType
<1> HIDE DEF u
<1>9. StepOK(u)
  BY <1>3, <1>7, <1>8 DEF StepOK, AgedFrom, SameHolders, Timed
<1>10. SameHolders(t, u) /\ Respects(t, u)
  BY <1>8 DEF AgedFrom, Respects
<1> QED BY <1>1, <1>9, <1>10

-----------------------------------------------------------------------------
(* The table of steps and the table of workers. *)

\* A worker that is disabled has no steps left.
Retired(v) == v.disabled => v.steps = {} /\ v.removed = {}

TableOK(ss, ws) ==
    /\ ss \in [Steps -> StepRecords]
    /\ ws \in [Workers -> WorkerRecords]
    /\ \A s \in Steps : StepOK(ss[s])
    /\ \A s \in Steps : ss[s].stakeholders \subseteq ActiveWorkers(ws)
    /\ \A s \in Steps, w \in Workers : s \in ws[w].steps <=> w \in ss[s].workers
    /\ \A w \in Workers : Retired(ws[w])

\* What most handlers do to the two tables.
StepsKept(ss, ss2) ==
    /\ ss2 \in [Steps -> StepRecords]
    /\ \A s \in Steps : /\ StepOK(ss2[s]) /\ SameHolders(ss[s], ss2[s])
                        /\ Respects(ss[s], ss2[s])

\* Nobody is disabled, and whoever is keeps what is left of the steps.
Retires(v, v2) == v2.disabled => v.disabled /\ v2.removed = v.removed

WorkersKept(ws, ws2) ==
    /\ ws2 \in [Workers -> WorkerRecords]
    /\ \A w \in Workers : /\ ws2[w].steps = ws[w].steps
                          /\ ws[w].active => ws2[w].active
                          /\ Retires(ws[w], ws2[w])

LEMMA TablesKept ==
    ASSUME NEW ss, NEW ws, TableOK(ss, ws), NEW ss2, StepsKept(ss, ss2),
           NEW ws2, WorkersKept(ws, ws2)
    PROVE  TableOK(ss2, ws2)
<1>1. \A s \in Steps : ss2[s].stakeholders \subseteq ActiveWorkers(ws2)
  BY DEF TableOK, StepsKept, WorkersKept, SameHolders, ActiveWorkers
<1>2. \A s \in Steps, w \in Workers : s \in ws2[w].steps <=> w \in ss2[s].workers
  BY DEF TableOK, StepsKept, WorkersKept, SameHolders
<1>3. \A w \in Workers : Retired(ws2[w])
  BY DEF TableOK, WorkersKept, Retired, Retires
<1> QED BY <1>1, <1>2, <1>3 DEF TableOK, StepsKept, WorkersKept

LEMMA StepsKeptRefl ==
    ASSUME NEW ss, NEW ws, TableOK(ss, ws)
    PROVE  StepsKept(ss, ss) /\ WorkersKept(ws, ws)
BY DEF TableOK, StepsKept, WorkersKept, SameHolders, Respects, Retires

\* A worker that is not active has no steps, as it holds none.
LEMMA InactiveHasNoSteps ==
    ASSUME NEW ss, NEW ws, TableOK(ss, ws), NEW w \in Workers, ~ws[w].active
    PROVE  ws[w].steps = {}
<1>1. \A s \in Steps : w \notin ss[s].workers
  BY DEF TableOK, StepOK, ActiveWorkers
<1>2. ws[w].steps \subseteq Steps
  BY DEF TableOK, WorkerRecords
<1> QED BY <1>1, <1>2 DEF TableOK

LEMMA GetWorkerOK ==
    ASSUME NEW ss, NEW ws, TableOK(ss, ws), NEW w \in Workers
    PROVE  /\ GetWorker(ws, w) \in WorkerRecords
           /\ GetWorker(ws, w).active
           /\ GetWorker(ws, w).steps = ws[w].steps
           /\ Retires(ws[w], GetWorker(ws, w))
<1>1. CASE ws[w].active
  BY <1>1 DEF GetWorker, TableOK, Retires
<1>2. CASE ~ws[w].active
  <2>1. GetWorker(ws, w) = NewWorker
    BY <1>2 DEF GetWorker
  <2> QED BY <1>2, <2>1, InactiveHasNoSteps DEF NewWorker, WorkerRecords, Retires
<1> QED BY <1>1, <1>2

\* A newer record of the same worker.
Succeeds(v, old) ==
    v.active /\ v.steps = old.steps /\ Retires(old, v)

LEMMA ReplacedWorkerOK ==
    ASSUME NEW ws \in [Workers -> WorkerRecords], NEW w \in Workers,
           NEW v \in WorkerRecords, Succeeds(v, ws[w])
    PROVE  /\ WorkersKept(ws, [ws EXCEPT ![w] = v])
           /\ [ws EXCEPT ![w] = v][w].active
BY DEF WorkersKept, Succeeds, Retires

LEMMA UpdateWorkerOK ==
    ASSUME NEW ss, NEW ws, TableOK(ss, ws), NEW w \in Workers,
           NEW get_work \in BOOLEAN
    PROVE  /\ WorkersKept(ws, UpdateWorker(ws, w, get_work))
           /\ UpdateWorker(ws, w, get_work)[w].active
<1> DEFINE g == GetWorker(ws, w)
           last == IF get_work THEN 0 ELSE g.last_get_work
           v == [g EXCEPT !.last_active = 0, !.last_get_work = last]
<1>1. /\ g \in WorkerRecords /\ g.active /\ g.steps = ws[w].steps
      /\ Retires(ws[w], g)
  BY GetWorkerOK
<1>2. UpdateWorker(ws, w, get_work) = [ws EXCEPT ![w] = v]
  BY DEF UpdateWorker
<1> HIDE DEF g
<1>3. last \in OrNone(Nat)
  BY <1>1 DEF WorkerRecords
<1> HIDE DEF last
<1>4. v \in WorkerRecords /\ Succeeds(v, ws[w])
  BY <1>1, <1>3 DEF WorkerRecords, Succeeds, Retires
<1>5. ws \in [Workers -> WorkerRecords]
  BY DEF TableOK
<1> HIDE DEF v
<1> QED BY <1>2, <1>4, <1>5, ReplacedWorkerOK

-----------------------------------------------------------------------------
(* The inductive invariant and the handlers. *)

IInv ==
    /\ TableOK(steps, workers)
    /\ older \subseteq Steps \X Steps
    /\ batchers \in [Workers -> SUBSET Families]
    /\ limits \in Amounts
    /\ paused \in BOOLEAN

\* What every step of the server is shown to do.
Good == IInv' /\ \A s \in Steps : Respects(steps[s], steps'[s])

LEMMA EnrolledType ==
    ASSUME NEW ord, ord \subseteq Steps \X Steps, NEW old, old \subseteq Steps,
           NEW new, new \subseteq Steps, NEW first,
           NEW o \in Enrolled(ord, old, new, first)
    PROVE  o \subseteq Steps \X Steps
<1>1. PICK rank : o = ord \cup (old \X new) \cup
                      {p \in new \X new : rank[p[1]] < rank[p[2]]}
  BY DEF Enrolled
<1>2. \A p \in old \X new : p \in Steps \X Steps
  OBVIOUS
<1>3. \A p \in new \X new : p \in Steps \X Steps
  OBVIOUS
<1> QED BY <1>1, <1>2, <1>3

LEMMA UpdateWorkerDisabled ==
    ASSUME NEW ss, NEW ws, TableOK(ss, ws), NEW w \in Workers
    PROVE  UpdateWorker(ws, w, FALSE)[w].disabled = GetWorker(ws, w).disabled
<1> DEFINE g == GetWorker(ws, w)
<1>1. g \in WorkerRecords
  BY GetWorkerOK
<1>2. UpdateWorker(ws, w, FALSE)[w] =
          [g EXCEPT !.last_active = 0, !.last_get_work = g.last_get_work]
  BY DEF UpdateWorker, TableOK
<1> HIDE DEF g
<1>3. [g EXCEPT !.last_active = 0, !.last_get_work = g.last_get_work].disabled
          = g.disabled
  BY <1>1 DEF WorkerRecords
<1> QED BY <1>2, <1>3 DEF g

LEMMA UpdatePriorityType ==
    ASSUME NEW ss, NEW s, NEW prio,
           \A x \in Steps : UpdatePriority(ss, s, prio)[x] \in StepRecords
    PROVE  UpdatePriority(ss, s, prio) \in [Steps -> StepRecords]
<1> DEFINE top == IF prio > ss[s].priority THEN prio ELSE ss[s].priority
           value(x) == IF x \in Raised(ss, s, top)
                       THEN [ss[x] EXCEPT !.priority = top] ELSE ss[x]
<1>1. UpdatePriority(ss, s, prio) = [x \in Steps |-> value(x)]
  BY DEF UpdatePriority
<1> HIDE DEF value
<1> QED BY <1>1

LEMMA AddStepStepsType ==
    ASSUME NEW ss, NEW q, NEW enabled,
           \A x \in Steps : AddStepSteps(ss, q, enabled)[x] \in StepRecords
    PROVE  AddStepSteps(ss, q, enabled) \in [Steps -> StepRecords]
<1>1. PICK held : AddStepSteps(ss, q, enabled) =
                      UpdatePriority(held, q.step, q.priority)
  BY DEF AddStepSteps
<1> QED BY <1>1, UpdatePriorityType

\* A worker's record with other steps.
WithSteps(u, v, S) ==
    /\ u.steps = S /\ u.removed = v.removed
    /\ u.active = v.active /\ u.disabled = v.disabled

LEMMA WorkerStepsType ==
    ASSUME NEW v \in WorkerRecords, NEW S \in SUBSET Steps
    PROVE  /\ [v EXCEPT !.steps = S] \in WorkerRecords
           /\ WithSteps([v EXCEPT !.steps = S], v, S)
BY DEF WorkerRecords, WithSteps

LEMMA AddStepGood ==
    ASSUME IInv, NEW q \in Calls, AddStep(q)
    PROVE  Good
<1> DEFINE ws == UpdateWorker(workers, q.worker, FALSE)
           enabled == ~ws[q.worker].disabled
           ss == WithDefaultStep(steps, q, enabled)
           ignored == IgnoresRequest(ss[q.step], q, enabled)
           stored == ~ignored /\ ~AddStepFails(q)
<1>1. q \in Requests /\ q.worker \in Workers /\ q.step \in Steps
  BY DEF Calls, Requests
<1>2. TableOK(steps, workers)
  BY DEF IInv
<1>3. WorkersKept(workers, ws) /\ ws[q.worker].active
  BY <1>1, <1>2, UpdateWorkerOK
<1>4. enabled \in BOOLEAN
  OBVIOUS
<1>5. ws[q.worker].disabled = GetWorker(workers, q.worker).disabled
  BY <1>1, <1>2, UpdateWorkerDisabled
<1>6. stored => ~NamesLostBatch(ss, q) /\ ss[q.step].status # Absent
  BY <1>5 DEF AddStepFails, IgnoresRequest
<1>7. /\ steps' = CASE ignored -> ss
                    [] stored -> AddStepSteps(ss, q, enabled)
                    [] OTHER -> [ss EXCEPT ![q.step] = Attributed(ss[q.step], q)]
      /\ older' \in Enrolled(older, Present(steps),
                             Present(steps') \ Present(steps), q.step)
      /\ workers' = IF stored /\ Registers(q, enabled)
                    THEN [ws EXCEPT ![q.worker].steps =
                             ws[q.worker].steps \cup {q.step}]
                    ELSE ws
      /\ UNCHANGED <<batchers, limits, paused>>
  BY DEF AddStep
<1>8. older' \subseteq Steps \X Steps
  <2>1. Present(steps) \subseteq Steps /\ Present(steps') \ Present(steps) \subseteq Steps
    BY DEF Present
  <2> QED BY <1>7, <2>1, EnrolledType DEF IInv
<1> HIDE DEF ws, enabled
<1>9. /\ ss \in [Steps -> StepRecords]
      /\ \A x \in Steps : /\ StepOK(ss[x]) /\ SameHolders(steps[x], ss[x])
                          /\ steps[x].status # Absent => ss[x] = steps[x]
  BY <1>1, <1>2, <1>4, WithDefaultStepOK DEF TableOK
<1> HIDE DEF ss
<1>10. StepsKept(steps, ss)
  BY <1>9 DEF StepsKept, Respects, Absent
<1>11. TableOK(ss, ws)
  BY <1>2, <1>3, <1>10, TablesKept
<1>12. \A x \in Steps : Respects(ss[x], steps'[x]) => Respects(steps[x], steps'[x])
  BY <1>9 DEF Respects, Absent
<1>13. SUFFICES TableOK(steps', workers') /\
                \A x \in Steps : Respects(ss[x], steps'[x])
  BY <1>7, <1>8, <1>12 DEF Good, IInv
<1>14. CASE ignored
  <2>1. steps' = ss /\ workers' = ws
    BY <1>7, <1>14
  <2> QED BY <1>11, <2>1 DEF Respects
<1>15. CASE ~ignored /\ ~stored
  <2> DEFINE a == Attributed(ss[q.step], q)
  <2>1. steps' = [ss EXCEPT ![q.step] = a] /\ workers' = ws
    BY <1>7, <1>15
  <2>2. StepOK(a) /\ SameHolders(ss[q.step], a) /\ SameStatus(ss[q.step], a)
    BY <1>1, <1>9, AttributedOK
  <2> HIDE DEF a
  <2>3. \A x \in Steps : steps'[x] = IF x = q.step THEN a ELSE ss[x]
    BY <1>1, <1>9, <2>1
  <2>4. StepsKept(ss, steps')
    <3>1. steps' \in [Steps -> StepRecords]
      BY <1>1, <1>9, <2>1, <2>2 DEF StepOK
    <3>2. Respects(ss[q.step], a)
      BY <2>2 DEF Respects, SameStatus
    <3>3. \A x \in Steps : SameHolders(ss[x], ss[x]) /\ Respects(ss[x], ss[x])
      BY DEF SameHolders, Respects
    <3> QED BY <1>1, <1>9, <2>2, <2>3, <3>1, <3>2, <3>3 DEF StepsKept
  <2>5. WorkersKept(ws, ws)
    BY <1>11, StepsKeptRefl
  <2> QED BY <1>11, <2>1, <2>4, <2>5, TablesKept DEF StepsKept
<1>16. CASE stored
  <2>1. /\ steps' = AddStepSteps(ss, q, enabled)
        /\ workers' = IF Registers(q, enabled)
                      THEN [ws EXCEPT ![q.worker].steps =
                               ws[q.worker].steps \cup {q.step}]
                      ELSE ws
    BY <1>7, <1>16
  <2>2. \A x \in Steps :
           /\ StepOK(steps'[x]) /\ Respects(ss[x], steps'[x])
           /\ Joined(ss[x], steps'[x], Added(q, x, enabled), q.worker)
    BY <1>4, <1>6, <1>9, <1>16, <2>1, AddStepStepsOK
  <2>4. steps' \in [Steps -> StepRecords]
    <3>1. \A x \in Steps : steps'[x] \in StepRecords
      BY <2>2 DEF StepOK
    <3> QED BY <2>1, <3>1, AddStepStepsType
  <2>5. /\ workers' \in [Workers -> WorkerRecords]
        /\ \A w \in Workers :
              /\ workers'[w].active = ws[w].active
              /\ workers'[w].disabled = ws[w].disabled
              /\ workers'[w].removed = ws[w].removed
              /\ workers'[w].steps = IF w = q.worker /\ Registers(q, enabled)
                                     THEN ws[w].steps \cup {q.step}
                                     ELSE ws[w].steps
    <3>1. ws \in [Workers -> WorkerRecords]
      BY <1>11 DEF TableOK
    <3>2. CASE Registers(q, enabled)
      <4> DEFINE S == ws[q.worker].steps \cup {q.step}
                 v == [ws[q.worker] EXCEPT !.steps = S]
      <4>1. workers' = [ws EXCEPT ![q.worker] = v]
        BY <2>1, <3>2
      <4>2. S \in SUBSET Steps /\ ws[q.worker] \in WorkerRecords
        BY <1>1, <3>1 DEF WorkerRecords
      <4> HIDE DEF S
      <4>3. v \in WorkerRecords /\ WithSteps(v, ws[q.worker], S)
        BY <4>2, WorkerStepsType
      <4> HIDE DEF v
      <4> QED BY <1>1, <3>1, <3>2, <4>1, <4>3 DEF S, WithSteps
    <3>3. CASE ~Registers(q, enabled)
      BY <2>1, <3>1, <3>3
    <3> QED BY <3>2, <3>3
  <2>6. Registers(q, enabled) => ~ws[q.worker].disabled
    BY DEF Registers, enabled
  <2>7. \A s \in Steps : steps'[s].stakeholders \subseteq ActiveWorkers(workers')
    <3>1. \A s \in Steps : ss[s].stakeholders \cup {q.worker} \subseteq
                             ActiveWorkers(ws)
      BY <1>1, <1>3, <1>11 DEF TableOK, ActiveWorkers
    <3>2. ActiveWorkers(workers') = ActiveWorkers(ws)
      BY <2>5 DEF ActiveWorkers
    <3> QED BY <2>2, <3>1, <3>2 DEF Joined
  <2>8. \A s \in Steps, w \in Workers :
           s \in workers'[w].steps <=> w \in steps'[s].workers
    <3>1. \A s \in Steps, w \in Workers : s \in ws[w].steps <=> w \in ss[s].workers
      BY <1>11 DEF TableOK
    <3>2. \A s \in Steps : steps'[s].workers = ss[s].workers \cup Added(q, s, enabled)
      BY <2>2 DEF Joined
    <3>3. \A s \in Steps, w \in Workers :
             s \in workers'[w].steps <=>
                 s \in ws[w].steps \/ w \in Added(q, s, enabled)
      <4>1. SUFFICES ASSUME NEW s \in Steps, NEW w \in Workers
                     PROVE  s \in workers'[w].steps <=>
                                s \in ws[w].steps \/ w \in Added(q, s, enabled)
        OBVIOUS
      <4>2. CASE w = q.worker /\ Registers(q, enabled)
        <5>1. workers'[w].steps = ws[w].steps \cup {q.step}
          BY <2>5, <4>2
        <5> QED BY <4>2, <5>1 DEF Added
      <4>3. CASE ~(w = q.worker /\ Registers(q, enabled))
        <5>1. workers'[w].steps = ws[w].steps
          BY <2>5, <4>3
        <5> QED BY <4>3, <5>1 DEF Added
      <4> QED BY <4>2, <4>3
    <3>4. \A s \in Steps, w \in Workers :
             w \in steps'[s].workers <=>
                 w \in ss[s].workers \/ w \in Added(q, s, enabled)
      BY <3>2
    <3> QED BY <3>1, <3>3, <3>4
  <2>9. \A w \in Workers : Retired(workers'[w])
    BY <1>11, <2>5, <2>6 DEF TableOK, Retired
  <2> QED BY <2>2, <2>4, <2>5, <2>7, <2>8, <2>9 DEF TableOK
<1> QED BY <1>14, <1>15, <1>16

\* Handlers that leave the order, the batchers, the limits and the pause alone.
LEMMA KeptGood ==
    ASSUME IInv, StepsKept(steps, steps'), WorkersKept(workers, workers'),
           UNCHANGED <<older, batchers, limits, paused>>
    PROVE  Good
<1>1. TableOK(steps', workers')
  BY TablesKept DEF IInv
<1> QED BY <1>1 DEF IInv, Good, StepsKept

\* The worker index after get_worker has been called for the workers that run
\* steps.
LEMMA CountedWorkersOK ==
    ASSUME NEW ss, NEW ws, TableOK(ss, ws), NEW w
    PROVE  WorkersKept(ws, CountedWorkers(ss, ws, w))
<1> DEFINE counted ==
               {ss[s].worker_running : s \in GetSteps(ss, ws, w, {"RUNNING"})}
                   \cup {x.worker_running : x \in GetRemovedSteps(ss, ws, w, {"RUNNING"})}
           ws2 == CountedWorkers(ss, ws, w)
<1>1. ws2 = [v \in Workers |-> IF v \in counted THEN GetWorker(ws, v) ELSE ws[v]]
  BY DEF CountedWorkers
<1>2. \A v \in Workers : /\ GetWorker(ws, v) \in WorkerRecords
                         /\ Succeeds(GetWorker(ws, v), ws[v])
  BY GetWorkerOK DEF Succeeds
<1>3. ws \in [Workers -> WorkerRecords]
  BY DEF TableOK
<1> HIDE DEF counted, ws2
<1> QED BY <1>1, <1>2, <1>3 DEF WorkersKept, Succeeds, Retires, ws2

LEMMA WorkersKeptTrans ==
    ASSUME NEW ws1, NEW ws2, NEW ws3, WorkersKept(ws1, ws2), WorkersKept(ws2, ws3)
    PROVE  WorkersKept(ws1, ws3)
BY DEF WorkersKept, Retires

LEMMA ResetOrphanedStepsOK ==
    ASSUME NEW ss, \A s \in Steps : StepOK(ss[s]), NEW w
    PROVE  StepsKept(ss, ResetOrphanedSteps(ss, w))
<1> DEFINE value(s) == IF s \in OrphanedSteps(ss, w)
                       THEN SetOwnStatus(ss[s], "PENDING") ELSE ss[s]
<1>1. ResetOrphanedSteps(ss, w) = [s \in Steps |-> value(s)]
  BY DEF ResetOrphanedSteps
<1>2. \A s \in Steps : /\ StepOK(value(s)) /\ SameHolders(ss[s], value(s))
                       /\ Respects(ss[s], value(s))
  <2>1. \A s \in Steps : /\ StepOK(SetOwnStatus(ss[s], "PENDING"))
                         /\ SameHolders(ss[s], SetOwnStatus(ss[s], "PENDING"))
                         /\ Respects(ss[s], SetOwnStatus(ss[s], "PENDING"))
    BY SetOwnStatusOK DEF Statuses, ActiveStatuses
  <2>2. \A s \in Steps : SameHolders(ss[s], ss[s]) /\ Respects(ss[s], ss[s])
    BY DEF SameHolders, Respects
  <2> QED BY <2>1, <2>2
<1> HIDE DEF value
<1> QED BY <1>1, <1>2 DEF StepsKept, StepOK

LEMMA HandOutOK ==
    ASSUME NEW ss, \A s \in Steps : StepOK(ss[s]), NEW w \in Workers,
           NEW work \in SUBSET Steps
    PROVE  StepsKept(ss, HandOut(ss, w, work))
<1> DEFINE value(s) == CASE s \in work /\ Cardinality(work) > 1 ->
                                SetBatchRunning(ss[s], work, w)
                         [] s \in work /\ Cardinality(work) = 1 ->
                                SetRunning(ss[s], w)
                         [] OTHER -> ss[s]
<1>1. HandOut(ss, w, work) = [s \in Steps |-> value(s)]
  BY DEF HandOut
<1>2. ASSUME NEW s \in Steps
      PROVE  /\ StepOK(value(s)) /\ SameHolders(ss[s], value(s))
             /\ Respects(ss[s], value(s))
  <2>1. CASE s \in work /\ Cardinality(work) > 1
    <3>1. value(s) = SetBatchRunning(ss[s], work, w)
      BY <2>1
    <3>2. work # {}
      BY <2>1
    <3> QED BY <3>1, <3>2, SetBatchRunningOK
  <2>2. CASE s \in work /\ Cardinality(work) = 1
    <3>1. value(s) = SetRunning(ss[s], w)
      BY <2>2
    <3> QED BY <3>1, SetRunningOK
  <2>3. CASE ~(s \in work /\ Cardinality(work) > 1)
             /\ ~(s \in work /\ Cardinality(work) = 1)
    <3>1. value(s) = ss[s]
      BY <2>3
    <3> QED BY <3>1 DEF SameHolders, Respects
  <2> QED BY <2>1, <2>2, <2>3
<1> HIDE DEF value
<1> QED BY <1>1, <1>2 DEF StepsKept, StepOK

LEMMA GetWorkGood ==
    ASSUME IInv, NEW w \in Workers, NEW assistant \in BOOLEAN, NEW current_steps,
           NEW work \in SUBSET Steps, GetWork(w, assistant, current_steps, work)
    PROVE  Good
<1> DEFINE touched == UpdateWorker(workers, w, TRUE)
           flag == touched[w].assistant \/ assistant
           v == [touched[w] EXCEPT !.assistant = flag]
           ws == [touched EXCEPT ![w] = v]
           ss == ResetOrphanedSteps(steps, w)
<1>1. TableOK(steps, workers)
  BY DEF IInv
<1>2. WorkersKept(workers, touched) /\ touched[w].active
  BY <1>1, UpdateWorkerOK
<1>3. touched \in [Workers -> WorkerRecords]
  BY <1>2 DEF WorkersKept
<1>4. UNCHANGED <<older, batchers, limits, paused>>
  BY DEF GetWork
<1>5. touched[w].disabled => workers' = touched /\ steps' = steps
  BY DEF GetWork
<1>6. ~touched[w].disabled => /\ steps' = HandOut(ss, w, work)
                              /\ workers' = CountedWorkers(ss, ws, w)
  BY DEF GetWork
<1> HIDE DEF touched
<1>7. CASE touched[w].disabled
  <2>1. StepsKept(steps, steps')
    BY <1>1, <1>5, <1>7, StepsKeptRefl
  <2>2. WorkersKept(workers, workers')
    BY <1>2, <1>5, <1>7
  <2> QED BY <1>4, <2>1, <2>2, KeptGood
<1>8. CASE ~touched[w].disabled
  <2>1. v \in WorkerRecords /\ Succeeds(v, touched[w])
    <3>1. flag \in BOOLEAN
      OBVIOUS
    <3> HIDE DEF flag
    <3> QED BY <1>2, <1>3, <3>1 DEF WorkerRecords, Succeeds, Retires
  <2> HIDE DEF v
  <2>2. WorkersKept(touched, ws)
    BY <1>3, <2>1, ReplacedWorkerOK
  <2> HIDE DEF ws
  <2>3. StepsKept(steps, ss)
    BY <1>1, ResetOrphanedStepsOK DEF TableOK
  <2>4. \A s \in Steps : steps[s].status = "DISABLED" => ss[s] = steps[s]
    BY DEF ResetOrphanedSteps, OrphanedSteps, WithStatus
  <2> HIDE DEF ss
  <2>5. WorkersKept(workers, ws)
    BY <1>2, <2>2, WorkersKeptTrans
  <2>6. TableOK(ss, ws)
    BY <1>1, <2>3, <2>5, TablesKept
  <2>7. WorkersKept(ws, workers')
    BY <1>6, <1>8, <2>6, CountedWorkersOK
  <2>8. StepsKept(ss, steps')
    BY <1>6, <1>8, <2>3, HandOutOK DEF StepsKept
  <2>9. StepsKept(steps, steps')
    BY <2>3, <2>4, <2>8 DEF StepsKept, SameHolders, Respects
  <2>10. WorkersKept(workers, workers')
    BY <2>5, <2>7, WorkersKeptTrans
  <2> QED BY <1>4, <2>9, <2>10, KeptGood
<1> QED BY <1>7, <1>8

LEMMA GetWorkerKept ==
    ASSUME NEW ss, NEW ws, TableOK(ss, ws), NEW w \in Workers
    PROVE  WorkersKept(ws, [ws EXCEPT ![w] = GetWorker(ws, w)])
<1>1. GetWorker(ws, w) \in WorkerRecords /\ Succeeds(GetWorker(ws, w), ws[w])
  BY GetWorkerOK DEF Succeeds
<1>2. ws \in [Workers -> WorkerRecords]
  BY DEF TableOK
<1> QED BY <1>1, <1>2, ReplacedWorkerOK

LEMMA CountPendingGood ==
    ASSUME IInv, NEW w \in Workers, CountPending(w)
    PROVE  Good
<1> DEFINE ws == [workers EXCEPT ![w] = GetWorker(workers, w)]
<1>1. TableOK(steps, workers)
  BY DEF IInv
<1>2. WorkersKept(workers, ws)
  BY <1>1, GetWorkerKept
<1>3. StepsKept(steps, steps) /\ steps' = steps
  BY <1>1, StepsKeptRefl DEF CountPending
<1>4. workers' = CountedWorkers(steps, ws, w)
  BY DEF CountPending
<1> HIDE DEF ws
<1>5. TableOK(steps, ws)
  BY <1>1, <1>2, <1>3, TablesKept
<1>6. WorkersKept(workers, workers')
  BY <1>2, <1>4, <1>5, CountedWorkersOK, WorkersKeptTrans
<1> QED BY <1>3, <1>6, KeptGood DEF CountPending

LEMMA PingGood ==
    ASSUME IInv, NEW w \in Workers, Ping(w)
    PROVE  Good
<1>1. TableOK(steps, workers)
  BY DEF IInv
<1>2. WorkersKept(workers, workers')
  BY <1>1, UpdateWorkerOK DEF Ping
<1>3. StepsKept(steps, steps') /\ UNCHANGED <<older, batchers, limits, paused>>
  BY <1>1, StepsKeptRefl DEF Ping
<1> QED BY <1>2, <1>3, KeptGood

LEMMA AddWorkerGood ==
    ASSUME IInv, NEW w \in Workers, NEW n \in Nat, AddWorker(w, n)
    PROVE  Good
<1> DEFINE g == GetWorker(workers, w)
           v == [g EXCEPT !.processes = n]
<1>1. TableOK(steps, workers) /\ workers \in [Workers -> WorkerRecords]
  BY DEF IInv, TableOK
<1>2. g \in WorkerRecords /\ Succeeds(g, workers[w])
  BY <1>1, GetWorkerOK DEF Succeeds
<1>3. workers' = [workers EXCEPT ![w] = v]
  BY DEF AddWorker
<1> HIDE DEF g
<1>4. v \in WorkerRecords /\ Succeeds(v, workers[w])
  BY <1>2 DEF WorkerRecords, Succeeds, Retires
<1> HIDE DEF v
<1>5. WorkersKept(workers, workers')
  BY <1>1, <1>3, <1>4, ReplacedWorkerOK
<1>6. StepsKept(steps, steps') /\ UNCHANGED <<older, batchers, limits, paused>>
  BY <1>1, StepsKeptRefl DEF AddWorker
<1> QED BY <1>5, <1>6, KeptGood

\* Handlers that change the status of one step.
LEMMA StatusGood ==
    ASSUME IInv, NEW s \in Steps, NEW new \in RunEndings,
           steps' = SetStatus(steps, s, new),
           UNCHANGED <<older, workers, batchers, limits, paused>>
    PROVE  Good
<1>1. TableOK(steps, workers)
  BY DEF IInv
<1>2. \A x \in Steps : /\ StepOK(SetStatus(steps, s, new)[x])
                       /\ SameHolders(steps[x], SetStatus(steps, s, new)[x])
                       /\ Respects(steps[x], SetStatus(steps, s, new)[x])
  BY <1>1, SetStatusOK DEF RunEndings, TableOK
<1>3. SetStatus(steps, s, new) \in [Steps -> StepRecords]
  <2> DEFINE ended == IF EndsBatch(steps[s], new)
                      THEN BatchRunningSteps(steps, steps[s].batch_id) ELSE {}
             value(x) == CASE x \in ended -> EndMember(steps[x], new)
                           [] x = s /\ EndsBatch(steps[s], new) ->
                                  EndMember(steps[s], new)
                           [] x = s /\ ~EndsBatch(steps[s], new) ->
                                  SetOwnStatus(steps[s], new)
                           [] OTHER -> steps[x]
  <2>1. SetStatus(steps, s, new) = [x \in Steps |-> value(x)]
    BY DEF SetStatus
  <2> HIDE DEF value
  <2> QED BY <1>2, <2>1 DEF StepOK
<1>4. StepsKept(steps, steps')
  BY <1>2, <1>3 DEF StepsKept
<1>5. WorkersKept(workers, workers')
  BY <1>1, StepsKeptRefl
<1> QED BY <1>4, <1>5, KeptGood

LEMMA ReEnableStepGood ==
    ASSUME IInv, NEW s \in Steps, ReEnableStep(s)
    PROVE  Good
<1>1. TableOK(steps, workers)
  BY DEF IInv
<1>2. /\ StepOK(ReEnable(steps[s])) /\ SameHolders(steps[s], ReEnable(steps[s]))
      /\ Respects(steps[s], ReEnable(steps[s]))
  BY <1>1, ReEnableOK DEF ReEnableStep, TableOK
<1>3. steps' = [steps EXCEPT ![s] = ReEnable(steps[s])]
  BY DEF ReEnableStep
<1>4. StepsKept(steps, steps)
  BY <1>1, StepsKeptRefl
<1>5. steps' \in [Steps -> StepRecords]
  BY <1>1, <1>2, <1>3 DEF TableOK, StepOK
<1>6. StepsKept(steps, steps')
  BY <1>1, <1>2, <1>3, <1>4, <1>5 DEF StepsKept, TableOK
<1>7. WorkersKept(workers, workers') /\ UNCHANGED <<older, batchers, limits, paused>>
  BY <1>1, StepsKeptRefl DEF ReEnableStep
<1> QED BY <1>6, <1>7, KeptGood

LEMMA DecreaseGood ==
    ASSUME IInv, NEW s \in Steps, NEW less \in Amounts,
           DecreaseRunningStepResources(s, less)
    PROVE  Good
<1> DEFINE batch == IF steps[s].batch_id = {} THEN {}
                    ELSE BatchRunningSteps(steps, steps[s].batch_id)
           value(x) == IF x \in batch \cup {s} THEN Decrease(steps[x], less)
                                               ELSE steps[x]
<1>1. TableOK(steps, workers)
  BY DEF IInv
<1>2. steps' = [x \in Steps |-> value(x)]
  BY DEF DecreaseRunningStepResources
<1>3. ASSUME NEW x \in Steps
      PROVE  /\ StepOK(value(x)) /\ SameHolders(steps[x], value(x))
             /\ Respects(steps[x], value(x))
  <2>1. StepOK(steps[x])
    BY <1>1 DEF TableOK
  <2>2. /\ StepOK(Decrease(steps[x], less))
        /\ SameHolders(steps[x], Decrease(steps[x], less))
        /\ Respects(steps[x], Decrease(steps[x], less))
    BY <2>1, DecreaseOK
  <2>3. SameHolders(steps[x], steps[x]) /\ Respects(steps[x], steps[x])
    BY DEF SameHolders, Respects
  <2> QED BY <2>1, <2>2, <2>3
<1> HIDE DEF value
<1>4. StepsKept(steps, steps')
  BY <1>2, <1>3 DEF StepsKept, StepOK
<1>5. WorkersKept(workers, workers') /\ UNCHANGED <<older, batchers, limits, paused>>
  BY <1>1, StepsKeptRefl DEF DecreaseRunningStepResources
<1> QED BY <1>4, <1>5, KeptGood

LEMMA TickGood ==
    ASSUME IInv, Tick
    PROVE  Good
<1> DEFINE value(s) == IF steps[s].status = Absent THEN NoStep
                                                   ELSE AgedStep(steps[s])
           worker(w) == IF workers[w].active THEN AgedWorker(workers[w])
                                             ELSE NoWorker
<1>1. TableOK(steps, workers)
  BY DEF IInv
<1>2. /\ steps' = [s \in Steps |-> value(s)]
      /\ workers' = [w \in Workers |-> worker(w)]
      /\ UNCHANGED <<older, batchers, limits, paused>>
  BY DEF Tick
<1>3. ASSUME NEW s \in Steps
      PROVE  /\ StepOK(value(s)) /\ SameHolders(steps[s], value(s))
             /\ Respects(steps[s], value(s))
  <2>1. StepOK(steps[s])
    BY <1>1 DEF TableOK
  <2>2. CASE steps[s].status = Absent
    <3>1. value(s) = NoStep /\ steps[s].stakeholders = {} /\ steps[s].workers = {}
      BY <2>1, <2>2 DEF StepOK
    <3> HIDE DEF value
    <3> QED BY <2>2, <3>1, NoStepOK DEF SameHolders, Respects, Absent
  <2>3. CASE steps[s].status # Absent
    BY <2>1, <2>3, AgedStepOK
  <2> QED BY <2>2, <2>3
<1>4. ASSUME NEW w \in Workers
      PROVE  /\ worker(w) \in WorkerRecords /\ worker(w).steps = workers[w].steps
             /\ workers[w].active => worker(w).active
             /\ Retires(workers[w], worker(w))
  <2>1. workers[w] \in WorkerRecords
    BY <1>1 DEF TableOK
  <2>2. CASE workers[w].active
    <3> DEFINE a == Up(workers[w].last_active, DisconnectDelay + 1)
               b == Up(workers[w].last_get_work, DisconnectDelay)
               v == workers[w]
    <3>1. a \in Nat /\ b \in OrNone(Nat)
      BY <2>1, TimingAssumption DEF TimingAssumption, WorkerRecords, Up
    <3>2. worker(w) = [v EXCEPT !.last_active = a, !.last_get_work = b]
      BY <2>2 DEF AgedWorker
    <3> HIDE DEF worker, a, b
    <3> QED BY <2>1, <2>2, <3>1, <3>2 DEF WorkerRecords, Retires
  <2>3. CASE ~workers[w].active
    <3>1. workers[w].steps = {}
      BY <1>1, <2>3, InactiveHasNoSteps
    <3>2. worker(w) = NoWorker
      BY <2>3
    <3>3. NoWorker \in WorkerRecords /\ NoWorker.steps = {} /\ ~NoWorker.disabled
      BY DEF NoWorker, NewWorker, WorkerRecords
    <3> HIDE DEF worker
    <3> QED BY <2>3, <3>1, <3>2, <3>3 DEF Retires
  <2> QED BY <2>2, <2>3
<1> HIDE DEF value, worker
<1>5. StepsKept(steps, steps')
  BY <1>2, <1>3 DEF StepsKept, StepOK
<1>6. WorkersKept(workers, workers')
  BY <1>2, <1>4 DEF WorkersKept
<1> QED BY <1>2, <1>5, <1>6, KeptGood

-----------------------------------------------------------------------------
(* The handlers that take workers from steps. *)

LEMMA RemoveWorkersOK ==
    ASSUME NEW ss, \A s \in Steps : StepOK(ss[s]), NEW gone, NEW all \in BOOLEAN
    PROVE  LET ss2 == RemoveWorkersFromSteps(ss, gone, all)
           IN  /\ ss2 \in [Steps -> StepRecords]
               /\ \A s \in Steps :
                     /\ StepOK(ss2[s]) /\ SameRun(ss[s], ss2[s])
                     /\ HeldBy(ss2[s],
                               IF all THEN ss[s].stakeholders \ gone
                                      ELSE ss[s].stakeholders,
                               ss[s].workers \ gone)
<1> DEFINE wks(t) == t.workers \ gone
           stk(t) == IF all THEN t.stakeholders \ gone ELSE t.stakeholders
           without(t, w, k) == [t EXCEPT !.workers = w, !.stakeholders = k]
           value(s) == without(ss[s], wks(ss[s]), stk(ss[s]))
<1>1. RemoveWorkersFromSteps(ss, gone, all) = [s \in Steps |-> value(s)]
  BY DEF RemoveWorkersFromSteps
<1>2. ASSUME NEW t, StepOK(t)
      PROVE  /\ StepOK(without(t, wks(t), stk(t)))
             /\ SameRun(t, without(t, wks(t), stk(t)))
             /\ HeldBy(without(t, wks(t), stk(t)), stk(t), wks(t))
  <2> DEFINE w == wks(t)
             k == stk(t)
             u == without(t, w, k)
  <2>1. w \in SUBSET Workers /\ k \in SUBSET Workers /\ w \subseteq k
        /\ k \subseteq t.stakeholders
    BY <1>2 DEF StepOK, StepRecords
  <2> HIDE DEF w, k
  <2>2. u \in StepRecords
    BY <1>2, <2>1 DEF StepOK, StepRecords
  <2>3. SameRun(t, u) /\ HeldBy(u, k, w)
    BY <1>2 DEF StepOK, StepRecords, SameRun, SameStatus, HeldBy
  <2> HIDE DEF u
  <2>4. StepOK(u)
    BY <1>2, <2>1, <2>2, <2>3 DEF StepOK, SameRun, SameStatus, HeldBy, Timed
  <2> QED BY <2>3, <2>4 DEF u, w, k
<1>3. \A s \in Steps : /\ StepOK(value(s)) /\ SameRun(ss[s], value(s))
                       /\ HeldBy(value(s), stk(ss[s]), wks(ss[s]))
  BY <1>2
<1> HIDE DEF value
<1> QED BY <1>1, <1>3 DEF StepOK

LEMMA DisableWorkerGood ==
    ASSUME IInv, NEW w \in Workers, DisableWorker(w)
    PROVE  Good
<1> DEFINE g == GetWorker(workers, w)
           v == [g EXCEPT !.disabled = TRUE, !.steps = {}, !.removed = {}]
<1>1. /\ TableOK(steps, workers) /\ workers \in [Workers -> WorkerRecords]
      /\ \A s \in Steps : StepOK(steps[s])
  BY DEF IInv, TableOK
<1>2. /\ steps' \in [Steps -> StepRecords]
      /\ \A s \in Steps :
            /\ StepOK(steps'[s]) /\ SameRun(steps[s], steps'[s])
            /\ HeldBy(steps'[s], steps[s].stakeholders, steps[s].workers \ {w})
  BY <1>1, RemoveWorkersOK DEF DisableWorker
<1>3. g \in WorkerRecords
  BY <1>1, GetWorkerOK
<1>4. g.active
  BY <1>1, GetWorkerOK
<1>5. workers' = [workers EXCEPT ![w] = v]
  BY DEF DisableWorker
<1> HIDE DEF g
<1>6. v \in WorkerRecords /\ v.active /\ v.steps = {} /\ v.removed = {}
  BY <1>3, <1>4 DEF WorkerRecords
<1> HIDE DEF v
<1>7. /\ workers' \in [Workers -> WorkerRecords] /\ workers'[w] = v
      /\ \A x \in Workers : x # w => workers'[x] = workers[x]
  BY <1>1, <1>5, <1>6
<1>8. \A s \in Steps : steps'[s].stakeholders \subseteq ActiveWorkers(workers')
  <2>1. ActiveWorkers(workers) \subseteq ActiveWorkers(workers')
    BY <1>6, <1>7 DEF ActiveWorkers
  <2> QED BY <1>1, <1>2, <2>1 DEF TableOK, HeldBy
<1>9. \A s \in Steps, x \in Workers :
         s \in workers'[x].steps <=> x \in steps'[s].workers
  <2>1. \A s \in Steps, x \in Workers : s \in workers[x].steps <=> x \in steps[s].workers
    BY <1>1 DEF TableOK
  <2>2. \A s \in Steps : steps'[s].workers = steps[s].workers \ {w}
    BY <1>2 DEF HeldBy
  <2> QED BY <1>6, <1>7, <2>1, <2>2
<1>10. \A x \in Workers : Retired(workers'[x])
  BY <1>1, <1>6, <1>7 DEF TableOK, Retired
<1>11. TableOK(steps', workers')
  BY <1>2, <1>7, <1>8, <1>9, <1>10 DEF TableOK
<1>12. \A s \in Steps : Respects(steps[s], steps'[s])
  BY <1>2 DEF SameRun, SameStatus, Respects
<1> QED BY <1>11, <1>12 DEF Good, IInv, DisableWorker

\* What inactivate_steps does to a worker.
Pruned(u, v, kept) ==
    /\ u.active = v.active /\ u.disabled = v.disabled
    /\ u.steps = v.steps \cap kept
    /\ v.steps = {} => u.removed = v.removed

LEMMA InactivatedOK ==
    ASSUME NEW ss, \A x \in Steps : StepOK(ss[x]), NEW ord, NEW assistants,
           NEW v \in WorkerRecords, NEW kept \in SUBSET Steps
    PROVE  LET u == Inactivated(ss, ord, assistants, v, kept)
           IN  u \in WorkerRecords /\ Pruned(u, v, kept)
<1> DEFINE u == Inactivated(ss, ord, assistants, v, kept)
           dropped == {RemovedStep(x, Looped(ss, ord, x, assistants)) :
                          x \in v.steps \ kept}
           steps2 == v.steps \cap kept
           removed2 == v.removed \cup dropped
<1>1. v.steps \subseteq Steps /\ v.removed \subseteq RemovedSteps
  BY DEF WorkerRecords
<1>2. \A x \in Steps : RemovedStep(x, Looped(ss, ord, x, assistants)) \in RemovedSteps
  <2>1. ASSUME NEW x \in Steps, NEW t \in StepRecords
        PROVE  RemovedStep(x, t) \in RemovedSteps
    BY DEF RemovedStep, RemovedSteps, StepRecords
  <2> QED BY <2>1, LoopedOK DEF StepOK
<1>3. dropped \subseteq RemovedSteps /\ (v.steps = {} => dropped = {})
  BY <1>1, <1>2
<1>4. u = [v EXCEPT !.steps = steps2, !.removed = removed2]
  BY DEF Inactivated
<1> HIDE DEF u, dropped
<1>5. steps2 \in SUBSET Steps /\ removed2 \in SUBSET RemovedSteps
  BY <1>1, <1>3
<1>6. v.steps = {} => removed2 = v.removed
  BY <1>3
<1> HIDE DEF removed2
<1> QED BY <1>4, <1>5, <1>6 DEF WorkerRecords, Pruned, u

LEMMA PruneGood ==
    ASSUME IInv, Prune
    PROVE  Good
<1> DEFINE gone == TimedOut(workers)
           left == [w \in Workers |-> IF w \in gone THEN NoWorker ELSE workers[w]]
           ss == RemoveWorkersFromSteps(steps, gone, TRUE)
           pruned == PruneSteps(ss, older, Assistants(left))
           kept == Present(pruned)
<1>1. /\ TableOK(steps, workers) /\ workers \in [Workers -> WorkerRecords]
      /\ \A s \in Steps : StepOK(steps[s])
  BY DEF IInv, TableOK
<1>2. /\ steps' = pruned /\ older' = older \cap (kept \X kept)
      /\ workers' = [w \in Workers |->
                        Inactivated(ss, older, Assistants(left), left[w], kept)]
      /\ UNCHANGED <<batchers, limits, paused>>
  BY DEF Prune
<1>3. \A s \in Steps :
         /\ StepOK(ss[s]) /\ SameRun(steps[s], ss[s])
         /\ HeldBy(ss[s], steps[s].stakeholders \ gone, steps[s].workers \ gone)
  BY <1>1, RemoveWorkersOK
<1> HIDE DEF ss
<1>4. pruned = [x \in Steps |-> PrunedStep(ss, older, x, Assistants(left))]
  BY DEF PruneSteps
<1>5. \A s \in Steps :
         /\ StepOK(steps'[s]) /\ Respects(ss[s], steps'[s])
         /\ steps'[s] = NoStep \/ SameHolders(ss[s], steps'[s])
  BY <1>2, <1>3, <1>4, PrunedStepOK
<1>6. steps' \in [Steps -> StepRecords]
  <2>1. \A x \in Steps : PrunedStep(ss, older, x, Assistants(left)) \in StepRecords
    BY <1>3, PrunedStepOK DEF StepOK
  <2> QED BY <1>2, <1>4, <2>1
<1>7. kept \subseteq Steps /\ \A s \in Steps : s \in kept <=> steps'[s].status # Absent
  BY <1>2 DEF Present
<1> HIDE DEF pruned, kept
<1>8. \A s \in Steps : Respects(steps[s], steps'[s])
  BY <1>3, <1>5 DEF SameRun, SameStatus, Respects
<1>9. /\ NoWorker \in WorkerRecords /\ NoWorker.steps = {} /\ ~NoWorker.disabled
      /\ ~NoWorker.active
  BY DEF NoWorker, NewWorker, WorkerRecords
<1>10. left \in [Workers -> WorkerRecords]
  BY <1>1, <1>9
<1>11. /\ workers' \in [Workers -> WorkerRecords]
       /\ \A w \in Workers : Pruned(workers'[w], left[w], kept)
  <2> DEFINE value(w) == Inactivated(ss, older, Assistants(left), left[w], kept)
  <2>1. ASSUME NEW w \in Workers
        PROVE  value(w) \in WorkerRecords /\ Pruned(value(w), left[w], kept)
    <3>1. left[w] \in WorkerRecords
      BY <1>10
    <3> HIDE DEF left
    <3> QED BY <1>3, <1>7, <3>1, InactivatedOK
  <2>2. workers' = [w \in Workers |-> value(w)]
    BY <1>2
  <2> HIDE DEF value
  <2> QED BY <2>1, <2>2
<1>12. \A s \in Steps : steps'[s].stakeholders \subseteq ActiveWorkers(workers')
  <2>1. ActiveWorkers(workers) \ gone \subseteq ActiveWorkers(workers')
    BY <1>11 DEF ActiveWorkers, Pruned
  <2>2. \A s \in Steps : steps'[s].stakeholders \subseteq steps[s].stakeholders \ gone
    BY <1>3, <1>5, NoStepOK DEF SameHolders, HeldBy
  <2> QED BY <1>1, <2>1, <2>2 DEF TableOK
<1>13. \A s \in Steps, w \in Workers :
          s \in workers'[w].steps <=> w \in steps'[s].workers
  <2>1. SUFFICES ASSUME NEW s \in Steps, NEW w \in Workers
                 PROVE  s \in workers'[w].steps <=> w \in steps'[s].workers
    OBVIOUS
  <2>2. s \in workers[w].steps <=> w \in steps[s].workers
    BY <1>1 DEF TableOK
  <2>3. s \in workers'[w].steps <=> s \in left[w].steps /\ s \in kept
    BY <1>11 DEF Pruned
  <2>4. s \in left[w].steps <=> w \notin gone /\ s \in workers[w].steps
    BY <1>9
  <2> HIDE DEF left, gone
  <2>5. CASE s \notin kept
    <3>1. steps'[s].workers = {}
      BY <1>5, <1>7, <2>5 DEF StepOK
    <3> QED BY <2>3, <2>5, <3>1
  <2>6. CASE s \in kept
    <3>1. steps'[s] # NoStep
      BY <1>7, <2>6, NoStepOK
    <3>2. steps'[s].workers = steps[s].workers \ gone
      BY <1>3, <1>5, <3>1 DEF SameHolders, HeldBy
    <3> QED BY <2>2, <2>3, <2>4, <2>6, <3>2
  <2> QED BY <2>5, <2>6
<1>14. \A w \in Workers : Retired(workers'[w])
  <2>1. \A w \in Workers : Retired(left[w])
    BY <1>1, <1>9 DEF TableOK, Retired
  <2> QED BY <1>11, <2>1 DEF Pruned, Retired
<1>15. TableOK(steps', workers')
  BY <1>5, <1>6, <1>11, <1>12, <1>13, <1>14 DEF TableOK
<1>16. older' \subseteq Steps \X Steps
  BY <1>2 DEF IInv
<1> QED BY <1>2, <1>8, <1>15, <1>16 DEF Good, IInv

-----------------------------------------------------------------------------
(* The theorems. *)

LEMMA InitIInv == Init => IInv
<1> SUFFICES ASSUME Init PROVE IInv
  OBVIOUS
<1>1. /\ NoWorker \in WorkerRecords /\ NoWorker.steps = {} /\ ~NoWorker.disabled
  BY DEF NoWorker, NewWorker, WorkerRecords
<1>2. NoStep \in StepRecords
  BY NoStepOK DEF StepOK
<1>3. TableOK(steps, workers)
  BY <1>1, <1>2, NoStepOK DEF Init, TableOK, Retired
<1> QED BY <1>3, ConstantsAssumption DEF ConstantsAssumption, Init, IInv, Amounts

LEMMA NextGood == IInv /\ [Next]_vars => Good
<1> SUFFICES ASSUME IInv, [Next]_vars PROVE Good
  OBVIOUS
<1>0. TableOK(steps, workers)
  BY DEF IInv
<1>1. CASE \E q \in Calls : AddStep(q)
  BY <1>1, AddStepGood
<1>2. CASE \E w \in Workers, assistant \in BOOLEAN, current_steps \in SUBSET Steps,
              work \in SUBSET Steps : GetWork(w, assistant, current_steps, work)
  BY <1>2, GetWorkGood
<1>3. CASE \E w \in Workers : CountPending(w) \/ Ping(w) \/ DisableWorker(w)
  BY <1>3, CountPendingGood, PingGood, DisableWorkerGood
<1>4. CASE \E w \in Workers, n \in Nat : AddWorker(w, n)
  BY <1>4, AddWorkerGood
<1>5. CASE \E w \in Workers, f \in Families : AddStepBatcher(w, f)
  <2>1. PICK w \in Workers, f \in Families : AddStepBatcher(w, f)
    BY <1>5
  <2>2. batchers' \in [Workers -> SUBSET Families]
    BY <2>1 DEF IInv, AddStepBatcher
  <2> QED BY <1>0, <2>1, <2>2 DEF Good, IInv, AddStepBatcher, Respects
<1>6. CASE \E s \in Steps : ForgiveFailures(s) \/ MarkAsDone(s) \/ ReEnableStep(s)
  <2>1. "PENDING" \in RunEndings /\ "DONE" \in RunEndings
    BY DEF RunEndings, Statuses
  <2>2. PICK s \in Steps : ForgiveFailures(s) \/ MarkAsDone(s) \/ ReEnableStep(s)
    BY <1>6
  <2>3. CASE ForgiveFailures(s)
    BY <2>1, <2>3, StatusGood DEF ForgiveFailures
  <2>4. CASE MarkAsDone(s)
    BY <2>1, <2>4, StatusGood DEF MarkAsDone
  <2> QED BY <2>2, <2>3, <2>4, ReEnableStepGood
<1>7. CASE \E s \in Steps, less \in Amounts : DecreaseRunningStepResources(s, less)
  BY <1>7, DecreaseGood
<1>8. CASE \E flag \in BOOLEAN : SetPaused(flag)
  BY <1>0, <1>8 DEF Good, IInv, SetPaused, Respects
<1>9. CASE \E r \in Resources, amount \in Nat : UpdateResource(r, amount)
  <2>1. PICK r \in Resources, amount \in Nat : UpdateResource(r, amount)
    BY <1>9
  <2>2. limits' \in Amounts
    BY <2>1 DEF IInv, UpdateResource, Amounts
  <2> QED BY <1>0, <2>1, <2>2 DEF Good, IInv, UpdateResource, Respects
<1>10. CASE Prune
  BY <1>10, PruneGood
<1>11. CASE Tick
  BY <1>11, TickGood
<1>12. CASE Restart
  <2>1. limits' \in Amounts
    BY <1>12, ConstantsAssumption DEF Restart, Amounts
  <2> QED BY <1>0, <1>12, <2>1 DEF Good, IInv, Restart, Respects
<1>13. CASE UNCHANGED vars
  BY <1>0, <1>13 DEF Good, IInv, vars, Respects
<1> QED BY <1>1, <1>2, <1>3, <1>4, <1>5, <1>6, <1>7, <1>8, <1>9, <1>10, <1>11,
           <1>12, <1>13 DEF Next

\* The invariant of the server, whatever its clients call and in whatever order.
THEOREM Inductive == Spec => []IInv
<1>1. IInv /\ [Next]_vars => IInv'
  BY NextGood DEF Good
<1> QED BY <1>1, InitIInv, PTL DEF Spec

\* Every handler leaves records of the right type.
THEOREM TypesCorrect == Spec => []TypeOK
<1>1. IInv => TypeOK
  BY DEF IInv, TableOK, TypeOK
<1> QED BY <1>1, Inductive, PTL

\* Step.workers and Worker.steps always say the same of every step in the table, so
\* get_steps finds the same of these through either.  (Removed steps, which stay in
\* Worker.steps alone, are the exception in the code and in the model.)
THEOREM IndexesAlwaysAgree == Spec => []IndexesAgree
<1>1. IInv => IndexesAgree
  BY DEF IInv, TableOK, IndexesAgree
<1> QED BY <1>1, Inductive, PTL

\* Nobody who may perform a step has let go of it, and nobody who holds one has
\* been forgotten.
THEOREM HoldersAlwaysActive == Spec => []HoldersAreActive
<1>1. IInv => HoldersAreActive
  BY DEF IInv, TableOK, HoldersAreActive, StepOK
<1> QED BY <1>1, Inductive, PTL

\* No run, batch or failure is left behind that the scheduler could not take
\* back, end or retry.
THEOREM RunsAlwaysReclaimable == Spec => []RunsCanBeReclaimed
<1>1. IInv => RunsCanBeReclaimed
  BY DEF IInv, TableOK, RunsCanBeReclaimed, StepOK, Timed
<1> QED BY <1>1, Inductive, PTL

\* A disabled worker never comes back to a step.
THEOREM DisabledWorkersStayOut == Spec => []DisabledWorkersHaveNoSteps
<1>1. IInv => DisabledWorkersHaveNoSteps
  <2> SUFFICES ASSUME IInv, NEW w \in Workers, workers[w].disabled
               PROVE  /\ workers[w].steps = {} /\ workers[w].removed = {}
                      /\ \A s \in Steps : w \notin steps[s].workers
    BY DEF DisabledWorkersHaveNoSteps
  <2> QED BY DEF IInv, TableOK, Retired
<1> QED BY <1>1, Inductive, PTL

\* No call of a worker ends a disable that the scheduler has imposed.
THEOREM DisableAlwaysRespected == Spec => DisableIsRespected
<1> DEFINE A == \A s \in Steps : DisabledByScheduler(s) =>
                  \/ steps'[s].status \in {"DISABLED", Absent}
                  \/ /\ steps'[s].status \in {"DONE", "FAILED"}
                     /\ steps'[s].failures = NoFailures
                     /\ steps'[s].disable_time = None
<1>1. IInv /\ [Next]_vars => A
  BY NextGood DEF Good, Respects, DisabledByScheduler
<1>2. DisableIsRespected <=> [][A]_vars
  BY PTL DEF DisableIsRespected
<1> HIDE DEF A
<1> QED BY <1>1, <1>2, Inductive, PTL DEF Spec
=============================================================================
