----------------------------- MODULE BatchProofs -----------------------------
(***************************************************************************)
(* Proofs about batches: that the members of a batch which a worker was    *)
(* given have somebody who runs them, or are taken back.                   *)
(***************************************************************************)
EXTENDS ClusterProofs

USE DEF OrNone

-----------------------------------------------------------------------------
(* Batches and their runners. *)

\* The batches get_work may make, and the steps that run them.
Batches == {b \in SUBSET {s \in Steps : IsBatchable(s)} : Cardinality(b) > 1}
Runners == {Runner(b) : b \in Batches}

\* A runner runs one batch only and is not batchable itself, which a batch_method gives
\* whose result is none of the values it combines and tells which ones they were.  With
\* batch_method = max the runner is a member, and of several batches: what follows does not
\* hold of such runners if workers fall silent, and is not proved of them if none do.
RunnersApart ==
    \A b, c \in Batches : ~IsBatchable(Runner(b)) /\ (Runner(b) = Runner(c) => b = c)

LEMMA BatchType ==
    ASSUME RunnersApart, NEW b \in Batches
    PROVE  /\ b \in SUBSET Steps /\ b # {} /\ b \cap Runners = {}
           /\ Runner(b) \in Steps /\ Runner(b) \in Runners
<1>1. b \in SUBSET Steps /\ \A s \in b : IsBatchable(s)
  BY DEF Batches
<1>2. b # {}
  BY FS_EmptySet DEF Batches
<1>3. Runner(b) \in Steps
  BY <1>1, RunnerAssumption DEF RunnerAssumption
<1> QED BY <1>1, <1>2, <1>3 DEF RunnersApart, Runners

\* Whoever has a batch_id belongs to that batch, and a step that is BATCH_RUNNING is a
\* member of it.  Nobody waits for a runner.
OfBatch(s, t) ==
    /\ t.batch_id # {} => /\ t.batch_id \in Batches
                          /\ s \in t.batch_id \/ s = Runner(t.batch_id)
    /\ t.status = "BATCH_RUNNING" => s \in t.batch_id
    /\ t.batchable => IsBatchable(s)
    /\ t.deps \cap Runners = {}

\* A runner is not removed while it runs, nor when it may be handed out: what has failed
\* in a batch is to be removed at once.
Stays(t) ==
    /\ t.stakeholders # {} => t.remove = None \/ (t.remove = 0 /\ t.status # "PENDING")
    /\ t.status = "RUNNING" => t.remove = None

Sound(s, t) == StepOK(t) /\ OfBatch(s, t) /\ (s \in Runners => Stays(t))
AllSound(ss) == \A s \in Steps : Sound(s, ss[s])

\* The runner of batch b is RUNNING with it; t runs on w for batch b.
Drives(ss, b) == ss[Runner(b)].status = "RUNNING" /\ ss[Runner(b)].batch_id = b
RunsFor(t, b, w) == t.status = "RUNNING" /\ t.batch_id = b /\ t.worker_running = w

\* Member m of a batch was one before and has not lost its runner, and what runs for the
\* batch did so before unless it is the runner.
Follows(ss, ss2, m) ==
    LET b == ss2[m].batch_id
        w == ss2[m].worker_running
    IN  /\ ss[m].status = "BATCH_RUNNING" /\ ss[m].batch_id = b /\ ss[m].worker_running = w
        /\ Drives(ss, b) => Drives(ss2, b)
        /\ \A x \in Steps : RunsFor(ss2[x], b, w) => RunsFor(ss[x], b, w) \/ Drives(ss2, b)

Moves(ss, ss2) ==
    \A m \in Steps : ss2[m].status = "BATCH_RUNNING" => Follows(ss, ss2, m)

LEMMA MovesTrans ==
    ASSUME NEW ss1, NEW ss2, NEW ss3, Moves(ss1, ss2), Moves(ss2, ss3)
    PROVE  Moves(ss1, ss3)
<1> SUFFICES ASSUME NEW m \in Steps, ss3[m].status = "BATCH_RUNNING"
             PROVE  Follows(ss1, ss3, m)
  BY DEF Moves
<1>1. Follows(ss2, ss3, m)
  BY DEF Moves
<1>2. ss2[m].status = "BATCH_RUNNING"
  BY <1>1 DEF Follows
<1>3. Follows(ss1, ss2, m)
  BY <1>2 DEF Moves
<1> QED BY <1>1, <1>3 DEF Follows

\* The step has not begun to run or to be in a batch, and has not ceased to.
Unmoved(t, u) ==
    t.status \in ActiveStatuses \/ u.status \in ActiveStatuses =>
        /\ u.status = t.status /\ u.batch_id = t.batch_id
        /\ u.worker_running = t.worker_running

LEMMA UnmovedMoves ==
    ASSUME RunnersApart, NEW ss, NEW ss2, AllSound(ss),
           \A x \in Steps : Unmoved(ss[x], ss2[x])
    PROVE  Moves(ss, ss2)
<1> SUFFICES ASSUME NEW m \in Steps, ss2[m].status = "BATCH_RUNNING"
             PROVE  Follows(ss, ss2, m)
  BY DEF Moves
<1>1. ss[m].status = "BATCH_RUNNING" /\ ss[m].batch_id = ss2[m].batch_id
      /\ ss[m].worker_running = ss2[m].worker_running
  BY DEF Unmoved, ActiveStatuses
<1>2. ss2[m].batch_id \in Batches
  BY <1>1 DEF AllSound, Sound, StepOK, OfBatch
<1>3. Runner(ss2[m].batch_id) \in Steps
  BY <1>2, BatchType
<1> QED BY <1>1, <1>3 DEF Follows, Drives, RunsFor, Unmoved, ActiveStatuses

-----------------------------------------------------------------------------
(* set_status. *)

\* The attributes of a record that set_status leaves alone.
SameRest(t, u) ==
    u.batchable = t.batchable /\ u.deps = t.deps /\ u.priority = t.priority

LEMMA SetOwnStatusRest ==
    ASSUME NEW t \in StepRecords, NEW new \in Statuses
    PROVE  LET u == SetOwnStatus(t, new)
           IN  /\ SameRest(t, u)
               /\ u.remove = t.remove \/ (u.remove = 0 /\ u.status = "FAILED")
               /\ u.status \in {t.status, new} \/ new = "FAILED"
               /\ t.status \in ActiveStatuses /\ new = "DISABLED" => u = t
<1>1. PICK d : d = ClearFailures(t)
  OBVIOUS
<1>2. PICK c : c = [d EXCEPT !.disable_time = None]
  OBVIOUS
<1>3. PICK cleared : cleared = IF t.status = "DISABLED" /\ new = "DONE" THEN c ELSE t
  OBVIOUS
<1>4. d \in StepRecords /\ SameRest(t, d) /\ d.remove = t.remove
  <2>1. SameRest(t, d) /\ d.remove = t.remove
    BY <1>1 DEF ClearFailures, StepRecords, SameRest
  <2> QED BY <1>1, <2>1, ClearFailuresType
<1>5. c \in StepRecords
  BY <1>2, <1>4 DEF StepRecords
<1>6. SameRest(d, c) /\ c.remove = d.remove
  BY <1>2, <1>4 DEF StepRecords, SameRest
<1>7. cleared \in StepRecords /\ SameRest(t, cleared) /\ cleared.remove = t.remove
  BY <1>3, <1>4, <1>5, <1>6 DEF SameRest
<1>8. PICK f : f = IF new = "FAILED" /\ t.status # "DISABLED"
                   THEN AddFailure(cleared) ELSE cleared
  OBVIOUS
<1>9. PICK failures, first :
          AddFailure(cleared) = [cleared EXCEPT !.failures = failures, !.first_failure = first]
  BY Zenon DEF AddFailure
<1>10. /\ AddFailure(cleared) \in StepRecords /\ SameRest(cleared, AddFailure(cleared))
       /\ AddFailure(cleared).remove = cleared.remove
  <2>1. SameRest(cleared, AddFailure(cleared)) /\ AddFailure(cleared).remove = cleared.remove
    BY <1>7, <1>9 DEF StepRecords, SameRest
  <2> QED BY <1>7, <2>1, AddFailureType
<1>11. f \in StepRecords /\ SameRest(t, f) /\ f.remove = t.remove
  BY <1>7, <1>8, <1>10 DEF SameRest
<1>12. PICK stored : stored = StatusStored(f, t.status, new)
  OBVIOUS
<1>13. PICK updated : updated = IF stored # t.status THEN 0 ELSE f.updated
  OBVIOUS
<1>14. PICK disabled : disabled = IF stored # "DISABLED" THEN f.disable_time
                                  ELSE IF new = "FAILED" THEN 0 ELSE None
  OBVIOUS
<1>15. PICK retry : retry = IF stored = "FAILED" THEN RetryDelay + 1 ELSE f.retry
  OBVIOUS
<1>16. PICK remove : remove = IF stored = "FAILED" /\ (t.batch_id # {} /\ ~t.batchable)
                              THEN 0 ELSE f.remove
  OBVIOUS
<1>17. PICK v : v = Stored(f, stored, updated, disabled, retry, remove)
  OBVIOUS
<1>18. SetOwnStatus(t, new) = IF RefusesStatus(t, new) THEN t ELSE v
  BY <1>1, <1>2, <1>3, <1>8, <1>12, <1>13, <1>14, <1>15, <1>16, <1>17 DEF SetOwnStatus, Stored
<1>19. SameRest(f, v) /\ v.remove = remove /\ v.status = stored
  BY <1>11, <1>17 DEF StepRecords, Stored, SameRest
<1>20. stored \in {new, "DISABLED"} /\ (new # "FAILED" => stored = new)
  BY <1>12 DEF StatusStored
<1>21. t.status \in ActiveStatuses /\ new = "DISABLED" => RefusesStatus(t, new)
  BY DEF RefusesStatus
<1> QED BY <1>11, <1>16, <1>18, <1>19, <1>20, <1>21 DEF SameRest

\* A member whose batch ends, or a runner.
LEMMA EndMemberRest ==
    ASSUME NEW t, StepOK(t), t.status \in ActiveStatuses, NEW new \in RunEndings
    PROVE  LET u == EndMember(t, new)
           IN  /\ SameRest(t, u) /\ u.batch_id = {} /\ u.worker_running = t.worker_running
               /\ u.remove = t.remove \/ (u.remove = 0 /\ u.status = "FAILED")
               /\ u.status \in {new, "DISABLED"}
<1>1. PICK v : v = SetOwnStatus(t, new)
  OBVIOUS
<1>2. t \in StepRecords /\ new \in Statuses /\ new # "DISABLED"
  BY DEF StepOK, RunEndings
<1>3. v \in StepRecords /\ Changes(t, v, new)
  BY <1>1, <1>2, SetOwnStatusType
<1>4. SameRest(t, v) /\ (v.remove = t.remove \/ (v.remove = 0 /\ v.status = "FAILED"))
  BY <1>1, <1>2, SetOwnStatusRest
<1>5. PICK u : u = [v EXCEPT !.batch_id = {}]
  OBVIOUS
<1>6. /\ SameRest(v, u) /\ u.batch_id = {} /\ u.worker_running = v.worker_running
      /\ u.remove = v.remove /\ u.status = v.status
  BY <1>3, <1>5 DEF StepRecords, SameRest
<1>7. EndMember(t, new) = u
  BY <1>1, <1>5 DEF EndMember
<1>8. v.worker_running = t.worker_running /\ v.status \in {new, "DISABLED"}
  BY <1>2, <1>3 DEF Changes
<1> QED BY <1>4, <1>6, <1>7, <1>8 DEF SameRest

LEMMA SetStatusSound ==
    ASSUME RunnersApart, NEW ss, AllSound(ss), NEW s \in Steps,
           NEW new \in Statuses \ {"BATCH_RUNNING"},
           new \in {"PENDING", "RUNNING"} => ss[s].remove = None,
           new = "RUNNING" => /\ ss[s].worker_running # None
                              /\ ss[s].batch_id # {} /\ s = Runner(ss[s].batch_id),
           NEW ss2, ss2 = SetStatus(ss, s, new)
    PROVE  /\ AllSound(ss2) /\ Moves(ss, ss2)
           /\ ss2[s].remove = ss[s].remove \/ (ss2[s].remove = 0 /\ ss2[s].status = "FAILED")
<1> DEFINE ends == EndsBatch(ss[s], new)
           ended == IF ends THEN BatchRunningSteps(ss, ss[s].batch_id) ELSE {}
<1>1. \A x \in Steps : ss2[x] = CASE x \in ended -> EndMember(ss[x], new)
                                  [] x = s /\ ends -> EndMember(ss[s], new)
                                  [] x = s /\ ~ends -> SetOwnStatus(ss[s], new)
                                  [] OTHER -> ss[x]
  BY DEF SetStatus
<1>2. /\ ends => new \in RunEndings /\ ss[s].status = "RUNNING" /\ ss[s].batch_id # {}
      /\ \A x \in ended : /\ ends /\ x \in Steps /\ ss[x].status = "BATCH_RUNNING"
                          /\ ss[x].batch_id = ss[s].batch_id
      /\ \A x \in Steps : ends /\ ss[x].status = "BATCH_RUNNING"
                             /\ ss[x].batch_id = ss[s].batch_id => x \in ended
      /\ ~ends /\ ss[s].status = "RUNNING" /\ ss[s].batch_id # {} =>
             new \in {"RUNNING", "DISABLED"}
      /\ s \notin ended
  BY DEF EndsBatch, RunEndings, BatchRunningSteps
<1> HIDE DEF ends, ended
<1>3. \A x \in Steps : StepOK(ss[x]) /\ OfBatch(x, ss[x]) /\ (x \in Runners => Stays(ss[x]))
  BY DEF AllSound, Sound
<1>4. \A x \in Steps : StepOK(ss2[x]) /\ SameHolders(ss[x], ss2[x])
  <2>1. \A x \in Steps : /\ StepOK(SetStatus(ss, s, new)[x])
                         /\ SameHolders(ss[x], SetStatus(ss, s, new)[x])
    BY <1>3, SetStatusOK
  <2> QED BY <2>1
<1>5. ASSUME NEW x \in ended
      PROVE  /\ ss2[x].status \notin ActiveStatuses /\ OfBatch(x, ss2[x]) /\ x \notin Runners
  <2>1. x \in Steps /\ ss[x].status = "BATCH_RUNNING" /\ new \in RunEndings
    BY <1>2
  <2>2. ss2[x] = EndMember(ss[x], new)
    BY <1>1, <1>2, <1>5, <2>1
  <2>3. ss[x].status \in ActiveStatuses
    BY <2>1 DEF ActiveStatuses
  <2>4. /\ SameRest(ss[x], ss2[x]) /\ ss2[x].batch_id = {}
        /\ ss2[x].status \in {new, "DISABLED"}
    BY <1>3, <2>1, <2>2, <2>3, EndMemberRest
  <2>5. x \notin Runners
    <3>1. x \in ss[x].batch_id /\ ss[x].batch_id \in Batches
      BY <1>3, <2>1 DEF OfBatch, StepOK
    <3> QED BY <3>1, BatchType
  <2>6. ss2[x].status \notin ActiveStatuses
    BY <2>1, <2>4 DEF RunEndings, ActiveStatuses
  <2> QED BY <1>3, <2>1, <2>4, <2>5, <2>6 DEF OfBatch, SameRest, ActiveStatuses
<1>6. /\ OfBatch(s, ss2[s]) /\ (s \in Runners => Stays(ss2[s]))
      /\ ss2[s].remove = ss[s].remove \/ (ss2[s].remove = 0 /\ ss2[s].status = "FAILED")
      /\ IF ends THEN ss2[s].status \notin ActiveStatuses
         ELSE /\ ss2[s].batch_id = ss[s].batch_id
              /\ ss2[s].worker_running = ss[s].worker_running
              /\ ss2[s].status = "BATCH_RUNNING" => ss[s].status = "BATCH_RUNNING"
              /\ ss2[s].status = "RUNNING" => ss[s].status = "RUNNING" \/ new = "RUNNING"
              /\ ss[s].status = "RUNNING" /\ ss[s].batch_id # {} => ss2[s].status = "RUNNING"
  <2>1. CASE ends
    <3>1. ss[s].status = "RUNNING" /\ new \in RunEndings /\ ss[s].status \in ActiveStatuses
      BY <1>2, <2>1 DEF ActiveStatuses
    <3>2. ss2[s] = EndMember(ss[s], new)
      BY <1>1, <1>2, <2>1
    <3>3. /\ SameRest(ss[s], ss2[s]) /\ ss2[s].batch_id = {}
          /\ ss2[s].remove = ss[s].remove \/ (ss2[s].remove = 0 /\ ss2[s].status = "FAILED")
          /\ ss2[s].status \in {new, "DISABLED"}
      BY <1>3, <3>1, <3>2, EndMemberRest
    <3>4. ss2[s].status \notin ActiveStatuses
      BY <3>1, <3>3 DEF RunEndings, ActiveStatuses
    <3>5. OfBatch(s, ss2[s])
      BY <1>3, <3>3, <3>4 DEF OfBatch, SameRest, ActiveStatuses
    <3>6. s \in Runners => Stays(ss2[s])
      BY <1>3, <3>1, <3>3, <3>4 DEF Stays, ActiveStatuses
    <3> QED BY <2>1, <3>3, <3>4, <3>5, <3>6
  <2>2. CASE ~ends
    <3>1. ss2[s] = SetOwnStatus(ss[s], new) /\ ss[s] \in StepRecords /\ new \in Statuses
      BY <1>1, <1>2, <1>3, <2>2 DEF StepOK
    <3>2. Changes(ss[s], ss2[s], new)
      BY <3>1, SetOwnStatusType
    <3>3. /\ SameRest(ss[s], ss2[s])
          /\ ss2[s].remove = ss[s].remove \/ (ss2[s].remove = 0 /\ ss2[s].status = "FAILED")
          /\ ss2[s].status \in {ss[s].status, new} \/ new = "FAILED"
          /\ ss[s].status \in ActiveStatuses /\ new = "DISABLED" => ss2[s] = ss[s]
      BY <3>1, SetOwnStatusRest
    <3>4. /\ ss2[s].batch_id = ss[s].batch_id /\ ss2[s].worker_running = ss[s].worker_running
          /\ ss2[s].status \in {ss[s].status, new, "DISABLED"}
          /\ ss2[s].stakeholders = ss[s].stakeholders
      BY <3>2 DEF Changes, SameHolders
    <3>5. OfBatch(s, ss2[s])
      BY <1>3, <3>3, <3>4 DEF OfBatch, SameRest
    <3>6. s \in Runners => Stays(ss2[s])
      BY <1>3, <3>3, <3>4 DEF Stays
    <3>7. ss[s].status = "RUNNING" /\ ss[s].batch_id # {} => ss2[s].status = "RUNNING"
      BY <1>2, <2>2, <3>3 DEF ActiveStatuses
    <3> QED BY <2>2, <3>3, <3>4, <3>5, <3>6, <3>7
  <2> QED BY <2>1, <2>2
<1>7. \A x \in Steps : x \notin ended /\ x # s => ss2[x] = ss[x]
  BY <1>1
<1>8. AllSound(ss2)
  BY <1>2, <1>3, <1>4, <1>5, <1>6, <1>7 DEF AllSound, Sound
<1>9. ASSUME NEW m \in Steps, ss2[m].status = "BATCH_RUNNING"
      PROVE  Follows(ss, ss2, m)
  <2>1. /\ m \notin ended /\ (m = s => ~ends) /\ ss[m].status = "BATCH_RUNNING"
        /\ ss2[m].batch_id = ss[m].batch_id /\ ss2[m].worker_running = ss[m].worker_running
    BY <1>5, <1>6, <1>7, <1>9 DEF ActiveStatuses
  <2>2. PICK b : b = ss2[m].batch_id
    OBVIOUS
  <2>3. b # {} /\ b \in Batches /\ Runner(b) \in Steps
    BY <1>3, <2>1, <2>2, BatchType DEF StepOK, OfBatch
  <2>4. Drives(ss, b) => Drives(ss2, b)
    <3> SUFFICES ASSUME Drives(ss, b) PROVE Drives(ss2, b)
      OBVIOUS
    <3>1. ss[Runner(b)].status = "RUNNING" /\ ss[Runner(b)].batch_id = b
      BY DEF Drives
    <3>2. Runner(b) \notin ended
      BY <1>2, <3>1
    <3>3. Runner(b) = s => ~ends
      BY <1>2, <2>1, <2>2, <3>1
    <3> QED BY <1>6, <1>7, <2>3, <3>1, <3>2, <3>3 DEF Drives
  <2>5. ASSUME NEW x \in Steps, RunsFor(ss2[x], b, ss2[m].worker_running)
        PROVE  RunsFor(ss[x], b, ss2[m].worker_running) \/ Drives(ss2, b)
    <3>1. ss2[x].status = "RUNNING" /\ ss2[x].batch_id = b
      BY <2>5 DEF RunsFor
    <3>2. x \notin ended /\ (x = s => ~ends)
      BY <1>5, <1>6, <3>1 DEF ActiveStatuses
    <3>3. CASE x = s /\ ss[s].status # "RUNNING"
      BY <1>6, <3>1, <3>2, <3>3 DEF Drives
    <3>4. CASE x = s /\ ss[s].status = "RUNNING"
      BY <1>6, <2>5, <3>2, <3>4 DEF RunsFor
    <3>5. CASE x # s
      BY <1>7, <2>5, <3>2, <3>5
    <3> QED BY <3>3, <3>4, <3>5
  <2> QED BY <2>1, <2>2, <2>4, <2>5 DEF Follows
<1> QED BY <1>6, <1>8, <1>9 DEF Moves

-----------------------------------------------------------------------------
(* prune. *)

LEMMA ClearFailuresRest ==
    ASSUME NEW t \in StepRecords
    PROVE  SameRest(t, ClearFailures(t)) /\ ClearFailures(t).remove = t.remove
BY DEF ClearFailures, StepRecords, SameRest

LEMMA ReEnableRest ==
    ASSUME NEW t, StepOK(t), t.status = "DISABLED"
    PROVE  LET u == ReEnable(t)
           IN  /\ SameRest(t, u) /\ u.batch_id = t.batch_id
               /\ u.worker_running = t.worker_running /\ u.status \in {"FAILED", "DISABLED"}
               /\ u.remove = t.remove \/ (u.remove = 0 /\ u.status = "FAILED")
<1>1. PICK c : c = ClearFailures(t)
  OBVIOUS
<1>2. PICK e : e = [c EXCEPT !.disable_time = None]
  OBVIOUS
<1>3. PICK v : v = SetOwnStatus(e, "FAILED")
  OBVIOUS
<1>4. PICK u : u = ClearFailures(v)
  OBVIOUS
<1>5. u = ReEnable(t)
  BY <1>1, <1>2, <1>3, <1>4 DEF ReEnable
<1>6. /\ c \in StepRecords /\ SameRest(t, c) /\ c.remove = t.remove /\ c.batch_id = t.batch_id
      /\ c.worker_running = t.worker_running /\ c.status = "DISABLED"
  BY <1>1, ClearFailuresType, ClearFailuresRest DEF StepOK
<1>7. e \in StepRecords
  BY <1>2, <1>6 DEF StepRecords
<1>8. /\ SameRest(c, e) /\ e.remove = c.remove /\ e.batch_id = c.batch_id
      /\ e.worker_running = c.worker_running /\ e.status = "DISABLED"
  BY <1>2, <1>6 DEF StepRecords, SameRest
<1>9. "FAILED" \in Statuses
  BY DEF Statuses
<1>10. v \in StepRecords /\ Changes(e, v, "FAILED")
  BY <1>3, <1>7, <1>9, SetOwnStatusType
<1>11. SameRest(e, v) /\ (v.remove = e.remove \/ (v.remove = 0 /\ v.status = "FAILED"))
  BY <1>3, <1>7, <1>9, SetOwnStatusRest
<1>12. /\ SameRest(v, u) /\ u.remove = v.remove /\ u.batch_id = v.batch_id
       /\ u.worker_running = v.worker_running /\ u.status = v.status
  BY <1>4, <1>10, ClearFailuresType, ClearFailuresRest
<1>13. /\ v.worker_running = e.worker_running /\ v.batch_id = e.batch_id
       /\ v.status \in {"FAILED", "DISABLED"}
  BY <1>8, <1>10 DEF Changes
<1> QED BY <1>5, <1>6, <1>8, <1>11, <1>12, <1>13 DEF SameRest

LEMMA UpdateStatusRest ==
    ASSUME NEW t, StepOK(t)
    PROVE  LET u == UpdateStatus(t)
           IN  /\ SameRest(t, u) /\ u.batch_id = t.batch_id
               /\ u.worker_running = t.worker_running
               /\ \/ MayPrune(u) /\ t.status \in {"FAILED", "DISABLED"}
                  \/ u.remove = IF t.stakeholders = {} /\ t.remove = None /\ t.status # "RUNNING"
                                THEN RemoveDelay ELSE t.remove
               /\ u.status \in {t.status, "PENDING", "FAILED", "DISABLED"}
               /\ t.status \notin {"FAILED", "DISABLED"} => u.status = t.status
<1>1. PICK remove : remove = IF t.stakeholders = {} /\ t.remove = None /\ t.status # "RUNNING"
                             THEN RemoveDelay ELSE t.remove
  OBVIOUS
<1>2. remove \in OrNone(Nat)
  BY <1>1, TimingAssumption DEF TimingAssumption, StepOK, StepRecords
<1>3. PICK marked : marked = [t EXCEPT !.remove = remove]
  OBVIOUS
<1>4. /\ marked \in StepRecords /\ SameHolders(t, marked) /\ SameStatus(t, marked)
      /\ marked.retry = t.retry /\ marked.batch_id = t.batch_id
      /\ marked.worker_running = t.worker_running
  BY <1>2, <1>3 DEF StepOK, StepRecords, SameHolders, SameStatus
<1>5. marked.remove = remove /\ SameRest(t, marked)
  BY <1>3 DEF StepOK, StepRecords, SameRest
<1>6. StepOK(marked) /\ marked.status = t.status
  BY <1>4, <1>5 DEF StepOK, SameHolders, SameStatus, Timed
<1>7. PICK enabled : enabled = IF /\ t.status = "DISABLED" /\ t.disable_time # None
                                  /\ t.disable_time > DisablePersist
                               THEN ReEnable(marked) ELSE marked
  OBVIOUS
<1>8. /\ StepOK(enabled) /\ SameRest(t, enabled) /\ enabled.batch_id = t.batch_id
      /\ enabled.worker_running = t.worker_running
      /\ enabled.remove = remove \/ (enabled.remove = 0 /\ t.status = "DISABLED")
      /\ enabled.status \in {t.status, "FAILED", "DISABLED"}
      /\ t.status # "DISABLED" => enabled.status = t.status
  <2>1. CASE t.status = "DISABLED" /\ enabled = ReEnable(marked)
    <3>1. StepOK(enabled)
      BY <1>6, <2>1, ReEnableOK
    <3>2. /\ SameRest(marked, enabled) /\ enabled.batch_id = marked.batch_id
          /\ enabled.worker_running = marked.worker_running
          /\ enabled.status \in {"FAILED", "DISABLED"}
          /\ enabled.remove = marked.remove \/ (enabled.remove = 0 /\ enabled.status = "FAILED")
      BY <1>6, <2>1, ReEnableRest
    <3> QED BY <1>4, <1>5, <2>1, <3>1, <3>2 DEF SameRest
  <2>2. CASE enabled = marked
    BY <1>4, <1>5, <1>6, <2>2
  <2> QED BY <1>7, <2>1, <2>2
<1>9. PICK u : u = IF enabled.status = "FAILED" /\ enabled.retry = 0
                   THEN SetOwnStatus(enabled, "PENDING") ELSE enabled
  OBVIOUS
<1>10. u = UpdateStatus(t)
  BY <1>1, <1>3, <1>7, <1>9 DEF UpdateStatus
<1>11. /\ SameRest(t, u) /\ u.batch_id = t.batch_id /\ u.worker_running = t.worker_running
       /\ u.remove = remove \/ (u.remove = 0 /\ t.status \in {"FAILED", "DISABLED"})
       /\ u.status \in {t.status, "PENDING", "FAILED", "DISABLED"}
       /\ t.status \notin {"FAILED", "DISABLED"} => u.status = t.status
  <2>1. CASE enabled.status = "FAILED" /\ u = SetOwnStatus(enabled, "PENDING")
    <3>1. "PENDING" \in Statuses /\ enabled \in StepRecords
      BY <1>8 DEF Statuses, StepOK
    <3>2. Changes(enabled, u, "PENDING")
      BY <2>1, <3>1, SetOwnStatusType
    <3>3. SameRest(enabled, u) /\ (u.remove = enabled.remove \/ u.remove = 0)
      BY <2>1, <3>1, SetOwnStatusRest
    <3> QED BY <1>8, <2>1, <3>2, <3>3 DEF SameRest, Changes
  <2>2. CASE u = enabled
    BY <1>8, <2>2
  <2> QED BY <1>9, <2>1, <2>2
<1> QED BY <1>1, <1>10, <1>11 DEF MayPrune

LEMMA FailDeadWorkerStepRest ==
    ASSUME NEW t, StepOK(t), t.status \in ActiveStatuses
    PROVE  LET u == FailDeadWorkerStep(t)
           IN  /\ SameRest(t, u) /\ u.status \in {"FAILED", "DISABLED"}
               /\ u.batch_id \in {t.batch_id, {}}
               /\ u.remove = t.remove \/ (u.remove = 0 /\ u.status = "FAILED")
<1>1. PICK o : o = [t EXCEPT !.worker_running = None]
  OBVIOUS
<1>2. o \in StepRecords /\ o.status = t.status /\ o.batch_id = t.batch_id
  BY <1>1 DEF StepOK, StepRecords
<1>3. SameRest(t, o) /\ o.remove = t.remove
  BY <1>1 DEF StepOK, StepRecords, SameRest
<1>4. PICK v : v = SetOwnStatus(o, "FAILED")
  OBVIOUS
<1>5. "FAILED" \in Statuses
  BY DEF Statuses
<1>6. v \in StepRecords /\ Changes(o, v, "FAILED")
  BY <1>2, <1>4, <1>5, SetOwnStatusType
<1>7. SameRest(o, v) /\ (v.remove = o.remove \/ (v.remove = 0 /\ v.status = "FAILED"))
  BY <1>2, <1>4, <1>5, SetOwnStatusRest
<1>8. v.batch_id = o.batch_id /\ v.status \in {"FAILED", "DISABLED"}
  BY <1>2, <1>6 DEF Changes
<1>9. PICK e : e = [v EXCEPT !.batch_id = {}]
  OBVIOUS
<1>10. /\ e \in StepRecords
       /\ SameRest(v, e) /\ e.remove = v.remove /\ e.status = v.status /\ e.batch_id = {}
  BY <1>6, <1>9 DEF StepRecords, SameRest
<1>11. PICK failed : failed = IF EndsBatch(t, "FAILED") THEN e ELSE v
  OBVIOUS
<1>12. /\ failed \in StepRecords /\ SameRest(t, failed)
       /\ failed.status \in {"FAILED", "DISABLED"} /\ failed.batch_id \in {t.batch_id, {}}
       /\ failed.remove = t.remove \/ (failed.remove = 0 /\ failed.status = "FAILED")
  BY <1>2, <1>3, <1>6, <1>7, <1>8, <1>10, <1>11 DEF SameRest
<1>13. PICK u : u = [failed EXCEPT !.retry = RetryDelay + 1]
  OBVIOUS
<1>14. u = FailDeadWorkerStep(t)
  BY <1>1, <1>4, <1>9, <1>11, <1>13 DEF FailDeadWorkerStep, EndMember
<1>15. /\ SameRest(failed, u) /\ u.status = failed.status /\ u.batch_id = failed.batch_id
       /\ u.remove = failed.remove
  BY <1>12, <1>13 DEF StepRecords, SameRest
<1> QED BY <1>12, <1>14, <1>15 DEF SameRest

LEMMA NoStepSound ==
    ASSUME NEW s PROVE Sound(s, NoStep)
<1>1. /\ NoStep.batch_id = {} /\ NoStep.batchable = FALSE /\ NoStep.deps = {}
      /\ NoStep.stakeholders = {} /\ NoStep.status = Absent
  BY DEF NoStep, NewStep
<1> QED BY <1>1, NoStepOK DEF Sound, OfBatch, Stays, Absent

\* _prune_steps on a table whose holders that are gone have been taken out.
LEMMA PrunedStepSound ==
    ASSUME RunnersApart, NEW ss, AllSound(ss), NEW ord, NEW assistants, NEW x \in Steps
    PROVE  LET t == ss[x]
               u == PrunedStep(ss, ord, x, assistants)
           IN  /\ Sound(x, u)
               /\ u.status = "BATCH_RUNNING" =>
                      t.status = "BATCH_RUNNING" /\ DeadRunnersOf(ss, x, assistants) = {}
               /\ u.status \in ActiveStatuses => Unmoved(t, u)
               /\ t.status = "RUNNING" /\ t.remove = None /\ ~HasDeadWorker(t, assistants)
                      => Unmoved(t, u)
<1>1. PICK t : t = ss[x]
  OBVIOUS
<1>2. PICK earlier : earlier = {r \in DeadRunnersOf(ss, x, assistants) : <<r, x>> \in ord}
  OBVIOUS
<1>3. PICK f : f = CASE earlier # {} -> EndMember(t, "FAILED")
                     [] earlier = {} /\ HasDeadWorker(t, assistants) -> FailDeadWorkerStep(t)
                     [] OTHER -> t
  OBVIOUS
<1>4. PICK v : v = UpdateStatus(f)
  OBVIOUS
<1>5. v = Visited(ss, ord, x, assistants)
  BY <1>1, <1>2, <1>3, <1>4 DEF Visited
<1>6. PICK failing : failing = (v.status = "BATCH_RUNNING" /\ DeadRunnersOf(ss, x, assistants) # {})
  OBVIOUS
<1>7. PICK u : u = PrunedStep(ss, ord, x, assistants)
  OBVIOUS
<1>8. u = IF t.status = Absent \/ MayPrune(v) THEN NoStep
          ELSE IF failing THEN EndMember(v, "FAILED") ELSE v
  BY <1>1, <1>5, <1>6, <1>7 DEF PrunedStep, Looped
<1>9. StepOK(t) /\ OfBatch(x, t) /\ (x \in Runners => Stays(t))
  BY <1>1 DEF AllSound, Sound
<1>10. DeadRunnersOf(ss, x, assistants) # {} => t.status = "BATCH_RUNNING"
  BY <1>1 DEF DeadRunnersOf, BatchRunningSteps
<1>11. "FAILED" \in RunEndings
  BY DEF RunEndings, Statuses
<1>12. t.status = "BATCH_RUNNING" => x \notin Runners
  <2>1. t.status = "BATCH_RUNNING" => x \in t.batch_id /\ t.batch_id \in Batches
    BY <1>9 DEF OfBatch, StepOK
  <2> QED BY <2>1, BatchType
<1>13. /\ StepOK(f) /\ SameHolders(t, f) /\ SameRest(t, f)
       /\ \/ f = t /\ ~HasDeadWorker(t, assistants)
          \/ f = t /\ earlier # {}
          \/ /\ t.status = "BATCH_RUNNING" \/ HasDeadWorker(t, assistants)
             /\ f.status \in {"FAILED", "DISABLED"} /\ f.batch_id \in {t.batch_id, {}}
             /\ f.remove = t.remove \/ (f.remove = 0 /\ f.status = "FAILED")
  <2>1. CASE earlier # {}
    <3>1. t.status = "BATCH_RUNNING" /\ t.status \in ActiveStatuses
      BY <1>2, <1>10, <2>1 DEF ActiveStatuses
    <3>2. f = EndMember(t, "FAILED")
      BY <1>3, <2>1
    <3>3. StepOK(f) /\ SameHolders(t, f)
      BY <1>9, <1>11, <3>1, <3>2, EndMemberKeeps
    <3>4. /\ SameRest(t, f) /\ f.batch_id = {}
          /\ f.remove = t.remove \/ (f.remove = 0 /\ f.status = "FAILED")
          /\ f.status \in {"FAILED", "DISABLED"}
      BY <1>9, <1>11, <3>1, <3>2, EndMemberRest
    <3> QED BY <3>1, <3>3, <3>4
  <2>2. CASE earlier = {} /\ HasDeadWorker(t, assistants)
    <3>1. f = FailDeadWorkerStep(t) /\ t.status \in ActiveStatuses
      BY <1>3, <2>2 DEF HasDeadWorker
    <3>2. StepOK(f) /\ SameHolders(t, f)
      BY <1>9, <3>1, FailDeadWorkerStepOK
    <3>3. /\ SameRest(t, f) /\ f.status \in {"FAILED", "DISABLED"}
          /\ f.batch_id \in {t.batch_id, {}}
          /\ f.remove = t.remove \/ (f.remove = 0 /\ f.status = "FAILED")
      BY <1>9, <3>1, FailDeadWorkerStepRest
    <3> QED BY <2>2, <3>2, <3>3
  <2>3. CASE earlier = {} /\ ~HasDeadWorker(t, assistants)
    <3>1. f = t
      BY <1>3, <2>3
    <3> QED BY <1>9, <2>3, <3>1 DEF SameHolders, SameRest
  <2> QED BY <2>1, <2>2, <2>3
<1>14. StepOK(v) /\ SameHolders(f, v)
  BY <1>4, <1>13, UpdateStatusOK
<1>15. /\ SameRest(f, v) /\ v.batch_id = f.batch_id /\ v.worker_running = f.worker_running
       /\ \/ MayPrune(v) /\ f.status \in {"FAILED", "DISABLED"}
          \/ v.remove = IF f.stakeholders = {} /\ f.remove = None /\ f.status # "RUNNING"
                        THEN RemoveDelay ELSE f.remove
       /\ v.status \in {f.status, "PENDING", "FAILED", "DISABLED"}
       /\ f.status \notin {"FAILED", "DISABLED"} => v.status = f.status
  BY <1>4, <1>13, UpdateStatusRest
<1>16. v.status \in ActiveStatuses => f = t /\ Unmoved(t, v)
  BY <1>13, <1>15 DEF ActiveStatuses, Unmoved
<1>17. OfBatch(x, v)
  BY <1>9, <1>13, <1>15, <1>16 DEF OfBatch, SameRest, Unmoved, ActiveStatuses
<1>18. x \in Runners /\ ~MayPrune(v) => Stays(v)
  <2> SUFFICES ASSUME x \in Runners, v.remove # 0 PROVE Stays(v)
    BY DEF MayPrune
  <2>1. v.remove = IF f.stakeholders = {} /\ f.remove = None /\ f.status # "RUNNING"
                   THEN RemoveDelay ELSE f.remove
    BY <1>15 DEF MayPrune
  <2>2. ASSUME v.stakeholders # {} PROVE v.remove = None
    <3>1. v.remove = f.remove /\ t.stakeholders # {}
      BY <1>13, <1>14, <2>1, <2>2 DEF SameHolders
    <3> QED BY <1>9, <1>13, <3>1 DEF Stays
  <2>3. ASSUME v.status = "RUNNING" PROVE v.remove = None
    <3>1. f = t /\ t.status = "RUNNING"
      BY <1>16, <2>3 DEF ActiveStatuses, Unmoved
    <3> QED BY <1>9, <2>1, <3>1 DEF Stays
  <2> QED BY <2>2, <2>3 DEF Stays
<1>19. CASE t.status = Absent \/ MayPrune(v)
  <2>1. u = NoStep /\ NoStep.status = Absent
    BY <1>8, <1>19, NoStepOK
  <2>2. ~(t.status = "RUNNING" /\ t.remove = None /\ ~HasDeadWorker(t, assistants))
    <3> SUFFICES ASSUME t.status = "RUNNING", t.remove = None, ~HasDeadWorker(t, assistants)
                 PROVE  FALSE
      OBVIOUS
    <3>1. f = t
      BY <1>13
    <3>2. MayPrune(v)
      BY <1>19 DEF Absent
    <3>3. v.remove = 0
      BY <3>2 DEF MayPrune
    <3>4. v.remove = t.remove
      BY <1>15, <3>1
    <3> QED BY <3>3, <3>4, ConstantsAssumption DEF ConstantsAssumption
  <2> QED BY <1>1, <1>7, <2>1, <2>2, NoStepSound DEF ActiveStatuses, Absent
<1>20. CASE ~(t.status = Absent \/ MayPrune(v)) /\ failing
  <2>1. v.status = "BATCH_RUNNING" /\ t.status = "BATCH_RUNNING" /\ v.status \in ActiveStatuses
    BY <1>6, <1>10, <1>20 DEF ActiveStatuses
  <2>2. u = EndMember(v, "FAILED")
    BY <1>8, <1>20
  <2>3. StepOK(u)
    BY <1>11, <1>14, <2>1, <2>2, EndMemberKeeps
  <2>4. SameRest(v, u) /\ u.batch_id = {} /\ u.status \in {"FAILED", "DISABLED"}
    BY <1>11, <1>14, <2>1, <2>2, EndMemberRest
  <2>5. OfBatch(x, u)
    BY <1>17, <2>4 DEF OfBatch, SameRest
  <2> QED BY <1>1, <1>7, <1>12, <2>1, <2>3, <2>4, <2>5 DEF Sound, ActiveStatuses
<1>21. CASE ~(t.status = Absent \/ MayPrune(v)) /\ ~failing
  <2>1. u = v
    BY <1>8, <1>21
  <2>2. Sound(x, v)
    BY <1>14, <1>17, <1>18, <1>21 DEF Sound
  <2>3. v.status = "BATCH_RUNNING" =>
            t.status = "BATCH_RUNNING" /\ DeadRunnersOf(ss, x, assistants) = {}
    BY <1>6, <1>16, <1>21 DEF Unmoved, ActiveStatuses
  <2>4. t.status = "RUNNING" /\ ~HasDeadWorker(t, assistants) => Unmoved(t, v)
    <3> SUFFICES ASSUME t.status = "RUNNING", ~HasDeadWorker(t, assistants)
                 PROVE  Unmoved(t, v)
      OBVIOUS
    <3>1. f = t
      BY <1>13
    <3> QED BY <1>15, <3>1 DEF Unmoved
  <2> QED BY <1>1, <1>7, <1>16, <2>1, <2>2, <2>3, <2>4
<1> QED BY <1>19, <1>20, <1>21

LEMMA PruneStepsMoves ==
    ASSUME RunnersApart, NEW ss, AllSound(ss), NEW ord, NEW assistants,
           NEW ss2, ss2 = PruneSteps(ss, ord, assistants)
    PROVE  AllSound(ss2) /\ Moves(ss, ss2)
<1>1. \A x \in Steps : ss2[x] = PrunedStep(ss, ord, x, assistants)
  BY DEF PruneSteps
<1>2. \A x \in Steps :
         /\ Sound(x, ss2[x])
         /\ ss2[x].status = "BATCH_RUNNING" =>
                ss[x].status = "BATCH_RUNNING" /\ DeadRunnersOf(ss, x, assistants) = {}
         /\ ss2[x].status \in ActiveStatuses => Unmoved(ss[x], ss2[x])
         /\ ss[x].status = "RUNNING" /\ ss[x].remove = None /\ ~HasDeadWorker(ss[x], assistants)
                => Unmoved(ss[x], ss2[x])
  BY <1>1, PrunedStepSound
<1>3. ASSUME NEW m \in Steps, ss2[m].status = "BATCH_RUNNING"
      PROVE  Follows(ss, ss2, m)
  <2>1. PICK b : b = ss2[m].batch_id
    OBVIOUS
  <2>2. /\ ss[m].status = "BATCH_RUNNING" /\ DeadRunnersOf(ss, m, assistants) = {}
        /\ ss[m].batch_id = b /\ ss[m].worker_running = ss2[m].worker_running
    BY <1>2, <1>3, <2>1 DEF ActiveStatuses, Unmoved
  <2>3. b # {} /\ b \in Batches /\ Runner(b) \in Steps /\ Runner(b) \in Runners
    BY <2>2, BatchType DEF AllSound, Sound, StepOK, OfBatch
  <2>4. ASSUME Drives(ss, b) PROVE Drives(ss2, b)
    <3>1. ss[Runner(b)].status = "RUNNING" /\ ss[Runner(b)].batch_id = b
      BY <2>4 DEF Drives
    <3>2. ss[Runner(b)].remove = None
      BY <2>3, <3>1 DEF AllSound, Sound, Stays
    <3>3. ~HasDeadWorker(ss[Runner(b)], assistants)
      <4>1. EndsBatch(ss[Runner(b)], "FAILED") /\ Runner(b) # m
        BY <2>2, <2>3, <3>1 DEF EndsBatch
      <4>2. m \in BatchRunningSteps(ss, ss[Runner(b)].batch_id)
        BY <2>2, <3>1 DEF BatchRunningSteps
      <4> QED BY <2>2, <2>3, <4>1, <4>2 DEF DeadRunnersOf
    <3> QED BY <1>2, <2>3, <3>1, <3>2, <3>3 DEF Unmoved, Drives, ActiveStatuses
  <2>5. \A x \in Steps : RunsFor(ss2[x], b, ss2[m].worker_running) =>
                             RunsFor(ss[x], b, ss2[m].worker_running)
    BY <1>2 DEF RunsFor, Unmoved, ActiveStatuses
  <2> QED BY <2>1, <2>2, <2>4, <2>5 DEF Follows
<1> QED BY <1>2, <1>3 DEF AllSound, Moves

\* Workers that go take only themselves out of the records.
LEMMA RemoveWorkersSound ==
    ASSUME RunnersApart, NEW ss, AllSound(ss), NEW gone, NEW all \in BOOLEAN,
           NEW ss2, ss2 = RemoveWorkersFromSteps(ss, gone, all)
    PROVE  AllSound(ss2) /\ \A s \in Steps : Unmoved(ss[s], ss2[s])
<1> SUFFICES ASSUME NEW s \in Steps PROVE Sound(s, ss2[s]) /\ Unmoved(ss[s], ss2[s])
  BY DEF AllSound
<1>1. \A x \in Steps : StepOK(ss[x])
  BY DEF AllSound, Sound
<1>2. /\ StepOK(ss2[s]) /\ SameRun(ss[s], ss2[s])
      /\ HeldBy(ss2[s], IF all THEN ss[s].stakeholders \ gone ELSE ss[s].stakeholders,
                ss[s].workers \ gone)
  BY <1>1, RemoveWorkersOK
<1>3. SameRemoval(ss[s], ss2[s])
  BY <1>1, RemoveWorkersPlain
<1>4. ss2[s].deps = ss[s].deps
  <2>1. PICK wks, stakeholders :
            ss2[s] = [[ss[s] EXCEPT !.workers = wks] EXCEPT !.stakeholders = stakeholders]
    BY DEF RemoveWorkersFromSteps
  <2> QED BY <1>1, <2>1 DEF StepOK, StepRecords
<1>5. /\ ss2[s].status = ss[s].status /\ ss2[s].batch_id = ss[s].batch_id
      /\ ss2[s].worker_running = ss[s].worker_running
      /\ ss2[s].remove = ss[s].remove /\ ss2[s].batchable = ss[s].batchable
      /\ ss2[s].stakeholders \subseteq ss[s].stakeholders
  BY <1>2, <1>3 DEF SameRun, SameStatus, SameRemoval, HeldBy
<1>6. OfBatch(s, ss[s]) /\ (s \in Runners => Stays(ss[s]))
  BY DEF AllSound, Sound
<1> QED BY <1>2, <1>4, <1>5, <1>6 DEF Sound, OfBatch, Stays, Unmoved

LEMMA PruneSound ==
    ASSUME RunnersApart, AllSound(steps), Prune
    PROVE  AllSound(steps') /\ Moves(steps, steps')
<1>1. PICK ss : ss = RemoveWorkersFromSteps(steps, TimedOut(workers), TRUE)
  OBVIOUS
<1>2. PICK assistants : steps' = PruneSteps(ss, older, assistants)
  BY <1>1 DEF Prune
<1>3. AllSound(ss) /\ \A s \in Steps : Unmoved(steps[s], ss[s])
  BY <1>1, RemoveWorkersSound
<1>4. Moves(steps, ss)
  BY <1>3, UnmovedMoves
<1>5. AllSound(steps') /\ Moves(ss, steps')
  BY <1>2, <1>3, PruneStepsMoves
<1> QED BY <1>4, <1>5, MovesTrans

-----------------------------------------------------------------------------
(* The handlers an operator or the clock calls. *)

LEMMA DisableWorkerSound ==
    ASSUME RunnersApart, AllSound(steps), NEW w \in Workers, DisableWorker(w)
    PROVE  AllSound(steps') /\ Moves(steps, steps')
<1>1. AllSound(steps') /\ \A s \in Steps : Unmoved(steps[s], steps'[s])
  BY RemoveWorkersSound DEF DisableWorker
<1> QED BY <1>1, UnmovedMoves

LEMMA MarkAsDoneSound ==
    ASSUME RunnersApart, AllSound(steps), NEW s \in Steps, MarkAsDone(s)
    PROVE  AllSound(steps') /\ Moves(steps, steps') /\ SamePresent
<1>1. /\ steps' = SetStatus(steps, s, "DONE") /\ steps[s].status # Absent
      /\ "DONE" \in Statuses \ {"BATCH_RUNNING"}
      /\ "DONE" # "PENDING" /\ "DONE" # "RUNNING"
  BY DEF MarkAsDone, Statuses, Absent
<1>2. AllSound(steps') /\ Moves(steps, steps')
  BY <1>1, SetStatusSound
<1>3. ASSUME NEW x \in Steps, steps[x].status = Absent PROVE steps'[x] = steps[x]
  BY <1>1, <1>3 DEF SetStatus, BatchRunningSteps, Absent
<1>4. \A x \in Steps : steps[x].status # Absent => steps'[x].status # Absent
  <2>1. \A x \in Steps : StepOK(steps[x])
    BY DEF AllSound, Sound
  <2> QED BY <1>1, <2>1, SetStatusOK
<1>5. SamePresent
  BY <1>3, <1>4 DEF SamePresent
<1> QED BY <1>2, <1>5

LEMMA ReEnableStepSound ==
    ASSUME RunnersApart, IInv, AllSound(steps), NEW s \in Steps, ReEnableStep(s)
    PROVE  AllSound(steps') /\ Moves(steps, steps') /\ SamePresent
<1>1. PICK t : t = steps[s]
  OBVIOUS
<1>2. PICK u : u = ReEnable(t)
  OBVIOUS
<1>3. \A x \in Steps : steps'[x] = IF x = s THEN u ELSE steps[x]
  BY <1>1, <1>2 DEF ReEnableStep, IInv, TableOK
<1>4. StepOK(t) /\ OfBatch(s, t) /\ (s \in Runners => Stays(t)) /\ t.status = "DISABLED"
  BY <1>1 DEF AllSound, Sound, ReEnableStep
<1>5. StepOK(u) /\ SameHolders(t, u)
  BY <1>2, <1>4, ReEnableOK
<1>6. /\ SameRest(t, u) /\ u.batch_id = t.batch_id
      /\ u.worker_running = t.worker_running /\ u.status \in {"FAILED", "DISABLED"}
      /\ u.remove = t.remove \/ (u.remove = 0 /\ u.status = "FAILED")
  BY <1>2, <1>4, ReEnableRest
<1>7. Sound(s, u)
  BY <1>4, <1>5, <1>6 DEF Sound, OfBatch, Stays, SameRest, SameHolders
<1>8. Unmoved(t, u)
  BY <1>4, <1>6 DEF Unmoved, ActiveStatuses
<1>9. AllSound(steps') /\ \A x \in Steps : Unmoved(steps[x], steps'[x])
  BY <1>1, <1>3, <1>7, <1>8 DEF AllSound, Unmoved
<1>10. SamePresent
  BY <1>1, <1>3, <1>4, <1>6 DEF SamePresent, Absent
<1> QED BY <1>9, <1>10, UnmovedMoves

LEMMA DecreaseSound ==
    ASSUME RunnersApart, AllSound(steps), NEW s \in Steps, NEW less \in Amounts,
           DecreaseRunningStepResources(s, less)
    PROVE  AllSound(steps') /\ Moves(steps, steps') /\ SamePresent
<1>1. ASSUME NEW t, StepOK(t)
      PROVE  LET u == Decrease(t, less)
             IN  /\ Unmoved(t, u) /\ SameRest(t, u) /\ u.remove = t.remove
                 /\ u.status = t.status /\ u.batch_id = t.batch_id
                 /\ StepOK(u) /\ SameHolders(t, u)
  <2>1. PICK amounts : Decrease(t, less) \in {t, [t EXCEPT !.resources = amounts],
                                              [t EXCEPT !.resources_running = amounts]}
    BY Zenon DEF Decrease
  <2>2. StepOK(Decrease(t, less)) /\ SameHolders(t, Decrease(t, less))
    BY <1>1, DecreaseOK
  <2> QED BY <1>1, <2>1, <2>2 DEF StepOK, StepRecords, Unmoved, SameRest
<1>2. \A x \in Steps : steps'[x] \in {steps[x], Decrease(steps[x], less)}
  BY DEF DecreaseRunningStepResources
<1>3. \A x \in Steps : StepOK(steps[x])
  BY DEF AllSound, Sound
<1>4. \A x \in Steps :
         /\ Unmoved(steps[x], steps'[x]) /\ SameRest(steps[x], steps'[x])
         /\ steps'[x].remove = steps[x].remove /\ StepOK(steps'[x])
         /\ steps'[x].status = steps[x].status
         /\ steps'[x].batch_id = steps[x].batch_id /\ SameHolders(steps[x], steps'[x])
  BY <1>1, <1>2, <1>3 DEF Unmoved, SameRest, SameHolders
<1>5. AllSound(steps')
  BY <1>4 DEF AllSound, Sound, OfBatch, Stays, Unmoved, SameRest, SameHolders
<1> QED BY <1>4, <1>5, UnmovedMoves DEF SamePresent

LEMMA TickSound ==
    ASSUME RunnersApart, IInv, AllSound(steps), Tick
    PROVE  AllSound(steps') /\ Moves(steps, steps') /\ SamePresent
<1>1. ASSUME NEW s \in Steps
      PROVE  /\ Sound(s, steps'[s]) /\ Unmoved(steps[s], steps'[s])
             /\ steps'[s].status = steps[s].status
  <2>1. PICK t : t = steps[s]
    OBVIOUS
  <2>2. StepOK(t) /\ OfBatch(s, t) /\ (s \in Runners => Stays(t))
    BY <2>1 DEF AllSound, Sound
  <2>3. CASE t.status = Absent
    <3>1. steps'[s] = NoStep
      BY <2>1, <2>3 DEF Tick
    <3> QED BY <2>1, <2>3, <3>1, NoStepSound, NoStepOK DEF Unmoved, ActiveStatuses, Absent
  <2>4. CASE t.status # Absent
    <3>1. steps'[s] = AgedStep(t)
      BY <2>1, <2>4 DEF Tick
    <3>2. StepOK(steps'[s]) /\ SameHolders(t, steps'[s])
      BY <2>2, <3>1, AgedStepOK
    <3>3. PICK retry, updated, failures, first, disabled :
              steps'[s] = Aged(t, retry, Down(t.remove), updated, failures, first, disabled)
      BY <2>1, <2>4 DEF Tick, AgedStep, Aged
    <3>4. /\ steps'[s].status = t.status /\ steps'[s].batch_id = t.batch_id
          /\ steps'[s].worker_running = t.worker_running
          /\ SameRest(t, steps'[s]) /\ steps'[s].remove = Down(t.remove)
      BY <2>2, <3>3 DEF StepOK, StepRecords, Aged, SameRest
    <3>5. t.remove \in {None, 0} => Down(t.remove) = t.remove
      BY DEF Down
    <3>6. Sound(s, steps'[s])
      BY <2>2, <3>2, <3>4, <3>5 DEF Sound, OfBatch, Stays, SameRest, SameHolders
    <3> QED BY <2>1, <3>4, <3>6 DEF Unmoved
  <2> QED BY <2>3, <2>4
<1> QED BY <1>1, UnmovedMoves DEF AllSound, SamePresent

-----------------------------------------------------------------------------
(* add_step. *)

\* A call of a worker whose steps have no runner among their dependencies and yield none.
BatchCall(q) ==
    /\ q \in Calls /\ ~q.assistant /\ q.new_deps = {}
    /\ q.deps = None \/ q.deps \cap Runners = {}
    /\ q.batchable \in {None, IsBatchable(q.step)}
    /\ IF q.status = "RUNNING" THEN q.batch_id \in Batches /\ q.step = Runner(q.batch_id)
                               ELSE q.batch_id = {}

\* The part of the step in a batch is as before.
SameBatch(t, u) ==
    /\ u.status = t.status /\ u.batch_id = t.batch_id
    /\ u.worker_running = t.worker_running

LEMMA SameBatchSound ==
    ASSUME NEW x, NEW t, NEW u, Sound(x, t), StepOK(u), SameBatch(t, u),
           u.batchable => IsBatchable(x), u.deps \cap Runners = {},
           x \in Runners => \/ u.remove = None
                            \/ u.remove = 0 /\ u.status = "FAILED"
                            \/ u.remove = t.remove /\ u.stakeholders = t.stakeholders
    PROVE  Sound(x, u) /\ Unmoved(t, u)
BY DEF Sound, OfBatch, Stays, SameBatch, Unmoved

LEMMA AttributedRest ==
    ASSUME NEW t, StepOK(t), NEW q \in Requests, NEW u, u = Attributed(t, q)
    PROVE  /\ SameRest(t, u) /\ u.remove = t.remove /\ u.status = t.status
           /\ u.stakeholders = t.stakeholders
           /\ u.batch_id = IF q.batch_id # {} THEN q.batch_id ELSE t.batch_id
           /\ u.worker_running = IF StartsRun(t, q) THEN q.worker ELSE t.worker_running
<1>1. PICK batch : batch = IF q.batch_id # {} THEN q.batch_id ELSE t.batch_id
  OBVIOUS
<1>2. PICK runner : runner = IF StartsRun(t, q) THEN q.worker ELSE t.worker_running
  OBVIOUS
<1>3. u = [t EXCEPT !.batch_id = batch, !.worker_running = runner]
  BY <1>1, <1>2 DEF Attributed
<1> QED BY <1>1, <1>2, <1>3 DEF StepOK, StepRecords, SameRest

LEMMA ClaimedRest ==
    ASSUME NEW ss, \A y \in Steps : StepOK(ss[y]), NEW q \in Requests, NEW c, c = Claimed(ss, q)
    PROVE  LET t == ss[q.step]
           IN  /\ c.deps = t.deps /\ c.remove = None /\ c.status = t.status
               /\ c.batchable = IF q.batchable # None THEN q.batchable ELSE t.batchable
               /\ c.batch_id = IF q.batch_id # {} THEN q.batch_id ELSE t.batch_id
               /\ c.worker_running = IF StartsRun(t, q) THEN q.worker ELSE t.worker_running
<1>1. PICK t : t = ss[q.step]
  OBVIOUS
<1>2. q.step \in Steps /\ StepOK(t)
  BY <1>1 DEF Requests
<1>3. PICK a : a = Attributed(t, q)
  OBVIOUS
<1>4. /\ SameRest(t, a) /\ a.status = t.status /\ a \in StepRecords
      /\ a.batch_id = IF q.batch_id # {} THEN q.batch_id ELSE t.batch_id
      /\ a.worker_running = IF StartsRun(t, q) THEN q.worker ELSE t.worker_running
  BY <1>2, <1>3, AttributedRest, AttributedOK DEF StepOK
<1>5. PICK batchable : batchable = IF q.batchable # None THEN q.batchable ELSE a.batchable
  OBVIOUS
<1>6. PICK rr : c = [a EXCEPT !.resources_running = rr, !.batchable = batchable,
                               !.remove = None]
  BY <1>1, <1>3, <1>5 DEF Claimed
<1>7. /\ c.deps = a.deps /\ c.remove = None /\ c.status = a.status /\ c.batchable = batchable
      /\ c.batch_id = a.batch_id /\ c.worker_running = a.worker_running
  BY <1>4, <1>6 DEF StepRecords
<1> QED BY <1>1, <1>4, <1>5, <1>7 DEF SameRest

LEMMA DescribedRest ==
    ASSUME NEW t, StepOK(t), NEW q, NEW enabled
    PROVE  LET u == Described(t, q, enabled)
           IN  /\ u.deps = (IF q.deps # None THEN q.deps ELSE t.deps) \cup q.new_deps
               /\ u.batchable = t.batchable /\ u.remove = t.remove
<1>1. PICK u : u = Described(t, q, enabled)
  OBVIOUS
<1>2. PICK deps : deps = (IF q.deps # None THEN q.deps ELSE t.deps) \cup q.new_deps
  OBVIOUS
<1>3. \E rr, resources, count, stk, wks, runnable :
          u = DescribedAs(t, deps, rr, resources, count, stk, wks, runnable)
  <2>1. PICK rr : rr = IF t.resources_running = Shared THEN t.resources ELSE t.resources_running
    OBVIOUS
  <2>2. PICK stk : stk = IF enabled /\ ~q.assistant
                         THEN t.stakeholders \cup {q.worker} ELSE t.stakeholders
    OBVIOUS
  <2>3. PICK wks : wks = IF Registers(q, enabled) THEN t.workers \cup {q.worker} ELSE t.workers
    OBVIOUS
  <2>4. PICK runnable : runnable = IF Registers(q, enabled) THEN TRUE ELSE t.runnable
    OBVIOUS
  <2>5. u = DescribedAs(t, deps, rr, q.resources, q.retry_count, stk, wks, runnable)
    BY <1>1, <1>2, <2>1, <2>2, <2>3, <2>4 DEF Described, DescribedAs
  <2> QED BY <2>5
<1>4. u.deps = deps /\ u.batchable = t.batchable /\ u.remove = t.remove
  BY <1>3 DEF DescribedAs, StepOK, StepRecords
<1> QED BY <1>1, <1>2, <1>4

LEMMA HeldRest ==
    ASSUME NEW t, StepOK(t), NEW q \in Requests
    PROVE  LET u == Held(t, q)
           IN  /\ t.status # Absent => u.deps = t.deps
               /\ t.status = Absent => u.deps = {}
<1>1. PICK u : u = Held(t, q)
  OBVIOUS
<1>2. PICK found : found = IF t.status = Absent
                           THEN NewStep("UNKNOWN", {}, NoResources, q.priority) ELSE t
  OBVIOUS
<1>3. PICK stk : u = [found EXCEPT !.stakeholders = stk]
  BY <1>1, <1>2 DEF Held
<1>4. CASE t.status # Absent
  BY <1>1, <1>2, <1>3, <1>4 DEF StepOK, StepRecords
<1>5. CASE t.status = Absent
  BY <1>1, <1>2, <1>3, <1>5 DEF NewStep
<1> QED BY <1>4, <1>5

LEMMA UpdatePriorityRest ==
    ASSUME NEW ss, \A y \in Steps : StepOK(ss[y]), NEW s, NEW prio, NEW x \in Steps
    PROVE  UpdatePriority(ss, s, prio)[x].deps = ss[x].deps
<1>1. PICK u : u = UpdatePriority(ss, s, prio)[x]
  OBVIOUS
<1>2. u = ss[x] \/ \E top : u = [ss[x] EXCEPT !.priority = top]
  BY <1>1 DEF UpdatePriority
<1> QED BY <1>1, <1>2 DEF StepOK, StepRecords

\* The run of a batch is attributed to its runner: it runs for no other batch meanwhile.
LEMMA AttributedSound ==
    ASSUME RunnersApart, NEW ss, AllSound(ss), NEW q, BatchCall(q), DOMAIN ss = Steps,
           NEW u, StepOK(u), u.status = ss[q.step].status,
           u.batch_id = IF q.batch_id # {} THEN q.batch_id ELSE ss[q.step].batch_id,
           u.worker_running = IF StartsRun(ss[q.step], q) THEN q.worker
                                                          ELSE ss[q.step].worker_running,
           u.batchable = IF q.batchable # None THEN q.batchable ELSE ss[q.step].batchable,
           u.deps = ss[q.step].deps,
           u.remove = None \/ (u.remove = ss[q.step].remove
                               /\ u.stakeholders = ss[q.step].stakeholders),
           NEW ss2, ss2 = [ss EXCEPT ![q.step] = u]
    PROVE  AllSound(ss2) /\ Moves(ss, ss2)
<1>1. PICK s : s = q.step
  OBVIOUS
<1>2. PICK t : t = ss[s]
  OBVIOUS
<1>3. s \in Steps /\ q.status \in Statuses \ {"BATCH_RUNNING"} /\ q.worker \in Workers
  BY <1>1 DEF BatchCall, Calls, Requests
<1>4. \A x \in Steps : ss2[x] = IF x = s THEN u ELSE ss[x]
  BY <1>1
<1>5. Sound(s, t) /\ StepOK(t) /\ OfBatch(s, t) /\ (s \in Runners => Stays(t))
  BY <1>2, <1>3 DEF AllSound, Sound
<1>6. u.batchable => IsBatchable(s)
  BY <1>1, <1>2, <1>5 DEF BatchCall, OfBatch
<1>7. s \in Runners => Stays(u)
  BY <1>1, <1>2, <1>5 DEF Stays
<1>8. CASE q.status # "RUNNING"
  <2>1. SameBatch(t, u)
    BY <1>1, <1>2, <1>8 DEF SameBatch, BatchCall, StartsRun
  <2>2. Sound(s, u) /\ Unmoved(t, u)
    BY <1>1, <1>2, <1>5, <1>6, <1>7, <2>1 DEF Sound, OfBatch, SameBatch, Unmoved
  <2>3. AllSound(ss2) /\ \A x \in Steps : Unmoved(ss[x], ss2[x])
    BY <1>2, <1>4, <2>2 DEF AllSound, Unmoved
  <2> QED BY <2>3, UnmovedMoves
<1>9. CASE q.status = "RUNNING"
  <2>1. PICK b : b = q.batch_id
    OBVIOUS
  <2>2. b \in Batches /\ s = Runner(b) /\ b # {} /\ ~IsBatchable(s)
    BY <1>1, <1>9, <2>1, BatchType DEF BatchCall, RunnersApart
  <2>3. u.batch_id = b
    BY <2>1, <2>2
  <2>4. t.status # "BATCH_RUNNING"
    <3> SUFFICES ASSUME t.status = "BATCH_RUNNING" PROVE FALSE
      OBVIOUS
    <3>1. s \in t.batch_id /\ t.batch_id \in Batches
      BY <1>5 DEF OfBatch, StepOK
    <3> QED BY <2>2, <3>1 DEF Batches
  <2>5. t.batch_id \in {{}, b}
    <3> SUFFICES ASSUME t.batch_id # {} PROVE t.batch_id = b
      OBVIOUS
    <3>1. t.batch_id \in Batches /\ (s \in t.batch_id \/ s = Runner(t.batch_id))
      BY <1>5 DEF OfBatch
    <3> QED BY <2>2, <3>1 DEF Batches, RunnersApart
  <2>6. Sound(s, u)
    BY <1>2, <1>5, <1>6, <1>7, <1>1, <2>2, <2>3, <2>4 DEF Sound, OfBatch
  <2>7. AllSound(ss2)
    BY <1>4, <2>6 DEF AllSound
  <2>8. ASSUME NEW m \in Steps, ss2[m].status = "BATCH_RUNNING"
        PROVE  Follows(ss, ss2, m)
    <3>1. m # s /\ ss2[m] = ss[m]
      BY <1>1, <1>2, <1>4, <2>4, <2>8
    <3>2. PICK c : c = ss2[m].batch_id
      OBVIOUS
    <3>3. c \in Batches /\ Runner(c) \in Steps
      BY <2>8, <3>1, <3>2, BatchType DEF AllSound, Sound, OfBatch, StepOK
    <3>4. Drives(ss, c) => Drives(ss2, c)
      <4>1. CASE Runner(c) = s
        <5>1. c = b
          BY <2>2, <3>3, <4>1 DEF RunnersApart
        <5> QED BY <1>1, <1>2, <1>4, <2>3, <3>3, <4>1, <5>1 DEF Drives
      <4>2. CASE Runner(c) # s
        BY <1>4, <3>3, <4>2 DEF Drives
      <4> QED BY <4>1, <4>2
    <3>5. ASSUME NEW x \in Steps, RunsFor(ss2[x], c, ss2[m].worker_running)
          PROVE  RunsFor(ss[x], c, ss2[m].worker_running) \/ Drives(ss2, c)
      <4>1. CASE x = s
        <5>1. u.status = "RUNNING" /\ c = b
          BY <1>4, <2>3, <3>5, <4>1 DEF RunsFor
        <5> QED BY <1>3, <1>4, <2>2, <2>3, <5>1 DEF Drives
      <4>2. CASE x # s
        BY <1>4, <3>5, <4>2
      <4> QED BY <4>1, <4>2
    <3> QED BY <2>8, <3>1, <3>2, <3>4, <3>5 DEF Follows
  <2> QED BY <2>7, <2>8 DEF Moves
<1> QED BY <1>8, <1>9

\* The assignments of add_step after set_status.
LEMMA DescribedSound ==
    ASSUME NEW s \in Steps, NEW t, Sound(s, t), t.status # Absent, NEW q, BatchCall(q),
           t.remove = None \/ (t.remove = 0 /\ t.status = "FAILED"),
           NEW enabled \in BOOLEAN, NEW u, u = Described(t, q, enabled)
    PROVE  Sound(s, u) /\ Unmoved(t, u) /\ u.status = t.status
<1>1. q \in Calls /\ StepOK(t) /\ OfBatch(s, t)
  BY DEF BatchCall, Sound
<1>2. StepOK(u) /\ Kin(t, u)
  BY <1>1, DescribedOK, DescribedPlain
<1>3. u.deps = (IF q.deps # None THEN q.deps ELSE t.deps) \cup q.new_deps
      /\ u.batchable = t.batchable /\ u.remove = t.remove
  BY <1>1, DescribedRest
<1>4. u.deps \cap Runners = {}
  BY <1>1, <1>3 DEF BatchCall, OfBatch
<1>5. SameBatch(t, u)
  BY <1>2 DEF SameBatch, Kin
<1> QED BY <1>1, <1>2, <1>3, <1>4, <1>5, SameBatchSound DEF OfBatch, SameBatch

LEMMA HeldSound ==
    ASSUME NEW s \in Steps \ Runners, NEW t, Sound(s, t), NEW q \in Requests,
           NEW u, u = Held(t, q)
    PROVE  Sound(s, u) /\ Unmoved(t, u)
<1>1. StepOK(t) /\ OfBatch(s, t) /\ StepOK(u)
  BY HeldOK DEF Sound
<1>2. CASE t.status # Absent
  <2>1. Kin(t, u) /\ u.deps = t.deps
    BY <1>1, <1>2, HeldPlain, HeldRest
  <2>2. SameBatch(t, u) /\ (u.batchable => IsBatchable(s)) /\ u.deps \cap Runners = {}
    BY <1>1, <2>1 DEF SameBatch, Kin, SameRemoval, OfBatch
  <2> QED BY <1>1, <2>2, SameBatchSound
<1>3. CASE t.status = Absent
  <2>1. Plain(u) /\ u.status = "UNKNOWN" /\ u.deps = {}
    BY <1>1, <1>3, HeldPlain, HeldRest
  <2>2. OfBatch(s, u)
    BY <2>1 DEF OfBatch, Plain
  <2> QED BY <1>1, <1>3, <2>1, <2>2 DEF Sound, Unmoved, ActiveStatuses, Absent
<1> QED BY <1>2, <1>3

\* No step is removed; a worker that reports its member of a batch as failed is rid of it.
NoneLost(ss, ss2) == \A x \in Steps : ss[x].status # Absent => ss2[x].status # Absent

GivesUp(ss, ss2, q) ==
    /\ q.status = "FAILED" /\ ss[q.step].status = "BATCH_RUNNING"
    /\ ss[q.step].worker_running = q.worker
    => ss2[q.step].status # "BATCH_RUNNING"

LEMMA AddStepStepsSound ==
    ASSUME RunnersApart, NEW ss, DOMAIN ss = Steps, AllSound(ss), NEW q, BatchCall(q),
           NEW enabled \in BOOLEAN, ~NamesLostBatch(ss, q), ss[q.step].status # Absent,
           NEW final, final = AddStepSteps(ss, q, enabled)
    PROVE  AllSound(final) /\ Moves(ss, final) /\ NoneLost(ss, final) /\ GivesUp(ss, final, q)
<1>1. /\ q \in Calls /\ q \in Requests /\ q.step \in Steps /\ q.priority \in Nat
      /\ q.status \in Statuses \ {"BATCH_RUNNING"}
  BY DEF BatchCall, Calls, Requests
<1>2. PICK claimed : claimed = [ss EXCEPT ![q.step] = Claimed(ss, q)]
  OBVIOUS
<1>3. PICK set : set = IF MaySetStatus(claimed[q.step], q)
                       THEN SetStatus(claimed, q.step, q.status) ELSE claimed
  OBVIOUS
<1>4. PICK described : described = [set EXCEPT ![q.step] = Described(set[q.step], q, enabled)]
  OBVIOUS
<1>5. PICK deps : deps = IF enabled /\ ~q.assistant THEN described[q.step].deps ELSE {}
  OBVIOUS
<1>6. PICK held : held = [y \in Steps |-> IF y \in deps THEN Held(described[y], q)
                                                        ELSE described[y]]
  OBVIOUS
<1>7. final = UpdatePriority(held, q.step, q.priority)
  <2>1. final = UpdatePriority([x \in Steps |-> IF x \in (IF enabled /\ ~q.assistant
                                                         THEN described[q.step].deps ELSE {})
                                                THEN Held(described[x], q) ELSE described[x]],
                               q.step, q.priority)
    BY <1>2, <1>3, <1>4 DEF AddStepSteps
  <2> QED BY <2>1, <1>5, <1>6, Zenon
<1>8. \A y \in Steps : StepOK(ss[y])
  BY DEF AllSound, Sound
<1>9. PICK c : c = Claimed(ss, q)
  OBVIOUS
<1>10. /\ StepOK(c) /\ c.deps = ss[q.step].deps /\ c.remove = None
       /\ c.status = ss[q.step].status
       /\ c.batchable = IF q.batchable # None THEN q.batchable ELSE ss[q.step].batchable
       /\ c.batch_id = IF q.batch_id # {} THEN q.batch_id ELSE ss[q.step].batch_id
       /\ c.worker_running = IF StartsRun(ss[q.step], q) THEN q.worker
                                                         ELSE ss[q.step].worker_running
       /\ q.status = "RUNNING" => c.worker_running # None
  BY <1>1, <1>8, <1>9, ClaimedRest, ClaimedOK
<1>11. AllSound(claimed) /\ Moves(ss, claimed)
  BY <1>2, <1>9, <1>10, AttributedSound
<1>12. DOMAIN claimed = Steps /\ claimed[q.step] = c
  BY <1>1, <1>2, <1>9
<1>13. /\ AllSound(set) /\ Moves(claimed, set) /\ DOMAIN set = Steps
       /\ set[q.step].remove = None
              \/ (set[q.step].remove = 0 /\ set[q.step].status = "FAILED")
       /\ NoneLost(claimed, set) /\ GivesUp(claimed, set, q)
  <2>1. CASE MaySetStatus(claimed[q.step], q)
    <3>1. set = SetStatus(claimed, q.step, q.status)
      BY <1>3, <2>1
    <3>2. q.status = "RUNNING" => /\ c.worker_running # None
                                  /\ c.batch_id # {} /\ q.step = Runner(c.batch_id)
      BY <1>10, BatchType DEF BatchCall
    <3>3. /\ AllSound(set) /\ Moves(claimed, set)
          /\ set[q.step].remove = None
                 \/ (set[q.step].remove = 0 /\ set[q.step].status = "FAILED")
      BY <1>1, <1>10, <1>11, <1>12, <3>1, <3>2, SetStatusSound
    <3>4. DOMAIN set = Steps
      BY <3>1 DEF SetStatus
    <3>5. \A y \in Steps : StepOK(claimed[y])
      BY <1>11 DEF AllSound, Sound
    <3>6. NoneLost(claimed, set)
      BY <1>1, <1>10, <1>12, <3>1, <3>5, SetStatusOK DEF NoneLost
    <3>7. GivesUp(claimed, set, q)
      <4> SUFFICES ASSUME q.status = "FAILED", c.status = "BATCH_RUNNING",
                          set[q.step].status = "BATCH_RUNNING"
                   PROVE  FALSE
        BY <1>12 DEF GivesUp
      <4>1. ~EndsBatch(c, q.status)
        BY DEF EndsBatch
      <4>2. set[q.step] = SetOwnStatus(c, q.status)
        <5>1. q.step \notin {}
          OBVIOUS
        <5> QED BY <1>1, <1>12, <3>1, <4>1, <5>1 DEF SetStatus
      <4>3. Changes(c, set[q.step], q.status)
        BY <1>1, <1>10, <4>2, SetOwnStatusType DEF StepOK
      <4> QED BY <4>3 DEF Changes, ActiveStatuses
    <3> QED BY <3>3, <3>4, <3>6, <3>7
  <2>2. CASE ~MaySetStatus(claimed[q.step], q)
    <3>1. set = claimed
      BY <1>3, <2>2
    <3>2. Moves(claimed, claimed)
      BY <1>11, UnmovedMoves DEF Unmoved
    <3>3. GivesUp(claimed, set, q)
      BY <2>2 DEF GivesUp, MaySetStatus
    <3> QED BY <1>10, <1>11, <1>12, <3>1, <3>2, <3>3 DEF NoneLost
  <2> QED BY <2>1, <2>2
<1>14. /\ AllSound(described) /\ \A y \in Steps : Unmoved(set[y], described[y])
       /\ NoneLost(set, described)
  <2>1. PICK d : d = Described(set[q.step], q, enabled)
    OBVIOUS
  <2>2. \A y \in Steps : described[y] = IF y = q.step THEN d ELSE set[y]
    BY <1>1, <1>4, <1>13, <2>1
  <2>3. set[q.step].status # Absent
    BY <1>1, <1>10, <1>12, <1>13 DEF NoneLost
  <2>4. Sound(q.step, d) /\ Unmoved(set[q.step], d) /\ d.status = set[q.step].status
    BY <1>1, <1>13, <2>1, <2>3, DescribedSound DEF AllSound
  <2> QED BY <1>13, <2>2, <2>4 DEF AllSound, Unmoved, NoneLost
<1>15. /\ AllSound(held) /\ \A y \in Steps : Unmoved(described[y], held[y])
       /\ NoneLost(described, held)
  <2>1. deps \cap Runners = {}
    BY <1>1, <1>5, <1>14 DEF AllSound, Sound, OfBatch
  <2>2. ASSUME NEW y \in Steps PROVE Sound(y, held[y]) /\ Unmoved(described[y], held[y])
    <3>1. CASE y \in deps
      BY <1>1, <1>6, <1>14, <2>1, <3>1, HeldSound DEF AllSound
    <3>2. CASE y \notin deps
      BY <1>6, <1>14, <3>2 DEF AllSound, Unmoved
    <3> QED BY <3>1, <3>2
  <2>3. ASSUME NEW y \in Steps, described[y].status # Absent PROVE held[y].status # Absent
    <3>1. CASE y \in deps
      <4>1. held[y] = Held(described[y], q) /\ StepOK(described[y])
        BY <1>6, <1>14, <3>1 DEF AllSound, Sound
      <4>2. Kin(described[y], held[y])
        BY <1>1, <2>3, <4>1, HeldPlain
      <4> QED BY <2>3, <4>2 DEF Kin
    <3>2. CASE y \notin deps
      BY <1>6, <2>3, <3>2
    <3> QED BY <3>1, <3>2
  <2> QED BY <2>2, <2>3 DEF AllSound, NoneLost
<1>16. /\ AllSound(final) /\ \A y \in Steps : Unmoved(held[y], final[y])
       /\ NoneLost(held, final)
  <2>1. \A y \in Steps : StepOK(held[y])
    BY <1>15 DEF AllSound, Sound
  <2>2. ASSUME NEW y \in Steps
        PROVE  Sound(y, final[y]) /\ Unmoved(held[y], final[y]) /\ final[y].status = held[y].status
    <3>1. /\ StepOK(final[y]) /\ Kin(held[y], final[y]) /\ SameHolders(held[y], final[y])
          /\ final[y].deps = held[y].deps
      BY <1>1, <1>7, <2>1, UpdatePriorityOK, UpdatePriorityPlain, UpdatePriorityRest
    <3>2. Sound(y, held[y])
      BY <1>15 DEF AllSound
    <3>3. SameBatch(held[y], final[y]) /\ final[y].batchable = held[y].batchable
      BY <3>1 DEF Kin, SameRemoval, SameBatch
    <3>4. (final[y].batchable => IsBatchable(y)) /\ final[y].deps \cap Runners = {}
      BY <3>1, <3>2, <3>3 DEF Sound, OfBatch
    <3>5. final[y].remove = held[y].remove /\ final[y].stakeholders = held[y].stakeholders
      BY <3>1 DEF Kin, SameRemoval, SameHolders
    <3>6. Sound(y, final[y]) /\ Unmoved(held[y], final[y])
      BY <3>1, <3>2, <3>3, <3>4, <3>5, SameBatchSound
    <3> QED BY <3>3, <3>6 DEF SameBatch
  <2> QED BY <2>2 DEF AllSound, NoneLost
<1>17. Moves(set, described) /\ Moves(described, held) /\ Moves(held, final)
  BY <1>13, <1>14, <1>15, <1>16, UnmovedMoves
<1>18. Moves(ss, set)
  BY <1>11, <1>13, MovesTrans
<1>19. Moves(ss, described)
  BY <1>17, <1>18, MovesTrans
<1>20. Moves(ss, held)
  BY <1>17, <1>19, MovesTrans
<1>21. Moves(ss, final)
  BY <1>17, <1>20, MovesTrans
<1>22. NoneLost(ss, final)
  <2>1. \A y \in Steps : ss[y].status # Absent => claimed[y].status # Absent
    BY <1>1, <1>2, <1>9, <1>10
  <2> QED BY <1>13, <1>14, <1>15, <1>16, <2>1 DEF NoneLost
<1>23. GivesUp(ss, final, q)
  <2> SUFFICES ASSUME q.status = "FAILED", ss[q.step].status = "BATCH_RUNNING",
                      ss[q.step].worker_running = q.worker
               PROVE  final[q.step].status # "BATCH_RUNNING"
    BY DEF GivesUp
  <2>1. c.status = "BATCH_RUNNING" /\ c.worker_running = q.worker
    BY <1>10 DEF StartsRun
  <2>2. set[q.step].status # "BATCH_RUNNING"
    BY <1>12, <1>13, <2>1 DEF GivesUp
  <2>3. \A y \in Steps : final[y].status = "BATCH_RUNNING" => set[y].status = "BATCH_RUNNING"
    BY <1>14, <1>15, <1>16 DEF Unmoved, ActiveStatuses
  <2> QED BY <1>1, <2>2, <2>3
<1> QED BY <1>16, <1>21, <1>22, <1>23

LEMMA WithDefaultStepSound ==
    ASSUME RunnersApart, NEW ss \in [Steps -> StepRecords], AllSound(ss),
           NEW q, BatchCall(q), NEW enabled \in BOOLEAN,
           NEW ss2, ss2 = WithDefaultStep(ss, q, enabled)
    PROVE  /\ AllSound(ss2) /\ Moves(ss, ss2) /\ ss2 \in [Steps -> StepRecords]
           /\ \A x \in Steps : ss[x].status # Absent => ss2[x] = ss[x]
<1>1. q \in Requests /\ q.step \in Steps /\ \A x \in Steps : StepOK(ss[x])
  BY DEF BatchCall, Calls, Requests, AllSound, Sound
<1>2. PICK deps : deps = IF q.deps = None THEN {} ELSE q.deps
  OBVIOUS
<1>3. PICK new : new = NewStep("PENDING", deps, q.resources, q.priority)
  OBVIOUS
<1>4. ss2 \in [Steps -> StepRecords] /\ \A x \in Steps : StepOK(ss2[x])
  BY <1>1, WithDefaultStepOK
<1>5. \A x \in Steps : ss2[x] = ss[x] \/ (x = q.step /\ ss2[x] = new /\ ss[x].status = Absent)
  BY <1>1, <1>2, <1>3 DEF WithDefaultStep
<1>6. /\ new.status = "PENDING" /\ new.batch_id = {} /\ new.batchable = FALSE
      /\ new.deps = deps /\ new.remove = None
  BY <1>3 DEF NewStep
<1>7. deps \cap Runners = {}
  BY <1>2 DEF BatchCall
<1>8. \A x \in Steps : Sound(x, ss2[x]) /\ Unmoved(ss[x], ss2[x])
  BY <1>4, <1>5, <1>6, <1>7
     DEF AllSound, Sound, OfBatch, Stays, Unmoved, ActiveStatuses, Absent
<1> QED BY <1>4, <1>5, <1>8, UnmovedMoves DEF AllSound

LEMMA AddStepSound ==
    ASSUME RunnersApart, IInv, AllSound(steps), NEW q, BatchCall(q), AddStep(q)
    PROVE  /\ AllSound(steps') /\ Moves(steps, steps') /\ NoneLost(steps, steps')
           /\ ~workers[q.worker].disabled => GivesUp(steps, steps', q)
<1> DEFINE ws == UpdateWorker(workers, q.worker, FALSE)
           enabled == ~ws[q.worker].disabled
           ss == WithDefaultStep(steps, q, enabled)
           ignored == IgnoresRequest(ss[q.step], q, enabled)
           stored == ~ignored /\ ~AddStepFails(q)
<1>1. q \in Calls /\ q \in Requests /\ q.worker \in Workers /\ q.step \in Steps
  BY DEF BatchCall, Calls, Requests
<1>2. steps' = CASE ignored -> ss
                 [] stored -> AddStepSteps(ss, q, enabled)
                 [] OTHER -> [ss EXCEPT ![q.step] = Attributed(ss[q.step], q)]
  BY DEF AddStep
<1>3. ws[q.worker].disabled = GetWorker(workers, q.worker).disabled
  BY <1>1, UpdateWorkerDisabled DEF IInv
<1>4. ~ignored => ss[q.step].status # Absent /\ (AddStepFails(q) <=> NamesLostBatch(ss, q))
  BY <1>3 DEF AddStepFails, IgnoresRequest
<1>5. enabled \in BOOLEAN
  OBVIOUS
<1> HIDE DEF ws, enabled
<1>6. /\ AllSound(ss) /\ Moves(steps, ss) /\ ss \in [Steps -> StepRecords]
      /\ \A x \in Steps : steps[x].status # Absent => ss[x] = steps[x]
  BY <1>5, WithDefaultStepSound DEF IInv, TableOK
<1> HIDE DEF ss
<1>7. ~workers[q.worker].disabled => enabled
  <2>1. TableOK(steps, workers)
    BY DEF IInv
  <2>2. GetWorker(workers, q.worker).disabled => workers[q.worker].disabled
    BY <1>1, <2>1, GetWorkerOK DEF Retires
  <2> QED BY <1>3, <2>2 DEF enabled
<1>8. NoneLost(steps, ss)
  BY <1>6 DEF NoneLost
<1>9. ~stored /\ ~workers[q.worker].disabled => GivesUp(steps, steps', q)
  <2> SUFFICES ASSUME ~stored, ~workers[q.worker].disabled, q.status = "FAILED",
                      steps[q.step].status = "BATCH_RUNNING"
               PROVE  FALSE
    BY DEF GivesUp
  <2>1. ss[q.step].status = "BATCH_RUNNING"
    BY <1>1, <1>6 DEF Absent
  <2>2. ~ignored
    BY <1>7, <2>1 DEF IgnoresRequest, Absent
  <2>3. ~AddStepFails(q)
    BY <1>4, <2>2 DEF NamesLostBatch, StartsRun
  <2> QED BY <2>2, <2>3
<1>10. CASE ignored
  BY <1>2, <1>6, <1>10, <1>8, <1>9
<1>11. CASE stored
  <2>1. steps' = AddStepSteps(ss, q, enabled)
    BY <1>2, <1>11
  <2>2. AllSound(steps') /\ Moves(ss, steps') /\ NoneLost(ss, steps') /\ GivesUp(ss, steps', q)
    BY <1>4, <1>5, <1>6, <1>11, <2>1, AddStepStepsSound
  <2>3. Moves(steps, steps') /\ NoneLost(steps, steps')
    BY <1>6, <1>8, <2>2, MovesTrans DEF NoneLost
  <2>4. GivesUp(steps, steps', q)
    BY <1>1, <1>6, <2>2 DEF GivesUp, Absent
  <2> QED BY <2>2, <2>3, <2>4
<1>12. CASE ~ignored /\ AddStepFails(q)
  <2>1. PICK u : u = Attributed(ss[q.step], q)
    OBVIOUS
  <2>2. steps' = [ss EXCEPT ![q.step] = u]
    BY <1>2, <1>12, <2>1
  <2>3. StepOK(ss[q.step]) /\ OfBatch(q.step, ss[q.step])
    BY <1>1, <1>6 DEF AllSound, Sound
  <2>4. /\ StepOK(u) /\ SameRest(ss[q.step], u) /\ u.remove = ss[q.step].remove
        /\ u.status = ss[q.step].status /\ u.stakeholders = ss[q.step].stakeholders
        /\ u.batch_id = IF q.batch_id # {} THEN q.batch_id ELSE ss[q.step].batch_id
        /\ u.worker_running = IF StartsRun(ss[q.step], q) THEN q.worker
                                                          ELSE ss[q.step].worker_running
    BY <1>1, <2>1, <2>3, AttributedRest, AttributedOK
  <2>5. StartsRun(ss[q.step], q)
    BY <1>4, <1>12 DEF NamesLostBatch
  <2>6. ss[q.step].status \notin ActiveStatuses
    BY <2>3, <2>5 DEF StartsRun, StepOK
  <2>7. Sound(q.step, u) /\ Unmoved(ss[q.step], u)
    <3>1. q.batch_id \in Batches /\ q.step = Runner(q.batch_id)
      BY <2>5 DEF StartsRun, BatchCall
    <3>2. u.batch_id = q.batch_id
      BY <2>4, <3>1, BatchType
    <3>3. Sound(q.step, ss[q.step])
      BY <1>1, <1>6 DEF AllSound
    <3>4. OfBatch(q.step, u)
      BY <2>3, <2>4, <2>6, <3>1, <3>2 DEF OfBatch, SameRest, ActiveStatuses
    <3>5. q.step \in Runners => Stays(u)
      BY <2>4, <3>3 DEF Sound, Stays
    <3> QED BY <2>4, <2>6, <3>4, <3>5 DEF Sound, Unmoved
  <2>8. \A x \in Steps : steps'[x] = IF x = q.step THEN u ELSE ss[x]
    BY <1>6, <2>2
  <2>9. AllSound(steps') /\ \A x \in Steps : Unmoved(ss[x], steps'[x])
    BY <1>6, <2>7, <2>8 DEF AllSound, Unmoved
  <2>10. Moves(ss, steps')
    BY <1>6, <2>9, UnmovedMoves
  <2>11. Moves(steps, steps')
    BY <1>6, <2>10, MovesTrans
  <2>12. NoneLost(ss, steps')
    BY <2>4, <2>8 DEF NoneLost
  <2>13. NoneLost(steps, steps')
    BY <1>8, <2>12 DEF NoneLost
  <2> QED BY <1>12, <1>9, <2>9, <2>11, <2>13
<1> QED BY <1>10, <1>11, <1>12

-----------------------------------------------------------------------------
(* get_work. *)

\* Members of a batch that its runner does not run for are no reason to think so.
NotMisled(ss) ==
    \A m, x \in Steps :
        ss[m].status = "BATCH_RUNNING" /\ RunsFor(ss[x], ss[m].batch_id, ss[m].worker_running)
            => Drives(ss, ss[m].batch_id)

LEMMA MovesNotMisled ==
    ASSUME NEW ss, NEW ss2, NotMisled(ss), Moves(ss, ss2)
    PROVE  NotMisled(ss2)
<1> SUFFICES ASSUME NEW m \in Steps, NEW x \in Steps, ss2[m].status = "BATCH_RUNNING",
                    RunsFor(ss2[x], ss2[m].batch_id, ss2[m].worker_running)
             PROVE  Drives(ss2, ss2[m].batch_id)
  BY DEF NotMisled
<1>1. Follows(ss, ss2, m)
  BY DEF Moves
<1> QED BY <1>1 DEF Follows, NotMisled

\* _reset_orphaned_batch_running_steps leaves w only members whose runner runs.
LEMMA ResetSound ==
    ASSUME RunnersApart, NEW ss, AllSound(ss), NotMisled(ss), NEW w,
           NEW ss2, ss2 = ResetOrphanedSteps(ss, w)
    PROVE  /\ AllSound(ss2) /\ Moves(ss, ss2)
           /\ \A x \in Steps : /\ ss2[x].priority = ss[x].priority
                               /\ ss2[x].status = Absent <=> ss[x].status = Absent
           /\ \A m \in Steps : ss2[m].status = "BATCH_RUNNING" /\ ss2[m].worker_running = w
                                   => Drives(ss2, ss2[m].batch_id)
<1>1. \A x \in Steps : ss2[x] = IF x \in OrphanedSteps(ss, w)
                                THEN SetOwnStatus(ss[x], "PENDING") ELSE ss[x]
  BY DEF ResetOrphanedSteps
<1>2. ASSUME NEW x \in OrphanedSteps(ss, w)
      PROVE  /\ x \in Steps /\ ss[x].status = "BATCH_RUNNING" /\ Sound(x, ss2[x])
             /\ ss2[x].status = "PENDING" /\ ss2[x].priority = ss[x].priority
  <2>1. x \in Steps /\ ss[x].status = "BATCH_RUNNING"
    BY <1>2 DEF OrphanedSteps, WithStatus
  <2>2. ss2[x] = SetOwnStatus(ss[x], "PENDING")
    BY <1>1, <1>2, <2>1
  <2>3. StepOK(ss[x]) /\ OfBatch(x, ss[x]) /\ ss[x] \in StepRecords
    BY <2>1 DEF AllSound, Sound, StepOK
  <2>4. StepOK(ss2[x]) /\ Changes(ss[x], ss2[x], "PENDING")
    <3>1. "PENDING" \in Statuses /\ "PENDING" \notin ActiveStatuses
      BY DEF Statuses, ActiveStatuses
    <3>2. StepOK(ss2[x])
      BY <2>2, <2>3, <3>1, SetOwnStatusOK DEF ActiveStatuses
    <3>3. Changes(ss[x], ss2[x], "PENDING")
      BY <2>2, <2>3, <3>1, SetOwnStatusType
    <3> QED BY <3>2, <3>3
  <2>5. SameRest(ss[x], ss2[x]) /\ ss2[x].status \in {"BATCH_RUNNING", "PENDING"}
    BY <2>1, <2>2, <2>3, SetOwnStatusRest DEF Statuses
  <2>6. ss2[x].status = "PENDING" /\ ss2[x].batch_id = ss[x].batch_id
    BY <2>1, <2>4, <2>5 DEF Changes, ActiveStatuses
  <2>7. x \notin Runners
    <3>1. x \in ss[x].batch_id /\ ss[x].batch_id \in Batches
      BY <2>1, <2>3 DEF OfBatch, StepOK
    <3> QED BY <3>1, BatchType
  <2> QED BY <2>1, <2>3, <2>4, <2>5, <2>6, <2>7 DEF Sound, OfBatch, SameRest
<1>3. AllSound(ss2)
  BY <1>1, <1>2 DEF AllSound
<1>4. \A x \in Steps : ss2[x].status \in ActiveStatuses => ss2[x] = ss[x]
  BY <1>1, <1>2 DEF ActiveStatuses
<1>5. \A x \in Steps : ss[x].status = "RUNNING" => ss2[x] = ss[x]
  BY <1>1, <1>2
<1>6. ASSUME NEW m \in Steps, ss2[m].status = "BATCH_RUNNING"
      PROVE  Follows(ss, ss2, m)
  <2>1. ss2[m] = ss[m]
    BY <1>4, <1>6 DEF ActiveStatuses
  <2>2. Runner(ss2[m].batch_id) \in Steps
    BY <1>6, <2>1, BatchType DEF AllSound, Sound, OfBatch, StepOK
  <2> QED BY <1>4, <1>5, <1>6, <2>1, <2>2 DEF Follows, Drives, RunsFor, ActiveStatuses
<1>7. Moves(ss, ss2)
  BY <1>6 DEF Moves
<1>8. ASSUME NEW m \in Steps, ss2[m].status = "BATCH_RUNNING", ss2[m].worker_running = w
      PROVE  Drives(ss2, ss2[m].batch_id)
  <2>1. ss2[m] = ss[m] /\ m \notin OrphanedSteps(ss, w)
    BY <1>2, <1>4, <1>8 DEF ActiveStatuses
  <2>2. PICK x \in Steps : RunsFor(ss[x], ss[m].batch_id, w)
    BY <1>8, <2>1 DEF OrphanedSteps, WithStatus, RunsFor
  <2>3. Drives(ss, ss[m].batch_id)
    BY <1>8, <2>1, <2>2 DEF NotMisled
  <2> QED BY <1>6, <1>8, <2>1, <2>3 DEF Follows
<1>9. \A x \in Steps : /\ ss2[x].priority = ss[x].priority
                       /\ ss2[x].status = Absent <=> ss[x].status = Absent
  BY <1>1, <1>2 DEF Absent
<1> QED BY <1>3, <1>7, <1>8, <1>9

\* What get_work may hand out to w: nothing, a step that runs on w or that w can perform,
\* or a batch of PENDING steps.
Handed(ss, w, work) ==
    \/ work = {}
    \/ \E s \in Steps : /\ work = {s}
                        /\ \/ ss[s].status = "RUNNING" /\ ss[s].worker_running = w
                           \/ ss[s].status = "PENDING" /\ w \in ss[s].workers
    \/ work \in Batches /\ \A m \in work : ss[m].status = "PENDING"

LEMMA WorkHanded ==
    ASSUME IInv, Ordered, IsFiniteSet(Steps), NEW ss, AllSound(ss),
           \A x \in Steps : /\ ss[x].priority = steps[x].priority
                            /\ ss[x].status # "ABSENT" => steps[x].status # "ABSENT",
           NEW ws, NEW w, NEW current_steps, NEW pick,
           NEW assistant \in BOOLEAN, ~assistant,
           NEW work, work = Work(ss, ws, w, assistant, current_steps, pick)
    PROVE  Handed(ss, w, work)
<1> DEFINE unclaimed == UnclaimedSteps(ss, w, current_steps)
           best == IF paused THEN {} ELSE BestStep(ss, ws, w, assistant, pick)
<1>1. \A s, t \in Steps : Outranks(ss, s, t) <=> Outranks(steps, s, t)
  BY DEF Outranks
<1>2. CASE unclaimed # {}
  <2>1. work = {s \in unclaimed : \A t \in unclaimed \ {s} : Outranks(ss, s, t)}
    BY <1>2, Zenon DEF Work
  <2>2. unclaimed \subseteq Present(steps) /\ unclaimed \subseteq Steps
        /\ \A s \in unclaimed : ss[s].status = "RUNNING" /\ ss[s].worker_running = w
    BY DEF UnclaimedSteps, WithStatus, Present, Absent
  <2> HIDE DEF unclaimed
  <2>3. \A s, t \in work : s = t
    <3> SUFFICES ASSUME NEW s \in work, NEW t \in work, s # t PROVE FALSE
      OBVIOUS
    <3>1. Outranks(steps, s, t) /\ Outranks(steps, t, s)
      BY <1>1, <2>1, <2>2
    <3> QED BY <2>1, <2>2, <3>1, OutranksOrders
  <2>4. ASSUME NEW s \in work PROVE Handed(ss, w, work)
    <3>1. work = {s} /\ s \in unclaimed
      BY <2>1, <2>3, <2>4
    <3> QED BY <2>2, <3>1 DEF Handed
  <2> QED BY <2>4 DEF Handed
<1>3. CASE unclaimed = {}
  <2>1. work = UNION {BatchWith(ss, ws, w, s) : s \in best}
    BY <1>3, Zenon DEF Work
  <2>2. CASE best = {}
    BY <2>1, <2>2 DEF Handed
  <2>3. CASE best # {}
    <3>1. PICK b : b \in BestStep(ss, ws, w, assistant, pick)
      BY <2>3
    <3>2. PICK queue \in Queues(ss, ws, w) : \E taken \in SUBSET (1..Cardinality(queue)) :
              /\ \A i \in taken :
                    Takeable(ss, Place(ss, queue, i), w, assistant)
              /\ BestStep(ss, ws, w, assistant, pick) =
                     IF taken = {} THEN {} ELSE NthInQueue(ss, queue, Min(taken))
      BY BestStepShape, Z3
    <3>3. PICK taken \in SUBSET (1..Cardinality(queue)) :
              /\ \A i \in taken :
                    Takeable(ss, Place(ss, queue, i), w, assistant)
              /\ BestStep(ss, ws, w, assistant, pick) =
                     IF taken = {} THEN {} ELSE NthInQueue(ss, queue, Min(taken))
      BY <3>2
    <3>4. taken # {} /\ b \in NthInQueue(ss, queue, Min(taken))
      BY <3>1, <3>3
    <3>5. Min(taken) \in taken
      BY <3>4, MinIsIn
    <3>6. queue \in SUBSET Present(steps) /\ queue \subseteq Steps
      BY QueueType DEF WithStatus, Present, Absent
    <3>7. NthInQueue(ss, queue, Min(taken)) = NthInQueue(steps, queue, Min(taken))
      <4>1. \A s \in queue : {t \in queue : Outranks(ss, t, s)} =
                                 {t \in queue : Outranks(steps, t, s)}
        BY <1>1, <3>6
      <4> QED BY <4>1 DEF NthInQueue
    <3>8. \A a \in NthInQueue(ss, queue, Min(taken)) : a = b
      BY <3>4, <3>6, <3>7, NthIsOne
    <3>9. Place(ss, queue, Min(taken)) = b
      BY <3>4, <3>8 DEF Place
    <3>10. Takeable(ss, b, w, assistant) /\ b \in Steps
      BY <3>3, <3>4, <3>5, <3>6, <3>9 DEF NthInQueue
    <3>11. ss[b].status = "PENDING" /\ w \in ss[b].workers
      BY <3>10 DEF Takeable, Schedulable
    <3>12. best = {b}
      BY <2>3, <3>1, <3>3, <3>4, <3>8
    <3>13. work = BatchWith(ss, ws, w, b)
      BY <2>1, <3>12
    <3>14. work = {b} \/ \A m \in work : m \in Steps /\ ss[m].status = "PENDING" /\ ss[m].batchable
      BY <3>10, <3>11, <3>13 DEF BatchWith, Schedulable, GetSteps, WithStatus
    <3>15. b \in work
      BY <3>13 DEF BatchWith
    <3>16. CASE work # {b}
      <4>1. work \in SUBSET {s \in Steps : IsBatchable(s)}
        BY <3>14, <3>16 DEF AllSound, Sound, OfBatch
      <4>2. IsFiniteSet(work)
        BY <4>1, FS_Subset
      <4>3. Cardinality(work) > 1
        <5>1. Cardinality(work) \in Nat
          BY <4>2, FS_CardinalityType
        <5>2. Cardinality(work) # 0
          BY <3>15, <4>2, FS_EmptySet
        <5>3. Cardinality(work) # 1
          BY <3>15, <3>16, <4>2, FS_Singleton
        <5> QED BY <5>1, <5>2, <5>3
      <4> QED BY <3>14, <3>16, <4>1, <4>3 DEF Handed, Batches
    <3> QED BY <3>10, <3>11, <3>16 DEF Handed
  <2> QED BY <2>2, <2>3
<1> QED BY <1>2, <1>3

LEMMA SetRunningRest ==
    ASSUME NEW t, StepOK(t), t.status # "DISABLED", NEW w \in Workers,
           NEW u, u = SetRunning(t, w)
    PROVE  /\ StepOK(u) /\ SameHolders(t, u) /\ SameRest(t, u)
           /\ u.status = "RUNNING" /\ u.worker_running = w /\ u.batch_id = t.batch_id
           /\ u.remove = t.remove
<1>1. PICK v : v = SetOwnStatus(t, "RUNNING")
  OBVIOUS
<1>2. t \in StepRecords /\ "RUNNING" \in Statuses /\ "RUNNING" # "DISABLED"
  BY DEF StepOK, Statuses
<1>3. v \in StepRecords /\ Changes(t, v, "RUNNING")
  BY <1>1, <1>2, SetOwnStatusType
<1>4. SameRest(t, v) /\ v.status \in {t.status, "RUNNING"}
      /\ (v.remove = t.remove \/ (v.remove = 0 /\ v.status = "FAILED"))
  BY <1>1, <1>2, SetOwnStatusRest
<1>5. v.status = "RUNNING"
  BY <1>1 DEF SetOwnStatus, RefusesStatus, StatusStored, StepOK, StepRecords,
              ClearFailures, AddFailure
<1>6. u = [v EXCEPT !.worker_running = w, !.resources_running = t.resources]
  BY <1>1 DEF SetRunning
<1>7. /\ u.status = v.status /\ u.worker_running = w /\ u.batch_id = v.batch_id
      /\ u.remove = v.remove /\ SameRest(v, u)
  BY <1>3, <1>6 DEF StepRecords, SameRest
<1>8. StepOK(u) /\ SameHolders(t, u)
  BY SetRunningOK
<1> QED BY <1>3, <1>4, <1>5, <1>7, <1>8 DEF Changes, SameRest

LEMMA SetBatchRunningRest ==
    ASSUME NEW t, StepOK(t), NEW batch \in SUBSET Steps, batch # {}, NEW w \in Workers,
           NEW u, u = SetBatchRunning(t, batch, w)
    PROVE  /\ StepOK(u) /\ SameRest(t, u) /\ u.batch_id = batch /\ u.worker_running = w
           /\ u.status \in {t.status, "BATCH_RUNNING"}
<1>1. PICK v : v = SetOwnStatus(t, "BATCH_RUNNING")
  OBVIOUS
<1>2. t \in StepRecords /\ "BATCH_RUNNING" \in Statuses
  BY DEF StepOK, Statuses
<1>3. v \in StepRecords
  BY <1>1, <1>2, SetOwnStatusType
<1>4. SameRest(t, v) /\ v.status \in {t.status, "BATCH_RUNNING"}
  BY <1>1, <1>2, SetOwnStatusRest
<1>5. u = [v EXCEPT !.batch_id = batch, !.worker_running = w, !.resources_running = Shared]
  BY <1>1 DEF SetBatchRunning
<1>6. /\ u.status = v.status /\ u.worker_running = w /\ u.batch_id = batch /\ SameRest(v, u)
  BY <1>3, <1>5 DEF StepRecords, SameRest
<1>7. StepOK(u)
  BY SetBatchRunningOK
<1> QED BY <1>4, <1>6, <1>7 DEF SameRest

\* After get_work handed `work' to w: a member of a batch is one of this batch, or was one
\* before and has kept its runner; w knows of the batches of all others.
Hands(ss, ss2, w, work) ==
    \A m \in Steps : ss2[m].status = "BATCH_RUNNING" =>
        LET b == ss2[m].batch_id
        IN  \/ /\ m \in work /\ work \in Batches
               /\ b = work /\ ss2[m].worker_running = w
            \/ /\ ss[m].status = "BATCH_RUNNING" /\ ss[m].batch_id = b
               /\ ss[m].worker_running = ss2[m].worker_running
               /\ Drives(ss, b) \/ ss[m].worker_running = w => Drives(ss2, b)

\* The same steps are in _steps.
SameSteps(ss, ss2) == \A x \in Steps : ss2[x].status = Absent <=> ss[x].status = Absent

\* A step that get_work hands out alone runs on w then.
LEMMA HandOutOneSound ==
    ASSUME RunnersApart, NEW ss, AllSound(ss), NEW w \in Workers,
           \A m \in Steps : ss[m].status = "BATCH_RUNNING" /\ ss[m].worker_running = w
                                => Drives(ss, ss[m].batch_id),
           NEW s \in Steps,
           \/ ss[s].status = "RUNNING" /\ ss[s].worker_running = w
           \/ ss[s].status = "PENDING" /\ w \in ss[s].workers,
           NEW ss2, \A x \in Steps : ss2[x] = IF x = s THEN SetRunning(ss[s], w) ELSE ss[x]
    PROVE  /\ AllSound(ss2) /\ Moves(ss, ss2)
           /\ SameSteps(ss, ss2)
<1>1. PICK t : t = ss[s]
  OBVIOUS
<1>2. PICK u : u = SetRunning(t, w)
  OBVIOUS
<1>3. Sound(s, t) /\ StepOK(t) /\ OfBatch(s, t) /\ (s \in Runners => Stays(t))
  BY <1>1 DEF AllSound, Sound
<1>4. /\ StepOK(u) /\ SameHolders(t, u) /\ SameRest(t, u) /\ u.status = "RUNNING"
      /\ u.worker_running = w /\ u.batch_id = t.batch_id /\ u.remove = t.remove
  BY <1>1, <1>2, <1>3, SetRunningRest
<1>5. s \in Runners => Stays(u)
  <2>1. ASSUME s \in Runners PROVE u.remove = None
    <3>1. t.status = "PENDING" => t.stakeholders # {}
      BY <1>1, <1>3 DEF StepOK
    <3> QED BY <1>1, <1>3, <1>4, <2>1, <3>1 DEF Stays
  <2> QED BY <2>1 DEF Stays
<1>6. Sound(s, u)
  BY <1>3, <1>4, <1>5 DEF Sound, OfBatch, SameRest
<1>7. AllSound(ss2)
  BY <1>1, <1>2, <1>6 DEF AllSound
<1>8. ASSUME NEW m \in Steps, ss2[m].status = "BATCH_RUNNING"
      PROVE  Follows(ss, ss2, m)
  <2>1. m # s /\ ss2[m] = ss[m]
    BY <1>1, <1>2, <1>4, <1>8
  <2>2. PICK b : b = ss2[m].batch_id
    OBVIOUS
  <2>3. Runner(b) \in Steps
    BY <1>8, <2>1, <2>2, BatchType DEF AllSound, Sound, OfBatch, StepOK
  <2>4. Drives(ss, b) => Drives(ss2, b)
    BY <1>1, <1>2, <1>4, <2>3 DEF Drives
  <2>5. ASSUME NEW x \in Steps, RunsFor(ss2[x], b, ss2[m].worker_running)
        PROVE  RunsFor(ss[x], b, ss2[m].worker_running) \/ Drives(ss2, b)
    <3>1. CASE x = s
      <4>1. ss[m].worker_running = w
        BY <1>1, <1>2, <1>4, <2>1, <2>5, <3>1 DEF RunsFor
      <4> QED BY <1>8, <2>1, <2>2, <2>4, <4>1
    <3>2. CASE x # s
      BY <2>5, <3>2
    <3> QED BY <3>1, <3>2
  <2> QED BY <1>8, <2>1, <2>2, <2>4, <2>5 DEF Follows
<1>9. SameSteps(ss, ss2)
  BY <1>1, <1>2, <1>4 DEF SameSteps, Absent
<1> QED BY <1>7, <1>8, <1>9 DEF Moves

LEMMA HandOutBatchSound ==
    ASSUME RunnersApart, NEW ss, AllSound(ss), NotMisled(ss), NEW w \in Workers,
           NEW work \in Batches, \A m \in work : ss[m].status = "PENDING",
           NEW ss2, \A x \in Steps : ss2[x] = IF x \in work THEN SetBatchRunning(ss[x], work, w)
                                                            ELSE ss[x]
    PROVE  /\ AllSound(ss2) /\ NotMisled(ss2)
           /\ \A b \in Batches : Drives(ss, b) => Drives(ss2, b)
           /\ SameSteps(ss, ss2)
<1>1. /\ work \in SUBSET Steps /\ work # {} /\ work \cap Runners = {}
      /\ \A x \in work : IsBatchable(x)
  BY BatchType DEF Batches
<1>2. ASSUME NEW x \in work
      PROVE  /\ Sound(x, ss2[x]) /\ ss2[x].batch_id = work /\ ss2[x].worker_running = w
             /\ ss2[x].status \in {"PENDING", "BATCH_RUNNING"}
  <2>1. x \in Steps /\ ss2[x] = SetBatchRunning(ss[x], work, w) /\ ss[x].status = "PENDING"
    BY <1>1, <1>2
  <2>2. StepOK(ss[x]) /\ OfBatch(x, ss[x])
    BY <2>1 DEF AllSound, Sound
  <2>3. /\ StepOK(ss2[x]) /\ SameRest(ss[x], ss2[x]) /\ ss2[x].batch_id = work
        /\ ss2[x].worker_running = w /\ ss2[x].status \in {"PENDING", "BATCH_RUNNING"}
    BY <1>1, <2>1, <2>2, SetBatchRunningRest
  <2> QED BY <1>1, <1>2, <2>2, <2>3 DEF Sound, OfBatch, SameRest
<1>3. \A x \in Steps : ss2[x].status = "RUNNING" => x \notin work /\ ss2[x] = ss[x]
  BY <1>2
<1>4. \A x \in Steps : ss[x].status = "RUNNING" => ss2[x] = ss[x]
  BY <1>1
<1>5. AllSound(ss2)
  BY <1>2 DEF AllSound
<1>6. \A b \in Batches : Drives(ss, b) => Drives(ss2, b)
  BY <1>4, BatchType DEF Drives
<1>7. ASSUME NEW m \in Steps, NEW x \in Steps, ss2[m].status = "BATCH_RUNNING",
             RunsFor(ss2[x], ss2[m].batch_id, ss2[m].worker_running)
      PROVE  Drives(ss2, ss2[m].batch_id)
  <2>1. ss2[x] = ss[x] /\ x \notin work
    BY <1>3, <1>7 DEF RunsFor
  <2>2. CASE m \in work
    <3>1. ss2[x].batch_id = work
      BY <1>2, <1>7, <2>2 DEF RunsFor
    <3>2. x = Runner(work)
      BY <1>1, <1>5, <2>1, <3>1 DEF AllSound, Sound, OfBatch
    <3> QED BY <1>2, <1>7, <2>2, <3>1, <3>2 DEF Drives, RunsFor
  <2>3. CASE m \notin work
    <3>1. ss2[m] = ss[m]
      BY <2>3
    <3>2. Drives(ss, ss[m].batch_id)
      BY <1>7, <2>1, <3>1 DEF NotMisled
    <3>3. ss[m].batch_id \in Batches
      BY <1>7, <3>1 DEF AllSound, Sound, OfBatch, StepOK
    <3> QED BY <1>6, <3>1, <3>2, <3>3
  <2> QED BY <2>2, <2>3
<1>8. SameSteps(ss, ss2)
  BY <1>1, <1>2 DEF SameSteps, Absent
<1> QED BY <1>5, <1>6, <1>7, <1>8 DEF NotMisled

LEMMA HandOutSound ==
    ASSUME RunnersApart, NEW ss, AllSound(ss), NotMisled(ss), NEW w \in Workers,
           \A m \in Steps : ss[m].status = "BATCH_RUNNING" /\ ss[m].worker_running = w
                                => Drives(ss, ss[m].batch_id),
           NEW work, Handed(ss, w, work), NEW ss2, ss2 = HandOut(ss, w, work)
    PROVE  /\ AllSound(ss2) /\ NotMisled(ss2) /\ Hands(ss, ss2, w, work)
           /\ SameSteps(ss, ss2)
<1>1. \A x \in Steps : ss2[x] =
          CASE x \in work /\ Cardinality(work) > 1 -> SetBatchRunning(ss[x], work, w)
            [] x \in work /\ Cardinality(work) = 1 -> SetRunning(ss[x], w)
            [] OTHER -> ss[x]
  BY DEF HandOut
<1>2. \A m \in Steps : ss[m].status = "BATCH_RUNNING" =>
          ss[m].batch_id \in Batches /\ Runner(ss[m].batch_id) \in Steps
  BY BatchType DEF AllSound, Sound, OfBatch, StepOK
<1>3. CASE work = {}
  <2>1. \A x \in Steps : ss2[x] = ss[x]
    BY <1>1, <1>3
  <2> QED BY <1>2, <2>1 DEF AllSound, NotMisled, Hands, Drives, RunsFor, SameSteps
<1>4. ASSUME NEW s \in Steps, work = {s},
             \/ ss[s].status = "RUNNING" /\ ss[s].worker_running = w
             \/ ss[s].status = "PENDING" /\ w \in ss[s].workers
      PROVE  /\ AllSound(ss2) /\ NotMisled(ss2) /\ Hands(ss, ss2, w, work)
            /\ SameSteps(ss, ss2)
  <2>1. Cardinality(work) = 1
    BY <1>4, FS_Singleton
  <2>2. \A x \in Steps : ss2[x] = IF x = s THEN SetRunning(ss[s], w) ELSE ss[x]
    BY <1>1, <1>4, <2>1
  <2>3. /\ AllSound(ss2) /\ Moves(ss, ss2)
        /\ SameSteps(ss, ss2)
    BY <1>4, <2>2, HandOutOneSound
  <2>4. NotMisled(ss2)
    BY <2>3, MovesNotMisled
  <2>5. Hands(ss, ss2, w, work)
    BY <2>3 DEF Moves, Follows, Hands
  <2> QED BY <2>3, <2>4, <2>5
<1>5. CASE work \in Batches /\ \A m \in work : ss[m].status = "PENDING"
  <2>1. Cardinality(work) > 1
    BY <1>5 DEF Batches
  <2>2. \A x \in Steps : ss2[x] = IF x \in work THEN SetBatchRunning(ss[x], work, w) ELSE ss[x]
    BY <1>1, <2>1
  <2>3. /\ AllSound(ss2) /\ NotMisled(ss2)
        /\ \A b \in Batches : Drives(ss, b) => Drives(ss2, b)
        /\ SameSteps(ss, ss2)
    BY <1>5, <2>2, HandOutBatchSound
  <2>4. \A m \in work : m \in Steps => ss2[m].batch_id = work /\ ss2[m].worker_running = w
    <3>1. work \in SUBSET Steps /\ work # {}
      BY <1>5, BatchType
    <3> QED BY <2>2, <3>1, SetBatchRunningRest DEF AllSound, Sound
  <2> QED BY <1>2, <1>5, <2>2, <2>3, <2>4 DEF Hands
<1> QED BY <1>3, <1>4, <1>5 DEF Handed

LEMMA GetWorkSound ==
    ASSUME RunnersApart, IInv, Ordered, IsFiniteSet(Steps), AllSound(steps), NotMisled(steps),
           NEW w \in Workers, NEW current_steps, NEW assistant \in BOOLEAN, ~assistant,
           NEW work, GetWork(w, assistant, current_steps, work)
    PROVE  /\ AllSound(steps') /\ NotMisled(steps') /\ SamePresent
           /\ Hands(steps, steps', w, work) \/ (work = {} /\ steps' = steps)
           /\ Cardinality(work) > 1 => work \in Batches
<1>1. PICK touched : touched = UpdateWorker(workers, w, TRUE)
  OBVIOUS
<1>4. PICK ss : ss = ResetOrphanedSteps(steps, w)
  OBVIOUS
<1>5. /\ work \in HandOuts(w, assistant, current_steps)
      /\ IF touched[w].disabled THEN steps' = steps ELSE steps' = HandOut(ss, w, work)
  BY <1>1, <1>4 DEF GetWork
<1>7. CASE touched[w].disabled
  <2>1. work = {} /\ steps' = steps
    BY <1>1, <1>5, <1>7, HandOutsShape
  <2> QED BY <2>1, FS_EmptySet DEF SamePresent
<1>8. CASE ~touched[w].disabled
  <2>1. ASSUME work # {}
        PROVE  \E ws, pick : work = Work(ss, ws, w, assistant, current_steps, pick)
    <3>1. HandedOut(work, w, assistant, current_steps)
      BY <1>5, <2>1, HandOutsShape
    <3> QED BY <1>4, <3>1 DEF HandedOut
  <2>2. /\ AllSound(ss) /\ Moves(steps, ss)
        /\ \A x \in Steps : /\ ss[x].priority = steps[x].priority
                            /\ ss[x].status = Absent <=> steps[x].status = Absent
        /\ \A m \in Steps : ss[m].status = "BATCH_RUNNING" /\ ss[m].worker_running = w
                                => Drives(ss, ss[m].batch_id)
    BY <1>4, ResetSound
  <2>3. Handed(ss, w, work)
    <3>1. \A x \in Steps : ss[x].status # "ABSENT" => steps[x].status # "ABSENT"
      BY <2>2 DEF Absent
    <3>2. CASE work = {}
      BY <3>2 DEF Handed
    <3>3. CASE work # {}
      <4>1. PICK ws, pick : work = Work(ss, ws, w, assistant, current_steps, pick)
        BY <2>1, <3>3
      <4> QED BY <2>2, <3>1, <4>1, WorkHanded
    <3> QED BY <3>2, <3>3
  <2>4. NotMisled(ss)
    BY <2>2, MovesNotMisled
  <2>5. /\ AllSound(steps') /\ NotMisled(steps') /\ Hands(ss, steps', w, work)
        /\ SameSteps(ss, steps')
    BY <1>5, <1>8, <2>2, <2>3, <2>4, HandOutSound
  <2>6. Hands(steps, steps', w, work)
    <3> SUFFICES ASSUME NEW m \in Steps, steps'[m].status = "BATCH_RUNNING",
                        ~(/\ m \in work /\ work \in Batches
                          /\ steps'[m].batch_id = work /\ steps'[m].worker_running = w)
                 PROVE  /\ steps[m].status = "BATCH_RUNNING"
                        /\ steps[m].batch_id = steps'[m].batch_id
                        /\ steps[m].worker_running = steps'[m].worker_running
                        /\ Drives(steps, steps'[m].batch_id) \/ steps[m].worker_running = w
                               => Drives(steps', steps'[m].batch_id)
      BY DEF Hands
    <3>1. /\ ss[m].status = "BATCH_RUNNING" /\ ss[m].batch_id = steps'[m].batch_id
          /\ ss[m].worker_running = steps'[m].worker_running
          /\ Drives(ss, steps'[m].batch_id) \/ ss[m].worker_running = w
                 => Drives(steps', steps'[m].batch_id)
      BY <2>5 DEF Hands
    <3>2. Follows(steps, ss, m)
      BY <2>2, <3>1 DEF Moves
    <3> QED BY <3>1, <3>2 DEF Follows
  <2>7. Cardinality(work) > 1 => work \in Batches
    <3>1. \A s : Cardinality({s}) = 1 /\ Cardinality({}) = 0
      BY FS_EmptySet, FS_Singleton
    <3>2. work = {} \/ work \in Batches \/ \E s : work = {s}
      BY <2>3, Zenon DEF Handed
    <3> QED BY <3>1, <3>2
  <2>8. SamePresent
    BY <2>2, <2>5 DEF SamePresent, SameSteps
  <2> QED BY <2>5, <2>6, <2>7, <2>8
<1> QED BY <1>7, <1>8

-----------------------------------------------------------------------------
(* The workers.  The setting is that of batches run by workers that may lose  *)
(* replies, receive what they cannot load, and die; nobody waits for a        *)
(* runner, and no step yields dependencies or misses one.                     *)

BatchSetting ==
    /\ IsFiniteSet(Steps) /\ AssistantWorkers = {} /\ RunnersApart
    /\ Behaviours \cap {"repeat", "missing", "track", "forgive", "disable_worker"} = {}
    /\ \A s \in Steps : Yields(s) = {} /\ Requires(s) \cap Runners = {}

LEMMA LoadErrorBatchCall ==
    ASSUME NEW w \in Workers, NEW s \in Steps, NEW q, q = LoadErrorRequest(w, s)
    PROVE  BatchCall(q) /\ q.worker = w /\ q.step = s /\ q.status = "FAILED"
<1>1. q \in Calls
  BY LoadErrorRequestType
<1> QED BY <1>1 DEF LoadErrorRequest, TrackingRequest, BatchCall

LEMMA StartBatchCall ==
    ASSUME NEW w \in Workers, NEW b \in Batches, NEW q, q = StartRequest(w, b)
    PROVE  BatchCall(q) /\ q.worker = w /\ q.step = Runner(b) /\ q.batch_id = b
<1>1. b \in SUBSET Steps
  BY DEF Batches
<1>2. q \in Calls
  BY <1>1, StartRequestType
<1> QED BY <1>2 DEF StartRequest, TrackingRequest, BatchCall

LEMMA ScheduledBatchCall ==
    ASSUME BatchSetting, NEW w \in Workers, NEW s \in Steps, NEW status \in Claims,
           NEW deps \in DepsSent(s, status), NEW q, q = Scheduled(w, s, status, deps)
    PROVE  BatchCall(q) /\ q.worker = w /\ q.step = s
<1>1. q \in Calls /\ status # "RUNNING"
  BY ScheduleRequestType, ClusterAssumption DEF ClusterAssumption
<1>2. PICK runnable, count : q = [TrackingRequest(w, s) EXCEPT
          !.status = status, !.deps = deps, !.runnable = runnable, !.resources = Need(s),
          !.priority = Priority(s), !.batchable = IsBatchable(s), !.retry_count = count]
  BY DEF Scheduled, ScheduleRequest
<1>3. /\ q.worker = w /\ q.step = s /\ q.status = status /\ q.new_deps = {} /\ q.deps = deps
      /\ q.batch_id = {} /\ q.assistant = FALSE /\ q.batchable = IsBatchable(s)
  BY <1>2 DEF TrackingRequest
<1>4. deps = None \/ deps \cap Runners = {}
  BY DEF BatchSetting, DepsSent
<1> QED BY <1>1, <1>3, <1>4 DEF BatchCall

LEMMA OutcomeBatchCall ==
    ASSUME BatchSetting, NEW w \in Workers, NEW s \in Steps, NEW status \in Endings,
           NEW q, q = Outcome(w, s, status, {})
    PROVE  BatchCall(q)
<1>1. status \in {"DONE", "FAILED", "PENDING"} /\ status # "RUNNING" /\ {} \in SUBSET Steps
  BY ClusterAssumption DEF ClusterAssumption
<1>2. q \in Calls
  BY <1>1, OutcomeType
<1>3. PICK assistant \in BOOLEAN : assistant = (w \in AssistantWorkers)
  <2>1. (w \in AssistantWorkers) \in BOOLEAN
    OBVIOUS
  <2> QED BY <2>1, Zenon
<1>4. ~assistant
  BY <1>3 DEF BatchSetting
<1>5. q = [TrackingRequest(w, s) EXCEPT
              !.status = status, !.runnable = FALSE, !.new_deps = {},
              !.resources = Need(s), !.assistant = assistant, !.retry_count = RetryCount(s)]
  BY <1>3 DEF Outcome, ReportRequest
<1>6. /\ q.status = status /\ q.new_deps = {} /\ q.deps = None
      /\ q.batch_id = {} /\ q.assistant = assistant /\ q.batchable = None
  BY <1>5 DEF TrackingRequest
<1> QED BY <1>1, <1>2, <1>4, <1>6 DEF BatchCall

\* No worker is disabled but by disable_worker.
EnabledKept == \A w \in Workers : workers'[w].disabled => workers[w].disabled

LEMMA AddStepEnabled ==
    ASSUME IInv, NEW q \in Calls, AddStep(q)
    PROVE  EnabledKept
<1>1. PICK get_work \in BOOLEAN : get_work = FALSE
  OBVIOUS
<1>2. PICK ws : ws = UpdateWorker(workers, q.worker, get_work)
  OBVIOUS
<1>3. q.worker \in Workers /\ TableOK(steps, workers)
  BY DEF Calls, Requests, IInv
<1>4. WorkersKept(workers, ws)
  BY <1>2, <1>3, UpdateWorkerOK
<1>5. workers' = ws \/ workers' = [ws EXCEPT ![q.worker].steps = ws[q.worker].steps \cup {q.step}]
  BY <1>1, <1>2 DEF AddStep
<1>6. \A w \in Workers : workers'[w].disabled = ws[w].disabled
  BY <1>4, <1>5 DEF WorkersKept, Retires, WorkerRecords
<1> QED BY <1>4, <1>6 DEF WorkersKept, Retires, EnabledKept

LEMMA CountedEnabled ==
    ASSUME NEW ss, NEW ws, NEW w, NEW v \in Workers
    PROVE  CountedWorkers(ss, ws, w)[v].disabled => ws[v].disabled
<1>1. CountedWorkers(ss, ws, w)[v] \in {GetWorker(ws, v), ws[v]}
  BY DEF CountedWorkers
<1>2. GetWorker(ws, v) = ws[v] \/ ~GetWorker(ws, v).disabled
  BY DEF GetWorker, NewWorker
<1> QED BY <1>1, <1>2

LEMMA GetWorkEnabled ==
    ASSUME IInv, NEW w \in Workers, NEW assistant, NEW current_steps, NEW work,
           GetWork(w, assistant, current_steps, work)
    PROVE  EnabledKept
<1>1. PICK get_work \in BOOLEAN : get_work = TRUE
  OBVIOUS
<1>2. PICK touched : touched = UpdateWorker(workers, w, get_work)
  OBVIOUS
<1>3. TableOK(steps, workers)
  BY DEF IInv
<1>4. WorkersKept(workers, touched)
  BY <1>2, <1>3, UpdateWorkerOK
<1>5. PICK flag, ss :
          workers' \in {touched, CountedWorkers(ss, [touched EXCEPT ![w].assistant = flag], w)}
  BY <1>1, <1>2 DEF GetWork
<1>6. PICK ws : ws = [touched EXCEPT ![w].assistant = flag]
  OBVIOUS
<1>7. \A v \in Workers : ws[v].disabled = touched[v].disabled
  BY <1>4, <1>6 DEF WorkersKept, Retires, WorkerRecords
<1>8. \A v \in Workers : CountedWorkers(ss, ws, w)[v].disabled => touched[v].disabled
  BY <1>7, CountedEnabled
<1>9. \A v \in Workers : workers'[v].disabled => touched[v].disabled
  BY <1>5, <1>6, <1>8
<1> QED BY <1>4, <1>9 DEF WorkersKept, Retires, EnabledKept

LEMMA SmallEnabled ==
    ASSUME IInv, NEW w \in Workers, NEW n, CountPending(w) \/ Ping(w) \/ AddWorker(w, n)
    PROVE  EnabledKept
<1>1. PICK g : g = GetWorker(workers, w)
  OBVIOUS
<1>2. TableOK(steps, workers)
  BY DEF IInv
<1>3. g \in WorkerRecords /\ (g.disabled => workers[w].disabled)
      /\ workers \in [Workers -> WorkerRecords]
  BY <1>1, <1>2, GetWorkerOK DEF TableOK, Retires
<1>4. CASE CountPending(w)
  <2>1. PICK ws : ws = [workers EXCEPT ![w] = g]
    OBVIOUS
  <2>2. workers' = CountedWorkers(steps, ws, w)
    BY <1>1, <1>4, <2>1 DEF CountPending
  <2>3. \A v \in Workers : workers'[v].disabled => ws[v].disabled
    BY <2>2, CountedEnabled
  <2> QED BY <1>3, <2>1, <2>3 DEF EnabledKept
<1>5. CASE Ping(w)
  <2>1. PICK get_work \in BOOLEAN : get_work = FALSE
    OBVIOUS
  <2>2. workers' = UpdateWorker(workers, w, get_work)
    BY <1>5, <2>1 DEF Ping
  <2>3. WorkersKept(workers, workers')
    BY <1>2, <2>2, UpdateWorkerOK
  <2> QED BY <2>3 DEF WorkersKept, Retires, EnabledKept
<1>6. CASE AddWorker(w, n)
  <2>1. workers' = [workers EXCEPT ![w] = [g EXCEPT !.processes = n]]
    BY <1>1, <1>6 DEF AddWorker
  <2>2. [g EXCEPT !.processes = n].disabled = g.disabled
    BY <1>3 DEF WorkerRecords
  <2> QED BY <1>3, <2>1, <2>2 DEF EnabledKept
<1> QED BY <1>4, <1>5, <1>6

LEMMA TimeEnabled ==
    ASSUME IInv, Tick \/ Prune
    PROVE  EnabledKept
<1>1. NoWorker \in WorkerRecords /\ ~NoWorker.disabled
  BY DEF NoWorker, NewWorker, WorkerRecords
<1>2. workers \in [Workers -> WorkerRecords]
  BY DEF IInv, TableOK
<1>3. CASE Tick
  <2> SUFFICES ASSUME NEW w \in Workers, workers'[w].disabled PROVE workers[w].disabled
    BY DEF EnabledKept
  <2>1. workers'[w] = AgedWorker(workers[w])
    BY <1>1, <1>3 DEF Tick
  <2>2. AgedWorker(workers[w]).disabled = workers[w].disabled
    BY <1>2 DEF AgedWorker, WorkerRecords
  <2> QED BY <2>1, <2>2
<1>4. CASE Prune
  <2> SUFFICES ASSUME NEW w \in Workers, workers'[w].disabled PROVE workers[w].disabled
    BY DEF EnabledKept
  <2>1. PICK left, ss, assistants, kept :
            /\ left = IF w \in TimedOut(workers) THEN NoWorker ELSE workers[w]
            /\ workers'[w] = Inactivated(ss, older, assistants, left, kept)
    BY <1>4 DEF Prune
  <2>2. left \in WorkerRecords
    BY <1>1, <1>2, <2>1
  <2>3. workers'[w].disabled = left.disabled
    BY <2>1, <2>2 DEF WorkerRecords, Inactivated
  <2> QED BY <1>1, <2>1, <2>3
<1> QED BY <1>3, <1>4

-----------------------------------------------------------------------------
(* The invariant of the scheduler with workers that run batches.             *)

\* Somebody sees to each member of a batch that v was given: v is about to start its runner
\* or to report it, or asks for work next, or the runner runs.
Tended(v) ==
    \A m \in Steps : steps[m].status = "BATCH_RUNNING" /\ steps[m].worker_running = v =>
        /\ phase[v] = "working"
        /\ \/ starting[v] = steps[m].batch_id
           \/ m \in erring[v]
           \/ Ready(v)
           \/ Drives(steps, steps[m].batch_id)

Cared == \A v \in Workers : Alive(v) => Tended(v)

\* The main thread of v does one thing at a time, and all that it does not do at once is to
\* start a runner.
OneThing(v) ==
    /\ phase[v] = "working" => adding[v] = {}
    /\ starting[v] # {} => /\ starting[v] \in Batches /\ phase[v] = "working"
                           /\ erring[v] = {} /\ calling[v] = None
    /\ erring[v] # {} => phase[v] = "working" /\ calling[v] = None
    /\ calling[v] # None => /\ phase[v] = "working"
                            /\ \E b \in Batches : calling[v] = StartRequest(v, b)

TableHolds ==
    /\ AllSound(steps) /\ NotMisled(steps) /\ Ordered
    /\ \A w \in Workers : ~workers[w].disabled

BatchInv == TableHolds /\ Cared /\ \A v \in Workers : OneThing(v)

\* What each handler of the server does in this setting.
Served == AllSound(steps') /\ NotMisled(steps') /\ Ordered' /\ EnabledKept

\* No member comes to v, and none loses its runner.
Keeps(v) ==
    \A m \in Steps : steps'[m].status = "BATCH_RUNNING" /\ steps'[m].worker_running = v =>
        /\ steps[m].status = "BATCH_RUNNING" /\ steps[m].worker_running = v
        /\ steps[m].batch_id = steps'[m].batch_id
        /\ Drives(steps, steps'[m].batch_id) => Drives(steps', steps'[m].batch_id)

LEMMA MovesKeeps ==
    ASSUME Moves(steps, steps')
    PROVE  \A v \in Workers : Keeps(v)
BY DEF Moves, Follows, Keeps

LEMMA ServedHolds ==
    ASSUME TableHolds, Served
    PROVE  TableHolds'
BY DEF TableHolds, Served, EnabledKept

\* What v is about goes on.
Carries(v) ==
    /\ phase'[v] # "dead" => phase[v] # "dead"
    /\ phase[v] = "working" => phase'[v] = "working"
    /\ starting'[v] = starting[v] /\ erring'[v] = erring[v]
    /\ Ready(v) => Ready(v)'

LEMMA KeptTended ==
    ASSUME NEW v \in Workers, Alive(v) => Tended(v), Keeps(v), Carries(v)
    PROVE  (Alive(v) => Tended(v))'
<1> SUFFICES ASSUME phase'[v] # "dead" PROVE Tended(v)'
  BY DEF Alive
<1>1. Tended(v)
  BY DEF Carries, Alive
<1> SUFFICES ASSUME NEW m \in Steps, steps'[m].status = "BATCH_RUNNING",
                    steps'[m].worker_running = v
             PROVE  /\ phase'[v] = "working"
                    /\ \/ starting'[v] = steps'[m].batch_id
                       \/ m \in erring'[v]
                       \/ Ready(v)'
                       \/ Drives(steps', steps'[m].batch_id)
  BY DEF Tended
<1>2. /\ steps[m].status = "BATCH_RUNNING" /\ steps[m].worker_running = v
      /\ steps[m].batch_id = steps'[m].batch_id
      /\ Drives(steps, steps'[m].batch_id) => Drives(steps', steps'[m].batch_id)
  BY DEF Keeps
<1> QED BY <1>1, <1>2 DEF Tended, Carries

\* The worker w does something, the others do not.
OthersWait(w) ==
    \A v \in Workers \ {w} :
        /\ phase'[v] = phase[v] /\ adding'[v] = adding[v] /\ starting'[v] = starting[v]
        /\ erring'[v] = erring[v] /\ calling'[v] = calling[v]

LEMMA OneWorkerHolds ==
    ASSUME BatchInv, Served, NEW w \in Workers, OthersWait(w),
           \A v \in Workers \ {w} : Keeps(v),
           OneThing(w)', (Alive(w) => Tended(w))'
    PROVE  BatchInv'
<1>1. TableHolds'
  BY ServedHolds DEF BatchInv
<1>2. \A v \in Workers \ {w} : OneThing(v)'
  BY DEF BatchInv, OneThing, OthersWait
<1>3. ASSUME NEW v \in Workers \ {w} PROVE (Alive(v) => Tended(v))'
  <2>1. Carries(v)
    BY DEF OthersWait, Carries, Ready
  <2>2. Alive(v) => Tended(v)
    BY DEF BatchInv, Cared
  <2> QED BY <2>1, <2>2, KeptTended
<1>4. Cared'
  BY <1>3 DEF Cared
<1> QED BY <1>1, <1>2, <1>4 DEF BatchInv

\* A step of the server that no worker notices.
LEMMA SameClientsHold ==
    ASSUME BatchInv, Served, Moves(steps, steps'), UNCHANGED clientVars
    PROVE  BatchInv'
<1>1. TableHolds'
  BY ServedHolds DEF BatchInv
<1>2. \A v \in Workers : OneThing(v)'
  BY DEF BatchInv, OneThing, clientVars
<1>3. ASSUME NEW v \in Workers PROVE (Alive(v) => Tended(v))'
  <2>1. Carries(v)
    BY DEF clientVars, Carries, Ready
  <2>2. Alive(v) => Tended(v)
    BY DEF BatchInv, Cared
  <2> QED BY <2>1, <2>2, MovesKeeps, KeptTended
<1>4. Cared'
  BY <1>3 DEF Cared
<1> QED BY <1>1, <1>2, <1>4 DEF BatchInv

LEMMA ReadyTended ==
    ASSUME NEW v \in Workers, Ready(v)'
    PROVE  (Alive(v) => Tended(v))' /\ OneThing(v)'
BY DEF Ready, Tended, OneThing

\* The handlers that change no step.
LEMMA IdleServed ==
    ASSUME BatchSetting, TableHolds, UNCHANGED <<steps, older>>, EnabledKept
    PROVE  Served /\ Moves(steps, steps')
<1>1. Moves(steps, steps)
  BY UnmovedMoves DEF Unmoved, TableHolds, BatchSetting
<1>2. Ordered'
  BY DEF TableHolds, Ordered, Present
<1> QED BY <1>1, <1>2 DEF Served, TableHolds

\* The handlers that add no step and remove none.
LEMMA MovedServed ==
    ASSUME TableHolds, AllSound(steps'), Moves(steps, steps'), SamePresent, UNCHANGED older,
           EnabledKept
    PROVE  Served
BY MovesNotMisled, SameOrdered DEF Served, TableHolds

LEMMA AddStepServes ==
    ASSUME BatchSetting, IInv, TableHolds, NEW q, BatchCall(q), AddStep(q)
    PROVE  Served /\ Moves(steps, steps') /\ GivesUp(steps, steps', q)
<1>1. q \in Calls /\ q.worker \in Workers
  BY DEF BatchCall, Calls, Requests
<1>2. AllSound(steps') /\ Moves(steps, steps') /\ NoneLost(steps, steps')
      /\ GivesUp(steps, steps', q)
  BY <1>1, AddStepSound DEF BatchSetting, TableHolds
<1>3. Ordered'
  BY <1>2, AddStepOrdered DEF BatchSetting, TableHolds, NoneLost
<1>4. NotMisled(steps')
  BY <1>2, MovesNotMisled DEF TableHolds
<1> QED BY <1>1, <1>2, <1>3, <1>4, AddStepEnabled DEF Served

-----------------------------------------------------------------------------
(* The workers' steps.                                                       *)

\* A worker that is not in its loop yet has no member of a batch.
LEMMA ScheduleBatches ==
    ASSUME BatchSetting, IInv, ClientTypeOK, BatchInv, NEW w \in Workers, NEW s \in Steps,
           NEW status \in Claims, Schedule(w, s, status)
    PROVE  BatchInv'
<1>1. PICK deps, q :
         /\ deps \in DepsSent(s, status)
         /\ q = Scheduled(w, s, status, deps)
         /\ AddStep(q) /\ UNCHANGED <<phase, running, starting, erring, calling>>
         /\ adding' = [adding EXCEPT ![w] =
                          (adding[w] \ {s}) \cup (IF deps # None THEN deps ELSE {})]
         /\ Alive(w) /\ s \in adding[w]
  BY DEF Schedule, Scheduled
<1>2. BatchCall(q)
  BY <1>1, ScheduledBatchCall
<1>3. /\ AddStep(q) /\ UNCHANGED <<phase, running, starting, erring, calling>>
      /\ \A v \in Workers \ {w} : adding'[v] = adding[v]
      /\ Alive(w) /\ s \in adding[w]
  BY <1>1 DEF ClientTypeOK
<1>4. Served /\ Moves(steps, steps')
  BY <1>2, <1>3, AddStepServes DEF BatchInv
<1>5. phase[w] # "working" /\ OneThing(w)
  BY <1>3 DEF BatchInv, OneThing
<1>6. Carries(w)
  BY <1>3, <1>5 DEF Carries, Ready
<1>7. (Alive(w) => Tended(w))'
  BY <1>4, <1>6, MovesKeeps, KeptTended DEF BatchInv, Cared
<1>8. OneThing(w)'
  BY <1>3, <1>5 DEF OneThing
<1> QED BY <1>3, <1>4, <1>7, <1>8, MovesKeeps, OneWorkerHolds DEF OthersWait

LEMMA AnnounceBatches ==
    ASSUME BatchSetting, IInv, ClientTypeOK, BatchInv, NEW w \in Workers, Announce(w)
    PROVE  BatchInv'
<1>1. /\ phase[w] = "adding" /\ adding[w] = {} /\ AddWorker(w, Processes(w))
      /\ UNCHANGED <<steps, older, adding, running, starting, erring, calling>>
      /\ \A v \in Workers : phase'[v] = IF v = w THEN "working" ELSE phase[v]
  BY DEF Announce, AddWorker, ClientTypeOK
<1>2. Served /\ Moves(steps, steps')
  BY <1>1, SmallEnabled, IdleServed DEF BatchInv
<1>3. Carries(w)
  BY <1>1 DEF Carries, Ready
<1>4. (Alive(w) => Tended(w))'
  BY <1>2, <1>3, MovesKeeps, KeptTended DEF BatchInv, Cared
<1>5. OneThing(w)'
  BY <1>1 DEF BatchInv, OneThing
<1> QED BY <1>1, <1>2, <1>4, <1>5, MovesKeeps, OneWorkerHolds DEF OthersWait

\* Whatever w gets, or does not, from get_work: it is about to start the batch or to report
\* it, or asks again, and what it had before runs.
LEMMA ReceivingBatches ==
    ASSUME BatchSetting, IInv, ClientTypeOK, BatchInv, NEW w \in Workers, NEW work,
           AskForWork(w, work) \/ LoseWork(w, work) \/ ReceiveUnloadable(w, work)
    PROVE  BatchInv'
<1>1. Receives(w, work) /\ UNCHANGED <<phase, adding, calling>>
  BY DEF AskForWork, LoseWork, ReceiveUnloadable, clientVars
<1>2. PICK assistant \in BOOLEAN : assistant = (w \in AssistantWorkers)
  <2>1. (w \in AssistantWorkers) \in BOOLEAN
    OBVIOUS
  <2> QED BY <2>1, Zenon
<1>3. ~assistant /\ GetWork(w, assistant, running[w], work) /\ Ready(w)
  BY <1>1, <1>2 DEF Receives, Polls, BatchSetting
<1>4. /\ AllSound(steps') /\ NotMisled(steps') /\ SamePresent
      /\ Hands(steps, steps', w, work) \/ (work = {} /\ steps' = steps)
      /\ Cardinality(work) > 1 => work \in Batches
  BY <1>3, GetWorkSound DEF BatchInv, TableHolds, BatchSetting
<1>5. Ordered' /\ EnabledKept
  <2>1. older' = older
    BY <1>3 DEF GetWork
  <2> QED BY <1>3, <1>4, <2>1, SameOrdered, GetWorkEnabled DEF BatchInv, TableHolds
<1>6. Served
  BY <1>4, <1>5 DEF Served
<1>7. ASSUME NEW v \in Workers \ {w} PROVE Keeps(v)
  BY <1>4, <1>7 DEF Hands, Keeps
<1>8. OthersWait(w)
  BY <1>1 DEF AskForWork, LoseWork, ReceiveUnloadable, clientVars, ClientTypeOK, OthersWait
<1>9. /\ phase'[w] = "working" /\ adding'[w] = {} /\ calling'[w] = None
      /\ starting[w] = {} /\ erring[w] = {}
  BY <1>1, <1>3 DEF Ready
<1>10. CASE Ready(w)'
  BY <1>6, <1>7, <1>8, <1>10, ReadyTended, OneWorkerHolds
<1>11. CASE ~Ready(w)'
  <2>1. \/ /\ AskForWork(w, work) /\ Cardinality(work) > 1
           /\ starting'[w] = work /\ erring'[w] = {}
        \/ /\ ReceiveUnloadable(w, work) /\ work # {}
           /\ starting'[w] = {} /\ erring'[w] = work
    <3>1. CASE AskForWork(w, work)
      <4>1. /\ starting'[w] = IF Cardinality(work) > 1 THEN work ELSE starting[w]
            /\ erring' = erring
        BY <3>1 DEF AskForWork, ClientTypeOK
      <4>2. Cardinality(work) > 1
        BY <1>9, <1>11, <4>1 DEF Ready
      <4> QED BY <1>9, <3>1, <4>1, <4>2
    <3>2. CASE LoseWork(w, work)
      BY <1>9, <1>11, <3>2 DEF LoseWork, clientVars, Ready
    <3>3. CASE ReceiveUnloadable(w, work)
      BY <1>9, <3>3 DEF ReceiveUnloadable, ClientTypeOK
    <3> QED BY <3>1, <3>2, <3>3
  <2>2. work # {} /\ Hands(steps, steps', w, work)
    BY <1>4, <2>1, FS_EmptySet
  <2>3. (Alive(w) => Tended(w))'
    <3> SUFFICES ASSUME NEW m \in Steps, steps'[m].status = "BATCH_RUNNING",
                        steps'[m].worker_running = w
                 PROVE  \/ starting'[w] = steps'[m].batch_id
                        \/ m \in erring'[w]
                        \/ Drives(steps', steps'[m].batch_id)
      BY <1>9 DEF Tended
    <3>1. \/ m \in work /\ steps'[m].batch_id = work
          \/ Drives(steps', steps'[m].batch_id)
      BY <2>2 DEF Hands
    <3> QED BY <2>1, <3>1
  <2>4. OneThing(w)'
    BY <1>4, <1>9, <2>1 DEF OneThing
  <2> QED BY <1>6, <1>7, <1>8, <2>3, <2>4, OneWorkerHolds
<1> QED BY <1>10, <1>11

\* The report makes the member fail, and the others are reported next.
LEMMA ReportUnloadableBatches ==
    ASSUME BatchSetting, IInv, ClientTypeOK, BatchInv, NEW w \in Workers, NEW s \in Steps,
           ReportUnloadable(w, s)
    PROVE  BatchInv'
<1>1. PICK q : q = LoadErrorRequest(w, s)
  OBVIOUS
<1>2. BatchCall(q) /\ q.worker = w /\ q.step = s /\ q.status = "FAILED"
  BY <1>1, LoadErrorBatchCall
<1>3. /\ AddStep(q) /\ UNCHANGED <<phase, adding, running, starting, calling>>
      /\ \A v \in Workers : erring'[v] = IF v = w THEN erring[w] \ {s} ELSE erring[v]
      /\ s \in erring[w]
  BY <1>1 DEF ReportUnloadable, ClientTypeOK
<1>4. Served /\ Moves(steps, steps') /\ GivesUp(steps, steps', q)
  <2>1. TableHolds
    BY DEF BatchInv
  <2> QED BY <1>2, <1>3, <2>1, AddStepServes
<1>5. /\ OneThing(w) /\ phase[w] = "working" /\ calling[w] = None /\ starting[w] = {}
  BY <1>3 DEF BatchInv, OneThing
<1>6. OneThing(w)'
  BY <1>3, <1>5 DEF OneThing
<1>7. (Alive(w) => Tended(w))'
  <2> SUFFICES ASSUME NEW m \in Steps, steps'[m].status = "BATCH_RUNNING",
                      steps'[m].worker_running = w
               PROVE  m \in erring'[w] \/ Drives(steps', steps'[m].batch_id)
    BY <1>3, <1>5 DEF Tended
  <2>1. /\ steps[m].status = "BATCH_RUNNING" /\ steps[m].worker_running = w
        /\ steps[m].batch_id = steps'[m].batch_id
        /\ Drives(steps, steps'[m].batch_id) => Drives(steps', steps'[m].batch_id)
    BY <1>4 DEF Moves, Follows
  <2>2. steps[m].batch_id # {}
    BY <2>1 DEF BatchInv, TableHolds, AllSound, Sound, StepOK
  <2>3. ~Ready(w) /\ Alive(w)
    BY <1>3, <1>5 DEF Ready, Alive
  <2>4. m \in erring[w] \/ Drives(steps, steps[m].batch_id)
    BY <1>5, <2>1, <2>2, <2>3 DEF BatchInv, Cared, Tended
  <2>5. m # s
    BY <1>2, <1>4, <2>1 DEF GivesUp
  <2> QED BY <1>3, <2>1, <2>4, <2>5
<1> QED BY <1>3, <1>4, <1>6, <1>7, MovesKeeps, OneWorkerHolds DEF OthersWait

\* The runner is announced; add_step fails only if no member of the batch is left.
LEMMA StartBatches ==
    ASSUME BatchSetting, IInv, ClientTypeOK, BatchInv, NEW w \in Workers, StartBatch(w)
    PROVE  BatchInv'
<1>1. PICK b : b = starting[w]
  OBVIOUS
<1>2. PICK q : q = StartRequest(w, b)
  OBVIOUS
<1>3. /\ b # {} /\ AddStep(q) /\ UNCHANGED <<phase, adding, erring>>
      /\ \A v \in Workers : starting'[v] = IF v = w THEN {} ELSE starting[v]
      /\ \A v \in Workers : calling'[v] = IF v = w /\ AddStepFails(q) THEN q ELSE calling[v]
  BY <1>1, <1>2 DEF StartBatch, ClientTypeOK
<1>4. /\ b \in Batches /\ phase[w] = "working" /\ erring[w] = {} /\ calling[w] = None
      /\ adding[w] = {}
  BY <1>1, <1>3 DEF BatchInv, OneThing
<1>5. BatchCall(q) /\ q.worker = w /\ q.step = Runner(b) /\ q.batch_id = b
  BY <1>2, <1>4, StartBatchCall
<1>6. Served /\ Moves(steps, steps')
  BY <1>3, <1>5, AddStepServes DEF BatchInv
<1>7. OthersWait(w)
  BY <1>3 DEF OthersWait
<1>8. CASE ~AddStepFails(q)
  <2>1. Ready(w)'
    BY <1>3, <1>4, <1>8 DEF Ready
  <2> QED BY <1>6, <1>7, <2>1, ReadyTended, MovesKeeps, OneWorkerHolds
<1>9. CASE AddStepFails(q)
  <2>1. OneThing(w)'
    BY <1>2, <1>3, <1>4, <1>9 DEF OneThing
  <2>2. ASSUME NEW m \in Steps, steps[m].status = "BATCH_RUNNING" PROVE steps[m].batch_id # b
    <3>1. PICK enabled \in BOOLEAN : enabled = ~GetWorker(workers, q.worker).disabled
      OBVIOUS
    <3>2. PICK ss : ss = WithDefaultStep(steps, q, enabled)
      OBVIOUS
    <3>3. BatchRunningSteps(ss, b) = {}
      BY <1>5, <1>9, <3>1, <3>2 DEF AddStepFails, NamesLostBatch
    <3>4. steps \in [Steps -> StepRecords] /\ AllSound(steps)
      BY DEF IInv, TableOK, BatchInv, TableHolds
    <3>5. ss[m] = steps[m]
      BY <1>5, <2>2, <3>2, <3>4, WithDefaultStepSound DEF BatchSetting, Absent
    <3> QED BY <2>2, <3>3, <3>5 DEF BatchRunningSteps
  <2>3. (Alive(w) => Tended(w))'
    <3> SUFFICES ASSUME NEW m \in Steps, steps'[m].status = "BATCH_RUNNING",
                        steps'[m].worker_running = w
                 PROVE  Drives(steps', steps'[m].batch_id)
      BY <1>3, <1>4 DEF Tended
    <3>1. /\ steps[m].status = "BATCH_RUNNING" /\ steps[m].worker_running = w
          /\ steps[m].batch_id = steps'[m].batch_id
          /\ Drives(steps, steps'[m].batch_id) => Drives(steps', steps'[m].batch_id)
      BY <1>6 DEF Moves, Follows
    <3>2. ~Ready(w) /\ Alive(w)
      BY <1>1, <1>3, <1>4 DEF Ready, Alive
    <3>3. Drives(steps, steps[m].batch_id)
      BY <1>1, <1>4, <2>2, <3>1, <3>2 DEF BatchInv, Cared, Tended
    <3> QED BY <3>1, <3>3
  <2> QED BY <1>6, <1>7, <2>1, <2>3, MovesKeeps, OneWorkerHolds
<1> QED BY <1>8, <1>9

\* The call that failed is repeated; the worker asks for work once it has succeeded.
LEMMA CallBatches ==
    ASSUME BatchSetting, IInv, ClientTypeOK, BatchInv, NEW w \in Workers, Call(w)
    PROVE  BatchInv'
<1>1. PICK q : q = calling[w]
  OBVIOUS
<1>2. /\ q # None /\ AddStep(q) /\ UNCHANGED <<phase, adding, starting, erring>>
      /\ \A v \in Workers : calling'[v] = IF v = w /\ ~AddStepFails(q) THEN None ELSE calling[v]
  BY <1>1 DEF Call, ClientTypeOK
<1>3. /\ OneThing(w) /\ phase[w] = "working" /\ adding[w] = {} /\ starting[w] = {}
      /\ erring[w] = {}
  BY <1>1, <1>2 DEF BatchInv, OneThing
<1>4. PICK b \in Batches : q = StartRequest(w, b)
  BY <1>1, <1>2 DEF BatchInv, OneThing
<1>5. BatchCall(q)
  BY <1>4, StartBatchCall
<1>6. Served /\ Moves(steps, steps')
  BY <1>2, <1>5, AddStepServes DEF BatchInv
<1>7. OthersWait(w)
  BY <1>2 DEF OthersWait
<1>8. CASE AddStepFails(q)
  <2>1. OneThing(w)' /\ Carries(w)
    BY <1>1, <1>2, <1>3, <1>8 DEF OneThing, Carries, Ready
  <2>2. (Alive(w) => Tended(w))'
    BY <1>6, <2>1, MovesKeeps, KeptTended DEF BatchInv, Cared
  <2> QED BY <1>6, <1>7, <2>1, <2>2, MovesKeeps, OneWorkerHolds
<1>9. CASE ~AddStepFails(q)
  <2>1. Ready(w)'
    BY <1>2, <1>3, <1>9 DEF Ready
  <2> QED BY <1>6, <1>7, <2>1, ReadyTended, MovesKeeps, OneWorkerHolds
<1> QED BY <1>8, <1>9

LEMMA FinishBatches ==
    ASSUME BatchSetting, IInv, ClientTypeOK, BatchInv, NEW w \in Workers, NEW s \in Steps,
           NEW status \in Endings, NEW missing \in BOOLEAN, Finish(w, s, status, missing)
    PROVE  BatchInv'
<1>1. PICK q : q = Outcome(w, s, status, {})
  OBVIOUS
<1>2. BatchCall(q)
  BY <1>1, OutcomeBatchCall
<1>3. ~missing
  BY DEF Finish, BatchSetting
<1>4. /\ AddStep(q) /\ UNCHANGED <<phase, starting, erring, calling>> /\ Ready(w)
      /\ \A v \in Workers : adding'[v] = IF v = w THEN {} ELSE adding[v]
  BY <1>1, <1>3 DEF Finish, ClientTypeOK
<1>5. Served /\ Moves(steps, steps')
  BY <1>2, <1>4, AddStepServes DEF BatchInv
<1>6. Ready(w)'
  BY <1>4 DEF Ready
<1>7. OthersWait(w)
  BY <1>4 DEF OthersWait
<1> QED BY <1>5, <1>6, <1>7, ReadyTended, MovesKeeps, OneWorkerHolds

LEMMA CrashBatches ==
    ASSUME BatchSetting, IInv, ClientTypeOK, BatchInv, NEW w \in Workers, Crash(w)
    PROVE  BatchInv'
<1>1. /\ UNCHANGED <<steps, older, workers>>
      /\ \A v \in Workers :
            /\ phase'[v] = IF v = w THEN "dead" ELSE phase[v]
            /\ adding'[v] = IF v = w THEN {} ELSE adding[v]
            /\ starting'[v] = IF v = w THEN {} ELSE starting[v]
            /\ erring'[v] = IF v = w THEN {} ELSE erring[v]
            /\ calling'[v] = IF v = w THEN None ELSE calling[v]
  BY DEF Crash, vars, ClientTypeOK
<1>2. Served /\ Moves(steps, steps')
  BY <1>1, IdleServed DEF BatchInv, EnabledKept
<1>3. OneThing(w)' /\ (Alive(w) => Tended(w))'
  BY <1>1 DEF OneThing, Alive
<1>4. OthersWait(w)
  BY <1>1 DEF OthersWait
<1> QED BY <1>2, <1>3, <1>4, MovesKeeps, OneWorkerHolds

LEMMA WorkerNextBatches ==
    ASSUME BatchSetting, IInv, ClientTypeOK, BatchInv, NEW w \in Workers, WorkerNext(w)
    PROVE  BatchInv'
<1>0. TableHolds
  BY DEF BatchInv
<1>1. CASE \E s \in Steps : RegisterBatcher(w, s)
  <2>1. UNCHANGED <<steps, older, workers>> /\ UNCHANGED clientVars
    BY <1>1 DEF RegisterBatcher, AddStepBatcher
  <2>2. EnabledKept
    BY <2>1 DEF EnabledKept
  <2> QED BY <1>0, <2>1, <2>2, IdleServed, SameClientsHold
<1>2. CASE CountWork(w) \/ KeepAlive(w)
  <2>1. CountPending(w) \/ Ping(w)
    BY <1>2 DEF CountWork, KeepAlive
  <2>2. UNCHANGED <<steps, older>> /\ UNCHANGED clientVars
    BY <1>2 DEF CountWork, KeepAlive, CountPending, Ping
  <2>3. EnabledKept
    BY <2>1, SmallEnabled
  <2> QED BY <1>0, <2>2, <2>3, IdleServed, SameClientsHold
<1>3. CASE \E s \in Steps : GiveUpResources(w, s)
  <2>1. PICK s \in Steps : GiveUpResources(w, s)
    BY <1>3
  <2>2. PICK less \in Amounts : DecreaseRunningStepResources(s, less)
    BY <2>1, ClusterAssumption DEF GiveUpResources, ClusterAssumption
  <2>3. UNCHANGED clientVars /\ UNCHANGED older /\ EnabledKept
    BY <2>1, <2>2 DEF GiveUpResources, DecreaseRunningStepResources, EnabledKept
  <2>4. AllSound(steps') /\ Moves(steps, steps') /\ SamePresent
    BY <1>0, <2>2, DecreaseSound DEF BatchSetting, TableHolds
  <2> QED BY <1>0, <2>3, <2>4, MovedServed, SameClientsHold
<1>4. CASE \/ \E s \in Steps : Track(w, s)
           \/ \E s \in Steps, status \in Endings : FinishUnheard(w, s, status)
           \/ RepeatUnheard(w)
  BY <1>4 DEF BatchSetting, Track, FinishUnheard, RepeatUnheard, CallUnheard
<1>5. CASE \E s \in Steps : Suspend(w, s)
  BY <1>5 DEF BatchSetting, Suspend
<1>6. CASE \E s \in Steps, status \in Claims : Schedule(w, s, status)
  BY <1>6, ScheduleBatches
<1>7. CASE \E work \in Replies(w) : AskForWork(w, work) \/ LoseWork(w, work)
                                    \/ ReceiveUnloadable(w, work)
  BY <1>7, ReceivingBatches
<1>8. CASE \E s \in Steps : ReportUnloadable(w, s)
  BY <1>8, ReportUnloadableBatches
<1>9. CASE \E s \in Steps, status \in Endings, missing \in BOOLEAN :
              Finish(w, s, status, missing)
  BY <1>9, FinishBatches
<1>10. CASE Announce(w) \/ StartBatch(w) \/ Call(w) \/ Crash(w)
  BY <1>10, AnnounceBatches, StartBatches, CallBatches, CrashBatches
<1> QED BY <1>1, <1>2, <1>3, <1>4, <1>5, <1>6, <1>7, <1>8, <1>9, <1>10 DEF WorkerNext

LEMMA ServerBatches ==
    ASSUME BatchSetting, IInv, ClientTypeOK, BatchInv, TimePasses \/ PruneNow \/ Operate
    PROVE  BatchInv'
<1>1. UNCHANGED clientVars /\ TableHolds
  BY DEF TimePasses, PruneNow, Operate, BatchInv
<1>2. SUFFICES Served /\ Moves(steps, steps')
  BY <1>1, SameClientsHold
<1>3. RunnersApart /\ AllSound(steps) /\ Ordered
  BY <1>1 DEF BatchSetting, TableHolds
<1>4. CASE Tick
  <2>1. UNCHANGED older
    BY <1>4 DEF Tick
  <2> QED BY <1>1, <1>3, <1>4, <2>1, TickSound, TimeEnabled, MovedServed
<1>5. CASE Prune
  <2>1. AllSound(steps') /\ Moves(steps, steps')
    BY <1>3, <1>5, PruneSound
  <2>2. NotMisled(steps')
    BY <1>1, <2>1, MovesNotMisled DEF TableHolds
  <2> QED BY <1>3, <1>5, <2>1, <2>2, PruneOrdered, TimeEnabled DEF Served
<1>6. CASE SetPaused(~paused) \/ Restart \/ \E r \in Resources, a \in Amount :
                                                UpdateResource(r, a)
  <2>1. UNCHANGED <<steps, older>> /\ EnabledKept
    BY <1>6 DEF SetPaused, Restart, UpdateResource, EnabledKept
  <2> QED BY <1>1, <2>1, IdleServed
<1>7. CASE \E s \in Steps : MarkAsDone(s) \/ ReEnableStep(s)
  <2>1. PICK s \in Steps : MarkAsDone(s) \/ ReEnableStep(s)
    BY <1>7
  <2>2. AllSound(steps') /\ Moves(steps, steps') /\ SamePresent
    BY <1>3, <2>1, MarkAsDoneSound, ReEnableStepSound
  <2>3. UNCHANGED older /\ EnabledKept
    BY <2>1 DEF MarkAsDone, ReEnableStep, EnabledKept
  <2> QED BY <1>1, <2>2, <2>3, MovedServed
<1> QED BY <1>4, <1>5, <1>6, <1>7 DEF TimePasses, PruneNow, Operate, BatchSetting

LEMMA NextBatches ==
    BatchSetting /\ IInv /\ ClientTypeOK /\ BatchInv /\ [ClusterNext]_allVars => BatchInv'
<1> SUFFICES ASSUME BatchSetting, IInv, ClientTypeOK, BatchInv, [ClusterNext]_allVars
             PROVE  BatchInv'
  OBVIOUS
<1>1. CASE UNCHANGED allVars
  <2>1. UNCHANGED <<steps, older>> /\ UNCHANGED workers /\ UNCHANGED clientVars
    BY <1>1 DEF allVars, vars, clientVars
  <2>2. EnabledKept /\ TableHolds
    BY <2>1 DEF EnabledKept, BatchInv
  <2> QED BY <2>1, <2>2, IdleServed, SameClientsHold
<1> QED BY <1>1, WorkerNextBatches, ServerBatches DEF ClusterNext

LEMMA InitBatches ==
    ASSUME BatchSetting, ClusterInit
    PROVE  BatchInv
<1>1. /\ \A s \in Steps : steps[s] = NoStep
      /\ older = {} /\ \A w \in Workers : workers[w] = NoWorker
      /\ \A w \in Workers : /\ phase[w] = "adding" /\ starting[w] = {} /\ erring[w] = {}
                            /\ calling[w] = None
  BY DEF ClusterInit, Init
<1>2. NoStep.status = Absent /\ ~NoWorker.disabled
  BY DEF NoStep, NewStep, NoWorker, NewWorker
<1>3. AllSound(steps)
  BY <1>1, NoStepSound DEF AllSound
<1>4. Present(steps) = {}
  BY <1>1, <1>2 DEF Present
<1>5. Ordered
  BY <1>1, <1>4 DEF Ordered, Sorts
<1>6. \A s \in Steps : steps[s].status # "BATCH_RUNNING"
  BY <1>1, <1>2 DEF Absent
<1>7. NotMisled(steps) /\ Cared
  BY <1>6 DEF NotMisled, Cared, Tended
<1>8. \A w \in Workers : OneThing(w)
  BY <1>1 DEF OneThing
<1> QED BY <1>1, <1>2, <1>3, <1>5, <1>7, <1>8 DEF BatchInv, TableHolds

\* The invariant behind the theorem on batches.
LEMMA BatchInductive ==
    ASSUME BatchSetting PROVE ClusterSpec => [](IInv /\ ClientTypeOK /\ BatchInv)
<1>1. BatchSetting
  OBVIOUS
<1>2. ClusterInit => BatchInv
  BY InitBatches
<1> QED BY <1>1, <1>2, ClusterInductive, NextBatches, PTL DEF ClusterSpec

\* For batches whose runner is no member of any batch and runs no other (RunnersApart):
\* as long as nobody waits for a runner and no step has dependencies of its own to wait for
\* while it runs, no member of a batch is left BATCH_RUNNING with nobody to run it, whatever replies of get_work are lost, steps cannot be loaded, workers die or
\* are silent, and operators mark as done, re-enable, pause or restart: its worker is about
\* to start the runner or to report the member, or the runner is RUNNING with the batch, or
\* _reset_orphaned_batch_running_steps makes it PENDING at the worker's next get_work.
THEOREM MembersAlwaysHaveRunner ==
    ASSUME BatchSetting PROVE ClusterSpec => []MembersHaveRunner
<1>1. IInv /\ ClientTypeOK /\ BatchInv => MembersHaveRunner
  <2> SUFFICES ASSUME IInv, BatchInv, NEW m \in Steps, steps[m].status = "BATCH_RUNNING",
                      NEW w, w = steps[m].worker_running, Alive(w), Ready(w),
                      m \notin OrphanedSteps(steps, w),
                      NEW b, b = steps[m].batch_id
               PROVE  Drives(steps, b)
    <3> SUFFICES ASSUME IInv, BatchInv, NEW m \in Steps, steps[m].status = "BATCH_RUNNING",
                        NEW w, w = steps[m].worker_running, Alive(w),
                        NEW b, b = steps[m].batch_id
                 PROVE  \/ starting[w] = b \/ m \in erring[w]
                        \/ (Ready(w) /\ m \in OrphanedSteps(steps, w)) \/ Drives(steps, b)
      BY DEF MembersHaveRunner, Drives
    <3>1. w \in Workers
      <4>1. StepOK(steps[m])
        BY DEF IInv, TableOK
      <4> QED BY <4>1 DEF StepOK, StepRecords, ActiveStatuses
    <3>2. starting[w] = b \/ m \in erring[w] \/ Ready(w) \/ Drives(steps, b)
      BY <3>1 DEF BatchInv, Cared, Tended
    <3> QED BY <3>2
  <2>1. PICK x \in Steps : RunsFor(steps[x], b, w)
    BY DEF OrphanedSteps, WithStatus, RunsFor
  <2> QED BY <2>1 DEF BatchInv, TableHolds, NotMisled
<1> QED BY <1>1, BatchInductive, PTL
=============================================================================
