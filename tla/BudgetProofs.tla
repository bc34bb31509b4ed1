---------------------------- MODULE BudgetProofs ----------------------------
(***************************************************************************)
(* Proofs about the failures the scheduler counts: that it gives a step up *)
(* when its retry budget is used, and that every failure was a run.        *)
(***************************************************************************)
EXTENDS ClusterProofs

USE DEF OrNone

-----------------------------------------------------------------------------
(* What the sums of the library's folds compute.  A sum of naturals is the      *)
(* number of its units, the pairs of an index and a natural smaller than the    *)
(* value there: so sums are compared by comparing finite sets.                  *)

\* The units of the sum of g over S.
Units(g, S) == {u \in S \X Nat : u[2] < g[u[1]]}

\* The fold that adds up g over S, one chosen index after the other.
AddsUp(h, g, S) ==
    h = [s \in SUBSET S |->
            IF s = {} THEN 0
            ELSE g[CHOOSE x \in s : TRUE] + h[s \ {CHOOSE x \in s : TRUE}]]

LEMMA ColumnCount ==
    ASSUME NEW x, NEW n \in Nat
    PROVE  IsFiniteSet({x} \X (0..(n-1))) /\ Cardinality({x} \X (0..(n-1))) = n
<1>1. IsFiniteSet(0..(n-1)) /\ Cardinality(0..(n-1)) = n
  BY FS_Interval
<1>2. IsFiniteSet({x}) /\ Cardinality({x}) = 1
  BY FS_Singleton
<1> QED BY <1>1, <1>2, FS_Product

LEMMA UnitsFinite ==
    ASSUME NEW S, IsFiniteSet(S), NEW g, \A x \in S : g[x] \in Nat
    PROVE  IsFiniteSet(Units(g, S)) /\ Cardinality(Units(g, S)) \in Nat
<1> DEFINE column == [x \in S |-> {x} \X (0..(g[x] - 1))]
           columns == {column[x] : x \in S}
<1>1. column \in Surjection(S, columns)
  BY DEF Surjection
<1>2. IsFiniteSet(columns)
  <2> HIDE DEF columns, column
  <2> QED BY <1>1, FS_Surjection
<1>3. \A T \in columns : IsFiniteSet(T)
  <2>1. \A x \in S : IsFiniteSet({x} \X (0..(g[x] - 1)))
    BY ColumnCount
  <2> QED BY <2>1
<1>4. IsFiniteSet(UNION columns)
  BY <1>2, <1>3, FS_UNION
<1>5. Units(g, S) \subseteq UNION columns
  BY DEF Units
<1> QED BY <1>4, <1>5, FS_Subset, FS_CardinalityType

\* One index less.
LEMMA UnitsRemove ==
    ASSUME NEW S, IsFiniteSet(S), NEW g, \A x \in S : g[x] \in Nat, NEW y \in S
    PROVE  Cardinality(Units(g, S)) = g[y] + Cardinality(Units(g, S \ {y}))
<1> DEFINE rest == Units(g, S \ {y})
           column == {y} \X (0..(g[y] - 1))
<1>1. IsFiniteSet(S \ {y})
  BY FS_RemoveElement
<1>2. IsFiniteSet(rest) /\ Cardinality(rest) \in Nat
  BY <1>1, UnitsFinite
<1>3. IsFiniteSet(column) /\ Cardinality(column) = g[y]
  BY ColumnCount
<1>4. rest \cap column = {}
  BY DEF Units
<1>5. Units(g, S) = rest \cup column
  BY DEF Units
<1>6. Cardinality(rest \cap column) = 0
  BY <1>4, FS_EmptySet
<1> HIDE DEF rest, column
<1>7. Cardinality(rest \cup column) =
         Cardinality(rest) + Cardinality(column) - Cardinality(rest \cap column)
  BY <1>2, <1>3, FS_Union
<1> QED BY <1>2, <1>3, <1>5, <1>6, <1>7 DEF rest

LEMMA UnitsOfNothing ==
    ASSUME NEW g PROVE Cardinality(Units(g, {})) = 0
<1>1. Units(g, {}) = {}
  BY DEF Units
<1> QED BY <1>1, FS_EmptySet

\* The fold exists, since counting units is one.
LEMMA AddsUpExists ==
    ASSUME NEW S, IsFiniteSet(S), NEW g, \A x \in S : g[x] \in Nat
    PROVE  \E h : AddsUp(h, g, S)
<1> DEFINE h == [s \in SUBSET S |-> Cardinality(Units(g, s))]
<1>1. ASSUME NEW s \in SUBSET S
      PROVE  h[s] = IF s = {} THEN 0
                    ELSE g[CHOOSE x \in s : TRUE] + h[s \ {CHOOSE x \in s : TRUE}]
  <2>1. IsFiniteSet(s)
    BY FS_Subset
  <2>2. CASE s = {}
    BY <2>2, UnitsOfNothing
  <2>3. CASE s # {}
    <3>1. PICK y : y = CHOOSE x \in s : TRUE
      OBVIOUS
    <3>2. y \in s
      BY <2>3, <3>1
    <3>3. Cardinality(Units(g, s)) = g[y] + Cardinality(Units(g, s \ {y}))
      BY <2>1, <3>2, UnitsRemove
    <3>4. h[s] = g[y] + h[s \ {y}]
      BY <3>3
    <3> QED BY <2>3, <3>1, <3>4
  <2> QED BY <2>2, <2>3
<1> HIDE DEF h
<1>2. h = [s \in SUBSET S |-> h[s]]
  BY DEF h
<1>3. AddsUp(h, g, S)
  BY <1>1, <1>2 DEF AddsUp
<1> QED BY <1>3

\* There is no other one.
LEMMA AddsUpCounts ==
    ASSUME NEW S, IsFiniteSet(S), NEW g, \A x \in S : g[x] \in Nat,
           NEW h, AddsUp(h, g, S)
    PROVE  h[S] = Cardinality(Units(g, S))
<1> DEFINE Bad == {s \in SUBSET S : h[s] # Cardinality(Units(g, s))}
<1>1. SUFFICES ASSUME Bad # {} PROVE FALSE
  OBVIOUS
<1>2. Bad \subseteq FiniteSubsetsOf(S)
  BY FS_Subset DEF FiniteSubsetsOf
<1>3. PICK s \in Bad : \A t \in Bad : ~(<<t, s>> \in StrictSubsetOrdering(S))
  BY <1>1, <1>2, FS_StrictSubsetOrderingWellFounded, WFMin
<1>4. s # {}
  BY UnitsOfNothing DEF AddsUp
<1>5. PICK y : y = CHOOSE x \in s : TRUE
  OBVIOUS
<1>6. y \in s
  BY <1>4, <1>5
<1>7. h[s] = g[y] + h[s \ {y}]
  BY <1>4, <1>5 DEF AddsUp
<1>8. IsFiniteSet(s)
  BY FS_Subset
<1>9. Cardinality(Units(g, s)) = g[y] + Cardinality(Units(g, s \ {y}))
  BY <1>6, <1>8, UnitsRemove
<1>10. s \ {y} \in Bad
  BY <1>7, <1>9
<1>11. <<s \ {y}, s>> \in StrictSubsetOrdering(S)
  BY <1>6 DEF StrictSubsetOrdering
<1> QED BY <1>3, <1>10, <1>11

\* SumFunctionOnSet counts units.
LEMMA SumCounts ==
    ASSUME NEW S, IsFiniteSet(S), NEW g, \A x \in S : g[x] \in Nat
    PROVE  SumFunctionOnSet(g, S) = Cardinality(Units(g, S))
<1>1. PICK h : h = CHOOSE f : AddsUp(f, g, S)
  OBVIOUS
<1>2. AddsUp(h, g, S)
  BY <1>1, AddsUpExists
<1>3. SumFunctionOnSet(g, S) = h[S]
  BY <1>1 DEF SumFunctionOnSet, FoldFunctionOnSet, MapThenFoldSet, AddsUp
<1> QED BY <1>2, <1>3, AddsUpCounts

-----------------------------------------------------------------------------
(* Counting failures. *)

\* num_failures counts the failures of all ages.
LEMMA FailuresCount ==
    ASSUME NEW t \in StepRecords
    PROVE  /\ NumFailures(t) = Cardinality(Units(t.failures, 0..DisableWindow))
           /\ NumFailures(t) \in Nat
           /\ IsFiniteSet(Units(t.failures, 0..DisableWindow))
<1>1. PICK g : g = t.failures
  OBVIOUS
<1>2. PICK ages : ages = 0..DisableWindow
  OBVIOUS
<1>3. g \in [ages -> Nat]
  BY <1>1, <1>2 DEF StepRecords
<1>4. IsFiniteSet(ages)
  BY <1>2, FS_Interval, TimingAssumption DEF TimingAssumption
<1>5. DOMAIN g = ages /\ \A x \in ages : g[x] \in Nat
  BY <1>3
<1>6. SumFunctionOnSet(g, ages) = Cardinality(Units(g, ages))
  BY <1>4, <1>5, SumCounts
<1>7. IsFiniteSet(Units(g, ages)) /\ Cardinality(Units(g, ages)) \in Nat
  BY <1>4, <1>5, UnitsFinite
<1>8. NumFailures(t) = SumFunctionOnSet(g, ages)
  BY <1>1, <1>5 DEF NumFailures, SumFunction
<1> QED BY <1>1, <1>2, <1>6, <1>7, <1>8

LEMMA NoFailuresCount ==
    ASSUME NEW t \in StepRecords, t.failures = NoFailures
    PROVE  NumFailures(t) = 0
<1>1. Units(t.failures, 0..DisableWindow) = {}
  BY DEF Units, NoFailures
<1> QED BY <1>1, FailuresCount, FS_EmptySet

\* Time takes the oldest failures away: each unit moves to the next age.
LEMMA AgedFailures ==
    ASSUME NEW t \in StepRecords, NEW u \in StepRecords,
           u.failures = [age \in 0..DisableWindow |->
                            IF age = 0 THEN 0 ELSE t.failures[age - 1]]
    PROVE  NumFailures(u) <= NumFailures(t)
<1> DEFINE U == Units(u.failures, 0..DisableWindow)
           T == Units(t.failures, 0..DisableWindow)
           back == [p \in U |-> <<p[1] - 1, p[2]>>]
<1>1. DisableWindow \in Nat /\ t.failures \in [0..DisableWindow -> Nat]
  BY TimingAssumption DEF TimingAssumption, StepRecords
<1>2. ASSUME NEW p \in U
      PROVE  /\ p \in (0..DisableWindow) \X Nat /\ p[1] # 0
             /\ <<p[1] - 1, p[2]>> \in T
  <2>1. p \in (0..DisableWindow) \X Nat /\ p[2] < u.failures[p[1]]
    BY <1>2 DEF Units
  <2>2. p[1] # 0 /\ p[2] < t.failures[p[1] - 1]
    BY <1>1, <2>1
  <2>3. p[1] - 1 \in 0..DisableWindow /\ p[2] \in Nat
    BY <1>1, <2>1, <2>2
  <2> QED BY <2>1, <2>2, <2>3 DEF Units
<1>3. \A p, q \in U : back[p] = back[q] => p = q
  BY <1>2
<1>4. back \in [U -> T]
  BY <1>2
<1> HIDE DEF back, U, T
<1>5. back \in Injection(U, T)
  BY <1>3, <1>4 DEF Injection, IsInjective
<1>6. IsFiniteSet(T) /\ NumFailures(t) = Cardinality(T) /\ NumFailures(u) = Cardinality(U)
  BY FailuresCount DEF U, T
<1> QED BY <1>5, <1>6, FS_Injection

LEMMA SameFailures ==
    ASSUME NEW t, NEW u, u.failures = t.failures
    PROVE  NumFailures(u) = NumFailures(t)
BY DEF NumFailures

-----------------------------------------------------------------------------
(* set_status and the retry budget. *)

\* What set_status makes of the failures and what comes of them.
LEMMA SetOwnStatusTally ==
    ASSUME NEW t \in StepRecords, NEW new \in Statuses
    PROVE  LET u == SetOwnStatus(t, new)
           IN  /\ u.retry_count = t.retry_count
               /\ \/ RefusesStatus(t, new) /\ u = t
                  \/ /\ new = "FAILED" /\ t.status # "DISABLED"
                     /\ \/ u.status = "FAILED" /\ NumFailures(u) < t.retry_count
                        \/ u.status = "DISABLED" /\ u.disable_time # None
                  \/ /\ ~RefusesStatus(t, new)
                     /\ new # "FAILED" \/ t.status = "DISABLED"
                     /\ u.status = new
                     /\ u.failures = IF t.status = "DISABLED" /\ new = "DONE"
                                     THEN NoFailures ELSE t.failures
<1> DEFINE cleared == IF t.status = "DISABLED" /\ new = "DONE"
                      THEN [ClearFailures(t) EXCEPT !.disable_time = None] ELSE t
           f == IF new = "FAILED" /\ t.status # "DISABLED"
                THEN AddFailure(cleared) ELSE cleared
           stored == StatusStored(f, t.status, new)
           disabled == IF stored # "DISABLED" THEN f.disable_time
                       ELSE IF new = "FAILED" THEN 0 ELSE None
           updated == IF stored # t.status THEN 0 ELSE f.updated
           retry == IF stored = "FAILED" THEN RetryDelay + 1 ELSE f.retry
           remove == IF stored = "FAILED" /\ t.batch_id # {} /\ ~t.batchable
                     THEN 0 ELSE f.remove
           u == Stored(f, stored, updated, disabled, retry, remove)
<1>1. /\ ClearFailures(t) \in StepRecords /\ ClearFailures(t).failures = NoFailures
      /\ ClearFailures(t).retry_count = t.retry_count
  <2>1. ClearFailures(t).retry_count = t.retry_count
    BY DEF ClearFailures, StepRecords
  <2> QED BY <2>1, ClearFailuresType
<1>2. /\ cleared \in StepRecords /\ cleared.retry_count = t.retry_count
      /\ cleared.failures = IF t.status = "DISABLED" /\ new = "DONE"
                            THEN NoFailures ELSE t.failures
  <2> DEFINE c == ClearFailures(t)
  <2>1. c \in StepRecords /\ c.failures = NoFailures /\ c.retry_count = t.retry_count
    BY <1>1
  <2> HIDE DEF c
  <2>2. [c EXCEPT !.disable_time = None] \in StepRecords
    <3>1. PICK e : e = [c EXCEPT !.disable_time = None]
      OBVIOUS
    <3>2. None \in OrNone(0..DisablePersist)
      BY DEF OrNone
    <3>3. e \in StepRecords
      BY <2>1, <3>1, <3>2, SMTT(30) DEF StepRecords
    <3> QED BY <3>1, <3>3
  <2>3. /\ [c EXCEPT !.disable_time = None].failures = NoFailures
        /\ [c EXCEPT !.disable_time = None].retry_count = t.retry_count
    BY <2>1 DEF StepRecords
  <2>4. CASE t.status = "DISABLED" /\ new = "DONE"
    BY <2>2, <2>3, <2>4 DEF c
  <2>5. CASE ~(t.status = "DISABLED" /\ new = "DONE")
    BY <2>5
  <2> QED BY <2>4, <2>5
<1> HIDE DEF cleared
<1>3. AddFailure(cleared) \in StepRecords /\ AddFailure(cleared).retry_count = t.retry_count
  <2>1. PICK failures, first :
            AddFailure(cleared) = [cleared EXCEPT !.failures = failures, !.first_failure = first]
    BY Zenon DEF AddFailure
  <2>2. AddFailure(cleared).retry_count = cleared.retry_count
    BY <1>2, <2>1 DEF StepRecords
  <2> QED BY <1>2, <2>2, AddFailureType
<1>4. /\ f \in StepRecords /\ f.retry_count = t.retry_count
      /\ new # "FAILED" \/ t.status = "DISABLED" => f = cleared
  BY <1>2, <1>3
<1> HIDE DEF f
<1>5. ~RefusesStatus(t, new) => SetOwnStatus(t, new) = u
  BY DEF SetOwnStatus, Stored, cleared, f
<1>6. RefusesStatus(t, new) => SetOwnStatus(t, new) = t
  BY DEF SetOwnStatus
<1>7. /\ u.retry_count = f.retry_count /\ u.failures = f.failures
      /\ u.status = stored /\ u.disable_time = disabled
  BY <1>4 DEF StepRecords, Stored
<1>8. NumFailures(u) = NumFailures(f) /\ NumFailures(f) \in Nat /\ f.retry_count \in Nat
  <2>1. f.retry_count \in Nat
    BY <1>4 DEF StepRecords
  <2> QED BY <1>4, <1>7, <2>1, SameFailures, FailuresCount
<1>9. CASE RefusesStatus(t, new)
  BY <1>6, <1>9
<1>10. CASE ~RefusesStatus(t, new) /\ new = "FAILED" /\ t.status # "DISABLED"
  <2>1. CASE HasExcessiveFailures(f)
    <3>1. u.status = "DISABLED" /\ u.disable_time = 0
      BY <1>7, <1>10, <2>1 DEF StatusStored
    <3>2. 0 # None
      BY ConstantsAssumption DEF ConstantsAssumption
    <3> HIDE DEF u
    <3> QED BY <1>4, <1>5, <1>7, <1>10, <3>1, <3>2
  <2>2. CASE ~HasExcessiveFailures(f)
    <3>1. u.status = "FAILED"
      BY <1>7, <1>10, <2>2 DEF StatusStored
    <3>2. NumFailures(f) < f.retry_count
      BY <1>8, <2>2 DEF HasExcessiveFailures
    <3> HIDE DEF u
    <3> QED BY <1>4, <1>5, <1>7, <1>8, <1>10, <3>1, <3>2
  <2> QED BY <2>1, <2>2
<1>11. CASE ~RefusesStatus(t, new) /\ (new # "FAILED" \/ t.status = "DISABLED")
  <2>1. stored = new
    BY <1>11 DEF StatusStored
  <2> HIDE DEF u, stored
  <2> QED BY <1>2, <1>4, <1>5, <1>7, <1>11, <2>1
<1> QED BY <1>9, <1>10, <1>11

\* A step that has not been disabled has failed less often than it may, and it is the
\* scheduler that has disabled those that have been.
InBudget(t, m) ==
    /\ t.retry_count <= m
    /\ t.status = "DISABLED" => t.disable_time # None
    /\ t.status # "DISABLED" => NumFailures(t) < m

\* The budgets that a step without a retry_count of its own keeps.
Budgets == {m \in Nat \ {0} : DefaultRetryCount <= m}

\* From record t to u the budget is kept, whatever it is.
KeepsBudget(t, u) == \A m \in Budgets : InBudget(t, m) => InBudget(u, m)

Unfailed(t, u) == NumFailures(u) <= NumFailures(t)

\* Nothing changes that has to do with failures.
SameTally(t, u) == SameStatus(t, u) /\ u.retry_count = t.retry_count

LEMMA SameTallyKeeps ==
    ASSUME NEW t \in StepRecords, NEW u, SameTally(t, u)
    PROVE  KeepsBudget(t, u) /\ Unfailed(t, u)
<1>1. NumFailures(u) = NumFailures(t) /\ NumFailures(t) \in Nat
  BY SameFailures, FailuresCount DEF SameTally, SameStatus
<1> QED BY <1>1 DEF SameTally, SameStatus, KeepsBudget, InBudget, Unfailed

LEMMA KeepsTrans ==
    ASSUME NEW t \in StepRecords, NEW u \in StepRecords, NEW v \in StepRecords
    PROVE  /\ KeepsBudget(t, u) /\ KeepsBudget(u, v) => KeepsBudget(t, v)
           /\ Unfailed(t, u) /\ Unfailed(u, v) => Unfailed(t, v)
<1>1. NumFailures(t) \in Nat /\ NumFailures(u) \in Nat /\ NumFailures(v) \in Nat
  BY FailuresCount
<1> QED BY <1>1 DEF KeepsBudget, Unfailed

LEMMA SetOwnStatusBudget ==
    ASSUME NEW t \in StepRecords, NEW new \in Statuses
    PROVE  LET u == SetOwnStatus(t, new)
           IN  /\ new # "DISABLED" => KeepsBudget(t, u)
               /\ new # "FAILED" \/ t.status = "DISABLED" => Unfailed(t, u)
<1>1. PICK u : u = SetOwnStatus(t, new)
  OBVIOUS
<1>2. u \in StepRecords
  BY <1>1, SetOwnStatusType
<1>3. /\ NumFailures(t) \in Nat /\ NumFailures(u) \in Nat
      /\ t.retry_count \in Nat /\ u.retry_count = t.retry_count
  <2>1. t.retry_count \in Nat
    BY DEF StepRecords
  <2> QED BY <1>1, <1>2, <2>1, FailuresCount, SetOwnStatusTally
<1>4. CASE RefusesStatus(t, new) /\ u = t
  BY <1>1, <1>3, <1>4 DEF KeepsBudget, Unfailed
<1>5. CASE /\ new = "FAILED" /\ t.status # "DISABLED"
           /\ \/ u.status = "FAILED" /\ NumFailures(u) < t.retry_count
              \/ u.status = "DISABLED" /\ u.disable_time # None
  <2>1. ASSUME NEW m \in Budgets, InBudget(t, m) PROVE InBudget(u, m)
    BY <1>3, <1>5, <2>1 DEF InBudget, Budgets
  <2> QED BY <1>1, <1>5, <2>1 DEF KeepsBudget
<1>6. CASE /\ ~RefusesStatus(t, new)
           /\ new # "FAILED" \/ t.status = "DISABLED"
           /\ u.status = new
           /\ u.failures = IF t.status = "DISABLED" /\ new = "DONE"
                           THEN NoFailures ELSE t.failures
  <2>1. IF t.status = "DISABLED" /\ new = "DONE" THEN NumFailures(u) = 0
                                                 ELSE NumFailures(u) = NumFailures(t)
    BY <1>2, <1>6, NoFailuresCount, SameFailures
  <2>2. ASSUME NEW m \in Budgets, InBudget(t, m), new # "DISABLED" PROVE InBudget(u, m)
    <3>1. t.status = "DISABLED" => new = "DONE"
      BY <1>6, <2>2 DEF RefusesStatus, InBudget
    <3> QED BY <1>3, <1>6, <2>1, <2>2, <3>1 DEF InBudget, Budgets
  <2> QED BY <1>1, <1>3, <2>1, <2>2 DEF KeepsBudget, Unfailed
<1> QED BY <1>1, <1>4, <1>5, <1>6, SetOwnStatusTally

LEMMA EndMemberBudget ==
    ASSUME NEW t \in StepRecords, NEW new \in Statuses
    PROVE  LET u == EndMember(t, new)
           IN  /\ u \in StepRecords
               /\ new # "DISABLED" => KeepsBudget(t, u)
               /\ new # "FAILED" => Unfailed(t, u)
<1>1. PICK v : v = SetOwnStatus(t, new)
  OBVIOUS
<1>2. PICK u : u = [v EXCEPT !.batch_id = {}]
  OBVIOUS
<1>3. v \in StepRecords
  BY <1>1, SetOwnStatusType
<1>4. u \in StepRecords
  BY <1>2, <1>3 DEF StepRecords
<1>5. SameTally(v, u)
  BY <1>2, <1>3 DEF StepRecords, SameTally, SameStatus
<1>6. u = EndMember(t, new)
  BY <1>1, <1>2 DEF EndMember
<1> QED BY <1>1, <1>3, <1>4, <1>5, <1>6, SetOwnStatusBudget, SameTallyKeeps, KeepsTrans

\* re_enable gives the step a clean record.
LEMMA ReEnableBudget ==
    ASSUME NEW t \in StepRecords, t.status = "DISABLED"
    PROVE  KeepsBudget(t, ReEnable(t)) /\ Unfailed(t, ReEnable(t))
<1>1. PICK d : d = ClearFailures(t)
  OBVIOUS
<1>2. d \in StepRecords /\ d.status = "DISABLED" /\ d.retry_count = t.retry_count
  <2>1. d.retry_count = t.retry_count
    BY <1>1 DEF ClearFailures, StepRecords
  <2> QED BY <1>1, <2>1, ClearFailuresType
<1>3. PICK c : c = [d EXCEPT !.disable_time = None]
  OBVIOUS
<1>4. c \in StepRecords
  BY <1>2, <1>3 DEF StepRecords
<1>5. c.status = "DISABLED" /\ c.retry_count = t.retry_count /\ c.disable_time = None
  BY <1>2, <1>3 DEF StepRecords
<1>6. PICK v : v = SetOwnStatus(c, "FAILED")
  OBVIOUS
<1>7. ~RefusesStatus(c, "FAILED") /\ "FAILED" \in Statuses
  BY <1>5 DEF RefusesStatus, Statuses
<1>8. v \in StepRecords /\ v.status = "FAILED" /\ v.retry_count = t.retry_count
  BY <1>4, <1>5, <1>6, <1>7, SetOwnStatusType, SetOwnStatusTally
<1>9. PICK u : u = ClearFailures(v)
  OBVIOUS
<1>10. u \in StepRecords /\ u.status = "FAILED" /\ u.retry_count = t.retry_count
  <2>1. u.retry_count = v.retry_count
    BY <1>8, <1>9 DEF ClearFailures, StepRecords
  <2> QED BY <1>8, <1>9, <2>1, ClearFailuresType
<1>11. NumFailures(u) = 0 /\ NumFailures(t) \in Nat
  BY <1>8, <1>9, <1>10, ClearFailuresType, NoFailuresCount, FailuresCount
<1>12. u = ReEnable(t)
  BY <1>1, <1>3, <1>6, <1>9 DEF ReEnable
<1>13. KeepsBudget(t, u) /\ Unfailed(t, u)
  BY <1>10, <1>11 DEF KeepsBudget, InBudget, Unfailed, Budgets
<1> QED BY <1>12, <1>13

LEMMA FailDeadWorkerStepBudget ==
    ASSUME NEW t \in StepRecords
    PROVE  KeepsBudget(t, FailDeadWorkerStep(t))
<1>1. PICK orphan : orphan = [t EXCEPT !.worker_running = None]
  OBVIOUS
<1>2. orphan \in StepRecords
  BY <1>1 DEF StepRecords
<1>3. SameTally(t, orphan)
  BY <1>1 DEF StepRecords, SameTally, SameStatus
<1>4. PICK f : f = IF EndsBatch(t, "FAILED") THEN EndMember(orphan, "FAILED")
                                             ELSE SetOwnStatus(orphan, "FAILED")
  OBVIOUS
<1>5. "FAILED" \in Statuses
  BY DEF Statuses
<1>6. f \in StepRecords /\ KeepsBudget(orphan, f)
  BY <1>2, <1>4, <1>5, EndMemberBudget, SetOwnStatusBudget, SetOwnStatusType
<1>7. PICK u : u = [f EXCEPT !.retry = RetryDelay + 1]
  OBVIOUS
<1>8. u \in StepRecords
  <2>1. RetryDelay + 1 \in Nat
    BY TimingAssumption DEF TimingAssumption
  <2> QED BY <1>6, <1>7, <2>1 DEF StepRecords
<1>9. SameTally(f, u)
  BY <1>6, <1>7 DEF StepRecords, SameTally, SameStatus
<1>10. u = FailDeadWorkerStep(t)
  BY <1>1, <1>4, <1>7 DEF FailDeadWorkerStep
<1> QED BY <1>2, <1>3, <1>6, <1>8, <1>9, <1>10, SameTallyKeeps, KeepsTrans

LEMMA UpdateStatusBudget ==
    ASSUME NEW t, StepOK(t)
    PROVE  KeepsBudget(t, UpdateStatus(t)) /\ Unfailed(t, UpdateStatus(t))
<1>1. PICK marked : marked = [t EXCEPT !.remove =
                       IF t.stakeholders = {} /\ t.remove = None /\ t.status # "RUNNING"
                       THEN RemoveDelay ELSE t.remove]
  OBVIOUS
<1>2. t \in StepRecords
  BY DEF StepOK
<1>3. marked \in StepRecords
  <2>1. RemoveDelay \in Nat
    BY TimingAssumption DEF TimingAssumption
  <2> QED BY <1>1, <1>2, <2>1 DEF StepRecords
<1>4. SameTally(t, marked)
  BY <1>1, <1>2 DEF StepRecords, SameTally, SameStatus
<1>5. StepOK(marked)
  BY <1>1, <1>2, <1>3 DEF StepRecords, StepOK, Timed
<1>6. PICK enabled : enabled = IF /\ t.status = "DISABLED" /\ t.disable_time # None
                                  /\ t.disable_time > DisablePersist
                               THEN ReEnable(marked) ELSE marked
  OBVIOUS
<1>7. /\ enabled \in StepRecords
      /\ KeepsBudget(marked, enabled) /\ Unfailed(marked, enabled)
  <2>1. CASE /\ t.status = "DISABLED" /\ t.disable_time # None
             /\ t.disable_time > DisablePersist
    <3>1. marked.status = "DISABLED"
      BY <1>4, <2>1 DEF SameTally, SameStatus
    <3> QED BY <1>3, <1>5, <1>6, <2>1, <3>1, ReEnableBudget, ReEnableOK DEF StepOK
  <2>2. CASE ~(/\ t.status = "DISABLED" /\ t.disable_time # None
               /\ t.disable_time > DisablePersist)
    <3>1. enabled = marked
      BY <1>6, <2>2
    <3> QED BY <1>3, <3>1, SameTallyKeeps DEF SameTally, SameStatus
  <2> QED BY <2>1, <2>2
<1>8. PICK u : u = IF enabled.status = "FAILED" /\ enabled.retry = 0
                   THEN SetOwnStatus(enabled, "PENDING") ELSE enabled
  OBVIOUS
<1>9. u \in StepRecords /\ KeepsBudget(enabled, u) /\ Unfailed(enabled, u)
  <2>1. "PENDING" \in Statuses
    BY DEF Statuses
  <2>2. KeepsBudget(enabled, enabled) /\ Unfailed(enabled, enabled)
    BY <1>7, SameTallyKeeps DEF SameTally, SameStatus
  <2> QED BY <1>7, <1>8, <2>1, <2>2, SetOwnStatusBudget, SetOwnStatusType
<1>10. u = UpdateStatus(t)
  BY <1>1, <1>6, <1>8 DEF UpdateStatus
<1>11. KeepsBudget(t, marked) /\ Unfailed(t, marked)
  BY <1>2, <1>4, SameTallyKeeps
<1>12. KeepsBudget(t, enabled) /\ Unfailed(t, enabled)
  BY <1>2, <1>3, <1>7, <1>11, KeepsTrans
<1> QED BY <1>2, <1>7, <1>9, <1>10, <1>12, KeepsTrans

LEMMA NoStepBudget ==
    ASSUME NEW t \in StepRecords
    PROVE  KeepsBudget(t, NoStep) /\ Unfailed(t, NoStep)
<1>1. NoStep \in StepRecords
  BY NoStepOK DEF StepOK
<1>2. /\ NoStep.failures = NoFailures /\ NoStep.status = Absent
      /\ NoStep.retry_count = DefaultRetryCount
  BY DEF NoStep, NewStep
<1>3. NumFailures(NoStep) = 0 /\ NumFailures(t) \in Nat
  BY <1>1, <1>2, NoFailuresCount, FailuresCount
<1> QED BY <1>2, <1>3 DEF KeepsBudget, InBudget, Unfailed, Budgets, Absent

LEMMA NewStepBudget ==
    ASSUME NEW t \in StepRecords, NEW status \in {"PENDING", "UNKNOWN"},
           NEW deps \in SUBSET Steps, NEW resources \in Amounts, NEW priority \in Nat
    PROVE  LET u == NewStep(status, deps, resources, priority)
           IN  KeepsBudget(t, u) /\ Unfailed(t, u)
<1>1. PICK u : u = NewStep(status, deps, resources, priority)
  OBVIOUS
<1>2. u \in StepRecords
  BY <1>1, NewStepOK DEF StepOK
<1>3. /\ u.failures = NoFailures /\ u.status = status
      /\ u.retry_count = DefaultRetryCount
  BY <1>1 DEF NewStep
<1>4. NumFailures(u) = 0 /\ NumFailures(t) \in Nat
  BY <1>2, <1>3, NoFailuresCount, FailuresCount
<1> QED BY <1>1, <1>3, <1>4 DEF KeepsBudget, InBudget, Unfailed, Budgets

LEMMA SetStatusBudget ==
    ASSUME NEW ss, \A x \in Steps : ss[x] \in StepRecords, NEW s \in Steps,
           NEW new \in Statuses, NEW x \in Steps
    PROVE  LET u == SetStatus(ss, s, new)[x]
           IN  /\ new # "DISABLED" => KeepsBudget(ss[x], u)
               /\ \/ new # "FAILED"
                  \/ x # s /\ \A y \in Steps : Plain(ss[y])
                  => Unfailed(ss[x], u)
<1>1. PICK u : u = SetStatus(ss, s, new)[x]
  OBVIOUS
<1>2. /\ u \in {ss[x], EndMember(ss[x], new), SetOwnStatus(ss[x], new)}
      /\ x # s /\ ~EndsBatch(ss[s], new) => u = ss[x]
  BY <1>1 DEF SetStatus
<1>3. (\A y \in Steps : Plain(ss[y])) => ~EndsBatch(ss[s], new)
  BY DEF EndsBatch, Plain
<1>4. KeepsBudget(ss[x], ss[x]) /\ Unfailed(ss[x], ss[x])
  BY SameTallyKeeps DEF SameTally, SameStatus
<1>5. CASE u = ss[x]
  BY <1>1, <1>4, <1>5
<1>6. CASE u = EndMember(ss[x], new)
  <2>1. (new # "DISABLED" => KeepsBudget(ss[x], u)) /\ (new # "FAILED" => Unfailed(ss[x], u))
    BY <1>6, EndMemberBudget
  <2> QED BY <1>1, <1>2, <1>3, <1>4, <2>1
<1>7. CASE u = SetOwnStatus(ss[x], new)
  <2>1. (new # "DISABLED" => KeepsBudget(ss[x], u)) /\ (new # "FAILED" => Unfailed(ss[x], u))
    BY <1>7, SetOwnStatusBudget
  <2> QED BY <1>1, <1>2, <1>3, <1>4, <2>1
<1> QED BY <1>2, <1>5, <1>6, <1>7

\* prune: a failure is counted only for a run whose worker is gone.
LEMMA PrunedStepBudget ==
    ASSUME NEW ss, \A y \in Steps : StepOK(ss[y]), NEW ord, NEW assistants, NEW x \in Steps
    PROVE  LET u == PrunedStep(ss, ord, x, assistants)
           IN  /\ KeepsBudget(ss[x], u)
               /\ (\A y \in Steps : Plain(ss[y])) /\ ~HasDeadWorker(ss[x], assistants)
                  => Unfailed(ss[x], u)
<1>1. PICK t : t = ss[x]
  OBVIOUS
<1>2. t \in StepRecords /\ StepOK(t) /\ "FAILED" \in Statuses
  BY <1>1 DEF StepOK, Statuses
<1>3. PICK f : /\ f \in {t, EndMember(t, "FAILED"), FailDeadWorkerStep(t)}
               /\ Visited(ss, ord, x, assistants) = UpdateStatus(f)
               /\ f = EndMember(t, "FAILED") \/ f = FailDeadWorkerStep(t) =>
                      f = t \/ t.status \in ActiveStatuses
               /\ DeadRunnersOf(ss, x, assistants) = {} /\ ~HasDeadWorker(t, assistants)
                  => f = t
  <2>1. PICK earlier : earlier = {r \in DeadRunnersOf(ss, x, assistants) : <<r, x>> \in ord}
    OBVIOUS
  <2>2. PICK f : f = CASE earlier # {} -> EndMember(ss[x], "FAILED")
                       [] earlier = {} /\ HasDeadWorker(ss[x], assistants) ->
                              FailDeadWorkerStep(ss[x])
                       [] OTHER -> ss[x]
    OBVIOUS
  <2>3. Visited(ss, ord, x, assistants) = UpdateStatus(f)
    BY <2>1, <2>2 DEF Visited
  <2>4. earlier # {} => t.status \in ActiveStatuses
    BY <1>1, <2>1 DEF DeadRunnersOf, BatchRunningSteps, ActiveStatuses
  <2>5. HasDeadWorker(t, assistants) => t.status \in ActiveStatuses
    BY DEF HasDeadWorker
  <2>6. DeadRunnersOf(ss, x, assistants) = {} => earlier = {}
    BY <2>1
  <2>7. CASE earlier # {}
    BY <1>1, <2>2, <2>3, <2>4, <2>6, <2>7
  <2>8. CASE earlier = {} /\ HasDeadWorker(t, assistants)
    BY <1>1, <2>2, <2>3, <2>5, <2>8
  <2>9. CASE earlier = {} /\ ~HasDeadWorker(t, assistants)
    BY <1>1, <2>2, <2>3, <2>9
  <2> QED BY <2>7, <2>8, <2>9
<1>4. KeepsBudget(t, t) /\ Unfailed(t, t)
  BY <1>2, SameTallyKeeps DEF SameTally, SameStatus
<1>5. StepOK(f) /\ KeepsBudget(t, f)
  <2>1. CASE f = t
    BY <1>2, <1>4, <2>1
  <2>2. CASE f = EndMember(t, "FAILED") /\ t.status \in ActiveStatuses
    BY <1>2, <2>2, EndMemberKeeps, EndMemberBudget DEF RunEndings
  <2>3. CASE f = FailDeadWorkerStep(t) /\ t.status \in ActiveStatuses
    BY <1>2, <2>3, FailDeadWorkerStepOK, FailDeadWorkerStepBudget
  <2> QED BY <1>3, <2>1, <2>2, <2>3
<1>6. PICK v : v = Visited(ss, ord, x, assistants)
  OBVIOUS
<1>7. StepOK(v) /\ KeepsBudget(f, v) /\ Unfailed(f, v)
  BY <1>3, <1>5, <1>6, UpdateStatusBudget, UpdateStatusOK
<1>8. KeepsBudget(t, v) /\ (f = t => Unfailed(t, v))
  BY <1>2, <1>5, <1>7, KeepsTrans DEF StepOK
<1>9. PICK u : u = PrunedStep(ss, ord, x, assistants)
  OBVIOUS
<1>10. /\ u \in {NoStep, EndMember(v, "FAILED"), v}
       /\ DeadRunnersOf(ss, x, assistants) = {} => u \in {NoStep, v}
  BY <1>6, <1>9 DEF PrunedStep, Looped
<1>11. KeepsBudget(t, NoStep) /\ Unfailed(t, NoStep)
  BY <1>2, NoStepBudget
<1>12. KeepsBudget(t, EndMember(v, "FAILED"))
  <2>1. v \in StepRecords
    BY <1>7 DEF StepOK
  <2> QED BY <1>2, <1>8, <2>1, EndMemberBudget, KeepsTrans
<1>13. (\A y \in Steps : Plain(ss[y])) => DeadRunnersOf(ss, x, assistants) = {}
  BY DEF DeadRunnersOf, EndsBatch, Plain
<1> QED BY <1>1, <1>3, <1>8, <1>9, <1>10, <1>11, <1>12, <1>13

-----------------------------------------------------------------------------
(* add_step. *)

LEMMA AttributedTally ==
    ASSUME NEW t \in StepRecords, NEW q \in Requests
    PROVE  SameTally(t, Attributed(t, q))
<1>1. PICK batch, runner :
          Attributed(t, q) = [t EXCEPT !.batch_id = batch, !.worker_running = runner]
  BY Zenon DEF Attributed
<1> QED BY <1>1 DEF StepRecords, SameTally, SameStatus

LEMMA ClaimedTally ==
    ASSUME NEW ss, \A x \in Steps : StepOK(ss[x]), NEW q \in Requests
    PROVE  SameTally(ss[q.step], Claimed(ss, q))
<1>1. PICK a : a = Attributed(ss[q.step], q)
  OBVIOUS
<1>2. ss[q.step] \in StepRecords
  BY DEF Requests, StepOK
<1>3. a \in StepRecords /\ SameTally(ss[q.step], a)
  <2>1. StepOK(a)
    BY <1>1, AttributedOK DEF Requests
  <2> QED BY <1>1, <1>2, <2>1, AttributedTally DEF StepOK
<1>4. PICK rr, b : Claimed(ss, q) = [a EXCEPT !.resources_running = rr, !.batchable = b,
                                              !.remove = None]
  BY <1>1, Zenon DEF Claimed
<1>5. SameTally(a, Claimed(ss, q))
  BY <1>3, <1>4 DEF StepRecords, SameTally, SameStatus
<1> QED BY <1>3, <1>5 DEF SameTally, SameStatus

\* Only the retry_count of the request comes in.
LEMMA DescribedTally ==
    ASSUME NEW t \in StepRecords, NEW q, NEW enabled
    PROVE  LET u == Described(t, q, enabled)
           IN  SameStatus(t, u) /\ u.retry_count = q.retry_count
<1>1. PICK deps : deps = (IF q.deps # None THEN q.deps ELSE t.deps) \cup q.new_deps
  OBVIOUS
<1>2. PICK rr : rr = IF t.resources_running = Shared THEN t.resources ELSE t.resources_running
  OBVIOUS
<1>3. PICK stk : stk = IF enabled /\ ~q.assistant THEN t.stakeholders \cup {q.worker}
                                                 ELSE t.stakeholders
  OBVIOUS
<1>4. PICK wks : wks = IF Registers(q, enabled) THEN t.workers \cup {q.worker} ELSE t.workers
  OBVIOUS
<1>5. PICK runnable : runnable = IF Registers(q, enabled) THEN TRUE ELSE t.runnable
  OBVIOUS
<1>6. Described(t, q, enabled) =
          DescribedAs(t, deps, rr, q.resources, q.retry_count, stk, wks, runnable)
  BY <1>1, <1>2, <1>3, <1>4, <1>5 DEF Described, DescribedAs
<1> QED BY <1>6 DEF StepRecords, DescribedAs, SameStatus

LEMMA HeldBudget ==
    ASSUME NEW t, StepOK(t), NEW q \in Requests
    PROVE  KeepsBudget(t, Held(t, q)) /\ Unfailed(t, Held(t, q))
<1>1. PICK d : d = IF t.status = Absent THEN NewStep("UNKNOWN", {}, NoResources, q.priority)
                                        ELSE t
  OBVIOUS
<1>2. t \in StepRecords
  BY DEF StepOK
<1>3. NoResources \in Amounts /\ q.priority \in Nat /\ {} \in SUBSET Steps
  BY DEF Requests, NoResources, Amounts
<1>4. d \in StepRecords /\ KeepsBudget(t, d) /\ Unfailed(t, d)
  <2>1. CASE t.status = Absent
    BY <1>1, <1>2, <1>3, <2>1, NewStepBudget, NewStepOK DEF StepOK
  <2>2. CASE t.status # Absent
    BY <1>1, <1>2, <2>2, SameTallyKeeps DEF SameTally, SameStatus
  <2> QED BY <2>1, <2>2
<1>5. PICK stk : Held(t, q) = [d EXCEPT !.stakeholders = stk]
  BY <1>1, Zenon DEF Held
<1>6. SameTally(d, Held(t, q))
  BY <1>4, <1>5 DEF StepRecords, SameTally, SameStatus
<1>7. Held(t, q) \in StepRecords
  BY HeldOK DEF StepOK
<1> QED BY <1>2, <1>4, <1>6, <1>7, SameTallyKeeps, KeepsTrans

LEMMA UpdatePriorityTally ==
    ASSUME NEW ss, NEW s, NEW prio, NEW x \in Steps, ss[x] \in StepRecords
    PROVE  SameTally(ss[x], UpdatePriority(ss, s, prio)[x])
<1>1. PICK top : top = IF prio > ss[s].priority THEN prio ELSE ss[s].priority
  OBVIOUS
<1>2. UpdatePriority(ss, s, prio)[x] \in {ss[x], [ss[x] EXCEPT !.priority = top]}
  BY <1>1 DEF UpdatePriority
<1>3. PICK v : v = [ss[x] EXCEPT !.priority = top]
  OBVIOUS
<1>4. SameTally(ss[x], v) /\ SameTally(ss[x], ss[x])
  BY <1>3 DEF StepRecords, SameTally, SameStatus
<1> QED BY <1>2, <1>3, <1>4

\* The request names no budget larger than m for step x, and disables nothing.
Modest(q, x, m) == q.status # "DISABLED" /\ (x = q.step => q.retry_count <= m)

\* The request does not report a failure of step x.
Harmless(ss, q, x) ==
    \/ q.status # "FAILED"
    \/ x # q.step /\ PlainCall(q) /\ \A y \in Steps : Plain(ss[y])

\* What a request makes of the failures and the budget of a step.
Tallies(t, u, x, q, harmless) ==
    /\ \A m \in Budgets : Modest(q, x, m) /\ InBudget(t, m) => InBudget(u, m)
    /\ harmless => Unfailed(t, u)

LEMMA KeptTallies ==
    ASSUME NEW t \in StepRecords, NEW u \in StepRecords, NEW v \in StepRecords,
           NEW x, NEW q, NEW harmless \in BOOLEAN, Tallies(t, u, x, q, harmless)
    PROVE  /\ KeepsBudget(u, v) /\ Unfailed(u, v) => Tallies(t, v, x, q, harmless)
           /\ SameTally(u, v) => Tallies(t, v, x, q, harmless)
           /\ Tallies(u, v, x, q, harmless) => Tallies(t, v, x, q, harmless)
<1>1. SameTally(u, v) => KeepsBudget(u, v) /\ Unfailed(u, v)
  BY SameTallyKeeps
<1>2. harmless => (Unfailed(u, v) => Unfailed(t, v))
  BY KeepsTrans DEF Tallies
<1> QED BY <1>1, <1>2 DEF Tallies, KeepsBudget

LEMMA SameTallies ==
    ASSUME NEW t \in StepRecords, NEW u, NEW x, NEW q, NEW harmless, SameTally(t, u)
    PROVE  Tallies(t, u, x, q, harmless)
BY SameTallyKeeps DEF Tallies, KeepsBudget

LEMMA AddStepStepsBudget ==
    ASSUME NEW ss \in [Steps -> StepRecords], \A x \in Steps : StepOK(ss[x]),
           NEW q \in Calls, NEW enabled \in BOOLEAN, ~NamesLostBatch(ss, q),
           ss[q.step].status # Absent, NEW x \in Steps
    PROVE  Tallies(ss[x], AddStepSteps(ss, q, enabled)[x], x, q, Harmless(ss, q, x))
<1>1. /\ q \in Requests /\ q.step \in Steps /\ q.priority \in Nat
      /\ q.status \in Statuses \ {"BATCH_RUNNING"}
  BY DEF Calls, Requests
<1>2. PICK harmless \in BOOLEAN : harmless = Harmless(ss, q, x)
  BY DEF Harmless
<1>3. PICK claimed : claimed = [ss EXCEPT ![q.step] = Claimed(ss, q)]
  OBVIOUS
<1>4. PICK set : set = IF MaySetStatus(claimed[q.step], q)
                       THEN SetStatus(claimed, q.step, q.status) ELSE claimed
  OBVIOUS
<1>5. PICK described : described = [set EXCEPT ![q.step] = Described(set[q.step], q, enabled)]
  OBVIOUS
<1>6. PICK deps : deps = IF enabled /\ ~q.assistant THEN described[q.step].deps ELSE {}
  OBVIOUS
<1>7. PICK held : held = [y \in Steps |-> IF y \in deps THEN Held(described[y], q)
                                                        ELSE described[y]]
  OBVIOUS
<1>8. AddStepSteps(ss, q, enabled) = UpdatePriority(held, q.step, q.priority)
  BY <1>3, <1>4, <1>5, <1>6, <1>7 DEF AddStepSteps
<1>9. /\ DOMAIN claimed = Steps
      /\ \A y \in Steps : claimed[y] = IF y = q.step THEN Claimed(ss, q) ELSE ss[y]
  BY <1>1, <1>3
<1>10. StepOK(Claimed(ss, q)) /\ SameTally(ss[q.step], Claimed(ss, q))
  BY <1>1, ClaimedOK, ClaimedTally
<1>11. /\ \A y \in Steps : StepOK(claimed[y]) /\ claimed[y] \in StepRecords
                           /\ claimed[y].status = ss[y].status
       /\ SameTally(ss[x], claimed[x])
  BY <1>1, <1>9, <1>10 DEF SameTally, SameStatus, StepOK
<1>12. q.status = "RUNNING" => claimed[q.step].worker_running # None
  BY <1>1, <1>9, ClaimedOK
<1>13. Tallies(ss[x], claimed[x], x, q, harmless)
  BY <1>11, SameTallies
<1>14. /\ DOMAIN set = Steps
       /\ \A y \in Steps : StepOK(set[y]) /\ (ss[y].status # Absent => set[y].status # Absent)
       /\ Tallies(claimed[x], set[x], x, q, harmless)
  <2>1. CASE MaySetStatus(claimed[q.step], q)
    <3>1. set = SetStatus(claimed, q.step, q.status)
      BY <1>4, <2>1
    <3>2. DOMAIN set = Steps
      BY <3>1 DEF SetStatus
    <3>3. \A y \in Steps :
             StepOK(set[y]) /\ (claimed[y].status # Absent => set[y].status # Absent)
      BY <1>1, <1>11, <1>12, <3>1, SetStatusOK
    <3>4. q.status # "DISABLED" => KeepsBudget(claimed[x], set[x])
      BY <1>1, <1>11, <3>1, SetStatusBudget
    <3>5. harmless => \/ q.status # "FAILED"
                      \/ x # q.step /\ \A y \in Steps : Plain(claimed[y])
      BY <1>2, <1>9, ClaimedPlain DEF Harmless
    <3>6. harmless => Unfailed(claimed[x], set[x])
      BY <1>1, <1>11, <3>1, <3>5, SetStatusBudget
    <3> QED BY <1>11, <3>2, <3>3, <3>4, <3>6 DEF Tallies, Modest, KeepsBudget
  <2>2. CASE ~MaySetStatus(claimed[q.step], q)
    <3>1. set = claimed
      BY <1>4, <2>2
    <3>2. SameTally(claimed[x], claimed[x])
      BY DEF SameTally, SameStatus
    <3> QED BY <1>9, <1>11, <3>1, <3>2, SameTallies
  <2> QED BY <2>1, <2>2
<1>15. Tallies(ss[x], set[x], x, q, harmless)
  BY <1>11, <1>13, <1>14, KeptTallies DEF StepOK
<1>16. /\ \A y \in Steps : StepOK(described[y])
       /\ Tallies(set[x], described[x], x, q, harmless)
  <2>1. PICK d : d = Described(set[q.step], q, enabled)
    OBVIOUS
  <2>2. \A y \in Steps : described[y] = IF y = q.step THEN d ELSE set[y]
    BY <1>1, <1>5, <1>14, <2>1
  <2>3. set[q.step] \in StepRecords /\ set[x] \in StepRecords
    BY <1>1, <1>14 DEF StepOK
  <2>4. StepOK(d)
    BY <1>1, <1>14, <2>1, DescribedOK
  <2>5. CASE x # q.step
    <3>1. SameTally(set[x], set[x])
      BY DEF SameTally, SameStatus
    <3> QED BY <1>1, <1>14, <2>2, <2>3, <2>4, <2>5, <3>1, SameTallies
  <2>6. CASE x = q.step
    <3>1. SameStatus(set[x], d) /\ d.retry_count = q.retry_count
      BY <2>1, <2>3, <2>6, DescribedTally
    <3>2. NumFailures(d) = NumFailures(set[x]) /\ NumFailures(set[x]) \in Nat
      BY <2>3, <3>1, SameFailures, FailuresCount DEF SameStatus
    <3>3. Tallies(set[x], d, x, q, harmless)
      BY <2>6, <3>1, <3>2 DEF Tallies, Modest, InBudget, SameStatus, Unfailed
    <3> QED BY <1>1, <1>14, <2>2, <2>4, <2>6, <3>3
  <2> QED BY <2>5, <2>6
<1>17. Tallies(ss[x], described[x], x, q, harmless)
  BY <1>14, <1>15, <1>16, KeptTallies DEF StepOK
<1>18. /\ StepOK(held[x]) /\ KeepsBudget(described[x], held[x])
       /\ Unfailed(described[x], held[x])
  <2>1. CASE x \in deps
    BY <1>1, <1>7, <1>16, <2>1, HeldOK, HeldBudget
  <2>2. CASE x \notin deps
    <3>1. held[x] = described[x] /\ described[x] \in StepRecords
      BY <1>7, <1>16, <2>2 DEF StepOK
    <3> QED BY <1>16, <3>1, SameTallyKeeps DEF SameTally, SameStatus
  <2> QED BY <2>1, <2>2
<1>19. Tallies(ss[x], held[x], x, q, harmless)
  BY <1>16, <1>17, <1>18, KeptTallies DEF StepOK
<1>20. PICK u : u = AddStepSteps(ss, q, enabled)[x]
  OBVIOUS
<1>21. u \in StepRecords /\ SameTally(held[x], u)
  <2>1. StepOK(u)
    BY <1>20, AddStepStepsOK
  <2> QED BY <1>8, <1>18, <1>20, <2>1, UpdatePriorityTally DEF StepOK
<1>22. Tallies(ss[x], u, x, q, harmless)
  BY <1>18, <1>19, <1>21, KeptTallies DEF StepOK
<1> QED BY <1>2, <1>20, <1>22

\* add_step leaves every step within its budget, if the request is modest.
LEMMA AddStepBudget ==
    ASSUME IInv, NEW q \in Calls, AddStep(q), NEW x \in Steps
    PROVE  Tallies(steps[x], steps'[x], x, q, Harmless(steps, q, x))
<1> DEFINE ws == UpdateWorker(workers, q.worker, FALSE)
           enabled == ~ws[q.worker].disabled
           ss == WithDefaultStep(steps, q, enabled)
           ignored == IgnoresRequest(ss[q.step], q, enabled)
           stored == ~ignored /\ ~AddStepFails(q)
<1>1. q \in Requests /\ q.worker \in Workers /\ q.step \in Steps
  BY DEF Calls, Requests
<1>2. TableOK(steps, workers)
  BY DEF IInv
<1>3. enabled \in BOOLEAN
  OBVIOUS
<1>4. ws[q.worker].disabled = GetWorker(workers, q.worker).disabled
  BY <1>1, <1>2, UpdateWorkerDisabled
<1>5. stored => ~NamesLostBatch(ss, q) /\ ss[q.step].status # Absent
  BY <1>4 DEF AddStepFails, IgnoresRequest
<1>6. steps' = CASE ignored -> ss
                 [] stored -> AddStepSteps(ss, q, enabled)
                 [] OTHER -> [ss EXCEPT ![q.step] = Attributed(ss[q.step], q)]
  BY DEF AddStep
<1> HIDE DEF ws, enabled
<1>7. /\ ss \in [Steps -> StepRecords] /\ steps \in [Steps -> StepRecords]
      /\ \A y \in Steps : StepOK(ss[y]) /\ ss[y] \in StepRecords /\ steps[y] \in StepRecords
  <2>1. steps \in [Steps -> StepRecords] /\ \A y \in Steps : StepOK(steps[y])
    BY <1>2 DEF TableOK
  <2>2. ss \in [Steps -> StepRecords] /\ \A y \in Steps : StepOK(ss[y])
    BY <1>1, <1>3, <2>1, WithDefaultStepOK
  <2> QED BY <2>1, <2>2
<1>8. PICK harmless \in BOOLEAN : harmless = Harmless(steps, q, x)
  BY DEF Harmless
<1>9. harmless => Harmless(ss, q, x)
  <2>1. (\A y \in Steps : Plain(steps[y])) => \A y \in Steps : Plain(ss[y])
    BY <1>1, <1>7, WithDefaultStepPlain
  <2> QED BY <1>8, <2>1 DEF Harmless
<1>10. Tallies(steps[x], ss[x], x, q, harmless)
  <2>1. PICK deps : deps = IF q.deps = None THEN {} ELSE q.deps
    OBVIOUS
  <2>2. PICK new : new = NewStep("PENDING", deps, q.resources, q.priority)
    OBVIOUS
  <2>3. deps \in SUBSET Steps /\ q.resources \in Amounts /\ q.priority \in Nat
    BY <1>1, <2>1 DEF Requests
  <2>4. KeepsBudget(steps[x], new) /\ Unfailed(steps[x], new)
    BY <1>7, <2>2, <2>3, NewStepBudget
  <2>5. ss[x] \in {steps[x], new}
    BY <1>1, <1>7, <2>1, <2>2 DEF WithDefaultStep
  <2>6. SameTally(steps[x], steps[x])
    BY DEF SameTally, SameStatus
  <2> QED BY <1>7, <2>4, <2>5, <2>6, SameTallies DEF Tallies, KeepsBudget
<1> HIDE DEF ss
<1>11. steps'[x] \in StepRecords
  BY AddStepGood DEF Good, IInv, TableOK, StepOK
<1>12. Tallies(ss[x], steps'[x], x, q, harmless)
  <2>1. CASE ignored
    <3>1. steps' = ss /\ SameTally(ss[x], ss[x])
      BY <1>6, <2>1 DEF SameTally, SameStatus
    <3> QED BY <1>7, <3>1, SameTallies
  <2>2. CASE stored
    <3>1. steps' = AddStepSteps(ss, q, enabled)
      BY <1>6, <2>2
    <3>2. Tallies(ss[x], AddStepSteps(ss, q, enabled)[x], x, q, Harmless(ss, q, x))
      BY <1>3, <1>5, <1>7, <2>2, AddStepStepsBudget
    <3> QED BY <1>9, <3>1, <3>2 DEF Tallies
  <2>3. CASE ~ignored /\ ~stored
    <3>1. PICK a : a = Attributed(ss[q.step], q)
      OBVIOUS
    <3>2. steps' = [ss EXCEPT ![q.step] = a]
      BY <1>6, <2>3, <3>1
    <3>3. steps'[x] = ss[x] \/ (x = q.step /\ steps'[x] = a)
      BY <1>7, <3>2
    <3>4. SameTally(ss[q.step], a) /\ SameTally(ss[x], ss[x])
      BY <1>1, <1>7, <3>1, AttributedTally DEF SameTally, SameStatus
    <3> QED BY <1>7, <3>3, <3>4, SameTallies
  <2> QED BY <2>1, <2>2, <2>3
<1>13. Tallies(steps[x], steps'[x], x, q, harmless)
  BY <1>7, <1>10, <1>11, <1>12, KeptTallies
<1> QED BY <1>8, <1>13

-----------------------------------------------------------------------------
(* The other handlers. *)

Spares(t, u) == KeepsBudget(t, u) /\ Unfailed(t, u)

\* Every step keeps its budget and no failure is counted.
AllSpared == \A x \in Steps : Spares(steps[x], steps'[x])

LEMMA SparesSame ==
    ASSUME NEW t \in StepRecords
    PROVE  Spares(t, t)
BY SameTallyKeeps DEF Spares, SameTally, SameStatus

LEMMA UnchangedSpared ==
    ASSUME IInv, UNCHANGED steps
    PROVE  AllSpared
BY SparesSame DEF AllSpared, IInv, TableOK, StepOK

LEMMA SetRunningBudget ==
    ASSUME NEW t, StepOK(t), NEW w \in Workers
    PROVE  Spares(t, SetRunning(t, w))
<1>1. PICK v : v = SetOwnStatus(t, "RUNNING")
  OBVIOUS
<1>2. t \in StepRecords /\ "RUNNING" \in Statuses
  BY DEF StepOK, Statuses
<1>3. v \in StepRecords /\ KeepsBudget(t, v) /\ Unfailed(t, v)
  BY <1>1, <1>2, SetOwnStatusType, SetOwnStatusBudget
<1>4. PICK rr : SetRunning(t, w) = [v EXCEPT !.worker_running = w, !.resources_running = rr]
  BY <1>1, Zenon DEF SetRunning
<1>5. SameTally(v, SetRunning(t, w))
  BY <1>3, <1>4 DEF StepRecords, SameTally, SameStatus
<1>6. SetRunning(t, w) \in StepRecords
  BY SetRunningOK DEF StepOK
<1> QED BY <1>2, <1>3, <1>5, <1>6, SameTallyKeeps, KeepsTrans DEF Spares

LEMMA SetBatchRunningBudget ==
    ASSUME NEW t, StepOK(t), NEW batch \in SUBSET Steps, batch # {}, NEW w \in Workers
    PROVE  Spares(t, SetBatchRunning(t, batch, w))
<1>1. PICK v : v = SetOwnStatus(t, "BATCH_RUNNING")
  OBVIOUS
<1>2. t \in StepRecords /\ "BATCH_RUNNING" \in Statuses
  BY DEF StepOK, Statuses
<1>3. v \in StepRecords /\ KeepsBudget(t, v) /\ Unfailed(t, v)
  BY <1>1, <1>2, SetOwnStatusType, SetOwnStatusBudget
<1>4. SetBatchRunning(t, batch, w) = [v EXCEPT !.batch_id = batch, !.worker_running = w,
                                               !.resources_running = Shared]
  BY <1>1 DEF SetBatchRunning
<1>5. SameTally(v, SetBatchRunning(t, batch, w))
  BY <1>3, <1>4 DEF StepRecords, SameTally, SameStatus
<1>6. SetBatchRunning(t, batch, w) \in StepRecords
  BY SetBatchRunningOK DEF StepOK
<1> QED BY <1>2, <1>3, <1>5, <1>6, SameTallyKeeps, KeepsTrans DEF Spares

LEMMA GetWorkBudget ==
    ASSUME IInv, NEW w \in Workers, NEW assistant \in BOOLEAN, NEW current_steps,
           NEW work \in SUBSET Steps, GetWork(w, assistant, current_steps, work)
    PROVE  AllSpared
<1>1. PICK ss : ss = ResetOrphanedSteps(steps, w)
  OBVIOUS
<1>2. UNCHANGED steps \/ steps' = HandOut(ss, w, work)
  BY <1>1 DEF GetWork
<1>3. \A x \in Steps : StepOK(steps[x]) /\ steps[x] \in StepRecords
  BY DEF IInv, TableOK, StepOK
<1>4. \A x \in Steps : StepOK(ss[x]) /\ ss[x] \in StepRecords /\ Spares(steps[x], ss[x])
  <2>1. \A x \in Steps : StepOK(ss[x])
    BY <1>1, <1>3, ResetOrphanedStepsOK DEF StepsKept
  <2>2. \A x \in Steps : ss[x] \in {steps[x], SetOwnStatus(steps[x], "PENDING")}
    BY <1>1 DEF ResetOrphanedSteps
  <2>3. "PENDING" \in Statuses
    BY DEF Statuses
  <2>4. \A x \in Steps : Spares(steps[x], SetOwnStatus(steps[x], "PENDING"))
    BY <1>3, <2>3, SetOwnStatusBudget DEF Spares
  <2> QED BY <1>3, <2>1, <2>2, <2>4, SparesSame DEF StepOK
<1>5. CASE UNCHANGED steps
  BY <1>5, UnchangedSpared
<1>6. CASE steps' = HandOut(ss, w, work)
  <2>1. ASSUME NEW x \in Steps PROVE Spares(ss[x], steps'[x])
    <3>1. /\ x \in work \/ steps'[x] = ss[x]
          /\ steps'[x] \in {ss[x], SetBatchRunning(ss[x], work, w), SetRunning(ss[x], w)}
      BY <1>6, <2>1 DEF HandOut
    <3>2. CASE steps'[x] = ss[x]
      BY <1>4, <3>2, SparesSame
    <3>3. CASE x \in work
      BY <1>4, <3>1, <3>3, SparesSame, SetBatchRunningBudget, SetRunningBudget
    <3> QED BY <3>1, <3>2, <3>3
  <2>2. \A x \in Steps : steps'[x] \in StepRecords
    BY GetWorkGood DEF Good, IInv, TableOK, StepOK
  <2> QED BY <1>3, <1>4, <2>1, <2>2, KeepsTrans DEF AllSpared, Spares
<1> QED BY <1>2, <1>5, <1>6

LEMMA DecreaseBudget ==
    ASSUME IInv, NEW s \in Steps, NEW less \in Amounts, DecreaseRunningStepResources(s, less)
    PROVE  AllSpared
<1>1. \A x \in Steps : steps[x] \in StepRecords
  BY DEF IInv, TableOK, StepOK
<1>2. ASSUME NEW t \in StepRecords PROVE SameTally(t, Decrease(t, less))
  <2>1. PICK r1 : r1 = [r \in Resources |-> IF t.resources[r] > less[r]
                                            THEN t.resources[r] - less[r] ELSE 0]
    OBVIOUS
  <2>2. PICK r2 : r2 = [r \in Resources |-> IF t.resources_running[r] > less[r]
                                            THEN t.resources_running[r] - less[r] ELSE 0]
    OBVIOUS
  <2>3. Decrease(t, less) \in {t, [t EXCEPT !.resources = r1],
                               [t EXCEPT !.resources_running = r2]}
    BY <2>1, <2>2 DEF Decrease
  <2> QED BY <1>2, <2>3 DEF StepRecords, SameTally, SameStatus
<1>3. \A x \in Steps : steps'[x] \in {steps[x], Decrease(steps[x], less)}
  BY DEF DecreaseRunningStepResources
<1> QED BY <1>1, <1>2, <1>3, SameTallyKeeps, SparesSame DEF AllSpared, Spares

LEMMA RemoveWorkersTally ==
    ASSUME NEW ss, \A x \in Steps : ss[x] \in StepRecords, NEW gone, NEW both, NEW x \in Steps
    PROVE  SameTally(ss[x], RemoveWorkersFromSteps(ss, gone, both)[x])
<1>1. PICK wks : wks = ss[x].workers \ gone
  OBVIOUS
<1>2. PICK stk : stk = IF both THEN ss[x].stakeholders \ gone ELSE ss[x].stakeholders
  OBVIOUS
<1>3. RemoveWorkersFromSteps(ss, gone, both)[x] =
          [ss[x] EXCEPT !.workers = wks, !.stakeholders = stk]
  BY <1>1, <1>2 DEF RemoveWorkersFromSteps
<1> QED BY <1>3 DEF StepRecords, SameTally, SameStatus

LEMMA DisableWorkerBudget ==
    ASSUME IInv, NEW w \in Workers, DisableWorker(w)
    PROVE  AllSpared
<1>1. \A x \in Steps : steps[x] \in StepRecords
  BY DEF IInv, TableOK, StepOK
<1>2. steps' = RemoveWorkersFromSteps(steps, {w}, FALSE)
  BY DEF DisableWorker
<1> QED BY <1>1, <1>2, RemoveWorkersTally, SameTallyKeeps DEF AllSpared, Spares

LEMMA StatusBudget ==
    ASSUME IInv, NEW s \in Steps, NEW new \in {"PENDING", "DONE"},
           steps' = SetStatus(steps, s, new)
    PROVE  AllSpared
<1>1. \A x \in Steps : steps[x] \in StepRecords
  BY DEF IInv, TableOK, StepOK
<1>2. new \in Statuses /\ new # "FAILED" /\ new # "DISABLED"
  BY DEF Statuses
<1> QED BY <1>1, <1>2, SetStatusBudget DEF AllSpared, Spares

LEMMA ReEnableStepBudget ==
    ASSUME IInv, NEW s \in Steps, ReEnableStep(s)
    PROVE  AllSpared
<1>1. \A x \in Steps : steps[x] \in StepRecords
  BY DEF IInv, TableOK, StepOK
<1>2. \A x \in Steps : steps'[x] = IF x = s THEN ReEnable(steps[s]) ELSE steps[x]
  BY DEF ReEnableStep, IInv, TableOK
<1>3. Spares(steps[s], ReEnable(steps[s]))
  BY <1>1, ReEnableBudget DEF ReEnableStep, Spares
<1> QED BY <1>1, <1>2, <1>3, SparesSame DEF AllSpared

LEMMA TickBudget ==
    ASSUME IInv, Tick
    PROVE  AllSpared
<1>1. ASSUME NEW x \in Steps PROVE Spares(steps[x], steps'[x])
  <2>1. PICK t : t = steps[x]
    OBVIOUS
  <2>2. StepOK(t) /\ t \in StepRecords
    BY <1>1, <2>1 DEF IInv, TableOK, StepOK
  <2>3. steps'[x] = IF t.status = Absent THEN NoStep ELSE AgedStep(t)
    BY <1>1, <2>1 DEF Tick
  <2>4. PICK failures : failures = [age \in 0..DisableWindow |->
                                       IF age = 0 THEN 0 ELSE t.failures[age - 1]]
    OBVIOUS
  <2>5. PICK disabled : disabled = Up(t.disable_time, DisablePersist + 1)
    OBVIOUS
  <2>6. disabled # None <=> t.disable_time # None
    <3>1. t.disable_time \in OrNone(Nat)
      BY <2>2 DEF StepRecords
    <3>2. DisablePersist + 1 \in Nat
      BY TimingAssumption DEF TimingAssumption
    <3> QED BY <2>5, <3>1, <3>2, UpType
  <2>7. PICK retry, remove, updated, first :
            AgedStep(t) = Aged(t, retry, remove, updated, failures, first, disabled)
    <3>1. PICK retry : retry = IF t.status = "FAILED" THEN Down(t.retry) ELSE t.retry
      OBVIOUS
    <3>2. PICK updated : updated = IF t.status = "DONE" THEN Up(t.updated, Cooldown)
                                                        ELSE t.updated
      OBVIOUS
    <3>3. PICK first : first = IF HardTimeout # None THEN Up(t.first_failure, HardTimeout)
                                                     ELSE t.first_failure
      OBVIOUS
    <3>4. AgedStep(t) = Aged(t, retry, Down(t.remove), updated, failures, first, disabled)
      BY <2>4, <2>5, <3>1, <3>2, <3>3 DEF AgedStep, Aged
    <3> QED BY <3>4
  <2>8. PICK u : u = AgedStep(t)
    OBVIOUS
  <2>9. /\ u.failures = failures /\ u.status = t.status /\ u.disable_time = disabled
        /\ u.retry_count = t.retry_count
    BY <2>2, <2>7, <2>8 DEF StepRecords, Aged
  <2>10. u \in StepRecords
    BY <2>2, <2>8, AgedStepOK DEF StepOK
  <2>11. NumFailures(u) <= NumFailures(t) /\ NumFailures(u) \in Nat /\ NumFailures(t) \in Nat
    BY <2>2, <2>4, <2>9, <2>10, AgedFailures, FailuresCount
  <2>12. Spares(t, u)
    BY <2>6, <2>9, <2>11 DEF Spares, KeepsBudget, InBudget, Budgets, Unfailed
  <2> QED BY <2>1, <2>2, <2>3, <2>8, <2>12, NoStepBudget DEF Spares
<1> QED BY <1>1 DEF AllSpared

\* prune counts a failure only for a step whose worker holds it no more.
LEMMA PruneBudget ==
    ASSUME IInv, Prune, NEW x \in Steps
    PROVE  /\ KeepsBudget(steps[x], steps'[x])
           /\ \/ Unfailed(steps[x], steps'[x]) \/ ~AllPlain
              \/ /\ steps[x].status \in ActiveStatuses /\ steps[x].worker_running # None
                 /\ steps[x].worker_running \notin steps[x].stakeholders \ TimedOut(workers)
<1>1. PICK gone : gone = TimedOut(workers)
  OBVIOUS
<1>2. PICK both \in BOOLEAN : both = TRUE
  OBVIOUS
<1>3. PICK ss : ss = RemoveWorkersFromSteps(steps, gone, both)
  OBVIOUS
<1>4. PICK assistants : steps' = PruneSteps(ss, older, assistants)
  BY <1>1, <1>2, <1>3 DEF Prune
<1>5. \A y \in Steps : StepOK(steps[y]) /\ steps[y] \in StepRecords
  BY DEF IInv, TableOK, StepOK
<1>6. \A y \in Steps : SameTally(steps[y], ss[y])
  BY <1>3, <1>5, RemoveWorkersTally
<1>7. ASSUME NEW y \in Steps
      PROVE  /\ StepOK(ss[y]) /\ ss[y] \in StepRecords
             /\ ss[y].stakeholders = steps[y].stakeholders \ gone
             /\ ss[y].status = steps[y].status
             /\ ss[y].worker_running = steps[y].worker_running
             /\ ss[y].batch_id = steps[y].batch_id /\ ss[y].batchable = steps[y].batchable
  <2>1. PICK t : t = steps[y]
    OBVIOUS
  <2>2. StepOK(t) /\ t \in StepRecords
    BY <1>5, <1>7, <2>1
  <2>3. PICK u : u = [t EXCEPT !.workers = t.workers \ gone,
                               !.stakeholders = t.stakeholders \ gone]
    OBVIOUS
  <2>4. ss[y] = u
    BY <1>2, <1>3, <1>7, <2>1, <2>3 DEF RemoveWorkersFromSteps
  <2>5. u \in StepRecords
    BY <2>2, <2>3 DEF StepRecords
  <2>6. /\ u.stakeholders = t.stakeholders \ gone /\ u.workers = t.workers \ gone
        /\ SameRun(t, u) /\ u.batchable = t.batchable
    BY <2>2, <2>3 DEF StepRecords, SameRun, SameStatus
  <2>7. StepOK(u)
    BY <2>2, <2>5, <2>6 DEF StepOK, SameRun, SameStatus, Timed
  <2> QED BY <2>1, <2>4, <2>5, <2>6, <2>7 DEF SameRun, SameStatus
<1>8. steps'[x] = PrunedStep(ss, older, x, assistants)
  BY <1>4 DEF PruneSteps
<1>9. /\ KeepsBudget(ss[x], steps'[x])
      /\ (\A y \in Steps : Plain(ss[y])) /\ ~HasDeadWorker(ss[x], assistants)
         => Unfailed(ss[x], steps'[x])
  BY <1>7, <1>8, PrunedStepBudget
<1>10. AllPlain => \A y \in Steps : Plain(ss[y])
  BY <1>7 DEF AllPlain, Plain
<1>11. HasDeadWorker(ss[x], assistants) =>
           /\ steps[x].status \in ActiveStatuses /\ steps[x].worker_running # None
           /\ steps[x].worker_running \notin steps[x].stakeholders \ TimedOut(workers)
  BY <1>1, <1>7 DEF HasDeadWorker
<1>12. steps'[x] \in StepRecords
  BY PruneGood DEF Good, IInv, TableOK, StepOK
<1>13. Spares(steps[x], ss[x])
  BY <1>5, <1>6, SameTallyKeeps DEF Spares
<1>14. /\ KeepsBudget(steps[x], steps'[x])
       /\ Unfailed(ss[x], steps'[x]) => Unfailed(steps[x], steps'[x])
  BY <1>5, <1>7, <1>9, <1>12, <1>13, KeepsTrans DEF Spares
<1> QED BY <1>9, <1>10, <1>11, <1>14

-----------------------------------------------------------------------------
(* The retry budget. *)

\* No worker declares a step disabled: that call replaces the scheduler's own disable by
\* one that any worker may end (SimpleStepState.set_status).  And no step is allowed
\* fewer failures than the scheduler's default, which a call of add_step without a
\* retry policy, such as the one that reports a tracking URL, sets again.
BudgetSetting ==
    /\ "DISABLED" \notin Claims
    /\ \A s \in Steps : RetryCount(s) > 0 /\ DefaultRetryCount <= RetryCount(s)

InBudgets == \A s \in Steps : InBudget(steps[s], RetryCount(s))

ModestCall(q) == Modest(q, q.step, RetryCount(q.step))

BudgetInv == InBudgets /\ \A w \in Workers : calling[w] # None => ModestCall(calling[w])

LEMMA SettingBudgets ==
    ASSUME BudgetSetting, NEW s \in Steps
    PROVE  RetryCount(s) \in Budgets /\ RetryCount(s) \in Nat
BY ClusterAssumption DEF ClusterAssumption, BudgetSetting, Budgets

LEMMA SparedInBudgets ==
    ASSUME BudgetSetting, InBudgets, AllSpared
    PROVE  InBudgets'
BY SettingBudgets DEF InBudgets, AllSpared, Spares, KeepsBudget

LEMMA AddStepInBudgets ==
    ASSUME BudgetSetting, IInv, InBudgets, NEW q \in Calls, ModestCall(q), AddStep(q)
    PROVE  InBudgets'
<1>1. ASSUME NEW s \in Steps PROVE InBudget(steps'[s], RetryCount(s))
  <2>1. RetryCount(s) \in Budgets /\ InBudget(steps[s], RetryCount(s))
    BY <1>1, SettingBudgets DEF InBudgets
  <2>2. Modest(q, s, RetryCount(s))
    BY DEF ModestCall, Modest
  <2>3. Tallies(steps[s], steps'[s], s, q, Harmless(steps, q, s))
    BY <1>1, AddStepBudget
  <2> QED BY <2>1, <2>2, <2>3 DEF Tallies
<1> QED BY <1>1 DEF InBudgets

\* The calls of the workers keep to the budget of the step they are about.
LEMMA TrackingModest ==
    ASSUME BudgetSetting, NEW w \in Workers, NEW s \in Steps
    PROVE  ModestCall(TrackingRequest(w, s)) /\ ModestCall(LoadErrorRequest(w, s))
<1>1. DefaultRetryCount <= RetryCount(s)
  BY DEF BudgetSetting
<1> QED BY <1>1 DEF ModestCall, Modest, TrackingRequest, LoadErrorRequest

LEMMA StartModest ==
    ASSUME BudgetSetting, NEW w \in Workers, NEW batch \in SUBSET Steps
    PROVE  ModestCall(StartRequest(w, batch))
<1>1. DefaultRetryCount <= RetryCount(Runner(batch))
  BY RunnerAssumption DEF BudgetSetting
<1> QED BY <1>1 DEF ModestCall, Modest, TrackingRequest, StartRequest

LEMMA ScheduledModest ==
    ASSUME BudgetSetting, NEW w \in Workers, NEW s \in Steps, NEW status \in Claims, NEW deps
    PROVE  ModestCall(Scheduled(w, s, status, deps))
<1>1. RetryCount(s) \in Nat /\ status # "DISABLED"
  BY SettingBudgets DEF BudgetSetting
<1>2. PICK q : q = Scheduled(w, s, status, deps)
  OBVIOUS
<1>3. q.status = status /\ q.step = s /\ q.retry_count = RetryCount(s)
  BY <1>2 DEF Scheduled, ScheduleRequest, TrackingRequest
<1> QED BY <1>1, <1>2, <1>3 DEF ModestCall, Modest

LEMMA OutcomeModest ==
    ASSUME BudgetSetting, NEW w \in Workers, NEW s \in Steps,
           NEW status \in {"DONE", "FAILED", "PENDING"}, NEW new_deps \in SUBSET Steps
    PROVE  ModestCall(Outcome(w, s, status, new_deps))
<1>1. RetryCount(s) \in Nat
  BY SettingBudgets
<1>2. PICK q : q = Outcome(w, s, status, new_deps)
  OBVIOUS
<1>3. q.status = status /\ q.step = s /\ q.retry_count = RetryCount(s)
  BY <1>2 DEF Outcome, ReportRequest, TrackingRequest
<1> QED BY <1>1, <1>2, <1>3 DEF ModestCall, Modest

LEMMA SameCalling ==
    ASSUME BudgetInv, InBudgets', UNCHANGED calling
    PROVE  BudgetInv'
BY DEF BudgetInv

LEMMA NewCalling ==
    ASSUME ClientTypeOK, BudgetInv, InBudgets', NEW w \in Workers, NEW q,
           q = None \/ ModestCall(q), calling' = [calling EXCEPT ![w] = q]
    PROVE  BudgetInv'
<1>1. \A v \in Workers : calling'[v] = IF v = w THEN q ELSE calling[v]
  BY DEF ClientTypeOK
<1> QED BY <1>1 DEF BudgetInv

LEMMA WorkerNextBudget ==
    ASSUME BudgetSetting, IInv, ClientTypeOK, BudgetInv, NEW w \in Workers, WorkerNext(w)
    PROVE  BudgetInv'
<1>0. InBudgets
  BY DEF BudgetInv
<1>1. CASE UNCHANGED steps /\ UNCHANGED calling
  BY <1>0, <1>1, UnchangedSpared, SparedInBudgets, SameCalling
<1>2. CASE \E s \in Steps, status \in Claims : Schedule(w, s, status)
  <2>1. PICK s \in Steps, status \in Claims : Schedule(w, s, status)
    BY <1>2
  <2>2. PICK deps \in DepsSent(s, status) :
           AddStep(Scheduled(w, s, status, deps)) /\ UNCHANGED calling
    BY <2>1 DEF Schedule, Scheduled
  <2> QED BY <1>0, <2>2, ScheduleRequestType, ScheduledModest, AddStepInBudgets, SameCalling
<1>3. CASE \E work \in Replies(w) : AskForWork(w, work) \/ LoseWork(w, work)
                                    \/ ReceiveUnloadable(w, work)
  <2>1. PICK work : AskForWork(w, work) \/ LoseWork(w, work) \/ ReceiveUnloadable(w, work)
    BY <1>3
  <2>2. Receives(w, work) /\ UNCHANGED calling
    BY <2>1 DEF AskForWork, LoseWork, ReceiveUnloadable, clientVars
  <2>3. AllSpared
    BY <2>2, ReceivesGetsWork, GetWorkBudget
  <2> QED BY <1>0, <2>2, <2>3, SparedInBudgets, SameCalling
<1>4. CASE \E s \in Steps : ReportUnloadable(w, s)
  BY <1>0, <1>4, LoadErrorRequestType, TrackingModest, AddStepInBudgets, SameCalling
     DEF ReportUnloadable
<1>5. CASE StartBatch(w)
  <2>1. PICK q : q = StartRequest(w, starting[w])
    OBVIOUS
  <2>2. starting[w] \in SUBSET Steps
    BY DEF ClientTypeOK
  <2>3. q \in Calls /\ ModestCall(q)
    BY <2>1, <2>2, StartRequestType, StartModest
  <2>4. AddStep(q) /\ (UNCHANGED calling \/ calling' = [calling EXCEPT ![w] = q])
    BY <1>5, <2>1 DEF StartBatch
  <2>5. InBudgets'
    BY <1>0, <2>3, <2>4, AddStepInBudgets
  <2> QED BY <2>3, <2>4, <2>5, SameCalling, NewCalling
<1>6. CASE \E s \in Steps : Track(w, s)
  BY <1>0, <1>6, TrackingRequestType, TrackingModest, AddStepInBudgets, SameCalling
     DEF Track, clientVars
<1>7. CASE \E s \in Steps : GiveUpResources(w, s)
  <2>1. PICK s \in Steps : GiveUpResources(w, s)
    BY <1>7
  <2>2. Need(s) \in Amounts
    BY ClusterAssumption DEF ClusterAssumption
  <2>3. AllSpared /\ UNCHANGED calling
    BY <2>1, <2>2, DecreaseBudget DEF GiveUpResources, clientVars
  <2> QED BY <1>0, <2>3, SparedInBudgets, SameCalling
<1>8. CASE \E s \in Steps, status \in Endings, missing \in BOOLEAN :
              Finish(w, s, status, missing)
  <2>1. PICK s \in Steps, status \in Endings, missing \in BOOLEAN :
            Finish(w, s, status, missing)
    BY <1>8
  <2>2. status \in {"DONE", "FAILED", "PENDING"}
    BY ClusterAssumption DEF ClusterAssumption
  <2>3. PICK q : q = Outcome(w, s, status, {})
    OBVIOUS
  <2>4. q \in Calls /\ ModestCall(q)
    BY <2>2, <2>3, OutcomeType, OutcomeModest
  <2> QED BY <1>0, <2>1, <2>3, <2>4, AddStepInBudgets, SameCalling DEF Finish
<1>9. CASE \E s \in Steps : Suspend(w, s)
  <2>1. PICK s \in Steps : Suspend(w, s)
    BY <1>9
  <2>2. Yields(s) \in SUBSET Steps
    BY ClusterAssumption DEF ClusterAssumption
  <2>3. ModestCall(Outcome(w, s, "PENDING", Yields(s)))
    BY <2>2, OutcomeModest
  <2>4. /\ UNCHANGED steps
        /\ calling' = [calling EXCEPT ![w] = Outcome(w, s, "PENDING", Yields(s))]
    BY <2>1 DEF Suspend, vars
  <2>5. InBudgets'
    BY <1>0, <2>4, UnchangedSpared, SparedInBudgets
  <2> QED BY <2>3, <2>4, <2>5, NewCalling
<1>10. CASE \E s \in Steps, status \in Endings : FinishUnheard(w, s, status)
  <2>1. PICK s \in Steps, status \in Endings : FinishUnheard(w, s, status)
    BY <1>10
  <2>2. status \in {"DONE", "FAILED", "PENDING"}
    BY ClusterAssumption DEF ClusterAssumption
  <2>3. PICK q : q = Outcome(w, s, status, {})
    OBVIOUS
  <2>4. q \in Calls /\ ModestCall(q)
    BY <2>2, <2>3, OutcomeType, OutcomeModest
  <2>5. AddStep(q) /\ calling' = [calling EXCEPT ![w] = q]
    BY <2>1, <2>3 DEF FinishUnheard, CallUnheard
  <2> QED BY <1>0, <2>4, <2>5, AddStepInBudgets, NewCalling
<1>11. CASE Call(w) \/ RepeatUnheard(w)
  <2>1. PICK q : q = calling[w]
    OBVIOUS
  <2>2. q \in Calls /\ ModestCall(q)
    BY <1>11, <2>1 DEF Call, RepeatUnheard, ClientTypeOK, BudgetInv
  <2>3. AddStep(q)
    BY <1>11, <2>1 DEF Call, RepeatUnheard, CallUnheard
  <2>4. calling' = [calling EXCEPT ![w] = None] \/ calling' = [calling EXCEPT ![w] = q]
    BY <1>11, <2>1 DEF Call, RepeatUnheard, CallUnheard
  <2>5. InBudgets'
    BY <1>0, <2>2, <2>3, AddStepInBudgets
  <2> QED BY <2>2, <2>4, <2>5, NewCalling
<1>12. CASE Crash(w)
  <2>1. UNCHANGED steps /\ calling' = [calling EXCEPT ![w] = None]
    BY <1>12 DEF Crash, vars
  <2>2. InBudgets'
    BY <1>0, <2>1, UnchangedSpared, SparedInBudgets
  <2> QED BY <2>1, <2>2, NewCalling
<1>13. CASE \/ \E s \in Steps : RegisterBatcher(w, s)
            \/ Announce(w) \/ CountWork(w) \/ KeepAlive(w)
  BY <1>1, <1>13
     DEF RegisterBatcher, Announce, CountWork, KeepAlive, AddStepBatcher, AddWorker,
         CountPending, Ping, clientVars
<1> QED BY <1>2, <1>3, <1>4, <1>5, <1>6, <1>7, <1>8, <1>9, <1>10, <1>11, <1>12, <1>13
        DEF WorkerNext

LEMMA NextBudget ==
    ASSUME BudgetSetting
    PROVE  IInv /\ ClientTypeOK /\ BudgetInv /\ [ClusterNext]_allVars => BudgetInv'
<1> SUFFICES ASSUME IInv, ClientTypeOK, BudgetInv, [ClusterNext]_allVars
             PROVE  BudgetInv'
  OBVIOUS
<1>1. CASE \E w \in Workers : WorkerNext(w)
  BY <1>1, WorkerNextBudget
<1>2. CASE AllSpared /\ UNCHANGED calling
  BY <1>2, SparedInBudgets, SameCalling DEF BudgetInv
<1>3. CASE TimePasses
  BY <1>2, <1>3, TickBudget DEF TimePasses, clientVars
<1>4. CASE PruneNow
  <2>1. InBudgets'
    BY <1>4, PruneBudget, SettingBudgets DEF PruneNow, BudgetInv, InBudgets, KeepsBudget
  <2> QED BY <1>4, <2>1, SameCalling DEF PruneNow, clientVars
<1>5. CASE Operate
  <2>1. UNCHANGED calling
    BY <1>5 DEF Operate, clientVars
  <2>2. CASE \E w \in Workers : DisableWorker(w)
    BY <1>2, <2>1, <2>2, DisableWorkerBudget
  <2>3. CASE \E s \in Steps : ForgiveFailures(s) \/ MarkAsDone(s)
    <3>1. PICK s \in Steps, new \in {"PENDING", "DONE"} : steps' = SetStatus(steps, s, new)
      BY <2>3 DEF ForgiveFailures, MarkAsDone
    <3> QED BY <1>2, <2>1, <3>1, StatusBudget
  <2>4. CASE \E s \in Steps : ReEnableStep(s)
    BY <1>2, <2>1, <2>4, ReEnableStepBudget
  <2>5. CASE UNCHANGED steps
    BY <1>2, <2>1, <2>5, UnchangedSpared
  <2> QED BY <1>5, <2>2, <2>3, <2>4, <2>5 DEF Operate, SetPaused, Restart, UpdateResource
<1>6. CASE UNCHANGED allVars
  BY <1>2, <1>6, UnchangedSpared DEF allVars, vars, clientVars
<1> QED BY <1>1, <1>3, <1>4, <1>5, <1>6 DEF ClusterNext

LEMMA InitBudget ==
    ASSUME BudgetSetting
    PROVE  ClusterInit => BudgetInv
<1> SUFFICES ASSUME ClusterInit PROVE BudgetInv
  OBVIOUS
<1>1. \A s \in Steps : steps[s] = NoStep
  BY DEF ClusterInit, Init
<1>2. NoStep \in StepRecords
  BY NoStepOK DEF StepOK
<1>3. /\ NoStep.failures = NoFailures /\ NoStep.status = Absent
      /\ NoStep.retry_count = DefaultRetryCount
  BY DEF NoStep, NewStep
<1>4. NumFailures(NoStep) = 0
  BY <1>2, <1>3, NoFailuresCount
<1>5. InBudgets
  BY <1>1, <1>3, <1>4 DEF InBudgets, InBudget, BudgetSetting, Absent
<1> QED BY <1>5 DEF ClusterInit, BudgetInv

\* With batches, assistants, workers that die, fall silent or are given up and come back,
\* lost and repeated calls and an operator at work, no step is offered to a worker after
\* it has failed retry_count times within the window, until its record is cleared.
THEOREM RetryBudgetAlwaysKept ==
    ASSUME BudgetSetting
    PROVE  ClusterSpec => []RetryBudgetKept
<1>1. BudgetInv => RetryBudgetKept
  BY DEF BudgetInv, InBudgets, InBudget, RetryBudgetKept, ActiveStatuses
<1>2. ClusterInit => BudgetInv
  BY InitBudget
<1>3. IInv /\ ClientTypeOK /\ BudgetInv /\ [ClusterNext]_allVars => BudgetInv'
  BY NextBudget
<1> QED BY <1>1, <1>2, <1>3, ClusterInductive, PTL DEF ClusterSpec

-----------------------------------------------------------------------------
(* Failures are counted for runs. *)

\* No result is reported twice, and what a worker is given it can load.
CountSetting ==
    OwnSetting /\ "repeat" \notin Behaviours /\ "unloadable" \notin Behaviours

\* The failures of step s are as many as before, or a run has ended or died.
Justified(s) ==
    \/ Unfailed(steps[s], steps'[s])
    \/ \E w \in Workers :
          \/ s \in Executing(w) /\ s \notin Executing(w)'
          \/ steps[s].worker_running = w /\ ~Alive(w)

AllJustified == \A s \in Steps : Justified(s)

LEMMA SparedJustified ==
    ASSUME AllSpared
    PROVE  AllJustified
BY DEF AllSpared, Spares, AllJustified, Justified

\* No call of add_step but one that reports a failure counts one.
LEMMA AddStepJustified ==
    ASSUME IInv, NEW q \in Calls, AddStep(q), q.status # "FAILED"
    PROVE  AllJustified
BY AddStepBudget DEF Tallies, Harmless, AllJustified, Justified

\* Nothing cannot be loaded.
NoErrors == \A w \in Workers : erring[w] = {}

LEMMA ErrorsStay ==
    ASSUME "unloadable" \notin Behaviours, ClientTypeOK, NoErrors, [ClusterNext]_allVars
    PROVE  NoErrors'
<1>1. CASE UNCHANGED erring
  BY <1>1 DEF NoErrors
<1>2. CASE TimePasses \/ PruneNow \/ Operate \/ UNCHANGED allVars
  BY <1>1, <1>2 DEF TimePasses, PruneNow, Operate, clientVars, allVars
<1>3. CASE \E w \in Workers : WorkerNext(w)
  <2>1. PICK w \in Workers : WorkerNext(w)
    BY <1>3
  <2>2. CASE \E work \in Replies(w) : AskForWork(w, work) \/ LoseWork(w, work)
                                      \/ ReceiveUnloadable(w, work)
    BY <1>1, <2>2 DEF AskForWork, LoseWork, ReceiveUnloadable, clientVars
  <2>3. CASE \E s \in Steps : ReportUnloadable(w, s)
    BY <2>3 DEF ReportUnloadable, NoErrors
  <2>4. CASE Crash(w)
    <3>1. erring' = [erring EXCEPT ![w] = {}]
      BY <2>4 DEF Crash
    <3> QED BY <3>1 DEF NoErrors, ClientTypeOK
  <2>5. CASE \/ \E s \in Steps : RegisterBatcher(w, s) \/ Track(w, s) \/ GiveUpResources(w, s)
                                 \/ Suspend(w, s)
             \/ \E s \in Steps, status \in Claims : Schedule(w, s, status)
             \/ Announce(w) \/ CountWork(w) \/ StartBatch(w) \/ KeepAlive(w)
    BY <1>1, <2>5 DEF RegisterBatcher, Track, GiveUpResources, Suspend, Schedule, Announce,
                      CountWork, StartBatch, KeepAlive, clientVars
  <2>6. CASE \/ \E s \in Steps, status \in Endings, missing \in BOOLEAN :
                   Finish(w, s, status, missing)
             \/ \E s \in Steps, status \in Endings : FinishUnheard(w, s, status)
             \/ Call(w) \/ RepeatUnheard(w)
    BY <1>1, <2>6 DEF Finish, FinishUnheard, CallUnheard, Call, RepeatUnheard
  <2> QED BY <2>1, <2>2, <2>3, <2>4, <2>5, <2>6 DEF WorkerNext
<1> QED BY <1>2, <1>3 DEF ClusterNext

LEMMA FinishJustified ==
    ASSUME CountSetting, IInv, ClientTypeOK, HoldInv, NEW w \in Workers, NEW s \in Steps,
           NEW status \in Endings, NEW missing \in BOOLEAN, Finish(w, s, status, missing)
    PROVE  AllJustified
<1>1. status \in {"DONE", "FAILED", "PENDING"} /\ {} \in SUBSET Steps
  BY ClusterAssumption DEF ClusterAssumption
<1>2. PICK q : q = Outcome(w, s, status, {})
  OBVIOUS
<1>3. q \in Calls /\ PlainCall(q) /\ q.step = s
  BY <1>1, <1>2, OutcomePlain DEF CountSetting, OwnSetting
<1>4. /\ AddStep(q) /\ Ready(w) /\ s \in running[w]
      /\ running' = [running EXCEPT ![w] = running[w] \ {s}]
  BY <1>2 DEF Finish
<1>5. s \in Executing(w) /\ s \notin Executing(w)'
  BY <1>4 DEF Ready, Executing, ClientTypeOK
<1>6. ASSUME NEW x \in Steps PROVE Justified(x)
  <2>1. CASE x = s
    BY <1>5, <2>1 DEF Justified
  <2>2. CASE x # s
    <3>1. Harmless(steps, q, x)
      BY <1>3, <2>2 DEF Harmless, HoldInv, ServerHolds, AllPlain
    <3> QED BY <1>3, <1>4, <1>6, <3>1, AddStepBudget DEF Tallies, Justified
  <2> QED BY <2>1, <2>2
<1> QED BY <1>6 DEF AllJustified

LEMMA WorkerNextJustified ==
    ASSUME CountSetting, IInv, ClientTypeOK, HoldInv, OwnInv, NoErrors,
           NEW w \in Workers, WorkerNext(w)
    PROVE  AllJustified
<1>1. CASE UNCHANGED steps
  BY <1>1, UnchangedSpared, SparedJustified
<1>2. CASE \E s \in Steps, status \in Claims : Schedule(w, s, status)
  <2>1. PICK s \in Steps, status \in Claims : Schedule(w, s, status)
    BY <1>2
  <2>2. PICK deps, q :
           /\ deps \in DepsSent(s, status)
           /\ q = Scheduled(w, s, status, deps)
           /\ AddStep(q)
    BY <2>1 DEF Schedule, Scheduled
  <2>3. q \in Calls
    BY <2>2, ScheduleRequestType
  <2>4. q = ScheduleRequest(w, s, status, deps, Need(s), Priority(s), IsBatchable(s),
                            RetryCount(s))
    BY <2>2, Zenon DEF Scheduled
  <2>5. q.status = status
    BY <2>4 DEF ScheduleRequest, TrackingRequest
  <2>6. q.status # "FAILED"
    BY <2>5, ClusterAssumption DEF ClusterAssumption
  <2> QED BY <2>2, <2>3, <2>6, AddStepJustified
<1>3. CASE \E work \in Replies(w) : AskForWork(w, work) \/ LoseWork(w, work)
                                    \/ ReceiveUnloadable(w, work)
  <2>1. PICK work : Receives(w, work)
    BY <1>3 DEF AskForWork, LoseWork, ReceiveUnloadable
  <2> QED BY <2>1, ReceivesGetsWork, GetWorkBudget, SparedJustified
<1>4. CASE \E s \in Steps : ReportUnloadable(w, s)
  BY <1>4 DEF ReportUnloadable, NoErrors
<1>5. CASE StartBatch(w)
  BY <1>5 DEF StartBatch, HoldInv, PlainCalls
<1>6. CASE \E s \in Steps : Track(w, s)
  <2>1. PICK s \in Steps : Track(w, s)
    BY <1>6
  <2>2. PICK q : q = TrackingRequest(w, s)
    OBVIOUS
  <2>3. AddStep(q) /\ q \in Calls /\ q.status = "RUNNING"
    BY <2>1, <2>2, TrackingPlain DEF Track
  <2> QED BY <2>3, AddStepJustified
<1>7. CASE \E s \in Steps : GiveUpResources(w, s)
  <2>1. PICK s \in Steps : GiveUpResources(w, s)
    BY <1>7
  <2>2. Need(s) \in Amounts
    BY ClusterAssumption DEF ClusterAssumption
  <2> QED BY <2>1, <2>2, DecreaseBudget, SparedJustified DEF GiveUpResources
<1>8. CASE \E s \in Steps, status \in Endings, missing \in BOOLEAN :
              Finish(w, s, status, missing)
  BY <1>8, FinishJustified
<1>9. CASE \E s \in Steps, status \in Endings : FinishUnheard(w, s, status)
  BY <1>9 DEF FinishUnheard, CallUnheard, CountSetting
<1>10. CASE Call(w) \/ RepeatUnheard(w)
  <2>1. PICK q : q = calling[w]
    OBVIOUS
  <2>2. q # None /\ AddStep(q)
    BY <1>10, <2>1 DEF Call, RepeatUnheard, CallUnheard
  <2>3. q \in Calls /\ q.status = "PENDING"
    BY <2>1, <2>2 DEF ClientTypeOK, OwnInv, ReportsDue, CountSetting
  <2> QED BY <2>2, <2>3, AddStepJustified
<1>11. CASE \/ \E s \in Steps : RegisterBatcher(w, s) \/ Suspend(w, s)
            \/ Announce(w) \/ CountWork(w) \/ KeepAlive(w) \/ Crash(w)
  BY <1>1, <1>11
     DEF RegisterBatcher, Suspend, Announce, CountWork, KeepAlive, Crash, AddStepBatcher,
         AddWorker, CountPending, Ping, vars
<1> QED BY <1>2, <1>3, <1>4, <1>5, <1>6, <1>7, <1>8, <1>9, <1>10, <1>11 DEF WorkerNext

\* prune fails only what a dead worker ran.
LEMMA PruneJustified ==
    ASSUME IInv, HoldInv, Prune
    PROVE  AllJustified
<1>1. AllPlain /\ RunnersHold /\ Heard
  BY DEF HoldInv, ServerHolds
<1>2. ASSUME NEW w \in Workers, w \in TimedOut(workers) PROVE ~Alive(w)
  <2>1. workers[w].active /\ workers[w].last_active > DisconnectDelay
    BY <1>2 DEF TimedOut
  <2>2. workers[w].last_active \in Nat /\ DisconnectDelay \in Nat
    BY TimingAssumption DEF TimingAssumption, IInv, TableOK, WorkerRecords
  <2> QED BY <1>1, <2>1, <2>2 DEF Heard
<1>3. ASSUME NEW s \in Steps PROVE Justified(s)
  <2>1. CASE Unfailed(steps[s], steps'[s])
    BY <2>1 DEF Justified
  <2>2. CASE /\ steps[s].worker_running # None
             /\ steps[s].worker_running \notin steps[s].stakeholders \ TimedOut(workers)
    <3>1. PICK w \in Workers : w = steps[s].worker_running
      BY <1>3, <2>2 DEF IInv, TableOK, StepOK, StepRecords
    <3>2. ~Alive(w)
      BY <1>1, <1>2, <1>3, <2>2, <3>1 DEF RunnersHold
    <3> QED BY <3>1, <3>2 DEF Justified
  <2> QED BY <1>1, <1>3, <2>1, <2>2, PruneBudget
<1> QED BY <1>3 DEF AllJustified

LEMMA NextJustified ==
    ASSUME CountSetting, IInv, ClientTypeOK, HoldInv, OwnInv, NoErrors,
           [ClusterNext]_allVars
    PROVE  AllJustified
<1>1. CASE \E w \in Workers : WorkerNext(w)
  BY <1>1, WorkerNextJustified
<1>2. CASE AllSpared
  BY <1>2, SparedJustified
<1>3. CASE TimePasses
  BY <1>2, <1>3, TickBudget DEF TimePasses
<1>4. CASE PruneNow
  BY <1>4, PruneJustified DEF PruneNow
<1>5. CASE UNCHANGED steps
  BY <1>2, <1>5, UnchangedSpared
<1>6. CASE Operate
  <2>1. CASE \E w \in Workers : DisableWorker(w)
    BY <1>2, <2>1, DisableWorkerBudget
  <2>2. CASE \E s \in Steps : ForgiveFailures(s) \/ MarkAsDone(s)
    <3>1. PICK s \in Steps, new \in {"PENDING", "DONE"} : steps' = SetStatus(steps, s, new)
      BY <2>2 DEF ForgiveFailures, MarkAsDone
    <3> QED BY <1>2, <3>1, StatusBudget
  <2>3. CASE \E s \in Steps : ReEnableStep(s)
    BY <1>2, <2>3, ReEnableStepBudget
  <2> QED BY <1>5, <1>6, <2>1, <2>2, <2>3 DEF Operate, SetPaused, Restart, UpdateResource
<1> QED BY <1>1, <1>3, <1>4, <1>5, <1>6 DEF ClusterNext, allVars, vars

\* The failures that retry_count limits are the failures of runs: a failure is counted
\* only when a run ends or its worker has died, never twice and never for a step that
\* another worker runs, whatever replies are lost and whenever prune runs.
THEOREM FailuresAlwaysRuns ==
    ASSUME CountSetting
    PROVE  ClusterSpec => FailuresAreRuns
<1>1. OwnSetting
  BY DEF CountSetting
<1>2. ClusterInit => NoErrors
  BY DEF ClusterInit, NoErrors
<1>3. ClientTypeOK /\ NoErrors /\ [ClusterNext]_allVars => NoErrors'
  BY ErrorsStay DEF CountSetting
<1> DEFINE Counted == \A s \in Steps : NumFailures(steps'[s]) > NumFailures(steps[s]) =>
               \E w \in Workers :
                  \/ s \in Executing(w) /\ s \notin Executing(w)'
                  \/ steps[s].worker_running = w /\ ~Alive(w)
<1>4. IInv /\ IInv' /\ ClientTypeOK /\ HoldInv /\ OwnInv /\ NoErrors
          /\ [ClusterNext]_allVars => Counted
  <2> SUFFICES ASSUME IInv, IInv', ClientTypeOK, HoldInv, OwnInv, NoErrors,
                      [ClusterNext]_allVars
               PROVE  Counted
    OBVIOUS
  <2>1. AllJustified
    BY NextJustified
  <2>2. \A s \in Steps : NumFailures(steps'[s]) \in Nat /\ NumFailures(steps[s]) \in Nat
    <3>1. \A s \in Steps : steps'[s] \in StepRecords /\ steps[s] \in StepRecords
      BY DEF IInv, TableOK, StepOK
    <3> QED BY <3>1, FailuresCount
  <2>3. \A s \in Steps : Unfailed(steps[s], steps'[s]) =>
            ~(NumFailures(steps'[s]) > NumFailures(steps[s]))
    BY <2>2 DEF Unfailed
  <2> QED BY <2>1, <2>3 DEF AllJustified, Justified
<1> HIDE DEF Counted
<1>5. ClusterSpec => [](IInv /\ ClientTypeOK /\ HoldInv /\ OwnInv)
  BY <1>1, OwnInductive
<1>6. ClusterSpec => [][Counted]_allVars
  BY <1>2, <1>3, <1>4, <1>5, PTL DEF ClusterSpec
<1> QED BY <1>6 DEF FailuresAreRuns, Counted
=============================================================================
