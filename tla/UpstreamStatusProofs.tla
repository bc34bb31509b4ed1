------------------------- MODULE UpstreamStatusProofs -------------------------
(***************************************************************************)
(* What the table of _upstream_status says, for every graph of steps:      *)
(* nothing is invented, and every entry of a step that reaches no cycle    *)
(* and nothing taken for waiting is exact.                                 *)
(***************************************************************************)
EXTENDS UpstreamStatus, FiniteSetTheorems, TLAPS

\* What is entered as '' may be updated from its dependencies if it has any.
EmptyEntries == \A s \in Steps : table[s] = Placeholder => status[s] \in {"PENDING", "UNKNOWN"}

UpstreamInv == UpstreamTypeOK /\ EmptyEntries /\ NothingInvented

\* The orders of a finite set are sequences of its elements.
LEMMA OrdersAreSeqs ==
    ASSUME NEW S \in SUBSET Steps
    PROVE  Orders(S) \subseteq Seq(Steps)
<1>1. Cardinality(S) \in Nat
  BY FS_Subset, FS_CardinalityType, UpstreamAssumption
<1> QED
  BY <1>1 DEF Orders

\* Every severity is a position of UPSTREAM_SEVERITY_ORDER.
LEMMA SeverityInRange == \A st : Severity(st) \in Severities
BY DEF Severity, Severities

\* A nonempty set of severities has a worst one.
LEMMA WorstIsOneOf ==
    ASSUME NEW S \in SUBSET Severities, S # {}
    PROVE  Worst(S) \in S /\ \A u \in S : u <= Worst(S)
<1>1. \E v \in S : \A u \in S : u <= v
  <2>1. CASE 4 \in S
    BY <2>1 DEF Severities
  <2>2. CASE 4 \notin S /\ 3 \in S
    BY <2>2 DEF Severities
  <2>3. CASE 4 \notin S /\ 3 \notin S /\ 2 \in S
    BY <2>3 DEF Severities
  <2>4. CASE 4 \notin S /\ 3 \notin S /\ 2 \notin S /\ 1 \in S
    BY <2>4 DEF Severities
  <2>5. CASE 4 \notin S /\ 3 \notin S /\ 2 \notin S /\ 1 \notin S
    <3>1. \A u \in S : u = 0
      BY <2>5 DEF Severities
    <3> QED
      BY <3>1
  <2> QED
    BY <2>1, <2>2, <2>3, <2>4, <2>5
<1> QED
  BY <1>1 DEF Worst

\* What a step is updated to is '' or what the table says of one of its dependencies.
LEMMA UpdateFromDependency ==
    ASSUME UpstreamTypeOK, NEW s \in Steps, deps[s] # {}
    PROVE  /\ Worst(Found(s)) \in Severities
           /\ Worst(Found(s)) > 0 => \E d \in deps[s] : table[d] = Worst(Found(s))
<1>1. Found(s) \in SUBSET Severities /\ Found(s) # {}
  BY DEF UpstreamTypeOK, Found, Severities, NotMet
<1>2. Worst(Found(s)) \in Found(s)
  BY <1>1, WorstIsOneOf
<1>3. PICK d \in deps[s] :
         Worst(Found(s)) = IF table[d] = NotMet THEN 0 ELSE table[d]
  BY <1>2 DEF Found
<1> QED
  BY <1>1, <1>2, <1>3 DEF Severities

\* The top of a stack is a step, and what is below it is a stack.
LEMMA StackIsSteps ==
    ASSUME UpstreamTypeOK, stack # <<>>
    PROVE  Top \in Steps /\ Popped \in Seq(Steps)
BY DEF UpstreamTypeOK, Top, Popped

\* The types hold at the start, and nothing is said yet.
LEMMA UpstreamInvInit == UpstreamInit => UpstreamInv
BY DEF UpstreamInit, UpstreamInv, UpstreamTypeOK, EmptyEntries, NothingInvented,
       NotMet, Severities, Placeholder

\* If one entry of the table changes, to nothing or to a status that every closed set
\* around the step holds, then still nothing is invented.
LEMMA EntryKeepsInv ==
    ASSUME UpstreamInv, NEW x \in Steps, NEW v \in Severities,
           table' = [table EXCEPT ![x] = v], UNCHANGED <<status, deps>>,
           stack' \in Seq(Steps), v = Placeholder => status[x] \in {"PENDING", "UNKNOWN"},
           \A C \in SUBSET Steps : Closed(C) /\ x \in C /\ v > 0 =>
               \E t \in C : ~Waits(t) /\ v = Severity(status[t])
    PROVE  UpstreamInv'
<1>1. UpstreamTypeOK' /\ EmptyEntries'
  BY DEF UpstreamInv, UpstreamTypeOK, EmptyEntries
<1>2. ASSUME NEW C \in SUBSET Steps, Closed(C)', NEW s \in C, table'[s] > 0
      PROVE  \E t \in C : ~Waits(t)' /\ table'[s] = Severity(status'[t])
  <2>1. Closed(C) /\ \A t \in C : Waits(t)' <=> Waits(t)
    BY <1>2 DEF Closed, Waits, LooksAtDeps, TakenForWaiting
  <2>2. CASE s = x
    BY <1>2, <2>1, <2>2 DEF UpstreamInv, UpstreamTypeOK
  <2>3. CASE s # x
    BY <1>2, <2>1, <2>3 DEF UpstreamInv, UpstreamTypeOK, NothingInvented
  <2> QED
    BY <2>2, <2>3
<1>3. NothingInvented'
  BY <1>2 DEF NothingInvented
<1> QED
  BY <1>1, <1>3 DEF UpstreamInv

\* A step of the walk that leaves the table alone keeps the invariant.
LEMMA SameTableKeepsInv ==
    ASSUME UpstreamInv, UNCHANGED <<status, deps, table>>, stack' \in Seq(Steps)
    PROVE  UpstreamInv'
<1>1. UpstreamTypeOK' /\ EmptyEntries'
  BY DEF UpstreamInv, UpstreamTypeOK, EmptyEntries
<1>2. ASSUME NEW C \in SUBSET Steps, Closed(C)', NEW s \in C, table'[s] > 0
      PROVE  \E t \in C : ~Waits(t)' /\ table'[s] = Severity(status'[t])
  <2>1. Closed(C) /\ \A t \in C : Waits(t)' <=> Waits(t)
    BY <1>2 DEF Closed, Waits, LooksAtDeps, TakenForWaiting
  <2> QED
    BY <1>2, <2>1 DEF UpstreamInv, NothingInvented
<1>3. NothingInvented'
  BY <1>2 DEF NothingInvented
<1> QED
  BY <1>1, <1>3 DEF UpstreamInv

\* Every step of the walk keeps the invariant.
LEMMA VisitKeepsInv ==
    ASSUME UpstreamInv, Visit
    PROVE  UpstreamInv'
<1>1. UpstreamTypeOK /\ Top \in Steps /\ Popped \in Seq(Steps)
  BY StackIsSteps DEF UpstreamInv, Visit, Ignore, Descend, Enter, Update
<1>2. CASE Ignore
  BY <1>1, <1>2, SameTableKeepsInv DEF Ignore
<1>3. CASE Descend
  <2>1. stack' \in Seq(Steps)
    <3>1. PICK order \in Orders(deps[Top]) : stack' = stack \o order
      BY <1>3 DEF Descend
    <3>2. order \in Seq(Steps)
      BY <1>1, <3>1, OrdersAreSeqs DEF UpstreamTypeOK
    <3> QED
      BY <1>1, <3>1, <3>2 DEF UpstreamTypeOK
  <2>2. Placeholder \in Severities /\ ~(Placeholder > 0)
    BY DEF Placeholder, Severities
  <2>3. table' = [table EXCEPT ![Top] = Placeholder] /\ UNCHANGED <<status, deps>>
        /\ status[Top] = "PENDING"
    BY <1>3 DEF Descend, Waits
  <2> HIDE DEF Top, Placeholder
  <2> QED
    BY <1>1, <2>1, <2>2, <2>3, EntryKeepsInv
<1>4. CASE Enter
  <2>1. /\ table' = [table EXCEPT ![Top] = Severity(status[Top])]
        /\ UNCHANGED <<status, deps>> /\ stack' \in Seq(Steps) /\ ~Waits(Top)
    BY <1>1, <1>4 DEF Enter
  <2>2. Severity(status[Top]) \in Severities
    BY SeverityInRange
  <2>4. Severity(status[Top]) = Placeholder => status[Top] \in {"PENDING", "UNKNOWN"}
    <3>1. status[Top] \in Statuses /\ status[Top] \notin {"DONE", Absent}
      BY <1>1, <1>4 DEF Enter, UpstreamTypeOK
    <3> QED BY <3>1, UpstreamAssumption DEF Severity, Placeholder, UpstreamAssumption
  <2>3. \A C \in SUBSET Steps : Closed(C) /\ Top \in C /\ Severity(status[Top]) > 0 =>
            \E t \in C : ~Waits(t) /\ Severity(status[Top]) = Severity(status[t])
    BY <2>1
  <2> QED
    BY <1>1, <2>1, <2>2, <2>3, <2>4, EntryKeepsInv
<1>5. CASE Update
  <2>1. UNCHANGED <<status, deps>> /\ stack' \in Seq(Steps)
    BY <1>1, <1>5 DEF Update
  <2>2. CASE table[Top] = Placeholder /\ deps[Top] # {}
    <3> DEFINE v == Worst(Found(Top))
    <3>1. table' = [table EXCEPT ![Top] = v]
      BY <1>5, <2>2 DEF Update
    <3>2. v \in Severities /\ (v > 0 => \E d \in deps[Top] : table[d] = v)
      BY <1>1, <2>2, UpdateFromDependency
    <3>3. LooksAtDeps(Top) /\ status[Top] \in {"PENDING", "UNKNOWN"}
      BY <1>1, <2>2 DEF UpstreamInv, EmptyEntries, LooksAtDeps, TakenForWaiting, Waits
    <3> HIDE DEF v
    <3>4. ASSUME NEW C \in SUBSET Steps, Closed(C), Top \in C, v > 0
          PROVE  \E t \in C : ~Waits(t) /\ v = Severity(status[t])
      <4>1. PICK d \in deps[Top] : table[d] = v
        BY <3>2, <3>4
      <4>2. d \in C
        BY <3>3, <3>4, <4>1 DEF Closed
      <4> QED
        BY <3>4, <4>1, <4>2 DEF UpstreamInv, NothingInvented
    <3> QED
      BY <1>1, <2>1, <3>1, <3>2, <3>3, <3>4, EntryKeepsInv
  <2>3. CASE ~(table[Top] = Placeholder /\ deps[Top] # {})
    BY <1>5, <2>1, <2>3, SameTableKeepsInv DEF Update
  <2> QED
    BY <2>2, <2>3
<1> QED
  BY <1>2, <1>3, <1>4, <1>5 DEF Visit

\* The invariant is inductive.
LEMMA UpstreamInductive ==
    UpstreamInv /\ [UpstreamNext]_upstreamVars => UpstreamInv'
<1> SUFFICES ASSUME UpstreamInv, [UpstreamNext]_upstreamVars PROVE UpstreamInv'
  OBVIOUS
<1>1. CASE UNCHANGED upstreamVars
  BY <1>1, SameTableKeepsInv DEF upstreamVars, UpstreamInv, UpstreamTypeOK
<1>2. ASSUME NEW s \in Steps, Ask(s) PROVE UpstreamInv'
  BY <1>2, SameTableKeepsInv DEF Ask
<1>3. CASE Visit
  BY <1>3, VisitKeepsInv
<1> QED
  BY <1>1, <1>2, <1>3 DEF UpstreamNext

\* For every graph of steps, cyclic or not, and every sequence of questions: the
\* table of _upstream_status holds positions of UPSTREAM_SEVERITY_ORDER and says of
\* no step what no step it depends on has.
THEOREM NothingEverInvented == UpstreamSpec => [](UpstreamTypeOK /\ NothingInvented)
<1>1. UpstreamInv => UpstreamTypeOK /\ NothingInvented
  BY DEF UpstreamInv
<1> QED
  BY <1>1, UpstreamInductive, UpstreamInvInit, PTL DEF UpstreamSpec

-----------------------------------------------------------------------------
(* What can be reached, and what is promised. *)

\* Reachable(s) is the smallest closed set around s.
ReachableOK ==
    \A s \in Steps :
        /\ Reachable(s) \in SUBSET Steps /\ s \in Reachable(s) /\ Closed(Reachable(s))
        /\ \A D \in SUBSET Steps : s \in D /\ Closed(D) => Reachable(s) \subseteq D

\* There is one: what all closed sets around s have in common is closed.
LEMMA SmallestExists == UpstreamTypeOK => ReachableOK
<1> SUFFICES ASSUME UpstreamTypeOK, NEW s \in Steps
             PROVE  /\ Reachable(s) \in SUBSET Steps /\ s \in Reachable(s)
                    /\ Closed(Reachable(s))
                    /\ \A D \in SUBSET Steps : s \in D /\ Closed(D) => Reachable(s) \subseteq D
  BY DEF ReachableOK
<1> DEFINE common == {x \in Steps : \A D \in SUBSET Steps : s \in D /\ Closed(D) => x \in D}
           Smallest(C) == /\ s \in C /\ Closed(C)
                          /\ \A D \in SUBSET Steps : s \in D /\ Closed(D) => C \subseteq D
<1>1. Closed(common)
  <2> SUFFICES ASSUME NEW x \in common, LooksAtDeps(x), NEW d \in deps[x] PROVE d \in common
    BY DEF Closed
  <2>1. d \in Steps
    BY DEF UpstreamTypeOK
  <2>2. ASSUME NEW D \in SUBSET Steps, s \in D, Closed(D) PROVE d \in D
    <3>1. x \in D
      BY <2>2
    <3> QED
      BY <2>2, <3>1 DEF Closed
  <2> QED
    BY <2>1, <2>2
<1>2. common \in SUBSET Steps /\ Smallest(common)
  BY <1>1
<1>3. \E C \in SUBSET Steps : Smallest(C)
  BY <1>2
<1>4. Reachable(s) = CHOOSE C \in SUBSET Steps : Smallest(C)
  BY DEF Reachable
<1> HIDE DEF Smallest, common
<1>5. Reachable(s) \in SUBSET Steps /\ Smallest(Reachable(s))
  BY <1>3, <1>4
<1> QED
  BY <1>5 DEF Smallest

\* The severities of the steps that do not wait among those s can reach.
Causes(s) == {Severity(status[t]) : t \in {u \in Reachable(s) : ~Waits(u)}}

\* Promised(s) is the greatest of them, or 0.
PromisedOK ==
    \A s \in Steps : /\ Promised(s) \in Causes(s) \cup {0} /\ Promised(s) \in Severities
                     /\ \A u \in Causes(s) : u <= Promised(s)

\* There is a greatest one.
LEMMA GreatestExists == UpstreamTypeOK => PromisedOK
<1> SUFFICES ASSUME UpstreamTypeOK, NEW s \in Steps
             PROVE  /\ Promised(s) \in Causes(s) \cup {0} /\ Promised(s) \in Severities
                    /\ \A u \in Causes(s) : u <= Promised(s)
  BY DEF PromisedOK
<1>1. PICK causes : causes = Causes(s)
  OBVIOUS
<1>2. causes \cup {0} \in SUBSET Severities
  BY <1>1, SeverityInRange DEF Causes, Severities
<1>3. Worst(causes \cup {0}) \in causes \cup {0}
      /\ \A u \in causes \cup {0} : u <= Worst(causes \cup {0})
  BY <1>2, WorstIsOneOf
<1>4. \E v \in causes \cup {0} : \A u \in causes : u <= v
  BY <1>3
<1>5. Promised(s) = CHOOSE v \in causes \cup {0} : \A u \in causes : u <= v
  BY <1>1 DEF Promised, Causes
<1>6. Promised(s) \in causes \cup {0} /\ \A u \in causes : u <= Promised(s)
  BY <1>4, <1>5
<1> QED
  BY <1>1, <1>2, <1>6

\* A step whose dependencies are looked at reaches what they reach, and itself.
LEMMA ReachThroughDeps ==
    ASSUME UpstreamTypeOK, NEW s \in Steps, LooksAtDeps(s)
    PROVE  /\ \A d \in deps[s] : d \in Steps /\ Reachable(d) \subseteq Reachable(s)
           /\ \A x \in Reachable(s) : x = s \/ \E d \in deps[s] : x \in Reachable(d)
<1>1. ReachableOK
  BY SmallestExists
<1>2. deps[s] \in SUBSET Steps
  BY DEF UpstreamTypeOK
<1>3. ASSUME NEW d \in deps[s] PROVE d \in Steps /\ Reachable(d) \subseteq Reachable(s)
  <2>1. d \in Reachable(s) /\ d \in Steps
    BY <1>1, <1>2 DEF ReachableOK, Closed
  <2> QED
    BY <1>1, <2>1 DEF ReachableOK
<1> DEFINE all == {x \in Steps : x = s \/ \E d \in deps[s] : x \in Reachable(d)}
<1>4. Closed(all)
  <2> SUFFICES ASSUME NEW x \in all, LooksAtDeps(x), NEW e \in deps[x] PROVE e \in all
    BY DEF Closed
  <2>0. e \in Steps
    BY DEF UpstreamTypeOK
  <2>1. CASE x = s
    <3>1. e \in Reachable(e)
      BY <1>1, <2>0 DEF ReachableOK
    <3> QED
      BY <2>0, <2>1, <3>1
  <2>2. ASSUME NEW d \in deps[s], x \in Reachable(d) PROVE e \in all
    <3>1. e \in Reachable(d)
      BY <1>1, <1>3, <2>2 DEF ReachableOK, Closed
    <3> QED
      BY <2>0, <3>1
  <2> QED
    BY <2>1, <2>2
<1>5. Reachable(s) \subseteq all
  BY <1>1, <1>4 DEF ReachableOK
<1> QED
  BY <1>3, <1>5

\* The promise to a step that waits is the worst of the promises to its
\* dependencies.
LEMMA PromiseFromDeps ==
    ASSUME UpstreamTypeOK, NEW s \in Steps, Waits(s), NEW worst \in Severities,
           \E d \in deps[s] : worst = Promised(d),
           \A d \in deps[s] : Promised(d) <= worst
    PROVE  worst = Promised(s)
<1>1. ReachableOK /\ PromisedOK
  BY SmallestExists, GreatestExists
<1>2. PICK d0 \in deps[s] : worst = Promised(d0)
  OBVIOUS
<1>0. LooksAtDeps(s)
  BY DEF LooksAtDeps
<1>3. d0 \in Steps /\ Reachable(d0) \subseteq Reachable(s)
  BY <1>0, ReachThroughDeps
<1>4. Promised(s) \in Severities /\ Promised(s) \in Causes(s) \cup {0}
      /\ \A u \in Causes(s) : u <= Promised(s)
  BY <1>1 DEF PromisedOK
<1>5. worst <= Promised(s)
  <2>1. worst \in Causes(d0) \cup {0}
    BY <1>1, <1>2, <1>3 DEF PromisedOK
  <2>2. worst \in Causes(s) \cup {0}
    BY <1>3, <2>1 DEF Causes
  <2> QED
    BY <1>4, <2>2 DEF Severities
<1>6. Promised(s) <= worst
  <2>1. CASE Promised(s) = 0
    BY <2>1 DEF Severities
  <2>2. CASE Promised(s) \in Causes(s)
    <3>1. PICK t \in Reachable(s) : ~Waits(t) /\ Promised(s) = Severity(status[t])
      BY <2>2 DEF Causes
    <3>2. PICK d \in deps[s] : t \in Reachable(d)
      BY <1>0, <3>1, ReachThroughDeps
    <3>3. Promised(s) \in Causes(d) /\ d \in Steps
      BY <1>0, <3>1, <3>2, ReachThroughDeps DEF Causes
    <3>4. Promised(s) <= Promised(d) /\ Promised(d) <= worst /\ Promised(d) \in Severities
      BY <1>1, <3>2, <3>3 DEF PromisedOK
    <3> QED
      BY <1>4, <3>4 DEF Severities
  <2> QED
    BY <1>4, <2>1, <2>2
<1> QED
  BY <1>4, <1>5, <1>6 DEF Severities

\* The promise to a step whose dependencies are not looked at is its own status.
LEMMA PromiseOfLeaf ==
    ASSUME UpstreamTypeOK, NEW s \in Steps, ~LooksAtDeps(s)
    PROVE  Promised(s) = Severity(status[s])
<1>1. ReachableOK /\ PromisedOK
  BY SmallestExists, GreatestExists
<1>2. Closed({s})
  BY DEF Closed
<1>3. Reachable(s) = {s}
  BY <1>1, <1>2 DEF ReachableOK
<1>4. Causes(s) = {Severity(status[s])}
  BY <1>3 DEF Causes, LooksAtDeps
<1>5. Severity(status[s]) \in Severities
  BY SeverityInRange
<1> QED
  BY <1>1, <1>4, <1>5 DEF PromisedOK, Severities

\* As long as the graph does not change, neither does what is reached or promised.
LEMMA GraphFixed ==
    ASSUME UpstreamTypeOK, UpstreamTypeOK', UNCHANGED <<status, deps>>
    PROVE  /\ \A s \in Steps : Waits(s)' = Waits(s)
           /\ \A s \in Steps : Reachable(s)' = Reachable(s)
           /\ \A s \in Steps : Promised(s)' = Promised(s)
           /\ \A s \in Steps : Tame(s)' <=> Tame(s)
<1>1. ReachableOK /\ PromisedOK
  BY SmallestExists, GreatestExists
<1>2. ReachableOK'
  BY SmallestExists, PTL
<1>3. PromisedOK'
  BY GreatestExists, PTL
<1>4. \A s \in Steps : Waits(s)' = Waits(s) /\ LooksAtDeps(s)' = LooksAtDeps(s)
                         /\ TakenForWaiting(s)' = TakenForWaiting(s)
  BY DEF Waits, LooksAtDeps, TakenForWaiting
<1>5. \A C \in SUBSET Steps : Closed(C)' <=> Closed(C)
  BY <1>4 DEF Closed
<1>6. ASSUME NEW s \in Steps PROVE Reachable(s)' = Reachable(s)
  <2>1. /\ Reachable(s) \in SUBSET Steps /\ s \in Reachable(s) /\ Closed(Reachable(s))
        /\ \A D \in SUBSET Steps : s \in D /\ Closed(D) => Reachable(s) \subseteq D
    BY <1>1 DEF ReachableOK
  <2>2. PICK R : R = Reachable(s)'
    OBVIOUS
  <2>3. /\ R \in SUBSET Steps /\ s \in R /\ Closed(R)
        /\ \A D \in SUBSET Steps : s \in D /\ Closed(D) => R \subseteq D
    <3>1. /\ Reachable(s)' \in SUBSET Steps /\ s \in Reachable(s)' /\ Closed(Reachable(s))'
          /\ \A D \in SUBSET Steps : s \in D /\ Closed(D)' => Reachable(s)' \subseteq D
      BY <1>2 DEF ReachableOK
    <3>2. \A x \in R : status'[x] = status[x] /\ deps'[x] = deps[x]
      OBVIOUS
    <3>3. Closed(R)
      BY <2>2, <3>1 DEF Closed, LooksAtDeps, TakenForWaiting, Waits
    <3> QED
      BY <1>5, <2>2, <3>1, <3>3
  <2> QED
    BY <2>1, <2>2, <2>3
<1>7. ASSUME NEW s \in Steps PROVE Promised(s)' = Promised(s)
  <2>1. Causes(s)' = Causes(s)
    <3>1. Reachable(s)' = Reachable(s) /\ Reachable(s) \in SUBSET Steps
      BY <1>1, <1>6 DEF ReachableOK
    <3> QED
      BY <1>4, <3>1 DEF Causes
  <2>2. /\ Promised(s) \in Causes(s) \cup {0} /\ Promised(s) \in Severities
        /\ \A u \in Causes(s) : u <= Promised(s)
    BY <1>1 DEF PromisedOK
  <2>3. /\ Promised(s)' \in Causes(s) \cup {0} /\ Promised(s)' \in Severities
        /\ \A u \in Causes(s) : u <= Promised(s)'
    BY <1>3, <2>1 DEF PromisedOK
  <2> QED
    BY <2>2, <2>3 DEF Severities
<1>8. \A s \in Steps : \A d \in deps[s] : d \in Steps
  BY DEF UpstreamTypeOK
<1>9. ASSUME NEW s \in Steps PROVE Tame(s)' <=> Tame(s)
  <2>1. Reachable(s)' = Reachable(s) /\ Reachable(s) \in SUBSET Steps
    BY <1>1, <1>6 DEF ReachableOK
  <2> QED BY <1>4, <1>6, <1>8, <2>1 DEF Tame
<1> QED
  BY <1>4, <1>6, <1>7, <1>9

-----------------------------------------------------------------------------
(* The walk, where there are neither cycles nor steps taken for waiting ones. *)

\* What holds of a step holds of all that it reaches.
LEMMA TameDeps ==
    ASSUME UpstreamTypeOK, NEW s \in Steps, Tame(s)
    PROVE  /\ LooksAtDeps(s) <=> Waits(s)
           /\ Waits(s) => \A d \in deps[s] : d \in Steps /\ Tame(d) /\ s \notin Reachable(d)
<1>1. ReachableOK
  BY SmallestExists
<1>2. s \in Reachable(s)
  BY <1>1 DEF ReachableOK
<1>3. ~TakenForWaiting(s) /\ \A d \in deps[s] : s \notin Reachable(d)
  BY <1>2 DEF Tame
<1>4. ASSUME Waits(s), NEW d \in deps[s] PROVE d \in Steps /\ Tame(d)
  <2>1. d \in Steps /\ Reachable(d) \subseteq Reachable(s)
    BY <1>4, ReachThroughDeps DEF LooksAtDeps
  <2> QED BY <2>1 DEF Tame
<1> QED BY <1>3, <1>4 DEF LooksAtDeps

Ignored(s) == status[s] \in {"DONE", Absent}

\* What Found takes for s is what is promised to it.
Exact(s) == Ignored(s) \/ table[s] = Promised(s)

\* s is on the stack at i and will be updated when it is met there: each of its
\* dependencies is exact or above it, and what is above it is reached through them.
WaitsAt(s, i) ==
    /\ stack[i] = s
    /\ \A d \in deps[s] : Exact(d) \/ \E k \in (i + 1)..Len(stack) : stack[k] = d
    /\ \A k \in (i + 1)..Len(stack) : \E d \in deps[s] : stack[k] \in Reachable(d)

\* A step in the table, if it is tame, is exact, and so are its dependencies; or it is
\* still on the stack with its placeholder.
Finished(s) == Exact(s) /\ (Waits(s) => \A d \in deps[s] : Exact(d))

Unfinished(s) ==
    table[s] = Placeholder /\ Waits(s) /\ \E i \in 1..Len(stack) : WaitsAt(s, i)

Walked ==
    \A s \in Steps : table[s] # NotMet =>
        ~Ignored(s) /\ (Tame(s) => Finished(s) \/ Unfinished(s))

WalkInv == UpstreamTypeOK /\ EmptyEntries /\ Walked

\* If all dependencies of a step that waits are exact, the worst that is found is
\* what is promised.
LEMMA FoundIsPromised ==
    ASSUME UpstreamTypeOK, NEW s \in Steps, Waits(s), \A d \in deps[s] : Exact(d),
           \A d \in Steps : Ignored(d) => table[d] = NotMet
    PROVE  Worst(Found(s)) = Promised(s) /\ Promised(s) \in Severities
<1>1. PromisedOK
  BY GreatestExists
<1>2. ASSUME NEW d \in deps[s]
      PROVE  /\ d \in Steps /\ Promised(d) \in Severities
             /\ (IF table[d] = NotMet THEN 0 ELSE table[d]) = Promised(d)
  <2>1. d \in Steps /\ Promised(d) \in Severities
    BY <1>1 DEF UpstreamTypeOK, PromisedOK
  <2>2. CASE Ignored(d)
    <3>1. table[d] = NotMet /\ ~LooksAtDeps(d)
      BY <2>1, <2>2 DEF Ignored, LooksAtDeps, TakenForWaiting, Waits, Absent
    <3>2. Promised(d) = Severity(status[d])
      BY <2>1, <3>1, PromiseOfLeaf
    <3>3. Severity(status[d]) = 0
      BY <2>2 DEF Ignored, Severity, Absent
    <3> QED
      BY <2>1, <3>1, <3>2, <3>3
  <2>3. CASE table[d] = Promised(d)
    BY <2>1, <2>3 DEF Severities, NotMet
  <2> QED
    BY <2>2, <2>3 DEF Exact
<1>3. Found(s) = {Promised(d) : d \in deps[s]}
  BY <1>2 DEF Found
<1>4. Found(s) \in SUBSET Severities /\ Found(s) # {}
  BY <1>2, <1>3 DEF Waits
<1>5. Worst(Found(s)) \in Found(s) /\ \A u \in Found(s) : u <= Worst(Found(s))
  BY <1>4, WorstIsOneOf
<1>6. PICK worst : worst = Worst(Found(s))
  OBVIOUS
<1>7. /\ worst \in Severities /\ \E d \in deps[s] : worst = Promised(d)
      /\ \A d \in deps[s] : Promised(d) <= worst
  BY <1>3, <1>4, <1>5, <1>6
<1> QED
  BY <1>6, <1>7, PromiseFromDeps

\* An order of a set lists all of it.
LEMMA OrdersListAll ==
    ASSUME NEW S \in SUBSET Steps, NEW order \in Orders(S)
    PROVE  /\ order \in Seq(S)
           /\ \A x \in S : \E i \in 1..Len(order) : order[i] = x
<1>1. IsFiniteSet(S) /\ Cardinality(S) \in Nat
  BY FS_Subset, FS_CardinalityType, UpstreamAssumption
<1>2. PICK n : n = Cardinality(S)
  OBVIOUS
<1>3. order \in [1..n -> S] /\ \A i, j \in 1..n : order[i] = order[j] => i = j
  BY <1>2 DEF Orders
<1>4. order \in Injection(1..n, S)
  BY <1>3 DEF Injection, IsInjective
<1>5. Cardinality(1..n) = n
  BY <1>1, <1>2, FS_Interval
<1>6. order \in Surjection(1..n, S)
  BY <1>1, <1>2, <1>4, <1>5, FS_Injection
<1>7. \A x \in S : \E i \in 1..n : order[i] = x
  BY <1>6 DEF Surjection
<1>8. order \in Seq(S) /\ Len(order) = n
  BY <1>1, <1>2, <1>3
<1> QED
  BY <1>7, <1>8

\* Taking the top off the stack keeps what is known, if the top, when it is tame, is
\* exact then and its dependencies were.
LEMMA PopKeepsWalk ==
    ASSUME WalkInv, UpstreamTypeOK', stack # <<>>, stack' = Popped,
           UNCHANGED <<status, deps>>, NEW t \in Steps, t = Top,
           \A s \in Steps \ {t} : table'[s] = table[s],
           table'[t] # NotMet => ~Ignored(t),
           Tame(t) => /\ Exact(t)'
                      /\ table'[t] # NotMet /\ Waits(t) => \A d \in deps[t] : Exact(d)
    PROVE  Walked'
<1>1. UpstreamTypeOK /\ Walked
  BY DEF WalkInv
<1>2. PICK n : n = Len(stack)
  OBVIOUS
<1>3. /\ n \in Nat \ {0} /\ stack[n] = t /\ Len(stack') = n - 1
      /\ \A k \in 1..(n - 1) : stack'[k] = stack[k]
  BY <1>1, <1>2 DEF UpstreamTypeOK, Top, Popped
<1>5. /\ \A s \in Steps : Waits(s)' = Waits(s)
      /\ \A s \in Steps : Reachable(s)' = Reachable(s)
      /\ \A s \in Steps : Promised(s)' = Promised(s)
      /\ \A s \in Steps : Tame(s)' <=> Tame(s)
  BY <1>1, GraphFixed
<1>6. \A s \in Steps : \A d \in deps[s] : d \in Steps
  BY <1>1 DEF UpstreamTypeOK
<1>7. /\ \A s \in Steps : Ignored(s)' = Ignored(s)
      /\ \A s \in Steps : Tame(s) /\ (Exact(s) \/ s = t) => Exact(s)'
  <2>1. \A s \in Steps : Ignored(s)' = Ignored(s)
    BY DEF Ignored
  <2>2. ASSUME NEW s \in Steps, Tame(s), Exact(s) \/ s = t PROVE Exact(s)'
    <3>1. CASE s = t
      BY <2>2, <3>1
    <3>2. CASE s # t
      BY <1>5, <2>1, <2>2, <3>2 DEF Exact
    <3> QED
      BY <3>1, <3>2
  <2> QED
    BY <2>1, <2>2
<1>8. ASSUME NEW s \in Steps, table'[s] # NotMet PROVE ~Ignored(s)'
  BY <1>1, <1>7, <1>8 DEF Walked
<1> SUFFICES ASSUME NEW s \in Steps, table'[s] # NotMet, Tame(s)
             PROVE  Finished(s)' \/ Unfinished(s)'
  BY <1>5, <1>8 DEF Walked
<1>10. Waits(s) => \A d \in deps[s] : Tame(d)
  BY <1>1, TameDeps
<1>11. CASE s = t
  BY <1>5, <1>6, <1>7, <1>10, <1>11 DEF Finished
<1>9. CASE s # t
  <2>1. table[s] # NotMet /\ table'[s] = table[s] /\ ~Ignored(s)
    BY <1>1, <1>9 DEF Walked
  <2>2. CASE Finished(s)
    BY <1>5, <1>6, <1>7, <1>10, <2>1, <2>2 DEF Finished
  <2>3. CASE Unfinished(s)
    <3>0. \A d \in deps[s] : Tame(d)
      BY <1>10, <2>3 DEF Unfinished
    <3>1. PICK i \in 1..n : WaitsAt(s, i)
      BY <1>2, <2>3 DEF Unfinished
    <3>2. i \in 1..(n - 1) /\ stack'[i] = s
      BY <1>3, <1>9, <3>1 DEF WaitsAt
    <3>3. ASSUME NEW d \in deps[s]
          PROVE  Exact(d)' \/ \E k \in (i + 1)..(n - 1) : stack'[k] = d
      <4>1. CASE Exact(d)
        BY <1>6, <1>7, <3>0, <4>1
      <4>2. ASSUME NEW k \in (i + 1)..n, stack[k] = d
            PROVE  Exact(d)' \/ \E j \in (i + 1)..(n - 1) : stack'[j] = d
        <5>1. CASE k = n
          BY <1>3, <1>6, <1>7, <3>0, <4>2, <5>1
        <5>2. CASE k # n
          <6>1. k \in (i + 1)..(n - 1) /\ stack'[k] = d
            BY <1>3, <4>2, <5>2
          <6> QED
            BY <6>1
        <5> QED
          BY <5>1, <5>2
      <4> QED
        BY <1>2, <3>1, <4>1, <4>2 DEF WaitsAt
    <3>4. ASSUME NEW k \in (i + 1)..(n - 1)
          PROVE  \E d \in deps[s] : stack'[k] \in Reachable(d)'
      <4>1. k \in (i + 1)..n /\ stack'[k] = stack[k]
        BY <1>3
      <4> QED
        BY <1>2, <1>5, <1>6, <3>1, <4>1 DEF WaitsAt
    <3>5. WaitsAt(s, i)'
      BY <1>3, <3>2, <3>3, <3>4 DEF WaitsAt
    <3>6. table'[s] = Placeholder
      BY <2>1, <2>3 DEF Unfinished
    <3>7. Waits(s)'
      BY <1>5, <2>3, Zenon DEF Unfinished
    <3>8. i \in 1..Len(stack')
      BY <1>3, <3>2
    <3> QED
      BY <1>7, <2>1, <3>5, <3>6, <3>7, <3>8 DEF Unfinished
  <2> QED
    BY <1>1, <2>1, <2>2, <2>3 DEF Walked
<1> QED
  BY <1>9, <1>11

\* A step met again is finished or was left where it is met: it is not above itself.
LEMMA DepsOfTopExact ==
    ASSUME WalkInv, stack # <<>>, table[Top] # NotMet, Tame(Top), Waits(Top)
    PROVE  \A d \in deps[Top] : Exact(d)
<1>1. UpstreamTypeOK /\ Walked
  BY DEF WalkInv
<1>2. PICK n : n = Len(stack)
  OBVIOUS
<1>3. n \in Nat \ {0} /\ stack[n] = Top /\ Top \in Steps
  BY <1>1, <1>2 DEF UpstreamTypeOK, Top
<1>4. CASE Finished(Top)
  BY <1>4 DEF Finished
<1>5. CASE Unfinished(Top)
  <2>1. PICK i \in 1..n : WaitsAt(Top, i)
    BY <1>2, <1>5 DEF Unfinished
  <2>2. CASE i = n
    BY <1>2, <1>3, <2>1, <2>2 DEF WaitsAt
  <2>3. CASE i # n
    <3>1. n \in (i + 1)..n
      BY <1>3, <2>3
    <3>2. PICK d \in deps[Top] : Top \in Reachable(d)
      BY <1>2, <1>3, <2>1, <3>1 DEF WaitsAt
    <3> QED
      BY <1>1, <1>3, <3>2, TameDeps
  <2> QED
    BY <2>2, <2>3
<1> QED
  BY <1>1, <1>3, <1>4, <1>5 DEF Walked

\* Descending keeps what is known: the dependencies come above the step, and they
\* are reached from whatever the step itself is reached from.
LEMMA DescendKeepsWalk ==
    ASSUME WalkInv, UpstreamTypeOK', Descend
    PROVE  Walked'
<1>1. UpstreamTypeOK /\ Walked /\ stack # <<>>
  BY DEF WalkInv, Descend
<1>2. PICK n : n = Len(stack)
  OBVIOUS
<1>3. PICK t : t = Top
  OBVIOUS
<1>4. /\ n \in Nat \ {0} /\ stack[n] = t /\ t \in Steps /\ table[t] = NotMet
      /\ Waits(t) /\ ~Ignored(t) /\ table' = [table EXCEPT ![t] = Placeholder]
      /\ UNCHANGED <<status, deps>>
  BY <1>1, <1>2, <1>3 DEF UpstreamTypeOK, Top, Descend, FirstTime, Ignored
<1>5. PICK order \in Orders(deps[t]) : stack' = stack \o order
  BY <1>3 DEF Descend
<1>6. deps[t] \in SUBSET Steps /\ stack \in Seq(Steps) /\ \A s \in Steps : \A d \in deps[s] : d \in Steps
  BY <1>1, <1>4 DEF UpstreamTypeOK
<1>7. order \in Seq(deps[t]) /\ \A d \in deps[t] : \E j \in 1..Len(order) : order[j] = d
  BY <1>5, <1>6, OrdersListAll
<1>8. PICK m : m = Len(order)
  OBVIOUS
<1>9. /\ m \in Nat /\ Len(stack') = n + m
      /\ \A k \in 1..n : stack'[k] = stack[k]
      /\ \A k \in (n + 1)..(n + m) : stack'[k] = order[k - n] /\ stack'[k] \in deps[t]
  <2>1. order \in Seq(Steps) /\ m \in Nat
    BY <1>6, <1>7, <1>8
  <2>2. Len(stack') = n + m /\ \A k \in 1..n : stack'[k] = stack[k]
    BY <1>2, <1>4, <1>5, <1>6, <1>8, <2>1
  <2>3. ASSUME NEW k \in (n + 1)..(n + m) PROVE stack'[k] = order[k - n] /\ stack'[k] \in deps[t]
    <3>1. k - n \in 1..m
      BY <1>4, <2>1
    <3>2. stack'[k] = order[k - n]
      BY <1>2, <1>4, <1>5, <1>6, <1>8, <2>1, <3>1
    <3> QED
      BY <1>7, <1>8, <3>1, <3>2
  <2> QED
    BY <2>1, <2>2, <2>3
<1>10. /\ \A s \in Steps : Waits(s)' = Waits(s)
       /\ \A s \in Steps : Reachable(s)' = Reachable(s)
       /\ \A s \in Steps : Promised(s)' = Promised(s)
       /\ \A s \in Steps : Tame(s)' <=> Tame(s)
  BY <1>1, <1>4, GraphFixed
<1>11. /\ ReachableOK /\ PromisedOK /\ table'[t] = Placeholder
       /\ \A s \in Steps \ {t} : table'[s] = table[s]
  BY <1>1, <1>4, SmallestExists, GreatestExists DEF UpstreamTypeOK
<1>12. /\ \A s \in Steps : Ignored(s)' = Ignored(s)
       /\ \A s \in Steps : Exact(s) => Exact(s)'
  <2>1. \A s \in Steps : Ignored(s)' = Ignored(s)
    BY <1>4 DEF Ignored
  <2>2. ~Exact(t)
    BY <1>4, <1>11 DEF Exact, PromisedOK, Severities, NotMet
  <2>3. \A s \in Steps : Exact(s) => Exact(s)'
    BY <1>10, <1>11, <2>1, <2>2 DEF Exact
  <2> QED
    BY <2>1, <2>3
<1>15. ASSUME NEW s \in Steps, table'[s] # NotMet PROVE ~Ignored(s)'
  BY <1>1, <1>4, <1>11, <1>12, <1>15 DEF Walked
<1> SUFFICES ASSUME NEW s \in Steps, table'[s] # NotMet, Tame(s)
             PROVE  Finished(s)' \/ Unfinished(s)'
  BY <1>10, <1>15 DEF Walked
<1>13. CASE s = t
  <2>1. \A d \in deps[t] : \E k \in (n + 1)..(n + m) : stack'[k] = d
    <3> SUFFICES ASSUME NEW d \in deps[t] PROVE \E k \in (n + 1)..(n + m) : stack'[k] = d
      OBVIOUS
    <3>1. PICK j \in 1..m : order[j] = d
      BY <1>7, <1>8
    <3>2. n + j \in (n + 1)..(n + m) /\ (n + j) - n = j
      BY <1>4, <1>9
    <3> QED
      BY <1>9, <3>1, <3>2
  <2>2. \A k \in (n + 1)..(n + m) : \E d \in deps[t] : stack'[k] \in Reachable(d)'
    BY <1>6, <1>9, <1>10, <1>11 DEF ReachableOK
  <2>3. n \in 1..(n + m) /\ stack'[n] = t
    BY <1>4, <1>9
  <2>4. WaitsAt(t, n)'
    BY <1>4, <1>9, <2>1, <2>2, <2>3 DEF WaitsAt
  <2>5. Unfinished(t)'
    BY <1>4, <1>9, <1>10, <1>11, <2>3, <2>4 DEF Unfinished, Placeholder
  <2> QED
    BY <1>4, <1>12, <1>13, <2>5
<1>14. CASE s # t
  <2>1. table[s] # NotMet /\ table'[s] = table[s] /\ ~Ignored(s)
    BY <1>1, <1>11, <1>14 DEF Walked
  <2>2. CASE Finished(s)
    BY <1>4, <1>6, <1>10, <1>12, <2>1, <2>2 DEF Finished
  <2>3. CASE Unfinished(s)
    <3>1. PICK i \in 1..n : WaitsAt(s, i)
      BY <1>2, <2>3 DEF Unfinished
    <3>2. i \in 1..(n - 1) /\ i \in 1..(n + m) /\ stack'[i] = s /\ n \in (i + 1)..n
      BY <1>4, <1>9, <1>14, <3>1 DEF WaitsAt
    <3>3. ASSUME NEW d \in deps[s]
          PROVE  Exact(d)' \/ \E k \in (i + 1)..(n + m) : stack'[k] = d
      <4>1. CASE Exact(d)
        BY <1>6, <1>12, <4>1
      <4>2. ASSUME NEW k \in (i + 1)..n, stack[k] = d
            PROVE  k \in (i + 1)..(n + m) /\ stack'[k] = d
        BY <1>4, <1>9, <4>2
      <4> QED
        BY <1>2, <3>1, <4>1, <4>2 DEF WaitsAt
    <3>4. PICK e \in deps[s] : t \in Reachable(e)
      BY <1>2, <1>4, <3>1, <3>2 DEF WaitsAt
    <3>5. deps[t] \subseteq Reachable(e) /\ e \in Steps
      BY <1>4, <1>6, <1>11, <3>4 DEF ReachableOK, Closed, LooksAtDeps
    <3>6. ASSUME NEW k \in (i + 1)..(n + m)
          PROVE  \E d \in deps[s] : stack'[k] \in Reachable(d)'
      <4>1. CASE k <= n
        <5>1. k \in (i + 1)..n /\ stack'[k] = stack[k]
          BY <1>4, <1>9, <3>2, <4>1
        <5> QED
          BY <1>2, <1>6, <1>10, <3>1, <5>1 DEF WaitsAt
      <4>2. CASE ~(k <= n)
        <5>1. k \in (n + 1)..(n + m)
          BY <1>4, <1>9, <3>2, <4>2
        <5> QED
          BY <1>9, <1>10, <3>4, <3>5, <5>1
      <4> QED
        BY <4>1, <4>2
    <3>7. WaitsAt(s, i)'
      BY <1>4, <1>9, <3>2, <3>3, <3>6 DEF WaitsAt
    <3>8. table'[s] = Placeholder
      BY <2>1, <2>3 DEF Unfinished
    <3>9. Waits(s)'
      BY <1>10, <2>3, Zenon DEF Unfinished
    <3>10. i \in 1..Len(stack')
      BY <1>9, <3>2
    <3> QED
      BY <1>12, <2>1, <3>7, <3>8, <3>9, <3>10 DEF Unfinished
  <2> QED
    BY <1>1, <2>1, <2>2, <2>3 DEF Walked
<1> QED
  BY <1>13, <1>14

\* Every step keeps what is known.
LEMMA NextKeepsWalk ==
    ASSUME WalkInv, UpstreamInv', [UpstreamNext]_upstreamVars
    PROVE  WalkInv'
<1>1. UpstreamTypeOK /\ UpstreamTypeOK' /\ EmptyEntries'
  BY DEF WalkInv, UpstreamInv
<1>2. UNCHANGED <<status, deps>>
  BY DEF UpstreamNext, Ask, Visit, Ignore, Descend, Enter, Update, upstreamVars
<1> SUFFICES Walked'
  BY <1>1 DEF WalkInv
<1>4. Walked /\ \A d \in Steps : Ignored(d) => table[d] = NotMet
  BY DEF WalkInv, Walked
<1>5. /\ \A s \in Steps : Waits(s)' = Waits(s)
      /\ \A s \in Steps : Reachable(s)' = Reachable(s)
      /\ \A s \in Steps : Promised(s)' = Promised(s)
      /\ \A s \in Steps : Ignored(s)' = Ignored(s)
      /\ \A s \in Steps : Tame(s)' <=> Tame(s)
  BY <1>1, <1>2, GraphFixed DEF Ignored
<1>6. CASE UNCHANGED <<table, stack>>
  <2>1. \A s \in Steps : \A d \in deps[s] : d \in Steps
    BY <1>1 DEF UpstreamTypeOK
  <2>2. \A s \in Steps : Exact(s)' = Exact(s)
    BY <1>5, <1>6 DEF Exact
  <2>3. \A s \in Steps, i \in 1..Len(stack) : WaitsAt(s, i) => WaitsAt(s, i)'
    BY <1>2, <1>5, <1>6, <2>1, <2>2 DEF WaitsAt
  <2>4. \A s \in Steps : Finished(s) => Finished(s)'
    BY <1>2, <1>5, <2>1, <2>2 DEF Finished
  <2>5. \A s \in Steps : Unfinished(s) => Unfinished(s)'
    BY <1>5, <1>6, <2>3 DEF Unfinished, Placeholder
  <2> QED
    BY <1>4, <1>5, <1>6, <2>4, <2>5 DEF Walked
<1>7. ASSUME NEW q \in Steps, Ask(q) PROVE Walked'
  <2>1. stack = <<>> /\ table' = table
    BY <1>7 DEF Ask
  <2>2. \A s \in Steps : table[s] # NotMet => ~Ignored(s) /\ (Tame(s) => Finished(s))
    BY <1>4, <2>1 DEF Walked, Unfinished
  <2>3. \A s \in Steps : \A d \in deps[s] : d \in Steps
    BY <1>1 DEF UpstreamTypeOK
  <2>4. \A s \in Steps : Exact(s)' = Exact(s)
    BY <1>5, <2>1 DEF Exact
  <2>5. \A s \in Steps : Finished(s) => Finished(s)'
    BY <1>2, <1>5, <2>3, <2>4 DEF Finished
  <2> QED
    BY <1>5, <2>1, <2>2, <2>5 DEF Walked
<1>8. CASE Ignore
  <2>1. PICK t : t = Top
    OBVIOUS
  <2>2. stack # <<>> /\ stack' = Popped /\ table' = table /\ Ignored(t) /\ t \in Steps
    BY <1>1, <1>8, <2>1, StackIsSteps DEF Ignore, Ignored
  <2>3. Exact(t)'
    BY <1>5, <2>2 DEF Exact, Ignored
  <2> QED
    BY <1>1, <1>2, <1>4, <2>1, <2>2, <2>3, PopKeepsWalk
<1>9. CASE Descend
  BY <1>1, <1>9, DescendKeepsWalk
<1>10. CASE Enter
  <2>1. PICK t : t = Top
    OBVIOUS
  <2>2. /\ stack # <<>> /\ stack' = Popped /\ t \in Steps /\ ~Ignored(t) /\ ~Waits(t)
        /\ table' = [table EXCEPT ![t] = Severity(status[t])]
    BY <1>1, <1>10, <2>1, StackIsSteps DEF Enter, Ignored
  <2>3. table'[t] = Severity(status[t]) /\ \A s \in Steps \ {t} : table'[s] = table[s]
    BY <1>1, <2>2 DEF UpstreamTypeOK
  <2>5. ASSUME Tame(t) PROVE Exact(t)'
    <3>1. Promised(t) = Severity(status[t])
      BY <1>1, <2>2, <2>5, PromiseOfLeaf, TameDeps
    <3> QED BY <1>5, <2>2, <2>3, <3>1 DEF Exact
  <2> QED
    BY <1>1, <1>2, <2>1, <2>2, <2>3, <2>5, PopKeepsWalk
<1>11. CASE Update
  <2>1. PICK t : t = Top
    OBVIOUS
  <2>2. /\ stack # <<>> /\ stack' = Popped /\ t \in Steps /\ ~Ignored(t)
        /\ table[t] # NotMet
        /\ table' = IF table[t] = Placeholder /\ deps[t] # {}
                    THEN [table EXCEPT ![t] = Worst(Found(t))] ELSE table
    BY <1>1, <1>11, <2>1, StackIsSteps DEF Update, Ignored, FirstTime
  <2>3. Tame(t) /\ Waits(t) => \A d \in deps[t] : Exact(d)
    BY <2>1, <2>2, DepsOfTopExact
  <2>4. CASE table[t] = Placeholder /\ deps[t] # {}
    <3>1. Tame(t) => Waits(t)
      BY <1>1, <2>2, <2>4, TameDeps DEF WalkInv, EmptyEntries, LooksAtDeps, TakenForWaiting,
                                        Waits
    <3>2. Tame(t) => Worst(Found(t)) = Promised(t)
      BY <1>1, <1>4, <2>2, <2>3, <3>1, FoundIsPromised
    <3>3. table'[t] = Worst(Found(t)) /\ \A s \in Steps \ {t} : table'[s] = table[s]
      BY <1>1, <2>2, <2>4 DEF UpstreamTypeOK
    <3>4. Tame(t) => Exact(t)'
      BY <1>5, <2>2, <3>2, <3>3 DEF Exact
    <3> QED
      BY <1>1, <1>2, <2>1, <2>2, <2>3, <3>3, <3>4, PopKeepsWalk
  <2>5. CASE ~(table[t] = Placeholder /\ deps[t] # {})
    <3>1. table' = table /\ (Tame(t) => Exact(t))
      BY <1>4, <2>2, <2>5 DEF Walked, Finished, Unfinished, Waits
    <3>2. Tame(t) => Exact(t)'
      BY <1>5, <2>2, <3>1 DEF Exact
    <3> QED
      BY <1>1, <1>2, <2>1, <2>2, <2>3, <3>1, <3>2, PopKeepsWalk
  <2> QED
    BY <2>4, <2>5
<1> QED
  BY <1>2, <1>6, <1>7, <1>8, <1>9, <1>10, <1>11 DEF UpstreamNext, Visit, upstreamVars

\* In every graph, for every sequence of questions and every order in which the
\* dependencies are walked: when a call of _upstream_status returns, the entry of each
\* step that reaches neither a cycle nor an UNKNOWN step with dependencies is the worst
\* status among the steps that it waits for.
THEOREM EntriesAlwaysExact == UpstreamSpec => []EntriesAreExact
<1>1. UpstreamInit => WalkInv
  <2> SUFFICES ASSUME UpstreamInit PROVE WalkInv
    OBVIOUS
  <2>1. UpstreamTypeOK /\ EmptyEntries
    BY UpstreamInvInit DEF UpstreamInv
  <2>2. Walked
    BY DEF UpstreamInit, Walked
  <2> QED
    BY <2>1, <2>2 DEF WalkInv
<1>2. UpstreamInv /\ WalkInv /\ [UpstreamNext]_upstreamVars => UpstreamInv' /\ WalkInv'
  BY UpstreamInductive, NextKeepsWalk
<1>3. WalkInv => EntriesAreExact
  BY DEF WalkInv, Walked, Finished, Unfinished, Exact, EntriesAreExact
<1> QED
  BY <1>1, <1>2, <1>3, UpstreamInvInit, PTL DEF UpstreamSpec
=============================================================================
