---------------------------- MODULE UpstreamStatus ----------------------------
(***************************************************************************)
(* Scheduler._upstream_status (src/trun/scheduler.py): why a step that     *)
(* waits has to wait.  The code walks the dependencies with a stack of its *)
(* own and a table in which every step is entered when it is met and       *)
(* updated when it is met again; count_pending and step_list ask for many  *)
(* steps with one table.  The graph and the statuses do not change         *)
(* meanwhile, as the server handles one call at a time.                    *)
(***************************************************************************)
EXTENDS Integers, Sequences, FiniteSets

CONSTANTS
    Steps,
    Statuses        \* the statuses that occur

Absent == "ABSENT"  \* not in the table of steps

ASSUME UpstreamAssumption ==
    /\ IsFiniteSet(Steps)
    /\ Statuses \subseteq {"PENDING", "RUNNING", "BATCH_RUNNING", "FAILED", "DISABLED",
                           "DONE", "UNKNOWN", Absent}

VARIABLES
    status,         \* [Steps -> Statuses]
    deps,           \* [Steps -> SUBSET Steps]: Step.deps
    table,          \* [Steps -> Severities or NotMet]: upstream_status_table
    stack           \* Seq of steps: step_stack, its top last

upstreamVars == <<status, deps, table, stack>>

\* The positions of UPSTREAM_SEVERITY_ORDER: '', running, missing input, failed,
\* disabled
Severities == 0..4
NotMet == -1

\* STATUS_TO_UPSTREAM_MAP
Severity(st) ==
    CASE st \in {"RUNNING", "BATCH_RUNNING"} -> 1
      [] st = "PENDING" -> 2
      [] st = "FAILED" -> 3
      [] st = "DISABLED" -> 4
      [] OTHER -> 0

\* A step that waits for its dependencies is met twice on the walk
Waits(s) == status[s] = "PENDING" /\ deps[s] # {}

\* A step that nobody wants to run is entered as '', which is also the placeholder
\* of a step that waits: it is taken for one if it is met again
TakenForWaiting(s) == status[s] = "UNKNOWN" /\ deps[s] # {}

LooksAtDeps(s) == Waits(s) \/ TakenForWaiting(s)

\* A set of steps that holds the dependencies which may be looked at
Closed(C) == \A s \in C : LooksAtDeps(s) => deps[s] \subseteq C

\* The steps that can be reached from s: the smallest closed set around it
Reachable(s) ==
    CHOOSE C \in SUBSET Steps :
        /\ s \in C /\ Closed(C)
        /\ \A D \in SUBSET Steps : s \in D /\ Closed(D) => C \subseteq D

\* Any graph, with cycles too.  The dependencies of a step that is neither PENDING nor
\* UNKNOWN are not looked at, whatever they are: such steps are given none.
UpstreamInit ==
    /\ status \in [Steps -> Statuses]
    /\ deps \in [Steps -> SUBSET Steps]
    /\ \A s \in Steps : deps[s] # {} => LooksAtDeps(s)
    /\ table = [s \in Steps |-> NotMet]
    /\ stack = <<>>

-----------------------------------------------------------------------------
\* The dependencies of a step in some order
Orders(S) ==
    {q \in [1..Cardinality(S) -> S] : \A i, j \in DOMAIN q : q[i] = q[j] => i = j}

Top == stack[Len(stack)]

Popped == SubSeq(stack, 1, Len(stack) - 1)

\* _upstream_status is called for a step that is not in the table yet
Ask(s) ==
    /\ stack = <<>> /\ table[s] = NotMet
    /\ status[s] \notin {"DONE", Absent}
    /\ stack' = <<s>>
    /\ UNCHANGED <<status, deps, table>>

\* Mutant: a step that waits counts as one without input for the time being
Missing == Severity("PENDING")

\* The entry of a step that waits, until its dependencies are known
Placeholder == 0

\* A step that is done or gone does not matter
Ignore ==
    /\ stack # <<>> /\ status[Top] \in {"DONE", Absent}
    /\ stack' = Popped
    /\ UNCHANGED <<status, deps, table>>

\* Mutant: whether the step has been met is not looked at
AnyTime(s) == TRUE

FirstTime(s) == table[s] = NotMet

\* A step that waits is met for the first time: it will be looked at again after
\* its dependencies
Descend ==
    /\ stack # <<>> /\ status[Top] \notin {"DONE", Absent}
    /\ FirstTime(Top) /\ Waits(Top)
    /\ \E order \in Orders(deps[Top]) : stack' = stack \o order
    /\ table' = [table EXCEPT ![Top] = Placeholder]
    /\ UNCHANGED <<status, deps>>

\* Another step is met for the first time
Enter ==
    /\ stack # <<>> /\ status[Top] \notin {"DONE", Absent}
    /\ FirstTime(Top) /\ ~Waits(Top)
    /\ stack' = Popped
    /\ table' = [table EXCEPT ![Top] = Severity(status[Top])]
    /\ UNCHANGED <<status, deps>>

\* What the table says of the dependencies of s; '' where it says nothing
Found(s) == {IF table[d] = NotMet THEN 0 ELSE table[d] : d \in deps[s]}

\* Mutant: the mildest is taken
Mildest(S) == CHOOSE v \in S : \A u \in S : v <= u

Worst(S) == CHOOSE v \in S : \A u \in S : u <= v

\* A step is met again: if nothing is known of it, it is updated
Update ==
    /\ stack # <<>> /\ status[Top] \notin {"DONE", Absent}
    /\ ~FirstTime(Top)
    /\ stack' = Popped
    /\ table' = IF table[Top] = Placeholder /\ deps[Top] # {}
                THEN [table EXCEPT ![Top] = Worst(Found(Top))] ELSE table
    /\ UNCHANGED <<status, deps>>

Visit == Ignore \/ Descend \/ Enter \/ Update

UpstreamNext == (\E s \in Steps : Ask(s)) \/ Visit

UpstreamSpec == UpstreamInit /\ [][UpstreamNext]_upstreamVars

\* The loop of _upstream_status is not interrupted
FairUpstreamSpec == UpstreamSpec /\ WF_upstreamVars(Visit)

-----------------------------------------------------------------------------
(* Properties. *)

\* The table holds positions of UPSTREAM_SEVERITY_ORDER, the stack holds steps.
UpstreamTypeOK ==
    /\ status \in [Steps -> Statuses]
    /\ deps \in [Steps -> SUBSET Steps]
    /\ table \in [Steps -> Severities \cup {NotMet}]
    /\ stack \in Seq(Steps)

\* Nothing is invented, in cyclic graphs either and at any moment of the walk: what
\* the table says of a step is the status of some step it really depends on, that
\* is, one in every closed set around it.
NothingInvented ==
    \A C \in SUBSET Steps : Closed(C) =>
        \A s \in C : table[s] > 0 =>
            \E t \in C : ~Waits(t) /\ table[s] = Severity(status[t])

\* What _upstream_status promises: the worst status among the steps that s waits for.
Promised(s) ==
    LET causes == {Severity(status[t]) : t \in {u \in Reachable(s) : ~Waits(u)}}
    IN  CHOOSE v \in causes \cup {0} : \A u \in causes : u <= v

\* From s neither a cycle nor a step that is taken for a waiting one can be reached.
Tame(s) ==
    \A t \in Reachable(s) : ~TakenForWaiting(t) /\ \A d \in deps[t] : t \notin Reachable(d)

\* When a call returns, the entry of every such step is exact, also if it was made on
\* the way or by an earlier call, and whatever the rest of the graph looks like.  (The
\* entry of a step that depends on an UNKNOWN one with dependencies varies with the
\* order in which _upstream_status is asked and walks, without any cycle.)
EntriesAreExact ==
    stack = <<>> =>
        \A s \in Steps : table[s] # NotMet /\ Tame(s) => table[s] = Promised(s)

\* The walk ends, in cyclic graphs too.
WalkEnds == stack # <<>> ~> stack = <<>>
=============================================================================
