------------------------------ MODULE MCCluster ------------------------------
(***************************************************************************)
(* Small instances of Cluster for TLC.  The configurations choose among    *)
(* the definitions below for the constants of Cluster.                     *)
(***************************************************************************)
EXTENDS Cluster, TLC

CONSTANTS w1, w2, a, b, c, d, r

WorkerSymmetry == Permutations(Workers)

\* One family, whose batches all have the runner c
Same(s) == "family"
RunnerC(batch) == IF c \in Steps THEN c ELSE a
Never(s) == FALSE
BatchMember(s) == s # c

\* batch_method = sum with the values 1, 2, 3 and 0 of a, b, c and r: the runner is c, which
\* is no member, for {a, b}, and for the batches with r it is the other member
SumRunner(batch) == IF {a, b} \subseteq batch THEN c
                    ELSE IF b \in batch THEN b ELSE a

\* batch_method = max with the values 1, 2 and 3 of a, b and c
MaxRunner(batch) == IF c \in batch THEN c ELSE IF b \in batch THEN b ELSE a
AllButD(s) == s # d
OverlappingRoots(w) == IF w = w1 THEN Steps \ {b, d} ELSE Steps \ {a}

\* Resources
LimitOne == [x \in Resources |-> 1]
LimitTwo == [x \in Resources |-> 2]
NeedNothing(s) == NoResources
NeedOne(s) == [x \in Resources |-> 1]
NeedTwoC(s) == [x \in Resources |-> IF s = c THEN 2 ELSE 1]

\* Retries and priorities
CountOne(s) == 1
CountTwo(s) == 2
Flat(s) == 0
UrgentC(s) == IF s = c THEN 1 ELSE 0

\* Dependencies
Nothing(s) == {}
ChainDeps(s) == IF s = b THEN {a} ELSE {}

\* What each worker is started with
AllRoots(w) == Steps
ChainRoots(w) == {b}
BatchRoots(w) == Steps \ {c}
SplitRoots(w) == IF w = w2 THEN {c} ELSE {a, b}
OtherRoots(w) == IF w = w2 THEN Steps \ {a, b, c} ELSE {a, b}
FirstRoots(w) == IF w = w1 THEN Steps ELSE {}
OneProcess(w) == 1
TwoProcesses(w) == 2
NoneForSecond(w) == IF w = w2 THEN 0 ELSE 1
TwoForFirst(w) == IF w = w1 THEN 2 ELSE 1
=============================================================================
