------------------------------- MODULE PidLock -------------------------------
(***************************************************************************)
(* The pid file with which processes of one command limit how many of them *)
(* run at a time (src/trun/lock.py).  The file is read, truncated and      *)
(* written without a lock; a process may end at any point.  The pid of a   *)
(* process is not used again.                                              *)
(***************************************************************************)
EXTENDS Integers, FiniteSets

CONSTANTS
    Processes,      \* the processes that run the same command, by their pids
    Killers,        \* those started with --take-lock
    NumAvailable    \* --lock-size

ASSUME LockAssumption ==
    /\ IsFiniteSet(Processes) /\ Killers \subseteq Processes
    /\ NumAvailable \in Nat \ {0}

VARIABLES
    place,      \* [Processes -> where the process is]
    file,       \* SUBSET Processes: the pids in the file
    pids,       \* [Processes -> SUBSET Processes]: the live pids it has read
    disturbed   \* two processes were between reading and writing at a time, or
                \* one ended after truncating the file

lockVars == <<place, file, pids, disturbed>>

Places == {"new", "granted", "writing", "holding", "refused", "ended"}

\* getpcmd finds the same command: the process exists
Lives(p) == place[p] \notin {"new", "ended"}

\* Between the read and the end of the write
Busy == {p \in Processes : place[p] \in {"granted", "writing"}}

Holders == {p \in Processes : place[p] = "holding"}

LockInit ==
    /\ place = [p \in Processes |-> "new"]
    /\ file = {}
    /\ pids = [p \in Processes |-> {}]
    /\ disturbed = FALSE

\* Mutant: whatever is in the file counts
AllPids == file

LivePids == {p \in file : Lives(p)}

\* Mutant: a killer is always let through
UnlessKiller(p, found) == p \in Killers \/ Cardinality(found) < NumAvailable

\* num_available, plus one for a process that tells the others to stop
Admits(p, found) ==
    Cardinality(found) < IF p \in Killers THEN NumAvailable + 1 ELSE NumAvailable

\* acquire_for, up to its decision
ReadPids(p) ==
    /\ place[p] = "new"
    /\ pids' = [pids EXCEPT ![p] = LivePids]
    /\ place' = [place EXCEPT ![p] = IF Admits(p, LivePids) THEN "granted" ELSE "refused"]
    /\ disturbed' = (disturbed \/ (Busy # {} /\ Admits(p, LivePids)))
    /\ UNCHANGED file

\* _write_pids_file opens the file for writing, which truncates it
TruncateFile(p) ==
    /\ place[p] = "granted"
    /\ place' = [place EXCEPT ![p] = "writing"]
    /\ file' = {}
    /\ UNCHANGED <<pids, disturbed>>

\* ... and writes the pids from the start of the file: what another process has
\* written since is left where it is longer
WritePids(p) ==
    LET written == pids[p] \cup {p}
    IN  /\ place[p] = "writing"
        /\ place' = [place EXCEPT ![p] = "holding"]
        /\ \E rest \in SUBSET file :
              /\ Cardinality(rest) = IF Cardinality(file) > Cardinality(written)
                                     THEN Cardinality(file) - Cardinality(written) ELSE 0
              /\ file' = written \cup rest
        /\ UNCHANGED <<pids, disturbed>>

\* The process ends, or is killed: the file is not changed
EndProcess(p) ==
    /\ place[p] \notin {"new", "ended"}
    /\ place' = [place EXCEPT ![p] = "ended"]
    /\ disturbed' = (disturbed \/ place[p] = "writing")
    /\ UNCHANGED <<file, pids>>

LockNext ==
    \E p \in Processes :
        ReadPids(p) \/ TruncateFile(p) \/ WritePids(p) \/ EndProcess(p)

LockSpec == LockInit /\ [][LockNext]_lockVars

-----------------------------------------------------------------------------
(* Properties. *)

\* The file and what processes remember of it are sets of pids.
LockTypeOK ==
    /\ place \in [Processes -> Places]
    /\ file \in SUBSET Processes
    /\ pids \in [Processes -> SUBSET Processes]
    /\ disturbed \in BOOLEAN

\* Unless two acquisitions overlapped or a process was killed while it rewrote the
\* file, no more processes hold the lock than there are places, and one killer more,
\* however many have ended and however they did.
LimitKept ==
    ~disturbed => Cardinality(Holders) <=
                      IF Killers = {} THEN NumAvailable ELSE NumAvailable + 1

\* acquire_for returns False only to a process that finds all places held by others
\* that still run, even after overlaps: nothing a dead process left in the file keeps
\* the lock.
RefusalsAreJustified ==
    [][\A p \in Processes : place[p] # "refused" /\ place'[p] = "refused" =>
           Cardinality(Holders) >= NumAvailable]_lockVars
=============================================================================
