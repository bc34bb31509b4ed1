---------------------------- MODULE PidLockProofs ----------------------------
(***************************************************************************)
(* LimitKept and RefusalsAreJustified hold of PidLock for every number of  *)
(* processes, killers and places.                                          *)
(***************************************************************************)
EXTENDS PidLock, FiniteSetTheorems, TLAPS

Limit == IF Killers = {} THEN NumAvailable ELSE NumAvailable + 1

\* What is written anywhere is the pid of a process that got the lock.
OnlyHolders ==
    /\ \A p \in file : place[p] \in {"holding", "ended"}
    /\ \A p \in Processes : \A q \in pids[p] : place[q] \in {"holding", "ended"}

\* While acquisitions do not overlap, one process is busy at a time and knows all
\* that hold the lock, and so does the file unless it is being written.
OneAtATime ==
    /\ \A p, q \in Busy : p = q
    /\ \A p \in Busy : Holders \subseteq pids[p] /\ Cardinality(pids[p]) < Limit
    /\ (\A p \in Processes : place[p] # "writing") => Holders \subseteq file
    /\ Cardinality(Holders) <= Limit

LockInv == LockTypeOK /\ OnlyHolders /\ (~disturbed => OneAtATime)

\* A set of processes has a cardinality, and a subset has no greater one.
LEMMA Sizes ==
    ASSUME NEW S \in SUBSET Processes, NEW T \in SUBSET S
    PROVE  /\ IsFiniteSet(S) /\ IsFiniteSet(T)
           /\ Cardinality(S) \in Nat /\ Cardinality(T) \in Nat
           /\ Cardinality(T) <= Cardinality(S)
BY FS_Subset, FS_CardinalityType, LockAssumption

\* Whoever is admitted has found fewer live processes than the limit.
LEMMA AdmitsBelowLimit ==
    ASSUME NEW p \in Processes, NEW found \in SUBSET Processes, Admits(p, found)
    PROVE  Cardinality(found) < Limit
<1>1. Cardinality(found) \in Nat
  BY Sizes
<1>2. p \in Killers => Killers # {}
  OBVIOUS
<1> QED
  BY <1>1, <1>2, LockAssumption DEF Admits, Limit

\* The invariant holds at the start.
LEMMA LockInvInit == LockInit => LockInv
<1> SUFFICES ASSUME LockInit PROVE LockInv
  OBVIOUS
<1>1. Holders = {} /\ Busy = {}
  BY DEF LockInit, Holders, Busy
<1>2. Cardinality(Holders) <= Limit
  BY <1>1, FS_EmptySet, LockAssumption DEF Limit
<1> QED
  BY <1>1, <1>2 DEF LockInit, LockInv, LockTypeOK, OnlyHolders, OneAtATime, Places

\* Reading the file and deciding keeps the invariant.
LEMMA ReadPidsKeepsInv ==
    ASSUME LockInv, NEW p \in Processes, ReadPids(p)
    PROVE  LockInv'
<1> USE DEF LockInv, LockTypeOK
<1>1. LivePids \in SUBSET Processes /\ LivePids \subseteq file
  BY DEF LivePids
<1>2. LockTypeOK'
  BY <1>1, Zenon DEF ReadPids, Places
<1>3. place'[p] \in {"granted", "refused"} /\ \A q \in Processes \ {p} : place'[q] = place[q]
  BY DEF ReadPids
<1>4. OnlyHolders'
  BY <1>1, <1>3 DEF ReadPids, OnlyHolders
<1>5. Holders' = Holders
  BY <1>3 DEF Holders, ReadPids
<1>6. ASSUME ~disturbed' PROVE OneAtATime'
  <2>1. ~disturbed /\ OneAtATime
    BY <1>6 DEF ReadPids
  <2>2. CASE Admits(p, LivePids)
    <3>1. Busy = {} /\ Busy' = {p}
      BY <1>6, <1>3, <2>2 DEF ReadPids, Busy
    <3>2. Holders \subseteq LivePids
      BY <2>1, <3>1 DEF OneAtATime, Busy, LivePids, Lives, Holders
    <3>3. pids'[p] = LivePids /\ Cardinality(LivePids) < Limit
      BY <1>1, <2>2, AdmitsBelowLimit DEF ReadPids
    <3>4. Holders \subseteq file
      BY <1>1, <3>2
    <3> QED
      BY <1>5, <2>1, <3>1, <3>2, <3>3, <3>4 DEF OneAtATime, ReadPids
  <2>3. CASE ~Admits(p, LivePids)
    <3>1. Busy' = Busy /\ p \notin Busy
      BY <1>3, <2>3 DEF ReadPids, Busy
    <3>2. \A q \in Busy : pids'[q] = pids[q]
      BY <3>1 DEF ReadPids, Busy
    <3>3. (\A q \in Processes : place'[q] # "writing") => \A q \in Processes : place[q] # "writing"
      BY <1>3 DEF ReadPids
    <3> QED
      BY <1>5, <2>1, <3>1, <3>2, <3>3 DEF OneAtATime, ReadPids
  <2> QED
    BY <2>2, <2>3
<1> QED
  BY <1>2, <1>4, <1>6

\* Truncating the file keeps the invariant: its writer knows the holders.
LEMMA TruncateFileKeepsInv ==
    ASSUME LockInv, NEW p \in Processes, TruncateFile(p)
    PROVE  LockInv'
<1> USE DEF LockInv, LockTypeOK
<1>1. place'[p] = "writing" /\ \A q \in Processes \ {p} : place'[q] = place[q]
  BY DEF TruncateFile
<1>2. LockTypeOK' /\ OnlyHolders'
  BY <1>1 DEF TruncateFile, OnlyHolders, Places
<1>3. Holders' = Holders /\ Busy' = Busy
  BY <1>1 DEF TruncateFile, Holders, Busy
<1>4. ~disturbed' => OneAtATime'
  BY <1>1, <1>3 DEF TruncateFile, OneAtATime
<1> QED
  BY <1>2, <1>4

\* Writing the file keeps the invariant: the writer becomes a holder.
LEMMA WritePidsKeepsInv ==
    ASSUME LockInv, NEW p \in Processes, WritePids(p)
    PROVE  LockInv'
<1> USE DEF LockInv, LockTypeOK
<1>1. place'[p] = "holding" /\ \A q \in Processes \ {p} : place'[q] = place[q]
  BY DEF WritePids
<1>2. PICK rest \in SUBSET file : file' = (pids[p] \cup {p}) \cup rest
  BY DEF WritePids
<1>3. LockTypeOK'
  BY <1>2 DEF WritePids, Places
<1>4. OnlyHolders'
  BY <1>1, <1>2 DEF WritePids, OnlyHolders
<1>5. Holders' = Holders \cup {p} /\ p \notin Holders
  BY <1>1 DEF WritePids, Holders
<1>6. ASSUME ~disturbed' PROVE OneAtATime'
  <2>1. OneAtATime /\ p \in Busy
    BY <1>6 DEF WritePids, Busy
  <2>2. Busy' = {}
    BY <1>1, <2>1 DEF OneAtATime, Busy
  <2>3. Holders' \subseteq file'
    BY <1>2, <1>5, <2>1 DEF OneAtATime
  <2>4. Cardinality(Holders') <= Limit
    <3>1. /\ IsFiniteSet(Holders) /\ Cardinality(Holders) \in Nat
          /\ Cardinality(pids[p]) \in Nat /\ Cardinality(Holders) <= Cardinality(pids[p])
      BY <2>1, Sizes DEF OneAtATime
    <3>2. Cardinality(Holders \cup {p}) = Cardinality(Holders) + 1
      BY <1>5, <3>1, FS_AddElement
    <3> QED
      BY <1>5, <2>1, <3>1, <3>2, LockAssumption DEF OneAtATime, Limit
  <2> QED
    BY <2>2, <2>3, <2>4 DEF OneAtATime
<1> QED
  BY <1>3, <1>4, <1>6

\* The end of a process keeps the invariant, wherever it was.
LEMMA EndProcessKeepsInv ==
    ASSUME LockInv, NEW p \in Processes, EndProcess(p)
    PROVE  LockInv'
<1> USE DEF LockInv, LockTypeOK
<1>1. place'[p] = "ended" /\ \A q \in Processes \ {p} : place'[q] = place[q]
  BY DEF EndProcess
<1>2. LockTypeOK' /\ OnlyHolders'
  BY <1>1 DEF EndProcess, OnlyHolders, Places
<1>3. Holders' \subseteq Holders /\ Busy' \subseteq Busy
  BY <1>1 DEF EndProcess, Holders, Busy
<1>4. ASSUME ~disturbed' PROVE OneAtATime'
  <2>1. OneAtATime /\ place[p] # "writing"
    BY <1>4 DEF EndProcess
  <2>2. (\A q \in Processes : place'[q] # "writing") => \A q \in Processes : place[q] # "writing"
    BY <1>1, <2>1
  <2>3. Cardinality(Holders') <= Limit
    <3>1. /\ Cardinality(Holders) \in Nat /\ Cardinality(Holders') \in Nat
          /\ Cardinality(Holders') <= Cardinality(Holders)
      BY <1>3, Sizes DEF Holders
    <3> QED
      BY <2>1, <3>1, LockAssumption DEF OneAtATime, Limit
  <2> QED
    BY <1>3, <2>1, <2>2, <2>3 DEF EndProcess, OneAtATime
<1> QED
  BY <1>2, <1>4

\* The invariant holds in every reachable state of the pid file and its users.
THEOREM LockInductive == LockSpec => []LockInv
<1>1. LockInv /\ [LockNext]_lockVars => LockInv'
  <2> SUFFICES ASSUME LockInv, [LockNext]_lockVars PROVE LockInv'
    OBVIOUS
  <2>1. CASE UNCHANGED lockVars
    BY <2>1 DEF lockVars, LockInv, LockTypeOK, OnlyHolders, OneAtATime, Busy, Holders
  <2>2. CASE LockNext
    BY <2>2, ReadPidsKeepsInv, TruncateFileKeepsInv, WritePidsKeepsInv,
       EndProcessKeepsInv DEF LockNext
  <2> QED
    BY <2>1, <2>2
<1> QED
  BY <1>1, LockInvInit, PTL DEF LockSpec

\* For every number of processes, places and killers: unless acquisitions overlapped
\* or one was killed while it rewrote the file, the limit of acquire_for holds.
THEOREM LimitAlwaysKept == LockSpec => []LimitKept
<1>1. LockInv => LimitKept
  BY DEF LockInv, OneAtATime, LimitKept, Limit
<1> QED
  BY <1>1, LockInductive, PTL

\* For every number of processes: acquire_for returns False only if that many live
\* processes hold the lock.
THEOREM RefusalsAlwaysJustified == LockSpec => RefusalsAreJustified
<1> DEFINE Justified ==
        \A p \in Processes : place[p] # "refused" /\ place'[p] = "refused" =>
            Cardinality(Holders) >= NumAvailable
<1>1. LockInv /\ [LockNext]_lockVars => [Justified]_lockVars
  <2> SUFFICES ASSUME LockInv, LockNext, NEW p \in Processes,
                      place[p] # "refused", place'[p] = "refused"
               PROVE  Cardinality(Holders) >= NumAvailable
    BY DEF lockVars
  <2>1. ReadPids(p) /\ ~Admits(p, LivePids)
    BY DEF LockNext, ReadPids, TruncateFile, WritePids, EndProcess, LockInv, LockTypeOK
  <2>2. LivePids \subseteq Holders
    BY DEF LockInv, OnlyHolders, LockTypeOK, LivePids, Lives, Holders
  <2>3. /\ Cardinality(Holders) \in Nat /\ Cardinality(LivePids) \in Nat
        /\ Cardinality(LivePids) <= Cardinality(Holders)
    BY <2>2, Sizes DEF Holders
  <2> QED
    BY <2>1, <2>3, LockAssumption DEF Admits
<1>2. LockSpec => [][Justified]_lockVars
  BY <1>1, LockInductive, PTL DEF LockSpec
<1> QED
  BY <1>2 DEF RefusalsAreJustified
=============================================================================
