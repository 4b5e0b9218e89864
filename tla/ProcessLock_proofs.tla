-------------------------- MODULE ProcessLock_proofs --------------------------
(***************************************************************************)
(* What holds of the start-up lock for every set of processes and files.   *)
(* LockInv ties each flock to the one process that took it, whatever       *)
(* failures, releases, inspections, ends and crashes there are; SameFile   *)
(* says in addition that a lock file nobody unlinks is the only file a     *)
(* process ever opens.                                                     *)
(***************************************************************************)
EXTENDS ProcessLock, TLAPS

\* The flocks are owned, and a process that is about to lock has a file to lock.
LockInv ==
  /\ LocksAreOwned
  /\ \A p \in Procs : pc[p] \in Locking \cup {"opened", "probe"}
                        => file[p] \in Inodes

\* Between truncate() and the write the file is empty.
EmptyWhenTruncated ==
  \A p \in Procs : pc[p] = "truncated" => content[file[p]] = None

\* Only a starting or running instance has emptied a file.
EmptiedBelongs ==
  \A p \in Procs : emptied[p] => pc[p] \in {"truncated", "holding"}

PidInv == EmptyWhenTruncated /\ EmptiedBelongs /\ PidFileNamesHolder

\* The lock file is never replaced when nobody releases or inspects it.
SameFile ==
  /\ \A p \in Procs : file[p] # None => file[p] = path
  /\ \A p \in Procs :
       pc[p] \notin {"released", "looked", "probe", "probing", "judging"}

-----------------------------------------------------------------------------

\* Every step keeps every variable in its type.
LEMMA TypeStep == TypeOK /\ [Next]_vars => TypeOK'
<1> SUFFICES ASSUME TypeOK, [Next]_vars PROVE TypeOK'
  OBVIOUS
<1> USE NoneAssumption, CrashesAssumption DEF TypeOK, Locking, Goto, fs
<1>1. ASSUME NEW p \in Procs, Open(p) PROVE TypeOK'
  BY <1>1 DEF Open, Outside, Unused
<1>2. ASSUME NEW p \in Procs, Lock(p) PROVE TypeOK'
  BY <1>2 DEF Lock
<1>3. ASSUME NEW p \in Procs, Refuse(p) \/ OpenFails(p) PROVE TypeOK'
  BY <1>3 DEF Refuse, OpenFails, Outside
<1>4. ASSUME NEW p \in Procs, Truncate(p) \/ TruncateFails(p) PROVE TypeOK'
  BY <1>4 DEF Truncate, TruncateFails
<1>5. ASSUME NEW p \in Procs, WritePid(p) PROVE TypeOK'
  BY <1>5 DEF WritePid
<1>6. ASSUME NEW p \in Procs, Unlock(p) PROVE TypeOK'
  BY <1>6 DEF Unlock
<1>7. ASSUME NEW p \in Procs, Unlink(p) PROVE TypeOK'
  BY <1>7 DEF Unlink
<1>8. ASSUME NEW p \in Procs, Look(p) PROVE TypeOK'
  BY <1>8 DEF Look, Leave, Outside
<1>9. ASSUME NEW p \in Procs, OpenProbe(p) PROVE TypeOK'
  BY <1>9 DEF OpenProbe
<1>10. ASSUME NEW p \in Procs, Probe(p) PROVE TypeOK'
  BY <1>10 DEF Probe
<1>11. ASSUME NEW p \in Procs, ReportRunning(p) PROVE TypeOK'
  BY <1>11 DEF ReportRunning, Leave
<1>12. ASSUME NEW p \in Procs, ProbeUnlock(p) PROVE TypeOK'
  BY <1>12 DEF ProbeUnlock
<1>13. ASSUME NEW p \in Procs, RemoveStale(p) PROVE TypeOK'
  BY <1>13 DEF RemoveStale, Leave
<1>14. ASSUME NEW p \in Procs, Crash(p) PROVE TypeOK'
  BY <1>14 DEF Crash, Die
<1>15. ASSUME NEW p \in Procs, End(p) PROVE TypeOK'
  BY <1>15 DEF End, Die, Outside
<1>16. CASE UNCHANGED vars
  BY <1>16 DEF vars
<1> QED
  BY <1>1, <1>2, <1>3, <1>4, <1>5, <1>6, <1>7, <1>8, <1>9, <1>10, <1>11, <1>12,
     <1>13, <1>14, <1>15, <1>16
  DEF Next, Acquiring, Freeing, Inspection

\* Every reachable state is well typed.
THEOREM LockTypeCorrect == Spec => []TypeOK
<1>1. Init => TypeOK
  BY CrashesAssumption DEF Init, TypeOK
<1> QED
  BY <1>1, TypeStep, PTL DEF Spec

-----------------------------------------------------------------------------

\* Only Lock and Probe give a flock, and only a free one; only its holder's
\* Unlock, ProbeUnlock or death takes it away.
LEMMA LockStep == TypeOK /\ LockInv /\ [Next]_vars => LockInv'
<1> SUFFICES ASSUME TypeOK, LockInv, [Next]_vars PROVE LockInv'
  OBVIOUS
<1> USE NoneAssumption DEF TypeOK, LockInv, LocksAreOwned, Locking, Goto, fs
<1>1. ASSUME NEW p \in Procs, Open(p) PROVE LockInv'
  BY <1>1 DEF Open, Outside, Unused
<1>2. ASSUME NEW p \in Procs, Lock(p) PROVE LockInv'
  BY <1>2 DEF Lock
<1>3. ASSUME NEW p \in Procs, Refuse(p) \/ OpenFails(p) PROVE LockInv'
  BY <1>3 DEF Refuse, OpenFails, Outside
<1>4. ASSUME NEW p \in Procs, Truncate(p) \/ TruncateFails(p) PROVE LockInv'
  BY <1>4 DEF Truncate, TruncateFails
<1>5. ASSUME NEW p \in Procs, WritePid(p) PROVE LockInv'
  BY <1>5 DEF WritePid
<1>6. ASSUME NEW p \in Procs, Unlock(p) PROVE LockInv'
  BY <1>6 DEF Unlock
<1>7. ASSUME NEW p \in Procs, Unlink(p) PROVE LockInv'
  BY <1>7 DEF Unlink
<1>8. ASSUME NEW p \in Procs, Look(p) PROVE LockInv'
  BY <1>8 DEF Look, Leave, Outside
<1>9. ASSUME NEW p \in Procs, OpenProbe(p) PROVE LockInv'
  BY <1>9 DEF OpenProbe
<1>10. ASSUME NEW p \in Procs, Probe(p) PROVE LockInv'
  BY <1>10 DEF Probe
<1>11. ASSUME NEW p \in Procs, ReportRunning(p) PROVE LockInv'
  BY <1>11 DEF ReportRunning, Leave
<1>12. ASSUME NEW p \in Procs, ProbeUnlock(p) PROVE LockInv'
  BY <1>12 DEF ProbeUnlock
<1>13. ASSUME NEW p \in Procs, RemoveStale(p) PROVE LockInv'
  BY <1>13 DEF RemoveStale, Leave
<1>14. ASSUME NEW p \in Procs, Crash(p) PROVE LockInv'
  BY <1>14 DEF Crash, Die
<1>15. ASSUME NEW p \in Procs, End(p) PROVE LockInv'
  BY <1>15 DEF End, Die, Outside
<1>16. CASE UNCHANGED vars
  BY <1>16 DEF vars
<1> QED
  BY <1>1, <1>2, <1>3, <1>4, <1>5, <1>6, <1>7, <1>8, <1>9, <1>10, <1>11, <1>12,
     <1>13, <1>14, <1>15, <1>16
  DEF Next, Acquiring, Freeing, Inspection

\* Two processes never have the flock of the same file.
LEMMA HoldersDiffer ==
  ASSUME LockInv, NEW p \in Procs, NEW q \in Procs,
         pc[p] \in Locking, pc[q] \in Locking, file[p] = file[q]
  PROVE  p = q
  BY DEF LockInv, LocksAreOwned

\* The file of a locking process is written by that process alone.
LEMMA ContentKept ==
  ASSUME TypeOK, LockInv, [Next]_vars, NEW p \in Procs, pc[p] \in Starting,
         ~Truncate(p), ~WritePid(p)
  PROVE  content'[file[p]] = content[file[p]]
<1> USE DEF TypeOK, Goto, fs
<1>0. pc[p] \in Locking /\ file[p] \in Inodes
  BY DEF LockInv, Starting, Locking
<1>1. ASSUME NEW q \in Procs, Open(q) PROVE content'[file[p]] = content[file[p]]
  BY <1>0, <1>1 DEF Open, Unused
<1>2. ASSUME NEW q \in Procs, Truncate(q) PROVE content'[file[p]] = content[file[p]]
  <2>1. pc[q] \in Locking /\ p # q
    BY <1>2 DEF Truncate, Locking
  <2>2. file[q] # file[p]
    BY <1>0, <2>1, HoldersDiffer
  <2> QED BY <1>0, <1>2, <2>2 DEF Truncate
<1>3. ASSUME NEW q \in Procs, WritePid(q) PROVE content'[file[p]] = content[file[p]]
  <2>1. pc[q] \in Locking /\ p # q
    BY <1>3 DEF WritePid, Locking
  <2>2. file[q] # file[p]
    BY <1>0, <2>1, HoldersDiffer
  <2> QED BY <1>0, <1>3, <2>2 DEF WritePid
<1>4. ASSUME NEW q \in Procs,
             \/ OpenFails(q) \/ Lock(q) \/ Refuse(q) \/ TruncateFails(q)
             \/ Freeing(q) \/ Inspection(q) \/ Crash(q) \/ End(q)
      PROVE  UNCHANGED content
  BY <1>4 DEF OpenFails, Lock, Refuse, TruncateFails, Freeing, Unlock, Unlink, Inspection, Look, OpenProbe,
              Probe, ReportRunning, ProbeUnlock, RemoveStale, Crash, End, Die
<1>5. CASE UNCHANGED vars
  BY <1>5 DEF vars
<1> QED
  BY <1>1, <1>2, <1>3, <1>4, <1>5 DEF Next, Acquiring

\* What a step does to a process that is or becomes truncated or holding.
LEMMA StartingStep ==
  ASSUME TypeOK, LockInv, [Next]_vars, NEW p \in Procs,
         pc'[p] \in {"truncated", "holding"}
  PROVE  \/ Truncate(p)
         \/ TruncateFails(p)
         \/ WritePid(p)
         \/ /\ ~Truncate(p) /\ ~WritePid(p)
            /\ pc'[p] = pc[p] /\ file'[p] = file[p] /\ emptied'[p] = emptied[p]
<1> DEFINE Same == pc'[p] = pc[p] /\ file'[p] = file[p] /\ emptied'[p] = emptied[p]
<1> USE DEF TypeOK, Goto
<1>1. ASSUME NEW q \in Procs, q = p, Next,
             \/ Open(q) \/ OpenFails(q) \/ Lock(q) \/ Refuse(q) \/ Freeing(q)
             \/ Inspection(q) \/ Crash(q) \/ End(q)
      PROVE  FALSE
  BY <1>1 DEF Open, OpenFails, Lock, Refuse, Freeing, Unlock, Unlink, Inspection,
       Look, OpenProbe, Probe, ReportRunning, ProbeUnlock, RemoveStale, Leave,
       Crash, End, Die
<1>2. ASSUME NEW q \in Procs, q # p, Acquiring(q) PROVE Same
  BY <1>2 DEF Acquiring, Open, OpenFails, Lock, Refuse, Truncate, TruncateFails,
       WritePid
<1>3. ASSUME NEW q \in Procs, q # p, Freeing(q) \/ Inspection(q) PROVE Same
  BY <1>3 DEF Freeing, Unlock, Unlink, Inspection, Look, OpenProbe, Probe,
       ReportRunning, ProbeUnlock, RemoveStale, Leave
<1>4. ASSUME NEW q \in Procs, q # p, Crash(q) \/ End(q) PROVE Same
  BY <1>4 DEF Crash, End, Die
<1>5. CASE UNCHANGED vars
  BY <1>5 DEF vars
<1> QED
  BY <1>1, <1>2, <1>3, <1>4, <1>5 DEF Next, Acquiring

\* Whoever has emptied the file holds its flock.
LEMMA EmptiedStep == TypeOK /\ EmptiedBelongs /\ [Next]_vars => EmptiedBelongs'
<1> SUFFICES ASSUME TypeOK, EmptiedBelongs, [Next]_vars PROVE EmptiedBelongs'
  OBVIOUS
<1> USE DEF TypeOK, EmptiedBelongs, Goto, Outside
<1>1. ASSUME NEW p \in Procs, Acquiring(p) PROVE EmptiedBelongs'
  BY <1>1 DEF Acquiring, Open, OpenFails, Lock, Refuse, Truncate, TruncateFails,
       WritePid
<1>2. ASSUME NEW p \in Procs, Freeing(p) PROVE EmptiedBelongs'
  BY <1>2 DEF Freeing, Unlock, Unlink
<1>3. ASSUME NEW p \in Procs, Inspection(p) PROVE EmptiedBelongs'
  BY <1>3 DEF Inspection, Look, OpenProbe, Probe, ReportRunning, ProbeUnlock,
       RemoveStale, Leave
<1>4. ASSUME NEW p \in Procs, Crash(p) \/ End(p) PROVE EmptiedBelongs'
  BY <1>4 DEF Crash, End, Die
<1>5. CASE UNCHANGED vars
  BY <1>5 DEF vars
<1> QED
  BY <1>1, <1>2, <1>3, <1>4, <1>5 DEF Next

\* Every step keeps the PID that of the holder that emptied the file.
LEMMA PidStep == TypeOK /\ LockInv /\ PidInv /\ [Next]_vars => PidInv'
<1> SUFFICES ASSUME TypeOK, LockInv, PidInv, [Next]_vars,
                    NEW p \in Procs, pc'[p] \in {"truncated", "holding"}
             PROVE  /\ pc'[p] = "truncated" => content'[file'[p]] = None
                    /\ pc'[p] = "holding" /\ emptied'[p]
                         => content'[file'[p]] \in {p, None}
  BY EmptiedStep DEF PidInv, EmptyWhenTruncated, PidFileNamesHolder
<1>1. CASE Truncate(p)
  BY <1>1 DEF Truncate, Goto, TypeOK, LockInv, Locking
<1>2. CASE TruncateFails(p)
  BY <1>2 DEF TruncateFails, Goto, TypeOK, PidInv, EmptiedBelongs
<1>3. CASE WritePid(p)
  BY <1>3 DEF WritePid, Goto, TypeOK, LockInv, Locking, PidInv, EmptyWhenTruncated
<1>4. CASE /\ ~Truncate(p) /\ ~WritePid(p)
           /\ pc'[p] = pc[p] /\ file'[p] = file[p] /\ emptied'[p] = emptied[p]
  <2>1. content'[file[p]] = content[file[p]]
    BY <1>4, ContentKept DEF Starting
  <2> QED
    BY <1>4, <2>1 DEF PidInv, EmptyWhenTruncated, PidFileNamesHolder
<1> QED
  BY <1>1, <1>2, <1>3, <1>4, StartingStep

\* The invariant holds always.
LEMMA LockInductive == Spec => [](TypeOK /\ LockInv /\ PidInv)
<1>1. Init => LockInv /\ PidInv
  BY NoneAssumption DEF Init, LockInv, LocksAreOwned, Locking, PidInv,
     EmptyWhenTruncated, EmptiedBelongs, PidFileNamesHolder
<1>2. Init => TypeOK
  BY CrashesAssumption DEF Init, TypeOK
<1> QED
  BY <1>1, <1>2, TypeStep, LockStep, PidStep, PTL DEF Spec

\* The PID in the file of a running instance that could empty it is its own or
\* missing, whatever releases, inspections, ends and crashes there are.
THEOREM PidFileCorrect == Spec => []PidFileNamesHolder
<1>1. PidInv => PidFileNamesHolder
  BY DEF PidInv
<1> QED
  BY <1>1, LockInductive, PTL

\* Nobody overwrites the PID of a running instance.
THEOREM PidFileStays == Spec => PidFileKept
<1>1. TypeOK /\ LockInv /\ [Next]_vars =>
        [\A p \in Procs : pc[p] = "holding" /\ pc'[p] = "holding"
           => content'[file[p]] = content[file[p]]]_vars
  <2> SUFFICES ASSUME TypeOK, LockInv, [Next]_vars, NEW p \in Procs,
                      pc[p] = "holding"
               PROVE  content'[file[p]] = content[file[p]]
    OBVIOUS
  <2>1. ~Truncate(p) /\ ~WritePid(p)
    BY DEF Truncate, WritePid
  <2> QED
    BY <2>1, ContentKept DEF Starting
<1> QED
  BY <1>1, LockInductive, PTL DEF Spec, PidFileKept

\* A flock is held exactly by whoever is in a locked section: none is freed under
\* an instance, and none is left behind by a refusal, a probe, an end or a crash.
THEOREM LocksOwned == Spec => []LocksAreOwned
<1>1. LockInv => LocksAreOwned
  BY DEF LockInv
<1> QED
  BY <1>1, LockInductive, PTL

\* Two running instances never share a lock file.
THEOREM FilePerInstance == Spec => []OneInstancePerFile
<1>1. LockInv => OneInstancePerFile
  BY HoldersDiffer DEF OneInstancePerFile, Starting, Locking
<1> QED
  BY <1>1, LockInductive, PTL

-----------------------------------------------------------------------------

\* The name of the lock file, once given, stays, so every process opens the same
\* file.
LEMMA KeptStep ==
  ASSUME ~Releasing, ~Inspecting
  PROVE  TypeOK /\ SameFile /\ [Next]_vars => SameFile'
<1> SUFFICES ASSUME TypeOK, SameFile, [Next]_vars PROVE SameFile'
  OBVIOUS
<1> USE NoneAssumption DEF TypeOK, SameFile, Goto, fs, Outside
<1>1. ASSUME NEW p \in Procs, Open(p) PROVE SameFile'
  BY <1>1 DEF Open
<1>2. ASSUME NEW p \in Procs,
             \/ OpenFails(p) \/ Lock(p) \/ Refuse(p)
             \/ Truncate(p) \/ TruncateFails(p) \/ WritePid(p)
      PROVE  SameFile'
  BY <1>2 DEF OpenFails, Lock, Refuse, Truncate, TruncateFails, WritePid
<1>3. ASSUME NEW p \in Procs, Freeing(p) \/ Inspection(p) PROVE FALSE
  BY <1>3 DEF Freeing, Unlock, Unlink, Inspection, Look, OpenProbe, Probe,
       ReportRunning, ProbeUnlock, RemoveStale
<1>4. ASSUME NEW p \in Procs, Crash(p) \/ End(p) PROVE SameFile'
  BY <1>4 DEF Crash, End, Die
<1>5. CASE UNCHANGED vars
  BY <1>5 DEF vars
<1> QED
  BY <1>1, <1>2, <1>3, <1>4, <1>5 DEF Next, Acquiring

\* At most one instance runs, for any number of processes that start, fail, end
\* and crash, as long as none calls release() or is_process_running(): acquire()
\* alone keeps the promise of process_lock.py:235.  prevent_double_start does call
\* is_process_running() after a refusal, and is not covered: once an instance has
\* ended, an inspection may unlink the file its successor is about to lock.
THEOREM KeptLockIsSingle ==
  ASSUME ~Releasing, ~Inspecting
  PROVE  Spec => []SingleInstance
<1>1. Init => SameFile
  BY DEF Init, SameFile
<1>2. TypeOK /\ SameFile /\ [Next]_vars => SameFile'
  BY KeptStep
<1>3. TypeOK /\ LockInv /\ SameFile => SingleInstance
  <2> SUFFICES ASSUME LockInv, SameFile, NEW p \in Procs, NEW q \in Procs,
                      pc[p] \in Starting, pc[q] \in Starting
               PROVE  p = q
    BY DEF SingleInstance
  <2>1. file[p] \in Inodes /\ file[q] \in Inodes
    BY DEF LockInv, Starting, Locking
  <2>2. file[p] = path /\ file[q] = path
    BY <2>1, NoneAssumption DEF SameFile
  <2> QED
    BY <2>2, HoldersDiffer DEF Starting, Locking
<1> QED
  BY <1>1, <1>2, <1>3, LockInductive, PTL DEF Spec
===============================================================================
