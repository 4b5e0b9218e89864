----------------------------- MODULE ProcessLock -----------------------------
(***************************************************************************)
(* The start-up lock of src/python/microservice_toolbox/utils/             *)
(* process_lock.py, on Unix: operating-system processes that start the     *)
(* same service, a lock file in the temporary directory, and flock().      *)
(*                                                                         *)
(* One action is one system call (or one run of calls nobody else can see  *)
(* the middle of).  The file system keeps a name, lock_path, that leads to *)
(* an inode or to nothing; flock() locks inodes, unlink() removes names.   *)
(*                                                                         *)
(*   idle      not in the lock code: acquire() or is_process_running() may *)
(*             be called                                                   *)
(*   opened    acquire() has opened the file                    (line 67)  *)
(*   locked    acquire() has the flock                          (81)       *)
(*   truncated acquire() has emptied the file                   (90)       *)
(*   holding   acquire() returned True                          (97)       *)
(*   released  release() has unlocked, not yet unlinked         (118)      *)
(*   refused   as idle, after acquire() returned False          (85, 106)  *)
(*   looked    is_process_running() has read the PID            (187)      *)
(*   probe     is_process_running() has opened the file         (195)      *)
(*   probing   is_process_running() has the flock               (201)      *)
(*   judging   is_process_running() found the flock free        (210)      *)
(*   dead      ended or crashed                                            *)
(*                                                                         *)
(* Every call may fail where the code survives it.  What a failed flush()  *)
(* leaves in Python's buffer (line 92) is taken for lost.                  *)
(***************************************************************************)
EXTENDS Integers

CONSTANTS
  Procs,       \* processes; a process is its own PID
  Inodes,      \* files that may come to exist under lock_path
  None,        \* no file, no holder, no PID
  Releasing,   \* whether the service calls release() (or leaves a `with` block)
  Inspecting,  \* whether is_process_running() is called
  MaxCrashes   \* bound: processes that die within the lock code

ASSUME NoneAssumption    == None \notin Inodes /\ None \notin Procs
ASSUME FlagsAssumption   == Releasing \in BOOLEAN /\ Inspecting \in BOOLEAN
ASSUME CrashesAssumption == MaxCrashes \in Nat

VARIABLES
  path,      \* the inode lock_path leads to, or None
  content,   \* the PID in each inode, or None
  holder,    \* the process that has the flock of each inode, or None
  file,      \* per process: the inode of lock_file, or of the probe's fd
  emptied,   \* history: the process holds the flock and truncate() succeeded
  pidRead,   \* per process: the PID is_process_running() read, while it runs
  pc,
  crashes

fs   == <<path, content, holder>>
vars == <<fs, file, emptied, pidRead, pc, crashes>>

Goto(p, label) == pc' = [pc EXCEPT ![p] = label]

Alive(p) == pc[p] # "dead"   \* is_pid_alive

Outside == {"idle", "refused"}

-----------------------------------------------------------------------------
(* acquire                                                                 *)

\* An inode that neither a name nor a descriptor leads to.
Unused(i) == i # path /\ \A p \in Procs : file[p] # i

\* Mutant: open(lock_path, "w") empties the file before it is locked.
OpenTruncates(p) ==
  /\ pc[p] \in Outside
  /\ Goto(p, "opened")
  /\ \E i \in Inodes :
       /\ IF path = None THEN Unused(i) ELSE i = path
       /\ path' = i
       /\ content' = [content EXCEPT ![i] = None]
       /\ file' = [file EXCEPT ![p] = i]
  /\ UNCHANGED <<holder, emptied, pidRead, crashes>>

\* open(lock_path, "a+"): creates the file when the name leads nowhere.
Open(p) ==
  /\ pc[p] \in Outside
  /\ Goto(p, "opened")
  /\ \/ /\ path # None
        /\ file' = [file EXCEPT ![p] = path]
        /\ UNCHANGED <<path, content>>
     \/ /\ path = None
        /\ \E i \in Inodes :
             /\ Unused(i)
             /\ path' = i
             /\ content' = [content EXCEPT ![i] = None]
             /\ file' = [file EXCEPT ![p] = i]
  /\ UNCHANGED <<holder, emptied, pidRead, crashes>>

\* open() raises (no permission, no descriptor left): acquire() returns False.
OpenFails(p) ==
  /\ pc[p] \in Outside
  /\ Goto(p, "refused")
  /\ UNCHANGED <<fs, file, emptied, pidRead, crashes>>

\* flock(LOCK_EX | LOCK_NB)
Lock(p) ==
  /\ pc[p] = "opened"
  /\ holder[file[p]] = None
  /\ holder' = [holder EXCEPT ![file[p]] = p]
  /\ Goto(p, "locked")
  /\ UNCHANGED <<path, content, file, emptied, pidRead, crashes>>

\* flock() raises: the lock is taken, or any other OSError.
Refuse(p) ==
  /\ pc[p] = "opened"
  /\ file' = [file EXCEPT ![p] = None]
  /\ Goto(p, "refused")
  /\ UNCHANGED <<fs, emptied, pidRead, crashes>>

\* Mutant: the old PID stays in the file until it is overwritten.
TruncateForgotten(p) ==
  /\ pc[p] = "locked"
  /\ emptied' = [emptied EXCEPT ![p] = TRUE]
  /\ Goto(p, "truncated")
  /\ UNCHANGED <<fs, file, pidRead, crashes>>

Truncate(p) ==
  /\ pc[p] = "locked"
  /\ content' = [content EXCEPT ![file[p]] = None]
  /\ emptied' = [emptied EXCEPT ![p] = TRUE]
  /\ Goto(p, "truncated")
  /\ UNCHANGED <<path, holder, file, pidRead, crashes>>

\* seek() or truncate() raises: the rest of the block is skipped and acquire()
\* returns True, with the PID of an earlier instance in the file.
TruncateFails(p) ==
  /\ pc[p] = "locked"
  /\ Goto(p, "holding")
  /\ UNCHANGED <<fs, file, emptied, pidRead, crashes>>

\* Mutant: the number of the descriptor is written instead of the PID.
WriteDescriptor(p) ==
  /\ pc[p] = "truncated"
  /\ content' = [content EXCEPT ![file[p]] = file[p]]
  /\ Goto(p, "holding")
  /\ UNCHANGED <<path, holder, file, emptied, pidRead, crashes>>

\* The write or the flush may fail, which acquire() ignores.
WritePid(p) ==
  /\ pc[p] = "truncated"
  /\ \/ content' = [content EXCEPT ![file[p]] = p]
     \/ UNCHANGED content
  /\ Goto(p, "holding")
  /\ UNCHANGED <<path, holder, file, emptied, pidRead, crashes>>

-----------------------------------------------------------------------------
(* release                                                                 *)

Unlock(p) ==
  /\ Releasing
  /\ pc[p] = "holding"
  /\ holder' = [holder EXCEPT ![file[p]] = None]
  /\ file' = [file EXCEPT ![p] = None]
  /\ emptied' = [emptied EXCEPT ![p] = FALSE]
  /\ Goto(p, "released")
  /\ UNCHANGED <<path, content, pidRead, crashes>>

\* unlink(lock_path), whatever file the name leads to by now; it may fail.
Unlink(p) ==
  /\ pc[p] = "released"
  /\ path' \in {None, path}
  /\ Goto(p, "idle")
  /\ UNCHANGED <<content, holder, file, emptied, pidRead, crashes>>

-----------------------------------------------------------------------------
(* is_process_running, called by prevent_double_start once acquire() was   *)
(* refused, or by anybody else.                                            *)

Leave(p) ==
  /\ pidRead' = [pidRead EXCEPT ![p] = None]
  /\ Goto(p, "idle")

\* exists(), then open and read, which may fail
Look(p) ==
  /\ Inspecting
  /\ pc[p] \in Outside
  /\ \/ /\ path = None
        /\ Leave(p)
     \/ /\ path # None
        /\ \E pid \in {content[path], None} : pidRead' = [pidRead EXCEPT ![p] = pid]
        /\ Goto(p, "looked")
  /\ UNCHANGED <<fs, file, emptied, crashes>>

\* open(O_RDWR)
OpenProbe(p) ==
  /\ pc[p] = "looked"
  /\ path # None
  /\ file' = [file EXCEPT ![p] = path]
  /\ Goto(p, "probe")
  /\ UNCHANGED <<fs, emptied, pidRead, crashes>>

\* the non-blocking flock
Probe(p) ==
  /\ pc[p] = "probe"
  /\ holder[file[p]] = None
  /\ holder' = [holder EXCEPT ![file[p]] = p]
  /\ Goto(p, "probing")
  /\ UNCHANGED <<path, content, file, emptied, pidRead, crashes>>

\* The open or the flock raises, because the file is gone, its flock is taken, or
\* for any other reason: reported as running.
ReportRunning(p) ==
  /\ pc[p] \in {"looked", "probe"}
  /\ file' = [file EXCEPT ![p] = None]
  /\ Leave(p)
  /\ UNCHANGED <<fs, emptied, crashes>>

\* Mutant: the descriptor of the probe is not closed.
ProbeKeepsLock(p) ==
  /\ pc[p] = "probing"
  /\ Goto(p, "judging")
  /\ UNCHANGED <<fs, file, emptied, pidRead, crashes>>

\* flock(LOCK_UN) and close()
ProbeUnlock(p) ==
  /\ pc[p] = "probing"
  /\ holder' = [holder EXCEPT ![file[p]] = None]
  /\ file' = [file EXCEPT ![p] = None]
  /\ Goto(p, "judging")
  /\ UNCHANGED <<path, content, emptied, pidRead, crashes>>

Stale(p) == pidRead[p] # None /\ ~Alive(pidRead[p])

\* A stale file is removed, by name, if that succeeds.
RemoveStale(p) ==
  /\ pc[p] = "judging"
  /\ path' \in IF Stale(p) THEN {None, path} ELSE {path}
  /\ Leave(p)
  /\ UNCHANGED <<content, holder, file, emptied, crashes>>

-----------------------------------------------------------------------------
(* The end of a process: the kernel closes its files, which frees their    *)
(* flock; the name and the PID in the file stay.                           *)

Die(p) ==
  /\ holder' = [i \in Inodes |-> IF holder[i] = p THEN None ELSE holder[i]]
  /\ file' = [file EXCEPT ![p] = None]
  /\ emptied' = [emptied EXCEPT ![p] = FALSE]
  /\ pidRead' = [pidRead EXCEPT ![p] = None]
  /\ Goto(p, "dead")
  /\ UNCHANGED <<path, content>>

Crash(p) ==
  /\ pc[p] # "dead"
  /\ crashes < MaxCrashes
  /\ crashes' = crashes + 1
  /\ Die(p)

\* A process ends outside the lock code: refused, or an instance whose work is
\* done; prevent_double_start keeps the lock in _active_locks and nobody releases
\* it.
End(p) ==
  /\ pc[p] \in Outside \cup {"holding"}
  /\ Die(p)
  /\ UNCHANGED crashes

-----------------------------------------------------------------------------

Init ==
  /\ path = None
  /\ content = [i \in Inodes |-> None]
  /\ holder = [i \in Inodes |-> None]
  /\ file = [p \in Procs |-> None]
  /\ emptied = [p \in Procs |-> FALSE]
  /\ pidRead = [p \in Procs |-> None]
  /\ pc = [p \in Procs |-> "idle"]
  /\ crashes = 0

Acquiring(p) == \/ Open(p) \/ OpenFails(p) \/ Lock(p) \/ Refuse(p)
                \/ Truncate(p) \/ TruncateFails(p) \/ WritePid(p)
Freeing(p)   == Unlock(p) \/ Unlink(p)
Inspection(p) == \/ Look(p) \/ OpenProbe(p) \/ Probe(p) \/ ReportRunning(p)
                 \/ ProbeUnlock(p) \/ RemoveStale(p)

Next == \E p \in Procs :
  Acquiring(p) \/ Freeing(p) \/ Inspection(p) \/ Crash(p) \/ End(p)

Spec == Init /\ [][Next]_vars

-----------------------------------------------------------------------------

\* The processes that have a flock, and those that are (about to be) told by
\* acquire() that the service is theirs.
Locking  == {"locked", "truncated", "holding", "probing"}
Starting == {"locked", "truncated", "holding"}

\* Every variable has a value of its type.
TypeOK ==
  /\ path \in Inodes \cup {None}
  /\ content \in [Inodes -> Procs \cup {None}]
  /\ holder \in [Inodes -> Procs \cup {None}]
  /\ file \in [Procs -> Inodes \cup {None}]
  /\ emptied \in [Procs -> BOOLEAN]
  /\ pidRead \in [Procs -> Procs \cup {None}]
  /\ pc \in [Procs -> Locking \cup {"idle", "opened", "released", "refused",
                                   "looked", "probe", "judging", "dead"}]
  /\ crashes \in Nat

\* The PID in the file of a running instance that could empty it is its own or,
\* when writing it failed, none, whoever starts, inspects, releases or ends
\* meanwhile.  Where seek() or truncate() failed, acquire() succeeds all the same
\* (process_lock.py:93) and the PID of an earlier instance stays.
PidFileNamesHolder ==
  \A p \in Procs : pc[p] = "holding" /\ emptied[p] => content[file[p]] \in {p, None}

\* Two running instances never share a lock file, so a second instance takes a
\* lock file that was unlinked under the first one.
OneInstancePerFile ==
  \A p, q \in Procs :
    pc[p] \in Starting /\ pc[q] \in Starting /\ file[p] = file[q] => p = q

\* Nobody overwrites the PID of a running instance: not a process that starts
\* and is refused, and not one that inspects, releases or crashes.
PidFileKept ==
  [][\A p \in Procs : pc[p] = "holding" /\ pc'[p] = "holding"
       => content'[file[p]] = content[file[p]]]_vars

\* A flock is held exactly by whoever is in a locked section.  Nobody's refusal,
\* probe, release or end frees it under an instance (the inspection is to be
\* "non-destructive", process_lock.py:192), and none is left behind that would
\* refuse every later start.
LocksAreOwned ==
  /\ \A p \in Procs : pc[p] \in Locking => holder[file[p]] = p
  /\ \A i \in Inodes : holder[i] # None =>
       pc[holder[i]] \in Locking /\ file[holder[i]] = i

\* "Ensures that only a single instance of the service is running"
\* (process_lock.py:235).  It holds as long as nobody removes the lock file: when
\* no process releases, and none inspects.
SingleInstance ==
  \A p, q \in Procs : pc[p] \in Starting /\ pc[q] \in Starting => p = q

\* "Could not acquire process lock ... Another instance is running."
\* (process_lock.py:131)
RefusedByInstance ==
  [][\A p \in Procs : pc[p] # "refused" /\ pc'[p] = "refused"
       => \E q \in Procs \ {p} : pc[q] \in Starting]_vars
==============================================================================
