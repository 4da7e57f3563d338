---------------------------- MODULE PIDFileLock ----------------------------
(***************************************************************************)
(* PIDFileLock of slapos/recipe/instancenode.py: what keeps two runs of an *)
(* instance node that cron starts from overlapping.  The lock is a flock   *)
(* on the file that the path names when it is opened; the path is removed  *)
(* at a clean exit and when the file holds the pid of a dead process.      *)
(*                                                                         *)
(* A step is a system call, or several of which the other processes see    *)
(* only the last.  The files are inodes: an open descriptor keeps the      *)
(* inode it was opened on when the path is removed or names another one.   *)
(***************************************************************************)
EXTENDS Naturals, FiniteSets

CONSTANTS
    Process,    \* the processes cron starts; each stands for its pid as well
    Inode,      \* inodes; one is reused once nothing refers to it
    None,       \* no inode, no process, no pid
    MaxCrashes  \* bound: processes that are killed

ASSUME LockAssumption ==
    None \notin Process \cup Inode /\ MaxCrashes \in Nat

VARIABLES
    path,       \* the inode the path names
    content,    \* per inode, the pid written in it
    flock,      \* per inode, the process that holds the lock on it
    pc,         \* where a process is; "off" when it does not run
    fd,         \* the inode a process has open
    old_pid,    \* the pid a process has read
    removed,    \* auxiliary: the path was removed once
    crashes

vars == <<path, content, flock, pc, fd, old_pid, removed, crashes>>

Label ==
    {"off", "enter", "opened", "locked", "truncated", "running", "failed", "reading",
     "probing", "stale", "unlocked"}

\* The labels at which a process has the file open.
Holding == {"locked", "truncated", "running"}
HasFile == Holding \cup {"opened", "reading", "probing", "stale"}

\* No descriptor is leaked, and none is used after it was closed.
TypeOK ==
    /\ path \in Inode \cup {None}
    /\ content \in [Inode -> Process \cup {None}]
    /\ flock \in [Inode -> Process \cup {None}]
    /\ pc \in [Process -> Label]
    /\ fd \in [Process -> Inode \cup {None}]
    /\ old_pid \in [Process -> Process \cup {None}]
    /\ removed \in BOOLEAN /\ crashes \in 0..MaxCrashes
    /\ \A p \in Process : fd[p] # None <=> pc[p] \in HasFile

Init ==
    /\ path = None
    /\ content = [n \in Inode |-> None] /\ flock = [n \in Inode |-> None]
    /\ pc = [p \in Process |-> "off"]
    /\ fd = [p \in Process |-> None] /\ old_pid = [p \in Process |-> None]
    /\ removed = FALSE /\ crashes = 0

Alive(p) == pc[p] # "off"

\* The inodes the file system may give to a new file.
Free == {n \in Inode : n # path /\ \A p \in Process : fd[p] # n}

Goto(p, label) == pc' = [pc EXCEPT ![p] = label]

\* The process ends: its descriptors are closed and its lock is released.
End(p) ==
    /\ Goto(p, "off")
    /\ fd' = [fd EXCEPT ![p] = None] /\ old_pid' = [old_pid EXCEPT ![p] = None]
    /\ flock' = [n \in Inode |-> IF flock[n] = p THEN None ELSE flock[n]]

\* Removing the path; a path that is not there makes no difference to the caller
\* in __exit__.
Unlink == path' = None /\ removed' = (removed \/ path # None)

Start(p) ==
    /\ pc[p] = "off" /\ Goto(p, "enter")
    /\ UNCHANGED <<path, content, flock, fd, old_pid, removed, crashes>>

\* open(path, 'a+')
Open(p) ==
    /\ pc[p] = "enter" /\ Goto(p, "opened")
    /\ IF path # None
       THEN fd' = [fd EXCEPT ![p] = path] /\ UNCHANGED <<path, content>>
       ELSE \E n \in Free :
               /\ path' = n /\ fd' = [fd EXCEPT ![p] = n]
               /\ content' = [content EXCEPT ![n] = None]
    /\ UNCHANGED <<flock, old_pid, removed, crashes>>

\* Variant of Flock: a shared lock.
FlockShared(p) ==
    /\ pc[p] = "opened" /\ Goto(p, "locked")
    /\ flock' = [flock EXCEPT ![fd[p]] = p]
    /\ UNCHANGED <<path, content, fd, old_pid, removed, crashes>>

\* flock(LOCK_EX | LOCK_NB); when it fails the descriptor is closed.
Flock(p) ==
    /\ pc[p] = "opened"
    /\ IF flock[fd[p]] = None
       THEN flock' = [flock EXCEPT ![fd[p]] = p] /\ Goto(p, "locked") /\ fd' = fd
       ELSE flock' = flock /\ Goto(p, "failed") /\ fd' = [fd EXCEPT ![p] = None]
    /\ UNCHANGED <<path, content, old_pid, removed, crashes>>

Truncate(p) ==
    /\ pc[p] = "locked" /\ Goto(p, "truncated")
    /\ content' = [content EXCEPT ![fd[p]] = None]
    /\ UNCHANGED <<path, flock, fd, old_pid, removed, crashes>>

\* write and flush; the node runs from here on.
WritePid(p) ==
    /\ pc[p] = "truncated" /\ Goto(p, "running")
    /\ content' = [content EXCEPT ![fd[p]] = p]
    /\ UNCHANGED <<path, flock, fd, old_pid, removed, crashes>>

\* The lock is held: the file is opened to see who holds it, unless it is gone.
OpenToRead(p) ==
    /\ pc[p] = "failed"
    /\ \/ path = None /\ End(p)
       \/ path # None /\ fd' = [fd EXCEPT ![p] = path] /\ Goto(p, "reading")
          /\ UNCHANGED <<flock, old_pid>>
    /\ UNCHANGED <<path, content, removed, crashes>>

ReadPid(p) ==
    /\ pc[p] = "reading"
    /\ \/ content[fd[p]] = None /\ End(p)
       \/ /\ content[fd[p]] # None
          /\ old_pid' = [old_pid EXCEPT ![p] = content[fd[p]]]
          /\ Goto(p, "probing") /\ UNCHANGED <<flock, fd>>
    /\ UNCHANGED <<path, content, removed, crashes>>

\* os.kill(old_pid, 0)
ProbePid(p) ==
    /\ pc[p] = "probing"
    /\ \/ Alive(old_pid[p]) /\ End(p)
       \/ ~Alive(old_pid[p]) /\ Goto(p, "stale") /\ UNCHANGED <<flock, fd, old_pid>>
    /\ UNCHANGED <<path, content, removed, crashes>>

\* The file names a dead process: it is removed, and the lock tried again.  A file
\* that is gone already ends the process.
RemoveStale(p) ==
    /\ pc[p] = "stale"
    /\ \/ path = None /\ End(p)
       \/ path # None /\ Goto(p, "enter") /\ fd' = [fd EXCEPT ![p] = None]
          /\ old_pid' = [old_pid EXCEPT ![p] = None] /\ flock' = flock
    /\ Unlink
    /\ UNCHANGED <<content, crashes>>

\* __exit__: the run is over, the lock is released.
Unlock(p) ==
    /\ pc[p] = "running" /\ Goto(p, "unlocked")
    /\ flock' = [flock EXCEPT ![fd[p]] = None]
    /\ fd' = [fd EXCEPT ![p] = None]
    /\ UNCHANGED <<path, content, old_pid, removed, crashes>>

\* __exit__, after a run that raised nothing: the path is removed.
RemovePath(p) ==
    /\ pc[p] = "unlocked" /\ End(p) /\ Unlink
    /\ UNCHANGED <<content, crashes>>

\* __exit__, after a run that raised: the file stays.
LeavePath(p) ==
    /\ pc[p] = "unlocked" /\ End(p)
    /\ UNCHANGED <<path, content, removed, crashes>>

\* The process is killed.
Kill(p) ==
    /\ Alive(p) /\ crashes < MaxCrashes
    /\ crashes' = crashes + 1 /\ End(p)
    /\ UNCHANGED <<path, content, removed>>

Next ==
    \E p \in Process :
        \/ Start(p) \/ Open(p) \/ Flock(p) \/ Truncate(p) \/ WritePid(p)
        \/ OpenToRead(p) \/ ReadPid(p) \/ ProbePid(p) \/ RemoveStale(p)
        \/ Unlock(p) \/ RemovePath(p) \/ LeavePath(p) \/ Kill(p)

Spec == Init /\ [][Next]_vars

-----------------------------------------------------------------------------
\* The lock prevents multiple instances: one process runs the node at most.
MutualExclusion ==
    \A p, q \in Process : pc[p] = "running" /\ pc[q] = "running" => p = q

\* Two runs overlap only when the path was removed: neither the deaths of runs nor
\* the pids they leave in the file open the lock.
OverlapOnlyByRemoval == ~removed => MutualExclusion
=============================================================================
