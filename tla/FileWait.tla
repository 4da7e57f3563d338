------------------------------- MODULE FileWait -------------------------------
(***************************************************************************)
(* _wait_files_creation() of slapos/recipe/librecipe/execute.py: a wrapper *)
(* looks which of its files exist, watches their directories, and follows  *)
(* the events of inotify until it has seen them all; without inotify it    *)
(* looks again and again.  Other processes create and remove the files.    *)
(*                                                                         *)
(* Every file is in a directory of its own: one file per watch.            *)
(***************************************************************************)
EXTENDS Naturals, Sequences

CONSTANTS
    File,       \* the files that are waited for
    MaxChanges  \* bound: creations and removals

VARIABLES
    at,         \* "check", "watch", "read", "poll" or "done"
    present,    \* the files there are
    found,      \* the files the wait takes for existing (dict directories)
    checked,    \* files looked at since the check began
    watched,    \* files whose directory is watched
    events,     \* queue of inotify: [file, created]
    missed,     \* files that changed after they were checked and before they were watched
    changes     \* bounded by MaxChanges

vars == <<at, present, found, checked, watched, events, missed, changes>>

TypeOK ==
    /\ at \in {"check", "watch", "read", "poll", "done"}
    /\ present \subseteq File /\ found \subseteq File
    /\ checked \subseteq File /\ watched \subseteq File /\ missed \subseteq File
    /\ events \in Seq([file : File, created : BOOLEAN])
    /\ changes \in 0..MaxChanges

Init ==
    /\ at = "check" /\ present \in SUBSET File
    /\ found = {} /\ checked = {} /\ watched = {} /\ missed = {}
    /\ events = <<>> /\ changes = 0

\* What the wait takes for existing once it has followed the events of the queue: the last
\* event of a file decides.
EventsOf(f, queue) == {n \in DOMAIN queue : queue[n].file = f}

Followed(seen, queue) ==
    {f \in File :
        IF EventsOf(f, queue) = {} THEN f \in seen
        ELSE \E n \in EventsOf(f, queue) :
                queue[n].created /\ \A m \in EventsOf(f, queue) : m <= n}

\* check_if_files_exists: os.path.lexists, one file after the other.
Check(f) ==
    /\ at = "check" /\ f \notin checked
    /\ found' = IF f \in present THEN found \cup {f} ELSE found \ {f}
    /\ checked' = checked \cup {f}
    /\ at' = IF checked' = File THEN "watch" ELSE "check"
    /\ UNCHANGED <<present, watched, events, missed, changes>>

\* add_watch, one directory after the other.
Watch(f) ==
    /\ at = "watch" /\ f \notin watched
    /\ watched' = watched \cup {f}
    /\ at' = IF watched' # File THEN "watch" ELSE IF found = File THEN "done" ELSE "read"
    /\ UNCHANGED <<present, found, checked, events, missed, changes>>

\* ENOSPC or EMFILE: the wait polls.
CannotWatch ==
    /\ at = "watch"
    /\ at' = IF found = File THEN "done" ELSE "poll"
    /\ watched' = {} /\ events' = <<>>
    /\ UNCHANGED <<present, found, checked, missed, changes>>

\* Every event that waits is read; the files are counted afterwards.
Read ==
    /\ at = "read" /\ events # <<>>
    /\ found' = Followed(found, events)
    /\ events' = <<>>
    /\ at' = IF found' = File THEN "done" ELSE "read"
    /\ UNCHANGED <<present, checked, watched, missed, changes>>

\* 0.1 s later the files are looked at again.
Poll ==
    /\ at = "poll"
    /\ found' = present
    /\ at' = IF found' = File THEN "done" ELSE "poll"
    /\ UNCHANGED <<present, checked, watched, events, missed, changes>>

\* Variant of Noticed: removals are not watched for.
NoticedCreation(f, created) == f \in watched /\ created

\* CREATE, MOVED_TO, DELETE and MOVED_FROM are watched for.
Noticed(f, created) == f \in watched

\* Another process creates or removes a file.
Change(f) ==
    /\ changes < MaxChanges /\ at # "done" /\ changes' = changes + 1
    /\ LET created == f \notin present
       IN  /\ present' = IF created THEN present \cup {f} ELSE present \ {f}
           /\ events' = IF Noticed(f, created)
                        THEN Append(events, [file |-> f, created |-> created]) ELSE events
    /\ missed' = IF f \in checked \ watched THEN missed \cup {f} ELSE missed
    /\ UNCHANGED <<at, found, checked, watched>>

Wait == Read \/ Poll \/ CannotWatch \/ \E f \in File : Check(f) \/ Watch(f)

Next == Wait \/ \E f \in File : Change(f)

Spec == Init /\ [][Next]_vars

-----------------------------------------------------------------------------
\* What the wait knows once it has read its events is what there is, but for the files that
\* changed between the test of their existence and the watch of their directory.
NothingIsMissed ==
    at = "read" => \A f \in File \ missed : (f \in Followed(found, events)) = (f \in present)

=============================================================================
