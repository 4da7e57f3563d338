------------------------------ MODULE Resilience ------------------------------
(***************************************************************************)
(* The backup of a resilient instance: theia_export.py fills and signs a   *)
(* backup directory, slapos/recipe/pbs.py pulls it into the repository of  *)
(* the pull-backup server and pushes it to the clone, and theia_import.py  *)
(* verifies and restores it there.                                         *)
(*                                                                         *)
(* The exporter, the backup server and the clone run concurrently and each *)
(* can fail or be killed between two steps.  A part of a backup (the root, *)
(* or one partition) is copied in one step; its content is the number of   *)
(* the export (the root, through its timestamp) or of the last write (a    *)
(* partition).  A signature is an injective digest of a part, so it is the *)
(* content it was taken of.                                                *)
(***************************************************************************)
EXTENDS Naturals

CONSTANTS
    Partition,      \* partitions of the theia
    Root,           \* the rest of its backup: timestamp, directories, files, slapproxy database
    NoContent,      \* a part or a signature that is not there
    MaxExports, MaxWrites, MaxFaults    \* bounds: exports, writes to a partition, failures and deaths

ASSUME ResilienceAssumption ==
    /\ NoContent \notin Nat
    /\ MaxExports \in Nat /\ MaxWrites \in Nat /\ MaxFaults \in Nat

Part == {Root} \cup Partition
Content == Nat \cup {NoContent}

\* The files of a backup directory, as far as they matter: parts and their signatures.
File == {"signature", "data"} \X Part
Directory == [File -> Content]
Empty == [f \in File |-> NoContent]

\* On whose notification every job of the chain runs (on-notification, notify).
Notified == [export |-> "pull", pull |-> "push", push |-> "import"]

VARIABLES
    custom,         \* the partitions that have their own signature script
    live,           \* content of the partitions of the exporter
    exports, exportAt, toExport,    \* number of the export, its step, the parts it has to do
    backup_dir,     \* the exporter's backup directory
    snapshot,       \* auxiliary: per export, the parts it copied
    due,            \* jobs that were notified and have not started
    job, toCopy,    \* what the backup server runs, and the files it has to copy
    repository, before, \* its repository, and the repository as of the last consistent pull
    clone_dir,      \* the clone's copy of the backup directory
    importAt, toImport, \* step of the import and the parts it has to do
    clone,          \* the parts of the clone
    proxy,          \* whether the clone's slapproxy runs
    exit_file,      \* exit code of the last import that wrote it
    halfWritten,    \* auxiliary: directories a failed pull or push left between two backups
    torn,           \* auxiliary: the last import read one of those, or met a push
    killed,         \* auxiliary: an import was killed since the last that wrote its exit code
    faulted,        \* auxiliary: something failed since the last export succeeded
    sent,           \* auxiliary: the last export that succeeded
    takeover_triggered, \* the lock file a takeover leaves (module Takeover)
    faults

theia   == <<custom, live>>
export  == <<exports, exportAt, toExport, backup_dir, snapshot>>
server  == <<job, toCopy, repository, before>>
import  == <<importAt, toImport, clone, proxy, exit_file, killed>>
aux     == <<halfWritten, torn, faulted, sent>>
vars == <<theia, export, due, server, clone_dir, import, aux, takeover_triggered, faults>>

TypeOK ==
    /\ custom \subseteq Partition /\ live \in [Partition -> 0..MaxWrites]
    /\ exports \in 0..MaxExports /\ exportAt \in {"idle", "copy", "sign", "check"}
    /\ toExport \subseteq Part /\ backup_dir \in Directory
    /\ snapshot \in [1..MaxExports -> [Part -> Content]]
    /\ due \subseteq {"pull", "push", "import"}
    /\ job \in {"idle", "pull", "push"} /\ toCopy \subseteq File
    /\ repository \in Directory /\ before \in Directory /\ clone_dir \in Directory
    /\ importAt \in {"idle", "verify", "stop_proxy", "restore", "start_proxy", "build",
                     "verify_custom"}
    /\ toImport \subseteq Part /\ clone \in [Part -> Content]
    /\ proxy \in BOOLEAN /\ exit_file \in {"none", "0", "1"}
    /\ halfWritten \subseteq {"repository", "clone"} /\ torn \in BOOLEAN /\ killed \in BOOLEAN /\ faulted \in BOOLEAN
    /\ sent \in 0..MaxExports /\ takeover_triggered \in BOOLEAN /\ faults \in 0..MaxFaults

Init ==
    /\ custom \in SUBSET Partition /\ live = [p \in Partition |-> 0]
    /\ exports = 0 /\ exportAt = "idle" /\ toExport = {} /\ backup_dir = Empty
    /\ snapshot = [n \in 1..MaxExports |-> [x \in Part |-> NoContent]]
    /\ due = {} /\ job = "idle" /\ toCopy = {}
    /\ repository = Empty /\ before = Empty /\ clone_dir = Empty
    /\ importAt = "idle" /\ toImport = {} /\ clone = [x \in Part |-> NoContent]
    /\ proxy = TRUE /\ exit_file = "none"
    /\ halfWritten = {} /\ torn = FALSE /\ killed = FALSE /\ faulted = FALSE
    /\ sent = 0 /\ takeover_triggered = FALSE /\ faults = 0

Fault == faults < MaxFaults /\ faults' = faults + 1 /\ faulted' = TRUE

-----------------------------------------------------------------------------
(* theia_export.py *)

\* Something is written to a partition.
Write(p) ==
    /\ live[p] < MaxWrites
    /\ live' = [live EXCEPT ![p] = @ + 1]
    /\ UNCHANGED <<custom, export, due, server, clone_dir, import, aux,
                   takeover_triggered, faults>>

\* export() starts: new timestamp; the signatures of the previous export are removed
\* before anything is copied.
BeginExport ==
    /\ exportAt = "idle" /\ exports < MaxExports
    /\ exports' = exports + 1 /\ exportAt' = "copy" /\ toExport' = Part
    /\ backup_dir' = [f \in File |-> IF f[1] = "signature" THEN NoContent ELSE backup_dir[f]]
    /\ UNCHANGED <<theia, snapshot, due, server, clone_dir, import, aux,
                   takeover_triggered, faults>>

\* The timestamp makes the root of every export another one.
Current(x) == IF x = Root THEN exports ELSE live[x]

\* backup_file, backup_tree and backup_db for the root, then backup_partition: the part
\* is copied as it is now.
BackUp(x) ==
    /\ exportAt = "copy" /\ x \in toExport /\ (Root \in toExport => x = Root)
    /\ toExport' = IF toExport = {x} THEN Part ELSE toExport \ {x}
    /\ exportAt' = IF toExport = {x} THEN "sign" ELSE "copy"
    /\ backup_dir' = [backup_dir EXCEPT ![<<"data", x>>] = Current(x)]
    /\ snapshot' = [snapshot EXCEPT ![exports][x] = Current(x)]
    /\ UNCHANGED <<theia, exports, due, server, clone_dir, import, aux,
                   takeover_triggered, faults>>

\* What hashwalk, or hashcustom with the script of a partition, yields of a part of d.
Digest(d, x) == d[<<"data", x>>]

\* sign_root, then sign_partition: it is the mirror that is hashed, not the live part.
Sign(x) ==
    /\ exportAt = "sign" /\ x \in toExport /\ (Root \in toExport => x = Root)
    /\ toExport' = toExport \ {x}
    /\ exportAt' = IF toExport = {x} THEN "check" ELSE "sign"
    /\ backup_dir' = [backup_dir EXCEPT ![<<"signature", x>>] = Digest(backup_dir, x)]
    /\ UNCHANGED <<theia, exports, snapshot, due, server, clone_dir, import, aux,
                   takeover_triggered, faults>>

\* check_partition: the export fails when a file under srv/backup/ of a partition changed
\* since it was copied; a change elsewhere in the partition passes.  Which of the two a write
\* was is chosen here, where it is looked at: what was written after one export copied it,
\* the next one copies.  Only an export that ends well notifies the backup server.
CheckPartitions ==
    /\ exportAt = "check" /\ exportAt' = "idle"
    /\ \/ /\ due' = due \cup {Notified["export"]}
          /\ faulted' = FALSE /\ sent' = exports
       \/ /\ \E p \in Partition : live[p] # backup_dir[<<"data", p>>]
          /\ UNCHANGED <<due, faulted, sent>>
    /\ UNCHANGED <<theia, exports, toExport, backup_dir, snapshot, server, clone_dir,
                   import, halfWritten, torn, takeover_triggered, faults>>

\* An error of rsync, sqlite or a signature script, or the death of the exporter.
ExportFails ==
    /\ exportAt \in {"copy", "sign"} /\ Fault
    /\ exportAt' = "idle" /\ toExport' = {}
    /\ UNCHANGED <<theia, exports, backup_dir, snapshot, due, server, clone_dir, import,
                   halfWritten, torn, sent, takeover_triggered>>

-----------------------------------------------------------------------------
(* pbs.py: the jobs of the backup server, one at a time. *)

StartJob(j) ==
    /\ job = "idle" /\ j \in due
    /\ job' = j /\ due' = due \ {j} /\ toCopy' = File
    /\ UNCHANGED <<theia, export, repository, before, clone_dir, import, aux,
                   takeover_triggered, faults>>

\* rdiff-backup reads a directory in the order of its names, and the signatures
\* ('backup.signatures') come before the rest of the backup.
NextToCopy(f) == f \in toCopy /\ (f[1] = "data" => \A g \in toCopy : g[1] = "data")

\* wrapper_pull: the exporter may be writing the files that are read.
Pull(f) ==
    /\ job = "pull" /\ NextToCopy(f) /\ toCopy' = toCopy \ {f}
    /\ repository' = [repository EXCEPT ![f] = backup_dir[f]]
    /\ UNCHANGED <<theia, export, due, job, before, clone_dir, import, aux,
                   takeover_triggered, faults>>

EndPull ==
    /\ job = "pull" /\ toCopy = {}
    /\ halfWritten' = halfWritten \ {"repository"}
    /\ job' = "idle" /\ before' = repository /\ due' = due \cup {Notified["pull"]}
    /\ UNCHANGED <<theia, export, toCopy, repository, clone_dir, import, torn, faulted,
                   sent, takeover_triggered, faults>>

\* rdiff-backup fails: the repository regresses to what it was, or stays half written
\* when that fails too.  The script ends with status 0 either way, and the push follows.
PullFails ==
    /\ job = "pull" /\ Fault
    /\ job' = "idle" /\ toCopy' = {}
    /\ \/ repository' = before /\ UNCHANGED halfWritten
       \/ repository' = repository /\ halfWritten' = halfWritten \cup {"repository"}
    /\ due' = due \cup {Notified["pull"]}
    /\ UNCHANGED <<theia, export, before, clone_dir, import, torn, sent,
                   takeover_triggered>>

\* The pull went well and the removal of the old increments fails: the script exits with 1,
\* and no push follows.
CleaningFails ==
    /\ job = "pull" /\ toCopy = {} /\ Fault
    /\ job' = "idle" /\ before' = repository /\ halfWritten' = halfWritten \ {"repository"}
    /\ UNCHANGED <<theia, export, due, toCopy, repository, clone_dir, import, torn, sent,
                   takeover_triggered>>

\* wrapper_push: the clone may be importing what is overwritten.
Push(f) ==
    /\ job = "push" /\ NextToCopy(f) /\ toCopy' = toCopy \ {f}
    /\ clone_dir' = [clone_dir EXCEPT ![f] = repository[f]]
    /\ torn' = (torn \/ importAt # "idle")
    /\ UNCHANGED <<theia, export, due, job, repository, before, import, halfWritten,
                   faulted, sent, takeover_triggered, faults>>

\* Variant of EndPush: nobody is notified.
EndPushSilently ==
    /\ job = "push" /\ toCopy = {}
    /\ job' = "idle"
    /\ halfWritten' = IF "repository" \in halfWritten THEN halfWritten \cup {"clone"}
                      ELSE halfWritten \ {"clone"}
    /\ UNCHANGED <<theia, export, due, toCopy, repository, before, clone_dir, import,
                   torn, faulted, sent, takeover_triggered, faults>>

EndPush ==
    /\ job = "push" /\ toCopy = {}
    /\ job' = "idle" /\ due' = due \cup {Notified["push"]}
    /\ halfWritten' = IF "repository" \in halfWritten THEN halfWritten \cup {"clone"}
                      ELSE halfWritten \ {"clone"}
    /\ UNCHANGED <<theia, export, toCopy, repository, before, clone_dir, import, torn,
                   faulted, sent, takeover_triggered, faults>>

\* A push that fails says so, and its notification is not sent.
PushFails ==
    /\ job = "push" /\ Fault
    /\ job' = "idle" /\ toCopy' = {}
    /\ halfWritten' = halfWritten \cup {"clone"}
    /\ UNCHANGED <<theia, export, due, repository, before, clone_dir, import, torn, sent,
                   takeover_triggered>>

-----------------------------------------------------------------------------
(* theia_import.py *)

\* The event queue of the clone runs no import once the takeover left its lock file.
StartImport ==
    /\ importAt = "idle" /\ "import" \in due /\ ~takeover_triggered
    /\ importAt' = "verify" /\ toImport' = Part /\ due' = due \ {"import"}
    /\ torn' = (job = "push" \/ "clone" \in halfWritten)
    /\ UNCHANGED <<theia, export, server, clone_dir, clone, proxy, exit_file, killed,
                   halfWritten, faulted, sent, takeover_triggered, faults>>

\* The next step of the import, once every part went through this one.
Imported(x, next, parts) ==
    /\ toImport' = IF toImport = {x} THEN parts ELSE toImport \ {x}
    /\ importAt' = IF toImport = {x} THEN next ELSE importAt

Matches(x) ==
    /\ clone_dir[<<"signature", x>>] # NoContent
    /\ clone_dir[<<"signature", x>>] = Digest(clone_dir, x)

\* Variant of Verify: the partitions are not verified.
VerifyRoot(x) ==
    /\ importAt = "verify" /\ x \in toImport /\ (Root \in toImport => x = Root)
    /\ x = Root => Matches(x)
    /\ Imported(x, "stop_proxy", {})
    /\ UNCHANGED <<theia, export, due, server, clone_dir, clone, proxy, exit_file, killed,
                   aux, takeover_triggered, faults>>

\* verify_root, then verify_partition; a partition with a script of its own is verified
\* last, when its script is restored, but its signature has to be there.
Verify(x) ==
    /\ importAt = "verify" /\ x \in toImport /\ (Root \in toImport => x = Root)
    /\ IF x \in custom THEN clone_dir[<<"signature", x>>] # NoContent ELSE Matches(x)
    /\ Imported(x, "stop_proxy", {})
    /\ UNCHANGED <<theia, export, due, server, clone_dir, clone, proxy, exit_file, killed,
                   aux, takeover_triggered, faults>>

StopProxy ==
    /\ importAt = "stop_proxy" /\ importAt' = "restore" /\ toImport' = Part
    /\ proxy' = FALSE
    /\ UNCHANGED <<theia, export, due, server, clone_dir, clone, exit_file, killed, aux,
                   takeover_triggered, faults>>

\* restore_partition, then restore_tree, restore_file, restore_db and the timestamp.
Restore(x) ==
    /\ importAt = "restore" /\ x \in toImport /\ (x = Root => toImport = {Root})
    /\ clone' = [clone EXCEPT ![x] = clone_dir[<<"data", x>>]]
    /\ Imported(x, "start_proxy", {})
    /\ UNCHANGED <<theia, export, due, server, clone_dir, proxy, exit_file, killed, aux,
                   takeover_triggered, faults>>

StartProxy ==
    /\ importAt = "start_proxy" /\ importAt' = "build" /\ proxy' = TRUE
    /\ UNCHANGED <<theia, export, due, server, clone_dir, toImport, clone, exit_file,
                   killed, aux, takeover_triggered, faults>>

\* Format, prune, software and instance; a build that fails is tried three times.
Build ==
    /\ importAt = "build" /\ importAt' = "verify_custom" /\ toImport' = custom
    /\ UNCHANGED <<theia, export, due, server, clone_dir, clone, proxy, exit_file, killed,
                   aux, takeover_triggered, faults>>

\* verify_custom
VerifyCustom(x) ==
    /\ importAt = "verify_custom" /\ x \in toImport /\ Matches(x)
    /\ toImport' = toImport \ {x}
    /\ UNCHANGED <<theia, export, due, server, clone_dir, importAt, clone, proxy,
                   exit_file, killed, aux, takeover_triggered, faults>>

\* The exit code is written however restore() ends.
EndImport(code) ==
    /\ importAt' = "idle" /\ toImport' = {}
    /\ exit_file' = code /\ killed' = FALSE

ImportSucceeds ==
    /\ importAt = "verify_custom" /\ toImport = {}
    /\ EndImport("0")
    /\ UNCHANGED <<theia, export, due, server, clone_dir, clone, proxy, aux,
                   takeover_triggered, faults>>

\* What is compared does not match, or is missing.
ImportRefuses ==
    /\ \/ importAt = "verify"
          /\ \E x \in toImport :
                IF x \in custom THEN clone_dir[<<"signature", x>>] = NoContent ELSE ~Matches(x)
       \/ importAt = "verify_custom" /\ \E x \in toImport : ~Matches(x)
    /\ EndImport("1")
    /\ UNCHANGED <<theia, export, due, server, clone_dir, clone, proxy, aux,
                   takeover_triggered, faults>>

\* Variant of ImportFails: the exit code is that of the last import that ended well.
ImportFailsSilently ==
    /\ importAt # "idle" /\ Fault
    /\ importAt' = "idle" /\ toImport' = {}
    /\ UNCHANGED <<theia, export, due, server, clone_dir, clone, proxy, exit_file, killed,
                   halfWritten, torn, sent, takeover_triggered>>

\* A command of the import fails: the steps after it do not take place, StartProxy included.
ImportFails ==
    /\ importAt # "idle" /\ Fault
    /\ EndImport("1")
    /\ UNCHANGED <<theia, export, due, server, clone_dir, clone, proxy, halfWritten, torn,
                   sent, takeover_triggered>>

\* The import is killed, and writes no exit code.
ImportDies ==
    /\ importAt # "idle" /\ Fault
    /\ importAt' = "idle" /\ toImport' = {} /\ killed' = TRUE
    /\ UNCHANGED <<theia, export, due, server, clone_dir, clone, proxy, exit_file,
                   halfWritten, torn, sent, takeover_triggered>>

\* The clone was taken over.
LeaveLockFile ==
    /\ ~takeover_triggered /\ takeover_triggered' = TRUE
    /\ UNCHANGED <<theia, export, due, server, clone_dir, import, aux, faults>>

-----------------------------------------------------------------------------
ExportStep == \E x \in Part : BackUp(x) \/ Sign(x)
ServerStep == (\E f \in File : Pull(f) \/ Push(f)) \/ EndPull \/ EndPush
ImportStep ==
    \/ \E x \in Part : Verify(x) \/ Restore(x) \/ VerifyCustom(x)
    \/ StartImport \/ StopProxy \/ StartProxy \/ Build \/ ImportSucceeds \/ ImportRefuses

Next ==
    \/ BeginExport \/ ExportStep \/ CheckPartitions \/ ExportFails
    \/ \E p \in Partition : Write(p)
    \/ \E j \in {"pull", "push"} : StartJob(j)
    \/ ServerStep \/ PullFails \/ CleaningFails \/ PushFails
    \/ ImportStep \/ ImportFails \/ ImportDies
    \/ LeaveLockFile

\* Programs that started go on, and the event queues run what was notified.
Fairness ==
    /\ WF_vars(ExportStep \/ CheckPartitions)
    /\ WF_vars(ServerStep \/ \E j \in {"pull", "push"} : StartJob(j))
    /\ WF_vars(ImportStep)

Spec == Init /\ [][Next]_vars
FairSpec == Spec /\ Fairness

-----------------------------------------------------------------------------
\* What an import restored is what one export copied, all parts of the same one, however
\* exports and pulls interleave and exports fail: the import refuses a mixture.  Two cases
\* escape, since every part has a signature of its own and nothing signs the whole: a push
\* during the import, and a repository or clone directory left half written by a failure.
RestoredIsOneExport ==
    importAt = "idle" /\ exit_file = "0" /\ ~killed /\ ~torn
        => \E n \in 1..MaxExports : clone = snapshot[n]

\* A clone left without its slapproxy says so by its exit code, unless it was killed.
StoppedProxyIsReported ==
    importAt = "idle" /\ ~proxy /\ ~killed => exit_file = "1"

\* The last export reaches the clone when nothing fails on the way, whatever came before:
\* a job that was notified while another runs is not forgotten.
LastExportArrives ==
    <>[](exportAt = "idle" /\ exports > 0 /\ sent = exports /\ ~faulted /\ ~takeover_triggered
            => clone[Root] = exports /\ importAt = "idle" /\ exit_file = "0")
=============================================================================
