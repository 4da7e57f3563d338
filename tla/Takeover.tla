------------------------------- MODULE Takeover -------------------------------
(***************************************************************************)
(* slapos/recipe/addresiliency/takeover.py, run in the clone, and what     *)
(* SlapOS Master knows of the partitions: the one named after the base and *)
(* '0' is the exporter.  Meanwhile the root instance requests number zero  *)
(* at every pass.                                                          *)
(***************************************************************************)
EXTENDS Naturals, FiniteSets

CONSTANT MaxDeaths      \* bound: takeovers that are killed

Partitions == {"exporter", "clone", "new"}

VARIABLES
    at,             \* the step of the takeover
    broken,         \* cp_broken
    locked,         \* takeover_triggered_file_path exists
    name, frozen,   \* at SlapOS Master: the names, and the partitions that are frozen
    reopened,       \* auxiliary: a takeover run again after the first was killed
    deaths

vars == <<at, broken, locked, name, frozen, reopened, deaths>>

TypeOK ==
    /\ at \in {"idle", "rename broken", "rename winner", "lock"}
    /\ broken \in Partitions /\ locked \in BOOLEAN
    /\ name \in [Partitions -> {"0", "1", "broken", "none"}] /\ frozen \subseteq Partitions
    /\ reopened \in BOOLEAN /\ deaths \in 0..MaxDeaths

Init ==
    /\ at = "idle" /\ broken = "exporter" /\ locked = FALSE
    /\ name = [c \in Partitions |->
                  CASE c = "exporter" -> "0" [] c = "clone" -> "1" [] OTHER -> "none"]
    /\ frozen = {} /\ reopened = FALSE /\ deaths = 0

Exporter == {c \in Partitions : name[c] = "0"}

\* A request by name finds the partition that has it, or allocates one.
Requested == IF Exporter # {} THEN CHOOSE c \in Exporter : TRUE ELSE "new"
CanRequest == Exporter # {} \/ name["new"] = "none"

-----------------------------------------------------------------------------
\* The partition to retire is requested, which freezes and stops it.  The winner is the
\* partition the script runs in.
Begin ==
    /\ at = "idle" /\ CanRequest
    /\ at' = "rename broken" /\ broken' = Requested
    /\ name' = [name EXCEPT ![Requested] = "0"]
    /\ frozen' = frozen \cup {Requested}
    /\ UNCHANGED <<locked, reopened, deaths>>

RenameBroken ==
    /\ at = "rename broken" /\ at' = "rename winner"
    /\ name' = [name EXCEPT ![broken] = "broken"]
    /\ UNCHANGED <<broken, locked, frozen, reopened, deaths>>

\* Variant of RenameWinner: a rename that is refused is not tried again.
RenameWinnerOnce ==
    /\ at = "rename winner" /\ at' = "lock"
    /\ name' = IF Exporter = {} THEN [name EXCEPT !["clone"] = "0"] ELSE name
    /\ UNCHANGED <<broken, locked, frozen, reopened, deaths>>

\* The loop of renames: SlapOS Master refuses as long as another partition has the name.
RenameWinner ==
    /\ at = "rename winner" /\ Exporter = {}
    /\ at' = "lock"
    /\ name' = [name EXCEPT !["clone"] = "0"]
    /\ UNCHANGED <<broken, locked, frozen, reopened, deaths>>

\* bang, then the lock file, last: until then the event queue still runs imports.
LeaveLockFile ==
    /\ at = "lock" /\ at' = "idle" /\ locked' = TRUE
    /\ UNCHANGED <<broken, name, frozen, reopened, deaths>>

Die ==
    /\ at # "idle" /\ deaths < MaxDeaths /\ deaths' = deaths + 1
    /\ at' = "idle" /\ reopened' = (reopened \/ locked)
    /\ UNCHANGED <<broken, locked, name, frozen>>

\* The root instance requests number zero as a started exporter.
RequestExporter ==
    /\ CanRequest
    /\ name' = [name EXCEPT ![Requested] = "0"]
    /\ frozen' = frozen \ {Requested}
    /\ UNCHANGED <<at, broken, locked, reopened, deaths>>

Next ==
    \/ Begin \/ RenameBroken \/ RenameWinner \/ LeaveLockFile \/ Die
    \/ RequestExporter

Spec == Init /\ [][Next]_vars

-----------------------------------------------------------------------------
\* The lock file that stops imports exists only once the clone is the exporter and nobody
\* else is, also when takeovers died half way and were run again, and whoever was allocated
\* meanwhile.  Only a takeover run again on the new exporter, and killed, undoes it.
LockedCloneIsExporter ==
    locked /\ at = "idle" /\ ~reopened => Exporter = {"clone"}
=============================================================================
