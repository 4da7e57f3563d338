--------------------------- MODULE CDNBangHistory ---------------------------
(***************************************************************************)
(* CDNBang with a memory: when and by which run each verdict was written.  *)
(*                                                                         *)
(* The tables keep one date per row, which is what the node decides by.    *)
(* The variables of this module do not take part in anything: they record, *)
(* from the changes of the verdicts alone, what the dates of the rows are  *)
(* meant to say, and the properties compare the node's decisions with it.  *)
(***************************************************************************)
EXTENDS CDNBang

VARIABLES
    written,    \* the second in which the verdict of an instance last changed
    level,      \* the instances for which that was the second the run had for .timestamp
    wrote,      \* the instances whose verdict the run under way has changed
    lost        \* those whose verdict was changed by a run that did not get to its
                \* bang; slapgrid has not read the verdicts since

history == <<written, level, wrote, lost>>

HistoryTypeOK ==
    /\ written \in [Instance -> 0..now]
    /\ level \subseteq Instance /\ wrote \subseteq Instance /\ lost \subseteq Instance

HInit ==
    /\ Init
    /\ written = [i \in Instance |-> 0]
    /\ level = {} /\ wrote = {} /\ lost = {}

\* The instances whose verdict a step changes.
Changed == {i \in Instance : View(requestinstance_db)'[i] # View(requestinstance_db)[i]}

Remember ==
    /\ written' = [i \in Instance |-> IF i \in Changed THEN now ELSE written[i]]
    /\ level' = IF now = timestamp THEN level \cup Changed ELSE level \ Changed
    /\ wrote' = IF node' = "idle" THEN {} ELSE wrote \cup Changed
    /\ lost' = IF Fail THEN lost \cup wrote
               ELSE IF SlapgridStarts THEN {} ELSE lost \ Changed

HNext == Next /\ Remember

HSpec == HInit /\ [][HNext]_<<vars, history>>

-----------------------------------------------------------------------------
(* Properties. *)

\* When nothing is under way, a verdict slapgrid has not read was written in the very
\* second that the run that wrote it had found .timestamp touched in (or had begun in,
\* when there was no .timestamp), by a row that is there; or by a run that died before its
\* bang or whose bang did not get through.  No verdict is missed otherwise: not for being
\* written while slapgrid was busy, nor because .timestamp moved during the run, nor
\* because the row was removed.
OnlySameSecondIsMissed ==
    Quiet =>
        \A i \in Instance :
            View(requestinstance_db)[i] # seen[i] =>
                \/ i \in lost
                \/ requestinstance_db[i] # Absent /\ i \in level

\* An instance is forgotten only when Delay seconds have passed since it was put into
\* retention, whatever was written to its row and whatever runs died since; and a run
\* that comes to it after that does not retain it any longer.
RetainedForTheDelay ==
    [][\A i \in Instance :
          /\ requestinstance_db[i] # Absent /\ requestinstance_db'[i] = Absent
                => Stopped(i) /\ now >= written[i] + Delay
          /\ i \in retained' \ retained => now < written[i] + Delay]_<<vars, history>>
=============================================================================
