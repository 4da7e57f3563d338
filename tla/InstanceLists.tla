--------------------------- MODULE InstanceLists ---------------------------
(***************************************************************************)
(* Lists of instances as slapos/recipe/localinstancedb.py keeps and        *)
(* compares them.  A table keyed by reference is a function from every     *)
(* reference to its row or to Absent.  The hash column is an injective     *)
(* digest of the parameters (InstanceListComparator.updateHashDict), so    *)
(* hashes are compared by comparing the parameters they were taken of.     *)
(***************************************************************************)
CONSTANTS
    Instance,   \* references an instance may have
    Absent      \* stands for a row that is not in the table

\* The references a table holds: self.update_instance_set, self.stored_instance_set.
Present(table) == {i \in Instance : table[i] # Absent}

\* getNewInstancesList
Added(update, stored) == Present(update) \ Present(stored)

\* getDestroyedInstanceList
Removed(update, stored) == Present(stored) \ Present(update)

\* getModifiedInstanceList: only the parameters are hashed, so a row whose
\* validity alone changed is not a modified one.
Modified(update, stored) ==
    {i \in Present(update) \cap Present(stored) :
        update[i].parameters # stored[i].parameters}

\* Variant of Reprocessed: retained rows are not looked at.
ReprocessedInvalid(update, stored) ==
    {i \in Present(stored) \ Removed(update, stored) :
        stored[i].valid_parameter = "invalid"}

\* The rows whose last verdict was not 'valid' are processed again even when
\* their parameters did not change.
Reprocessed(update, stored) ==
    {i \in Present(stored) \ Removed(update, stored) :
        stored[i].valid_parameter # "valid"}
=============================================================================
