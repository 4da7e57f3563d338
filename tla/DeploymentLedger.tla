-------------------------- MODULE DeploymentLedger --------------------------
(***************************************************************************)
(* What an instance node promises about the instances it requests: it      *)
(* works from a view of the list, which may be old; it deploys only what   *)
(* the view has as valid, with the parameters of the view, and destroys    *)
(* only what is not in the view.                                           *)
(***************************************************************************)
CONSTANTS Instance, Absent

VARIABLES
    list,       \* the list of instances, each with parameters and verdict, or Absent
    view,       \* the list as the node last read it
    deployed    \* parameters every instance is deployed with, or Absent

Init ==
    /\ list = [i \in Instance |-> Absent]
    /\ view = list /\ deployed = list

\* The list changes as its owner likes.
Change == UNCHANGED <<view, deployed>>

Read == view' = list /\ UNCHANGED <<list, deployed>>

Deploy(i) ==
    /\ view[i] # Absent /\ view[i].valid
    /\ deployed' = [deployed EXCEPT ![i] = view[i].parameters]
    /\ UNCHANGED <<list, view>>

Remove(i) ==
    /\ view[i] = Absent
    /\ deployed' = [deployed EXCEPT ![i] = Absent]
    /\ UNCHANGED <<list, view>>

Next == Change \/ Read \/ \E i \in Instance : Deploy(i) \/ Remove(i)

Spec == Init /\ [][Next]_<<list, view, deployed>>
=============================================================================
