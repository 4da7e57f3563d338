------------------------------- MODULE Requests -------------------------------
(***************************************************************************)
(* slapos/recipe/request.py: a partition requests other instances in every *)
(* run of buildout, and its parts use the connection parameters that these *)
(* publish.  A request fails as long as a value is missing; that of        *)
(* RequestOptional never does, and gives empty values meanwhile.           *)
(*                                                                         *)
(* The requested instances publish, or do not, one by one; SlapOS Master   *)
(* may fail.  RequestEdge is a request per country, that is several        *)
(* mandatory ones.  Parameters that are sent are left out.                 *)
(***************************************************************************)
EXTENDS Naturals, FiniteSets

CONSTANTS
    Child,          \* requested instances
    Param,          \* connection parameters each is asked for
    Optional,       \* of Child, those requested with RequestOptional
    None,
    MaxChanges,     \* bound: publications, and changes of the state of the partition
    MaxFaults       \* bound: calls of SlapOS Master that fail

VARIABLES
    requested,      \* state SlapOS Master has for the partition
    known,          \* per child, the state that was requested, or None before the first request
    published,      \* per child, its published parameters with their values
    at,             \* "idle", "init" or "install"
    todo,           \* children whose section is still to be initialized, or installed
    connection,     \* options connection-*: per child and parameter, a value or Empty
    raises,         \* per child, the exception install() would raise: "none", "request", "missing"
    used,           \* per child, the values the part that uses it was installed with, or None
    changes, faults

run == <<at, todo, connection, raises>>
vars == <<requested, known, published, run, used, changes, faults>>

Empty == 0
Value == 0..MaxChanges
State == {"started", "stopped", "destroyed"}
NoValues == [p \in Param |-> Empty]

TypeOK ==
    /\ requested \in State
    /\ known \in [Child -> (State \ {"destroyed"}) \cup {None}]
    /\ published \in [Child -> [Param -> Value]]
    /\ at \in {"idle", "init", "install"} /\ todo \subseteq Child
    /\ connection \in [Child -> [Param -> Value]]
    /\ raises \in [Child -> {"none", "request", "missing"}]
    /\ used \in [Child -> [Param -> Value] \cup {None}]
    /\ changes \in 0..MaxChanges /\ faults \in 0..MaxFaults

Init ==
    /\ requested = "started" /\ known = [c \in Child |-> None]
    /\ published = [c \in Child |-> NoValues]
    /\ at = "idle" /\ todo = {}
    /\ connection = [c \in Child |-> NoValues] /\ raises = [c \in Child |-> "none"]
    /\ used = [c \in Child |-> None]
    /\ changes = 0 /\ faults = 0

-----------------------------------------------------------------------------
Start ==
    /\ at = "idle" /\ at' = "init" /\ todo' = Child
    /\ UNCHANGED <<requested, known, published, connection, raises, used, changes, faults>>

\* Sections and parts are taken one by one, in some order.
NextPart(c, then) ==
    /\ c \in todo
    /\ todo' = IF todo = {c} /\ then = "install" THEN Child ELSE todo \ {c}
    /\ at' = IF todo = {c} THEN then ELSE at

\* Variant of DefaultState: the state of the partition as it is.
StateAsIs == requested

\* A destroyed partition does not destroy what it requested.
DefaultState == IF requested = "destroyed" THEN "started" ELSE requested

\* Recipe.__init__: the request is answered, and its values are read; some may be missing.
RequestAnswered(c) ==
    /\ at = "init" /\ NextPart(c, "install")
    /\ known' = [known EXCEPT ![c] = DefaultState]
    /\ connection' = [connection EXCEPT ![c] = published[c]]
    /\ raises' = [raises EXCEPT ![c] = IF \E p \in Param : published[c][p] = Empty
                                       THEN "missing" ELSE "none"]
    /\ UNCHANGED <<requested, published, used, changes, faults>>

\* NotFoundError, ServerError or ResourceNotReady, before or after the request was taken:
\* the values are empty, and install() will raise.
RequestFails(c) ==
    /\ at = "init" /\ NextPart(c, "install")
    /\ faults < MaxFaults /\ faults' = faults + 1
    /\ known' \in {known, [known EXCEPT ![c] = DefaultState]}
    /\ connection' = [connection EXCEPT ![c] = NoValues]
    /\ raises' = [raises EXCEPT ![c] = "request"]
    /\ UNCHANGED <<requested, published, used, changes>>

\* Another exception stops the run before anything is installed.
RunFails ==
    /\ at = "init" /\ at' = "idle" /\ todo' = {}
    /\ faults < MaxFaults /\ faults' = faults + 1
    /\ UNCHANGED <<requested, known, published, connection, raises, used, changes>>

\* Variant of Raises: only the failure of the request itself stops the installation.
RaisesOnFailure(c) == raises[c] = "request" /\ c \notin Optional

Raises(c) == raises[c] # "none" /\ c \notin Optional

\* install() of the request, then of the part that refers to its values.
InstallUser(c) ==
    /\ at = "install" /\ ~Raises(c) /\ NextPart(c, "idle")
    /\ used' = [used EXCEPT ![c] = connection[c]]
    /\ UNCHANGED <<requested, known, published, connection, raises, changes, faults>>

\* The exception ends the run: what comes later is not installed.
InstallRaises(c) ==
    /\ at = "install" /\ c \in todo /\ Raises(c)
    /\ at' = "idle" /\ todo' = {}
    /\ UNCHANGED <<requested, known, published, connection, raises, used, changes, faults>>

\* A child publishes; only once it was requested.
PublishChild(c) ==
    /\ known[c] # None /\ changes < MaxChanges /\ changes' = changes + 1
    /\ \E p \in Param : published' = [published EXCEPT ![c][p] = changes']
    /\ UNCHANGED <<requested, known, run, used, faults>>

ChangeState ==
    /\ at = "idle" /\ changes < MaxChanges /\ changes' = changes + 1
    /\ requested' \in State \ {requested}
    /\ UNCHANGED <<known, published, run, used, faults>>

Run ==
    \/ Start
    \/ \E c \in Child : RequestAnswered(c) \/ InstallUser(c) \/ InstallRaises(c)

Next ==
    \/ Run \/ RunFails \/ ChangeState
    \/ \E c \in Child : RequestFails(c) \/ PublishChild(c)

Spec == Init /\ [][Next]_vars

\* slapgrid runs buildout again and again.
FairSpec == Spec /\ WF_vars(Run)

-----------------------------------------------------------------------------
\* Values are numbered in the order in which they were published.
UsesEveryValue ==
    \A c \in Child \ Optional : used'[c] # used[c] =>
        \A p \in Param : /\ used'[c][p] # Empty
                         /\ used[c] # None => used'[c][p] >= used[c][p]

Complete(c) == \A p \in Param : published[c][p] # Empty
AllComplete == \A c \in Child \ Optional : Complete(c)

\* A part that needs a child is never installed with a value missing, nor again with an older
\* value than it has, through failures of SlapOS Master and partial publications; and when no
\* mandatory value is missing any more, every part ends up installed with what its child
\* published last.
MandatoryValuesArrive ==
    /\ [][UsesEveryValue]_vars
    /\ <>[](AllComplete => \A c \in Child : used[c] = published[c])
=============================================================================
