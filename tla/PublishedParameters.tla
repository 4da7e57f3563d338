------------------------- MODULE PublishedParameters -------------------------
(***************************************************************************)
(* slapos/recipe/publish_early.py and publish.py: the connection           *)
(* parameters of a partition, generated by its sections, kept by SlapOS    *)
(* Master and read back by the next run.                                   *)
(*                                                                         *)
(* A run of buildout first initializes the sections, publishes early what  *)
(* is new, then installs the parts: the services, which keep the value     *)
(* they were installed with, [publish], which publishes everything, and    *)
(* [publish-slave], a publish_failsafe for a shared instance as rapid-cdn  *)
(* has them.  A run may die anywhere; a call of SlapOS Master may fail.    *)
(*                                                                         *)
(* A section that is given a value keeps it, and generates one otherwise,  *)
(* as random.Password does: it is the case publish_early is made for.      *)
(***************************************************************************)
EXTENDS Integers, FiniteSets

CONSTANTS
    Key,            \* parameters with a generator, one section each: 1..N
    None,
    MaxValues,      \* bound: values generated, enough for the runs that the faults allow
    MaxFaults,      \* bound: deaths of runs and failed calls
    MaxChanges      \* bound: changes of the configuration

VARIABLES
    published,      \* connection parameters of the partition at SlapOS Master
    shared,         \* those of the shared instance
    config,         \* [forced: parameters given in [publish-early], rest: value of the others]
    at,             \* "idle", "init", "early" or "parts"
    was_published,  \* the parameters as the run read them
    options,        \* the values of this run
    pending,        \* parts still to be installed; a service has the name of its parameter
    installed,      \* configuration with which [publish-slave] is installed, or None
    error_file,     \* the last publication of the shared instance failed
    used,           \* per parameter, the value its service was installed with
    lost,           \* auxiliary: parameters whose value an early publication has dropped
    next, faults, changes   \* bounded by MaxValues, MaxFaults, MaxChanges

run == <<at, was_published, options, pending>>
slave == <<shared, installed, error_file>>
vars == <<published, config, run, slave, used, lost, next, faults, changes>>

Forced == 0                 \* a value that comes with the configuration
Value == 0..MaxValues
Rest == 0                   \* the name of the parameters that are not generated
PublishPart == 0            \* [publish]
SlavePart == -1             \* [publish-slave]

Config == [forced : SUBSET Key, rest : 0..1]

\* What [publish] publishes: its own parameters and those of [publish-early].
Content == [k \in Key \cup {Rest} |->
                IF k = Rest THEN config.rest ELSE options[k]]

TypeOK ==
    /\ DOMAIN published \subseteq Key \cup {Rest}
    /\ \A k \in DOMAIN published : published[k] \in Value
    /\ config \in Config /\ at \in {"idle", "init", "early", "parts"}
    /\ options \in [Key -> Value \cup {None}]
    /\ pending \subseteq Key \cup {PublishPart, SlavePart}
    /\ shared \in {None, 0, 1}
    /\ installed \in Config \cup {None} /\ error_file \in BOOLEAN
    /\ used \in [Key -> Value \cup {None}]
    /\ lost \subseteq Key
    /\ next \in 1..MaxValues + 1 /\ faults \in 0..MaxFaults /\ changes \in 0..MaxChanges

Init ==
    /\ published = [k \in {} |-> None] /\ was_published = published
    /\ config \in {c \in Config : c.rest = 0}
    /\ at = "idle" /\ options = [k \in Key |-> None] /\ pending = {}
    /\ shared = None /\ installed = None /\ error_file = FALSE
    /\ used = [k \in Key |-> None] /\ lost = {}
    /\ next = 1 /\ faults = 0 /\ changes = 0

-----------------------------------------------------------------------------
(* The run. *)

\* Recipe.__init__ of [publish-early] reads what is published.
Start ==
    /\ at = "idle" /\ at' = "init"
    /\ was_published' = published
    /\ options' = [k \in Key |-> IF k \in config.forced THEN Forced ELSE None]
    /\ UNCHANGED <<published, config, pending, slave, used, lost, next, faults, changes>>

ToDo == {k \in Key : options[k] = None}

\* The sections are initialized in the order of '-init', each with its published value.
InitSection(k) ==
    /\ at = "init" /\ k \in ToDo /\ \A l \in ToDo : k <= l
    /\ k \in DOMAIN was_published \/ next <= MaxValues
    /\ options' = [options EXCEPT ![k] = IF k \in DOMAIN was_published THEN was_published[k] ELSE next]
    /\ next' = IF k \in DOMAIN was_published THEN next ELSE next + 1
    /\ at' = IF ToDo = {k} THEN "early" ELSE "init"
    /\ UNCHANGED <<published, config, was_published, pending, slave, used, lost, faults,
                   changes>>

NothingToInit ==
    /\ at = "init" /\ ToDo = {} /\ at' = "early"
    /\ UNCHANGED <<published, config, was_published, options, pending, slave, used, lost, next,
                   faults, changes>>

\* Variant of EarlyParameters: the publication is left to [publish].
NoEarlyParameters == published

\* New values are published at once, alone: the dictionary replaces the one that was published.
EarlyParameters ==
    LET mine == Key \ config.forced
    IN  IF \E k \in mine : k \notin DOMAIN was_published \/ was_published[k] # options[k]
        THEN [k \in mine |-> options[k]] ELSE published

\* Then buildout uninstalls [publish-slave] when its configuration changed; with it goes the
\* file of the last error.
PublishEarly ==
    /\ at = "early" /\ at' = "parts"
    /\ published' = EarlyParameters
    /\ pending' = Key \cup {PublishPart, SlavePart}
    /\ installed' = IF installed = config THEN config ELSE None
    /\ error_file' = (error_file /\ installed = config)
    /\ lost' = lost \cup ((Key \cap DOMAIN published) \ DOMAIN published')
    /\ UNCHANGED <<shared, config, was_published, options, used, next, faults, changes>>

\* A part is done; the run ends with the last one.
Done(part) ==
    /\ at = "parts" /\ part \in pending
    /\ pending' = pending \ {part}
    /\ at' = IF pending' = {} THEN "idle" ELSE "parts"

\* A service is installed, or updated, with the value of the run.
InstallService(k) ==
    /\ Done(k)
    /\ used' = [used EXCEPT ![k] = options[k]]
    /\ UNCHANGED <<published, config, was_published, options, slave, lost, next, faults, changes>>

\* Installed or updated: as it extends [publish-early], the update publishes again.
Publish ==
    /\ Done(PublishPart)
    /\ published' = Content
    /\ UNCHANGED <<config, was_published, options, slave, used, lost, next, faults, changes>>

\* Variant of Republishes: the update does not look at the file of the last error.
RepublishesNothing == installed = None

\* The update of a part that extends no other publishes only after an error.
Republishes == installed = None \/ error_file

PublishSlave ==
    /\ Done(SlavePart)
    /\ shared' = IF Republishes THEN config.rest ELSE shared
    /\ error_file' = IF Republishes THEN FALSE ELSE error_file
    /\ installed' = config
    /\ UNCHANGED <<published, config, was_published, options, used, lost, next, faults, changes>>

\* SlapOS Master refuses: the error is written to the file, and the run goes on.
PublishSlaveFails ==
    /\ faults < MaxFaults /\ faults' = faults + 1
    /\ Done(SlavePart) /\ Republishes
    /\ error_file' = TRUE
    /\ installed' = config
    /\ UNCHANGED <<published, shared, config, was_published, options, used, lost, next, changes>>

\* The run dies, or a call of SlapOS Master other than that of publish_failsafe raises.
Die ==
    /\ at # "idle" /\ faults < MaxFaults
    /\ at' = "idle" /\ faults' = faults + 1 /\ pending' = {}
    /\ UNCHANGED <<published, config, was_published, options, slave, used, lost, next, changes>>

\* The parameters of the partition change between two runs.
ChangeConfig ==
    /\ at = "idle" /\ changes < MaxChanges
    /\ config' \in Config \ {config}
    /\ changes' = changes + 1
    /\ UNCHANGED <<published, run, slave, used, lost, next, faults>>

Run ==
    \/ Start \/ NothingToInit \/ PublishEarly \/ Publish \/ PublishSlave
    \/ \E k \in Key : InitSection(k) \/ InstallService(k)

Next == Run \/ PublishSlaveFails \/ Die \/ ChangeConfig

Spec == Init /\ [][Next]_vars

\* Runs are repeated, and go to their end but for the faults.
FairSpec == Spec /\ WF_vars(Run)

-----------------------------------------------------------------------------
GivesNoOther == \A k \in Key \ lost : used[k] \in {None, Forced} \/ used'[k] \in {used[k], Forced}

\* A service that was installed with a generated value is never given another one, whatever
\* runs die: the value was published before any part was installed (publish_early.py,
\* "parameters that should be published before requesting any partitions").  Except where
\* its published value is lost: while the parameter is forced, the early publication of new
\* values of others goes without it.
ServicesKeepTheirValue == [][GivesNoOther]_vars

AllPublished ==
    /\ DOMAIN published = Key \cup {Rest} /\ published[Rest] = config.rest
    /\ shared = config.rest
    /\ \A k \in Key : used[k] = published[k] /\ (k \in config.forced => used[k] = Forced)

\* Once neither configuration nor faults interfere, the parameters of the partition and of
\* its shared instance are those of the configuration, and the services agree with them.
PublicationConverges == <>[]AllPublished
=============================================================================
