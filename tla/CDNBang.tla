------------------------------ MODULE CDNBang ------------------------------
(***************************************************************************)
(* How the master partition of the CDN learns of the node's verdicts.      *)
(*                                                                         *)
(* slapgrid processes the master partition when its list of shared         *)
(* instances changed or when it was banged.  It records the list in        *)
(* instance_db, reads the verdicts the node left in requestinstance_db,    *)
(* renders the publish sections of the instances its frontends reported,   *)
(* and touches .timestamp when it is done.  The node runs from cron at any *)
(* time in between and bangs the partition when it thinks that slapgrid    *)
(* must look again: instanceNodePostProcessing of                          *)
(* slapos/recipe/cdninstancenode.py.                                       *)
(*                                                                         *)
(* The clock and the timestamps of this module are whole seconds, which is *)
(* what the node compares.  The processing of one instance is one step     *)
(* here; module CDNInstanceNode takes it apart.                            *)
(***************************************************************************)
EXTENDS InstanceLists, Naturals

CONSTANTS
    Parameters,     \* parameter sets the schema accepts
    Passing,        \* the instances whose domains pass the checks at first
    Delay,          \* instance-retention-delay, in seconds
    Missing,        \* .timestamp does not exist
    MaxTime,        \* bound: the clock stops there
    MaxEvents,      \* bound: changes of the requests and of the checks' outcome, and failures
    MaxFailures     \* bound: runs that die, or whose bang does not get through

ASSUME BangAssumption ==
    /\ Delay \in Nat /\ MaxTime \in Nat /\ MaxEvents \in Nat /\ MaxFailures \in Nat
    /\ Passing \subseteq Instance /\ Missing \notin Nat

Request == [parameters : Parameters]
\* error stands for json_error: no error, a check of the node failed, or the
\* publish section of the instance is not there yet.
Row ==
    [parameters : Parameters, valid_parameter : {"valid", "invalid", "stopped"},
     error : {"none", "check", "publish"}, timestamp : 0..MaxTime]

\* What slapgrid sees of a row.
Verdict == {[parameters |-> r.parameters, valid_parameter |-> r.valid_parameter,
             error |-> r.error] : r \in Row}

ASSUME AbsentAssumption == Absent \notin Request \cup Row \cup Verdict

VARIABLES
    now,                \* the time, in seconds
    requested,          \* the shared instances SlapOS Master has for the partition
    passes,             \* the instances the checks of the node accept now
    reported,           \* the instances the frontends have reported connections of
    instance_db,        \* slapconfiguration's record of requested
    requestinstance_db, \* the node's verdicts
    rendered,           \* the [publish-<reference>] sections of the publish file
    stamp,              \* mtime of .timestamp
    seen,               \* the verdicts slapgrid read last
    due,                \* SlapOS Master wants the partition processed
    slapgrid,           \* "idle", or "busy" between reading and touching .timestamp
    node,               \* "idle", "loop" over todo, or "post" processing
    todo,               \* the instances the run has still to process
    instance_map,       \* the run's copy of instance_db
    comparison,         \* added, modified and removed instances of the run
    retained,           \* _already_retained_references
    timestamp,          \* self.timestamp, taken when the run starts
    bang_requested,     \* _post_deploy_bang_requested
    changes, failures   \* steps taken of the two bounded kinds

world  == <<requested, passes, reported>>
master == <<instance_db, rendered, stamp, seen, slapgrid>>
run    == <<node, todo, instance_map, comparison, retained, timestamp, bang_requested>>
vars   == <<now, world, master, requestinstance_db, due, run, changes, failures>>

\* What slapgrid sees of the rows: all of them but the timestamps.
View(table) ==
    [i \in Instance |->
        IF table[i] = Absent THEN Absent
        ELSE [parameters |-> table[i].parameters,
              valid_parameter |-> table[i].valid_parameter, error |-> table[i].error]]

TypeOK ==
    /\ now \in 0..MaxTime
    /\ requested \in [Instance -> Request \cup {Absent}]
    /\ instance_db \in [Instance -> Request \cup {Absent}]
    /\ passes \subseteq Instance /\ reported \subseteq Instance /\ rendered \subseteq Instance
    /\ requestinstance_db \in [Instance -> Row \cup {Absent}]
    /\ stamp \in (0..now) \cup {Missing} /\ timestamp \in 0..now
    /\ due \in BOOLEAN /\ bang_requested \in BOOLEAN
    /\ slapgrid \in {"idle", "busy"} /\ node \in {"idle", "loop", "post"}
    /\ todo \subseteq Instance
    /\ instance_map \in [Instance -> Request \cup {Absent}]
    /\ comparison \subseteq Instance /\ retained \subseteq Instance
    /\ \A i \in Present(requestinstance_db) : requestinstance_db[i].timestamp <= now

Init ==
    /\ now = 0
    /\ requested = [i \in Instance |-> Absent]
    /\ instance_db = requested /\ requestinstance_db = requested /\ seen = requested
    /\ passes = Passing /\ reported = {} /\ rendered = {}
    /\ stamp \in {Missing, 0}
    /\ due = FALSE /\ slapgrid = "idle"
    /\ node = "idle" /\ todo = {} /\ comparison = {} /\ retained = {}
    /\ instance_map = instance_db
    /\ timestamp = 0 /\ bang_requested = FALSE
    /\ changes = 0 /\ failures = 0

-----------------------------------------------------------------------------
(* The world around the node. *)

Tick ==
    /\ now < MaxTime
    /\ now' = now + 1
    /\ UNCHANGED <<world, master, requestinstance_db, due, run, changes, failures>>

\* An instance is requested, changed or removed; SlapOS Master then wants the
\* partition processed.
ChangeRequest(i) ==
    /\ changes + failures < MaxEvents
    /\ \E row \in (Request \cup {Absent}) \ {requested[i]} :
          requested' = [requested EXCEPT ![i] = row]
    /\ reported' = IF requested'[i] = Absent THEN reported \ {i} ELSE reported
    /\ due' = TRUE
    /\ changes' = changes + 1
    /\ UNCHANGED <<now, passes, master, requestinstance_db, run, failures>>

\* The owner of the domain adds or removes a DNS record.
ChangeCheck(i) ==
    /\ changes + failures < MaxEvents
    /\ passes' = IF i \in passes THEN passes \ {i} ELSE passes \cup {i}
    /\ changes' = changes + 1
    /\ UNCHANGED <<now, requested, reported, master, requestinstance_db, due, run, failures>>

\* A frontend reports the connection of an instance.  Nobody bangs for that.
Report(i) ==
    /\ requested[i] # Absent /\ i \notin reported
    /\ reported' = reported \cup {i}
    /\ UNCHANGED <<now, requested, passes, master, requestinstance_db, due, run, changes,
                   failures>>

\* slapconfiguration does not record an empty list (JsonSchemaWithDB).
SlapgridStarts ==
    /\ slapgrid = "idle" /\ due
    /\ slapgrid' = "busy" /\ due' = FALSE
    /\ instance_db' = IF Present(requested) = {} THEN instance_db ELSE requested
    /\ seen' = View(requestinstance_db)
    /\ rendered' = reported
    /\ UNCHANGED <<now, world, requestinstance_db, stamp, run, changes, failures>>

SlapgridEnds ==
    /\ slapgrid = "busy"
    /\ slapgrid' = "idle" /\ stamp' = now
    /\ UNCHANGED <<now, world, instance_db, requestinstance_db, rendered, seen, due, run,
                   changes, failures>>

-----------------------------------------------------------------------------
(* The node. *)

\* Recipe.__init__ and the comparison of install().
Install ==
    /\ node = "idle" /\ node' = "loop"
    /\ timestamp' = IF stamp = Missing THEN now ELSE stamp
    /\ LET new      == Added(instance_db, requestinstance_db)
           modified == Modified(instance_db, requestinstance_db)
           gone     == Removed(instance_db, requestinstance_db)
           unsettled == {i \in Present(requestinstance_db) :
                            requestinstance_db[i].valid_parameter # "valid"}
       IN  /\ todo' = new \cup modified \cup gone \cup unsettled
           /\ comparison' = new \cup modified \cup gone
    /\ instance_map' = instance_db
    /\ retained' = {} /\ bang_requested' = FALSE
    /\ UNCHANGED <<now, world, master, requestinstance_db, due, changes, failures>>

\* Variant of NewTimestamp: every write is dated.
AlwaysNow(i, parameters, error) == now

\* updateInstanceInDB keeps the timestamp of a row that stays as it was.
NewTimestamp(i, parameters, error) ==
    LET old == requestinstance_db[i]
    IN  IF /\ old # Absent
           /\ old.parameters = parameters
           /\ old.error = error
           /\ old.valid_parameter # "stopped"
        THEN old.timestamp ELSE now

\* Variant of NeedsBang: a missing publish section is not worth a bang.
NeverNeedsBang(error) == FALSE

\* postDeployInstanceValidation asks for a bang when the section is missing.
NeedsBang(error) == error = "publish"

\* What stops _processInstance: a check of the node, then the publish file.
ErrorOf(i) ==
    IF i \notin passes THEN "check" ELSE IF i \notin rendered THEN "publish" ELSE "none"

\* _processInstance on an instance that is requested.
Process(i) ==
    /\ node = "loop" /\ i \in todo /\ instance_map[i] # Absent
    /\ LET error == ErrorOf(i)
           p     == instance_map[i].parameters
       IN  /\ requestinstance_db' =
                [requestinstance_db EXCEPT
                   ![i] = [parameters |-> p, error |-> error,
                           valid_parameter |-> IF error = "none" THEN "valid" ELSE "invalid",
                           timestamp |-> NewTimestamp(i, p, error)]]
           /\ bang_requested' = (bang_requested \/ NeedsBang(error))
    /\ todo' = todo \ {i}
    /\ UNCHANGED <<now, world, master, due, node, instance_map, comparison, retained,
                   timestamp, changes, failures>>

\* The loop has come to an instance that disappeared.  The requested ones are first.
AtRemoved(i) ==
    /\ node = "loop" /\ i \in todo
    /\ \A j \in todo : instance_map[j] = Absent

Stopped(i) == requestinstance_db[i].valid_parameter = "stopped"

Expired(i) == now - requestinstance_db[i].timestamp >= Delay

\* shouldDestroyInstance, within the delay.
KeepRetained(i) ==
    /\ AtRemoved(i) /\ Stopped(i) /\ ~Expired(i) /\ Delay > 0
    /\ retained' = retained \cup {i}
    /\ todo' = todo \ {i}
    /\ UNCHANGED <<now, world, master, requestinstance_db, due, node, instance_map,
                   comparison, timestamp, bang_requested, changes, failures>>

\* Variant of EnterRetention: the row keeps its date.
EnterRetentionUndated(i) ==
    /\ AtRemoved(i) /\ ~Stopped(i) /\ Delay > 0
    /\ requestinstance_db' = [requestinstance_db EXCEPT ![i].valid_parameter = "stopped"]
    /\ todo' = todo \ {i}
    /\ UNCHANGED <<now, world, master, due, node, instance_map, comparison, retained,
                   timestamp, bang_requested, changes, failures>>

\* shouldDestroyInstance, first disappearance.
EnterRetention(i) ==
    /\ AtRemoved(i) /\ ~Stopped(i) /\ Delay > 0
    /\ requestinstance_db' =
          [requestinstance_db EXCEPT ![i].valid_parameter = "stopped", ![i].timestamp = now]
    /\ todo' = todo \ {i}
    /\ UNCHANGED <<now, world, master, due, node, instance_map, comparison, retained,
                   timestamp, bang_requested, changes, failures>>

\* shouldDestroyInstance after the delay, and _processDestroyedInstance.
Destroy(i) ==
    /\ AtRemoved(i) /\ (Delay > 0 => Stopped(i) /\ Expired(i))
    /\ requestinstance_db' = [requestinstance_db EXCEPT ![i] = Absent]
    /\ todo' = todo \ {i}
    /\ UNCHANGED <<now, world, master, due, node, instance_map, comparison, retained,
                   timestamp, bang_requested, changes, failures>>

EndLoop ==
    /\ node = "loop" /\ todo = {}
    /\ node' = "post"
    /\ UNCHANGED <<now, world, master, requestinstance_db, due, todo, instance_map, comparison,
                   retained, timestamp, bang_requested, changes, failures>>

\* Variant of NeedsReprocessing: the timestamps are the only signal.
ChangedByTimestamp ==
    \E i \in Present(requestinstance_db) : requestinstance_db[i].timestamp > timestamp

\* Variant of NeedsReprocessing: without the timestamps.
ChangedByComparison == comparison \ retained # {} \/ bang_requested

\* The three signals of instanceNodePostProcessing.
NeedsReprocessing ==
    \/ comparison \ retained # {}
    \/ \E i \in Present(requestinstance_db) : requestinstance_db[i].timestamp > timestamp
    \/ bang_requested

ResetRun ==
    /\ node' = "idle" /\ todo' = {} /\ comparison' = {} /\ retained' = {}
    /\ instance_map' = [i \in Instance |-> Absent]
    /\ timestamp' = 0 /\ bang_requested' = FALSE

Bang ==
    /\ node = "post" /\ NeedsReprocessing
    /\ due' = TRUE
    /\ ResetRun
    /\ UNCHANGED <<now, world, master, requestinstance_db, changes, failures>>

NoBang ==
    /\ node = "post" /\ ~NeedsReprocessing
    /\ ResetRun
    /\ UNCHANGED <<now, world, master, requestinstance_db, due, changes, failures>>

\* The run dies, or the bang raises: what it wrote stays.
Fail ==
    /\ node # "idle" /\ failures < MaxFailures /\ changes + failures < MaxEvents
    /\ failures' = failures + 1
    /\ ResetRun
    /\ UNCHANGED <<now, world, master, requestinstance_db, due, changes>>

-----------------------------------------------------------------------------
NodeStep ==
    \/ Install
    \/ \E i \in Instance :
          Process(i) \/ KeepRetained(i) \/ EnterRetention(i) \/ Destroy(i)
    \/ EndLoop \/ Bang \/ NoBang

SlapgridStep == SlapgridStarts \/ SlapgridEnds

Next ==
    \/ NodeStep \/ SlapgridStep \/ Fail \/ Tick
    \/ \E i \in Instance : ChangeRequest(i) \/ ChangeCheck(i) \/ Report(i)

Spec == Init /\ [][Next]_vars

-----------------------------------------------------------------------------
(* Safety. *)

\* Nothing is under way that would make slapgrid read the verdicts again.
Quiet == node = "idle" /\ slapgrid = "idle" /\ ~due

\* When validation state changed, slapgrid is made to look at it.
ChangesReachMaster == Quiet => seen = View(requestinstance_db)
=============================================================================
