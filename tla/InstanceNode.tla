---------------------------- MODULE InstanceNode ----------------------------
(***************************************************************************)
(* The base instance node, slapos/recipe/instancenode.py, between the      *)
(* record slapgrid writes and SlapOS Master: it requests an instance for   *)
(* every valid shared instance of the record, publishes the connection of  *)
(* the one as the connection of the other, and destroys what it requested  *)
(* when the shared instance is gone.                                       *)
(*                                                                         *)
(* A request, a publication and a commit are steps of their own, since a   *)
(* run may die between any two and each may fail.  The recorder            *)
(* (JsonSchemaWithDB and updateFromValidationResults) is one transaction.  *)
(***************************************************************************)
EXTENDS InstanceLists, Naturals

CONSTANTS
    Parameters,     \* parameter sets
    Nothing,        \* nothing was published
    Message,        \* an error or a message was published
    NoInstance,     \* the run is at no instance
    MaxChanges,     \* bound: changes of the requests, the schema and the connections
    MaxFailures     \* bound: requests and publications that fail
                    \* (deaths of a run have a bound of their own)
CONSTANT MaxCrashes

ASSUME NodeAssumption ==
    /\ Nothing \notin Parameters /\ Message \notin Parameters /\ Nothing # Message
    /\ Absent \notin Parameters /\ NoInstance \notin Instance
    /\ Absent \notin [parameters : Parameters, valid : BOOLEAN]
    /\ Absent \notin [parameters : Parameters, valid_parameter : {"valid", "invalid"},
                      info : Parameters \cup {Nothing, Message}]
    /\ MaxChanges \in Nat /\ MaxFailures \in Nat /\ MaxCrashes \in Nat

Information == Parameters \cup {Nothing, Message}
Judged == [parameters : Parameters, valid : BOOLEAN]
Row == [parameters : Parameters, valid_parameter : {"valid", "invalid"}, info : Information]

VARIABLES
    requested,          \* the shared instances SlapOS Master has for the partition
    schema,             \* the parameter sets the schema accepts now
    instance_db,        \* slapconfiguration's record of requested, with its verdicts
    requestinstance_db, \* the node's table; info is its json_error column
    deployed,           \* the instances the node requested: their parameters at the Master
    connection,         \* the connection each of these has published: the parameters it is
                        \* of, which deployed may have left behind, or Nothing
    published,          \* what the Master was last sent for the shared instance
    pc,                 \* where the run is: "idle" when none runs
    cur,                \* the instance the run is at
    added, changed, removed,    \* what the run has still to do
    instance_map,       \* the list the run read
    publish_information,        \* of cur
    needs_reprocessing, \* instance_needs_reprocessing, of cur
    answered,           \* auxiliary: the connection the Master had when the node last
                        \* requested the instance
    judgedBefore,       \* auxiliary: rows judged by a schema that was replaced since
    unsent,             \* auxiliary: instances whose last publication failed
    lost,               \* auxiliary: instances a run left between Master and table: it died
                        \* there, or a destruction raised although the Master did it
    changes, failures, crashes  \* steps taken of the bounded kinds

world == <<requested, schema, connection>>
todo  == <<added, changed, removed, instance_map>>
local == <<publish_information, needs_reprocessing>>
aux   == <<answered, judgedBefore, unsent, lost>>
count == <<changes, failures, crashes>>
vars  == <<world, instance_db, requestinstance_db, deployed, published, pc, cur, todo,
           local, aux, count>>

Labels == {"idle", "loop", "request", "publish", "record", "destroy row"}

TypeOK ==
    /\ requested \in [Instance -> Parameters \cup {Absent}]
    /\ schema \subseteq Parameters
    /\ instance_db \in [Instance -> Judged \cup {Absent}]
    /\ requestinstance_db \in [Instance -> Row \cup {Absent}]
    /\ deployed \in [Instance -> Parameters \cup {Absent}]
    /\ connection \in [Instance -> Parameters \cup {Nothing}]
    /\ answered \in [Instance -> Parameters \cup {Nothing}]
    /\ published \in [Instance -> Information]
    /\ pc \in Labels /\ cur \in Instance \cup {NoInstance}
    /\ added \subseteq Instance /\ changed \subseteq Instance /\ removed \subseteq Instance
    /\ instance_map \in [Instance -> Judged \cup {Absent}]
    /\ publish_information \in Information /\ needs_reprocessing \in BOOLEAN
    /\ judgedBefore \subseteq Instance /\ unsent \subseteq Instance /\ lost \subseteq Instance
    /\ changes \in 0..MaxChanges /\ failures \in 0..MaxFailures /\ crashes \in 0..MaxCrashes

Init ==
    /\ requested = [i \in Instance |-> Absent]
    /\ schema \in SUBSET Parameters
    /\ instance_db = [i \in Instance |-> Absent]
    /\ requestinstance_db = [i \in Instance |-> Absent]
    /\ deployed = [i \in Instance |-> Absent]
    /\ connection = [i \in Instance |-> Nothing] /\ answered = connection
    /\ published = [i \in Instance |-> Nothing]
    /\ pc = "idle" /\ cur = NoInstance
    /\ added = {} /\ changed = {} /\ removed = {}
    /\ instance_map = [i \in Instance |-> Absent]
    /\ publish_information = Nothing /\ needs_reprocessing = TRUE
    /\ judgedBefore = {} /\ unsent = {} /\ lost = {}
    /\ changes = 0 /\ failures = 0 /\ crashes = 0

-----------------------------------------------------------------------------
(* The world around the node. *)

\* A shared instance is requested, changed or destroyed by its owner.
ChangeRequest(i) ==
    /\ changes < MaxChanges
    /\ \E p \in (Parameters \cup {Absent}) \ {requested[i]} :
          requested' = [requested EXCEPT ![i] = p]
    /\ changes' = changes + 1
    /\ UNCHANGED <<schema, connection, instance_db, requestinstance_db, deployed, published,
                   pc, cur, todo, local, aux, failures, crashes>>

\* The software release is upgraded to one with another schema.
ChangeSchema ==
    /\ changes < MaxChanges
    /\ \E accepted \in SUBSET Parameters : accepted # schema /\ schema' = accepted
    /\ judgedBefore' = Present(instance_db)
    /\ changes' = changes + 1
    /\ UNCHANGED <<requested, connection, instance_db, requestinstance_db, deployed, published,
                   pc, cur, todo, local, answered, unsent, lost, failures, crashes>>

\* A deployed instance is processed with its parameters, and publishes its connection.
Connect(i) ==
    /\ deployed[i] # Absent /\ connection[i] # deployed[i]
    /\ connection' = [connection EXCEPT ![i] = deployed[i]]
    /\ UNCHANGED <<requested, schema, instance_db, requestinstance_db, deployed, published,
                   pc, cur, todo, local, aux, count>>

-----------------------------------------------------------------------------
(* The recorder, run by slapgrid: JsonSchemaWithDB. *)

\* _validateShared on one entry of the list.
Judge(i) == [parameters |-> requested[i], valid |-> requested[i] \in schema]

\* The list as validated now.
Validated == [i \in Instance |-> IF requested[i] = Absent THEN Absent ELSE Judge(i)]

\* Variant of UpdateFromValidationResults: a changed row keeps its verdict.
UpdateParametersOnly ==
    [i \in Instance |->
        IF i \in Modified(Validated, instance_db)
        THEN [instance_db[i] EXCEPT !.parameters = requested[i]]
        ELSE IF i \in Added(Validated, instance_db) THEN Judge(i)
        ELSE IF i \in Removed(Validated, instance_db) THEN Absent ELSE instance_db[i]]

\* updateFromValidationResults: rows are removed, added and modified in one transaction;
\* the comparison is by parameters, so that a row whose verdict alone changed stays.
UpdateFromValidationResults ==
    [i \in Instance |->
        IF i \in Added(Validated, instance_db) \cup Modified(Validated, instance_db)
        THEN Judge(i)
        ELSE IF i \in Removed(Validated, instance_db) THEN Absent ELSE instance_db[i]]

\* A slapgrid pass whose main parameters are valid and whose list is not empty.  When
\* either fails nothing is recorded.
Record ==
    /\ Present(requested) # {}
    /\ instance_db' = UpdateFromValidationResults
    /\ instance_db' # instance_db
    /\ judgedBefore' = {i \in judgedBefore : instance_db'[i] = instance_db[i]}
    /\ UNCHANGED <<world, requestinstance_db, deployed, published, pc, cur, todo, local,
                   answered, unsent, lost, count>>

-----------------------------------------------------------------------------
(* A run: install(). *)

Install ==
    /\ pc = "idle" /\ pc' = "loop"
    /\ instance_map' = instance_db
    /\ added' = Added(instance_db, requestinstance_db)
    /\ changed' = Modified(instance_db, requestinstance_db)
                    \cup Reprocessed(instance_db, requestinstance_db)
    /\ removed' = Removed(instance_db, requestinstance_db)
    /\ UNCHANGED <<world, instance_db, requestinstance_db, deployed, published, cur, local,
                   aux, count>>

\* Variant of ProcessInstance: the verdict of the record is not looked at.
ProcessInvalidToo(i) ==
    /\ pc = "loop"
    /\ i \in IF added # {} THEN added ELSE changed
    /\ cur' = i /\ added' = added \ {i} /\ changed' = changed \ {i}
    /\ needs_reprocessing' = TRUE
    /\ pc' = "request" /\ publish_information' = Nothing
    /\ UNCHANGED <<world, instance_db, requestinstance_db, deployed, published, removed,
                   instance_map, aux, count>>

\* The head of _processInstance.  What the schema refused goes straight to its
\* publication; preDeployInstanceValidation of the base class accepts everything.
ProcessInstance(i) ==
    /\ pc = "loop"
    /\ i \in IF added # {} THEN added ELSE changed
    /\ cur' = i /\ added' = added \ {i} /\ changed' = changed \ {i}
    /\ needs_reprocessing' = TRUE
    /\ \/ instance_map[i].valid  /\ pc' = "request" /\ publish_information' = Nothing
       \/ ~instance_map[i].valid /\ pc' = "publish" /\ publish_information' = Message
    /\ UNCHANGED <<world, instance_db, requestinstance_db, deployed, published, removed,
                   instance_map, aux, count>>

\* deployInstance and postDeployInstanceValidation: the request is made; the connection
\* the Master has of the instance is taken over, be it of the parameters it had before
\* this request, or a message while there is none.
RequestInstance ==
    /\ pc = "request" /\ pc' = "publish"
    /\ deployed' = [deployed EXCEPT ![cur] = instance_map[cur].parameters]
    /\ \/ connection[cur] # Nothing /\ publish_information' = connection[cur]
                                   /\ needs_reprocessing' = FALSE
       \/ connection[cur] = Nothing /\ publish_information' = Message
                                   /\ needs_reprocessing' = TRUE
    /\ answered' = [answered EXCEPT ![cur] = connection[cur]]
    /\ UNCHANGED <<world, instance_db, requestinstance_db, published, cur, todo, judgedBefore,
                   unsent, lost, count>>

\* The request raises, whether SlapOS Master took it or not: there is nothing to publish.
RequestFails ==
    /\ pc = "request" /\ pc' = "record"
    /\ failures < MaxFailures /\ failures' = failures + 1
    /\ \/ deployed' = [deployed EXCEPT ![cur] = instance_map[cur].parameters]
       \/ UNCHANGED deployed
    /\ publish_information' = Nothing /\ needs_reprocessing' = TRUE
    /\ UNCHANGED <<world, instance_db, requestinstance_db, published, cur, todo, aux, changes,
                   crashes>>

\* publishInstanceInformation, publishInstanceErrorInformation
Publish ==
    /\ pc = "publish" /\ pc' = "record"
    /\ published' = [published EXCEPT ![cur] = publish_information]
    /\ unsent' = unsent \ {cur}
    /\ UNCHANGED <<world, instance_db, requestinstance_db, deployed, cur, todo, local,
                   answered, judgedBefore, lost, count>>

\* A publication that fails is logged, and the run goes on as if it had not.
PublishFails ==
    /\ pc = "publish" /\ pc' = "record"
    /\ failures < MaxFailures /\ failures' = failures + 1
    /\ unsent' = unsent \cup {cur}
    /\ UNCHANGED <<world, instance_db, requestinstance_db, deployed, published, cur, todo,
                   local, answered, judgedBefore, lost, changes, crashes>>

\* _processInstance returns: its variables are no more.
Forget == publish_information' = Nothing /\ needs_reprocessing' = TRUE

\* Variant of UpdateInstanceInDB: whatever was processed is recorded as valid.
UpdateAsValid ==
    /\ pc = "record" /\ pc' = "loop" /\ cur' = NoInstance
    /\ requestinstance_db' =
          [requestinstance_db EXCEPT
             ![cur] = [parameters |-> instance_map[cur].parameters,
                       valid_parameter |-> "valid", info |-> publish_information]]
    /\ Forget
    /\ lost' = lost \ {cur}
    /\ UNCHANGED <<world, instance_db, deployed, published, todo, answered, judgedBefore,
                   unsent, count>>

UpdateInstanceInDB ==
    /\ pc = "record" /\ pc' = "loop" /\ cur' = NoInstance
    /\ requestinstance_db' =
          [requestinstance_db EXCEPT
             ![cur] = [parameters |-> instance_map[cur].parameters,
                       valid_parameter |-> IF needs_reprocessing THEN "invalid" ELSE "valid",
                       info |-> publish_information]]
    /\ Forget
    /\ lost' = lost \ {cur}
    /\ UNCHANGED <<world, instance_db, deployed, published, todo, answered, judgedBefore,
                   unsent, count>>

\* The loop has come to the instances that disappeared.
AtRemoved(i) == pc = "loop" /\ added = {} /\ changed = {} /\ i \in removed

\* _processDestroyedInstance: the destruction is requested, then the row is removed.
RequestDestroyed(i) ==
    /\ AtRemoved(i)
    /\ cur' = i /\ pc' = "destroy row" /\ removed' = removed \ {i}
    /\ deployed' = [deployed EXCEPT ![i] = Absent]
    /\ connection' = [connection EXCEPT ![i] = Nothing]
    /\ UNCHANGED <<requested, schema, instance_db, requestinstance_db, published, added,
                   changed, instance_map, local, aux, count>>

\* Variant of EndRun: the row of an instance whose destruction failed is removed.
EndRunForgetting(i) ==
    /\ pc' = "idle" /\ cur' = NoInstance
    /\ added' = {} /\ changed' = {} /\ removed' = {} /\ Forget
    /\ requestinstance_db' =
          IF i \in removed THEN [requestinstance_db EXCEPT ![i] = Absent]
          ELSE requestinstance_db

\* A run that ends before its time leaves the tables as they are; i is where it was.
EndRun(i) ==
    /\ pc' = "idle" /\ cur' = NoInstance
    /\ added' = {} /\ changed' = {} /\ removed' = {} /\ Forget
    /\ UNCHANGED requestinstance_db

\* A destruction that fails raises: the rest of the run does not take place.
DestroyFails(i) ==
    /\ AtRemoved(i)
    /\ failures < MaxFailures /\ failures' = failures + 1
    /\ \/ /\ deployed' = [deployed EXCEPT ![i] = Absent]
          /\ connection' = [connection EXCEPT ![i] = Nothing]
          /\ lost' = lost \cup {i}
       \/ UNCHANGED <<deployed, connection, lost>>
    /\ EndRun(i)
    /\ UNCHANGED <<requested, schema, instance_db, published, instance_map, answered,
                   judgedBefore, unsent, changes, crashes>>

\* _removeInstanceFromDB
DestroyRow ==
    /\ pc = "destroy row" /\ pc' = "loop" /\ cur' = NoInstance
    /\ requestinstance_db' = [requestinstance_db EXCEPT ![cur] = Absent]
    /\ lost' = lost \ {cur}
    /\ UNCHANGED <<world, instance_db, deployed, published, todo, local, answered,
                   judgedBefore, unsent, count>>

Finish ==
    /\ pc = "loop" /\ added = {} /\ changed = {} /\ removed = {}
    /\ pc' = "idle"
    /\ UNCHANGED <<world, instance_db, requestinstance_db, deployed, published, cur, todo,
                   local, aux, count>>

\* The run is killed.
Die ==
    /\ pc # "idle"
    /\ crashes < MaxCrashes /\ crashes' = crashes + 1
    /\ lost' = lost \cup ({cur} \ {NoInstance})
    /\ EndRun(cur)
    /\ UNCHANGED <<world, instance_db, deployed, published, instance_map, answered,
                   judgedBefore, unsent, changes, failures>>

-----------------------------------------------------------------------------
NodeStep ==
    \/ Install
    \/ \E i \in Instance : ProcessInstance(i) \/ RequestDestroyed(i)
    \/ RequestInstance \/ Publish \/ UpdateInstanceInDB
    \/ DestroyRow \/ Finish

Fault ==
    \/ RequestFails \/ PublishFails \/ Die
    \/ \E i \in Instance : DestroyFails(i)

Next ==
    \/ NodeStep \/ Fault \/ Record \/ ChangeSchema
    \/ \E i \in Instance : ChangeRequest(i) \/ Connect(i)

Spec == Init /\ [][Next]_vars

\* Cron runs the node and a started run goes on; slapgrid passes; a deployed instance
\* publishes its connection.
FairSpec ==
    /\ Spec
    /\ WF_vars(NodeStep) /\ WF_vars(Record)
    /\ \A i \in Instance : WF_vars(Connect(i))

-----------------------------------------------------------------------------
(* Safety. *)

\* Nothing is under way on the instance, and no run left it half done.
Settled(i) == i # cur /\ i \notin lost

\* Every instance the node requested has a row, by which a later run destroys it: no
\* order of requests, failures and removals leaves one that only SlapOS Master knows.
DeployedIsTracked ==
    \A i \in Instance : Settled(i) /\ deployed[i] # Absent => requestinstance_db[i] # Absent

\* A row that says 'valid' is deployed with its parameters, and SlapOS Master was sent,
\* unless sending failed, the connection the instance had published when the node asked
\* for it.  That may be the connection of the parameters the instance had before, and a
\* valid row is not looked at again: what is promised is no more than that.
ValidRowIsServed ==
    \A i \in Instance :
        LET row == requestinstance_db[i]
        IN  Settled(i) /\ row # Absent /\ row.valid_parameter = "valid"
                => /\ deployed[i] = row.parameters
                   /\ answered[i] # Nothing
                   /\ published[i] = answered[i] \/ i \in unsent

\* The recorded verdict is that of the current schema, except on a row recorded before
\* the schema changed and not modified since: those rows keep the old verdict.
VerdictOfTheSchema ==
    \A i \in Instance :
        instance_db[i] # Absent /\ i \notin judgedBefore
            => (instance_db[i].valid <=> instance_db[i].parameters \in schema)

\* What the node does to the instances at SlapOS Master, without its table, commits,
\* failures and deaths.
Ledger == INSTANCE DeploymentLedger WITH list <- instance_db, view <- instance_map

FollowsTheList == Ledger!Spec

-----------------------------------------------------------------------------
(* Liveness. *)

\* What the node reaches for an instance: gone when it is not recorded, deployed with
\* the recorded parameters when they are valid.  What a run left half done stays so
\* only when the record has gone back to what the row says, where the comparison
\* finds nothing to do: deployed without row and not recorded any more, destroyed or
\* deployed with other parameters and recorded again as in the row.
Follows(i) ==
    LET row == requestinstance_db[i]
    IN  /\ instance_db[i] = Absent
              => row = Absent /\ (deployed[i] = Absent \/ i \in lost)
        /\ instance_db[i] # Absent /\ instance_db[i].valid
              => /\ row # Absent /\ row.valid_parameter = "valid"
                 /\ row.parameters = instance_db[i].parameters
                 /\ deployed[i] = row.parameters \/ i \in lost

\* Once requests and schema stop changing and requests to the Master succeed, the
\* deployed instances come to follow the record, through failed requests and deaths.
DeploymentsConverge == <>[](\A i \in Instance : Follows(i))
=============================================================================
