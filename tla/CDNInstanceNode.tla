-------------------------- MODULE CDNInstanceNode --------------------------
(***************************************************************************)
(* The instance node of the CDN (slapos/recipe/cdninstancenode.py on top   *)
(* of slapos/recipe/instancenode.py).  Cron runs it again and again; every *)
(* run compares the shared instances slapconfiguration recorded            *)
(* (instance_db) with those it treated before (requestinstance_db) and     *)
(* validates them: who owns which custom domain (domain_validation) and    *)
(* which host names are taken (used_hosts).                                *)
(*                                                                         *)
(* Every execute() or insertMany() of the node is a transaction of its     *)
(* own, so a step of this module ends with one commit: a run that dies     *)
(* between two of them leaves the first one done.  Reads are part of the   *)
(* step they precede, because the node is the only writer of its three     *)
(* tables.  Time is left out: a retained row may be found expired by any   *)
(* run (module CDNBang keeps the clock).                                   *)
(***************************************************************************)
EXTENDS InstanceLists, Naturals

CONSTANTS
    Host,           \* host names, used as custom domains and as aliases
    NoHost,         \* custom_domain is absent or empty
    Parameters,     \* the parameter sets a shared instance may be requested with
    Requests,       \* the rows slapconfiguration may record
    NoInstance,     \* no instance is being processed
    Retention,      \* whether instance-retention-delay is positive
    MaxChanges,     \* bound: changes slapconfiguration makes to instance_db
    MaxCrashes      \* bound: runs that die before their end

(***************************************************************************)
(* What the node looks at in a parameter set.  server_alias holds the      *)
(* names checked for clashes, with the leading "*." stripped;              *)
(* wellformed says that none of the checks that depend on the parameters   *)
(* alone fails (alias syntax and root domain, alias without domain,        *)
(* netlocs, ciphers, certificates).                                        *)
(***************************************************************************)
ParameterType ==
    [custom_domain : Host \cup {NoHost}, server_alias : SUBSET Host, wellformed : BOOLEAN]

ASSUME ParametersAssumption ==
    /\ Parameters \subseteq ParameterType
    /\ \A p \in Parameters :
          p.wellformed /\ p.server_alias # {} => p.custom_domain # NoHost

ASSUME NullAssumption == NoHost \notin Host /\ NoInstance \notin Instance

ASSUME BoundAssumption ==
    Retention \in BOOLEAN /\ MaxChanges \in Nat /\ MaxCrashes \in Nat

\* A row of slapconfiguration's table: the parameters and the schema's verdict.
SourceRow == [parameters : Parameters, valid : BOOLEAN]

ASSUME RequestsAssumption == Requests \subseteq SourceRow

StoredRow == [parameters : Parameters, valid_parameter : {"valid", "invalid", "stopped"}]
Entry     == [domain : Host, validated : BOOLEAN, challenged : BOOLEAN]

ASSUME AbsentAssumption == Absent \notin SourceRow \cup StoredRow \cup Entry

VARIABLES
    instance_db,        \* slapconfiguration's table: what is requested now
    requestinstance_db, \* the node's table: what it treated, and the verdict
    domain_validation,  \* per instance, the domain it has a token for
    used_hosts,         \* per instance, the host names it has taken
    pc,                 \* where the run is
    cur,                \* the instance the run is processing
    added, changed, removed,    \* what the run has still to process
    instance_map,       \* the run's copy of the rows of added and changed
    verdict,            \* valid_parameter of the row about to be written
    changes, crashes,   \* steps taken of the two bounded kinds
    interrupted         \* auxiliary: see Die

tables == <<requestinstance_db, domain_validation, used_hosts>>
todo   == <<added, changed, removed, instance_map>>
vars   == <<instance_db, tables, pc, cur, todo, verdict, changes, crashes, interrupted>>

Label ==
    {"idle", "loop", "validate", "domain", "drop hosts", "challenge", "clear hosts",
     "add hosts", "deployed", "record", "retain hosts", "retain row",
     "destroy hosts", "destroy row"}

TypeOK ==
    /\ instance_db \in [Instance -> SourceRow \cup {Absent}]
    /\ requestinstance_db \in [Instance -> StoredRow \cup {Absent}]
    /\ domain_validation \in [Instance -> Entry \cup {Absent}]
    /\ used_hosts \in [Instance -> SUBSET Host]
    /\ pc \in Label
    /\ cur \in Instance \cup {NoInstance}
    /\ added \subseteq Instance /\ changed \subseteq Instance /\ removed \subseteq Instance
    /\ instance_map \in [Instance -> SourceRow \cup {Absent}]
    /\ verdict \in {"valid", "invalid"}
    /\ changes \in 0..MaxChanges /\ crashes \in 0..MaxCrashes
    /\ interrupted \subseteq Instance

Init ==
    /\ instance_db = [i \in Instance |-> Absent]
    /\ requestinstance_db = [i \in Instance |-> Absent]
    /\ domain_validation = [i \in Instance |-> Absent]
    /\ used_hosts = [i \in Instance |-> {}]
    /\ pc = "idle" /\ cur = NoInstance
    /\ added = {} /\ changed = {} /\ removed = {}
    /\ instance_map = [i \in Instance |-> Absent]
    /\ verdict = "invalid"
    /\ changes = 0 /\ crashes = 0 /\ interrupted = {}

-----------------------------------------------------------------------------
(* What the node asks of its tables. *)

\* The parameters of the instance being processed.
CurParameters == instance_map[cur].parameters

\* _extractHostsFromParameters
HostsOf(p) == p.server_alias \cup ({p.custom_domain} \ {NoHost})

HasVerdict(i, v) ==
    requestinstance_db[i] # Absent /\ requestinstance_db[i].valid_parameter = v

IsStopped(i) == HasVerdict(i, "stopped")

\* The instance holds a validated entry for the domain.
Owns(i, d) ==
    /\ domain_validation[i] # Absent
    /\ domain_validation[i].domain = d
    /\ domain_validation[i].validated

\* Variant of ClaimedByOther: only instances whose row says 'valid' are asked.
ClaimedByOtherValid(d, i) ==
    \E j \in Instance \ {i} : Owns(j, d) /\ HasVerdict(j, "valid")

\* getValidatedDomainForOtherInstance
ClaimedByOther(d, i) == \E j \in Instance \ {i} : Owns(j, d)

\* The instance has no entry, or one for its domain that is not validated.
Unvalidated(i, d) ==
    domain_validation[i] # Absent
        => domain_validation[i].domain = d /\ ~domain_validation[i].validated

Restorable(i, d) ==
    domain_validation[i] # Absent /\ Unvalidated(i, d) /\ IsStopped(i)

\* Variant of Clashes: the custom domain is looked up instead of the aliases.
ClashesOnDomain(hosts, p, i) == \E j \in Instance \ {i} : p.custom_domain \in hosts[j]

\* The alias clash check of _validate_server_alias, through
\* isHostUsedByOtherInstance: the aliases are looked up, the custom domain is not.
Clashes(hosts, p, i) ==
    \E j \in Instance \ {i} : p.server_alias \cap hosts[j] # {}

\* used_hosts once _validate_server_alias has released the rows of an instance
\* whose aliases changed.
HostsAfterAliasChange(i, p) ==
    IF /\ requestinstance_db[i] # Absent
       /\ requestinstance_db[i].parameters.server_alias # p.server_alias
    THEN [used_hosts EXCEPT ![i] = {}]
    ELSE used_hosts

-----------------------------------------------------------------------------
(* The steps of a run have these in common. *)

\* The row of cur will be written with this verdict.
Conclude(v) == pc' = "record" /\ verdict' = v

Continue(label) == pc' = label /\ verdict' = verdict

\* Back to the loop of install(), done with cur.
NextInstance ==
    /\ pc' = "loop" /\ cur' = NoInstance
    /\ interrupted' = interrupted \ {cur}

\* The loop has come to the removed instance i.
AtRemoved(i) == pc = "loop" /\ added = {} /\ changed = {} /\ i \in removed

-----------------------------------------------------------------------------
(* Faulty variants of steps below: the node with a likely mistake in it, against  *)
(* which the properties are tried.  No step of the node uses them.                *)

\* The early return for an instance without custom domain is missing.
ValidateWithoutDomainTest ==
    LET p     == CurParameters
        hosts == HostsAfterAliasChange(cur, p)
        error == ~p.wellformed \/ Clashes(hosts, p, cur)
    IN  /\ pc = "validate"
        /\ used_hosts' = hosts
        /\ IF error THEN Conclude("invalid") ELSE Continue("domain")
        /\ UNCHANGED <<instance_db, requestinstance_db, domain_validation, cur, todo,
                       changes, crashes, interrupted>>

\* A validated domain returns without registering the hosts again.
KeepDomainOnly ==
    /\ pc = "domain" /\ Owns(cur, CurParameters.custom_domain)
    /\ Continue("deployed")
    /\ UNCHANGED <<instance_db, tables, cur, todo, changes, crashes, interrupted>>

\* The entry is moved to the new domain, validation included.
RenameDomain ==
    /\ pc = "domain"
    /\ domain_validation[cur] # Absent
    /\ domain_validation[cur].domain # CurParameters.custom_domain
    /\ domain_validation' =
          [domain_validation EXCEPT ![cur].domain = CurParameters.custom_domain,
                                    ![cur].challenged = FALSE]
    /\ Continue("drop hosts")
    /\ UNCHANGED <<instance_db, requestinstance_db, used_hosts, cur, todo, changes,
                   crashes, interrupted>>

\* A returning instance is restored whoever holds its domain meanwhile.
RestoreUnchecked ==
    /\ pc = "domain"
    /\ Restorable(cur, CurParameters.custom_domain)
    /\ domain_validation' = [domain_validation EXCEPT ![cur].validated = TRUE]
    /\ Continue("clear hosts")
    /\ UNCHANGED <<instance_db, requestinstance_db, used_hosts, cur, todo, changes,
                   crashes, interrupted>>

\* An instance in retention keeps its rows of used_hosts.
EnterRetentionKeepingHosts(i) ==
    /\ AtRemoved(i) /\ Retention /\ ~IsStopped(i)
    /\ removed' = removed \ {i}
    /\ cur' = i /\ Continue("retain row")
    /\ domain_validation' =
          IF domain_validation[i] = Absent
          THEN domain_validation
          ELSE [domain_validation EXCEPT ![i].validated = FALSE]
    /\ UNCHANGED <<instance_db, requestinstance_db, used_hosts, added, changed,
                   instance_map, changes, crashes, interrupted>>

\* A destroyed instance keeps its domain entry.
DestroyKeepingDomain(i) ==
    /\ AtRemoved(i) /\ (Retention => IsStopped(i))
    /\ removed' = removed \ {i}
    /\ cur' = i /\ Continue("destroy hosts")
    /\ UNCHANGED <<instance_db, tables, added, changed, instance_map, changes, crashes,
                   interrupted>>

-----------------------------------------------------------------------------
(* The environment. *)

\* slapconfiguration records what is requested now, all rows in one transaction
\* (updateFromValidationResults).  A row whose parameters did not change keeps the
\* verdict it has, and an empty list of requests is not recorded.
RecordRequests ==
    /\ changes < MaxChanges
    /\ \E table \in [Instance -> Requests \cup {Absent}] :
          /\ table # instance_db
          /\ Present(table) # {}
          /\ \A i \in Present(table) \cap Present(instance_db) :
                table[i].parameters = instance_db[i].parameters => table[i] = instance_db[i]
          /\ instance_db' = table
    /\ changes' = changes + 1
    /\ UNCHANGED <<tables, pc, cur, todo, verdict, crashes, interrupted>>

\* The run ends before its time: killed, or by an exception nothing catches below
\* main().  interrupted notes the instance it was processing, until a later run
\* gets to the end of that instance.
Die ==
    /\ pc # "idle"
    /\ crashes < MaxCrashes
    /\ crashes' = crashes + 1
    /\ interrupted' = interrupted \cup ({cur} \ {NoInstance})
    /\ pc' = "idle" /\ cur' = NoInstance
    /\ added' = {} /\ changed' = {} /\ removed' = {}
    /\ instance_map' = [i \in Instance |-> Absent]
    /\ verdict' = "invalid"
    /\ UNCHANGED <<instance_db, tables, changes>>

-----------------------------------------------------------------------------
(* A run: install(). *)

Install ==
    /\ pc = "idle"
    /\ pc' = "loop"
    /\ added' = Added(instance_db, requestinstance_db)
    /\ changed' = Modified(instance_db, requestinstance_db)
                    \cup Reprocessed(instance_db, requestinstance_db)
    /\ removed' = Removed(instance_db, requestinstance_db)
    /\ instance_map' = [i \in Instance |-> IF i \in added' \cup changed'
                                           THEN instance_db[i] ELSE Absent]
    /\ UNCHANGED <<instance_db, tables, cur, verdict, changes, crashes, interrupted>>

\* The head of _processInstance: a row slapconfiguration found invalid goes
\* straight to the database.
ProcessInstance(i) ==
    /\ pc = "loop"
    /\ i \in IF added # {} THEN added ELSE changed
    /\ cur' = i
    /\ added' = added \ {i} /\ changed' = changed \ {i}
    /\ \/ instance_map[i].valid  /\ Continue("validate")
       \/ ~instance_map[i].valid /\ Conclude("invalid")
    /\ UNCHANGED <<instance_db, tables, removed, instance_map, changes, crashes, interrupted>>

\* preDeployInstanceValidation up to its first returns.
ValidateParameters ==
    LET p     == CurParameters
        hosts == HostsAfterAliasChange(cur, p)
        error == ~p.wellformed \/ Clashes(hosts, p, cur)
    IN  /\ pc = "validate"
        /\ used_hosts' = hosts
        /\ \/ error /\ Conclude("invalid")
           \/ ~error /\ p.custom_domain = NoHost /\ Continue("deployed")
           \/ ~error /\ p.custom_domain # NoHost /\ Continue("domain")
        /\ UNCHANGED <<instance_db, requestinstance_db, domain_validation, cur, todo,
                       changes, crashes, interrupted>>

-----------------------------------------------------------------------------
(* The custom domain, in preDeployInstanceValidation. *)

\* Already validated for this instance.
KeepDomain ==
    /\ pc = "domain" /\ Owns(cur, CurParameters.custom_domain)
    /\ Continue("clear hosts")
    /\ UNCHANGED <<instance_db, tables, cur, todo, changes, crashes, interrupted>>

\* removeDomainValidationForInstance, first commit: the entry is for another domain.
DropDomain ==
    /\ pc = "domain"
    /\ domain_validation[cur] # Absent
    /\ domain_validation[cur].domain # CurParameters.custom_domain
    /\ domain_validation' = [domain_validation EXCEPT ![cur] = Absent]
    /\ Continue("drop hosts")
    /\ UNCHANGED <<instance_db, requestinstance_db, used_hosts, cur, todo, changes,
                   crashes, interrupted>>

\* removeDomainValidationForInstance, second commit.
DropHosts ==
    /\ pc = "drop hosts"
    /\ used_hosts' = [used_hosts EXCEPT ![cur] = {}]
    /\ Continue("domain")
    /\ UNCHANGED <<instance_db, requestinstance_db, domain_validation, cur, todo, changes,
                   crashes, interrupted>>

\* The instance returns from retention and nobody claimed its domain meanwhile.
RestoreDomain ==
    /\ pc = "domain"
    /\ Restorable(cur, CurParameters.custom_domain)
    /\ ~ClaimedByOther(CurParameters.custom_domain, cur)
    /\ domain_validation' = [domain_validation EXCEPT ![cur].validated = TRUE]
    /\ Continue("clear hosts")
    /\ UNCHANGED <<instance_db, requestinstance_db, used_hosts, cur, todo, changes,
                   crashes, interrupted>>

RefuseDomain ==
    /\ pc = "domain"
    /\ Unvalidated(cur, CurParameters.custom_domain)
    /\ ClaimedByOther(CurParameters.custom_domain, cur)
    /\ Conclude("invalid")
    /\ UNCHANGED <<instance_db, tables, cur, todo, changes, crashes, interrupted>>

\* _getOrGenerateToken: a new token is stored before it is used, an existing one kept.
GetOrGenerateToken ==
    LET d == CurParameters.custom_domain
    IN  /\ pc = "domain"
        /\ Unvalidated(cur, d) /\ ~Restorable(cur, d) /\ ~ClaimedByOther(d, cur)
        /\ domain_validation' =
              IF domain_validation[cur] # Absent
              THEN domain_validation
              ELSE [domain_validation EXCEPT
                      ![cur] = [domain |-> d, validated |-> FALSE, challenged |-> FALSE]]
        /\ Continue("challenge")
        /\ UNCHANGED <<instance_db, requestinstance_db, used_hosts, cur, todo, changes,
                       crashes, interrupted>>

\* _verifyCustomDomainDNS: the TXT record is there, or it is not.  The field
\* challenged of an entry is auxiliary: its token was found in the DNS once.
VerifyCustomDomainDNS ==
    /\ pc = "challenge"
    /\ \E found \in BOOLEAN :
          /\ domain_validation' =
                [domain_validation EXCEPT ![cur].validated = found,
                                          ![cur].challenged = @ \/ found]
          /\ IF found THEN Continue("clear hosts") ELSE Conclude("invalid")
    /\ UNCHANGED <<instance_db, requestinstance_db, used_hosts, cur, todo, changes,
                   crashes, interrupted>>

\* addUsedHosts, first commit.
ClearHosts ==
    /\ pc = "clear hosts"
    /\ used_hosts' = [used_hosts EXCEPT ![cur] = {}]
    /\ Continue("add hosts")
    /\ UNCHANGED <<instance_db, requestinstance_db, domain_validation, cur, todo, changes,
                   crashes, interrupted>>

\* addUsedHosts, second commit.
AddHosts ==
    /\ pc = "add hosts"
    /\ used_hosts' = [used_hosts EXCEPT ![cur] = HostsOf(CurParameters)]
    /\ Continue("deployed")
    /\ UNCHANGED <<instance_db, requestinstance_db, domain_validation, cur, todo, changes,
                   crashes, interrupted>>

\* deployInstance requests nothing; postDeployInstanceValidation looks for the
\* section of the instance in a file the master partition renders.
PostDeployInstanceValidation ==
    /\ pc = "deployed"
    /\ Conclude("valid") \/ Conclude("invalid")
    /\ UNCHANGED <<instance_db, tables, cur, todo, changes, crashes, interrupted>>

UpdateInstanceInDB ==
    /\ pc = "record"
    /\ requestinstance_db' =
          [requestinstance_db EXCEPT
             ![cur] = [parameters |-> CurParameters, valid_parameter |-> verdict]]
    /\ instance_map' = [instance_map EXCEPT ![cur] = Absent]
    /\ verdict' = "invalid"
    /\ NextInstance
    /\ UNCHANGED <<instance_db, domain_validation, used_hosts, added, changed, removed,
                   changes, crashes>>

-----------------------------------------------------------------------------
(* Instances that disappeared: shouldDestroyInstance, _processDestroyedInstance. *)

\* The retention delay has not passed yet.
KeepRetained(i) ==
    /\ AtRemoved(i) /\ Retention /\ IsStopped(i)
    /\ removed' = removed \ {i}
    /\ UNCHANGED <<instance_db, tables, pc, cur, added, changed, instance_map, verdict,
                   changes, crashes, interrupted>>

\* First disappearance, first commit: the entry stays but is not validated any more.
EnterRetention(i) ==
    /\ AtRemoved(i) /\ Retention /\ ~IsStopped(i)
    /\ removed' = removed \ {i}
    /\ cur' = i /\ Continue("retain hosts")
    /\ domain_validation' =
          IF domain_validation[i] = Absent
          THEN domain_validation
          ELSE [domain_validation EXCEPT ![i].validated = FALSE]
    /\ UNCHANGED <<instance_db, requestinstance_db, used_hosts, added, changed,
                   instance_map, changes, crashes, interrupted>>

RetainHosts ==
    /\ pc = "retain hosts"
    /\ used_hosts' = [used_hosts EXCEPT ![cur] = {}]
    /\ Continue("retain row")
    /\ UNCHANGED <<instance_db, requestinstance_db, domain_validation, cur, todo, changes,
                   crashes, interrupted>>

RetainRow ==
    /\ pc = "retain row"
    /\ requestinstance_db' =
          [requestinstance_db EXCEPT ![cur].valid_parameter = "stopped"]
    /\ NextInstance
    /\ UNCHANGED <<instance_db, domain_validation, used_hosts, todo, verdict, changes, crashes>>

\* The delay has passed, or there is none; first commit of the removal.
Destroy(i) ==
    /\ AtRemoved(i) /\ (Retention => IsStopped(i))
    /\ removed' = removed \ {i}
    /\ cur' = i /\ Continue("destroy hosts")
    /\ domain_validation' = [domain_validation EXCEPT ![i] = Absent]
    /\ UNCHANGED <<instance_db, requestinstance_db, used_hosts, added, changed,
                   instance_map, changes, crashes, interrupted>>

DestroyHosts ==
    /\ pc = "destroy hosts"
    /\ used_hosts' = [used_hosts EXCEPT ![cur] = {}]
    /\ Continue("destroy row")
    /\ UNCHANGED <<instance_db, requestinstance_db, domain_validation, cur, todo, changes,
                   crashes, interrupted>>

DestroyRow ==
    /\ pc = "destroy row"
    /\ requestinstance_db' = [requestinstance_db EXCEPT ![cur] = Absent]
    /\ NextInstance
    /\ UNCHANGED <<instance_db, domain_validation, used_hosts, todo, verdict, changes, crashes>>

\* Removing the row failed, which is only logged: the next run finds it again.
DestroyRowFails ==
    /\ pc = "destroy row"
    /\ crashes < MaxCrashes
    /\ crashes' = crashes + 1
    /\ pc' = "loop" /\ cur' = NoInstance
    /\ interrupted' = interrupted \cup {cur}
    /\ UNCHANGED <<instance_db, tables, todo, verdict, changes>>

Finish ==
    /\ pc = "loop" /\ added = {} /\ changed = {} /\ removed = {}
    /\ pc' = "idle"
    /\ UNCHANGED <<instance_db, tables, cur, todo, verdict, changes, crashes, interrupted>>

-----------------------------------------------------------------------------
DomainStep ==
    \/ KeepDomain \/ DropDomain \/ DropHosts \/ RestoreDomain \/ RefuseDomain
    \/ GetOrGenerateToken \/ VerifyCustomDomainDNS \/ ClearHosts \/ AddHosts

RemovalStep ==
    \/ RetainHosts \/ RetainRow \/ DestroyHosts \/ DestroyRow
    \/ \E i \in Instance : KeepRetained(i) \/ EnterRetention(i) \/ Destroy(i)

NodeStep ==
    \/ Install
    \/ \E i \in Instance : ProcessInstance(i)
    \/ ValidateParameters \/ DomainStep
    \/ PostDeployInstanceValidation \/ UpdateInstanceInDB
    \/ RemovalStep
    \/ Finish

Next ==
    \/ NodeStep
    \/ RecordRequests
    \/ Die \/ DestroyRowFails

Spec == Init /\ [][Next]_vars

\* Cron starts a run every minute and a started run goes on; time passes, so that
\* an instance that stays away is found expired in the end.
FairSpec ==
    /\ Spec
    /\ WF_vars(NodeStep)
    /\ \A i \in Instance : SF_vars(Destroy(i))

-----------------------------------------------------------------------------
(* Safety. *)

\* A custom domain is validated for one instance at most, through every order of
\* claims, retention, return and death of a run.
OneOwnerPerDomain ==
    \A i, j \in Instance, d \in Host : Owns(i, d) /\ Owns(j, d) => i = j

\* Nothing is under way, or was left half done, on the instance.
Settled(i) == i # cur /\ i \notin interrupted

\* A row that says 'valid' is backed by the other two tables: its domain is validated
\* for it, and the names registered for it are those of its parameters.
ValidRowBacked ==
    \A i \in Instance :
        LET p == requestinstance_db[i].parameters
        IN  Settled(i) /\ HasVerdict(i, "valid") /\ p.custom_domain # NoHost
                => Owns(i, p.custom_domain) /\ used_hosts[i] = HostsOf(p)

\* An instance in retention owns no domain and occupies no host name: others can
\* claim them.
RetainedReleases ==
    \A i \in Instance :
        Settled(i) /\ IsStopped(i)
            => used_hosts[i] = {} /\ \A d \in Host : ~Owns(i, d)

\* Two instances whose rows say 'valid' never have an alias in common.
ValidAliasesDisjoint ==
    \A i, j \in Instance :
        /\ i # j /\ Settled(i) /\ Settled(j)
        /\ HasVerdict(i, "valid") /\ HasVerdict(j, "valid")
        => requestinstance_db[i].parameters.server_alias
             \cap requestinstance_db[j].parameters.server_alias = {}

\* The domain_validation table is a registry in which domains are claimed only when
\* they are free, and pass from one instance to another only by being released.
owns == {claim \in Instance \X Host : Owns(claim[1], claim[2])}

Registry == INSTANCE DomainRegistry WITH owns <- owns

DomainsAreClaimedAndReleased == Registry!Spec

\* An instance the node forgot leaves nothing behind in the other two tables.
ForgottenLeavesNothing ==
    \A i \in Instance :
        Settled(i) /\ requestinstance_db[i] = Absent
            => domain_validation[i] = Absent /\ used_hosts[i] = {}

\* A validated entry had its challenge answered: returning from retention
\* brings back a validation, it does not make one up.
ValidatedWasChallenged ==
    \A i \in Instance :
        domain_validation[i] # Absent /\ domain_validation[i].validated
            => domain_validation[i].challenged

-----------------------------------------------------------------------------
(* Liveness. *)

\* The node's table agrees with the requests: an instance that is requested is
\* recorded with its current parameters and out of retention, one that is not
\* requested is gone.
Reflects(i) ==
    IF instance_db[i] = Absent
    THEN requestinstance_db[i] = Absent
    ELSE /\ requestinstance_db[i] # Absent
         /\ requestinstance_db[i].parameters = instance_db[i].parameters
         /\ ~IsStopped(i)

\* Once the requests stop changing and the runs stop dying, the node's table comes
\* to agree with the requests, and stays so.
Converges == <>[](\A i \in Instance : Reflects(i))
=============================================================================
