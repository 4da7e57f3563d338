----------------------- MODULE CDNInstanceNodeProofs -----------------------
(***************************************************************************)
(* Proofs about CDNInstanceNode, for any sets of instances, hosts and      *)
(* parameters and any bounds.  The inductive invariant IInv adds to the    *)
(* types what a run knows at each of its labels: RunInv relates the local  *)
(* copies of the run to the tables, ChallengeInv says that a domain is     *)
(* still free when the answer to its challenge comes.                      *)
(***************************************************************************)
EXTENDS CDNInstanceNode, TLAPS

\* cur is an instance that is requested, and its row is in instance_map.
Processing ==
    {"validate", "domain", "drop hosts", "challenge", "clear hosts", "add hosts",
     "deployed", "record"}

\* cur has a custom domain.
WithDomain == {"domain", "drop hosts", "challenge", "clear hosts", "add hosts"}

\* cur is an instance that disappeared, and its row is in the node's table.
Removing == {"retain hosts", "retain row", "destroy hosts", "destroy row"}

RunInv ==
    /\ \A i \in added \cup changed : instance_map[i] # Absent
    /\ \A i \in removed : requestinstance_db[i] # Absent
    /\ pc \in Processing =>
          cur \in Instance \ (added \cup changed) /\ instance_map[cur] # Absent
    /\ pc \in WithDomain => CurParameters.custom_domain # NoHost
    /\ pc \in Removing => cur \in Instance \ removed /\ requestinstance_db[cur] # Absent

ChallengeInv ==
    pc = "challenge" =>
        /\ domain_validation[cur] # Absent
        /\ domain_validation[cur].domain = CurParameters.custom_domain
        /\ ~domain_validation[cur].validated
        /\ ~ClaimedByOther(CurParameters.custom_domain, cur)

IInv == TypeOK /\ RunInv /\ ChallengeInv /\ OneOwnerPerDomain

USE DEF vars, tables, todo

-----------------------------------------------------------------------------
(* Facts about the data. *)

\* What is read off a row of instance_map is a parameter set the schema describes.
LEMMA CurParametersType ==
    ASSUME TypeOK, cur \in Instance, instance_map[cur] # Absent
    PROVE  /\ CurParameters \in Parameters
           /\ CurParameters.custom_domain \in Host \cup {NoHost}
           /\ HostsOf(CurParameters) \subseteq Host
<1>1. instance_map[cur] \in SourceRow
  BY DEF TypeOK
<1>2. CurParameters \in Parameters
  BY <1>1 DEF SourceRow, CurParameters
<1>3. CurParameters \in ParameterType
  BY <1>2, ParametersAssumption
<1> QED
  BY <1>2, <1>3 DEF ParameterType, HostsOf

\* The rows the node writes are rows, none of which is taken for a missing one.
LEMMA RowsAreNotAbsent ==
    /\ \A p \in Parameters, v \in {"valid", "invalid", "stopped"} :
          /\ [parameters |-> p, valid_parameter |-> v] \in StoredRow
          /\ [parameters |-> p, valid_parameter |-> v] # Absent
    /\ \A d \in Host, b, c \in BOOLEAN :
          /\ [domain |-> d, validated |-> b, challenged |-> c] \in Entry
          /\ [domain |-> d, validated |-> b, challenged |-> c] # Absent
<1>1. \A p \in Parameters, v \in {"valid", "invalid", "stopped"} :
          [parameters |-> p, valid_parameter |-> v] \in StoredRow
  BY DEF StoredRow
<1>2. \A d \in Host, b, c \in BOOLEAN :
          [domain |-> d, validated |-> b, challenged |-> c] \in Entry
  BY DEF Entry
<1> QED
  BY <1>1, <1>2, AbsentAssumption


\* A bounded counter below its bound may be stepped.
LEMMA CountUp ==
    ASSUME NEW max \in Nat, NEW n \in 0..max, n < max
    PROVE  n + 1 \in 0..max
OBVIOUS

\* An entry stays an entry, and there, when its validation changes.
LEMMA EntryUpdate ==
    ASSUME TypeOK, NEW i \in Instance, domain_validation[i] # Absent,
           NEW b \in BOOLEAN, NEW c \in BOOLEAN
    PROVE  /\ [domain_validation[i] EXCEPT !.validated = b] \in Entry \ {Absent}
           /\ [domain_validation[i] EXCEPT !.validated = b, !.challenged = c]
                \in Entry \ {Absent}
<1>1. domain_validation[i] \in Entry
  BY DEF TypeOK
<1>2. /\ [domain_validation[i] EXCEPT !.validated = b] \in Entry
      /\ [domain_validation[i] EXCEPT !.validated = b, !.challenged = c] \in Entry
  BY <1>1 DEF Entry
<1> QED
  BY <1>2, AbsentAssumption

\* Putting a row back into retention keeps it a row.
LEMMA RowUpdate ==
    ASSUME TypeOK, NEW i \in Instance, requestinstance_db[i] # Absent
    PROVE  [requestinstance_db[i] EXCEPT !.valid_parameter = "stopped"]
              \in StoredRow \ {Absent}
<1>1. requestinstance_db[i] \in StoredRow
  BY DEF TypeOK
<1>2. [requestinstance_db[i] EXCEPT !.valid_parameter = "stopped"] \in StoredRow
  BY <1>1 DEF StoredRow
<1> QED
  BY <1>2, AbsentAssumption

-----------------------------------------------------------------------------
(* Types. *)

\* Every step keeps the types.
LEMMA TypeStep ==
    ASSUME TypeOK, RunInv, ChallengeInv, [Next]_vars
    PROVE  TypeOK'
<1> USE DEF TypeOK, Label, Continue, Conclude, NextInstance
<1>1. CASE UNCHANGED vars
  BY <1>1
<1>2. CASE RecordRequests
  <2>1. instance_db' \in [Instance -> SourceRow \cup {Absent}]
    BY <1>2, RequestsAssumption DEF RecordRequests
  <2>2. changes' \in 0..MaxChanges
    <3>1. changes < MaxChanges /\ changes' = changes + 1
      BY <1>2 DEF RecordRequests
    <3>2. changes \in 0..MaxChanges /\ MaxChanges \in Nat
      BY BoundAssumption
    <3> QED
      BY <3>1, <3>2, CountUp
  <2> QED
    BY <1>2, <2>1, <2>2 DEF RecordRequests
<1>3. CASE Die
  <2>1. crashes' \in 0..MaxCrashes
    <3>1. crashes < MaxCrashes /\ crashes' = crashes + 1
      BY <1>3 DEF Die
    <3>2. crashes \in 0..MaxCrashes /\ MaxCrashes \in Nat
      BY BoundAssumption
    <3> QED
      BY <3>1, <3>2, CountUp
  <2>2. instance_map' \in [Instance -> SourceRow \cup {Absent}]
    BY <1>3 DEF Die
  <2>3. interrupted' \subseteq Instance
    BY <1>3 DEF Die
  <2> QED
    BY <1>3, <2>1, <2>2, <2>3 DEF Die
<1>4. CASE DestroyRowFails
  <2>1. crashes' \in 0..MaxCrashes
    <3>1. crashes < MaxCrashes /\ crashes' = crashes + 1
      BY <1>4 DEF DestroyRowFails
    <3>2. crashes \in 0..MaxCrashes /\ MaxCrashes \in Nat
      BY BoundAssumption
    <3> QED
      BY <3>1, <3>2, CountUp
  <2>2. interrupted' \subseteq Instance
    BY <1>4 DEF DestroyRowFails, RunInv, Removing
  <2> QED
    BY <1>4, <2>1, <2>2 DEF DestroyRowFails
<1>5. CASE Install
  <2>1. /\ added' \subseteq Instance /\ changed' \subseteq Instance
        /\ removed' \subseteq Instance
    BY <1>5 DEF Install, Added, Modified, Removed, Reprocessed, Present
  <2>2. instance_map' \in [Instance -> SourceRow \cup {Absent}]
    BY <1>5 DEF Install
  <2> QED
    BY <1>5, <2>1, <2>2 DEF Install
<1>6. ASSUME NEW i \in Instance, ProcessInstance(i) PROVE TypeOK'
  BY <1>6 DEF ProcessInstance, AtRemoved
<1>7. CASE ValidateParameters
  <2>1. used_hosts' \in [Instance -> SUBSET Host]
    BY <1>7 DEF ValidateParameters, HostsAfterAliasChange
  <2>2. /\ pc' \in Label /\ verdict' \in {"valid", "invalid"}
        /\ UNCHANGED <<instance_db, requestinstance_db, domain_validation, cur, todo,
                       changes, crashes, interrupted>>
    BY <1>7 DEF ValidateParameters
  <2> QED
    BY <2>1, <2>2
<1>8. CASE KeepDomain
  BY <1>8 DEF KeepDomain
<1>9. CASE DropDomain
  BY <1>9 DEF DropDomain
<1>10. CASE DropHosts
  BY <1>10 DEF DropHosts
<1>11. CASE RestoreDomain
  <2>1. cur \in Instance /\ domain_validation[cur] # Absent
    BY <1>11 DEF RestoreDomain, Restorable, RunInv, Processing
  <2>2. domain_validation' \in [Instance -> Entry \cup {Absent}]
    BY <1>11, <2>1, EntryUpdate DEF RestoreDomain
  <2> QED
    BY <1>11, <2>2 DEF RestoreDomain
<1>12. CASE RefuseDomain
  BY <1>12 DEF RefuseDomain
<1>13. CASE GetOrGenerateToken
  <2>1. cur \in Instance /\ CurParameters.custom_domain \in Host
    BY <1>13, CurParametersType DEF GetOrGenerateToken, RunInv, Processing, WithDomain
  <2>2. domain_validation' \in [Instance -> Entry \cup {Absent}]
    BY <1>13, <2>1, RowsAreNotAbsent DEF GetOrGenerateToken
  <2> QED
    BY <1>13, <2>2 DEF GetOrGenerateToken
<1>14. CASE VerifyCustomDomainDNS
  <2>1. cur \in Instance /\ domain_validation[cur] # Absent
    BY <1>14 DEF VerifyCustomDomainDNS, RunInv, Processing, ChallengeInv
  <2>2. domain_validation[cur].challenged \in BOOLEAN
    BY <2>1 DEF Entry
  <2>3. domain_validation' \in [Instance -> Entry \cup {Absent}]
    <3>1. PICK found \in BOOLEAN :
              domain_validation' =
                [domain_validation EXCEPT
                   ![cur] = [domain_validation[cur] EXCEPT
                               !.validated = found,
                               !.challenged = domain_validation[cur].challenged \/ found]]
      BY <1>14 DEF VerifyCustomDomainDNS
    <3>2. (domain_validation[cur].challenged \/ found) \in BOOLEAN
      OBVIOUS
    <3> QED
      BY <2>1, <3>1, <3>2, EntryUpdate
  <2> QED
    BY <1>14, <2>3 DEF VerifyCustomDomainDNS
<1>15. CASE ClearHosts
  BY <1>15 DEF ClearHosts
<1>16. CASE AddHosts
  <2>1. cur \in Instance /\ HostsOf(CurParameters) \subseteq Host
    BY <1>16, CurParametersType DEF AddHosts, RunInv, Processing
  <2> QED
    BY <1>16, <2>1 DEF AddHosts
<1>17. CASE PostDeployInstanceValidation
  BY <1>17 DEF PostDeployInstanceValidation
<1>18. CASE UpdateInstanceInDB
  <2>1. cur \in Instance /\ CurParameters \in Parameters
    BY <1>18, CurParametersType DEF UpdateInstanceInDB, RunInv, Processing
  <2>2. requestinstance_db' \in [Instance -> StoredRow \cup {Absent}]
    BY <1>18, <2>1, RowsAreNotAbsent DEF UpdateInstanceInDB
  <2> QED
    BY <1>18, <2>2 DEF UpdateInstanceInDB
<1>19. ASSUME NEW i \in Instance, KeepRetained(i) PROVE TypeOK'
  BY <1>19 DEF KeepRetained, AtRemoved
<1>20. ASSUME NEW i \in Instance, EnterRetention(i) PROVE TypeOK'
  <2>1. domain_validation' \in [Instance -> Entry \cup {Absent}]
    BY <1>20, EntryUpdate DEF EnterRetention
  <2> QED
    BY <1>20, <2>1 DEF EnterRetention, AtRemoved
<1>21. CASE RetainHosts
  BY <1>21 DEF RetainHosts
<1>22. CASE RetainRow
  <2>1. cur \in Instance /\ requestinstance_db[cur] # Absent
    BY <1>22 DEF RetainRow, RunInv, Removing
  <2>2. requestinstance_db' \in [Instance -> StoredRow \cup {Absent}]
    BY <1>22, <2>1, RowUpdate DEF RetainRow
  <2> QED
    BY <1>22, <2>2 DEF RetainRow
<1>23. ASSUME NEW i \in Instance, Destroy(i) PROVE TypeOK'
  BY <1>23 DEF Destroy, AtRemoved
<1>24. CASE DestroyHosts
  BY <1>24 DEF DestroyHosts
<1>25. CASE DestroyRow
  BY <1>25 DEF DestroyRow
<1>26. CASE Finish
  BY <1>26 DEF Finish
<1> QED
  BY <1>1, <1>2, <1>3, <1>4, <1>5, <1>6, <1>7, <1>8, <1>9, <1>10, <1>11, <1>12, <1>13, <1>14, <1>15, <1>16, <1>17, <1>18, <1>19, <1>20, <1>21, <1>22, <1>23, <1>24, <1>25, <1>26 DEF Next, NodeStep, DomainStep, RemovalStep

-----------------------------------------------------------------------------
(* What a run knows at its labels. *)

\* Every step keeps the local copies of the run in agreement with the tables.
LEMMA RunStep ==
    ASSUME TypeOK, RunInv, ChallengeInv, [Next]_vars
    PROVE  RunInv'
<1> USE DEF RunInv, Processing, WithDomain, Removing, Continue, Conclude, NextInstance, CurParameters
<1>1. CASE UNCHANGED vars
  BY <1>1
<1>2. CASE RecordRequests
  BY <1>2 DEF RecordRequests
<1>3. CASE Die
  BY <1>3 DEF Die
<1>4. CASE DestroyRowFails
  BY <1>4 DEF DestroyRowFails
<1>5. CASE Install
  <2>1. \A i \in added' \cup changed' : instance_map'[i] # Absent
    BY <1>5 DEF Install, Added, Modified, Removed, Reprocessed, Present
  <2>2. \A i \in removed' : requestinstance_db'[i] # Absent
    BY <1>5 DEF Install, Removed, Present
  <2> QED
    BY <1>5, <2>1, <2>2 DEF Install
<1>6. ASSUME NEW i \in Instance, ProcessInstance(i) PROVE RunInv'
  BY <1>6 DEF ProcessInstance
<1>7. CASE ValidateParameters
  BY <1>7 DEF ValidateParameters
<1>8. CASE KeepDomain
  BY <1>8 DEF KeepDomain
<1>9. CASE DropDomain
  BY <1>9 DEF DropDomain
<1>10. CASE DropHosts
  BY <1>10 DEF DropHosts
<1>11. CASE RestoreDomain
  BY <1>11 DEF RestoreDomain
<1>12. CASE RefuseDomain
  BY <1>12 DEF RefuseDomain
<1>13. CASE GetOrGenerateToken
  BY <1>13 DEF GetOrGenerateToken
<1>14. CASE VerifyCustomDomainDNS
  BY <1>14 DEF VerifyCustomDomainDNS
<1>15. CASE ClearHosts
  BY <1>15 DEF ClearHosts
<1>16. CASE AddHosts
  BY <1>16 DEF AddHosts
<1>17. CASE PostDeployInstanceValidation
  BY <1>17 DEF PostDeployInstanceValidation
<1>18. CASE UpdateInstanceInDB
  <2>1. /\ cur \in Instance \ (added \cup changed)
        /\ instance_map' = [instance_map EXCEPT ![cur] = Absent]
        /\ UNCHANGED <<added, changed, removed>> /\ pc' = "loop"
    BY <1>18 DEF UpdateInstanceInDB
  <2>2. \A i \in added' \cup changed' : instance_map'[i] # Absent
    BY <2>1 DEF TypeOK
  <2>3. CurParameters \in Parameters /\ verdict \in {"valid", "invalid"}
    BY <1>18, CurParametersType DEF UpdateInstanceInDB, TypeOK
  <2>4. \A i \in Instance : requestinstance_db[i] # Absent => requestinstance_db'[i] # Absent
    BY <1>18, <2>1, <2>3, RowsAreNotAbsent DEF UpdateInstanceInDB, TypeOK
  <2>5. \A i \in removed' : requestinstance_db'[i] # Absent
    BY <2>1, <2>4 DEF TypeOK
  <2> QED
    BY <2>1, <2>2, <2>5
<1>19. ASSUME NEW i \in Instance, KeepRetained(i) PROVE RunInv'
  BY <1>19 DEF KeepRetained, AtRemoved
<1>20. ASSUME NEW i \in Instance, EnterRetention(i) PROVE RunInv'
  BY <1>20 DEF EnterRetention, AtRemoved, TypeOK
<1>21. CASE RetainHosts
  BY <1>21 DEF RetainHosts
<1>22. CASE RetainRow
  <2>1. /\ cur \in Instance \ removed /\ requestinstance_db[cur] # Absent
        /\ UNCHANGED <<added, changed, removed, instance_map>> /\ pc' = "loop"
        /\ requestinstance_db' =
              [requestinstance_db EXCEPT
                 ![cur] = [requestinstance_db[cur] EXCEPT !.valid_parameter = "stopped"]]
    BY <1>22 DEF RetainRow
  <2>2. \A i \in removed' : requestinstance_db'[i] # Absent
    BY <2>1 DEF TypeOK
  <2> QED
    BY <2>1, <2>2
<1>23. ASSUME NEW i \in Instance, Destroy(i) PROVE RunInv'
  BY <1>23 DEF Destroy, AtRemoved
<1>24. CASE DestroyHosts
  BY <1>24 DEF DestroyHosts
<1>25. CASE DestroyRow
  <2>1. /\ cur \in Instance \ removed
        /\ UNCHANGED <<added, changed, removed, instance_map>> /\ pc' = "loop"
        /\ requestinstance_db' = [requestinstance_db EXCEPT ![cur] = Absent]
    BY <1>25 DEF DestroyRow
  <2>2. \A i \in removed' : requestinstance_db'[i] # Absent
    BY <2>1 DEF TypeOK
  <2> QED
    BY <2>1, <2>2
<1>26. CASE Finish
  BY <1>26 DEF Finish
<1> QED
  BY <1>1, <1>2, <1>3, <1>4, <1>5, <1>6, <1>7, <1>8, <1>9, <1>10, <1>11, <1>12,
     <1>13, <1>14, <1>15, <1>16, <1>17, <1>18, <1>19, <1>20, <1>21, <1>22, <1>23,
     <1>24, <1>25, <1>26
  DEF Next, NodeStep, DomainStep, RemovalStep

-----------------------------------------------------------------------------
(* The domain under challenge stays free. *)

\* Every step that waits for a challenge, or starts one, finds the domain free.
LEMMA ChallengeStep ==
    ASSUME TypeOK, RunInv, ChallengeInv, [Next]_vars
    PROVE  ChallengeInv'
<1> USE DEF ChallengeInv, Continue, Conclude, NextInstance
<1>1. CASE UNCHANGED vars
  BY <1>1 DEF CurParameters, ClaimedByOther, Owns
<1>2. CASE RecordRequests
  BY <1>2 DEF RecordRequests, CurParameters, ClaimedByOther, Owns
<1>3. CASE Die
  BY <1>3 DEF Die
<1>4. CASE DestroyRowFails
  BY <1>4 DEF DestroyRowFails
<1>5. CASE Install
  BY <1>5 DEF Install
<1>6. ASSUME NEW i \in Instance, ProcessInstance(i) PROVE ChallengeInv'
  BY <1>6 DEF ProcessInstance
<1>7. CASE ValidateParameters
  BY <1>7 DEF ValidateParameters
<1>8. CASE KeepDomain
  BY <1>8 DEF KeepDomain
<1>9. CASE DropDomain
  BY <1>9 DEF DropDomain
<1>10. CASE DropHosts
  BY <1>10 DEF DropHosts
<1>11. CASE RestoreDomain
  BY <1>11 DEF RestoreDomain
<1>12. CASE RefuseDomain
  BY <1>12 DEF RefuseDomain
<1>13. CASE GetOrGenerateToken
  <2> DEFINE d == CurParameters.custom_domain
  <2>1. /\ Unvalidated(cur, d) /\ ~ClaimedByOther(d, cur)
        /\ domain_validation' =
              IF domain_validation[cur] # Absent
              THEN domain_validation
              ELSE [domain_validation EXCEPT
                      ![cur] = [domain |-> d, validated |-> FALSE, challenged |-> FALSE]]
        /\ UNCHANGED <<cur, instance_map>>
    BY <1>13 DEF GetOrGenerateToken
  <2>2. cur \in Instance /\ d \in Host
    BY <1>13, CurParametersType DEF GetOrGenerateToken, RunInv, Processing, WithDomain
  <2>3. UNCHANGED d
    BY <2>1 DEF CurParameters
  <2>4. /\ domain_validation'[cur] # Absent /\ domain_validation'[cur].domain = d
        /\ ~domain_validation'[cur].validated
    BY <2>1, <2>2, RowsAreNotAbsent DEF TypeOK, Unvalidated
  <2>5. \A j \in Instance \ {cur} : domain_validation'[j] = domain_validation[j]
    BY <2>1 DEF TypeOK
  <2>6. ~ClaimedByOther(d, cur)'
    BY <2>1, <2>3, <2>5 DEF ClaimedByOther, Owns
  <2> QED
    BY <2>1, <2>3, <2>4, <2>6
<1>14. CASE VerifyCustomDomainDNS
  BY <1>14 DEF VerifyCustomDomainDNS
<1>15. CASE ClearHosts
  BY <1>15 DEF ClearHosts
<1>16. CASE AddHosts
  BY <1>16 DEF AddHosts
<1>17. CASE PostDeployInstanceValidation
  BY <1>17 DEF PostDeployInstanceValidation
<1>18. CASE UpdateInstanceInDB
  BY <1>18 DEF UpdateInstanceInDB
<1>19. ASSUME NEW i \in Instance, KeepRetained(i) PROVE ChallengeInv'
  BY <1>19 DEF KeepRetained, AtRemoved
<1>20. ASSUME NEW i \in Instance, EnterRetention(i) PROVE ChallengeInv'
  BY <1>20 DEF EnterRetention, AtRemoved
<1>21. CASE RetainHosts
  BY <1>21 DEF RetainHosts
<1>22. CASE RetainRow
  BY <1>22 DEF RetainRow
<1>23. ASSUME NEW i \in Instance, Destroy(i) PROVE ChallengeInv'
  BY <1>23 DEF Destroy, AtRemoved
<1>24. CASE DestroyHosts
  BY <1>24 DEF DestroyHosts
<1>25. CASE DestroyRow
  BY <1>25 DEF DestroyRow
<1>26. CASE Finish
  BY <1>26 DEF Finish
<1> QED
  BY <1>1, <1>2, <1>3, <1>4, <1>5, <1>6, <1>7, <1>8, <1>9, <1>10, <1>11, <1>12,
     <1>13, <1>14, <1>15, <1>16, <1>17, <1>18, <1>19, <1>20, <1>21, <1>22, <1>23,
     <1>24, <1>25, <1>26
  DEF Next, NodeStep, DomainStep, RemovalStep

-----------------------------------------------------------------------------
(* The table of domains is a registry. *)

\* Nothing happens to the entries but to the one of i.
OnlyEntryOf(i) ==
    \A j \in Instance \ {i} : domain_validation'[j] = domain_validation[j]

\* The entries decide who owns what.
LEMMA SameEntriesSameOwners ==
    ASSUME UNCHANGED domain_validation
    PROVE  UNCHANGED owns
BY DEF owns, Owns

\* An instance whose entry is not validated any more has released what it owned, and
\* that is one domain at most.
LEMMA Releasing ==
    ASSUME NEW i \in Instance, OnlyEntryOf(i), \A d \in Host : ~Owns(i, d)'
    PROVE  [Registry!Next]_owns
<1>1. \A j \in Instance \ {i}, d \in Host : Owns(j, d)' <=> Owns(j, d)
  BY DEF OnlyEntryOf, Owns
<1>2. CASE \A d \in Host : ~Owns(i, d)
  <2>1. owns' = owns
    BY <1>1, <1>2 DEF owns
  <2> QED
    BY <2>1
<1>3. CASE \E d \in Host : Owns(i, d)
  <2>1. PICK d \in Host : Owns(i, d)
    BY <1>3
  <2>2. \A e \in Host : Owns(i, e) <=> e = d
    BY <2>1 DEF Owns
  <2>3. <<i, d>> \in owns
    BY <2>1 DEF owns
  <2>4. owns' = owns \ {<<i, d>>}
    BY <1>1, <2>2 DEF owns
  <2>5. Registry!Release(i, d)
    BY <2>3, <2>4 DEF Registry!Release
  <2> QED
    BY <2>5 DEF Registry!Next
<1> QED
  BY <1>2, <1>3

\* An instance that owned nothing and gets a validated entry for a domain nobody else
\* owns has claimed it.
LEMMA Claiming ==
    ASSUME NEW i \in Instance, NEW d \in Host, OnlyEntryOf(i),
           \A e \in Host : ~Owns(i, e), ~ClaimedByOther(d, i), Owns(i, d)'
    PROVE  Registry!Claim(i, d)
<1>1. \A j \in Instance \ {i}, e \in Host : Owns(j, e)' <=> Owns(j, e)
  BY DEF OnlyEntryOf, Owns
<1>2. \A e \in Host : Owns(i, e)' <=> e = d
  BY DEF Owns
<1>3. owns' = owns \cup {<<i, d>>}
  BY <1>1, <1>2 DEF owns
<1>4. \A j \in Instance : <<j, d>> \notin owns
  BY DEF owns, ClaimedByOther
<1>5. \A e \in Host : <<i, e>> \notin owns
  BY DEF owns
<1> QED
  BY <1>3, <1>4, <1>5 DEF Registry!Claim

\* Every step of the node, of slapconfiguration or of a crash leaves the registry alone,
\* claims a free domain or releases one.
LEMMA RegistryStep ==
    ASSUME TypeOK, RunInv, ChallengeInv, [Next]_vars
    PROVE  [Registry!Next]_owns
<1>1. CASE UNCHANGED vars
  BY <1>1, SameEntriesSameOwners
<1>2. CASE RecordRequests
  BY <1>2, SameEntriesSameOwners DEF RecordRequests
<1>3. CASE Die
  BY <1>3, SameEntriesSameOwners DEF Die
<1>4. CASE DestroyRowFails
  BY <1>4, SameEntriesSameOwners DEF DestroyRowFails
<1>5. CASE Install
  BY <1>5, SameEntriesSameOwners DEF Install
<1>6. ASSUME NEW i \in Instance, ProcessInstance(i) PROVE [Registry!Next]_owns
  BY <1>6, SameEntriesSameOwners DEF ProcessInstance
<1>7. CASE ValidateParameters
  BY <1>7, SameEntriesSameOwners DEF ValidateParameters
<1>8. CASE KeepDomain
  BY <1>8, SameEntriesSameOwners DEF KeepDomain
<1>9. CASE DropDomain
  <2>1. cur \in Instance /\ domain_validation'[cur] = Absent /\ OnlyEntryOf(cur)
    BY <1>9 DEF DropDomain, OnlyEntryOf, RunInv, Processing, TypeOK
  <2> QED
    BY <2>1, Releasing DEF Owns
<1>10. CASE DropHosts
  BY <1>10, SameEntriesSameOwners DEF DropHosts
<1>11. CASE RestoreDomain
  <2>1. PICK i \in Instance, d \in Host : i = cur /\ d = CurParameters.custom_domain
    BY <1>11, CurParametersType DEF RestoreDomain, RunInv, Processing, WithDomain
  <2>2. /\ domain_validation[i] # Absent /\ Unvalidated(i, d) /\ ~ClaimedByOther(d, i)
        /\ domain_validation' =
              [domain_validation EXCEPT
                 ![i] = [domain_validation[i] EXCEPT !.validated = TRUE]]
    BY <1>11, <2>1 DEF RestoreDomain, Restorable
  <2>3. domain_validation[i].domain = d /\ ~domain_validation[i].validated
    BY <2>2 DEF Unvalidated
  <2>4. OnlyEntryOf(i) /\ \A e \in Host : ~Owns(i, e)
    BY <2>2, <2>3 DEF OnlyEntryOf, Owns, TypeOK
  <2>5. domain_validation[i] \in Entry
    BY <2>2 DEF TypeOK
  <2>6. Owns(i, d)'
    BY <2>2, <2>3, <2>5, EntryUpdate DEF Owns, TypeOK, Entry
  <2> QED
    BY <2>2, <2>4, <2>6, Claiming DEF Registry!Next
<1>12. CASE RefuseDomain
  BY <1>12, SameEntriesSameOwners DEF RefuseDomain
<1>13. CASE GetOrGenerateToken
  <2> DEFINE d == CurParameters.custom_domain
  <2>1. /\ cur \in Instance /\ Unvalidated(cur, d) /\ UNCHANGED cur
        /\ domain_validation' =
              IF domain_validation[cur] # Absent
              THEN domain_validation
              ELSE [domain_validation EXCEPT
                      ![cur] = [domain |-> d, validated |-> FALSE, challenged |-> FALSE]]
    BY <1>13 DEF GetOrGenerateToken, RunInv, Processing
  <2>2. OnlyEntryOf(cur) /\ \A e \in Host : ~Owns(cur, e)'
    BY <2>1 DEF OnlyEntryOf, Owns, Unvalidated, TypeOK
  <2> QED
    BY <2>1, <2>2, Releasing
<1>14. CASE VerifyCustomDomainDNS
  <2>1. PICK i \in Instance, d \in Host : i = cur /\ d = CurParameters.custom_domain
    BY <1>14, CurParametersType DEF VerifyCustomDomainDNS, RunInv, Processing, WithDomain
  <2>2. PICK found \in BOOLEAN :
            domain_validation' =
                [domain_validation EXCEPT
                   ![i] = [domain_validation[i] EXCEPT
                             !.validated = found,
                             !.challenged = domain_validation[i].challenged \/ found]]
    BY <1>14, <2>1 DEF VerifyCustomDomainDNS
  <2>3. /\ domain_validation[i] # Absent /\ ~domain_validation[i].validated
        /\ domain_validation[i].domain = d /\ ~ClaimedByOther(d, i)
    BY <1>14, <2>1 DEF VerifyCustomDomainDNS, ChallengeInv
  <2>4. OnlyEntryOf(i) /\ \A e \in Host : ~Owns(i, e)
    BY <2>2, <2>3 DEF OnlyEntryOf, Owns, TypeOK
  <2>5. domain_validation[i] \in Entry
    BY <2>3 DEF TypeOK
  <2>6. (domain_validation[i].challenged \/ found) \in BOOLEAN
    OBVIOUS
  <2>7. /\ domain_validation'[i] # Absent
        /\ domain_validation'[i].domain = d /\ domain_validation'[i].validated = found
    BY <2>2, <2>3, <2>5, <2>6, EntryUpdate DEF TypeOK, Entry
  <2>8. CASE found
    <3>1. Owns(i, d)'
      BY <2>7, <2>8 DEF Owns
    <3> QED
      BY <2>3, <2>4, <3>1, Claiming DEF Registry!Next
  <2>9. CASE ~found
    <3>1. \A e \in Host : ~Owns(i, e)'
      BY <2>7, <2>9 DEF Owns
    <3> QED
      BY <2>4, <3>1, Releasing
  <2> QED
    BY <2>8, <2>9
<1>15. CASE ClearHosts
  BY <1>15, SameEntriesSameOwners DEF ClearHosts
<1>16. CASE AddHosts
  BY <1>16, SameEntriesSameOwners DEF AddHosts
<1>17. CASE PostDeployInstanceValidation
  BY <1>17, SameEntriesSameOwners DEF PostDeployInstanceValidation
<1>18. CASE UpdateInstanceInDB
  BY <1>18, SameEntriesSameOwners DEF UpdateInstanceInDB
<1>19. ASSUME NEW i \in Instance, KeepRetained(i) PROVE [Registry!Next]_owns
  BY <1>19, SameEntriesSameOwners DEF KeepRetained
<1>20. ASSUME NEW i \in Instance, EnterRetention(i) PROVE [Registry!Next]_owns
  <2>1. domain_validation' =
            IF domain_validation[i] = Absent
            THEN domain_validation
            ELSE [domain_validation EXCEPT
                    ![i] = [domain_validation[i] EXCEPT !.validated = FALSE]]
    BY <1>20 DEF EnterRetention
  <2>2. CASE domain_validation[i] = Absent
    BY <2>1, <2>2, SameEntriesSameOwners
  <2>3. CASE domain_validation[i] # Absent
    <3>1. domain_validation[i] \in Entry
      BY <2>3 DEF TypeOK
    <3>2. OnlyEntryOf(i) /\ ~domain_validation'[i].validated
      BY <2>1, <2>3, <3>1 DEF OnlyEntryOf, TypeOK, Entry
    <3> QED
      BY <3>2, Releasing DEF Owns
  <2> QED
    BY <2>2, <2>3
<1>21. CASE RetainHosts
  BY <1>21, SameEntriesSameOwners DEF RetainHosts
<1>22. CASE RetainRow
  BY <1>22, SameEntriesSameOwners DEF RetainRow
<1>23. ASSUME NEW i \in Instance, Destroy(i) PROVE [Registry!Next]_owns
  <2>1. domain_validation'[i] = Absent /\ OnlyEntryOf(i)
    BY <1>23 DEF Destroy, OnlyEntryOf, TypeOK
  <2> QED
    BY <2>1, Releasing DEF Owns
<1>24. CASE DestroyHosts
  BY <1>24, SameEntriesSameOwners DEF DestroyHosts
<1>25. CASE DestroyRow
  BY <1>25, SameEntriesSameOwners DEF DestroyRow
<1>26. CASE Finish
  BY <1>26, SameEntriesSameOwners DEF Finish
<1> QED
  BY <1>1, <1>2, <1>3, <1>4, <1>5, <1>6, <1>7, <1>8, <1>9, <1>10, <1>11, <1>12,
     <1>13, <1>14, <1>15, <1>16, <1>17, <1>18, <1>19, <1>20, <1>21, <1>22, <1>23,
     <1>24, <1>25, <1>26
  DEF Next, NodeStep, DomainStep, RemovalStep

-----------------------------------------------------------------------------
(* The theorems. *)

\* A step of the registry gives no domain a second owner.
LEMMA OneOwnerStep ==
    ASSUME OneOwnerPerDomain, [Registry!Next]_owns
    PROVE  OneOwnerPerDomain'
<1>1. /\ \A i \in Instance, d \in Host : Owns(i, d) <=> <<i, d>> \in owns
      /\ \A i \in Instance, d \in Host : Owns(i, d)' <=> <<i, d>> \in owns'
  BY DEF owns
<1>2. CASE UNCHANGED owns
  BY <1>1, <1>2 DEF OneOwnerPerDomain
<1>3. ASSUME NEW i \in Instance, NEW d \in Host, Registry!Claim(i, d)
      PROVE  OneOwnerPerDomain'
  BY <1>1, <1>3 DEF Registry!Claim, OneOwnerPerDomain
<1>4. ASSUME NEW i \in Instance, NEW d \in Host, Registry!Release(i, d)
      PROVE  OneOwnerPerDomain'
  BY <1>1, <1>4 DEF Registry!Release, OneOwnerPerDomain
<1> QED
  BY <1>2, <1>3, <1>4 DEF Registry!Next

\* Nothing is stored and no run is under way when the node is installed.
LEMMA InitEstablishes == Init => IInv /\ Registry!Init
<1> SUFFICES ASSUME Init
             PROVE  IInv /\ Registry!Init
  OBVIOUS
<1>1. TypeOK
  BY BoundAssumption DEF Init, TypeOK, Label
<1>2. RunInv
  BY DEF Init, RunInv, Processing, WithDomain, Removing
<1>3. ChallengeInv
  BY DEF Init, ChallengeInv
<1>4. \A i \in Instance, d \in Host : ~Owns(i, d)
  BY DEF Init, Owns
<1>5. OneOwnerPerDomain
  BY <1>4 DEF OneOwnerPerDomain
<1>6. Registry!Init
  BY <1>4 DEF Registry!Init, owns
<1> QED
  BY <1>1, <1>2, <1>3, <1>5, <1>6 DEF IInv

\* IInv is inductive.
LEMMA Inductive == IInv /\ [Next]_vars => IInv' /\ [Registry!Next]_owns
BY TypeStep, RunStep, ChallengeStep, RegistryStep, OneOwnerStep DEF IInv

\* The invariant holds in every state of every behaviour of the node.
THEOREM Invariance == Spec => []IInv
<1>1. Init => IInv
  BY InitEstablishes
<1>2. IInv /\ [Next]_vars => IInv'
  BY Inductive
<1> QED
  BY <1>1, <1>2, PTL DEF Spec

\* The tables of the node and the variables of its runs have their types: a row is
\* complete whenever a step reads or changes it.
THEOREM TypeCorrect == Spec => []TypeOK
<1>1. IInv => TypeOK
  BY DEF IInv
<1> QED
  BY <1>1, Invariance, PTL

\* A custom domain is validated for one instance at most, whatever is requested and
\* wherever runs die.
THEOREM OneOwner == Spec => []OneOwnerPerDomain
<1>1. IInv => OneOwnerPerDomain
  BY DEF IInv
<1> QED
  BY <1>1, Invariance, PTL

\* The node implements the registry: a domain is claimed only when it is free, by an
\* instance that has none, and goes to another instance only after it was released.
THEOREM Implements == Spec => DomainsAreClaimedAndReleased
<1>1. Init => Registry!Init
  BY InitEstablishes
<1>2. IInv /\ [Next]_vars => [Registry!Next]_owns
  BY Inductive
<1> QED
  BY <1>1, <1>2, Invariance, PTL DEF Spec, DomainsAreClaimedAndReleased, Registry!Spec

-----------------------------------------------------------------------------
(* Without retention every validation is the answer to a challenge. *)

\* No row is in retention, and none is on its way there.
NeverRetained ==
    /\ \A i \in Instance : ~IsStopped(i)
    /\ pc \notin {"retain hosts", "retain row"}

\* When instance-retention-delay is not positive, no step retains an instance.
LEMMA NeverRetainedStep ==
    ASSUME ~Retention, TypeOK, NeverRetained, [Next]_vars
    PROVE  NeverRetained'
<1> USE DEF NeverRetained, IsStopped, HasVerdict, Continue, Conclude, NextInstance
<1>1. CASE UNCHANGED vars
  BY <1>1
<1>2. CASE RecordRequests
  BY <1>2 DEF RecordRequests
<1>3. CASE Die
  BY <1>3 DEF Die
<1>4. CASE DestroyRowFails
  BY <1>4 DEF DestroyRowFails
<1>5. CASE Install
  BY <1>5 DEF Install
<1>6. ASSUME NEW i \in Instance, ProcessInstance(i) PROVE NeverRetained'
  BY <1>6 DEF ProcessInstance
<1>7. CASE ValidateParameters
  BY <1>7 DEF ValidateParameters
<1>8. CASE KeepDomain
  BY <1>8 DEF KeepDomain
<1>9. CASE DropDomain
  BY <1>9 DEF DropDomain
<1>10. CASE DropHosts
  BY <1>10 DEF DropHosts
<1>11. CASE RestoreDomain
  BY <1>11 DEF RestoreDomain
<1>12. CASE RefuseDomain
  BY <1>12 DEF RefuseDomain
<1>13. CASE GetOrGenerateToken
  BY <1>13 DEF GetOrGenerateToken
<1>14. CASE VerifyCustomDomainDNS
  BY <1>14 DEF VerifyCustomDomainDNS
<1>15. CASE ClearHosts
  BY <1>15 DEF ClearHosts
<1>16. CASE AddHosts
  BY <1>16 DEF AddHosts
<1>17. CASE PostDeployInstanceValidation
  BY <1>17 DEF PostDeployInstanceValidation
<1>18. CASE UpdateInstanceInDB
  <2>1. verdict \in {"valid", "invalid"} /\ pc' = "loop"
    BY <1>18 DEF UpdateInstanceInDB, TypeOK
  <2>2. requestinstance_db' =
            [requestinstance_db EXCEPT
               ![cur] = [parameters |-> CurParameters, valid_parameter |-> verdict]]
    BY <1>18 DEF UpdateInstanceInDB
  <2>3. \A i \in Instance : ~IsStopped(i)'
    BY <2>1, <2>2 DEF TypeOK, IsStopped, HasVerdict
  <2> QED
    BY <2>1, <2>3
<1>19. ASSUME NEW i \in Instance, KeepRetained(i) PROVE NeverRetained'
  BY <1>19 DEF KeepRetained, AtRemoved
<1>20. ASSUME NEW i \in Instance, EnterRetention(i) PROVE NeverRetained'
  BY <1>20 DEF EnterRetention, AtRemoved
<1>21. CASE RetainHosts
  BY <1>21 DEF RetainHosts
<1>22. CASE RetainRow
  BY <1>22 DEF RetainRow
<1>23. ASSUME NEW i \in Instance, Destroy(i) PROVE NeverRetained'
  BY <1>23 DEF Destroy, AtRemoved
<1>24. CASE DestroyHosts
  BY <1>24 DEF DestroyHosts
<1>25. CASE DestroyRow
  <2>1. requestinstance_db' = [requestinstance_db EXCEPT ![cur] = Absent] /\ pc' = "loop"
    BY <1>25 DEF DestroyRow
  <2>2. \A i \in Instance : ~IsStopped(i)'
    BY <2>1 DEF TypeOK, IsStopped, HasVerdict
  <2> QED
    BY <2>1, <2>2
<1>26. CASE Finish
  BY <1>26 DEF Finish
<1> QED
  BY <1>1, <1>2, <1>3, <1>4, <1>5, <1>6, <1>7, <1>8, <1>9, <1>10, <1>11, <1>12,
     <1>13, <1>14, <1>15, <1>16, <1>17, <1>18, <1>19, <1>20, <1>21, <1>22, <1>23,
     <1>24, <1>25, <1>26
  DEF Next, NodeStep, DomainStep, RemovalStep

\* When no instance is retained, an entry is validated by its challenge only.
LEMMA ChallengedStep ==
    ASSUME ~Retention, TypeOK, RunInv, ChallengeInv, NeverRetained, ValidatedWasChallenged,
           [Next]_vars
    PROVE  ValidatedWasChallenged'
<1> USE DEF ValidatedWasChallenged
<1>1. CASE UNCHANGED vars
  BY <1>1
<1>2. CASE RecordRequests
  BY <1>2 DEF RecordRequests
<1>3. CASE Die
  BY <1>3 DEF Die
<1>4. CASE DestroyRowFails
  BY <1>4 DEF DestroyRowFails
<1>5. CASE Install
  BY <1>5 DEF Install
<1>6. ASSUME NEW i \in Instance, ProcessInstance(i) PROVE ValidatedWasChallenged'
  BY <1>6 DEF ProcessInstance
<1>7. CASE ValidateParameters
  BY <1>7 DEF ValidateParameters
<1>8. CASE KeepDomain
  BY <1>8 DEF KeepDomain
<1>9. CASE DropDomain
  BY <1>9 DEF DropDomain, TypeOK
<1>10. CASE DropHosts
  BY <1>10 DEF DropHosts
<1>11. CASE RestoreDomain
  BY <1>11 DEF RestoreDomain, Restorable, NeverRetained, RunInv, Processing
<1>12. CASE RefuseDomain
  BY <1>12 DEF RefuseDomain
<1>13. CASE GetOrGenerateToken
  BY <1>13 DEF GetOrGenerateToken, TypeOK
<1>14. CASE VerifyCustomDomainDNS
  <2>1. PICK found \in BOOLEAN :
            domain_validation' =
                [domain_validation EXCEPT
                   ![cur] = [domain_validation[cur] EXCEPT
                               !.validated = found,
                               !.challenged = domain_validation[cur].challenged \/ found]]
    BY <1>14 DEF VerifyCustomDomainDNS
  <2>2. cur \in Instance /\ domain_validation[cur] \in Entry
    BY <1>14 DEF VerifyCustomDomainDNS, RunInv, Processing, ChallengeInv, TypeOK
  <2>3. domain_validation'[cur].validated => domain_validation'[cur].challenged
    BY <2>1, <2>2 DEF TypeOK, Entry
  <2>4. \A i \in Instance \ {cur} : domain_validation'[i] = domain_validation[i]
    BY <2>1 DEF TypeOK
  <2> QED
    BY <2>2, <2>3, <2>4
<1>15. CASE ClearHosts
  BY <1>15 DEF ClearHosts
<1>16. CASE AddHosts
  BY <1>16 DEF AddHosts
<1>17. CASE PostDeployInstanceValidation
  BY <1>17 DEF PostDeployInstanceValidation
<1>18. CASE UpdateInstanceInDB
  BY <1>18 DEF UpdateInstanceInDB
<1>19. ASSUME NEW i \in Instance, KeepRetained(i) PROVE ValidatedWasChallenged'
  BY <1>19 DEF KeepRetained
<1>20. ASSUME NEW i \in Instance, EnterRetention(i) PROVE ValidatedWasChallenged'
  BY <1>20 DEF EnterRetention
<1>21. CASE RetainHosts
  BY <1>21 DEF RetainHosts
<1>22. CASE RetainRow
  BY <1>22 DEF RetainRow
<1>23. ASSUME NEW i \in Instance, Destroy(i) PROVE ValidatedWasChallenged'
  BY <1>23 DEF Destroy, TypeOK
<1>24. CASE DestroyHosts
  BY <1>24 DEF DestroyHosts
<1>25. CASE DestroyRow
  BY <1>25 DEF DestroyRow
<1>26. CASE Finish
  BY <1>26 DEF Finish
<1> QED
  BY <1>1, <1>2, <1>3, <1>4, <1>5, <1>6, <1>7, <1>8, <1>9, <1>10, <1>11, <1>12,
     <1>13, <1>14, <1>15, <1>16, <1>17, <1>18, <1>19, <1>20, <1>21, <1>22, <1>23,
     <1>24, <1>25, <1>26
  DEF Next, NodeStep, DomainStep, RemovalStep

\* As long as instance-retention-delay is not positive, a validated domain is one
\* whose challenge token was found in the DNS.
THEOREM ChallengedWithoutRetention ==
    ASSUME ~Retention
    PROVE  Spec => []ValidatedWasChallenged
<1>1. Init => NeverRetained /\ ValidatedWasChallenged
  BY DEF Init, NeverRetained, IsStopped, HasVerdict, ValidatedWasChallenged
<1>2. IInv /\ NeverRetained /\ ValidatedWasChallenged /\ [Next]_vars
        => NeverRetained' /\ ValidatedWasChallenged'
  BY NeverRetainedStep, ChallengedStep DEF IInv
<1> QED
  BY <1>1, <1>2, Invariance, PTL DEF Spec

=============================================================================
