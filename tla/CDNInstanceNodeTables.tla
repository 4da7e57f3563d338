----------------------- MODULE CDNInstanceNodeTables -----------------------
(***************************************************************************)
(* Proofs that the three tables of CDNInstanceNode stay in agreement, for  *)
(* the instances that no run is processing or has left half done: rows are *)
(* backed, retention releases, what is forgotten leaves nothing.           *)
(*                                                                         *)
(* A step changes what the tables hold for one instance, which is not      *)
(* settled (lemma Settling).  So it is enough to know what they hold for   *)
(* cur when the run is done with it: CurInv says it label by label.        *)
(***************************************************************************)
EXTENDS CDNInstanceNodeProofs

\* The tables agree with a row of instance i that says 'valid' for parameters p.
Backed(i, p) ==
    p.custom_domain # NoHost => Owns(i, p.custom_domain) /\ used_hosts[i] = HostsOf(p)

\* No other instance has taken an alias of p.
NoClash(i, p) == \A j \in Instance \ {i} : p.server_alias \cap used_hosts[j] = {}

\* The checks of the parameters of cur have passed.
Checked ==
    \/ pc \in WithDomain \cup {"deployed"}
    \/ pc = "record" /\ verdict = "valid"

CurInv ==
    /\ pc \in {"idle", "loop"} => cur = NoInstance
    /\ Checked => CurParameters.wellformed /\ NoClash(cur, CurParameters)
    /\ pc \in {"clear hosts", "add hosts"} => Owns(cur, CurParameters.custom_domain)
    /\ pc = "deployed" \/ (pc = "record" /\ verdict = "valid") => Backed(cur, CurParameters)
    /\ pc \in {"retain hosts", "retain row"} => \A d \in Host : ~Owns(cur, d)
    /\ pc \in {"destroy hosts", "destroy row"} => domain_validation[cur] = Absent
    /\ pc \in {"retain row", "destroy row"} => used_hosts[cur] = {}

\* What the row of instance i promises of the other two tables.
RowKept(i) ==
    /\ HasVerdict(i, "valid") =>
          LET p == requestinstance_db[i].parameters
          IN  p.wellformed /\ Backed(i, p)
    /\ IsStopped(i) => used_hosts[i] = {} /\ \A d \in Host : ~Owns(i, d)
    /\ requestinstance_db[i] = Absent => domain_validation[i] = Absent /\ used_hosts[i] = {}

SettledRowsKept == \A i \in Instance : Settled(i) => RowKept(i)

TablesInv == CurInv /\ SettledRowsKept /\ ValidAliasesDisjoint

USE DEF vars, tables, todo

-----------------------------------------------------------------------------
(* Steps leave settled instances alone. *)

\* What the tables hold for i stays as it is.
SameRows(i) ==
    /\ requestinstance_db'[i] = requestinstance_db[i]
    /\ domain_validation'[i] = domain_validation[i]
    /\ used_hosts'[i] = used_hosts[i]

\* The steps in which the run is done with cur.
DoneWithCur == UpdateInstanceInDB \/ RetainRow \/ DestroyRow

\* An instance that is settled after a step was settled before it and kept its rows,
\* or it is the one the run is done with.
LEMMA Settling ==
    ASSUME TypeOK, CurInv, [Next]_vars, NEW k \in Instance, Settled(k)'
    PROVE  (Settled(k) /\ SameRows(k)) \/ (k = cur /\ DoneWithCur)
<1> USE NullAssumption DEF NextInstance, Continue, Conclude
<1>1. CASE UNCHANGED vars
  BY <1>1 DEF SameRows, Settled
<1>2. CASE RecordRequests
  BY <1>2 DEF RecordRequests, SameRows, Settled, TypeOK, CurInv
<1>3. CASE Die
  BY <1>3 DEF Die, SameRows, Settled, TypeOK, CurInv
<1>4. CASE DestroyRowFails
  BY <1>4 DEF DestroyRowFails, SameRows, Settled, TypeOK, CurInv
<1>5. CASE Install
  BY <1>5 DEF Install, SameRows, Settled, TypeOK, CurInv
<1>6. ASSUME NEW i \in Instance, ProcessInstance(i) PROVE Settled(k) /\ SameRows(k)
  BY <1>6 DEF ProcessInstance, SameRows, Settled, TypeOK, CurInv
<1>7. CASE ValidateParameters
  BY <1>7 DEF ValidateParameters, HostsAfterAliasChange, SameRows, Settled, TypeOK
<1>8. CASE KeepDomain
  BY <1>8 DEF KeepDomain, SameRows, Settled, TypeOK, CurInv
<1>9. CASE DropDomain
  BY <1>9 DEF DropDomain, SameRows, Settled, TypeOK, CurInv
<1>10. CASE DropHosts
  BY <1>10 DEF DropHosts, SameRows, Settled, TypeOK, CurInv
<1>11. CASE RestoreDomain
  BY <1>11 DEF RestoreDomain, SameRows, Settled, TypeOK, CurInv
<1>12. CASE RefuseDomain
  BY <1>12 DEF RefuseDomain, SameRows, Settled, TypeOK, CurInv
<1>13. CASE GetOrGenerateToken
  BY <1>13 DEF GetOrGenerateToken, SameRows, Settled, TypeOK, CurInv
<1>14. CASE VerifyCustomDomainDNS
  BY <1>14 DEF VerifyCustomDomainDNS, SameRows, Settled, TypeOK, CurInv
<1>15. CASE ClearHosts
  BY <1>15 DEF ClearHosts, SameRows, Settled, TypeOK, CurInv
<1>16. CASE AddHosts
  BY <1>16 DEF AddHosts, SameRows, Settled, TypeOK, CurInv
<1>17. CASE PostDeployInstanceValidation
  BY <1>17 DEF PostDeployInstanceValidation, SameRows, Settled, TypeOK, CurInv
<1>18. CASE UpdateInstanceInDB
  <2>1. k # cur => Settled(k) /\ SameRows(k)
    BY <1>18 DEF UpdateInstanceInDB, SameRows, Settled, TypeOK
  <2> QED
    BY <1>18, <2>1 DEF DoneWithCur
<1>19. ASSUME NEW i \in Instance, KeepRetained(i) PROVE Settled(k) /\ SameRows(k)
  BY <1>19 DEF KeepRetained, SameRows, Settled, TypeOK, AtRemoved, CurInv
<1>20. ASSUME NEW i \in Instance, EnterRetention(i) PROVE Settled(k) /\ SameRows(k)
  BY <1>20 DEF EnterRetention, SameRows, Settled, TypeOK, AtRemoved, CurInv
<1>21. CASE RetainHosts
  BY <1>21 DEF RetainHosts, SameRows, Settled, TypeOK, CurInv
<1>22. CASE RetainRow
  <2>1. k # cur => Settled(k) /\ SameRows(k)
    BY <1>22 DEF RetainRow, SameRows, Settled, TypeOK
  <2> QED
    BY <1>22, <2>1 DEF DoneWithCur
<1>23. ASSUME NEW i \in Instance, Destroy(i) PROVE Settled(k) /\ SameRows(k)
  BY <1>23 DEF Destroy, SameRows, Settled, TypeOK, AtRemoved, CurInv
<1>24. CASE DestroyHosts
  BY <1>24 DEF DestroyHosts, SameRows, Settled, TypeOK, CurInv
<1>25. CASE DestroyRow
  <2>1. k # cur => Settled(k) /\ SameRows(k)
    BY <1>25 DEF DestroyRow, SameRows, Settled, TypeOK
  <2> QED
    BY <1>25, <2>1 DEF DoneWithCur
<1>26. CASE Finish
  BY <1>26 DEF Finish, SameRows, Settled, TypeOK, CurInv
<1> QED
  BY <1>1, <1>2, <1>3, <1>4, <1>5, <1>6, <1>7, <1>8, <1>9, <1>10, <1>11, <1>12,
     <1>13, <1>14, <1>15, <1>16, <1>17, <1>18, <1>19, <1>20, <1>21, <1>22, <1>23,
     <1>24, <1>25, <1>26
  DEF Next, NodeStep, DomainStep, RemovalStep

-----------------------------------------------------------------------------
(* What the tables hold for the instance being processed. *)

\* Every step keeps what is known of cur.
LEMMA CurStep ==
    ASSUME TypeOK, RunInv, ChallengeInv, CurInv, [Next]_vars
    PROVE  CurInv'
<1> USE DEF CurInv, Checked, WithDomain, NextInstance, Continue, Conclude, CurParameters,
           NoClash, Backed, Owns
<1>1. CASE UNCHANGED vars
  BY <1>1
<1>2. CASE RecordRequests
  BY <1>2 DEF RecordRequests
<1>3. CASE Die
  BY <1>3 DEF Die
<1>4. CASE DestroyRowFails
  BY <1>4 DEF DestroyRowFails
<1>5. CASE Install
  BY <1>5 DEF Install
<1>6. ASSUME NEW i \in Instance, ProcessInstance(i) PROVE CurInv'
  BY <1>6 DEF ProcessInstance
<1>7. CASE ValidateParameters
  <2>1. cur \in Instance
    BY <1>7 DEF ValidateParameters, RunInv, Processing
  <2>2. used_hosts' = HostsAfterAliasChange(cur, CurParameters)
    BY <1>7 DEF ValidateParameters
  <2>3. CASE CurParameters.wellformed /\ ~Clashes(used_hosts', CurParameters, cur)
    BY <1>7, <2>1, <2>2, <2>3 DEF ValidateParameters, Clashes
  <2>4. CASE ~CurParameters.wellformed \/ Clashes(used_hosts', CurParameters, cur)
    BY <1>7, <2>2, <2>4 DEF ValidateParameters
  <2> QED
    BY <2>3, <2>4
<1>8. CASE KeepDomain
  BY <1>8 DEF KeepDomain
<1>9. CASE DropDomain
  BY <1>9 DEF DropDomain
<1>10. CASE DropHosts
  <2>1. cur \in Instance
    BY <1>10 DEF DropHosts, RunInv, Processing, Removing
  <2>2. /\ used_hosts'[cur] = {}
        /\ \A j \in Instance \ {cur} : used_hosts'[j] = used_hosts[j]
    BY <1>10, <2>1 DEF DropHosts, TypeOK
  <2> QED
    BY <1>10, <2>1, <2>2 DEF DropHosts
<1>11. CASE RestoreDomain
  <2>1. cur \in Instance /\ domain_validation[cur] \in Entry
    BY <1>11 DEF RestoreDomain, Restorable, RunInv, Processing, TypeOK
  <2>2. domain_validation'[cur] = [domain_validation[cur] EXCEPT !.validated = TRUE]
    BY <1>11, <2>1 DEF RestoreDomain, TypeOK
  <2>3. domain_validation'[cur] # Absent
    BY <1>11, <2>1, <2>2, EntryUpdate DEF RestoreDomain, Restorable
  <2>4. domain_validation[cur].domain = CurParameters.custom_domain
    BY <1>11 DEF RestoreDomain, Restorable, Unvalidated
  <2>5. /\ domain_validation'[cur].domain = domain_validation[cur].domain
        /\ domain_validation'[cur].validated
    BY <2>1, <2>2 DEF Entry
  <2>6. Owns(cur, CurParameters.custom_domain)'
    BY <1>11, <2>3, <2>4, <2>5 DEF RestoreDomain
  <2> QED
    BY <1>11, <2>6 DEF RestoreDomain
<1>12. CASE RefuseDomain
  BY <1>12 DEF RefuseDomain
<1>13. CASE GetOrGenerateToken
  BY <1>13 DEF GetOrGenerateToken
<1>14. CASE VerifyCustomDomainDNS
  <2>1. /\ cur \in Instance
        /\ domain_validation[cur] # Absent
        /\ domain_validation[cur].domain = CurParameters.custom_domain
    BY <1>14 DEF VerifyCustomDomainDNS, RunInv, Processing, ChallengeInv
  <2>2. domain_validation[cur] \in Entry
    BY <2>1 DEF TypeOK
  <2>3. PICK found \in BOOLEAN :
            /\ domain_validation'[cur] =
                  [domain_validation[cur] EXCEPT
                     !.validated = found,
                     !.challenged = domain_validation[cur].challenged \/ found]
            /\ IF found THEN Continue("clear hosts") ELSE Conclude("invalid")
    BY <1>14, <2>1 DEF VerifyCustomDomainDNS, TypeOK
  <2>4. CASE ~found
    BY <1>14, <2>3, <2>4 DEF VerifyCustomDomainDNS
  <2>5. CASE found
    <3>1. (domain_validation[cur].challenged \/ found) \in BOOLEAN
      OBVIOUS
    <3>2. domain_validation'[cur] # Absent
      BY <2>1, <2>3, <3>1, EntryUpdate
    <3>3. Owns(cur, CurParameters.custom_domain)'
      BY <1>14, <2>1, <2>2, <2>3, <2>5, <3>2 DEF VerifyCustomDomainDNS, Entry
    <3> QED
      BY <1>14, <2>3, <2>5, <3>3 DEF VerifyCustomDomainDNS
  <2> QED
    BY <2>4, <2>5
<1>15. CASE ClearHosts
  <2>1. cur \in Instance
    BY <1>15 DEF ClearHosts, RunInv, Processing, Removing
  <2>2. /\ used_hosts'[cur] = {}
        /\ \A j \in Instance \ {cur} : used_hosts'[j] = used_hosts[j]
    BY <1>15, <2>1 DEF ClearHosts, TypeOK
  <2> QED
    BY <1>15, <2>1, <2>2 DEF ClearHosts
<1>16. CASE AddHosts
  <2>1. cur \in Instance
    BY <1>16 DEF AddHosts, RunInv, Processing, Removing
  <2>2. /\ used_hosts'[cur] = HostsOf(CurParameters)
        /\ \A j \in Instance \ {cur} : used_hosts'[j] = used_hosts[j]
    BY <1>16, <2>1 DEF AddHosts, TypeOK
  <2> QED
    BY <1>16, <2>1, <2>2 DEF AddHosts, HostsOf
<1>17. CASE PostDeployInstanceValidation
  BY <1>17 DEF PostDeployInstanceValidation
<1>18. CASE UpdateInstanceInDB
  BY <1>18 DEF UpdateInstanceInDB
<1>19. ASSUME NEW i \in Instance, KeepRetained(i) PROVE CurInv'
  BY <1>19 DEF KeepRetained, AtRemoved
<1>20. ASSUME NEW i \in Instance, EnterRetention(i) PROVE CurInv'
  <2>1. domain_validation[i] = Absent => domain_validation'[i] = Absent
    BY <1>20 DEF EnterRetention
  <2>2. ASSUME domain_validation[i] # Absent PROVE ~domain_validation'[i].validated
    <3>1. domain_validation[i] \in Entry
      BY <2>2 DEF TypeOK
    <3>2. domain_validation'[i] = [domain_validation[i] EXCEPT !.validated = FALSE]
      BY <1>20, <2>2 DEF EnterRetention, TypeOK
    <3> QED
      BY <3>1, <3>2 DEF Entry
  <2>3. \A d \in Host : ~Owns(i, d)'
    BY <2>1, <2>2
  <2> QED
    BY <1>20, <2>3 DEF EnterRetention
<1>21. CASE RetainHosts
  <2>1. cur \in Instance
    BY <1>21 DEF RetainHosts, RunInv, Processing, Removing
  <2>2. /\ used_hosts'[cur] = {}
        /\ \A j \in Instance \ {cur} : used_hosts'[j] = used_hosts[j]
    BY <1>21, <2>1 DEF RetainHosts, TypeOK
  <2> QED
    BY <1>21, <2>1, <2>2 DEF RetainHosts
<1>22. CASE RetainRow
  BY <1>22 DEF RetainRow
<1>23. ASSUME NEW i \in Instance, Destroy(i) PROVE CurInv'
  <2>1. domain_validation'[i] = Absent
    BY <1>23 DEF Destroy, TypeOK
  <2> QED
    BY <1>23, <2>1 DEF Destroy
<1>24. CASE DestroyHosts
  <2>1. cur \in Instance
    BY <1>24 DEF DestroyHosts, RunInv, Processing, Removing
  <2>2. /\ used_hosts'[cur] = {}
        /\ \A j \in Instance \ {cur} : used_hosts'[j] = used_hosts[j]
    BY <1>24, <2>1 DEF DestroyHosts, TypeOK
  <2> QED
    BY <1>24, <2>1, <2>2 DEF DestroyHosts
<1>25. CASE DestroyRow
  BY <1>25 DEF DestroyRow
<1>26. CASE Finish
  BY <1>26 DEF Finish
<1> QED
  BY <1>1, <1>2, <1>3, <1>4, <1>5, <1>6, <1>7, <1>8, <1>9, <1>10, <1>11, <1>12,
     <1>13, <1>14, <1>15, <1>16, <1>17, <1>18, <1>19, <1>20, <1>21, <1>22, <1>23,
     <1>24, <1>25, <1>26
  DEF Next, NodeStep, DomainStep, RemovalStep

-----------------------------------------------------------------------------
(* What a row promises, when the run is done with it. *)

\* Rows that stay keep their promise.
LEMMA RowsStay ==
    ASSUME NEW k \in Instance, SameRows(k), RowKept(k)
    PROVE  RowKept(k)'
BY DEF SameRows, RowKept, HasVerdict, IsStopped, Backed, Owns

\* The row the run is done with keeps its promise.
LEMMA RowDone ==
    ASSUME TypeOK, RunInv, CurInv, NEW k \in Instance, k = cur, DoneWithCur
    PROVE  RowKept(k)'
<1>1. CASE UpdateInstanceInDB
  <2>1. CurParameters \in Parameters
    BY <1>1, CurParametersType DEF UpdateInstanceInDB, RunInv, Processing
  <2>2. requestinstance_db'[k] = [parameters |-> CurParameters, valid_parameter |-> verdict]
    BY <1>1, <2>1 DEF UpdateInstanceInDB, TypeOK
  <2>3. requestinstance_db'[k] # Absent /\ verdict \in {"valid", "invalid"}
    BY <2>1, <2>2, RowsAreNotAbsent DEF TypeOK
  <2>4. ~IsStopped(k)'
    BY <1>1, <2>2, <2>3 DEF UpdateInstanceInDB, IsStopped, HasVerdict
  <2>5. verdict = "valid" => CurParameters.wellformed /\ Backed(k, CurParameters)
    BY <1>1 DEF UpdateInstanceInDB, CurInv, Checked, WithDomain
  <2> QED
    BY <1>1, <2>1, <2>2, <2>3, <2>4, <2>5
    DEF UpdateInstanceInDB, RowKept, HasVerdict, Backed, Owns
<1>2. CASE RetainRow
  <2>1. requestinstance_db[k] # Absent
    BY <1>2 DEF RetainRow, RunInv, Removing
  <2>2. requestinstance_db'[k] =
            [requestinstance_db[k] EXCEPT !.valid_parameter = "stopped"]
    BY <1>2, <2>1 DEF RetainRow, TypeOK
  <2>3. requestinstance_db'[k] # Absent
    BY <2>1, <2>2, RowUpdate
  <2>4. ~HasVerdict(k, "valid")'
    <3>1. requestinstance_db[k] \in StoredRow
      BY <2>1 DEF TypeOK
    <3>2. requestinstance_db'[k].valid_parameter = "stopped"
      BY <2>2, <3>1 DEF StoredRow
    <3> QED
      BY <1>2, <3>2 DEF RetainRow, HasVerdict
  <2>5. used_hosts[k] = {} /\ \A d \in Host : ~Owns(k, d)
    BY <1>2 DEF RetainRow, CurInv
  <2> QED
    BY <1>2, <2>1, <2>3, <2>4, <2>5 DEF RetainRow, RowKept, Owns
<1>3. CASE DestroyRow
  <2>1. requestinstance_db'[k] = Absent
    BY <1>3 DEF DestroyRow, RunInv, Removing, TypeOK
  <2>2. used_hosts[k] = {} /\ domain_validation[k] = Absent
    BY <1>3 DEF DestroyRow, CurInv
  <2> QED
    BY <1>3, <2>1, <2>2 DEF DestroyRow, RowKept, HasVerdict, IsStopped
<1> QED
  BY <1>1, <1>2, <1>3 DEF DoneWithCur

\* A row that says 'valid' has its aliases registered.
LEMMA AliasesRegistered ==
    ASSUME TypeOK, NEW k \in Instance, RowKept(k), HasVerdict(k, "valid")
    PROVE  requestinstance_db[k].parameters.server_alias \subseteq used_hosts[k]
<1> DEFINE p == requestinstance_db[k].parameters
<1>1. requestinstance_db[k] \in StoredRow
  BY DEF TypeOK, HasVerdict
<1>2. p \in Parameters
  BY <1>1 DEF StoredRow
<1>3. p.wellformed /\ Backed(k, p)
  BY DEF RowKept
<1>4. CASE p.custom_domain = NoHost
  BY <1>2, <1>3, <1>4, ParametersAssumption
<1>5. CASE p.custom_domain # NoHost
  BY <1>3, <1>5 DEF Backed, HostsOf
<1> QED
  BY <1>4, <1>5

\* The aliases recorded last are free of those recorded earlier.
LEMMA AliasesStep ==
    ASSUME TypeOK, RunInv, CurInv, SettledRowsKept, ValidAliasesDisjoint, [Next]_vars
    PROVE  ValidAliasesDisjoint'
<1> DEFINE aliases(i) == requestinstance_db[i].parameters.server_alias
<1> SUFFICES ASSUME NEW i \in Instance, NEW j \in Instance, i # j,
                    Settled(i)', Settled(j)',
                    HasVerdict(i, "valid")', HasVerdict(j, "valid")'
             PROVE  aliases(i)' \cap aliases(j)' = {}
  BY DEF ValidAliasesDisjoint
\* The run is done with one of them: its aliases were found free of the other's hosts.
<1>1. ASSUME NEW k \in Instance, NEW l \in Instance \ {k},
             k = cur, DoneWithCur, HasVerdict(k, "valid")',
             Settled(l), SameRows(l), HasVerdict(l, "valid")'
      PROVE  aliases(k)' \cap aliases(l)' = {}
  <2>1. HasVerdict(l, "valid") /\ aliases(l)' = aliases(l)
    BY <1>1 DEF HasVerdict, SameRows
  <2>2. aliases(l) \subseteq used_hosts[l]
    BY <1>1, <2>1, AliasesRegistered DEF SettledRowsKept
  <2>3. UpdateInstanceInDB
    <3>1. CASE RetainRow
      <4>1. requestinstance_db[k] \in StoredRow
        BY <1>1, <3>1 DEF RetainRow, RunInv, Removing, TypeOK
      <4>2. requestinstance_db'[k].valid_parameter = "stopped"
        BY <1>1, <3>1, <4>1 DEF RetainRow, TypeOK, StoredRow
      <4> QED
        BY <1>1, <4>2 DEF HasVerdict
    <3>2. CASE DestroyRow
      BY <1>1, <3>2 DEF DestroyRow, HasVerdict, TypeOK
    <3> QED
      BY <1>1, <3>1, <3>2 DEF DoneWithCur
  <2>4. requestinstance_db'[k] = [parameters |-> CurParameters, valid_parameter |-> verdict]
    BY <1>1, <2>3 DEF UpdateInstanceInDB, TypeOK
  <2>5. verdict = "valid" /\ aliases(k)' = CurParameters.server_alias
    BY <1>1, <2>4 DEF HasVerdict
  <2>6. CurParameters.server_alias \cap used_hosts[l] = {}
    BY <1>1, <2>3, <2>5 DEF UpdateInstanceInDB, CurInv, Checked, WithDomain, NoClash
  <2> QED
    BY <2>1, <2>2, <2>5, <2>6
<1>2. CASE Settled(i) /\ SameRows(i) /\ Settled(j) /\ SameRows(j)
  BY <1>2 DEF ValidAliasesDisjoint, SameRows, HasVerdict
<1>3. CASE Settled(i) /\ SameRows(i) /\ j = cur /\ DoneWithCur
  BY <1>1, <1>3
<1>4. CASE Settled(j) /\ SameRows(j) /\ i = cur /\ DoneWithCur
  BY <1>1, <1>4
<1> QED
  BY <1>2, <1>3, <1>4, Settling

-----------------------------------------------------------------------------
(* The invariant. *)

\* The initial states satisfy the invariant.
LEMMA TablesInit ==
    Init => TablesInv
<1> SUFFICES ASSUME Init PROVE TablesInv
  OBVIOUS
<1>1. CurInv
  BY DEF Init, CurInv, Checked, WithDomain
<1>2. SettledRowsKept
  BY DEF Init, SettledRowsKept, RowKept, HasVerdict, IsStopped
<1>3. ValidAliasesDisjoint
  BY DEF Init, ValidAliasesDisjoint, HasVerdict
<1> QED
  BY <1>1, <1>2, <1>3 DEF TablesInv

\* Every step keeps the invariant.
LEMMA TablesStep ==
    ASSUME IInv, TablesInv, [Next]_vars
    PROVE  TablesInv'
<1> USE DEF IInv, TablesInv
<1>1. CurInv'
  BY CurStep
<1>2. SettledRowsKept'
  <2> SUFFICES ASSUME NEW k \in Instance, Settled(k)' PROVE RowKept(k)'
    BY DEF SettledRowsKept
  <2>1. CASE Settled(k) /\ SameRows(k)
    BY <2>1, RowsStay DEF SettledRowsKept
  <2>2. CASE k = cur /\ DoneWithCur
    BY <2>2, RowDone
  <2> QED
    BY <2>1, <2>2, Settling
<1>3. ValidAliasesDisjoint'
  BY AliasesStep
<1> QED
  BY <1>1, <1>2, <1>3

\* The tables agree, row by row, in every reachable state.
THEOREM TablesInvariance == Spec => []TablesInv
<1>1. Init => TablesInv
  BY TablesInit
<1>2. IInv /\ TablesInv /\ [Next]_vars => TablesInv'
  BY TablesStep
<1>3. Spec => []IInv
  BY Invariance
<1> QED
  BY <1>1, <1>2, <1>3, PTL DEF Spec

\* A row that says 'valid' of an instance that is not being processed is backed by the
\* other two tables: the domain is validated and the hosts are registered.
THEOREM RowsBacked == Spec => []ValidRowBacked
<1>1. TablesInv => ValidRowBacked
  BY DEF TablesInv, SettledRowsKept, RowKept, Backed, ValidRowBacked
<1> QED
  BY <1>1, TablesInvariance, PTL

\* Retention gives the domain and the hosts back.
THEOREM RetentionReleases == Spec => []RetainedReleases
<1>1. TablesInv => RetainedReleases
  BY DEF TablesInv, SettledRowsKept, RowKept, RetainedReleases
<1> QED
  BY <1>1, TablesInvariance, PTL

\* The node forgets an instance in all three tables or in none.
THEOREM NothingLeftBehind == Spec => []ForgottenLeavesNothing
<1>1. TablesInv => ForgottenLeavesNothing
  BY DEF TablesInv, SettledRowsKept, RowKept, ForgottenLeavesNothing
<1> QED
  BY <1>1, TablesInvariance, PTL

\* No alias is served for two instances.
THEOREM AliasesDisjoint == Spec => []ValidAliasesDisjoint
<1>1. TablesInv => ValidAliasesDisjoint
  BY DEF TablesInv
<1> QED
  BY <1>1, TablesInvariance, PTL
============================================================================
