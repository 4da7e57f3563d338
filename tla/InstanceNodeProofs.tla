------------------------- MODULE InstanceNodeProofs -------------------------
(***************************************************************************)
(* Proofs about InstanceNode, for any sets of instances and parameters and *)
(* any bounds.  RunInv says what the run knows at each of its labels: what *)
(* it holds of the instance it is at, and what the instances it has still  *)
(* to do are.  With it each step changes what SlapOS Master and the table  *)
(* hold for one instance only, and that one is not settled.                *)
(***************************************************************************)
EXTENDS InstanceNode, TLAPS

\* The run is at an instance of the list.
Processing == {"request", "publish", "record"}

RunInv ==
    /\ \A i \in added \cup changed : instance_map[i] # Absent
    /\ \A i \in removed : instance_map[i] = Absent /\ requestinstance_db[i] # Absent
    /\ pc \in {"idle", "loop"} => cur = NoInstance
    /\ pc \in Processing => cur \in Instance /\ instance_map[cur] # Absent
    /\ pc = "request" => instance_map[cur].valid /\ needs_reprocessing
    /\ pc = "destroy row" =>
          /\ cur \in Instance \ removed /\ instance_map[cur] = Absent
          /\ requestinstance_db[cur] # Absent /\ deployed[cur] = Absent

\* What the node knows of an instance whose connection it took over.
TakenOver ==
    pc \in Processing /\ ~needs_reprocessing =>
        /\ deployed[cur] = instance_map[cur].parameters
        /\ publish_information = answered[cur] /\ answered[cur] # Nothing
        /\ pc = "record" => published[cur] = answered[cur] \/ cur \in unsent

USE DEF vars, world, todo, local, aux, count

-----------------------------------------------------------------------------
(* Facts about the data. *)

\* The rows the node writes are rows, and none is taken for a missing one.
LEMMA RowsAreNotAbsent ==
    /\ \A p \in Parameters, v \in BOOLEAN :
          [parameters |-> p, valid |-> v] \in Judged \ {Absent}
    /\ \A p \in Parameters, v \in {"valid", "invalid"}, d \in Information :
          [parameters |-> p, valid_parameter |-> v, info |-> d] \in Row \ {Absent}
  BY NodeAssumption DEF Judged, Row, Information

\* What is read off a row of the list is a parameter set and a verdict.
LEMMA MapRow ==
    ASSUME TypeOK, NEW i \in Instance, instance_map[i] # Absent
    PROVE  /\ instance_map[i].parameters \in Parameters
           /\ instance_map[i].valid \in BOOLEAN
<1>1. instance_map[i] \in Judged
  BY DEF TypeOK
<1> QED
  BY <1>1 DEF Judged

\* A bounded counter below its bound may be stepped.
LEMMA CountUp ==
    ASSUME NEW max \in Nat, NEW n \in 0..max, n < max
    PROVE  n + 1 \in 0..max
OBVIOUS

\* The recorder writes rows.
LEMMA RecordedRows ==
    ASSUME TypeOK
    PROVE  UpdateFromValidationResults \in [Instance -> Judged \cup {Absent}]
<1>1. ASSUME NEW i \in Instance,
             i \in Added(Validated, instance_db) \cup Modified(Validated, instance_db)
      PROVE  Judge(i) \in Judged
  <2>1. Validated[i] # Absent
    BY <1>1 DEF Added, Modified, Present
  <2>2. requested[i] # Absent
    BY <2>1 DEF Validated
  <2>3. requested[i] \in Parameters /\ (requested[i] \in schema) \in BOOLEAN
    BY <2>2 DEF TypeOK
  <2> QED
    BY <2>3, RowsAreNotAbsent DEF Judge
<1> QED
  BY <1>1 DEF UpdateFromValidationResults, TypeOK

-----------------------------------------------------------------------------
(* Types. *)

\* Every step keeps the types.
LEMMA TypeStep ==
    ASSUME TypeOK, RunInv, [Next]_vars
    PROVE  TypeOK'
<1> USE DEF TypeOK, Labels
<1>1. CASE UNCHANGED vars
  BY <1>1
<1>2. ASSUME NEW i \in Instance, ChangeRequest(i) PROVE TypeOK'
  <2>1. changes' \in 0..MaxChanges
    BY <1>2, NodeAssumption, CountUp DEF ChangeRequest
  <2>2. requested' \in [Instance -> Parameters \cup {Absent}]
    BY <1>2 DEF ChangeRequest
  <2>3. UNCHANGED <<schema, connection, instance_db, requestinstance_db, deployed, published,
                    pc, cur, todo, local, aux, failures, crashes>>
    BY <1>2 DEF ChangeRequest
  <2> QED
    BY <2>1, <2>2, <2>3
<1>3. CASE ChangeSchema
  <2>1. changes' \in 0..MaxChanges
    BY <1>3, NodeAssumption, CountUp DEF ChangeSchema
  <2>2. judgedBefore' \subseteq Instance
    BY <1>3 DEF ChangeSchema, Present
  <2> QED
    BY <1>3, <2>1, <2>2 DEF ChangeSchema
<1>4. ASSUME NEW i \in Instance, Connect(i) PROVE TypeOK'
  BY <1>4 DEF Connect
<1>5. CASE Record
  BY <1>5, RecordedRows DEF Record
<1>6. CASE Install
  BY <1>6 DEF Install, Added, Modified, Removed, Reprocessed, Present
<1>7. ASSUME NEW i \in Instance, ProcessInstance(i) PROVE TypeOK'
  BY <1>7 DEF ProcessInstance, Information
<1>8. CASE RequestInstance
  <2>1. cur \in Instance /\ instance_map[cur].parameters \in Parameters
    BY <1>8, MapRow DEF RequestInstance, RunInv, Processing
  <2> QED
    BY <1>8, <2>1 DEF RequestInstance, Information
<1>9. CASE RequestFails
  <2>1. failures' \in 0..MaxFailures
    BY <1>9, NodeAssumption, CountUp DEF RequestFails
  <2>2. cur \in Instance /\ instance_map[cur].parameters \in Parameters
    BY <1>9, MapRow DEF RequestFails, RunInv, Processing
  <2> QED
    BY <1>9, <2>1, <2>2 DEF RequestFails, Information
<1>10. CASE Publish
  BY <1>10 DEF Publish
<1>11. CASE PublishFails
  <2>1. failures' \in 0..MaxFailures
    BY <1>11, NodeAssumption, CountUp DEF PublishFails
  <2>2. cur \in Instance
    BY <1>11 DEF PublishFails, RunInv, Processing
  <2> QED
    BY <1>11, <2>1, <2>2 DEF PublishFails
<1>12. CASE UpdateInstanceInDB
  <2>1. cur \in Instance /\ instance_map[cur].parameters \in Parameters
    BY <1>12, MapRow DEF UpdateInstanceInDB, RunInv, Processing
  <2>2. [parameters |-> instance_map[cur].parameters,
         valid_parameter |-> IF needs_reprocessing THEN "invalid" ELSE "valid",
         info |-> publish_information] \in Row
    BY <2>1, RowsAreNotAbsent
  <2> QED
    BY <1>12, <2>1, <2>2 DEF UpdateInstanceInDB, Forget, Information
<1>13. ASSUME NEW i \in Instance, RequestDestroyed(i) PROVE TypeOK'
  BY <1>13 DEF RequestDestroyed, AtRemoved
<1>14. ASSUME NEW i \in Instance, DestroyFails(i) PROVE TypeOK'
  <2>1. failures' \in 0..MaxFailures
    BY <1>14, NodeAssumption, CountUp DEF DestroyFails
  <2> QED
    BY <1>14, <2>1 DEF DestroyFails, AtRemoved, EndRun, Forget, Information
<1>15. CASE DestroyRow
  BY <1>15 DEF DestroyRow
<1>16. CASE Finish
  BY <1>16 DEF Finish
<1>17. CASE Die
  <2>1. crashes' \in 0..MaxCrashes
    BY <1>17, NodeAssumption, CountUp DEF Die
  <2> QED
    BY <1>17, <2>1 DEF Die, EndRun, Forget, Information
<1> QED
  BY <1>1, <1>2, <1>3, <1>4, <1>5, <1>6, <1>7, <1>8, <1>9, <1>10, <1>11, <1>12, <1>13,
     <1>14, <1>15, <1>16, <1>17
  DEF Next, NodeStep, Fault

-----------------------------------------------------------------------------
(* The run. *)

\* Every step keeps what the run knows.
LEMMA RunStep ==
    ASSUME TypeOK, RunInv, [Next]_vars
    PROVE  RunInv'
<1> USE DEF RunInv, Processing
<1>1. CASE UNCHANGED vars
  BY <1>1 DEF TypeOK
<1>2. ASSUME NEW i \in Instance, ChangeRequest(i) PROVE RunInv'
  BY <1>2 DEF ChangeRequest, TypeOK
<1>3. CASE ChangeSchema
  BY <1>3 DEF ChangeSchema, TypeOK
<1>4. ASSUME NEW i \in Instance, Connect(i) PROVE RunInv'
  BY <1>4 DEF Connect, TypeOK
<1>5. CASE Record
  BY <1>5 DEF Record, TypeOK
<1>6. CASE Install
  BY <1>6 DEF Install, TypeOK, Added, Modified, Removed, Reprocessed, Present
<1>7. ASSUME NEW i \in Instance, ProcessInstance(i) PROVE RunInv'
  BY <1>7 DEF ProcessInstance, TypeOK
<1>8. CASE RequestInstance
  BY <1>8 DEF RequestInstance, TypeOK
<1>9. CASE RequestFails
  BY <1>9 DEF RequestFails, TypeOK
<1>10. CASE Publish
  BY <1>10 DEF Publish, TypeOK
<1>11. CASE PublishFails
  BY <1>11 DEF PublishFails, TypeOK
<1>12. CASE UpdateInstanceInDB
  <2>1. cur \in Instance /\ instance_map[cur].parameters \in Parameters
    BY <1>12, MapRow DEF UpdateInstanceInDB, Processing
  <2>2. requestinstance_db'[cur] # Absent
    BY <1>12, <2>1, RowsAreNotAbsent DEF UpdateInstanceInDB, TypeOK
  <2>3. \A i \in Instance \ {cur} : requestinstance_db'[i] = requestinstance_db[i]
    BY <1>12 DEF UpdateInstanceInDB, TypeOK
  <2> QED
    BY <1>12, <2>1, <2>2, <2>3 DEF UpdateInstanceInDB, Forget, TypeOK, TypeOK
<1>13. ASSUME NEW i \in Instance, RequestDestroyed(i) PROVE RunInv'
  BY <1>13 DEF RequestDestroyed, AtRemoved, TypeOK
<1>14. ASSUME NEW i \in Instance, DestroyFails(i) PROVE RunInv'
  BY <1>14 DEF DestroyFails, AtRemoved, EndRun, Forget, TypeOK
<1>15. CASE DestroyRow
  BY <1>15 DEF DestroyRow, TypeOK
<1>16. CASE Finish
  BY <1>16 DEF Finish, TypeOK
<1>17. CASE Die
  BY <1>17 DEF Die, EndRun, Forget, TypeOK
<1> QED
  BY <1>1, <1>2, <1>3, <1>4, <1>5, <1>6, <1>7, <1>8, <1>9, <1>10, <1>11, <1>12, <1>13,
     <1>14, <1>15, <1>16, <1>17
  DEF Next, NodeStep, Fault

IInv == TypeOK /\ RunInv

\* The types and what the run knows, in every behaviour of the node.
THEOREM Invariance == Spec => []IInv
<1>1. Init => IInv
  BY NodeAssumption DEF Init, IInv, TypeOK, RunInv, Labels, Information, Processing
<1>2. IInv /\ [Next]_vars => IInv'
  BY TypeStep, RunStep DEF IInv
<1> QED
  BY <1>1, <1>2, PTL DEF Spec

\* The variables of the node have their types, whatever the bounds.
THEOREM TypeCorrect == Spec => []TypeOK
  BY Invariance, PTL DEF IInv

-----------------------------------------------------------------------------
(* No deployment is forgotten. *)

\* A step deploys, or forgets the row of, an instance that is not settled.
LEMMA TrackedStep ==
    ASSUME IInv, DeployedIsTracked, [Next]_vars
    PROVE  DeployedIsTracked'
<1> USE DEF IInv, RunInv, Processing, DeployedIsTracked, Settled
<1>1. CASE UNCHANGED vars
  BY <1>1 DEF TypeOK
<1>2. ASSUME NEW i \in Instance, ChangeRequest(i) PROVE DeployedIsTracked'
  BY <1>2 DEF ChangeRequest, TypeOK
<1>3. CASE ChangeSchema
  BY <1>3 DEF ChangeSchema, TypeOK
<1>4. ASSUME NEW i \in Instance, Connect(i) PROVE DeployedIsTracked'
  BY <1>4 DEF Connect, TypeOK
<1>5. CASE Record
  BY <1>5 DEF Record, TypeOK
<1>6. CASE Install
  BY <1>6 DEF Install, TypeOK
<1>7. ASSUME NEW i \in Instance, ProcessInstance(i) PROVE DeployedIsTracked'
  BY <1>7, NodeAssumption DEF ProcessInstance, TypeOK
<1>8. CASE RequestInstance
  BY <1>8 DEF RequestInstance, TypeOK
<1>9. CASE RequestFails
  BY <1>9 DEF RequestFails, TypeOK
<1>10. CASE Publish
  BY <1>10 DEF Publish, TypeOK
<1>11. CASE PublishFails
  BY <1>11 DEF PublishFails, TypeOK
<1>12. CASE UpdateInstanceInDB
  <2>1. cur \in Instance /\ instance_map[cur].parameters \in Parameters
    BY <1>12, MapRow DEF UpdateInstanceInDB
  <2>2. requestinstance_db'[cur] # Absent
    BY <1>12, <2>1, RowsAreNotAbsent DEF UpdateInstanceInDB, TypeOK
  <2>3. \A i \in Instance \ {cur} : requestinstance_db'[i] = requestinstance_db[i]
    BY <1>12 DEF UpdateInstanceInDB, TypeOK
  <2> QED
    BY <1>12, <2>2, <2>3 DEF UpdateInstanceInDB, Forget, TypeOK
<1>13. ASSUME NEW i \in Instance, RequestDestroyed(i) PROVE DeployedIsTracked'
  BY <1>13, NodeAssumption DEF RequestDestroyed, AtRemoved, TypeOK
<1>14. ASSUME NEW i \in Instance, DestroyFails(i) PROVE DeployedIsTracked'
  BY <1>14 DEF DestroyFails, AtRemoved, EndRun, Forget, TypeOK
<1>15. CASE DestroyRow
  BY <1>15 DEF DestroyRow, TypeOK
<1>16. CASE Finish
  BY <1>16 DEF Finish, TypeOK
<1>17. CASE Die
  BY <1>17 DEF Die, EndRun, Forget, TypeOK
<1> QED
  BY <1>1, <1>2, <1>3, <1>4, <1>5, <1>6, <1>7, <1>8, <1>9, <1>10, <1>11, <1>12, <1>13,
     <1>14, <1>15, <1>16, <1>17
  DEF Next, NodeStep, Fault

\* Every instance the node requested, and is not at work on, has a row by which it will be
\* destroyed, unless a run left it half done.
THEOREM NothingIsForgotten == Spec => []DeployedIsTracked
<1>1. Init => DeployedIsTracked
  BY DEF Init, DeployedIsTracked
<1>2. IInv /\ DeployedIsTracked /\ [Next]_vars => DeployedIsTracked'
  BY TrackedStep
<1> QED
  BY <1>1, <1>2, Invariance, PTL DEF Spec

-----------------------------------------------------------------------------
(* What 'valid' in the table means. *)

\* The run goes on knowing of the connection what it read.
LEMMA TakenOverStep ==
    ASSUME IInv, TakenOver, [Next]_vars
    PROVE  TakenOver'
<1> USE DEF IInv, RunInv, TakenOver, Processing
<1>1. CASE UNCHANGED vars
  BY <1>1 DEF TypeOK
<1>2. ASSUME NEW i \in Instance, ChangeRequest(i) PROVE TakenOver'
  BY <1>2 DEF ChangeRequest, TypeOK
<1>3. CASE ChangeSchema
  BY <1>3 DEF ChangeSchema, TypeOK
<1>4. ASSUME NEW i \in Instance, Connect(i) PROVE TakenOver'
  BY <1>4 DEF Connect, TypeOK
<1>5. CASE Record
  BY <1>5 DEF Record, TypeOK
<1>6. CASE Install
  BY <1>6 DEF Install, TypeOK
<1>7. ASSUME NEW i \in Instance, ProcessInstance(i) PROVE TakenOver'
  BY <1>7 DEF ProcessInstance, TypeOK
<1>8. CASE RequestInstance
  BY <1>8 DEF RequestInstance, TypeOK
<1>9. CASE RequestFails
  BY <1>9 DEF RequestFails, TypeOK
<1>10. CASE Publish
  BY <1>10 DEF Publish, TypeOK
<1>11. CASE PublishFails
  BY <1>11 DEF PublishFails, TypeOK
<1>12. CASE UpdateInstanceInDB
  BY <1>12 DEF UpdateInstanceInDB, Forget, TypeOK
<1>13. ASSUME NEW i \in Instance, RequestDestroyed(i) PROVE TakenOver'
  BY <1>13 DEF RequestDestroyed, AtRemoved, TypeOK
<1>14. ASSUME NEW i \in Instance, DestroyFails(i) PROVE TakenOver'
  BY <1>14 DEF DestroyFails, AtRemoved, EndRun, Forget, TypeOK
<1>15. CASE DestroyRow
  BY <1>15 DEF DestroyRow, TypeOK
<1>16. CASE Finish
  BY <1>16 DEF Finish, TypeOK
<1>17. CASE Die
  BY <1>17 DEF Die, EndRun, Forget, TypeOK
<1> QED
  BY <1>1, <1>2, <1>3, <1>4, <1>5, <1>6, <1>7, <1>8, <1>9, <1>10, <1>11, <1>12, <1>13,
     <1>14, <1>15, <1>16, <1>17
  DEF Next, NodeStep, Fault

\* A row becomes 'valid' when the run knows that its connection was taken over.
LEMMA ServedStep ==
    ASSUME IInv, TakenOver, ValidRowIsServed, [Next]_vars
    PROVE  ValidRowIsServed'
<1> USE DEF IInv, RunInv, ValidRowIsServed, Settled
<1>1. CASE UNCHANGED vars
  BY <1>1 DEF TypeOK
<1>2. ASSUME NEW i \in Instance, ChangeRequest(i) PROVE ValidRowIsServed'
  BY <1>2 DEF ChangeRequest, TypeOK
<1>3. CASE ChangeSchema
  BY <1>3 DEF ChangeSchema, TypeOK
<1>4. ASSUME NEW i \in Instance, Connect(i) PROVE ValidRowIsServed'
  BY <1>4 DEF Connect, TypeOK
<1>5. CASE Record
  BY <1>5 DEF Record, TypeOK
<1>6. CASE Install
  BY <1>6 DEF Install, TypeOK
<1>7. ASSUME NEW i \in Instance, ProcessInstance(i) PROVE ValidRowIsServed'
  BY <1>7, NodeAssumption DEF ProcessInstance, TypeOK
<1>8. CASE RequestInstance
  BY <1>8 DEF RequestInstance, TypeOK
<1>9. CASE RequestFails
  BY <1>9 DEF RequestFails, TypeOK
<1>10. CASE Publish
  BY <1>10 DEF Publish, TypeOK
<1>11. CASE PublishFails
  BY <1>11 DEF PublishFails, TypeOK
<1>12. CASE UpdateInstanceInDB
  <2>1. cur \in Instance
    BY <1>12 DEF UpdateInstanceInDB, Processing
  <2>2. CASE needs_reprocessing
    <3>1. requestinstance_db'[cur].valid_parameter = "invalid"
      BY <1>12, <2>1, <2>2 DEF UpdateInstanceInDB, TypeOK
    <3> QED
      BY <1>12, <3>1 DEF UpdateInstanceInDB, Forget, TypeOK
  <2>3. CASE ~needs_reprocessing
    <3>1. requestinstance_db'[cur].parameters = instance_map[cur].parameters
      BY <1>12, <2>1 DEF UpdateInstanceInDB, TypeOK
    <3>2. /\ deployed[cur] = instance_map[cur].parameters
          /\ answered[cur] # Nothing
          /\ published[cur] = answered[cur] \/ cur \in unsent
      BY <1>12, <2>3 DEF UpdateInstanceInDB, TakenOver, Processing
    <3> QED
      BY <1>12, <3>1, <3>2 DEF UpdateInstanceInDB, Forget, TypeOK
  <2> QED
    BY <2>2, <2>3 DEF TypeOK
<1>13. ASSUME NEW i \in Instance, RequestDestroyed(i) PROVE ValidRowIsServed'
  BY <1>13, NodeAssumption DEF RequestDestroyed, AtRemoved, TypeOK
<1>14. ASSUME NEW i \in Instance, DestroyFails(i) PROVE ValidRowIsServed'
  BY <1>14 DEF DestroyFails, AtRemoved, EndRun, Forget, TypeOK
<1>15. CASE DestroyRow
  BY <1>15 DEF DestroyRow, TypeOK
<1>16. CASE Finish
  BY <1>16 DEF Finish, TypeOK
<1>17. CASE Die
  BY <1>17 DEF Die, EndRun, Forget, TypeOK
<1> QED
  BY <1>1, <1>2, <1>3, <1>4, <1>5, <1>6, <1>7, <1>8, <1>9, <1>10, <1>11, <1>12, <1>13,
     <1>14, <1>15, <1>16, <1>17
  DEF Next, NodeStep, Fault

\* A row that says 'valid' is deployed with its parameters, and what was sent of it is the
\* connection SlapOS Master answered with, be it of earlier parameters.
THEOREM ValidMeansServed == Spec => []ValidRowIsServed
<1>1. Init => TakenOver /\ ValidRowIsServed
  BY DEF Init, TakenOver, ValidRowIsServed, Processing
<1>2. IInv /\ TakenOver /\ ValidRowIsServed /\ [Next]_vars
        => TakenOver' /\ ValidRowIsServed'
  BY TakenOverStep, ServedStep
<1> QED
  BY <1>1, <1>2, Invariance, PTL DEF Spec

-----------------------------------------------------------------------------
(* The verdicts of the record. *)

\* Only the recorder writes verdicts, and a new schema puts all rows in judgedBefore.
LEMMA VerdictStep ==
    ASSUME IInv, VerdictOfTheSchema, [Next]_vars
    PROVE  VerdictOfTheSchema'
<1> USE DEF IInv, VerdictOfTheSchema
<1>1. CASE UNCHANGED vars
  BY <1>1 DEF TypeOK
<1>2. ASSUME NEW i \in Instance, ChangeRequest(i) PROVE VerdictOfTheSchema'
  BY <1>2 DEF ChangeRequest, TypeOK
<1>3. CASE ChangeSchema
  BY <1>3 DEF ChangeSchema, TypeOK, Present
<1>4. ASSUME NEW i \in Instance, Connect(i) PROVE VerdictOfTheSchema'
  BY <1>4 DEF Connect, TypeOK
<1>5. CASE Record
  <2>1. instance_db' = UpdateFromValidationResults /\ UNCHANGED schema
    BY <1>5 DEF Record
  <2>2. ASSUME NEW i \in Instance, instance_db'[i] # Absent, i \notin judgedBefore'
        PROVE  instance_db'[i].valid <=> instance_db'[i].parameters \in schema
    <3>1. CASE instance_db'[i] = instance_db[i]
      BY <1>5, <2>2, <3>1 DEF Record
    <3>2. CASE instance_db'[i] # instance_db[i]
      <4>1. instance_db'[i] = Judge(i)
        BY <2>1, <2>2, <3>2 DEF UpdateFromValidationResults
      <4>2. \A b \in BOOLEAN : [parameters |-> requested[i], valid |-> b].valid = b
        OBVIOUS
      <4>3. Judge(i).valid = (requested[i] \in schema) /\ Judge(i).parameters = requested[i]
        BY <4>2, Zenon DEF Judge
      <4> QED
        BY <2>1, <4>1, <4>3
    <3> QED
      BY <3>1, <3>2
  <2> QED
    BY <2>1, <2>2
<1>6. CASE Install
  BY <1>6 DEF Install, TypeOK
<1>7. ASSUME NEW i \in Instance, ProcessInstance(i) PROVE VerdictOfTheSchema'
  BY <1>7 DEF ProcessInstance, TypeOK
<1>8. CASE RequestInstance
  BY <1>8 DEF RequestInstance, TypeOK
<1>9. CASE RequestFails
  BY <1>9 DEF RequestFails, TypeOK
<1>10. CASE Publish
  BY <1>10 DEF Publish, TypeOK
<1>11. CASE PublishFails
  BY <1>11 DEF PublishFails, TypeOK
<1>12. CASE UpdateInstanceInDB
  BY <1>12 DEF UpdateInstanceInDB, Forget, TypeOK
<1>13. ASSUME NEW i \in Instance, RequestDestroyed(i) PROVE VerdictOfTheSchema'
  BY <1>13 DEF RequestDestroyed, AtRemoved, TypeOK
<1>14. ASSUME NEW i \in Instance, DestroyFails(i) PROVE VerdictOfTheSchema'
  BY <1>14 DEF DestroyFails, AtRemoved, EndRun, Forget, TypeOK
<1>15. CASE DestroyRow
  BY <1>15 DEF DestroyRow, TypeOK
<1>16. CASE Finish
  BY <1>16 DEF Finish, TypeOK
<1>17. CASE Die
  BY <1>17 DEF Die, EndRun, Forget, TypeOK
<1> QED
  BY <1>1, <1>2, <1>3, <1>4, <1>5, <1>6, <1>7, <1>8, <1>9, <1>10, <1>11, <1>12, <1>13,
     <1>14, <1>15, <1>16, <1>17
  DEF Next, NodeStep, Fault

\* A recorded verdict is that of the schema, except on rows not modified since it changed.
THEOREM VerdictsFollowTheSchema == Spec => []VerdictOfTheSchema
<1>1. Init => VerdictOfTheSchema
  BY DEF Init, VerdictOfTheSchema
<1>2. IInv /\ VerdictOfTheSchema /\ [Next]_vars => VerdictOfTheSchema'
  BY VerdictStep
<1> QED
  BY <1>1, <1>2, Invariance, PTL DEF Spec

-----------------------------------------------------------------------------
(* The node implements the ledger. *)

\* A step of the node is one of the ledger, or changes neither list, view nor deployments.
LEMMA LedgerStep ==
    ASSUME IInv, [Next]_vars
    PROVE  [Ledger!Next]_<<instance_db, instance_map, deployed>>
<1> USE DEF IInv, RunInv, Ledger!Next, Ledger!Change, Ledger!Read, Ledger!Deploy, Ledger!Remove
<1>1. CASE UNCHANGED vars
  BY <1>1
<1>2. ASSUME NEW i \in Instance, ChangeRequest(i) PROVE [Ledger!Next]_<<instance_db, instance_map, deployed>>
  BY <1>2 DEF ChangeRequest
<1>3. CASE ChangeSchema
  BY <1>3 DEF ChangeSchema
<1>4. ASSUME NEW i \in Instance, Connect(i) PROVE [Ledger!Next]_<<instance_db, instance_map, deployed>>
  BY <1>4 DEF Connect
<1>5. CASE Record
  BY <1>5 DEF Record
<1>6. CASE Install
  BY <1>6 DEF Install
<1>7. ASSUME NEW i \in Instance, ProcessInstance(i) PROVE [Ledger!Next]_<<instance_db, instance_map, deployed>>
  BY <1>7 DEF ProcessInstance
<1>8. CASE RequestInstance
  <2>1. cur \in Instance /\ instance_map[cur] # Absent /\ instance_map[cur].valid
    BY <1>8 DEF RequestInstance, Processing
  <2>2. Ledger!Deploy(cur) \/ UNCHANGED <<instance_db, instance_map, deployed>>
    BY <1>8, <2>1 DEF RequestInstance
  <2> QED
    BY <2>1, <2>2
<1>9. CASE RequestFails
  <2>1. cur \in Instance /\ instance_map[cur] # Absent /\ instance_map[cur].valid
    BY <1>9 DEF RequestFails, Processing
  <2>2. Ledger!Deploy(cur) \/ UNCHANGED <<instance_db, instance_map, deployed>>
    BY <1>9, <2>1 DEF RequestFails
  <2> QED
    BY <2>1, <2>2
<1>10. CASE Publish
  BY <1>10 DEF Publish
<1>11. CASE PublishFails
  BY <1>11 DEF PublishFails
<1>12. CASE UpdateInstanceInDB
  BY <1>12 DEF UpdateInstanceInDB, Forget
<1>13. ASSUME NEW i \in Instance, RequestDestroyed(i) PROVE [Ledger!Next]_<<instance_db, instance_map, deployed>>
  BY <1>13 DEF RequestDestroyed, AtRemoved
<1>14. ASSUME NEW i \in Instance, DestroyFails(i) PROVE [Ledger!Next]_<<instance_db, instance_map, deployed>>
  BY <1>14 DEF DestroyFails, AtRemoved, EndRun, Forget
<1>15. CASE DestroyRow
  BY <1>15 DEF DestroyRow
<1>16. CASE Finish
  BY <1>16 DEF Finish
<1>17. CASE Die
  BY <1>17 DEF Die, EndRun, Forget
<1> QED
  BY <1>1, <1>2, <1>3, <1>4, <1>5, <1>6, <1>7, <1>8, <1>9, <1>10, <1>11, <1>12, <1>13,
     <1>14, <1>15, <1>16, <1>17
  DEF Next, NodeStep, Fault

\* The node only ever deploys what the list it read has as valid, with those parameters, and
\* destroys only what that list does not have.
THEOREM ImplementsLedger == Spec => FollowsTheList
<1>1. Init => Ledger!Init
  BY DEF Init, Ledger!Init
<1>2. IInv /\ [Next]_vars => [Ledger!Next]_<<instance_db, instance_map, deployed>>
  BY LedgerStep
<1> QED
  BY <1>1, <1>2, Invariance, PTL DEF Spec, FollowsTheList, Ledger!Spec
=============================================================================
