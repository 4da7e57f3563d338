--------------------------- MODULE CDNBangProofs ---------------------------
(***************************************************************************)
(* Proofs about CDNBang, for any instances, any retention delay and any    *)
(* bounds: type correctness, that slapgrid misses no verdict but those of  *)
(* the second .timestamp was touched in and those of runs that died, and   *)
(* that an instance is retained for the delay, counted from the change of  *)
(* its verdict.                                                            *)
(***************************************************************************)
EXTENDS CDNBangHistory, TLAPS

USE DEF vars, world, master, run, history

-----------------------------------------------------------------------------
(* Facts about the data. *)

\* A row that is there has the fields of a row.
LEMMA Fields ==
    ASSUME TypeOK, NEW i \in Instance
    PROVE  /\ instance_map[i] # Absent => instance_map[i].parameters \in Parameters
           /\ requestinstance_db[i] # Absent =>
                 /\ requestinstance_db[i] \in Row
                 /\ requestinstance_db[i].timestamp \in 0..now
<1>1. instance_map[i] # Absent => instance_map[i] \in Request
  BY DEF TypeOK
<1>2. requestinstance_db[i] # Absent => requestinstance_db[i] \in Row
  BY DEF TypeOK
<1>3. requestinstance_db[i] # Absent =>
         requestinstance_db[i].timestamp \in Nat /\ requestinstance_db[i].timestamp <= now
  BY <1>2, BangAssumption DEF TypeOK, Row, Present
<1>4. now \in Nat
  BY BangAssumption DEF TypeOK
<1> QED
  BY <1>1, <1>2, <1>3, <1>4 DEF Request

\* The row Process writes for an instance.
NewRow(i) ==
    [parameters |-> instance_map[i].parameters, error |-> ErrorOf(i),
     valid_parameter |-> IF ErrorOf(i) = "none" THEN "valid" ELSE "invalid",
     timestamp |-> NewTimestamp(i, instance_map[i].parameters, ErrorOf(i))]

\* It is a row, of now unless the row that was there had the same verdict.
LEMMA NewRowType ==
    ASSUME TypeOK, NEW i \in Instance, instance_map[i] # Absent
    PROVE  /\ NewRow(i) \in Row /\ NewRow(i) # Absent
           /\ NewRow(i).timestamp \in 0..now
<1>1. NewTimestamp(i, instance_map[i].parameters, ErrorOf(i)) \in 0..now
  <2>1. now \in 0..now
    BY BangAssumption DEF TypeOK
  <2> QED
    BY <2>1, Fields DEF NewTimestamp
<1>2. 0..now \subseteq 0..MaxTime
  BY BangAssumption DEF TypeOK
<1>3. ErrorOf(i) \in {"none", "check", "publish"}
  BY DEF ErrorOf
<1>4. NewRow(i) \in Row
  BY <1>1, <1>2, <1>3, Fields DEF NewRow, Row
<1> QED
  BY <1>1, <1>4, AbsentAssumption DEF NewRow

-----------------------------------------------------------------------------
(* Types, and what a run knows. *)

\* A verdict is that of its error, or the instance is retained; and the run: .timestamp is
\* not older than it was when the run took it, and an instance the run has still to come to
\* is in no other set of the run, and has a row if it disappeared.
RunInv ==
    /\ \A i \in Present(requestinstance_db) :
          requestinstance_db[i].valid_parameter \in
             {"stopped", IF requestinstance_db[i].error = "none" THEN "valid" ELSE "invalid"}
    /\ failures \in Nat
    /\ node = "idle" => todo = {}
    /\ node # "idle" => stamp = Missing \/ timestamp <= stamp
    /\ todo \cap retained = {}
    /\ \A i \in todo : instance_map[i] = Absent => i \in comparison /\ requestinstance_db[i] # Absent

\* The run ends, however.
LEMMA ResetTypes ==
    ASSUME TypeOK, ResetRun,
           UNCHANGED <<now, world, master, requestinstance_db>>, due' \in BOOLEAN
    PROVE  TypeOK'
<1>1. 0 \in 0..now
  BY BangAssumption DEF TypeOK
<1> QED
  BY <1>1 DEF TypeOK, ResetRun, Present

\* Every step keeps the types.
LEMMA TypeStep ==
    ASSUME TypeOK, RunInv, [Next]_vars
    PROVE  TypeOK'
<1> USE DEF TypeOK
<1>0. now \in Nat /\ now \in 0..now /\ MaxTime \in Nat
  BY BangAssumption
<1>1. CASE UNCHANGED vars
  BY <1>1 DEF Present
<1>2. CASE Install
  <2>1. timestamp' \in 0..now
    BY <1>0, <1>2 DEF Install
  <2> QED
    BY <1>2, <2>1 DEF Install, Added, Modified, Removed, Present
<1>3. ASSUME NEW i \in Instance, Process(i) PROVE TypeOK'
  <2>1. instance_map[i] # Absent
    BY <1>3 DEF Process
  <2>2. requestinstance_db' = [requestinstance_db EXCEPT ![i] = NewRow(i)]
    BY <1>3 DEF Process, NewRow
  <2>3. requestinstance_db' \in [Instance -> Row \cup {Absent}]
    BY <2>1, <2>2, NewRowType
  <2>4. \A j \in Present(requestinstance_db') : requestinstance_db'[j].timestamp <= now
    BY <1>0, <2>1, <2>2, NewRowType DEF Present
  <2>5. bang_requested' \in BOOLEAN
    BY <1>3 DEF Process, NeedsBang
  <2> QED
    BY <1>3, <2>3, <2>4, <2>5 DEF Process
<1>4. ASSUME NEW i \in Instance, KeepRetained(i) PROVE TypeOK'
  BY <1>4 DEF KeepRetained, Present
<1>5. ASSUME NEW i \in Instance, EnterRetention(i) PROVE TypeOK'
  <2>1. requestinstance_db[i] \in Row
    BY <1>5, Fields DEF EnterRetention, AtRemoved, RunInv
  <2>2. [requestinstance_db[i] EXCEPT !.valid_parameter = "stopped", !.timestamp = now] \in Row
    BY <2>1 DEF Row
  <2>3. requestinstance_db' =
           [requestinstance_db EXCEPT ![i] =
               [requestinstance_db[i] EXCEPT !.valid_parameter = "stopped", !.timestamp = now]]
    BY <1>5, <2>1 DEF EnterRetention, Row
  <2>4. \A j \in Present(requestinstance_db') : requestinstance_db'[j].timestamp <= now
    BY <1>0, <2>1, <2>3 DEF Present, Row
  <2> QED
    BY <1>5, <2>2, <2>3, <2>4 DEF EnterRetention
<1>6. ASSUME NEW i \in Instance, Destroy(i) PROVE TypeOK'
  BY <1>6 DEF Destroy, Present
<1>7. CASE EndLoop
  BY <1>7 DEF EndLoop, Present
<1>8. CASE Bang \/ NoBang \/ Fail
  <2>1. ResetRun /\ UNCHANGED <<now, world, master, requestinstance_db>> /\ due' \in BOOLEAN
    BY <1>8 DEF Bang, NoBang, Fail
  <2> QED
    BY <2>1, ResetTypes
<1>9. CASE SlapgridStarts
  BY <1>9 DEF SlapgridStarts, Present
<1>10. CASE SlapgridEnds
  BY <1>0, <1>10 DEF SlapgridEnds, Present
<1>11. CASE Tick
  <2>1. now' \in 0..MaxTime /\ now <= now' /\ 0..now \subseteq 0..now'
    BY <1>0, <1>11 DEF Tick
  <2>2. \A j \in Present(requestinstance_db) : requestinstance_db[j].timestamp <= now'
    BY <1>0, <2>1, Fields DEF Present
  <2> QED
    BY <1>11, <2>1, <2>2 DEF Tick, Present
<1>12. ASSUME NEW i \in Instance, ChangeRequest(i) PROVE TypeOK'
  <2>1. requested' \in [Instance -> Request \cup {Absent}] /\ reported' \subseteq Instance
    BY <1>12 DEF ChangeRequest
  <2>2. UNCHANGED <<now, passes, master, requestinstance_db, run>> /\ due' = TRUE
    BY <1>12 DEF ChangeRequest
  <2> QED
    BY <2>1, <2>2 DEF Present
<1>13. ASSUME NEW i \in Instance, ChangeCheck(i) PROVE TypeOK'
  BY <1>13 DEF ChangeCheck, Present
<1>14. ASSUME NEW i \in Instance, Report(i) PROVE TypeOK'
  BY <1>14 DEF Report, Present
<1> QED
  BY <1>1, <1>2, <1>3, <1>4, <1>5, <1>6, <1>7, <1>8, <1>9, <1>10, <1>11, <1>12, <1>13,
     <1>14 DEF Next, NodeStep, SlapgridStep

\* Every step keeps what a run knows.
LEMMA RunStep ==
    ASSUME TypeOK, RunInv, [Next]_vars
    PROVE  RunInv'
<1>0. now \in Nat /\ (stamp # Missing => stamp \in 0..now) /\ timestamp \in 0..now
  BY BangAssumption DEF TypeOK
<1> USE DEF RunInv
<1>1. CASE UNCHANGED vars
  BY <1>1 DEF Present
<1>2. CASE Install
  <2>1. UNCHANGED <<requestinstance_db, stamp, failures>> /\ node' = "loop" /\ retained' = {}
    BY <1>2 DEF Install
  <2>2. stamp = Missing \/ timestamp' <= stamp'
    BY <1>0, <1>2 DEF Install
  <2>3. ASSUME NEW i \in todo', instance_map'[i] = Absent
        PROVE  i \in comparison' /\ requestinstance_db'[i] # Absent
    BY <1>2, <2>3 DEF Install, Added, Modified, Removed, Present
  <2> QED
    BY <2>1, <2>2, <2>3 DEF Present
<1>3. ASSUME NEW i \in Instance, Process(i) PROVE RunInv'
  <2>1. instance_map[i] # Absent /\ i \in todo /\ todo' = todo \ {i}
    BY <1>3 DEF Process
  <2>2. requestinstance_db' = [requestinstance_db EXCEPT ![i] = NewRow(i)]
    BY <1>3 DEF Process, NewRow
  <2>3. UNCHANGED <<node, instance_map, comparison, retained, timestamp, stamp, failures>>
    BY <1>3 DEF Process
  <2>4. \A j \in Instance : requestinstance_db'[j] =
                               IF j = i THEN NewRow(i) ELSE requestinstance_db[j]
    BY <2>2 DEF TypeOK
  <2>5. NewRow(i).valid_parameter \in
           {"stopped", IF NewRow(i).error = "none" THEN "valid" ELSE "invalid"}
    BY DEF NewRow
  <2>6. \A j \in Present(requestinstance_db') :
           requestinstance_db'[j].valid_parameter \in
              {"stopped", IF requestinstance_db'[j].error = "none" THEN "valid" ELSE "invalid"}
    BY <2>4, <2>5 DEF Present
  <2>7. \A j \in todo' : instance_map'[j] = Absent =>
           j \in comparison' /\ requestinstance_db'[j] # Absent
    BY <2>1, <2>3, <2>4 DEF TypeOK
  <2>8. node' = "idle" => todo' = {}
    BY <2>1, <2>3
  <2>9. todo' \cap retained' = {}
    BY <2>1, <2>3
  <2> QED
    BY <2>3, <2>6, <2>7, <2>8, <2>9
<1>4. ASSUME NEW i \in Instance, KeepRetained(i) PROVE RunInv'
  BY <1>4 DEF KeepRetained, AtRemoved, Present
<1>5. ASSUME NEW i \in Instance, EnterRetention(i) PROVE RunInv'
  <2>1. requestinstance_db[i] \in Row
    BY <1>5, Fields DEF EnterRetention, AtRemoved
  <2>2. UNCHANGED <<node, instance_map, comparison, retained, timestamp, stamp, failures>>
        /\ i \in todo /\ todo' = todo \ {i}
    BY <1>5 DEF EnterRetention, AtRemoved
  <2>3. \A j \in Instance \ {i} : requestinstance_db'[j] = requestinstance_db[j]
    BY <1>5 DEF EnterRetention, TypeOK
  <2>4. requestinstance_db'[i].valid_parameter = "stopped"
    BY <1>5, <2>1 DEF EnterRetention, TypeOK, Row
  <2> QED
    BY <2>2, <2>3, <2>4 DEF Present, TypeOK
<1>6. ASSUME NEW i \in Instance, Destroy(i) PROVE RunInv'
  <2>1. UNCHANGED <<node, instance_map, comparison, retained, timestamp, stamp, failures>>
        /\ i \in todo /\ todo' = todo \ {i}
    BY <1>6 DEF Destroy, AtRemoved
  <2>2. \A j \in Instance : requestinstance_db'[j] = IF j = i THEN Absent ELSE requestinstance_db[j]
    BY <1>6 DEF Destroy, TypeOK
  <2> QED
    BY <2>1, <2>2 DEF Present, TypeOK
<1>7. CASE EndLoop
  BY <1>7 DEF EndLoop, Present
<1>8. CASE Bang \/ NoBang \/ Fail
  <2>1. ResetRun /\ UNCHANGED requestinstance_db /\ failures' \in Nat
    BY <1>8 DEF Bang, NoBang, Fail
  <2> QED
    BY <2>1 DEF ResetRun, Present
<1>9. CASE SlapgridStarts
  BY <1>9 DEF SlapgridStarts, Present
<1>10. CASE SlapgridEnds
  BY <1>0, <1>10, BangAssumption DEF SlapgridEnds, Present
<1>11. CASE Tick
  BY <1>11 DEF Tick, Present
<1>12. ASSUME NEW i \in Instance, ChangeRequest(i) PROVE RunInv'
  BY <1>12 DEF ChangeRequest, Present
<1>13. ASSUME NEW i \in Instance, ChangeCheck(i) PROVE RunInv'
  BY <1>13 DEF ChangeCheck, Present
<1>14. ASSUME NEW i \in Instance, Report(i) PROVE RunInv'
  BY <1>14 DEF Report, Present
<1> QED
  BY <1>1, <1>2, <1>3, <1>4, <1>5, <1>6, <1>7, <1>8, <1>9, <1>10, <1>11, <1>12, <1>13,
     <1>14 DEF Next, NodeStep, SlapgridStep

-----------------------------------------------------------------------------
(* What the history says. *)

Missed(i) == View(requestinstance_db)[i] # seen[i]

\* Slapgrid is to look again, or the verdict is one of those that may be missed.
Covered(i) ==
    \/ due
    \/ i \in lost
    \/ requestinstance_db[i] # Absent /\ i \in level

\* The run under way has changed the verdict, and what it left shows at its end.
Signalled(i) ==
    /\ node # "idle" /\ i \in wrote
    /\ \/ i \in comparison \ retained
       \/ requestinstance_db[i] # Absent /\ requestinstance_db[i].timestamp > timestamp
       \/ bang_requested

MissInv ==
    /\ node = "idle" => wrote = {}
    /\ wrote \cap todo = {}
    /\ \A i \in Instance : Missed(i) => Covered(i) \/ Signalled(i)

\* The date of a row is the second its verdict last changed in.
DateInv ==
    \A i \in Present(requestinstance_db) : requestinstance_db[i].timestamp = written[i]

\* The row of an instance did not change, nor did its verdict.
LEMMA SameRow ==
    ASSUME NEW j \in Instance, requestinstance_db'[j] = requestinstance_db[j]
    PROVE  View(requestinstance_db)'[j] = View(requestinstance_db)[j] /\ j \notin Changed
BY DEF View, Changed

\* A step that is neither a failure nor a pass of slapgrid, and does not change the verdict
\* of an instance, leaves what covers it.
LEMMA SameCover ==
    ASSUME RunInv, Remember, UNCHANGED <<failures, slapgrid, due, seen>>,
           NEW j \in Instance, j \notin Changed,
           requestinstance_db[j] # Absent => requestinstance_db'[j] # Absent
    PROVE  /\ Missed(j)' => Missed(j)
           /\ Covered(j) => Covered(j)'
           /\ j \in wrote /\ node' # "idle" => j \in wrote'
<1>1. ~Fail
  <2>1. failures' # failures + 1
    BY DEF RunInv
  <2> QED
    BY <2>1 DEF Fail
<1>2. ~SlapgridStarts
  BY DEF SlapgridStarts
<1>3. lost' = lost \ Changed
  BY <1>1, <1>2 DEF Remember
<1>4. View(requestinstance_db)'[j] = View(requestinstance_db)[j]
  BY DEF Changed
<1>5. j \in level => j \in level'
  BY DEF Remember
<1>6. j \in wrote /\ node' # "idle" => j \in wrote'
  BY DEF Remember
<1> QED
  BY <1>3, <1>4, <1>5, <1>6 DEF Missed, Covered

\* What the steps do to the verdicts: Process and EnterRetention leave a row, and change the
\* verdict exactly when they date it; Destroy removes the row, and changes the verdict.
LEMMA ChangeByProcess ==
    ASSUME TypeOK, RunInv, NEW i \in Instance, Process(i)
    PROVE  /\ \A j \in Instance \ {i} : requestinstance_db'[j] = requestinstance_db[j]
           /\ requestinstance_db'[i] # Absent
           /\ i \in Changed => requestinstance_db'[i].timestamp = now
           /\ i \notin Changed => requestinstance_db[i] # Absent
                 /\ requestinstance_db'[i].timestamp = requestinstance_db[i].timestamp
<1> DEFINE old == requestinstance_db[i]
           p == instance_map[i].parameters
           error == ErrorOf(i)
           same == old # Absent /\ old.parameters = p /\ old.error = error
                   /\ old.valid_parameter # "stopped"
<1>1. instance_map[i] # Absent
  BY DEF Process
<1>2. requestinstance_db' = [requestinstance_db EXCEPT ![i] = NewRow(i)]
  BY DEF Process, NewRow
<1>3. requestinstance_db'[i] = NewRow(i) /\ NewRow(i) # Absent /\ NewRow(i) \in Row
  BY <1>1, <1>2, NewRowType DEF TypeOK
<1>4. NewRow(i).timestamp = IF same THEN old.timestamp ELSE now
  BY DEF NewRow, NewTimestamp
<1>5. View(requestinstance_db)'[i] =
         [parameters |-> p, error |-> error,
          valid_parameter |-> IF error = "none" THEN "valid" ELSE "invalid"]
  <2>1. View(requestinstance_db)'[i] =
           [parameters |-> NewRow(i).parameters, valid_parameter |-> NewRow(i).valid_parameter,
            error |-> NewRow(i).error]
    BY <1>3 DEF View
  <2> QED
    BY <2>1 DEF NewRow
<1>6. View(requestinstance_db)[i] =
         IF old = Absent THEN Absent
         ELSE [parameters |-> old.parameters, valid_parameter |-> old.valid_parameter,
               error |-> old.error]
  BY DEF View
<1>7. View(requestinstance_db)'[i] # Absent
  <2>1. View(requestinstance_db)'[i] \in Verdict
    BY <1>3 DEF View, Verdict
  <2> QED
    BY <2>1, AbsentAssumption
<1>8. CASE same
  <2>1. old.valid_parameter = IF error = "none" THEN "valid" ELSE "invalid"
    BY <1>8 DEF RunInv, Present
  <2>2. View(requestinstance_db)'[i] = View(requestinstance_db)[i]
    BY <1>5, <1>6, <1>8, <2>1
  <2>3. i \notin Changed
    BY <2>2 DEF Changed
  <2> QED
    BY <1>2, <1>3, <1>4, <1>8, <2>3 DEF TypeOK
<1>9. CASE ~same
  <2>1. i \in Changed
    <3>1. CASE old = Absent
      BY <1>6, <1>7, <3>1 DEF Changed
    <3>2. CASE old # Absent
      <4>1. View(requestinstance_db)'[i].parameters = p /\ View(requestinstance_db)'[i].error = error
            /\ View(requestinstance_db)'[i].valid_parameter # "stopped"
        BY <1>5
      <4>2. View(requestinstance_db)[i].parameters = old.parameters
            /\ View(requestinstance_db)[i].error = old.error
            /\ View(requestinstance_db)[i].valid_parameter = old.valid_parameter
        BY <1>6, <3>2
      <4>3. View(requestinstance_db)'[i] # View(requestinstance_db)[i]
        BY <1>9, <3>2, <4>1, <4>2
      <4> QED
        BY <4>3 DEF Changed
    <3> QED
      BY <3>1, <3>2
  <2> QED
    BY <1>2, <1>3, <1>4, <1>9, <2>1 DEF TypeOK
<1> QED
  BY <1>8, <1>9

LEMMA ChangeByRetention ==
    ASSUME TypeOK, RunInv, NEW i \in Instance, EnterRetention(i)
    PROVE  /\ \A j \in Instance \ {i} : requestinstance_db'[j] = requestinstance_db[j]
           /\ requestinstance_db'[i] # Absent /\ requestinstance_db'[i].timestamp = now
           /\ i \in Changed
<1>1. requestinstance_db[i] # Absent /\ requestinstance_db[i] \in Row
  BY Fields DEF EnterRetention, AtRemoved, RunInv
<1>2. requestinstance_db' =
         [requestinstance_db EXCEPT ![i] =
             [requestinstance_db[i] EXCEPT !.valid_parameter = "stopped", !.timestamp = now]]
  BY <1>1 DEF EnterRetention, Row
<1>3. /\ requestinstance_db'[i] \in Row
      /\ requestinstance_db'[i].timestamp = now
      /\ requestinstance_db'[i].valid_parameter = "stopped"
  <2>1. now \in 0..MaxTime
    BY DEF TypeOK
  <2> QED
    BY <1>1, <1>2, <2>1 DEF TypeOK, Row
<1>4. requestinstance_db'[i] # Absent
  BY <1>3, AbsentAssumption
<1>5. View(requestinstance_db)'[i].valid_parameter = "stopped"
  BY <1>3, <1>4 DEF View
<1>6. View(requestinstance_db)[i].valid_parameter # "stopped"
  BY <1>1 DEF View, EnterRetention, Stopped
<1>7. i \in Changed
  BY <1>5, <1>6 DEF Changed
<1> QED
  BY <1>2, <1>3, <1>4, <1>7 DEF TypeOK

LEMMA ChangeByDestroy ==
    ASSUME TypeOK, RunInv, NEW i \in Instance, Destroy(i)
    PROVE  /\ \A j \in Instance \ {i} : requestinstance_db'[j] = requestinstance_db[j]
           /\ requestinstance_db'[i] = Absent
           /\ i \in Changed
<1>1. requestinstance_db[i] # Absent /\ requestinstance_db[i] \in Row
  BY Fields DEF Destroy, AtRemoved, RunInv
<1>2. requestinstance_db' = [requestinstance_db EXCEPT ![i] = Absent]
  BY DEF Destroy
<1>3. View(requestinstance_db)'[i] = Absent
  BY <1>2 DEF View, TypeOK
<1>4. View(requestinstance_db)[i] \in Verdict
  BY <1>1 DEF View, Verdict
<1>5. i \in Changed
  BY <1>3, <1>4, AbsentAssumption DEF Changed
<1> QED
  BY <1>2, <1>5 DEF TypeOK

\* The other steps do not write to the table of the node.
LEMMA TableStep ==
    ASSUME Next
    PROVE  \/ requestinstance_db' = requestinstance_db
           \/ \E i \in Instance : Process(i) \/ EnterRetention(i) \/ Destroy(i)
BY DEF Next, NodeStep, SlapgridStep, Install, KeepRetained, EndLoop, Bang, NoBang, Fail,
       SlapgridStarts, SlapgridEnds, Tick, ChangeRequest, ChangeCheck, Report

\* Every step keeps the dates.
LEMMA DateStep ==
    ASSUME TypeOK, HistoryTypeOK, RunInv, DateInv, [HNext]_<<vars, history>>
    PROVE  DateInv'
<1>1. CASE UNCHANGED <<vars, history>>
  BY <1>1 DEF DateInv, Present
<1>2. CASE HNext
  <2>1. Next /\ Remember
    BY <1>2 DEF HNext
  <2>2. \A j \in Instance : written'[j] = IF j \in Changed THEN now ELSE written[j]
    BY <2>1 DEF Remember
  <2> SUFFICES ASSUME NEW j \in Instance, requestinstance_db'[j] # Absent
               PROVE  requestinstance_db'[j].timestamp = written'[j]
    BY DEF DateInv, Present
  <2>3. CASE requestinstance_db'[j] = requestinstance_db[j]
    BY <2>2, <2>3, SameRow DEF DateInv, Present
  <2>4. CASE requestinstance_db'[j] # requestinstance_db[j]
    <3>1. PICK i \in Instance : Process(i) \/ EnterRetention(i) \/ Destroy(i)
      BY <2>1, <2>4, TableStep
    <3>2. i = j
      BY <2>4, <3>1, ChangeByProcess, ChangeByRetention, ChangeByDestroy
    <3>3. CASE Process(i)
      BY <2>2, <3>2, <3>3, ChangeByProcess DEF DateInv, Present
    <3>4. CASE EnterRetention(i)
      BY <2>2, <3>2, <3>4, ChangeByRetention
    <3>5. CASE Destroy(i)
      BY <3>2, <3>5, ChangeByDestroy
    <3> QED
      BY <3>1, <3>3, <3>4, <3>5
  <2> QED
    BY <2>3, <2>4
<1> QED
  BY <1>1, <1>2

-----------------------------------------------------------------------------
(* Verdicts slapgrid does not know of. *)

\* What the run under way has changed is not among what it has still to do.
LEMMA WroteStep ==
    ASSUME TypeOK, RunInv, MissInv, HNext
    PROVE  /\ node' = "idle" => wrote' = {}
           /\ wrote' \cap todo' = {}
<1>0. Remember /\ Next
  BY DEF HNext
<1>1. node' = "idle" => wrote' = {}
  BY <1>0 DEF Remember
<1>2. ASSUME node' # "idle", NEW j, j \in wrote', j \in todo' PROVE FALSE
  <2>1. j \in wrote \cup Changed
    BY <1>0, <1>2 DEF Remember
  <2>2. CASE j \in Changed
    <3>1. j \in Instance /\ requestinstance_db'[j] # requestinstance_db[j]
      <4>1. j \in Instance
        BY <2>2 DEF Changed
      <4> QED
        BY <2>2, <4>1, SameRow
    <3>2. PICK i \in Instance : Process(i) \/ EnterRetention(i) \/ Destroy(i)
      BY <1>0, <3>1, TableStep
    <3>3. i = j
      BY <3>1, <3>2, ChangeByProcess, ChangeByRetention, ChangeByDestroy
    <3>4. todo' = todo \ {i}
      BY <3>2 DEF Process, EnterRetention, Destroy
    <3> QED
      BY <1>2, <3>3, <3>4
  <2>3. CASE j \in wrote
    <3>1. j \notin todo /\ node # "idle"
      BY <2>3 DEF MissInv
    <3>2. todo' \subseteq todo
      BY <1>0, <1>2, <3>1
      DEF Next, NodeStep, SlapgridStep, Install, Process, KeepRetained, EnterRetention, Destroy,
          EndLoop, Bang, NoBang, Fail, ResetRun, SlapgridStarts, SlapgridEnds, Tick,
          ChangeRequest, ChangeCheck, Report
    <3> QED
      BY <1>2, <3>1, <3>2
  <2> QED
    BY <2>1, <2>2, <2>3
<1> QED
  BY <1>1, <1>2

\* A run that changes a verdict leaves a signal, or changes it in the second it has for
\* .timestamp.
LEMMA ProcessMiss ==
    ASSUME TypeOK, RunInv, MissInv, Remember, NEW i \in Instance, Process(i), Missed(i)'
    PROVE  Covered(i)' \/ Signalled(i)'
<1>1. /\ node = "loop" /\ i \in todo
      /\ UNCHANGED <<node, timestamp, stamp, due, seen, failures, slapgrid>>
  BY DEF Process
<1>2. CASE i \in Changed
  <2>1. requestinstance_db'[i] # Absent /\ requestinstance_db'[i].timestamp = now
    BY <1>2, ChangeByProcess
  <2>2. now \in Nat /\ timestamp \in 0..now
    BY BangAssumption DEF TypeOK
  <2>3. CASE now = timestamp
    <3>1. i \in level'
      BY <1>2, <2>3 DEF Remember
    <3> QED
      BY <2>1, <3>1 DEF Covered
  <2>4. CASE now > timestamp
    <3>1. i \in wrote'
      BY <1>1, <1>2 DEF Remember
    <3> QED
      BY <1>1, <2>1, <2>4, <3>1 DEF Signalled
  <2> QED
    BY <2>2, <2>3, <2>4
<1>3. CASE i \notin Changed
  <2>1. requestinstance_db'[i] # Absent
    BY ChangeByProcess
  <2>2. Missed(i) /\ (Covered(i) => Covered(i)')
    BY <1>1, <1>3, <2>1, SameCover
  <2>3. ~Signalled(i)
    BY <1>1 DEF Signalled, MissInv
  <2> QED
    BY <2>2, <2>3 DEF MissInv
<1> QED
  BY <1>2, <1>3

LEMMA MissStep ==
    ASSUME TypeOK, HistoryTypeOK, RunInv, MissInv, [HNext]_<<vars, history>>
    PROVE  MissInv'
<1>1. CASE UNCHANGED <<vars, history>>
  BY <1>1 DEF MissInv, Missed, Covered, Signalled, View
<1>2. CASE HNext
  <2> SUFFICES ASSUME NEW j \in Instance, Missed(j)'
               PROVE  Covered(j)' \/ Signalled(j)'
    BY <1>2, WroteStep DEF MissInv
  <2>1. Next /\ Remember
    BY <1>2 DEF HNext
  <2>2. Missed(j) => Covered(j) \/ Signalled(j)
    BY DEF MissInv
  <2>3. ASSUME requestinstance_db' = requestinstance_db,
               UNCHANGED <<failures, slapgrid, due, seen>>,
               Signalled(j) => Signalled(j)'
        PROVE  Covered(j)' \/ Signalled(j)'
    BY <2>1, <2>2, <2>3, SameRow, SameCover
  <2>4. CASE Install
    BY <2>3, <2>4 DEF Install, Signalled
  <2>5. ASSUME NEW i \in Instance, Process(i) PROVE Covered(j)' \/ Signalled(j)'
    <3>1. CASE i = j
      BY <2>1, <2>5, <3>1, ProcessMiss
    <3>2. CASE i # j
      <4>1. requestinstance_db'[j] = requestinstance_db[j]
        BY <2>5, <3>2, ChangeByProcess
      <4>2. /\ UNCHANGED <<failures, slapgrid, due, seen, node, comparison, retained, timestamp>>
            /\ bang_requested => bang_requested'
        BY <2>5 DEF Process
      <4>3. Missed(j) /\ (Covered(j) => Covered(j)') /\ (j \in wrote /\ node' # "idle" => j \in wrote')
        BY <2>1, <4>1, <4>2, SameRow, SameCover
      <4>4. Signalled(j) => Signalled(j)'
        BY <4>1, <4>2, <4>3 DEF Signalled
      <4> QED
        BY <2>2, <4>3, <4>4
    <3> QED
      BY <3>1, <3>2
  <2>6. ASSUME NEW i \in Instance, KeepRetained(i) PROVE Covered(j)' \/ Signalled(j)'
    <3>1. /\ requestinstance_db' = requestinstance_db /\ i \in todo
          /\ retained' = retained \cup {i}
          /\ UNCHANGED <<failures, slapgrid, due, seen, node, comparison, timestamp,
                         bang_requested>>
      BY <2>6 DEF KeepRetained, AtRemoved
    <3>2. j \in wrote => j # i /\ j \in wrote \cup Changed
      BY <3>1 DEF MissInv
    <3>3. Signalled(j) => Signalled(j)'
      BY <2>1, <3>1, <3>2 DEF Signalled, Remember
    <3> QED
      BY <2>3, <3>1, <3>3
  <2>7. ASSUME NEW i \in Instance, EnterRetention(i) \/ Destroy(i)
        PROVE  Covered(j)' \/ Signalled(j)'
    <3>1. /\ i \in todo /\ instance_map[i] = Absent /\ node = "loop"
          /\ UNCHANGED <<seen, due, failures, slapgrid, node, comparison, retained, timestamp,
                         bang_requested>>
      BY <2>7 DEF EnterRetention, Destroy, AtRemoved
    <3>2. CASE i = j
      <4>1. i \in comparison \ retained
        BY <3>1 DEF RunInv
      <4>2. i \in wrote'
        BY <2>1, <2>7, <3>1, ChangeByRetention, ChangeByDestroy DEF Remember
      <4> QED
        BY <3>1, <3>2, <4>1, <4>2 DEF Signalled
    <3>3. CASE i # j
      <4>1. requestinstance_db'[j] = requestinstance_db[j]
        BY <2>7, <3>3, ChangeByRetention, ChangeByDestroy
      <4>2. Missed(j) /\ (Covered(j) => Covered(j)') /\ (j \in wrote /\ node' # "idle" => j \in wrote')
        BY <2>1, <3>1, <4>1, SameRow, SameCover
      <4>3. Signalled(j) => Signalled(j)'
        BY <3>1, <4>1, <4>2 DEF Signalled
      <4> QED
        BY <2>2, <4>2, <4>3
    <3> QED
      BY <3>2, <3>3
  <2>8. CASE EndLoop
    <3>1. Signalled(j) => Signalled(j)'
      BY <2>1, <2>8 DEF EndLoop, Signalled, Remember
    <3> QED
      BY <2>3, <2>8, <3>1 DEF EndLoop
  <2>9. CASE Bang
    BY <2>9 DEF Bang, Covered
  <2>10. CASE NoBang
    <3>1. ~Signalled(j)
      BY <2>10 DEF NoBang, NeedsReprocessing, Signalled, Present
    <3> QED
      BY <2>3, <2>10, <3>1 DEF NoBang
  <2>11. CASE Fail
    <3>1. requestinstance_db' = requestinstance_db /\ UNCHANGED <<seen, due>>
      BY <2>11 DEF Fail
    <3>2. lost' = lost \cup wrote
      BY <2>1, <2>11 DEF Remember
    <3>3. Missed(j) /\ j \notin Changed
      BY <3>1, SameRow DEF Missed
    <3>4. j \in level => j \in level'
      BY <2>1, <3>3 DEF Remember
    <3>5. Covered(j) => Covered(j)'
      BY <3>1, <3>2, <3>4 DEF Covered
    <3>6. Signalled(j) => Covered(j)'
      BY <3>2 DEF Signalled, Covered
    <3> QED
      BY <2>2, <3>3, <3>5, <3>6
  <2>12. CASE SlapgridStarts
    BY <2>12 DEF SlapgridStarts, Missed, View
  <2>13. CASE SlapgridEnds
    <3>1. /\ UNCHANGED <<requestinstance_db, seen, due, failures, node, todo, comparison, retained,
                         timestamp, bang_requested>>
          /\ slapgrid = "busy"
      BY <2>13 DEF SlapgridEnds
    <3>2. ~Fail /\ ~SlapgridStarts
      BY <3>1 DEF Fail, SlapgridStarts, RunInv
    <3>3. Missed(j) /\ j \notin Changed
      BY <3>1, SameRow DEF Missed
    <3>4. Covered(j) => Covered(j)'
      BY <2>1, <3>1, <3>2, <3>3 DEF Remember, Covered
    <3>5. Signalled(j) => Signalled(j)'
      BY <2>1, <3>1 DEF Remember, Signalled
    <3> QED
      BY <2>2, <3>3, <3>4, <3>5
  <2>14. CASE Tick \/ (\E i \in Instance : ChangeCheck(i) \/ Report(i))
    <3>1. UNCHANGED <<requestinstance_db, seen, due, failures, slapgrid, node, comparison,
                      retained, timestamp, bang_requested>>
      BY <2>14 DEF Tick, ChangeCheck, Report
    <3>2. Signalled(j) => Signalled(j)'
      BY <2>1, <3>1 DEF Remember, Signalled
    <3> QED
      BY <2>3, <3>1, <3>2
  <2>15. ASSUME NEW i \in Instance, ChangeRequest(i) PROVE Covered(j)' \/ Signalled(j)'
    BY <2>15 DEF ChangeRequest, Covered
  <2> QED
    BY <2>1, <2>4, <2>5, <2>6, <2>7, <2>8, <2>9, <2>10, <2>11, <2>12, <2>13, <2>14, <2>15
    DEF Next, NodeStep, SlapgridStep
<1> QED
  BY <1>1, <1>2

\* Every step keeps the types of the history.
LEMMA HistoryTypeStep ==
    ASSUME TypeOK, HistoryTypeOK, RunInv, [HNext]_<<vars, history>>
    PROVE  HistoryTypeOK'
<1>0. now \in Nat /\ now \in 0..now
  BY BangAssumption DEF TypeOK
<1>1. CASE UNCHANGED <<vars, history>>
  BY <1>1 DEF HistoryTypeOK
<1>2. CASE HNext
  <2>1. Remember /\ Changed \subseteq Instance
    BY <1>2 DEF HNext, Changed
  <2>2. now' = now \/ now' = now + 1
    BY <1>2 DEF HNext, Next, NodeStep, SlapgridStep, Install, Process, KeepRetained,
                EnterRetention, Destroy, EndLoop, Bang, NoBang, Fail, SlapgridStarts, SlapgridEnds,
                Tick, ChangeRequest, ChangeCheck, Report
  <2>3. 0..now \subseteq 0..now'
    BY <1>0, <2>2
  <2>4. written' \in [Instance -> 0..now']
    BY <1>0, <2>1, <2>3 DEF Remember, HistoryTypeOK
  <2> QED
    BY <2>1, <2>4 DEF Remember, HistoryTypeOK
<1> QED
  BY <1>1, <1>2

-----------------------------------------------------------------------------
(* The theorems. *)

IInv == TypeOK /\ HistoryTypeOK /\ RunInv /\ DateInv /\ MissInv

LEMMA Inductive == HSpec => []IInv
<1>1. HInit => IInv
  <2> SUFFICES ASSUME HInit PROVE IInv
    OBVIOUS
  <2> USE DEF HInit
  <2>1. 0 \in 0..MaxTime /\ 0 \in 0..0
    BY BangAssumption
  <2>2. TypeOK
    BY <2>1, BangAssumption DEF Init, TypeOK, Present
  <2>3. RunInv
    BY DEF Init, RunInv, Present
  <2>4. \A i \in Instance : ~Missed(i)
    BY DEF Init, Missed, View
  <2>5. HistoryTypeOK /\ DateInv
    BY <2>1 DEF Init, HistoryTypeOK, DateInv, Present
  <2> QED
    BY <2>2, <2>3, <2>4, <2>5 DEF Init, MissInv, IInv
<1>2. IInv /\ [HNext]_<<vars, history>> => IInv'
  <2> SUFFICES ASSUME IInv, [HNext]_<<vars, history>> PROVE IInv'
    OBVIOUS
  <2>1. [Next]_vars
    BY DEF HNext
  <2> QED
    BY <2>1, TypeStep, RunStep, HistoryTypeStep, DateStep, MissStep DEF IInv
<1> QED
  BY <1>1, <1>2, PTL DEF HSpec

\* TypeOK and HistoryTypeOK: the tables, the sets and the clock of the node, of slapgrid and
\* of SlapOS Master, and what is remembered of them, keep their types whatever they do and
\* in whatever order.
THEOREM TypeCorrect == HSpec => [](TypeOK /\ HistoryTypeOK)
<1>1. IInv => TypeOK /\ HistoryTypeOK
  BY DEF IInv
<1> QED
  BY <1>1, Inductive, PTL

\* OnlySameSecondIsMissed: when nothing is under way, a verdict slapgrid has not read was
\* changed in the very second the run had for .timestamp, or by a run that died.
THEOREM MissedOnlyInTheSameSecond == HSpec => []OnlySameSecondIsMissed
<1>1. IInv => OnlySameSecondIsMissed
  BY DEF IInv, MissInv, OnlySameSecondIsMissed, Quiet, Missed, Covered, Signalled
<1> QED
  BY <1>1, Inductive, PTL

\* RetainedForTheDelay: with a retention delay, an instance is forgotten only when it is
\* stopped and the delay is over since its verdict became that, and it is not retained any
\* longer then.  (Without a delay it is destroyed at once.)
THEOREM RetentionIsKept ==
    ASSUME Delay > 0
    PROVE  HSpec => RetainedForTheDelay
<1> DEFINE Kept == \A i \in Instance :
          /\ requestinstance_db[i] # Absent /\ requestinstance_db'[i] = Absent
                => Stopped(i) /\ now >= written[i] + Delay
          /\ i \in retained' \ retained => now < written[i] + Delay
<1>1. IInv /\ [HNext]_<<vars, history>> => [Kept]_<<vars, history>>
  <2> SUFFICES ASSUME IInv, [HNext]_<<vars, history>>, NEW i \in Instance
               PROVE  /\ requestinstance_db[i] # Absent /\ requestinstance_db'[i] = Absent
                            => Stopped(i) /\ now >= written[i] + Delay
                      /\ i \in retained' \ retained => now < written[i] + Delay
    OBVIOUS
  <2> USE DEF IInv
  <2>0. [Next]_vars
    BY DEF HNext
  <2>1. now \in Nat /\ Delay \in Nat /\ written[i] \in Nat
    BY BangAssumption DEF TypeOK, HistoryTypeOK
  <2>2. ASSUME requestinstance_db[i] # Absent, requestinstance_db'[i] = Absent
        PROVE  Stopped(i) /\ now >= written[i] + Delay
    <3>1. requestinstance_db' # requestinstance_db
      BY <2>2
    <3>2. PICK j \in Instance : Process(j) \/ EnterRetention(j) \/ Destroy(j)
      BY <2>0, <3>1, TableStep
    <3>3. Destroy(j) /\ i = j
      BY <2>2, <3>2, ChangeByProcess, ChangeByRetention, ChangeByDestroy
    <3>4. Stopped(i) /\ Expired(i)
      BY <3>3 DEF Destroy
    <3>5. requestinstance_db[i].timestamp = written[i]
      BY <2>2 DEF DateInv, Present
    <3> QED
      BY <2>1, <3>4, <3>5 DEF Expired
  <2>3. ASSUME i \in retained', i \notin retained PROVE now < written[i] + Delay
    <3>1. PICK j \in Instance : KeepRetained(j)
      BY <2>0, <2>3
      DEF Next, NodeStep, SlapgridStep, Install, Process, EnterRetention, Destroy, EndLoop, Bang,
          NoBang, Fail, ResetRun, SlapgridStarts, SlapgridEnds, Tick, ChangeRequest, ChangeCheck,
          Report
    <3>2. i = j /\ ~Expired(i) /\ i \in todo /\ instance_map[i] = Absent
      BY <2>3, <3>1 DEF KeepRetained, AtRemoved
    <3>3. requestinstance_db[i].timestamp = written[i]
      BY <3>2 DEF DateInv, Present, RunInv
    <3> QED
      BY <2>1, <3>2, <3>3 DEF Expired
  <2> QED
    BY <2>2, <2>3
<1>2. HSpec => [][Kept]_<<vars, history>>
  BY <1>1, Inductive, PTL DEF HSpec
<1> QED
  BY <1>2 DEF RetainedForTheDelay

=============================================================================
