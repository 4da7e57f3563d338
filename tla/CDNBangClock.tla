---------------------------- MODULE CDNBangClock ----------------------------
(***************************************************************************)
(* CDNBang under the fairness of its schedulers, with a clock that never   *)
(* stops.                                                                  *)
(*                                                                         *)
(* A clock that stops at its bound would hide a node that goes on writing  *)
(* later and later dates.  But the node only compares dates, and looks how *)
(* long ago an instance was put into retention: a second that nothing is   *)
(* dated by, and that no delay still depends on, makes no difference, and  *)
(* Forget takes it out of the count.  MaxTime is then the number of dates  *)
(* that may be in use at once, and no bound of the time that passes.       *)
(***************************************************************************)
EXTENDS CDNBang

\* The seconds something is dated by.
Dates ==
    {now} \cup ({stamp} \ {Missing}) \cup (IF node = "idle" THEN {} ELSE {timestamp})
          \cup {requestinstance_db[i].timestamp : i \in Present(requestinstance_db)}

\* A date when second u does not count any more.
Earlier(date, u) == IF date > u THEN date - 1 ELSE date

\* The second is past, nothing is dated by it, and it is in no delay that still runs.
Forgettable(u) ==
    /\ u \in (0..now) \ Dates
    /\ \A i \in Present(requestinstance_db) :
          Stopped(i) /\ requestinstance_db[i].timestamp < u
              => now - requestinstance_db[i].timestamp > Delay

Forget(u) ==
    /\ Forgettable(u)
    /\ now' = now - 1
    /\ stamp' = IF stamp = Missing THEN stamp ELSE Earlier(stamp, u)
    /\ timestamp' = Earlier(timestamp, u)
    /\ requestinstance_db' =
          [i \in Instance |->
              IF requestinstance_db[i] = Absent THEN Absent
              ELSE [requestinstance_db[i] EXCEPT !.timestamp = Earlier(@, u)]]
    /\ UNCHANGED <<world, instance_db, rendered, seen, slapgrid, due, node, todo, instance_map,
                   comparison, retained, bang_requested, changes, failures>>

Seconds == 0..MaxTime

\* A second is forgotten as soon as it can be.
EndlessNext ==
    \/ \E u \in Seconds : Forget(u)
    \/ (\A u \in Seconds : ~Forgettable(u)) /\ Next

\* Cron runs the node, slapos node instance processes a partition that is due, and
\* the frontends report the instances they serve.
FairSpec ==
    /\ Init /\ [][EndlessNext]_vars
    /\ WF_vars(\E u \in Seconds : Forget(u))
    /\ WF_vars(NodeStep) /\ WF_vars(SlapgridStep)
    /\ \A i \in Instance : WF_vars(Report(i))

-----------------------------------------------------------------------------
(* Liveness. *)

\* A verdict slapgrid does not know of, because the run that wrote it did not get to
\* its bang, is banged for by a later run if it is younger than .timestamp.
Unseen(i) ==
    /\ requestinstance_db[i] # Absent
    /\ View(requestinstance_db)[i] # seen[i]

MissedBangIsMadeGood ==
    \A i \in Instance :
        Quiet /\ stamp # Missing /\ Unseen(i) /\ requestinstance_db[i].timestamp > stamp
            ~> ~Unseen(i)

\* The bangs stop once the requests and the checks stop changing: the node does not
\* wake slapgrid for ever.
BangsStop == <>[][~Bang]_vars

\* They do stop when there is still an instance requested: slapconfiguration then
\* records the list, and no instance that is gone waits for its publish section.  Rows
\* that fail in every run, and rows in retention, do not wake slapgrid again and again,
\* however long they stay.
BangsStopWhileRequested == <>[](Present(requested) # {}) => BangsStop

\* An instance that stays requested and passes the checks ends up valid, although
\* its publish section is rendered only by a later pass of slapgrid than the one that
\* recorded it.
AcceptedBecomesValid ==
    <>[](\A i \in Instance :
            instance_db[i] # Absent /\ requested[i] = instance_db[i] /\ i \in passes
                => requestinstance_db[i] # Absent
                   /\ requestinstance_db[i].valid_parameter = "valid")
=============================================================================
